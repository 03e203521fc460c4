-------------------------- MODULE RuntimeAdapter --------------------------
(* ClaudeAgentSDKRuntime (runtime.py): preflight, the turn generator that   *)
(* the Hermes host drives, and close, over one SDK session at a time and    *)
(* the tool bridge.                                                         *)
(*                                                                          *)
(* run_turn() runs without interruption from its call to the creation of    *)
(* the session task; after that it stops at the await of its queue, at a    *)
(* yield, in session.cancel() and at the await of the task, and each stop   *)
(* is a value of gen[t].pc.  The session is reduced to what SDKSession.tla  *)
(* shows of it: its task waits for the turn lock, sends projections, and    *)
(* returns; cancel() tells the task, interrupts the client, and closes.     *)
(*                                                                          *)
(* The host drives one generator at a time.  It may drop one at a yield     *)
(* (GeneratorExit, which no clause handles) and cancel the task that runs   *)
(* one at any await.                                                        *)
EXTENDS ToolBridge, Sequences

CONSTANTS
  Requests,         \* request objects
  ContractOf,       \* provider, model, mode, tools and prompt of each
  HostOf,           \* the host object that passes it to run_turn()
  None,             \* Python's None
  MaxProjections,   \* bound: projections of a turn
  MaxCancels        \* bound: cancellations of a task that runs a generator

ASSUME RequestAssumption ==
  /\ None \notin Requests
  /\ \A r \in Requests : HostOf[r] # None /\ ContractOf[r] # None

ASSUME BoundAssumption == MaxProjections \in Nat /\ MaxCancels \in Nat

VARIABLES
  closed,     \* _closed
  token,      \* _preflight_request
  host,       \* _host
  contract,   \* _session_contract
  current,    \* the number of the session in _session, 0 for None
  sess,       \* of each session: _closed and _cancel_requested
  gen,        \* of each turn: its generator
  task,       \* of each turn: its session task and its queue
  fresh,      \* the request of the last preflight, if it passed and no turn
              \* has used it
  prompts,    \* what was sent to the CLI
  work,       \* of each session: the turns whose prompts its CLI works on
  stray,      \* the turns whose CLI was left behind at work
  late,       \* the calls that were made once their turn had ended
  cancels     \* cancelled tasks so far

binding == <<host, contract, current>>
cli == <<work, stray>>
vars == <<closed, token, binding, sess, gen, task, fresh, prompts, cli, late,
          cancels, bridgeVars>>

(* What a projection holds: visible text, a tool of Hermes, a tool that is  *)
(* none, a compaction phase, or the result with its usage.                  *)
Kinds == {"content", "tool", "unlisted", "notice", "result"}
Phases == {"preflight", "before", "visible", "effects"}
Results == {"none", "complete", "cancelled", "failed", "blocked", "raised",
            "killed"}
Sessions == Turns

(* The local variables of a generator, and what is kept of its task. *)
Generators ==
  [pc : {"unstarted", "loop", "yielded", "cancelling", "native",
         "nativeTask", "failing", "dying", "ended"},
   start : Nat, visible : BOOLEAN,
   cancel : {"unsent", "sent", "unavailable"}, phase : Phases,
   terminals : Nat,
   out : {"none", "completed", "cancelled", "failed", "unlisted"},
   left : {"none", "returned", "abandoned", "killed", "cut"}]
SessionTasks ==
  [st : {"none", "waiting", "running", "answered", "retiring", "done"},
   req : Requests \cup {None}, cleared : BOOLEAN,
   sess : Sessions \cup {0}, told : BOOLEAN, result : Results,
   sent : 0..MaxProjections, queue : Seq(Kinds)]

OwnTypeOK ==
  /\ BridgeTypeOK
  /\ closed \in BOOLEAN
  /\ token \in Requests \cup {None}
  /\ host \in {HostOf[r] : r \in Requests} \cup {None}
  /\ contract \in {ContractOf[r] : r \in Requests} \cup {None}
  /\ current \in Sessions \cup {0}
  /\ sess \in [Sessions -> [closed : BOOLEAN, cancelReq : BOOLEAN]]
  /\ gen \in [Turns -> Generators]
  /\ task \in [Turns -> SessionTasks]
  /\ fresh \in Requests \cup {None}
  /\ prompts \subseteq [req : Requests, cleared : BOOLEAN]
  /\ cancels \in 0..MaxCancels
CliTypeOK ==
  /\ work \in [Sessions -> SUBSET Turns]
  /\ stray \subseteq Turns /\ late \subseteq Calls
TypeOK == OwnTypeOK /\ CliTypeOK

NoTask ==
  [st |-> "none", req |-> None, cleared |-> FALSE, sess |-> 0,
   told |-> FALSE, result |-> "none", sent |-> 0, queue |-> <<>>]

Init ==
  /\ BridgeInit
  /\ closed = FALSE /\ token = None
  /\ host = None /\ contract = None /\ current = 0
  /\ sess = [s \in Sessions |-> [closed |-> FALSE, cancelReq |-> FALSE]]
  /\ gen = [t \in Turns |->
       [pc |-> "unstarted", start |-> 0, visible |-> FALSE,
        cancel |-> "unsent", phase |-> "before", terminals |-> 0,
        out |-> "none", left |-> "none"]]
  /\ task = [t \in Turns |-> NoTask]
  /\ fresh = None /\ prompts = {}
  /\ work = [s \in Sessions |-> {}] /\ stray = {} /\ late = {}
  /\ cancels = 0

----------------------------------------------------------------------------
(* Preflight and admission *)

(* Turn t is the next one, and the host is done with the one before. *)
IsNext(t) ==
  /\ gen[t].pc = "unstarted"
  /\ \A u \in Turns : u < t => gen[u].pc = "ended"

(* preflight(), which the host calls between turns: only a request whose    *)
(* selection, state, model and subscription all pass is remembered, and it  *)
(* replaces any other.                                                      *)
Preflight(r) ==
  /\ \E t \in Turns : IsNext(t)
  /\ token' \in {r, None} /\ fresh' = token'
  /\ UNCHANGED <<closed, binding, sess, gen, task, prompts, cli, late,
                 cancels, bridgeVars>>

(* Mutant: the token stays after its use. *)
TokenKept(r) == r

(* Mutant: the contract is kept instead of the request that was checked. *)
TokenContract(r) == ContractOf[r]

(* _consume_preflight(): the token is gone, whether it fits or not. *)
TokenAfterUse(r) == None

(* A request that holds the token needs no preflight; another is checked    *)
(* by run_turn() itself, with the answer ok.                                *)
Consumes(r, ok) ==
  /\ token' = IF token = r \/ ok THEN TokenAfterUse(r) ELSE None
  /\ fresh' = None

(* Everything that run_turn() checks before it touches the session. *)
Admitted(r, ok, poll, valid) ==
  /\ token = r \/ ok
  /\ ~closed
  /\ poll = "no"
  /\ host \in {None, HostOf[r]}
  /\ valid

(* A generator that is left, with its local variables. *)
Left(g, how) ==
  [g EXCEPT !.pc = "ended", !.left = how, !.start = 0, !.visible = FALSE,
            !.cancel = "unsent", !.phase = "before"]

(* A generator that will end once session.cancel() has returned, and reads  *)
(* none of its local variables again but what it then reports.              *)
Waits(g, point, phase) ==
  [g EXCEPT !.pc = point, !.start = 0, !.visible = FALSE, !.cancel = "unsent",
            !.phase = phase]

(* A generator that yields its terminal event and returns. *)
Ended(g, out, phase) ==
  [Left(g, "returned") EXCEPT !.out = out, !.phase = phase,
                              !.terminals = @ + 1]

(* Preflight, a closed runtime, a host that cancels or cannot say, another  *)
(* host, or an invalid turn input.                                          *)
RefuseTurn(t) ==
  \E r \in Requests, ok, valid \in BOOLEAN, poll \in Polls :
    /\ IsNext(t) /\ ~Admitted(r, ok, poll, valid)
    /\ Consumes(r, ok)
    /\ gen' = [gen EXCEPT ![t] =
         LET passed == token = r \/ ok IN
         Ended(@,
               IF passed /\ ~closed /\ poll = "yes" THEN "cancelled"
               ELSE "failed",
               IF passed THEN "before" ELSE "preflight")]
    /\ UNCHANGED <<closed, binding, sess, task, prompts, cli, late, cancels,
                   bridgeVars>>

(* can_restart_after_cancel *)
CanRestartRequested(s) == sess[s].cancelReq
CanRestart(s) == sess[s].closed /\ sess[s].cancelReq

(* The session contract is compared before a session is replaced. *)
CompatibleOrRestart(r) == contract = ContractOf[r] \/ CanRestart(current)
Compatible(r) == contract = ContractOf[r]

(* begin_turn() of the bridge and the projector, and the session task. *)
Launch(t, r, s, ok) ==
  /\ correlation' = BeginTurn(t)
  /\ gen' = [gen EXCEPT ![t].pc = "loop", ![t].start = executions]
  /\ task' = [task EXCEPT ![t].st = "waiting", ![t].req = r, ![t].sess = s,
                          ![t].cleared = IF token = r THEN fresh = r ELSE ok]
  /\ UNCHANGED <<executions, call>>

(* The first turn that gets here builds the bridge and the session. *)
OpenSession(t, r, ok) ==
  /\ current = 0
  /\ host' = HostOf[r] /\ contract' = ContractOf[r] /\ current' = 1
  /\ Launch(t, r, 1, ok)
  /\ UNCHANGED sess

(* The bridge, the configuration or the session cannot be built.  The host *)
(* stays bound; what else was set by then the next turn sets again.         *)
ConfigureFails(t, r) ==
  /\ current = 0
  /\ host' = HostOf[r]
  /\ gen' = [gen EXCEPT ![t] = Ended(@, "failed", "before")]
  /\ UNCHANGED <<contract, current, sess, task, bridgeVars>>

ContractChanged(t, r) ==
  /\ current # 0 /\ ~Compatible(r)
  /\ gen' = [gen EXCEPT ![t] = Ended(@, "failed", "before")]
  /\ UNCHANGED <<binding, sess, task, bridgeVars>>

SessionFor == IF CanRestart(current) THEN current + 1 ELSE current

(* A session that was cancelled is replaced, any other is used again. *)
UseSession(t, r, ok) ==
  /\ current # 0 /\ Compatible(r)
  /\ current' = SessionFor
  /\ Launch(t, r, SessionFor, ok)
  /\ UNCHANGED <<host, contract, sess>>

(* Mutant: the cancellation is not recorded. *)
RequestForgotten(s) == sess

(* The synchronous part of session.cancel(): the turn that holds the inbox *)
(* is told.  A closed session is left alone.                                *)
Holds(u, s) ==
  task[u].sess = s /\ task[u].st \in {"running", "answered", "retiring"}
Requested(s) ==
  [sess EXCEPT ![s].cancelReq = @ \/ ~sess[s].closed]
Told(s) ==
  [u \in Turns |->
     [task[u] EXCEPT !.told = @ \/ (Holds(u, s) /\ ~sess[s].closed)]]

(* begin_turn() refuses the correlation id of a later turn: the except      *)
(* clause cancels the session, while bridge_execution_start is still 0.     *)
BeginTurnRaises(t, r) ==
  /\ current # 0 /\ Compatible(r)
  /\ current' = SessionFor
  /\ sess' = Requested(SessionFor)
  /\ task' = Told(SessionFor)
  /\ gen' = [gen EXCEPT ![t].pc = "failing"]
  /\ UNCHANGED <<host, contract, bridgeVars>>

StartTurn(t) ==
  \E r \in Requests, ok \in BOOLEAN :
    /\ IsNext(t) /\ Admitted(r, ok, "no", TRUE)
    /\ Consumes(r, ok)
    /\ \/ OpenSession(t, r, ok) \/ ConfigureFails(t, r)
       \/ ContractChanged(t, r) \/ UseSession(t, r, ok)
       \/ BeginTurnRaises(t, r)
    /\ UNCHANGED <<closed, prompts, cli, late, cancels>>

----------------------------------------------------------------------------
(* The session task: SDKSession.run_turn() as the runtime sees it *)

SessionStep == UNCHANGED <<closed, token, binding, gen, fresh, cancels>>

(* A task that is done is left with its result and its queue, or nothing   *)
(* if the generator is gone; a task that runs on has nobody to read it.     *)
Done(t, result) ==
  IF gen[t].pc = "ended" THEN NoTask
  ELSE [NoTask EXCEPT !.st = "done", !.result = result,
                      !.queue = task[t].queue]
Released(k) == IF k.st = "done" THEN NoTask ELSE [k EXCEPT !.queue = <<>>]
Returns(t, result) == task' = [task EXCEPT ![t] = Done(t, result)]

(* close() gives up on a client that does not disconnect in time or at all, *)
(* and counts as done, for who asks meanwhile, from its beginning: the CLI  *)
(* is gone, or it is left behind with the prompts it was working on (for    *)
(* good, even if a later close() gets rid of it).                           *)
CloseSession(s) ==
  /\ sess' = [sess EXCEPT ![s].closed = TRUE]
  /\ work' = [work EXCEPT ![s] = {}]
  /\ stray' \in {stray, stray \cup work[s]}

(* A CLI is done with the prompt of turn t, or is left behind working on    *)
(* it: nobody will end that work.                                           *)
WorkedOn(t) == \E s \in Sessions : t \in work[s]
WorkEnds(t) == work' = [s \in Sessions |-> work[s] \ {t}]
LeaveBehind(t) ==
  WorkEnds(t) /\ stray' = IF WorkedOn(t) THEN stray \cup {t} ELSE stray

(* The turn lock is free, and the prompt is sent. *)
HasLock(t) ==
  task[t].st = "waiting" /\ \A u \in Turns : ~Holds(u, task[t].sess)
TaskStarts(t) ==
  /\ HasLock(t)
  /\ ~sess[task[t].sess].closed /\ ~sess[task[t].sess].cancelReq
  /\ task' = [task EXCEPT ![t].st = "running"]
  /\ prompts' = prompts \cup
       {[req |-> task[t].req, cleared |-> task[t].cleared]}
  /\ work' = [work EXCEPT ![task[t].sess] = @ \cup {t}]
  /\ SessionStep /\ UNCHANGED <<sess, stray, late, bridgeVars>>

(* A closed session refuses the turn; one whose cancel() has begun and not  *)
(* closed it reports that the turn is cancelled.                            *)
TaskRefused(t) ==
  /\ HasLock(t)
  /\ \/ sess[task[t].sess].closed /\ Returns(t, "failed")
     \/ /\ ~sess[task[t].sess].closed /\ sess[task[t].sess].cancelReq
        /\ Returns(t, "cancelled")
  /\ SessionStep /\ UNCHANGED <<sess, prompts, cli, late, bridgeVars>>

(* on_projection() and on_compaction_event() put into the queue of the      *)
(* turn; the projection of the result comes before its outcome is known.    *)
Project(t, k) ==
  /\ task[t].st = "running" /\ task[t].sent < MaxProjections
  /\ task' = [task EXCEPT ![t].sent = @ + 1, ![t].queue = Append(@, k),
                          ![t].st = IF k = "result" THEN "answered" ELSE @]
  /\ SessionStep /\ UNCHANGED <<sess, prompts, cli, late, bridgeVars>>

(* After its result a turn completes, fails or was aborted; before it, it   *)
(* is told to cancel or fails.                                              *)
Outcomes(t) ==
  {"failed"} \cup (IF task[t].st = "answered" THEN {"complete", "cancelled"}
                   ELSE IF task[t].told THEN {"cancelled"} ELSE {})

(* The CLI is done with a prompt whose result was taken.  When its stream   *)
(* fails or ends before, the turn fails, and the session stays open with a  *)
(* CLI that may work on.  A turn that is told leaves it to the close().     *)
CliAfter(t, result) ==
  CASE task[t].st = "answered" -> WorkEnds(t) /\ UNCHANGED stray
    [] task[t].st = "running" /\ result = "failed" -> LeaveBehind(t)
    [] OTHER -> UNCHANGED cli

TaskReturns(t) ==
  /\ task[t].st \in {"running", "answered"}
  /\ \E result \in Outcomes(t) : Returns(t, result) /\ CliAfter(t, result)
  /\ SessionStep /\ UNCHANGED <<sess, prompts, late, bridgeVars>>

(* start() or bind() raises, before anything was read. *)
TaskRaises(t) ==
  /\ task[t].st = "running" /\ task[t].sent = 0
  /\ Returns(t, "raised")
  /\ WorkEnds(t)
  /\ SessionStep /\ UNCHANGED <<sess, prompts, stray, late, bridgeVars>>

(* A violation or a billing block: the client is interrupted, then the      *)
(* session closed, before run_turn() returns.                               *)
TaskRetires(t) ==
  /\ task[t].st \in {"running", "answered"}
  /\ \E result \in {"failed", "blocked"} :
       task' = [task EXCEPT ![t].st = "retiring", ![t].result = result]
  /\ SessionStep /\ UNCHANGED <<sess, prompts, cli, late, bridgeVars>>

TaskRetired(t) ==
  /\ task[t].st = "retiring"
  /\ CloseSession(task[t].sess)
  /\ Returns(t, task[t].result)
  /\ SessionStep /\ UNCHANGED <<prompts, late, bridgeVars>>

(* A CLI that works on the prompt of turn t calls a tool of the bridge,     *)
(* which does not ask whether that turn, or any turn, is still running.     *)
ToolCall(c, t) ==
  /\ t \in stray \/ WorkedOn(t)
  /\ Refuse(c, t) \/ \E poll \in Polls : Execute(c, t, poll)
  /\ late' = IF gen[t].pc = "ended" THEN late \cup {c} ELSE late
  /\ SessionStep /\ UNCHANGED <<sess, task, prompts, cli>>

ToolReturns(c) ==
  /\ HostReturns(c)
  /\ SessionStep /\ UNCHANGED <<sess, task, prompts, cli, late>>

----------------------------------------------------------------------------
(* The generator of a turn *)

GeneratorStep ==
  UNCHANGED <<closed, token, binding, fresh, prompts, late, bridgeVars>>

(* Mutant: visible output is asked for before the effects. *)
PhaseVisibleFirst(t) ==
  IF gen[t].visible THEN "visible"
  ELSE IF executions > gen[t].start THEN "effects" ELSE "before"

(* How far the turn got, as a failure reports it. *)
Phase(t) ==
  IF executions > gen[t].start THEN "effects"
  ELSE IF gen[t].visible THEN "visible" ELSE "before"

Finished(t) == task[t].st = "done" /\ task[t].queue = <<>>

(* The poll of host.cancellation_requested() is due. *)
Poll(t, poll) ==
  /\ gen[t].pc = "loop" /\ gen[t].cancel = "unsent" /\ ~Finished(t)
  /\ poll # "no"
  /\ gen' = [gen EXCEPT ![t].pc = "cancelling",
       ![t].cancel = IF poll = "yes" THEN "sent" ELSE "unavailable"]
  /\ sess' = Requested(current) /\ task' = Told(current)
  /\ GeneratorStep /\ UNCHANGED <<cli, cancels>>

(* The events of a projection, and those that reach the host: the terminal *)
(* event is the generator's own, and tools run through the bridge alone.    *)
Events(k) ==
  CASE k = "content" -> {"content"} [] k = "notice" -> {"compaction"}
    [] k = "result" -> {"usage", "completed"} [] OTHER -> {"tool"}
SurfacedCompleted(k) == Events(k) \ {"tool"}
Surfaced(k) == Events(k) \ {"completed", "tool"}

Take(t) ==
  /\ gen[t].pc = "loop" /\ task[t].queue # <<>>
  /\ LET k == Head(task[t].queue) IN
     /\ k # "unlisted"
     /\ gen' = [gen EXCEPT ![t].visible = @ \/ "content" \in Surfaced(k),
          ![t].terminals =
              IF "completed" \in Surfaced(k) THEN @ + 1 ELSE @,
          ![t].pc = IF Surfaced(k) = {} THEN "loop" ELSE "yielded"]
  /\ task' = [task EXCEPT ![t].queue = Tail(@)]
  /\ GeneratorStep /\ UNCHANGED <<sess, cli, cancels>>

(* A tool that is not one of Hermes' own.  The phase is read here, before   *)
(* session.cancel() and the task are awaited.                               *)
TakeUnlisted(t) ==
  /\ gen[t].pc = "loop" /\ task[t].queue # <<>>
  /\ Head(task[t].queue) = "unlisted"
  /\ gen' = [gen EXCEPT ![t] = Waits(@, "native", Phase(t))]
  /\ sess' = Requested(current)
  /\ task' = [Told(current) EXCEPT ![t].queue = Tail(@)]
  /\ GeneratorStep /\ UNCHANGED <<cli, cancels>>

(* The host takes the event and asks for the next one, or drops the         *)
(* generator; nobody then waits for the session task.                       *)
Resume(t) ==
  /\ gen[t].pc = "yielded"
  /\ gen' = [gen EXCEPT ![t].pc = "loop"]
  /\ GeneratorStep /\ UNCHANGED <<sess, task, cli, cancels>>

Abandon(t) ==
  /\ gen[t].pc = "yielded"
  /\ gen' = [gen EXCEPT ![t] = Left(@, "abandoned")]
  /\ task' = [task EXCEPT ![t] = Released(@)]
  /\ LeaveBehind(t)
  /\ GeneratorStep /\ UNCHANGED <<sess, cancels>>

(* The loop is over and the result of the task is reported. *)
Report(t) ==
  /\ gen[t].pc = "loop" /\ Finished(t) /\ task[t].result # "raised"
  /\ gen' = [gen EXCEPT ![t] =
       IF @.cancel = "unavailable" THEN Ended(@, "failed", Phase(t))
       ELSE CASE task[t].result = "complete" ->
                   Ended(@, "completed", @.phase)
              [] task[t].result = "cancelled" ->
                   Ended(@, "cancelled", @.phase)
              [] OTHER -> Ended(@, "failed", Phase(t))]
  /\ task' = [task EXCEPT ![t] = Released(@)]
  /\ GeneratorStep /\ UNCHANGED <<sess, cli, cancels>>

(* The task raised: the except clause cancels the session. *)
TaskFailed(t) ==
  /\ gen[t].pc = "loop" /\ Finished(t) /\ task[t].result = "raised"
  /\ gen' = [gen EXCEPT ![t].pc = "failing"]
  /\ sess' = Requested(current) /\ task' = Told(current)
  /\ GeneratorStep /\ UNCHANGED <<cli, cancels>>

(* session.cancel() has closed the session, or found it closed. *)
AfterCancel(t) ==
  LET g == gen[t] IN
  CASE g.pc = "cancelling" -> [g EXCEPT !.pc = "loop"]
    [] g.pc = "native" -> [g EXCEPT !.pc = "nativeTask"]
    [] g.pc = "failing" -> Ended(g, "failed", Phase(t))
    [] g.pc = "dying" -> Left(g, "killed")

Cancelling(t) == gen[t].pc \in {"cancelling", "native", "failing", "dying"}

CancelReturns(t) ==
  /\ Cancelling(t)
  /\ gen' = [gen EXCEPT ![t] = AfterCancel(t)]
  /\ CloseSession(current)
  /\ task' = IF gen[t].pc \in {"failing", "dying"}
             THEN [Told(current) EXCEPT ![t] = Released(@)]
             ELSE Told(current)
  /\ GeneratorStep /\ UNCHANGED cancels

(* The branch for an unlisted tool has waited for the task. *)
NativeReturns(t) ==
  /\ gen[t].pc = "nativeTask" /\ task[t].st = "done"
  /\ gen' = [gen EXCEPT ![t] = Ended(@, "unlisted", @.phase)]
  /\ task' = [task EXCEPT ![t] = Released(@)]
  /\ GeneratorStep /\ UNCHANGED <<sess, cli, cancels>>

(* The host cancels the task that runs the generator: the session is        *)
(* cancelled and the error passed on.  A second one, or one in the except   *)
(* clause, cuts session.cancel() short, before its close() or in it.  At    *)
(* the await of the session task that task is cancelled with it.            *)
CancelTask(t) ==
  /\ cancels < MaxCancels
  /\ cancels' = cancels + 1
  /\ \/ /\ gen[t].pc \in {"loop", "cancelling", "native", "nativeTask"}
        /\ gen' = [gen EXCEPT ![t] = Waits(@, "dying", "before")]
        /\ sess' = Requested(current)
        /\ task' = IF gen[t].pc = "nativeTask"
                   THEN [Told(current) EXCEPT ![t] = NoTask]
                   ELSE Told(current)
        /\ UNCHANGED cli
     \/ /\ gen[t].pc \in {"failing", "dying"}
        /\ gen' = [gen EXCEPT ![t] = Left(@, "cut")]
        /\ task' = [task EXCEPT ![t] = Released(@)]
        /\ UNCHANGED sess \/ sess' = [sess EXCEPT ![current].closed = TRUE]
        /\ LeaveBehind(t)
  /\ GeneratorStep

(* close() of the runtime *)
Close ==
  /\ ~closed
  /\ closed' = TRUE /\ token' = None /\ fresh' = None
  /\ IF current = 0 THEN UNCHANGED <<sess, task, cli>>
     ELSE CloseSession(current) /\ task' = Told(current)
  /\ UNCHANGED <<binding, gen, prompts, late, cancels, bridgeVars>>

----------------------------------------------------------------------------
TaskNext(t) ==
  \/ TaskStarts(t) \/ TaskRefused(t) \/ TaskRetired(t)
  \/ TaskReturns(t) \/ TaskRaises(t) \/ TaskRetires(t)
  \/ \E k \in Kinds : Project(t, k)
  \/ \E c \in Calls : ToolCall(c, t)
Drive(t) ==
  \/ Take(t) \/ TakeUnlisted(t) \/ Resume(t) \/ Report(t) \/ TaskFailed(t)
  \/ CancelReturns(t) \/ NativeReturns(t)
TurnNext(t) ==
  \/ RefuseTurn(t) \/ StartTurn(t) \/ Drive(t) \/ TaskNext(t)
  \/ Abandon(t) \/ CancelTask(t) \/ \E poll \in Polls : Poll(t, poll)

AllEnded ==
  /\ \A t \in Turns : gen[t].pc = "ended"
  /\ UNCHANGED vars

Next ==
  \/ \E t \in Turns : TurnNext(t)
  \/ \E r \in Requests : Preflight(r)
  \/ \E c \in Calls : ToolReturns(c)
  \/ Close
  \/ AllEnded

Spec == Init /\ [][Next]_vars

----------------------------------------------------------------------------
(* docs/maintainer-guide.md:173, "one terminal per turn": a generator that *)
(* the host drives to its end yields exactly one terminal event, and no    *)
(* other event after it, whatever the projections of the session hold.     *)
TerminalExactlyOnce ==
  \A t \in Turns :
    /\ gen[t].terminals <= 1
    /\ gen[t].terminals = 1 => gen[t].pc = "ended"
    /\ gen[t].left = "returned" => gen[t].terminals = 1

(* The tools of the host that were run for the prompt of a turn were run    *)
(* for a CLI that had been left behind, after the turn had ended.           *)
OnlyLateCalls(t) ==
  \A c \in Calls :
    call[c].turn = t /\ call[c].st \in {"executing", "over"} =>
      c \in late /\ t \in stray

(* A failure whose phase is before or after visible output promises that    *)
(* the turn had no side effect: when it is reported, no tool of the host    *)
(* was run for its prompt, nor is one later, unless by a CLI that was left  *)
(* behind at work: its stream broke before the result (sdk_session.py:426), *)
(* or its client did not disconnect (615), and the bridge refuses no call.  *)
(* (The failure for an unlisted tool has a property of its own.)            *)
EffectsReported ==
  \A t \in Turns :
    gen[t].out = "failed" /\ gen[t].phase # "effects" => OnlyLateCalls(t)

(* The same of the failure that reports an unlisted tool. *)
UnlistedEffectsReported ==
  \A t \in Turns :
    gen[t].out = "unlisted" /\ gen[t].phase # "effects" => OnlyLateCalls(t)

(* Every prompt of a runtime is sent for the same host and under the same   *)
(* selection, tools and system prompt, also after failed configurations and *)
(* in replaced sessions.                                                    *)
Pinned ==
  \A p, q \in prompts :
    /\ HostOf[p.req] = HostOf[q.req]
    /\ ContractOf[p.req] = ContractOf[q.req]

(* runtime.py:119, a preflight "may be consumed only by the exact request": *)
(* no authorization serves two prompts, even of one request object.         *)
PromptsCleared == \A p \in prompts : p.cleared

(* A session is replaced only once it is closed, and none is opened after   *)
(* close(): there is never a second client, nor one that nobody will close. *)
OneOpenSession ==
  \A s \in 1..current : ~sess[s].closed => s = current /\ ~closed

(* A tool call that the CLI makes for the prompt of a turn carries that     *)
(* turn's request id, unless the CLI was left behind at work: its stream    *)
(* broke, its client did not disconnect, or the host dropped the generator  *)
(* of that turn or cut its session.cancel() short.                          *)
ToolCallsInTheirTurn ==
  \A c \in Calls :
    call[c].under # call[c].turn => call[c].turn \in stray

(* What a turn tells the host is true: one terminal event, and a failure    *)
(* phase that hides no side effect (runtime.py:526-705).                    *)
TerminalIsHonest == TerminalExactlyOnce /\ EffectsReported

(* Every prompt was admitted: by a preflight of its own, and under the one  *)
(* contract of its runtime (runtime.py:211-248, 374-404).                   *)
PromptsAdmitted == Pinned /\ PromptsCleared

(* A runtime has one turn at a time: one open session, and tool calls that  *)
(* carry the id of the turn they were made for (runtime.py:346-404,         *)
(* tool_bridge.py:636-690).                                                 *)
OneTurnAtATime == OneOpenSession /\ ToolCallsInTheirTurn

(* test_runtime_sdk_integration.py:1355, "honored_then_next_turn_runs": when *)
(* a turn reports that it was cancelled, the next turn finds a session it   *)
(* can use or replace, unless the runtime itself was closed or an earlier   *)
(* session.cancel() was cut short.                                          *)
CancelledIsRecoverable ==
  [][\A t \in Turns :
       /\ gen[t].pc = "loop" /\ gen'[t].out = "cancelled" /\ ~closed
       /\ \A u \in Turns : gen[u].left # "cut"
       => sess[current].closed = sess[current].cancelReq]_vars
=============================================================================
