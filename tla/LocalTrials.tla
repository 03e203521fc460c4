---------------------------- MODULE LocalTrials ----------------------------
(* Four trials that run the real host in this process or under it, without  *)
(* a provider: parity/v4_background_delivery_receipt.py ("delivery"),       *)
(* parity/v4_local_restart.py ("restart"),                                  *)
(* parity/approval_followthrough.py ("approval") and                        *)
(* parity/v4_local_path_executor.py ("path").  Each takes hold of parts of  *)
(* the process one after another, does its work, and lets go of them in a   *)
(* finally clause.  The host it examines may misbehave in every way the     *)
(* trial looks for.                                                         *)
EXTENDS Integers, Sequences, FiniteSets, SequencesExt

CONSTANTS MaxForeign    \* bound: completions of other sessions in the queue

ASSUME TrialsAssumption == MaxForeign \in Nat

VARIABLES trial,        \* the trial: program, path, position, what it holds
          store,        \* the host's durable row for the completion
          queue,        \* registry.completion_queue
          seen          \* what the restart and path trials saw of the host

trialVars == <<trial, store, queue, seen>>

(* The steps of each program, in order.  A step named for a part of the     *)
(* process takes hold of it.                                                *)
Parts == {"sys_path", "environ", "home_override", "plugin_manager", "database",
          "client_factory", "parent", "first", "successor", "plugin", "hooks",
          "agent", "callback", "cwd", "manager_lost"}
DeliverySetup ==
  <<"sys_path", "fixture", "scratch", "environ", "home_override",
    "plugin_manager", "plugin", "database", "client_factory", "parent",
    "converse", "await", "examine">>
Denial == <<"claim", "release", "requeue">>
DeliverySteps == <<"claim", "persist", "complete", "examine_delivered",
              "late_claim", "late_complete">>
RestartSteps(path) ==
  <<"state_dir", "first", "create", "title", "close_rpc", "close_first",
    "successor", "stale_resume">>
    \o (IF path = "recovery" THEN <<"exact_resume">> ELSE <<>>)
ApprovalSteps ==
  <<"environ", "sys_path", "load", "plugin", "hooks", "database", "agent",
    "callback", "turn">>
PathSteps(path) ==
  <<"sys_path", "install", "home_override", "old_cwd", "environ", "cwd",
    "callback", "plugin_manager", "plugin", "attempt">>
    \o (IF path = "recovery" THEN <<"attempt">> ELSE <<>>)
    \o <<"verdict">>
Plan(program, path) ==
  CASE program = "delivery" ->
         DeliverySetup
           \o (IF path = "positive" THEN <<>> ELSE Denial)
           \o (IF path = "denial" THEN <<"examine_denied">> ELSE DeliverySteps)
    [] program = "restart" -> RestartSteps(path)
    [] program = "approval" -> ApprovalSteps
    [] program = "path" -> PathSteps(path)
Programs == {"delivery", "restart", "approval", "path"}
PathsOf(program) ==
  CASE program \in {"delivery", "path"} -> {"positive", "denial", "recovery"}
    [] program = "restart" -> {"denial", "recovery"}
    [] program = "approval" -> {"positive"}

(* The first step inside the try statement, and what its finally clause     *)
(* lets go of, in order.  Firm: an exception there is not swallowed, and    *)
(* the rest of the clause is skipped.                                       *)
TryFrom == [delivery |-> "environ", restart |-> "first",
            approval |-> "database", path |-> "environ"]
PathSweep ==
  <<"plugin", "callback", "plugin_manager", "home_override", "environ", "cwd">>
(* Mutant: the client factory is not put back. *)
SweepShort(program) ==
  CASE program = "delivery" ->
         <<"parent", "database", "plugin", "home_override", "plugin_manager",
           "sys_path", "environ">>
    [] program = "restart" -> <<"first", "successor">>
    [] program = "approval" -> <<"agent", "hooks", "plugin", "database",
                                 "callback">>
    [] program = "path" -> PathSweep
Sweep(program) ==
  CASE program = "delivery" ->
         <<"parent", "database", "plugin", "client_factory", "home_override",
           "plugin_manager", "sys_path", "environ">>
    [] program = "restart" -> <<"first", "successor">>
    [] program = "approval" -> <<"agent", "hooks", "plugin", "database",
                                 "callback">>
    [] program = "path" -> PathSweep
Firm(program, part) ==
  /\ program # "restart"
  /\ part \in {"parent", "database", "plugin", "home_override", "agent",
               "hooks", "cwd"}
(* What a context manager around the whole program gives back in any case.  *)
Outermost(program) == IF program = "approval" THEN {"environ"} ELSE {}

Steps == Plan(trial.program, trial.path)
Step == Steps[trial.at]

(* The delivery program's finally clause puts back the plugin manager it    *)
(* has saved, or None when an import, or the override of the home, raised   *)
(* before it had saved one: the manager of the process is lost, unless the  *)
(* module that holds it was not imported either.                            *)
ManagerUnsaved ==
  trial.state # "run" /\ trial.program = "delivery" /\ Step = "home_override"
(* What no clause of the program gives back.                                *)
Kept(program) ==
  IF program \in {"approval", "path"} THEN {"sys_path"}
  ELSE IF ManagerUnsaved THEN {"manager_lost"} ELSE {}
TryAt == CHOOSE i \in DOMAIN Steps : Steps[i] = TryFrom[trial.program]
Swept == Sweep(trial.program)

Reaches(name) ==
  /\ trial.state = "run" /\ trial.at <= Len(Steps) /\ Step = name

(* Go on: to the next step, or after the last one to the finally clause.    *)
Advance(held) ==
  IF trial.at < Len(Steps)
  THEN [trial EXCEPT !.at = @ + 1, !.held = held]
  ELSE [trial EXCEPT !.state = "sweep", !.held = held, !.status = "PASS"]

(* An exception: to the finally clause, or past it when the try statement   *)
(* was not reached.  A failing _fixture() has sys.path put back.            *)
RaiseWith(held) ==
  IF trial.at >= TryAt
  THEN [trial EXCEPT !.state = "sweep", !.status = "raised", !.inside = TRUE,
                     !.held = held]
  ELSE [trial EXCEPT !.state = "leave", !.status = "raised",
                     !.held = IF Step = "fixture" THEN {} ELSE held]
Raise == RaiseWith(trial.held)
Checked(ok) == trial' = IF ok THEN Advance(trial.held) ELSE Raise

-----------------------------------------------------------------------------
(* The durable row and its operations belong to the host: external.         *)
NewRow == [delivery |-> "pending", attempts |-> 0, rows |-> 0]
Claimed(s) == [s EXCEPT !.delivery = "claimed", !.attempts = @ + 1]

(* _await_event(): foreign completions are held and put back behind what    *)
(* arrived meanwhile; its own may be missing or not the admitted batch.     *)
IsMine(e) == e \in {"mine", "malformed"}
(* Mutant: the completions of others are not put back. *)
DropHeld(held, q) == q
PutBackHeld(held, q) == q \o held
AwaitEvent ==
  /\ Reaches("await")
  /\ LET mine == {i \in DOMAIN queue : IsMine(queue[i])}
     IN  IF mine = {}
         THEN trial' = Raise /\ queue' = PutBackHeld(queue, <<>>)
         ELSE LET i == CHOOSE k \in mine : TRUE
              IN  /\ queue' = PutBackHeld(SubSeq(queue, 1, i - 1),
                                      SubSeq(queue, i + 1, Len(queue)))
                  /\ Checked(queue[i] = "mine")
  /\ UNCHANGED <<store, seen>>

Examine(name, expected) ==
  /\ Reaches(name) /\ Checked(store = expected)
  /\ UNCHANGED <<store, queue, seen>>

Claim(granted) ==
  /\ Reaches("claim")
  /\ granted => store.delivery = "pending"
  /\ store' = IF granted THEN Claimed(store) ELSE store
  /\ Checked(granted)
  /\ UNCHANGED <<queue, seen>>

Release(works) ==
  /\ Reaches("release")
  /\ store' = IF works THEN [store EXCEPT !.delivery = "pending"] ELSE store
  /\ Checked(TRUE)
  /\ UNCHANGED <<queue, seen>>

(* _requeue(): put the completion and take the next one out, which must be  *)
(* it; a foreign one that was ahead of it is taken out all the same.        *)
Requeue ==
  /\ Reaches("requeue")
  /\ queue' = Tail(Append(queue, "mine"))
  /\ Checked(Head(Append(queue, "mine")) = "mine")
  /\ UNCHANGED <<store, seen>>

Persist(rows) ==
  /\ Reaches("persist")
  /\ store' = [store EXCEPT !.rows = @ + rows]
  /\ Checked(TRUE)
  /\ UNCHANGED <<queue, seen>>

Complete(works) ==
  /\ Reaches("complete")
  /\ store' = IF works THEN [store EXCEPT !.delivery = "delivered"] ELSE store
  /\ Checked(TRUE)
  /\ UNCHANGED <<queue, seen>>

LateClaim(granted) ==
  /\ Reaches("late_claim")
  /\ store' = IF granted THEN Claimed(store) ELSE store
  /\ Checked(~granted)
  /\ UNCHANGED <<queue, seen>>

LateComplete(effect) ==
  /\ Reaches("late_complete")
  /\ store' = IF effect THEN [store EXCEPT !.rows = @ + 1] ELSE store
  /\ Checked(store' = store)
  /\ UNCHANGED <<queue, seen>>

(* Mutant: the delivered row is not compared. *)
AnyRow == store
DeliveredRow ==
  [delivery |-> "delivered", rows |-> 1,
   attempts |-> IF trial.path = "positive" THEN 1 ELSE 2]

-----------------------------------------------------------------------------
(* The restart: _close(first), a successor on the same state, a handle it   *)
(* must refuse, and the stored handle, whose identity is compared when the  *)
(* answer names one.                                                        *)
CloseFirstGateway(works) ==
  /\ Reaches("close_first")
  /\ trial' = IF works THEN Advance(trial.held \ {"first"}) ELSE Raise
  /\ UNCHANGED <<store, queue, seen>>

StaleResume(answer) ==
  /\ Reaches("stale_resume")
  /\ seen' = [seen EXCEPT !.stale = answer]
  /\ Checked(answer = "refused")
  /\ UNCHANGED <<store, queue>>

(* Mutant: the identity of the session is not compared. *)
AnySession(answer) == answer # "error"
SameSession(answer) == answer \in {"same", "unnamed"}
ExactResume(answer) ==
  /\ Reaches("exact_resume")
  /\ seen' = [seen EXCEPT !.resumed = answer]
  /\ Checked(SameSession(answer))
  /\ UNCHANGED <<store, queue>>

-----------------------------------------------------------------------------
(* The path trial: one turn of the fixture's runtime, or two on the         *)
(* recovery path.  The callback answers by plan and raises when it is asked *)
(* once more, which adds no decision; what the host makes of an answer, or  *)
(* of the exception, is its own: any terminal, with or without the file.    *)
Planned(path) ==
  CASE path = "recovery" -> <<"deny", "once">>
    [] path = "denial" -> <<"deny">>
    [] path = "positive" -> <<"once">>
Decided(asks) ==
  SubSeq(Planned(trial.path), 1, Len(seen.decisions) + asks)
(* _run_attempt() and the snapshot after it; either may raise.              *)
Attempt(asks, terminal, present, works) ==
  /\ Reaches("attempt")
  /\ Len(seen.decisions) + asks <= Len(Planned(trial.path))
  /\ (\E i \in DOMAIN seen.attempts : seen.attempts[i].present) => present
  /\ seen' = [seen EXCEPT !.decisions = Decided(asks),
                !.attempts = IF works
                             THEN Append(@, [terminal |-> terminal,
                                             present |-> present])
                             ELSE @]
  /\ Checked(works)
  /\ UNCHANGED <<store, queue>>

(* Mutant: the file is looked for only at the end. *)
PathProvedAtEnd(path, a) ==
  CASE path = "recovery" -> /\ a[1].terminal = "denied"
                            /\ a[2].terminal = "completed" /\ a[2].present
    [] path = "denial" -> a[1].terminal = "denied" /\ ~a[1].present
    [] path = "positive" -> a[1].terminal = "completed"
PathProved(path, a) ==
  CASE path = "recovery" -> /\ a[1].terminal = "denied" /\ ~a[1].present
                            /\ a[2].terminal = "completed" /\ a[2].present
    [] path = "denial" -> a[1].terminal = "denied" /\ ~a[1].present
    [] path = "positive" -> a[1].terminal = "completed"
(* Mutant: the approvals are not counted. *)
AskedAny == TRUE
AskedEnough == Len(seen.decisions) = Len(seen.attempts)
PathVerdict ==
  /\ Reaches("verdict")
  /\ Checked(PathProved(trial.path, seen.attempts) /\ AskedEnough)
  /\ UNCHANGED <<store, queue, seen>>

-----------------------------------------------------------------------------
(* Every other step: it takes hold of a part, or works on what is held.  A  *)
(* part that is bound before it is ready, or taken piece by piece, is held  *)
(* even when the step raises.                                               *)
BoundEarly ==
  {"first", "successor", "database", "plugin", "hooks", "environ"}
Special == {"await", "examine", "examine_denied", "examine_delivered",
            "claim", "release", "requeue", "persist", "complete",
            "late_claim", "late_complete", "close_first", "stale_resume",
            "exact_resume", "attempt", "verdict"}
PlainStep(works) ==
  /\ trial.state = "run" /\ Step \notin Special
  /\ trial' = IF works THEN Advance(trial.held \cup ({Step} \cap Parts))
              ELSE RaiseWith(trial.held \cup ({Step} \cap BoundEarly))
  /\ UNCHANGED <<store, queue, seen>>

(* Letting go of a part may raise, and may lose the plugin manager.         *)
SweepStep(works, lost) ==
  /\ trial.state = "sweep" /\ trial.swept < Len(Swept)
  /\ LET part == Swept[trial.swept + 1]
     IN  /\ ~works => Firm(trial.program, part) /\ part \in trial.held
         /\ lost # {} => part = "plugin_manager" /\ ManagerUnsaved
         /\ trial' = [trial EXCEPT
              !.held = (@ \ {part}) \cup lost, !.swept = @ + 1,
              !.state = IF works THEN "sweep" ELSE "leave",
              !.status = IF works THEN @ ELSE "raised",
              !.skipped = ~works]
  /\ UNCHANGED <<store, queue, seen>>

Leave ==
  /\ \/ trial.state = "sweep" /\ trial.swept = Len(Swept)
     \/ trial.state = "leave"
  /\ trial' = [trial EXCEPT !.state = "done",
                            !.held = @ \ Outermost(trial.program)]
  /\ UNCHANGED <<store, queue, seen>>

(* Another session's completion arrives.                                    *)
ForeignEvent ==
  /\ trial.state = "run" /\ trial.program = "delivery"
  /\ trial.foreign < MaxForeign
  /\ queue' = Append(queue, "foreign")
  /\ trial' = [trial EXCEPT !.foreign = @ + 1]
  /\ UNCHANGED <<store, seen>>

NewTrial(program, path, foreign) ==
  [program |-> program, path |-> path, at |-> 1, held |-> {},
   state |-> "run", status |-> "none", inside |-> FALSE, swept |-> 0,
   skipped |-> FALSE, foreign |-> foreign]

NothingSeen ==
  [stale |-> "none", resumed |-> "none", attempts |-> <<>>, decisions |-> <<>>]

TrialsInit ==
  /\ \E p \in Programs : \E path \in PathsOf(p), n \in 0 .. MaxForeign,
        own \in {<<>>, <<"mine">>, <<"malformed">>} :
       /\ p # "delivery" => n = 0 /\ own = <<>>
       /\ trial = NewTrial(p, path, n)
       /\ queue = [i \in 1 .. n |-> "foreign"] \o own
  /\ store = NewRow
  /\ seen = NothingSeen

TrialsNext ==
  \/ AwaitEvent \/ Requeue \/ ForeignEvent \/ Leave \/ PathVerdict
  \/ Examine("examine", NewRow)
  \/ Examine("examine_denied", [NewRow EXCEPT !.attempts = 1])
  \/ Examine("examine_delivered", DeliveredRow)
  \/ \E works \in BOOLEAN :
       \/ Claim(works) \/ Release(works) \/ Complete(works)
       \/ LateClaim(works) \/ LateComplete(works) \/ CloseFirstGateway(works)
       \/ PlainStep(works)
       \/ \E lost \in SUBSET {"manager_lost"} : SweepStep(works, lost)
  \/ \E rows \in 0 .. 2 : Persist(rows)
  \/ \E asks \in 0 .. 2, terminal \in {"completed", "denied", "failed"},
        present, works \in BOOLEAN : Attempt(asks, terminal, present, works)
  \/ \E answer \in {"refused", "accepted", "error"} : StaleResume(answer)
  \/ \E answer \in {"same", "other", "unnamed", "error"} : ExactResume(answer)

TrialsTypeOK ==
  /\ trial.held \subseteq Parts
  /\ trial.status \in {"none", "raised", "PASS"}
  /\ store.delivery \in {"pending", "claimed", "delivered"}

(* A delivery trial that passes has proved one delivery, or one denial that *)
(* left it pending, against a host that may lose or repeat any of its       *)
(* operations, and lost nobody else's completion on the way; a restart that *)
(* passes saw the wrong handle refused and no other session resumed; a path *)
(* trial that passes had every planned decision asked for, and saw the file *)
(* after a turn only if the plan approved that turn                         *)
(* (v4_background_delivery_receipt.py:226-287, v4_local_restart.py:222-242, *)
(* v4_local_path_executor.py:235-266).                                      *)
PassIsObserved ==
  trial.status = "PASS" =>
    /\ trial.program = "delivery" =>
         /\ store.attempts = IF trial.path = "recovery" THEN 2 ELSE 1
         /\ IF trial.path = "denial"
            THEN store.delivery = "pending" /\ store.rows = 0
            ELSE store.delivery = "delivered" /\ store.rows = 1
         /\ Cardinality({i \in DOMAIN queue : queue[i] = "foreign"})
              = trial.foreign
    /\ trial.program = "restart" =>
         /\ seen.stale = "refused"
         /\ seen.resumed \notin {"other", "error"}
    /\ trial.program = "path" =>
         /\ seen.decisions = Planned(trial.path)
         /\ \A i \in DOMAIN seen.attempts : seen.attempts[i].present =>
              \E k \in 1 .. i : Planned(trial.path)[k] = "once"
         /\ Last(seen.attempts).terminal =
              IF Last(seen.decisions) = "once" THEN "completed" ELSE "denied"

(* However a trial ends once inside its try statement, it leaves nothing of *)
(* itself in the process, unless letting go of one part raised, except for  *)
(* the module path that the approval and path trials never take back, and   *)
(* for the plugin manager when a delivery trial failed before it had saved  *)
(* it; and the approval trial gives the environment back in every case      *)
(* (v4_background_delivery_receipt.py:295-313, v4_local_restart.py:277-283, *)
(* approval_followthrough.py:235-240, 308-311, 532-555,                     *)
(* v4_local_path_executor.py:283-294).                                      *)
TrialLeavesNothing ==
  trial.state = "done" =>
    /\ (trial.inside \/ trial.status = "PASS") /\ ~trial.skipped
         => trial.held \subseteq Kept(trial.program)
    /\ trial.program = "approval" => "environ" \notin trial.held

(* A local trial that passes has observed what it reports, and a trial      *)
(* leaves nothing in the process but the module path of the host, or a lost *)
(* plugin manager, where told (v4_background_delivery_receipt.py,           *)
(* v4_local_restart.py, approval_followthrough.py,                          *)
(* v4_local_path_executor.py).                                              *)
LocalTrialHolds == PassIsObserved /\ TrialLeavesNothing
=============================================================================
