----------------------------- MODULE SDKSession -----------------------------
(***************************************************************************)
(* SDKSession of sdk_session.py: one SDK client, one reader task, and      *)
(* turns that claim an inbox one at a time.  Callers of run_turn(),        *)
(* cancel() and close() are asyncio tasks; a step is what a task does      *)
(* between two points where it can be suspended.                           *)
(*                                                                         *)
(* The Claude CLI behind the client is external: it writes messages to a   *)
(* pipe, calls the PreCompact hook and may end its stream.  Deadlines and  *)
(* timeouts may expire whenever the code waits for them.                   *)
(*                                                                         *)
(* The compaction lifecycle appears through its atomic operations, which   *)
(* NativeCompaction shows it to implement.                                 *)
(***************************************************************************)
EXTENDS Naturals, Sequences, FiniteSets

CONSTANTS Turns,       \* callers of run_turn()
          Ctls,        \* callers of cancel() or close()
          NoTurn,      \* no turn
          NoTask,      \* no task
          Kinds,       \* the kinds of message the CLI sends in this instance
          Unsolicited, \* the kinds it also sends when no answer is due
          MaxPipe,     \* bound on the messages in the pipe
          MaxEmits,    \* bound on the messages of the CLI
          MaxHooks,    \* bound on the PreCompact calls
          MaxCancels   \* bound on the tasks cancelled by their owner

(* The evidence of a message, by class: "malformed" is evidence that puts a *)
(* field into malformed_fields; the records themselves are in Billing.      *)
Results == {"ok", "error", "aborted"}
Evidence == {"included", "malformed", "metered"}
AllKinds == {"text", "boundary", "native"} \cup Evidence \cup Results
Markers == {"CANCELLED", "NATIVE", "POST", "WATCHDOG", "ENDED", "FAILED"}

Tasks == Turns \cup Ctls

ASSUME SessionAssumption ==
  /\ Turns \cap Ctls = {}
  /\ NoTurn \notin Tasks /\ NoTask \notin Tasks
  /\ Kinds \subseteq AllKinds
  /\ Unsolicited \subseteq Kinds
  /\ {MaxPipe, MaxEmits, MaxHooks, MaxCancels} \subseteq Nat

VARIABLES
  closed,          \* _closed
  cancelRequested, \* _cancel_requested
  client,          \* _client: "none" or "held"
  reader,          \* the reader task
  owner,           \* the turn whose inbox is _active_inbox
  inbox,           \* the contents of that inbox
  terminalSeen,    \* _turn_terminal_seen
  postOutput,      \* _post_terminal_output
  postNative,      \* _post_terminal_native_violation
  turnLock,        \* holder of _turn_lock
  closeLock,       \* holder of _close_lock
  depth,           \* _compaction._active_depth
  watched,         \* the lifecycle holds the turn's on_watchdog callback
  evidence,        \* billing evidence merged by the turn in progress
  pc,              \* what each task is doing
  outcome,         \* the result of each turn, once it is decided
  link,            \* external: the CLI behind the client
  pipe,            \* external: written by the CLI, not yet read
  asked,           \* external: the turn whose prompt the CLI got last
  answered,        \* external: the CLI has sent its ResultMessage
  budget,          \* what is left of each bound
  dirty            \* history: why the client must not be used again

session == <<closed, cancelRequested, client>>
locks == <<turnLock, closeLock>>
receipts == <<postOutput, postNative>>
claim == <<owner, inbox, terminalSeen, depth, watched>>
turn == <<pc, outcome, evidence>>
cli == <<link, pipe, asked, answered>>
vars == <<session, locks, receipts, claim, turn, cli, reader, budget, dirty>>

(* A message carries, for the properties only, the turn the CLI was last    *)
(* asked by and whether that turn had already been answered.                *)
Message(k) == [kind |-> k, turn |-> asked, late |-> answered]
Marker(k) == [kind |-> k, turn |-> NoTurn, late |-> FALSE]
Messages == [kind : AllKinds \cup Markers, turn : Turns \cup {NoTurn},
             late : BOOLEAN]

Readers == {"none", "starting", "running", "cancelling", "done"}
Links == {"down", "up", "ended", "failed"}
PCs == {"idle", "lock", "connect", "query", "loop", "timed", "untimed",
        "drain", "cancel", "interrupt", "close", "ending", "disconnect",
        "reap", "done"}
(* A call that ended with an exception is "raised", or "unretired" when it  *)
(* also left open the session that it was about to close.                   *)
Exceptions == {"raised", "unretired"}
Outcomes == {"none", "raised", "complete", "cancelled", "session_closed",
             "invalid_prompt", "sdk_start_failed", "sdk_turn_timeout",
             "sdk_turn_failed", "sdk_billing_blocked", "sdk_result_error",
             "sdk_native_tool_unsupported", "sdk_post_terminal_output",
             "sdk_compaction_watchdog", "sdk_stream_ended",
             "sdk_stream_failed", "unretired"}

TypeOK ==
  /\ {closed, cancelRequested, watched, answered, terminalSeen, postOutput,
      postNative} \subseteq BOOLEAN
  /\ client \in {"none", "held"}
  /\ reader \in Readers
  /\ owner \in Turns \cup {NoTurn}
  /\ inbox \in Seq(Messages)
  /\ turnLock \in Turns \cup {NoTurn}
  /\ closeLock \in Tasks \cup {NoTask}
  /\ depth \in Nat
  /\ evidence \in {"none", "included", "malformed"}
  /\ pc \in [Tasks -> PCs]
  /\ outcome \in [Turns -> Outcomes]
  /\ link \in Links
  /\ pipe \in Seq(Messages)
  /\ asked \in Turns \cup {NoTurn}
  /\ budget \in [emits : Nat, hooks : Nat, cancels : Nat]
  /\ dirty \subseteq {"violation", "retired", "unbilled"}

Init ==
  /\ closed = FALSE /\ cancelRequested = FALSE
  /\ client = "none" /\ reader = "none"
  /\ owner = NoTurn /\ inbox = <<>>
  /\ terminalSeen = FALSE /\ postOutput = FALSE /\ postNative = FALSE
  /\ turnLock = NoTurn /\ closeLock = NoTask
  /\ depth = 0 /\ watched = FALSE
  /\ evidence = "none"
  /\ pc = [p \in Tasks |-> "idle"]
  /\ outcome = [t \in Turns |-> "none"]
  /\ link = "down" /\ pipe = <<>> /\ asked = NoTurn /\ answered = FALSE
  /\ budget = [emits |-> MaxEmits, hooks |-> MaxHooks, cancels |-> MaxCancels]
  /\ dirty = {}

Goto(p, label) == pc' = [pc EXCEPT ![p] = label]
Decide(t, o) == outcome' = [outcome EXCEPT ![t] = o]

(* put_nowait on the active inbox, if there is one. *)
Delivered(m) == IF owner = NoTurn THEN inbox ELSE Append(inbox, m)

(* A return of run_turn() before it claims an inbox. *)
Release(t, o) ==
  /\ turnLock' = NoTurn
  /\ Goto(t, "done")
  /\ Decide(t, o)

(* Mutant: the finally clause forgets to retire the inbox. *)
FinishClaimed(t, o) ==
  /\ Release(t, o)
  /\ terminalSeen' = FALSE
  /\ depth' = 0
  /\ watched' = FALSE
  /\ UNCHANGED <<owner, inbox>>

(* A return after it: the finally clause retires the inbox and ends the    *)
(* turn's compaction.                                                      *)
Finish(t, o) ==
  /\ Release(t, o)
  /\ owner' = IF owner = t THEN NoTurn ELSE owner
  /\ inbox' = IF owner = t THEN <<>> ELSE inbox
  /\ terminalSeen' = FALSE
  /\ depth' = 0
  /\ watched' = FALSE

(* _interrupt_then_close(), with the result the turn then returns. *)
Retire(t, o) ==
  /\ Goto(t, "interrupt")
  /\ Decide(t, o)
  /\ dirty' = dirty \cup {"retired"}
-----------------------------------------------------------------------------
(* run_turn(), up to the prompt.                                           *)

Call(t) ==
  /\ pc[t] = "idle"
  /\ \/ Goto(t, "lock") /\ UNCHANGED outcome
     \/ Goto(t, "done") /\ Decide(t, "invalid_prompt")
  /\ UNCHANGED <<session, locks, receipts, claim, evidence, cli, reader,
                 budget, dirty>>

Acquire(t) == pc[t] = "lock" /\ turnLock = NoTurn

RefuseClosed(t) ==
  /\ Acquire(t)
  /\ closed
  /\ Release(t, "session_closed")
  /\ UNCHANGED <<session, closeLock, receipts, claim, evidence, cli, reader,
                 budget, dirty>>

(* Output read while no turn was active retires the client first. *)
RefuseTainted(t) ==
  /\ Acquire(t)
  /\ ~closed
  /\ postNative \/ postOutput
  /\ postNative' = FALSE
  /\ postOutput' = FALSE
  /\ turnLock' = t
  /\ Retire(t, IF postNative THEN "sdk_native_tool_unsupported"
                             ELSE "sdk_post_terminal_output")
  /\ UNCHANGED <<session, closeLock, claim, evidence, cli, reader, budget>>

(* Mutant: the receipt of idle output is not checked. *)
UsableUnchecked(t) == Acquire(t) /\ ~closed /\ ~postNative

Usable(t) == Acquire(t) /\ ~closed /\ ~postNative /\ ~postOutput

(* start() without a client: build one, then wait for connect(). *)
Connect(t) ==
  /\ Usable(t)
  /\ client = "none"
  /\ client' = "held"
  /\ turnLock' = t
  /\ Goto(t, "connect")
  /\ UNCHANGED <<closed, cancelRequested, closeLock, receipts, claim, outcome,
                 evidence, cli, reader, budget, dirty>>

(* The SDK is missing, or the client cannot be built. *)
StartRaises(t) ==
  /\ Usable(t)
  /\ client = "none"
  /\ Release(t, "sdk_start_failed")
  /\ UNCHANGED <<session, closeLock, receipts, claim, evidence, cli, reader,
                 budget, dirty>>

ClaimInbox(t) ==
  /\ owner' = t
  /\ inbox' = <<>>
  /\ terminalSeen' = FALSE

(* After start(): leave when a cancel() came first; otherwise claim an     *)
(* inbox, bind the compaction callbacks, and send the prompt.              *)
LeaveCancelled(t) ==
  /\ cancelRequested
  /\ Release(t, "cancelled")
  /\ UNCHANGED <<claim, evidence, asked, answered, dirty>>

(* bind() raises outside the try statement: the turn lock is released but  *)
(* the inbox stays claimed.  The caller answers with cancel()              *)
(* (runtime.py:672-674).                                                   *)
BindRaises(t) ==
  /\ ~cancelRequested
  /\ depth > 0
  /\ ClaimInbox(t)
  /\ turnLock' = NoTurn
  /\ Goto(t, "cancel")
  /\ Decide(t, "raised")
  /\ UNCHANGED <<depth, watched, evidence, asked, answered, dirty>>

ClaimAndBind(t) ==
  /\ ~cancelRequested
  /\ depth = 0
  /\ ClaimInbox(t)
  /\ watched' = TRUE
  /\ evidence' = "none"
  /\ turnLock' = t
  /\ UNCHANGED depth

SendPrompt(t) ==
  /\ ClaimAndBind(t)
  /\ client = "held"
  /\ asked' = t
  /\ answered' = FALSE
  /\ Goto(t, "query")
  /\ UNCHANGED <<outcome, dirty>>

(* close() ran while start() waited: there is no client to query. *)
ClientGone(t) ==
  /\ ClaimAndBind(t)
  /\ client = "none"
  /\ Retire(t, "sdk_turn_failed")
  /\ UNCHANGED <<asked, answered>>

AfterStart(t) ==
  LeaveCancelled(t) \/ BindRaises(t) \/ SendPrompt(t) \/ ClientGone(t)

AlreadyStarted(t) ==
  /\ Usable(t)
  /\ client = "held"
  /\ AfterStart(t)
  /\ UNCHANGED <<session, closeLock, receipts, link, pipe, reader, budget>>

(* The reader task is created even if close() ran meanwhile. *)
Connected(t) ==
  /\ pc[t] = "connect"
  /\ link' = IF client = "held" THEN "up" ELSE "down"
  /\ reader' = "starting"
  /\ AfterStart(t)
  /\ UNCHANGED <<session, closeLock, receipts, pipe, budget>>

ConnectFails(t) ==
  /\ pc[t] = "connect"
  /\ Goto(t, "close")
  /\ Decide(t, "sdk_start_failed")
  /\ dirty' = dirty \cup {"retired"}
  /\ UNCHANGED <<session, locks, receipts, claim, evidence, cli, reader,
                 budget>>

QuerySent(t) ==
  /\ pc[t] = "query"
  /\ Goto(t, "loop")
  /\ UNCHANGED <<session, locks, receipts, claim, outcome, evidence, cli,
                 reader, budget, dirty>>

QueryFails(t) ==
  /\ pc[t] = "query"
  /\ \/ Retire(t, "sdk_turn_timeout")
     \/ Retire(t, "sdk_turn_failed")
  /\ UNCHANGED <<session, locks, receipts, claim, evidence, cli, reader,
                 budget>>
-----------------------------------------------------------------------------
(* The message loop of run_turn().                                         *)

(* An empty inbox is awaited until the deadline, or without one while a    *)
(* compaction is active.                                                   *)
Await(t) ==
  /\ pc[t] = "loop"
  /\ inbox = <<>>
  /\ Goto(t, IF depth > 0 THEN "untimed" ELSE "timed")
  /\ UNCHANGED <<session, locks, receipts, claim, outcome, evidence, cli,
                 reader, budget, dirty>>

(* Mutant: a turn that times out returns without retiring the client. *)
DeadlineReturns(t) ==
  /\ pc[t] = "timed"
  /\ depth = 0
  /\ Finish(t, "sdk_turn_timeout")
  /\ UNCHANGED <<session, closeLock, receipts, evidence, cli, reader, budget,
                 dirty>>

(* The deadline passes; only the watchdog may end an active compaction. *)
Deadline(t) ==
  /\ pc[t] = "timed"
  /\ \/ /\ depth > 0
        /\ Goto(t, "loop")
        /\ UNCHANGED <<outcome, dirty>>
     \/ /\ depth = 0
        /\ Retire(t, "sdk_turn_timeout")
  /\ UNCHANGED <<session, locks, receipts, claim, evidence, cli, reader,
                 budget>>

(* The turn takes message k from its inbox. *)
Takes(t, k) ==
  /\ pc[t] \in {"loop", "timed", "untimed"}
  /\ inbox # <<>>
  /\ k = Head(inbox).kind

RecvCancelled(t) ==
  /\ \E k \in Kinds \cup Markers :
       Takes(t, k) /\ (k = "CANCELLED" \/ cancelRequested)
  /\ Finish(t, "cancelled")
  /\ UNCHANGED <<session, closeLock, receipts, evidence, cli, reader, budget,
                 dirty>>

MarkerCode ==
  [NATIVE |-> "sdk_native_tool_unsupported",
   POST |-> "sdk_post_terminal_output",
   WATCHDOG |-> "sdk_compaction_watchdog",
   ENDED |-> "sdk_stream_ended",
   FAILED |-> "sdk_stream_failed"]

RecvViolation(t) ==
  /\ ~cancelRequested
  /\ \E k \in {"NATIVE", "POST", "WATCHDOG"} :
       Takes(t, k) /\ Retire(t, MarkerCode[k])
  /\ inbox' = Tail(inbox)
  /\ UNCHANGED <<session, locks, receipts, owner, terminalSeen, depth,
                 watched, evidence, cli, reader, budget>>

(* The end of the stream fails the turn and leaves the session open. *)
RecvEnded(t) ==
  /\ ~cancelRequested
  /\ \E k \in {"ENDED", "FAILED"} : Takes(t, k) /\ Finish(t, MarkerCode[k])
  /\ UNCHANGED <<session, closeLock, receipts, evidence, cli, reader, budget,
                 dirty>>

(* Mutant: a boundary counts even if no compaction is active. *)
DepthUnchecked(k) == IF k = "boundary" THEN depth - 1 ELSE depth

(* handle_message() notices a compact boundary while a compaction is active. *)
DepthAfter(k) == IF k = "boundary" /\ depth > 0 THEN depth - 1 ELSE depth

(* Mutant: later evidence replaces a malformed field. *)
MergedLast(k) == IF k \in {"included", "malformed"} THEN k ELSE evidence

(* _merge_evidence(): a malformed field stays, and hides metered usage. *)
Merged(k) ==
  IF evidence = "malformed" \/ k \notin {"included", "malformed"}
    THEN evidence
    ELSE k

(* Metered billing is blocked when it is seen. *)
RecvMetered(t) ==
  /\ ~cancelRequested
  /\ Takes(t, "metered")
  /\ evidence # "malformed"
  /\ Retire(t, "sdk_billing_blocked")
  /\ inbox' = Tail(inbox)
  /\ UNCHANGED <<session, locks, receipts, owner, terminalSeen, depth,
                 watched, evidence, cli, reader, budget>>

(* A message before the result is projected. *)
RecvMessage(t) ==
  /\ ~cancelRequested
  /\ \E k \in Kinds \ Results :
       /\ Takes(t, k)
       /\ k = "metered" => evidence = "malformed"
       /\ depth' = DepthAfter(k)
       /\ evidence' = Merged(k)
       /\ dirty' = dirty \cup
            (IF k \in {"malformed", "metered"} THEN {"unbilled"} ELSE {})
  /\ inbox' = Tail(inbox)
  /\ Goto(t, "loop")
  /\ UNCHANGED <<session, locks, receipts, owner, terminalSeen, watched,
                 outcome, cli, reader, budget>>

(* Projecting a message raises. *)
RecvRaises(t) ==
  /\ ~cancelRequested
  /\ \E k \in Kinds : Takes(t, k) /\ depth' = DepthAfter(k)
  /\ inbox' = Tail(inbox)
  /\ Retire(t, "sdk_turn_failed")
  /\ UNCHANGED <<session, locks, receipts, owner, terminalSeen, watched,
                 evidence, cli, reader, budget>>

ResultCode ==
  [ok |-> "complete", aborted |-> "cancelled", error |-> "sdk_result_error"]

(* The result is released only if the billing of the turn is proved. *)
RecvResult(t) ==
  /\ ~cancelRequested
  /\ evidence = "included"
  /\ \E k \in Results : Takes(t, k) /\ Decide(t, ResultCode[k])
  /\ inbox' = Tail(inbox)
  /\ Goto(t, "drain")
  /\ UNCHANGED <<session, locks, receipts, owner, terminalSeen, depth,
                 watched, evidence, cli, reader, budget, dirty>>

RecvUnbilled(t) ==
  /\ ~cancelRequested
  /\ evidence # "included"
  /\ \E k \in Results : Takes(t, k)
  /\ inbox' = Tail(inbox)
  /\ Goto(t, "close")
  /\ Decide(t, "sdk_billing_blocked")
  /\ dirty' = dirty \cup {"retired"}
  /\ UNCHANGED <<session, locks, receipts, owner, terminalSeen, depth,
                 watched, evidence, cli, reader, budget>>

(* After one scheduling point, the first violation queued behind the result *)
(* decides; every other item is dropped.                                    *)
Violating(i) == inbox[i].kind \in {"POST", "NATIVE"}

DrainViolation(t) ==
  /\ pc[t] = "drain"
  /\ \E i \in DOMAIN inbox :
       /\ Violating(i)
       /\ \A j \in DOMAIN inbox : j < i => ~Violating(j)
       /\ Retire(t, MarkerCode[inbox[i].kind])
  /\ inbox' = <<>>
  /\ UNCHANGED <<session, locks, receipts, owner, terminalSeen, depth,
                 watched, evidence, cli, reader, budget>>

Drain(t) ==
  /\ pc[t] = "drain"
  /\ \A i \in DOMAIN inbox : ~Violating(i)
  /\ Finish(t, outcome[t])
  /\ UNCHANGED <<session, closeLock, receipts, evidence, cli, reader, budget,
                 dirty>>
-----------------------------------------------------------------------------
(* cancel() and close(), and the turns that call them.                     *)

(* What a task does when its close() returns: a turn goes on to return,    *)
(* through its finally clause if it has an inbox.                          *)
Return(p) ==
  IF turnLock = p /\ owner = p
    THEN Finish(p, outcome[p])
    ELSE /\ turnLock' = IF turnLock = p THEN NoTurn ELSE turnLock
         /\ Goto(p, "done")
         /\ UNCHANGED <<outcome, claim>>

CtlCall(c) ==
  /\ pc[c] = "idle"
  /\ Goto(c, "cancel") \/ Goto(c, "close")
  /\ UNCHANGED <<session, locks, receipts, claim, outcome, evidence, cli,
                 reader, budget, dirty>>

Cancel(p) ==
  /\ pc[p] = "cancel"
  /\ ~closed
  /\ cancelRequested' = TRUE
  /\ dirty' = dirty \cup {"retired"}
  /\ inbox' = Delivered(Marker("CANCELLED"))
  /\ Goto(p, "interrupt")
  /\ UNCHANGED <<closed, client, locks, receipts, owner, terminalSeen, depth,
                 watched, outcome, evidence, cli, reader, budget>>

CancelClosed(p) ==
  /\ pc[p] = "cancel"
  /\ closed
  /\ Return(p)
  /\ UNCHANGED <<session, closeLock, receipts, evidence, cli, reader, budget,
                 dirty>>

(* client.interrupt() answered, failed or timed out. *)
Interrupted(p) ==
  /\ pc[p] = "interrupt"
  /\ Goto(p, "close")
  /\ UNCHANGED <<session, locks, receipts, claim, outcome, evidence, cli,
                 reader, budget, dirty>>

CloseAgain(p) ==
  /\ pc[p] = "close"
  /\ closeLock = NoTask
  /\ closed
  /\ Return(p)
  /\ UNCHANGED <<session, closeLock, receipts, evidence, cli, reader, budget,
                 dirty>>

(* close() with the compaction ended: wake the turn, drop the client. *)
Signal(p) ==
  /\ watched' = FALSE
  /\ inbox' = Delivered(Marker("CANCELLED"))
  /\ client' = "none"
  /\ Goto(p, IF client = "held" THEN "disconnect" ELSE "reap")

CloseBegin(p) ==
  /\ pc[p] = "close"
  /\ closeLock = NoTask
  /\ ~closed
  /\ closed' = TRUE
  /\ dirty' = dirty \cup {"retired"}
  /\ closeLock' = p
  /\ depth' = 0
  /\ \/ /\ depth > 0
        /\ Goto(p, "ending")
        /\ UNCHANGED <<client, inbox, watched>>
     \/ /\ depth = 0
        /\ Signal(p)
  /\ UNCHANGED <<cancelRequested, turnLock, receipts, owner, terminalSeen,
                 outcome, evidence, cli, reader, budget>>

(* The lifecycle's watchdog task is gone: end_turn() returns. *)
CloseSignal(p) ==
  /\ pc[p] = "ending"
  /\ Signal(p)
  /\ UNCHANGED <<closed, cancelRequested, locks, receipts, owner,
                 terminalSeen, depth, outcome, evidence, cli, reader, budget,
                 dirty>>

(* Mutant: close() does not cancel the reader. *)
ReaderLeft == reader

ReaderAfterClose ==
  IF reader \in {"starting", "running"} THEN "cancelling" ELSE reader

(* client.disconnect() answered, failed or timed out; the reader is        *)
(* cancelled.                                                              *)
Disconnected(p) ==
  /\ pc[p] = "disconnect"
  /\ link' = "down"
  /\ reader' = ReaderAfterClose
  /\ Goto(p, "reap")
  /\ UNCHANGED <<session, locks, receipts, claim, outcome, evidence, pipe,
                 asked, answered, budget, dirty>>

(* The wait for the reader ends, by its death or by its timeout. *)
Reap(p) ==
  /\ pc[p] = "reap"
  /\ closeLock' = NoTask
  /\ Return(p)
  /\ UNCHANGED <<session, receipts, evidence, cli, reader, budget, dirty>>

(* Where a task waits for something. *)
Suspended(p) ==
  \/ pc[p] \in {"connect", "query", "timed", "untimed", "drain", "ending",
               "disconnect", "reap"}
  \/ pc[p] = "lock" /\ turnLock # NoTurn
  \/ pc[p] = "interrupt" /\ client = "held"
  \/ pc[p] = "close" /\ closeLock # NoTask

(* The except clause for what is no CancelledError: the retirement that it  *)
(* awaits is not covered by the clause for a CancelledError beside it.      *)
Handling(p) ==
  turnLock = p /\ owner = p /\ outcome[p] = "sdk_turn_failed"

(* The owner of a task cancels it where it is suspended.  A turn with an   *)
(* inbox runs cancel() behind a shield before it leaves, unless it is in   *)
(* the except clause: then it only runs the finally clause.  start()       *)
(* closes the session; anything else just leaves.                          *)
TaskCancel(p) ==
  /\ budget.cancels > 0
  /\ budget' = [budget EXCEPT !.cancels = @ - 1]
  /\ Suspended(p)
  /\ p \in Turns => outcome[p] \notin Exceptions
  /\ closeLock' = IF closeLock = p THEN NoTask ELSE closeLock
  /\ \/ /\ Handling(p)
        /\ Finish(p, IF closed THEN "raised" ELSE "unretired")
        /\ UNCHANGED dirty
     \/ /\ ~Handling(p)
        /\ LET left == IF owner = p THEN "cancel"
                       ELSE IF pc[p] = "connect" THEN "close" ELSE "done"
           IN  /\ Goto(p, left)
               /\ turnLock' = IF turnLock = p /\ left = "done" THEN NoTurn
                                                               ELSE turnLock
        /\ outcome' = [t \in Turns |-> IF t = p THEN "raised" ELSE outcome[t]]
        /\ dirty' = IF owner = p THEN dirty \cup {"retired"} ELSE dirty
        /\ UNCHANGED claim
  /\ UNCHANGED <<session, receipts, evidence, cli, reader>>
-----------------------------------------------------------------------------
(* The reader task, _reader_loop().                                        *)

ReaderStops(k) ==
  /\ reader' = "done"
  /\ inbox' = Delivered(Marker(k))
  /\ UNCHANGED <<session, locks, receipts, owner, terminalSeen, depth,
                 watched, turn, cli, budget, dirty>>

ReaderStart ==
  /\ reader = "starting"
  /\ client = "held"
  /\ reader' = "running"
  /\ UNCHANGED <<session, locks, receipts, claim, turn, cli, budget, dirty>>

ReaderStartFails ==
  /\ reader = "starting"
  /\ client = "none"
  /\ ReaderStops("FAILED")

ReaderEnd ==
  /\ reader = "running"
  /\ pipe = <<>>
  /\ \/ link = "ended" /\ ReaderStops("ENDED")
     \/ link = "failed" /\ ReaderStops("FAILED")

ReaderCancelled ==
  /\ reader = "cancelling"
  /\ ReaderStops("ENDED")

Reads(m) ==
  /\ reader = "running"
  /\ pipe # <<>>
  /\ m = Head(pipe)
  /\ pipe' = Tail(pipe)
  /\ UNCHANGED <<session, locks, owner, depth, watched, turn, link, asked,
                 answered, reader, budget>>

ReadNative ==
  /\ \E m \in Messages : Reads(m) /\ m.kind = "native"
  /\ inbox' = Delivered(Marker("NATIVE"))
  /\ postNative' = (postNative \/ owner = NoTurn)
  /\ dirty' = dirty \cup {"violation"}
  /\ UNCHANGED <<postOutput, terminalSeen>>

ReadIdle ==
  /\ owner = NoTurn
  /\ \E m \in Messages : Reads(m) /\ m.kind # "native"
  /\ postOutput' = TRUE
  /\ dirty' = dirty \cup {"violation"}
  /\ UNCHANGED <<postNative, inbox, terminalSeen>>

ReadPostTerminal ==
  /\ owner # NoTurn
  /\ terminalSeen
  /\ \E m \in Messages : Reads(m) /\ m.kind # "native"
  /\ inbox' = Append(inbox, Marker("POST"))
  /\ dirty' = dirty \cup {"violation"}
  /\ UNCHANGED <<receipts, terminalSeen>>

ReadMessage ==
  /\ owner # NoTurn
  /\ ~terminalSeen
  /\ \E m \in Messages :
       /\ Reads(m)
       /\ m.kind # "native"
       /\ inbox' = Append(inbox, m)
       /\ terminalSeen' = (m.kind \in Results)
  /\ UNCHANGED <<receipts, dirty>>
-----------------------------------------------------------------------------
(* The CLI (external) and the compaction watchdog.                         *)

Emit(k) ==
  /\ link = "up"
  /\ k \in Unsolicited \/ (asked # NoTurn /\ ~answered)
  /\ budget.emits > 0
  /\ Len(pipe) < MaxPipe
  /\ budget' = [budget EXCEPT !.emits = @ - 1]
  /\ pipe' = Append(pipe, Message(k))
  /\ answered' = (answered \/ k \in Results)
  /\ UNCHANGED <<session, locks, receipts, claim, turn, link, asked, reader,
                 dirty>>

EndStream ==
  /\ link = "up"
  /\ link' \in {"ended", "failed"}
  /\ UNCHANGED <<session, locks, receipts, claim, turn, pipe, asked, answered,
                 reader, budget, dirty>>

(* The PreCompact hook, at its lock section: one more compaction. *)
PreCompact ==
  /\ link = "up"
  /\ asked # NoTurn
  /\ budget.hooks > 0
  /\ budget' = [budget EXCEPT !.hooks = @ - 1]
  /\ depth' = depth + 1
  /\ UNCHANGED <<session, locks, receipts, owner, inbox, terminalSeen,
                 watched, turn, cli, reader, dirty>>

(* Mutant: the watchdog ends the compaction and wakes nobody. *)
ExpireSilently ==
  /\ depth > 0
  /\ depth' = 0
  /\ UNCHANGED <<session, locks, receipts, owner, inbox, terminalSeen,
                 watched, turn, cli, reader, budget, dirty>>

(* expire() wakes the turn that is bound, through its inbox. *)
Expire ==
  /\ depth > 0
  /\ depth' = 0
  /\ inbox' = IF watched THEN Delivered(Marker("WATCHDOG")) ELSE inbox
  /\ UNCHANGED <<session, locks, receipts, owner, terminalSeen, watched, turn,
                 cli, reader, budget, dirty>>
-----------------------------------------------------------------------------
Begin(t) ==
  \/ RefuseClosed(t) \/ RefuseTainted(t) \/ Connect(t) \/ StartRaises(t)
  \/ AlreadyStarted(t) \/ Connected(t) \/ ConnectFails(t)
  \/ QuerySent(t) \/ QueryFails(t)

Recv(t) ==
  \/ RecvCancelled(t) \/ RecvViolation(t) \/ RecvEnded(t) \/ RecvMetered(t)
  \/ RecvMessage(t) \/ RecvRaises(t) \/ RecvResult(t) \/ RecvUnbilled(t)
  \/ DrainViolation(t) \/ Drain(t)

Teardown(p) ==
  \/ Cancel(p) \/ CancelClosed(p) \/ Interrupted(p) \/ CloseAgain(p)
  \/ CloseBegin(p) \/ CloseSignal(p) \/ Disconnected(p) \/ Reap(p)

Reader ==
  \/ ReaderStart \/ ReaderStartFails \/ ReaderEnd \/ ReaderCancelled
  \/ ReadNative \/ ReadIdle \/ ReadPostTerminal \/ ReadMessage

Environment ==
  \/ \E k \in Kinds : Emit(k)
  \/ EndStream \/ PreCompact

Next ==
  \/ \E t \in Turns :
       Call(t) \/ Begin(t) \/ Await(t) \/ Deadline(t) \/ Recv(t)
  \/ \E c \in Ctls : CtlCall(c)
  \/ \E p \in Tasks : Teardown(p) \/ TaskCancel(p)
  \/ Reader \/ Expire \/ Environment

Spec == Init /\ [][Next]_vars

(* asyncio runs every task that is ready, and every wait of the code that  *)
(* has a timeout ends: connect, query, interrupt, disconnect, the wait for *)
(* the reader, the turn deadline and the compaction watchdog.  The CLI     *)
(* owes nothing: it may stay silent for ever.                              *)
Fairness ==
  /\ \A t \in Turns : WF_vars(Begin(t) \/ Await(t) \/ Deadline(t) \/ Recv(t))
  /\ \A p \in Tasks : WF_vars(Teardown(p))
  /\ WF_vars(Reader)
  /\ WF_vars(Expire)

FairSpec == Spec /\ Fairness
-----------------------------------------------------------------------------
(* No call of run_turn() ended with an exception: neither was a turn        *)
(* cancelled by its owner, nor did bind() find a compaction left active.   *)
NoTurnRaised == \A t \in Turns : outcome[t] \notin Exceptions

(* sdk_session.py:479, "The policy forbids any later SDK call on the same   *)
(* child": once a violation was read, a billing block, a timeout or an     *)
(* error was met, or cancel() or close() was called, no prompt is sent to  *)
(* the client again, whatever the other turns and callers do meanwhile.    *)
RetiredClientNeverQueried ==
  [][asked' # asked /\ NoTurnRaised =>
       dirty \cap {"violation", "retired"} = {}]_vars

(* The CLI sends a ResultMessage only in answer to a prompt: one that the   *)
(* reader meets in the pipe when the next turn has begun cannot be told    *)
(* from the answer to that turn.                                           *)
ResultsAreSolicited == Unsolicited \cap Results = {}

(* A turn completes only after the result of its own prompt, with billing   *)
(* evidence that was never malformed nor metered, and with no violation    *)
(* seen by the reader, even one read between the result and the drain of   *)
(* the inbox.                                                              *)
CompletesCleanly ==
  [][\A t \in Turns :
       /\ pc'[t] = "done" /\ pc[t] # "done" /\ outcome'[t] = "complete"
       /\ NoTurnRaised
       => /\ evidence = "included" /\ asked = t
          /\ ResultsAreSolicited => answered
          /\ dirty \cap {"violation", "unbilled"} = {}]_vars

(* What the CLI writes in answer to a prompt reaches the turn that sent it  *)
(* or none: a turn that timed out, failed or was cancelled never leaves the *)
(* rest of its answer to the next one.  One turn is excepted, and those     *)
(* after it: a turn cancelled while the clause that handles an exception    *)
(* retires its client (sdk_session.py:565-566) leaves the session open.     *)
NoneCutShort == \A t \in Turns : outcome[t] # "unretired"
AnswersReachTheirTurn ==
  NoneCutShort =>
    \A i \in DOMAIN inbox :
      inbox[i].turn # NoTurn /\ ~inbox[i].late => inbox[i].turn = owner

(* Output that the reader sees while no turn runs must reach the receipts   *)
(* the next turn checks; it is never hidden in the inbox of a turn that is *)
(* gone, even after a bind() that raised, unless the session is closed.    *)
NoOrphanClaim == owner # NoTurn /\ ~closed => pc[owner] # "done"

(* The inbox belongs to a turn that still runs, and what it holds of the    *)
(* answer to a prompt is of that turn's, as long as no retirement was cut   *)
(* short in the except clause (sdk_session.py:341-348, 555-578).            *)
InboxesOwned == NoOrphanClaim /\ AnswersReachTheirTurn

(* Every call of run_turn() returns, with a CLI that may say nothing. *)
TurnReturns == \A t \in Turns : (pc[t] = "lock") ~> (pc[t] = "done")

(* A closed session lets go of its client, and its reader stops. *)
CloseReleases == closed ~> (client = "none" /\ reader \in {"none", "done"})
=============================================================================
