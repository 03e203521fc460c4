-------------------------- MODULE NativeCompaction --------------------------
(***************************************************************************)
(* NativeCompactionLifecycle of compaction.py: the PreCompact hooks, the   *)
(* turn that sees compact boundaries and ends, SDKSession.close() and the  *)
(* watchdog task all change one lifecycle under one asyncio lock.          *)
(*                                                                         *)
(* A step is what a task does between two points where it can be           *)
(* suspended.  These are the acquisition of _transition_lock, the watchdog *)
(* sleep, and the gather() in _finish that waits, with the lock held and   *)
(* _active_depth already 0, for the cancelled watchdog task to die.        *)
(* Emitting an event never suspends: the runtime's callback puts it on an  *)
(* unbounded queue (runtime.py:413-435).                                   *)
(***************************************************************************)
EXTENDS Naturals, FiniteSets

CONSTANTS Turns,      \* turns of the session, each runs once
          Hooks,      \* PreCompact hook calls, each runs once
          Closer,     \* the task that calls SDKSession.close()
          NoTurn,     \* no callbacks installed
          NoTask,     \* _transition_lock is free
          MaxCancels  \* bound on the tasks cancelled by their owner

ASSUME ProcAssumption ==
  /\ Turns \cap Hooks = {}
  /\ Closer \notin Turns \cup Hooks
  /\ NoTurn \notin Turns
  /\ NoTask \notin Turns \cup Hooks \cup {Closer}
  /\ MaxCancels \in Nat

Procs == Turns \cup Hooks \cup {Closer}

VARIABLES depth,     \* _active_depth
          watchdog,  \* the task in _watchdog_task
          lock,      \* holder of _transition_lock
          bound,     \* whose callbacks _on_event, _on_watchdog are
          closed,    \* SDKSession._closed, set before close() calls end_turn
          pc,        \* what each task is doing
          started,   \* STARTED events delivered to each turn
          ended,     \* terminal phases delivered to each turn
          sentinels, \* watchdog sentinels put into each turn's inbox
          cancels    \* tasks cancelled so far

vars == <<depth, watchdog, lock, bound, closed, pc, started, ended, sentinels,
          cancels>>

(* "none": there is no task; "sleeping" in asyncio.sleep; "expired": in     *)
(* expire(), waiting for the lock; "cancelled": cancel() was called on it.  *)
Watchdogs == {"none", "sleeping", "expired", "cancelled"}

PCs == {"idle", "run", "start", "complete", "end",
        "gatherComplete", "gatherEnd", "done"}

TypeOK ==
  /\ depth \in Nat
  /\ watchdog \in Watchdogs
  /\ lock \in Procs \cup {NoTask}
  /\ bound \in Turns \cup {NoTurn}
  /\ closed \in BOOLEAN
  /\ pc \in [Procs -> PCs]
  /\ started \in [Turns -> Nat]
  /\ ended \in [Turns -> Nat]
  /\ sentinels \in [Turns -> Nat]
  /\ cancels \in Nat

Init ==
  /\ depth = 0
  /\ watchdog = "none"
  /\ lock = NoTask
  /\ bound = NoTurn
  /\ closed = FALSE
  /\ pc = [p \in Procs |-> "idle"]
  /\ started = [t \in Turns |-> 0]
  /\ ended = [t \in Turns |-> 0]
  /\ sentinels = [t \in Turns |-> 0]
  /\ cancels = 0

Goto(p, label) == pc' = [pc EXCEPT ![p] = label]

(* _emit: the event reaches the turn whose callbacks are installed, if any. *)
Emit(count) ==
  [t \in Turns |-> IF t = bound THEN count[t] + 1 ELSE count[t]]
-----------------------------------------------------------------------------
(* What the session does around the lifecycle (sdk_session.py).            *)

(* run_turn holds _turn_lock from before bind() until end_turn() returned. *)
InTurn(t) == pc[t] \notin {"idle", "done"}

(* A turn starts only in an open session, but the first turn may still      *)
(* find it closed when it comes to bind(): it waited for connect() between. *)
MayBind(t) ==
  /\ pc[t] = "idle"
  /\ \A u \in Turns : ~InTurn(u)
  /\ ~closed \/ \A u \in Turns : pc[u] = "idle"

(* Mutant: the callbacks may be replaced at any time. *)
ReplaceableAlways == TRUE

(* bind() refuses to replace the callbacks while a compaction is active. *)
Replaceable == depth = 0

Bind(t) ==
  /\ MayBind(t)
  /\ Replaceable
  /\ bound' = t
  /\ Goto(t, "run")
  /\ UNCHANGED <<depth, watchdog, lock, closed, started, ended, sentinels,
                 cancels>>

BindRefused(t) ==
  /\ MayBind(t)
  /\ ~Replaceable
  /\ Goto(t, "done")
  /\ UNCHANGED <<depth, watchdog, lock, bound, closed, started, ended,
                 sentinels, cancels>>

(* handle_message(): a compact_boundary is noticed only while active. *)
Boundary(t) ==
  /\ pc[t] = "run"
  /\ depth > 0
  /\ Goto(t, "complete")
  /\ UNCHANGED <<depth, watchdog, lock, bound, closed, started, ended,
                 sentinels, cancels>>

(* The turn reaches its terminal edge and calls end_turn(). *)
TurnEnds(t) ==
  /\ pc[t] = "run"
  /\ Goto(t, "end")
  /\ UNCHANGED <<depth, watchdog, lock, bound, closed, started, ended,
                 sentinels, cancels>>

(* SDKSession.close(), in whichever task: _closed, then end_turn(). *)
Close ==
  /\ pc[Closer] = "idle"
  /\ closed' = TRUE
  /\ Goto(Closer, "end")
  /\ UNCHANGED <<depth, watchdog, lock, bound, started, ended, sentinels,
                 cancels>>

(* on_pre_compact(): the SDK runs the hook in a task of its own.  The CLI   *)
(* compacts a conversation, so not before the first turn.                   *)
PreCompact(h) ==
  /\ pc[h] = "idle"
  /\ \E t \in Turns : pc[t] # "idle"
  /\ Goto(h, "start")
  /\ UNCHANGED <<depth, watchdog, lock, bound, closed, started, ended,
                 sentinels, cancels>>
-----------------------------------------------------------------------------
(* The lifecycle's own operations.                                         *)

(* Mutant: a nested compaction is started like an outermost one. *)
NestedForgotten == FALSE

(* Another compaction is open already. *)
Nested == depth > 0

(* Mutant: no watchdog task is created. *)
NoWatchdog == watchdog

(* The state of the watchdog task that start() creates. *)
NewWatchdog == "sleeping"

(* start(): one lock section; a nested compaction only deepens. *)
Start(h) ==
  /\ pc[h] = "start"
  /\ lock = NoTask
  /\ depth' = depth + 1
  /\ IF Nested
       THEN UNCHANGED <<watchdog, started>>
       ELSE /\ watchdog' = NewWatchdog
            /\ started' = Emit(started)
  /\ Goto(h, "done")
  /\ UNCHANGED <<lock, bound, closed, ended, sentinels, cancels>>

(* Mutant: complete() trusts the check made before it had the lock. *)
DepthUnchecked == depth - 1

(* complete() of an inner compaction; of none, if the watchdog came first. *)
DepthAfterComplete == IF depth = 0 THEN 0 ELSE depth - 1

CompleteInner(t) ==
  /\ pc[t] = "complete"
  /\ lock = NoTask
  /\ depth # 1
  /\ depth' = DepthAfterComplete
  /\ Goto(t, "run")
  /\ UNCHANGED <<watchdog, lock, bound, closed, started, ended, sentinels,
                 cancels>>

(* complete() of the outermost compaction: into _finish, up to gather(). *)
CompleteOuter(t) ==
  /\ pc[t] = "complete"
  /\ lock = NoTask
  /\ depth = 1
  /\ depth' = 0
  /\ watchdog' = "cancelled"
  /\ lock' = t
  /\ Goto(t, "gatherComplete")
  /\ UNCHANGED <<bound, closed, started, ended, sentinels, cancels>>

CompleteEmit(t) ==
  /\ pc[t] = "gatherComplete"
  /\ watchdog = "none"
  /\ ended' = Emit(ended)
  /\ lock' = NoTask
  /\ Goto(t, "run")
  /\ UNCHANGED <<depth, watchdog, bound, closed, started, sentinels, cancels>>

(* Mutant: end_turn() looks at the depth without taking the lock. *)
EndUnlocked(p) ==
  /\ pc[p] = "end"
  /\ depth = 0
  /\ bound' = NoTurn
  /\ Goto(p, "done")
  /\ UNCHANGED <<depth, watchdog, lock, closed, started, ended, sentinels,
                 cancels>>

(* end_turn() with nothing active clears the callbacks. *)
EndInactive(p) ==
  /\ pc[p] = "end"
  /\ lock = NoTask
  /\ depth = 0
  /\ bound' = NoTurn
  /\ Goto(p, "done")
  /\ UNCHANGED <<depth, watchdog, lock, closed, started, ended, sentinels,
                 cancels>>

(* end_turn() of an active compaction: into _finish, up to gather(). *)
EndActive(p) ==
  /\ pc[p] = "end"
  /\ lock = NoTask
  /\ depth > 0
  /\ depth' = 0
  /\ watchdog' = "cancelled"
  /\ lock' = p
  /\ Goto(p, "gatherEnd")
  /\ UNCHANGED <<bound, closed, started, ended, sentinels, cancels>>

EndEmit(p) ==
  /\ pc[p] = "gatherEnd"
  /\ watchdog = "none"
  /\ ended' = Emit(ended)
  /\ bound' = NoTurn
  /\ lock' = NoTask
  /\ Goto(p, "done")
  /\ UNCHANGED <<depth, watchdog, closed, started, sentinels, cancels>>

(* The watchdog task: its sleep ends, and expire() waits for the lock. *)
WatchdogWakes ==
  /\ watchdog = "sleeping"
  /\ watchdog' = "expired"
  /\ UNCHANGED <<depth, lock, bound, closed, pc, started, ended, sentinels,
                 cancels>>

(* expire(): report WATCHDOG, then wake the turn through its inbox.  The   *)
(* task is the current one, so _finish does not wait for it.               *)
Expire ==
  /\ watchdog = "expired"
  /\ lock = NoTask
  /\ depth > 0
  /\ depth' = 0
  /\ watchdog' = "none"
  /\ ended' = Emit(ended)
  /\ sentinels' = Emit(sentinels)
  /\ UNCHANGED <<lock, bound, closed, pc, started, cancels>>

(* The cancelled task leaves its sleep or its wait for the lock. *)
WatchdogDies ==
  /\ watchdog = "cancelled"
  /\ watchdog' = "none"
  /\ UNCHANGED <<depth, lock, bound, closed, pc, started, ended, sentinels,
                 cancels>>

(* The owner of a task cancels it where it is suspended: in gather(), or in *)
(* a wait for the lock.  The lock is released and the rest of the operation *)
(* does not run.  A turn that was completing goes on to its finally clause. *)
CancelTask(p) ==
  /\ cancels < MaxCancels
  /\ \/ pc[p] \in {"gatherComplete", "gatherEnd"}
     \/ pc[p] \in {"complete", "end"} /\ lock # NoTask
  /\ cancels' = cancels + 1
  /\ lock' = IF lock = p THEN NoTask ELSE lock
  /\ Goto(p, IF pc[p] \in {"complete", "gatherComplete"} THEN "end"
             ELSE "done")
  /\ UNCHANGED <<depth, watchdog, bound, closed, started, ended, sentinels>>
-----------------------------------------------------------------------------
TurnStep(t) ==
  \/ Bind(t) \/ BindRefused(t) \/ Boundary(t) \/ TurnEnds(t)
  \/ CompleteInner(t) \/ CompleteOuter(t) \/ CompleteEmit(t)

EndStep(p) == EndInactive(p) \/ EndActive(p) \/ EndEmit(p)

Next ==
  \/ \E t \in Turns : TurnStep(t)
  \/ \E h \in Hooks : PreCompact(h) \/ Start(h)
  \/ \E p \in Turns \cup {Closer} : EndStep(p) \/ CancelTask(p)
  \/ Close
  \/ WatchdogWakes \/ Expire \/ WatchdogDies

Spec == Init /\ [][Next]_vars

(* asyncio runs every task that is ready, a sleep ends, and a turn ends; the *)
(* SDK owes neither a boundary nor a hook call.                              *)
Fairness ==
  /\ WF_vars(WatchdogWakes)
  /\ WF_vars(Expire)
  /\ WF_vars(WatchdogDies)
  /\ \A h \in Hooks : WF_vars(Start(h))
  /\ \A t \in Turns :
       WF_vars(CompleteInner(t) \/ CompleteOuter(t) \/ CompleteEmit(t))
  /\ \A p \in Turns \cup {Closer} : WF_vars(EndStep(p))

FairSpec == Spec /\ Fairness
-----------------------------------------------------------------------------
(* A turn is never told of the end of a compaction it was not told of, nor  *)
(* of a second compaction before the end of the first.                      *)
PhasesAlternate ==
  \A t \in Turns : ended[t] <= started[t] /\ started[t] <= ended[t] + 1

(* compaction.py:65, "an exactly-once terminal phase": when end_turn() has   *)
(* returned, every compaction the turn was told of has had its one end,     *)
(* whichever of the boundary, the watchdog, close() and end_turn() came     *)
(* first.                                                                   *)
TerminalPhaseExactlyOnce ==
  \A t \in Turns : pc[t] = "done" => started[t] = ended[t]

(* The inductive invariant of a session whose tasks are not cancelled.      *)

Gathering(p) == pc[p] \in {"gatherComplete", "gatherEnd"}

(* The end of a compaction is still to be reported. *)
Reporting == depth > 0 \/ lock # NoTask

(* Only a task in gather() keeps the lock across a step, and by then it has *)
(* set the depth to 0 and taken the watchdog down.                          *)
LockDiscipline ==
  /\ \A p \in Procs : Gathering(p) <=> lock = p
  /\ lock # NoTask => depth = 0 /\ watchdog \in {"cancelled", "none"}
  /\ lock = NoTask /\ depth = 0 => watchdog = "none"
  /\ depth > 0 => watchdog \in {"sleeping", "expired"}

(* Each task follows its own code, and turns follow each other. *)
ControlDiscipline ==
  /\ \A h \in Hooks : pc[h] \in {"idle", "start", "done"}
  /\ \A t \in Turns : pc[t] # "start"
  /\ pc[Closer] \in {"idle", "end", "gatherEnd", "done"}
  /\ pc[Closer] # "idle" => closed
  /\ \A t, u \in Turns : InTurn(t) /\ InTurn(u) => t = u
  /\ bound # NoTurn => InTurn(bound)
  /\ (\A t \in Turns : pc[t] = "idle") =>
       depth = 0 /\ lock = NoTask /\ \A h \in Hooks : pc[h] = "idle"
  /\ cancels = 0

(* The bound turn is owed exactly the end that is still to be reported;     *)
(* every other turn has heard of as many ends as starts.                    *)
Accounting ==
  \A t \in Turns :
    started[t] = ended[t] + (IF bound = t /\ Reporting THEN 1 ELSE 0)

Inv == TypeOK /\ LockDiscipline /\ ControlDiscipline /\ Accounting

(* Whoever is cancelled and wherever, no turn hears of an end it is not     *)
(* owed, and each cancelled task costs it one end at most: the ends that    *)
(* are missing are those still to be reported and those cancelled away.     *)
OneEndLostPerCancel ==
  \A t \in Turns :
    LET owed == IF bound = t /\ Reporting THEN 1 ELSE 0
    IN  /\ ended[t] + owed <= started[t]
        /\ started[t] <= ended[t] + owed + cancels

(* What of the discipline survives cancellation: enough to carry            *)
(* OneEndLostPerCancel.                                                     *)
CancelledDiscipline ==
  /\ \A p \in Procs : Gathering(p) <=> lock = p
  /\ lock # NoTask => depth = 0
  /\ \A h \in Hooks : pc[h] \in {"idle", "start", "done"}
  /\ pc[Closer] \in {"idle", "end", "gatherEnd", "done"}
  /\ pc[Closer] # "idle" => closed
  /\ (\A t \in Turns : pc[t] = "idle") =>
       depth = 0 /\ lock = NoTask /\ \A h \in Hooks : pc[h] = "idle"

CancelledInv == TypeOK /\ CancelledDiscipline /\ OneEndLostPerCancel

(* The deadline of a turn is suspended while a compaction is active, so an  *)
(* active compaction must not stay active for ever, even if the CLI never   *)
(* sends its boundary.                                                      *)
CompactionIsBounded == (depth > 0) ~> (depth = 0)

(* The atomic lifecycle this module implements: a compaction is over for    *)
(* the host when its end has been reported, not when _active_depth drops.   *)
Lifecycle == INSTANCE CompactionLifecycle WITH
               active <- Reporting

(* Every step is a step of the atomic lifecycle, or invisible in it. *)
ImplementsLifecycle == Lifecycle!Spec
=============================================================================
