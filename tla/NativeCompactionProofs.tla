----------------------- MODULE NativeCompactionProofs -----------------------
(* Proofs about NativeCompaction, for any sets of turns and hook calls. *)
EXTENDS NativeCompaction, TLAPS

(* Every step keeps the types of the lifecycle's state, also when tasks are *)
(* cancelled.                                                               *)
LEMMA TypeStep == TypeOK /\ [Next]_vars => TypeOK'
<1> SUFFICES ASSUME TypeOK, [Next]_vars PROVE TypeOK'
  OBVIOUS
<1> USE ProcAssumption DEF TypeOK, Procs, PCs, Watchdogs, Goto, Emit
<1>1. CASE UNCHANGED vars
  BY <1>1 DEF vars
<1>2. ASSUME NEW t \in Turns, TurnStep(t) PROVE TypeOK'
  BY <1>2 DEF TurnStep, Bind, BindRefused, Boundary, TurnEnds, CompleteInner,
     CompleteOuter, CompleteEmit, DepthAfterComplete
<1>3. ASSUME NEW h \in Hooks, PreCompact(h) \/ Start(h) PROVE TypeOK'
  BY <1>3 DEF PreCompact, Start, NewWatchdog
<1>4. ASSUME NEW p \in Turns \cup {Closer}, EndStep(p) PROVE TypeOK'
  BY <1>4 DEF EndStep, EndInactive, EndActive, EndEmit
<1>5. ASSUME NEW p \in Turns \cup {Closer}, CancelTask(p) PROVE TypeOK'
  BY <1>5 DEF CancelTask
<1>6. CASE Close
  BY <1>6 DEF Close
<1>7. CASE WatchdogWakes \/ Expire \/ WatchdogDies
  BY <1>7 DEF WatchdogWakes, Expire, WatchdogDies
<1> QED
  BY <1>1, <1>2, <1>3, <1>4, <1>5, <1>6, <1>7 DEF Next

(* A new lifecycle: nothing active, nobody told. *)
LEMMA TypeInit == Init => TypeOK
<1> SUFFICES ASSUME Init PROVE TypeOK
  OBVIOUS
<1>1. pc \in [Procs -> PCs]
  BY DEF Init, PCs
<1>2. /\ started \in [Turns -> Nat]
      /\ ended \in [Turns -> Nat]
      /\ sentinels \in [Turns -> Nat]
  BY DEF Init
<1> QED
  BY <1>1, <1>2 DEF Init, TypeOK, Watchdogs

(* The state of the lifecycle keeps its types, whichever tasks run and are  *)
(* cancelled, for any number of turns, hook calls and cancellations.        *)
THEOREM TypeCorrect == Spec => []TypeOK
  BY TypeInit, TypeStep, PTL DEF Spec

(* Without cancellations every step keeps the accounting of the phases and  *)
(* the lock, control and watchdog facts it rests on.                        *)
LEMMA InvStep ==
  ASSUME MaxCancels = 0, Inv, [Next]_vars PROVE Inv'
<1> USE ProcAssumption DEF Procs
<1>0. TypeOK'
  BY TypeStep DEF Inv
<1>1. ASSUME NEW t \in Turns, Bind(t) PROVE Inv'
  <2>1. LockDiscipline'
    BY <1>1 DEF Inv, LockDiscipline, Gathering, Bind, MayBind, Goto
  <2>2. ControlDiscipline'
    BY <1>1 DEF Inv, TypeOK, ControlDiscipline, InTurn, Bind, MayBind, Goto
  <2>3. Accounting'
    BY <1>1 DEF Inv, TypeOK, Accounting, Reporting, ControlDiscipline,
       LockDiscipline, Gathering, InTurn, Bind, MayBind, Replaceable
  <2> QED
    BY <1>0, <2>1, <2>2, <2>3 DEF Inv
<1>2. ASSUME NEW t \in Turns, BindRefused(t) PROVE Inv'
  <2>1. LockDiscipline'
    BY <1>2 DEF Inv, LockDiscipline, Gathering, BindRefused, Replaceable, Goto
  <2>2. ControlDiscipline'
    BY <1>2 DEF Inv, ControlDiscipline, InTurn, BindRefused, MayBind, Goto
  <2>3. Accounting'
    BY <1>2 DEF Inv, Accounting, ControlDiscipline, BindRefused, MayBind
  <2> QED
    BY <1>0, <2>1, <2>2, <2>3 DEF Inv
<1>3. ASSUME NEW t \in Turns, Boundary(t) PROVE Inv'
  <2>1. LockDiscipline'
    BY <1>3 DEF Inv, LockDiscipline, Gathering, Boundary, Goto
  <2>2. ControlDiscipline'
    BY <1>3 DEF Inv, ControlDiscipline, InTurn, Boundary, Goto
  <2>3. Accounting'
    BY <1>3 DEF Inv, Accounting, Reporting, Boundary
  <2> QED
    BY <1>0, <2>1, <2>2, <2>3 DEF Inv
<1>4. ASSUME NEW t \in Turns, TurnEnds(t) PROVE Inv'
  <2>1. LockDiscipline'
    BY <1>4 DEF Inv, LockDiscipline, Gathering, TurnEnds, Goto
  <2>2. ControlDiscipline'
    BY <1>4 DEF Inv, ControlDiscipline, InTurn, TurnEnds, Goto
  <2>3. Accounting'
    BY <1>4 DEF Inv, Accounting, Reporting, TurnEnds
  <2> QED
    BY <1>0, <2>1, <2>2, <2>3 DEF Inv
<1>5. ASSUME NEW t \in Turns, CompleteInner(t) PROVE Inv'
  <2>1. LockDiscipline'
    BY <1>5 DEF Inv, TypeOK, LockDiscipline, Gathering, CompleteInner,
       DepthAfterComplete, Goto
  <2>2. ControlDiscipline'
    BY <1>5 DEF Inv, ControlDiscipline, InTurn, CompleteInner, Goto
  <2>3. Accounting'
    BY <1>5 DEF Inv, TypeOK, Accounting, Reporting, CompleteInner,
       DepthAfterComplete
  <2> QED
    BY <1>0, <2>1, <2>2, <2>3 DEF Inv
<1>6. ASSUME NEW t \in Turns, CompleteOuter(t) PROVE Inv'
  <2>1. LockDiscipline'
    BY <1>6 DEF Inv, TypeOK, LockDiscipline, Gathering, CompleteOuter, Goto
  <2>2. ControlDiscipline'
    BY <1>6 DEF Inv, ControlDiscipline, InTurn, CompleteOuter, Goto
  <2>3. Accounting'
    BY <1>6 DEF Inv, Accounting, Reporting, CompleteOuter
  <2> QED
    BY <1>0, <2>1, <2>2, <2>3 DEF Inv
<1>7. ASSUME NEW t \in Turns, CompleteEmit(t) PROVE Inv'
  <2>1. LockDiscipline'
    BY <1>7 DEF Inv, TypeOK, LockDiscipline, Gathering, CompleteEmit, Goto
  <2>2. ControlDiscipline'
    BY <1>7 DEF Inv, ControlDiscipline, InTurn, CompleteEmit, Goto
  <2>3. Accounting'
    BY <1>7 DEF Inv, TypeOK, Accounting, Reporting, LockDiscipline, Gathering,
       CompleteEmit, Emit
  <2> QED
    BY <1>0, <2>1, <2>2, <2>3 DEF Inv
<1>8. ASSUME NEW h \in Hooks, PreCompact(h) PROVE Inv'
  <2>1. LockDiscipline'
    BY <1>8 DEF Inv, LockDiscipline, Gathering, PreCompact, Goto
  <2>2. ControlDiscipline'
    BY <1>8 DEF Inv, ControlDiscipline, InTurn, PreCompact, Goto
  <2>3. Accounting'
    BY <1>8 DEF Inv, Accounting, Reporting, PreCompact
  <2> QED
    BY <1>0, <2>1, <2>2, <2>3 DEF Inv
<1>9. ASSUME NEW h \in Hooks, Start(h) PROVE Inv'
  <2>1. LockDiscipline'
    BY <1>9 DEF Inv, TypeOK, LockDiscipline, Gathering, Start, Nested,
       NewWatchdog, Goto
  <2>2. ControlDiscipline'
    BY <1>9 DEF Inv, TypeOK, ControlDiscipline, InTurn, Start, Goto
  <2>3. Accounting'
    BY <1>9 DEF Inv, TypeOK, Accounting, Reporting, Start, Nested, Emit
  <2> QED
    BY <1>0, <2>1, <2>2, <2>3 DEF Inv
<1>10. ASSUME NEW p \in Turns \cup {Closer}, EndInactive(p) PROVE Inv'
  <2>1. LockDiscipline'
    BY <1>10 DEF Inv, LockDiscipline, Gathering, EndInactive, Goto
  <2>2. ControlDiscipline'
    BY <1>10 DEF Inv, ControlDiscipline, InTurn, EndInactive, Goto
  <2>3. Accounting'
    BY <1>10 DEF Inv, Accounting, Reporting, EndInactive
  <2> QED
    BY <1>0, <2>1, <2>2, <2>3 DEF Inv
<1>11. ASSUME NEW p \in Turns \cup {Closer}, EndActive(p) PROVE Inv'
  <2>1. LockDiscipline'
    BY <1>11 DEF Inv, TypeOK, LockDiscipline, Gathering, EndActive, Goto
  <2>2. ControlDiscipline'
    BY <1>11 DEF Inv, ControlDiscipline, InTurn, EndActive, Goto
  <2>3. Accounting'
    BY <1>11 DEF Inv, Accounting, Reporting, EndActive
  <2> QED
    BY <1>0, <2>1, <2>2, <2>3 DEF Inv
<1>12. ASSUME NEW p \in Turns \cup {Closer}, EndEmit(p) PROVE Inv'
  <2>1. LockDiscipline'
    BY <1>12 DEF Inv, TypeOK, LockDiscipline, Gathering, EndEmit, Goto
  <2>2. ControlDiscipline'
    BY <1>12 DEF Inv, ControlDiscipline, InTurn, EndEmit, Goto
  <2>3. Accounting'
    BY <1>12 DEF Inv, TypeOK, Accounting, Reporting, LockDiscipline, Gathering,
       EndEmit, Emit
  <2> QED
    BY <1>0, <2>1, <2>2, <2>3 DEF Inv
<1>13. ASSUME Close PROVE Inv'
  <2>1. LockDiscipline'
    BY <1>13 DEF Inv, LockDiscipline, Gathering, Close, Goto
  <2>2. ControlDiscipline'
    BY <1>13 DEF Inv, ControlDiscipline, InTurn, Close, Goto
  <2>3. Accounting'
    BY <1>13 DEF Inv, Accounting, Reporting, Close
  <2> QED
    BY <1>0, <2>1, <2>2, <2>3 DEF Inv
<1>14. ASSUME WatchdogWakes PROVE Inv'
  <2>1. LockDiscipline'
    BY <1>14 DEF Inv, LockDiscipline, Gathering, WatchdogWakes
  <2>2. ControlDiscipline'
    BY <1>14 DEF Inv, ControlDiscipline, InTurn, WatchdogWakes
  <2>3. Accounting'
    BY <1>14 DEF Inv, Accounting, Reporting, WatchdogWakes
  <2> QED
    BY <1>0, <2>1, <2>2, <2>3 DEF Inv
<1>15. ASSUME Expire PROVE Inv'
  <2>1. LockDiscipline'
    BY <1>15 DEF Inv, LockDiscipline, Gathering, Expire
  <2>2. ControlDiscipline'
    BY <1>15 DEF Inv, ControlDiscipline, InTurn, Expire
  <2>3. Accounting'
    BY <1>15 DEF Inv, TypeOK, Accounting, Reporting, Expire, Emit
  <2> QED
    BY <1>0, <2>1, <2>2, <2>3 DEF Inv
<1>16. ASSUME WatchdogDies PROVE Inv'
  <2>1. LockDiscipline'
    BY <1>16 DEF Inv, LockDiscipline, Gathering, WatchdogDies
  <2>2. ControlDiscipline'
    BY <1>16 DEF Inv, ControlDiscipline, InTurn, WatchdogDies
  <2>3. Accounting'
    BY <1>16 DEF Inv, Accounting, Reporting, WatchdogDies
  <2> QED
    BY <1>0, <2>1, <2>2, <2>3 DEF Inv
<1>17. ASSUME NEW p \in Turns \cup {Closer}, CancelTask(p) PROVE FALSE
  BY <1>17 DEF CancelTask, Inv, TypeOK
<1>18. CASE UNCHANGED vars
  BY <1>18 DEF vars, Inv, TypeOK, LockDiscipline, ControlDiscipline,
     Accounting, Gathering, Reporting, InTurn
<1> QED
  BY <1>1, <1>2, <1>3, <1>4, <1>5, <1>6, <1>7, <1>8, <1>9, <1>10, <1>11, <1>12,
     <1>13, <1>14, <1>15, <1>16, <1>17, <1>18
     DEF Next, TurnStep, EndStep

(* The invariant holds of a new lifecycle. *)
LEMMA InvInit == Init => Inv
<1> SUFFICES ASSUME Init PROVE Inv
  OBVIOUS
<1>1. TypeOK
  BY TypeInit
<1>2. LockDiscipline
  BY ProcAssumption DEF Init, LockDiscipline, Gathering, Procs
<1>3. ControlDiscipline
  BY ProcAssumption DEF Init, ControlDiscipline, InTurn, Procs
<1>4. Accounting
  BY DEF Init, Accounting, Reporting
<1> QED
  BY <1>1, <1>2, <1>3, <1>4 DEF Inv

(* The inductive invariant, of a session in which no task is cancelled.     *)
THEOREM InvHolds ==
  ASSUME MaxCancels = 0 PROVE Spec => []Inv
<1>1. Inv /\ [Next]_vars => Inv'
  BY InvStep
<1> QED
  BY <1>1, InvInit, PTL DEF Spec

(* The exactly-once terminal phase (compaction.py:65) and its alternation   *)
(* with STARTED, for any number of turns and of overlapping hook calls.     *)
THEOREM PhasesCorrect ==
  ASSUME MaxCancels = 0
  PROVE  Spec => [](PhasesAlternate /\ TerminalPhaseExactlyOnce)
<1>1. ASSUME Inv PROVE PhasesAlternate
  BY <1>1 DEF Inv, TypeOK, Accounting, PhasesAlternate
<1>2. ASSUME Inv PROVE TerminalPhaseExactlyOnce
  <2> SUFFICES ASSUME NEW t \in Turns, pc[t] = "done"
               PROVE  started[t] = ended[t]
    BY DEF TerminalPhaseExactlyOnce
  <2>1. bound # t
    BY <1>2, ProcAssumption DEF Inv, ControlDiscipline, InTurn
  <2> QED
    BY <1>2, <2>1 DEF Inv, TypeOK, Accounting
<1> QED
  BY <1>1, <1>2, InvHolds, PTL
-----------------------------------------------------------------------------
(* Refinement of the atomic lifecycle: a step that reports to the host is   *)
(* one atomic operation, every other step is invisible to it.               *)
LEMMA ReportsAtomically ==
  ASSUME MaxCancels = 0, Inv, [Next]_vars
  PROVE  [Lifecycle!Next]_(Lifecycle!vars)
<1> USE ProcAssumption DEF Inv, TypeOK, Procs, Reporting, Lifecycle!vars
<1>1. ASSUME NEW t \in Turns, Bind(t) PROVE Lifecycle!Bind(t)
  <2>1. bound = NoTurn
    BY <1>1 DEF Bind, MayBind, ControlDiscipline
  <2>2. lock = NoTask
    BY <1>1 DEF Bind, MayBind, InTurn, ControlDiscipline, LockDiscipline,
       Gathering
  <2> QED
    BY <1>1, <2>1, <2>2 DEF Bind, Replaceable, Lifecycle!Bind
<1>2. ASSUME NEW t \in Turns,
             BindRefused(t) \/ Boundary(t) \/ TurnEnds(t) \/ CompleteInner(t)
      PROVE  UNCHANGED Lifecycle!vars
  BY <1>2 DEF BindRefused, Boundary, TurnEnds, CompleteInner,
     DepthAfterComplete
<1>3. ASSUME NEW t \in Turns, CompleteOuter(t) PROVE UNCHANGED Lifecycle!vars
  BY <1>3 DEF CompleteOuter
<1>4. ASSUME NEW t \in Turns, CompleteEmit(t) PROVE Lifecycle!End
  BY <1>4 DEF CompleteEmit, LockDiscipline, Gathering, Emit, Lifecycle!End,
     Lifecycle!Told
<1>5. ASSUME NEW h \in Hooks, Start(h)
      PROVE  Lifecycle!Begin \/ UNCHANGED Lifecycle!vars
  BY <1>5 DEF Start, Nested, Emit, Lifecycle!Begin, Lifecycle!Told
<1>6. ASSUME NEW p \in Turns \cup {Closer}, EndInactive(p)
      PROVE  Lifecycle!Unbind
  BY <1>6 DEF EndInactive, Lifecycle!Unbind
<1>7. ASSUME NEW p \in Turns \cup {Closer}, EndActive(p)
      PROVE  UNCHANGED Lifecycle!vars
  BY <1>7 DEF EndActive
<1>8. ASSUME NEW p \in Turns \cup {Closer}, EndEmit(p)
      PROVE  Lifecycle!Unbind
  BY <1>8 DEF EndEmit, LockDiscipline, Gathering, Emit, Lifecycle!Unbind,
     Lifecycle!Told
<1>9. ASSUME Expire PROVE Lifecycle!End
  BY <1>9 DEF Expire, Emit, Lifecycle!End, Lifecycle!Told
<1>10. ASSUME NEW h \in Hooks, PreCompact(h) PROVE UNCHANGED Lifecycle!vars
  BY <1>10 DEF PreCompact
<1>11. ASSUME Close \/ WatchdogWakes \/ WatchdogDies \/ UNCHANGED vars
       PROVE  UNCHANGED Lifecycle!vars
  BY <1>11 DEF Close, WatchdogWakes, WatchdogDies, vars
<1>12. ASSUME NEW p \in Turns \cup {Closer}, CancelTask(p) PROVE FALSE
  BY <1>12 DEF CancelTask, ControlDiscipline
<1> QED
  BY <1>1, <1>2, <1>3, <1>4, <1>5, <1>6, <1>7, <1>8, <1>9, <1>10, <1>11,
     <1>12
     DEF Next, TurnStep, EndStep, Lifecycle!Next

(* NativeCompactionLifecycle, with its lock, its watchdog task and the      *)
(* gather() in the middle of _finish, implements the atomic lifecycle.      *)
THEOREM LifecycleImplemented ==
  ASSUME MaxCancels = 0 PROVE Spec => ImplementsLifecycle
<1>1. Init => Lifecycle!Init
  BY DEF Init, Lifecycle!Init, Reporting
<1>2. Inv /\ [Next]_vars => [Lifecycle!Next]_(Lifecycle!vars)
  BY ReportsAtomically
<1> QED
  BY <1>1, <1>2, InvHolds, PTL DEF Spec, ImplementsLifecycle, Lifecycle!Spec

(* Every step keeps the account of the lost ends, also when a task is       *)
(* cancelled in gather() or in its wait for the lock.                       *)
LEMMA CancelledStep ==
  ASSUME CancelledInv, [Next]_vars PROVE CancelledInv'
<1> USE ProcAssumption DEF Procs
<1>0. TypeOK /\ TypeOK'
  BY TypeStep DEF CancelledInv
<1> USE DEF TypeOK, CancelledInv, CancelledDiscipline, OneEndLostPerCancel,
        Gathering, Reporting, Goto
<1>1. ASSUME NEW t \in Turns, Bind(t) PROVE CancelledInv'
  <2>1. ~Reporting
    BY <1>1 DEF Bind, MayBind, Replaceable, InTurn
  <2>2. CancelledDiscipline'
    BY <1>0, <1>1 DEF Bind, MayBind
  <2>3. OneEndLostPerCancel'
    BY <1>0, <1>1, <2>1 DEF Bind
  <2> QED
    BY <1>0, <2>2, <2>3
<1>2. ASSUME NEW t \in Turns, BindRefused(t) PROVE CancelledInv'
  BY <1>0, <1>2 DEF BindRefused, MayBind, Replaceable
<1>3. ASSUME NEW t \in Turns, Boundary(t) \/ TurnEnds(t)
      PROVE  CancelledInv'
  BY <1>0, <1>3 DEF Boundary, TurnEnds
<1>4. ASSUME NEW t \in Turns, CompleteInner(t) PROVE CancelledInv'
  BY <1>0, <1>4 DEF CompleteInner, DepthAfterComplete
<1>5. ASSUME NEW t \in Turns, CompleteOuter(t) PROVE CancelledInv'
  BY <1>0, <1>5 DEF CompleteOuter
<1>6. ASSUME NEW t \in Turns, CompleteEmit(t) PROVE CancelledInv'
  <2>1. CancelledDiscipline'
    BY <1>0, <1>6 DEF CompleteEmit
  <2>2. OneEndLostPerCancel'
    BY <1>0, <1>6 DEF CompleteEmit, Emit
  <2> QED
    BY <1>0, <2>1, <2>2
<1>7. ASSUME NEW h \in Hooks, PreCompact(h) PROVE CancelledInv'
  BY <1>0, <1>7 DEF PreCompact
<1>8. ASSUME NEW h \in Hooks, Start(h) PROVE CancelledInv'
  <2>1. CancelledDiscipline'
    BY <1>0, <1>8 DEF Start
  <2>2. OneEndLostPerCancel'
    BY <1>0, <1>8 DEF Start, Nested, Emit
  <2> QED
    BY <1>0, <2>1, <2>2
<1>9. ASSUME NEW p \in Turns \cup {Closer}, EndInactive(p) \/ EndActive(p)
      PROVE  CancelledInv'
  BY <1>0, <1>9 DEF EndInactive, EndActive
<1>10. ASSUME NEW p \in Turns \cup {Closer}, EndEmit(p) PROVE CancelledInv'
  <2>1. CancelledDiscipline'
    BY <1>0, <1>10 DEF EndEmit
  <2>2. OneEndLostPerCancel'
    BY <1>0, <1>10 DEF EndEmit, Emit
  <2> QED
    BY <1>0, <2>1, <2>2
<1>11. ASSUME NEW p \in Turns \cup {Closer}, CancelTask(p)
       PROVE  CancelledInv'
  <2>1. CancelledDiscipline'
    BY <1>0, <1>11 DEF CancelTask
  <2>2. OneEndLostPerCancel'
    BY <1>0, <1>11 DEF CancelTask
  <2> QED
    BY <1>0, <2>1, <2>2
<1>12. CASE Close
  BY <1>0, <1>12 DEF Close
<1>13. CASE WatchdogWakes \/ WatchdogDies
  BY <1>0, <1>13 DEF WatchdogWakes, WatchdogDies
<1>14. CASE Expire
  <2>1. CancelledDiscipline'
    BY <1>0, <1>14 DEF Expire
  <2>2. OneEndLostPerCancel'
    BY <1>0, <1>14 DEF Expire, Emit
  <2> QED
    BY <1>0, <2>1, <2>2
<1>15. CASE UNCHANGED vars
  BY <1>0, <1>15 DEF vars
<1> QED
  BY <1>1, <1>2, <1>3, <1>4, <1>5, <1>6, <1>7, <1>8, <1>9, <1>10, <1>11,
     <1>12, <1>13, <1>14, <1>15 DEF Next, TurnStep, EndStep

(* However many tasks are cancelled, each costs a turn at most one terminal *)
(* phase, and no turn hears of an end without a start.                      *)
THEOREM LossesBounded == Spec => []OneEndLostPerCancel
<1>1. Init => CancelledInv
  BY TypeInit, ProcAssumption DEF Init, CancelledInv, CancelledDiscipline,
     OneEndLostPerCancel, Gathering, Reporting, Procs
<1>2. CancelledInv /\ [Next]_vars => CancelledInv'
  BY CancelledStep
<1>3. CancelledInv => OneEndLostPerCancel
  BY DEF CancelledInv
<1> QED
  BY <1>1, <1>2, <1>3, PTL DEF Spec
=============================================================================
