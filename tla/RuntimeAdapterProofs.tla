------------------------ MODULE RuntimeAdapterProofs ------------------------
(* Proofs about RuntimeAdapter, for any number of turns, requests, hosts,   *)
(* tool calls, projections and cancellations.                               *)
EXTENDS RuntimeAdapter, TLAPS

Live(t) == gen[t].pc \notin {"unstarted", "ended"}
Active(t) == task[t].st \in {"waiting", "running", "answered", "retiring"}

(* The host drives one generator at a time, in the order of the turns: all  *)
(* before one that has begun are ended, so that a turn is either the only   *)
(* live one or without a task of its own.  A session is opened for a turn,  *)
(* so there are never more of them than turns that have begun.              *)
Ordering ==
  /\ \A t, u \in Turns : u < t /\ gen[t].pc # "unstarted" =>
                           gen[u].pc = "ended"
  /\ \A t \in Turns :
       /\ gen[t].pc = "unstarted" =>
            current < t /\ task[t].st = "none" /\ gen[t].start = 0
       /\ Live(t) => current # 0

(* A generator that still runs has yielded no terminal event. *)
Terminals ==
  \A t \in Turns :
    /\ gen[t].pc # "ended" =>
         gen[t].terminals = 0 /\ gen[t].left = "none" /\ gen[t].out = "none"
    /\ gen[t].pc = "ended" => gen[t].terminals <= 1 /\ gen[t].left # "none"
    /\ gen[t].left = "returned" => gen[t].terminals = 1 /\ task[t].st = "none"
    /\ gen[t].out # "none" => gen[t].left = "returned"

(* The counter of the bridge is past the start of every turn that ran a     *)
(* tool; once a failure is reported only a CLI left behind runs another.    *)
Effects ==
  \A t \in Turns :
    /\ gen[t].start <= executions
    /\ gen[t].pc = "unstarted" => \A c \in Calls : call[c].turn # t
    /\ gen[t].pc # "ended" /\ Performed(t) => gen[t].start < executions
    /\ gen[t].pc = "failing" => task[t].st \in {"none", "done"}
    /\ gen[t].out = "failed" /\ gen[t].phase # "effects" => OnlyLateCalls(t)

(* A session task holds the request that was compared with the binding. *)
Binding ==
  /\ current # 0 => host # None /\ contract # None
  /\ \A t \in Turns : Active(t) =>
       /\ task[t].req \in Requests /\ task[t].sess \in Sessions
       /\ HostOf[task[t].req] = host /\ ContractOf[task[t].req] = contract
       /\ current # 0
  /\ \A p \in prompts :
       /\ HostOf[p.req] = host /\ ContractOf[p.req] = contract
       /\ current # 0

(* The token is the request of the last preflight, and a task took it. *)
Clearance ==
  /\ token # None => fresh = token
  /\ \A t \in Turns : Active(t) => task[t].cleared
  /\ \A p \in prompts : p.cleared

(* The task of the live turn uses the current session, and the bridge is   *)
(* bound to that turn; one that a killed generator left behind has a closed *)
(* session, whose CLI calls no more tools.                                  *)
Bound ==
  /\ \A t \in Turns : Active(t) =>
       /\ Live(t) => task[t].sess = current /\ correlation = t
       /\ gen[t].left = "killed" => sess[task[t].sess].closed
  /\ \A c \in Calls : call[c].turn = NoTurn => call[c].under = NoTurn

Holding(t) == task[t].st \in {"running", "answered", "retiring"}

(* The turn lock of a session has one holder.  A task that waits for it has *)
(* shown nothing, so its generator was not left at a yield.                 *)
Locking ==
  /\ \A t, u \in Turns :
       Holding(t) /\ Holding(u) /\ task[t].sess = task[u].sess => t = u
  /\ \A t \in Turns :
       /\ Active(t) => task[t].sess <= current
       /\ gen[t].pc = "unstarted" \/ task[t].st = "waiting" =>
            task[t].queue = <<>>
       /\ gen[t].pc = "yielded" \/ gen[t].left = "abandoned" =>
            task[t].st # "waiting"
  /\ \A s \in Sessions :
       current < s => ~sess[s].closed /\ ~sess[s].cancelReq

(* While the runtime is open, a session is closed by its own turn or by a   *)
(* cancel(), and a cancel() that is not cut short closes it.                *)
Recoverable(s) == sess[s].closed => sess[s].cancelReq
CutShort == \E t \in Turns : gen[t].left = "cut"
Cancels ==
  ~closed =>
    /\ \A t \in Turns :
         /\ Holding(t) => Recoverable(task[t].sess)
         /\ task[t].st = "retiring" => task[t].result # "cancelled"
         /\ Cancelling(t) => sess[current].closed \/ sess[current].cancelReq
    /\ ~CutShort =>
         /\ (\A t \in Turns : ~Cancelling(t)) /\ current # 0
              /\ sess[current].cancelReq => sess[current].closed
         /\ \A t \in Turns :
              Live(t) /\ task[t].st = "done" /\ task[t].result = "cancelled"
              => /\ Recoverable(current)
                 /\ \A u \in Turns : ~Holds(u, current)

Structure ==
  /\ Ordering /\ Terminals /\ Effects /\ Binding /\ Clearance /\ Bound
  /\ OneOpenSession /\ ToolCallsInTheirTurn /\ Locking

AdapterInv == OwnTypeOK /\ Structure /\ Cancels

(* A CLI works for the live turn alone, in the session of that turn and     *)
(* until it closes; a turn that is told to cancel returns before that, and  *)
(* its generator waits for the close().  A task that still waits for the    *)
(* lock when its generator is cut finds a session it is refused by.         *)
WorkOf(t) ==
  /\ \A s \in Sessions : t \in work[s] =>
       /\ Live(t) /\ correlation = t /\ current = s /\ ~sess[s].closed
       /\ Holding(t) \/ Cancelling(t)
  /\ task[t].told =>
       /\ Holding(t)
       /\ Live(t) => Cancelling(t) \/ sess[task[t].sess].closed
  /\ Cancelling(t) => sess[current].closed \/ sess[current].cancelReq
  /\ gen[t].left = "cut" /\ Active(t) =>
       sess[task[t].sess].closed \/ sess[task[t].sess].cancelReq
  /\ t \in stray => gen[t].pc # "unstarted"
Work == \A t \in Turns : WorkOf(t)

RuntimeInv == AdapterInv /\ CliTypeOK /\ Work
-----------------------------------------------------------------------------
(* What the operators of the model return *)

(* A generator that is left has ended, and keeps what it reported. *)
LEMMA LeftFacts ==
  ASSUME NEW g \in Generators,
         NEW how \in {"returned", "abandoned", "killed", "cut"}
  PROVE  /\ Left(g, how) \in Generators
         /\ Left(g, how).pc = "ended" /\ Left(g, how).left = how
         /\ Left(g, how).start = 0 /\ Left(g, how).out = g.out
         /\ Left(g, how).terminals = g.terminals
  BY ZenonT(60) DEF Left, Generators, Phases

TerminalEvents == {"completed", "cancelled", "failed", "unlisted"}

(* A generator that returns has yielded one terminal event more. *)
LEMMA EndedFacts ==
  ASSUME NEW g \in Generators, NEW phase \in Phases,
         NEW out \in TerminalEvents
  PROVE  /\ Ended(g, out, phase) \in Generators
         /\ Ended(g, out, phase).pc = "ended"
         /\ Ended(g, out, phase).left = "returned"
         /\ Ended(g, out, phase).start = 0
         /\ Ended(g, out, phase).out = out
         /\ Ended(g, out, phase).phase = phase
         /\ Ended(g, out, phase).terminals = g.terminals + 1
<1> DEFINE l == Left(g, "returned")
<1>1. /\ l \in Generators /\ l.pc = "ended" /\ l.left = "returned"
      /\ l.start = 0 /\ l.terminals = g.terminals
  BY LeftFacts
<1>2. Ended(g, out, phase) = [l EXCEPT !.out = out, !.phase = phase,
                                       !.terminals = @ + 1]
  BY DEF Ended
<1>3. l.terminals + 1 \in Nat
  BY <1>1 DEF Generators
<1> HIDE DEF l
<1>4. Ended(g, out, phase) \in Generators
  BY ZenonT(60), <1>1, <1>2, <1>3 DEF Generators, TerminalEvents
<1>5. /\ Ended(g, out, phase).pc = l.pc
      /\ Ended(g, out, phase).left = l.left
      /\ Ended(g, out, phase).start = l.start
      /\ Ended(g, out, phase).out = out
      /\ Ended(g, out, phase).phase = phase
      /\ Ended(g, out, phase).terminals = l.terminals + 1
  BY <1>1, <1>2 DEF Generators
<1> QED
  BY <1>1, <1>4, <1>5

(* cancel() changes only whether a turn is told, and only whether its       *)
(* session was asked to cancel.                                             *)
LEMMA ToldFacts ==
  ASSUME NEW s, task \in [Turns -> SessionTasks]
  PROVE  /\ Told(s) \in [Turns -> SessionTasks]
         /\ \A u \in Turns :
              /\ Told(s)[u].st = task[u].st /\ Told(s)[u].req = task[u].req
              /\ Told(s)[u].cleared = task[u].cleared
              /\ Told(s)[u].sess = task[u].sess
              /\ Told(s)[u].result = task[u].result
              /\ Told(s)[u].queue = task[u].queue
  BY ZenonT(60) DEF Told, SessionTasks

SessionStates == [closed : BOOLEAN, cancelReq : BOOLEAN]

(* cancel() closes no session, and asks only its own to cancel. *)
LEMMA RequestedFacts ==
  ASSUME NEW s \in Sessions, sess \in [Sessions -> SessionStates]
  PROVE  /\ Requested(s) \in [Sessions -> SessionStates]
         /\ \A v \in Sessions :
              /\ Requested(s)[v].closed = sess[v].closed
              /\ v # s => Requested(s)[v].cancelReq = sess[v].cancelReq
         /\ Requested(s)[s].cancelReq =
              (sess[s].cancelReq \/ ~sess[s].closed)
<1> DEFINE b == sess[s].cancelReq \/ ~sess[s].closed
<1>1. b \in BOOLEAN
  OBVIOUS
<1>2. Requested(s) = [sess EXCEPT ![s] = [sess[s] EXCEPT !.cancelReq = b]]
  BY DEF Requested
<1> HIDE DEF b
<1>3. /\ Requested(s) \in [Sessions -> SessionStates]
      /\ \A v \in Sessions :
           /\ Requested(s)[v].closed = sess[v].closed
           /\ v # s => Requested(s)[v].cancelReq = sess[v].cancelReq
      /\ Requested(s)[s].cancelReq = b
  BY <1>1, <1>2 DEF SessionStates
<1> QED
  BY <1>3 DEF b

(* What is left of a task that returns or is released is well formed. *)
LEMMA TaskFacts ==
  ASSUME NEW t \in Turns, NEW result \in Results, NEW k \in SessionTasks,
         task \in [Turns -> SessionTasks]
  PROVE  /\ NoTask \in SessionTasks
         /\ Done(t, result) \in SessionTasks
         /\ Released(k) \in SessionTasks
<1>0. <<>> \in Seq(Kinds)
  OBVIOUS
<1>1. NoTask \in SessionTasks
  BY <1>0, BoundAssumption DEF NoTask, SessionTasks, Results
<1>2. Released(k) \in SessionTasks
  BY <1>0, <1>1 DEF Released, SessionTasks
<1>3. task[t].queue \in Seq(Kinds)
  BY DEF SessionTasks
<1>4. Done(t, result) \in SessionTasks
  BY <1>1, <1>3 DEF Done, SessionTasks
<1> QED
  BY <1>1, <1>2, <1>4

(* How far a turn got is one of the phases. *)
LEMMA PhaseFacts == ASSUME NEW t \in Turns PROVE Phase(t) \in Phases
  BY DEF Phase, Phases

-----------------------------------------------------------------------------
(* The steps as the invariant sees them *)

(* The generator of turn t goes on, or is left with an event or without.    *)
OthersKept(t) ==
  /\ gen' \in [Turns -> Generators]
  /\ \A u \in Turns : u # t => gen'[u] = gen[u]
Moves(t, p) ==
  /\ OthersKept(t)
  /\ gen'[t].pc = p /\ gen'[t].start \in {gen[t].start, 0}
  /\ gen'[t].terminals = gen[t].terminals
  /\ gen'[t].out = gen[t].out /\ gen'[t].left = gen[t].left
Leaves(t, how) ==
  /\ OthersKept(t)
  /\ gen'[t].pc = "ended" /\ gen'[t].start = 0 /\ gen'[t].left = how
  /\ gen'[t].terminals = gen[t].terminals /\ gen'[t].out = gen[t].out
Returned(t) ==
  /\ OthersKept(t)
  /\ gen'[t].pc = "ended" /\ gen'[t].start = 0 /\ gen'[t].left = "returned"
  /\ gen'[t].terminals = gen[t].terminals + 1 /\ gen'[t].out # "none"
  /\ gen'[t].out = "failed" /\ gen'[t].phase # "effects" => ~Performed(t)

(* A task that goes on with its request in its session, and one that is     *)
(* gone.                                                                    *)
SameRequest(u) ==
  /\ task'[u].req = task[u].req /\ task'[u].cleared = task[u].cleared
  /\ task'[u].sess = task[u].sess
TaskKept(u) ==
  /\ SameRequest(u)
  /\ task'[u].st = task[u].st /\ task'[u].result = task[u].result
  /\ task[u].queue = <<>> => task'[u].queue = <<>>
TaskGone(u) == task'[u].st = "none" /\ task'[u].queue = <<>>

(* What is left behind stays, and no late call is made or forgotten. *)
CliGrows == stray \subseteq stray' /\ late' = late

(* Sessions do not open again, and those of later turns are untouched. *)
SessionsClose ==
  \A s \in Sessions : /\ sess[s].closed => sess'[s].closed
                      /\ current' < s => sess'[s] = sess[s]

(* One generator changes and the others are kept. *)
LEMMA GenUpdate ==
  ASSUME gen \in [Turns -> Generators], NEW t \in Turns, NEW g \in Generators,
         gen' = [gen EXCEPT ![t] = g]
  PROVE  OthersKept(t) /\ gen'[t] = g
  BY DEF OthersKept

PointsInTurn == {"loop", "yielded", "cancelling", "native", "nativeTask",
                 "failing", "dying"}

(* A generator that only goes to another point. *)
LEMMA MovePc ==
  ASSUME gen \in [Turns -> Generators], NEW t \in Turns,
         NEW p \in PointsInTurn, gen' = [gen EXCEPT ![t].pc = p]
  PROVE  Moves(t, p)
  BY DEF Moves, OthersKept, Generators, PointsInTurn

(* A generator that notes what the poll said. *)
LEMMA MoveCancel ==
  ASSUME gen \in [Turns -> Generators], NEW t \in Turns,
         NEW p \in PointsInTurn, NEW x \in {"sent", "unavailable"},
         gen' = [gen EXCEPT ![t].pc = p, ![t].cancel = x]
  PROVE  Moves(t, p)
<1> DEFINE g == [gen[t] EXCEPT !.pc = p, !.cancel = x]
<1>1. /\ g \in Generators /\ g.pc = p /\ g.start = gen[t].start
      /\ g.terminals = gen[t].terminals
      /\ g.out = gen[t].out /\ g.left = gen[t].left
  BY ZenonT(60) DEF Generators, PointsInTurn
<1>2. gen' = [gen EXCEPT ![t] = g]
  OBVIOUS
<1> HIDE DEF g
<1> QED
  BY <1>1, <1>2, GenUpdate DEF Moves

(* A generator that waits for session.cancel() keeps what it reported. *)
LEMMA WaitsFacts ==
  ASSUME NEW g \in Generators, NEW p \in PointsInTurn, NEW x \in Phases
  PROVE  /\ Waits(g, p, x) \in Generators
         /\ Waits(g, p, x).pc = p /\ Waits(g, p, x).start = 0
         /\ Waits(g, p, x).terminals = g.terminals
         /\ Waits(g, p, x).out = g.out /\ Waits(g, p, x).left = g.left
  BY DEF Waits, Generators, PointsInTurn

(* A generator that only waits for session.cancel() before it ends. *)
LEMMA MoveWaits ==
  ASSUME gen \in [Turns -> Generators], NEW t \in Turns,
         NEW p \in PointsInTurn, NEW x \in Phases,
         gen' = [gen EXCEPT ![t] = Waits(gen[t], p, x)]
  PROVE  Moves(t, p)
<1> DEFINE g == Waits(gen[t], p, x)
<1>1. /\ g \in Generators /\ g.pc = p /\ g.start = 0
      /\ g.terminals = gen[t].terminals
      /\ g.out = gen[t].out /\ g.left = gen[t].left
  BY WaitsFacts
<1>2. gen' = [gen EXCEPT ![t] = g]
  OBVIOUS
<1> HIDE DEF g
<1> QED
  BY <1>1, <1>2, GenUpdate DEF Moves

(* A generator that notes whether it has shown text. *)
LEMMA MoveVisible ==
  ASSUME gen \in [Turns -> Generators], NEW t \in Turns,
         NEW p \in PointsInTurn, NEW x \in BOOLEAN,
         gen' = [gen EXCEPT ![t].visible = x,
                            ![t].terminals = gen[t].terminals, ![t].pc = p]
  PROVE  Moves(t, p)
<1> DEFINE g == [gen[t] EXCEPT !.visible = x, !.terminals = gen[t].terminals,
                               !.pc = p]
<1>1. /\ g \in Generators /\ g.pc = p /\ g.start = gen[t].start
      /\ g.terminals = gen[t].terminals
      /\ g.out = gen[t].out /\ g.left = gen[t].left
  BY ZenonT(60) DEF Generators, PointsInTurn
<1>2. gen' = [gen EXCEPT ![t] = g]
  OBVIOUS
<1> HIDE DEF g
<1> QED
  BY <1>1, <1>2, GenUpdate DEF Moves

(* A generator that is left without a terminal event. *)
LEMMA LeaveFacts ==
  ASSUME gen \in [Turns -> Generators], NEW t \in Turns,
         NEW how \in {"abandoned", "killed", "cut"},
         gen' = [gen EXCEPT ![t] = Left(@, how)]
  PROVE  Leaves(t, how)
  BY LeftFacts DEF Leaves, OthersKept

(* A generator that yields its terminal event and returns. *)
LEMMA ReturnFacts ==
  ASSUME gen \in [Turns -> Generators], NEW t \in Turns,
         NEW phase \in Phases,
         NEW out \in TerminalEvents,
         gen' = [gen EXCEPT ![t] = Ended(@, out, phase)],
         out = "failed" /\ phase # "effects" => ~Performed(t)
  PROVE  Returned(t) /\ gen'[t].out = out
<1>1. gen[t] \in Generators
  OBVIOUS
<1>2. Ended(gen[t], out, phase) \in Generators
  BY <1>1, EndedFacts
<1>3. OthersKept(t) /\ gen'[t] = Ended(gen[t], out, phase)
  BY <1>2, GenUpdate
<1>4. gen'[t] \in Generators
  BY <1>2, <1>3
<1>5. /\ gen'[t].pc = "ended" /\ gen'[t].left = "returned"
      /\ gen'[t].start = 0 /\ gen'[t].out = out /\ gen'[t].phase = phase
      /\ gen'[t].terminals = gen[t].terminals + 1
  BY <1>1, <1>3, EndedFacts
<1> QED
  BY <1>3, <1>5 DEF Returned, TerminalEvents

(* The tasks that are told to cancel are otherwise kept. *)
LEMMA ToldKept ==
  ASSUME NEW s, task \in [Turns -> SessionTasks], task' = Told(s)
  PROVE  task' \in [Turns -> SessionTasks] /\ \A u \in Turns : TaskKept(u)
  BY ToldFacts DEF TaskKept, SameRequest

(* A released task is gone if it was done, and else runs on. *)
LEMMA ReleasedFacts ==
  ASSUME NEW tasks \in [Turns -> SessionTasks], NEW t \in Turns,
         \A u \in Turns :
           /\ tasks[u].st = task[u].st /\ tasks[u].req = task[u].req
           /\ tasks[u].cleared = task[u].cleared
           /\ tasks[u].sess = task[u].sess
           /\ tasks[u].result = task[u].result
           /\ tasks[u].queue = task[u].queue,
         task' = [tasks EXCEPT ![t] = Released(@)]
  PROVE  /\ task' \in [Turns -> SessionTasks]
         /\ \A u \in Turns : u # t => TaskKept(u)
         /\ TaskKept(t) \/ TaskGone(t)
         /\ task[t].st \in {"none", "done"} => TaskGone(t)
<1>1. tasks[t] \in SessionTasks /\ <<>> \in Seq(Kinds)
  OBVIOUS
<1>2. NoTask \in SessionTasks
  BY <1>1, BoundAssumption DEF NoTask, SessionTasks, Results
<1> DEFINE k == Released(tasks[t])
<1>3. task'[t] = k /\ \A u \in Turns : u # t => task'[u] = tasks[u]
  OBVIOUS
<1>4. CASE tasks[t].st = "done"
  <2>1. k = NoTask
    BY <1>4 DEF Released
  <2>2. TaskGone(t)
    BY <2>1, <1>3 DEF TaskGone, NoTask
  <2> QED
    BY <2>1, <2>2, <1>2, <1>3 DEF TaskKept, SameRequest
<1>5. CASE tasks[t].st # "done"
  <2>1. k = [tasks[t] EXCEPT !.queue = <<>>]
    BY <1>5 DEF Released
  <2>2. /\ k \in SessionTasks /\ k.st = tasks[t].st /\ k.req = tasks[t].req
        /\ k.cleared = tasks[t].cleared /\ k.sess = tasks[t].sess
        /\ k.result = tasks[t].result /\ k.queue = <<>>
    BY <1>1, <2>1 DEF SessionTasks
  <2> HIDE DEF k
  <2>3. /\ task'[t].st = task[t].st /\ task'[t].req = task[t].req
        /\ task'[t].cleared = task[t].cleared
        /\ task'[t].sess = task[t].sess
        /\ task'[t].result = task[t].result /\ task'[t].queue = <<>>
    BY <2>2, <1>3
  <2>4. \A u \in Turns : u # t => TaskKept(u)
    BY <1>3 DEF TaskKept, SameRequest
  <2>5. task' \in [Turns -> SessionTasks]
    BY <2>2 DEF k
  <2> QED
    BY <2>3, <2>4, <2>5, <1>5 DEF TaskKept, TaskGone, SameRequest
<1> QED
  BY <1>4, <1>5

(* A generator that goes on, whatever it tells the session, keeps the       *)
(* structure.                                                               *)
LEMMA GeneratorMoves ==
  ASSUME OwnTypeOK, Structure, NEW t \in Turns, NEW p \in PointsInTurn,
         Live(t),
         Moves(t, p), GeneratorStep, CliGrows, SessionsClose,
         \A u \in Turns : u # t => TaskKept(u), TaskKept(t) \/ TaskGone(t),
         p = "failing" => task[t].st = "done",
         p = "yielded" => task[t].st # "waiting"
  PROVE  Structure'
<1> USE DEF Structure, GeneratorStep, binding, bridgeVars
<1>1. /\ \A u \in Turns :
           /\ (gen[u].pc = "ended") <=> (gen'[u].pc = "ended")
           /\ (gen[u].pc = "unstarted") <=> (gen'[u].pc = "unstarted")
           /\ gen'[u].start \in {gen[u].start, 0}
           /\ gen[u].pc = "unstarted" => gen'[u].start = gen[u].start
           /\ gen[u].start \in Nat /\ gen'[u].left = gen[u].left
           /\ gen'[u].terminals = gen[u].terminals
           /\ gen'[u].out = gen[u].out
           /\ gen[u].out # "none" => gen'[u].phase = gen[u].phase
  BY DEF Moves, OthersKept, Live, PointsInTurn, Terminals, OwnTypeOK,
     Generators
<1>2. \A u \in Turns :
        \/ SameRequest(u) /\ task'[u].st = task[u].st
        \/ task'[u].st = "none"
  BY DEF TaskKept, TaskGone
<1>3. Ordering'
  BY <1>1, <1>2 DEF Ordering, Live
<1>4. Terminals'
  BY <1>1, <1>2 DEF Terminals
<1>5. Effects'
  <2>1. \A u \in Turns : gen'[u].pc = "failing" =>
                           task'[u].st \in {"none", "done"}
    BY <1>2 DEF Moves, OthersKept, Effects
  <2>2. executions \in Nat
    BY DEF OwnTypeOK, BridgeTypeOK
  <2>3. \A u \in Turns :
          /\ gen'[u].start <= executions
          /\ gen[u].start < executions => gen'[u].start < executions
    BY <1>1, <2>2 DEF Effects
  <2> QED
    BY <1>1, <2>1, <2>3 DEF Effects, Performed, OnlyLateCalls, CliGrows
<1>6. Binding' /\ Clearance'
  BY <1>2 DEF Binding, Clearance, Active, SameRequest
<1>7. Bound'
  BY <1>1, <1>2 DEF Bound, Binding, Active, SameRequest, Live, SessionsClose
<1>8. OneOpenSession'
  BY TurnsAssumption DEF OneOpenSession, SessionsClose, OwnTypeOK, Sessions
<1>9. ToolCallsInTheirTurn'
  <2>1. \A c \in Calls : call[c].under # call[c].turn => call[c].turn \in Turns
    BY DEF Bound, OwnTypeOK, BridgeTypeOK
  <2> QED
    BY <1>1, <2>1 DEF ToolCallsInTheirTurn, CliGrows
<1>10. Locking'
  <2>1. \A u, v \in Turns :
          Holding(u)' /\ Holding(v)' /\ task'[u].sess = task'[v].sess => u = v
    BY <1>2 DEF Locking, Holding, SameRequest
  <2>2. \A u \in Turns : Active(u)' => task'[u].sess <= current'
    BY <1>2 DEF Locking, Active, SameRequest
  <2>3. \A u \in Turns :
          gen'[u].pc = "unstarted" \/ task'[u].st = "waiting" =>
            task'[u].queue = <<>>
    BY <1>1 DEF Locking, TaskKept, TaskGone
  <2>4. \A u \in Turns :
          gen'[u].pc = "yielded" \/ gen'[u].left = "abandoned" =>
            task'[u].st # "waiting"
    BY <1>1, <1>2 DEF Locking, Moves, OthersKept
  <2>5. \A s \in Sessions :
          current' < s => ~sess'[s].closed /\ ~sess'[s].cancelReq
    BY DEF Locking, SessionsClose
  <2> QED
    BY <2>1, <2>2, <2>3, <2>4, <2>5 DEF Locking
<1> QED
  BY <1>3, <1>4, <1>5, <1>6, <1>7, <1>8, <1>9, <1>10

(* A generator that is left, with its terminal event or without, keeps the  *)
(* structure.                                                               *)
LEMMA GeneratorLeaves ==
  ASSUME OwnTypeOK, Structure, NEW t \in Turns, Live(t),
         NEW how \in {"returned", "abandoned", "killed", "cut"},
         IF how = "returned" THEN Returned(t) /\ TaskGone(t)
                             ELSE Leaves(t, how),
         GeneratorStep, CliGrows, SessionsClose,
         \A u \in Turns : u # t => TaskKept(u), TaskKept(t) \/ TaskGone(t),
         how = "killed" => sess'[current].closed,
         how = "abandoned" => task[t].st # "waiting"
  PROVE  Structure'
<1> USE DEF Structure, GeneratorStep, binding, bridgeVars
<1>1. /\ gen'[t].pc = "ended" /\ gen'[t].left = how /\ gen'[t].start = 0
      /\ gen[t].pc \notin {"unstarted", "ended"} /\ gen[t].left = "none"
      /\ \A u \in Turns : u # t => gen'[u] = gen[u]
  BY DEF Leaves, Returned, OthersKept, Live, Terminals
<1>2. \A u \in Turns :
        \/ SameRequest(u) /\ task'[u].st = task[u].st
        \/ task'[u].st = "none"
  BY DEF TaskKept, TaskGone
<1>3. Ordering'
  BY <1>1, <1>2 DEF Ordering, Live
<1>4. Terminals'
  <2>1. gen[t].terminals = 0 /\ gen[t].out = "none"
    BY <1>1 DEF Terminals
  <2>2. /\ gen'[t].terminals <= 1
        /\ how = "returned" => gen'[t].terminals = 1 /\ task'[t].st = "none"
        /\ gen'[t].out # "none" => how = "returned"
    BY <2>1 DEF Leaves, Returned, TaskGone
  <2> QED
    BY <1>1, <1>2, <2>2 DEF Terminals
<1>5. Effects'
  <2>1. gen'[t].out = "failed" /\ gen'[t].phase # "effects" => ~Performed(t)
    BY <1>1 DEF Leaves, Returned, Effects, Terminals
  <2>2. \A u \in Turns : u # t /\ gen'[u].pc = "failing" =>
                           task'[u].st \in {"none", "done"}
    BY <1>1, <1>2 DEF Effects
  <2>3. 0 <= executions
    BY DEF OwnTypeOK, BridgeTypeOK
  <2> QED
    BY <1>1, <2>1, <2>2, <2>3 DEF Effects, Performed, OnlyLateCalls, CliGrows
<1>6. Binding' /\ Clearance'
  BY <1>2 DEF Binding, Clearance, Active, SameRequest
<1>7. Bound'
  BY <1>1, <1>2 DEF Bound, Binding, Active, SameRequest, Live, SessionsClose
<1>8. OneOpenSession'
  BY TurnsAssumption DEF OneOpenSession, SessionsClose, OwnTypeOK, Sessions
<1>9. ToolCallsInTheirTurn'
  <2>1. \A c \in Calls : call[c].under # call[c].turn => call[c].turn \in Turns
    BY DEF Bound, OwnTypeOK, BridgeTypeOK
  <2> QED
    BY <1>1, <2>1 DEF ToolCallsInTheirTurn, CliGrows
<1>10. Locking'
  <2>1. \A u, v \in Turns :
          Holding(u)' /\ Holding(v)' /\ task'[u].sess = task'[v].sess => u = v
    BY <1>2 DEF Locking, Holding, SameRequest
  <2>2. \A u \in Turns : Active(u)' => task'[u].sess <= current'
    BY <1>2 DEF Locking, Active, SameRequest
  <2>3. \A u \in Turns :
          gen'[u].pc = "unstarted" \/ task'[u].st = "waiting" =>
            task'[u].queue = <<>>
    BY <1>1 DEF Locking, TaskKept, TaskGone
  <2>4. \A u \in Turns :
          gen'[u].pc = "yielded" \/ gen'[u].left = "abandoned" =>
            task'[u].st # "waiting"
    BY <1>1, <1>2 DEF Locking
  <2>5. \A s \in Sessions :
          current' < s => ~sess'[s].closed /\ ~sess'[s].cancelReq
    BY DEF Locking, SessionsClose
  <2> QED
    BY <2>1, <2>2, <2>3, <2>4, <2>5 DEF Locking
<1> QED
  BY <1>3, <1>4, <1>5, <1>6, <1>7, <1>8, <1>9, <1>10

(* A step of a session task keeps the structure: the task ends, or goes on  *)
(* with its request and holds the turn lock.                                *)
LEMMA TaskMoves ==
  ASSUME OwnTypeOK, Structure, NEW t \in Turns, Active(t),
         SessionStep, UNCHANGED bridgeVars, CliGrows, SessionsClose,
         \A u \in Turns : u # t => task'[u] = task[u],
         \/ task'[t].st = "none"
         \/ task'[t].st = "done" /\ gen[t].pc # "ended"
         \/ /\ SameRequest(t) /\ Holding(t)'
            /\ task[t].st = "waiting" => HasLock(t),
         \/ prompts' = prompts
         \/ prompts' = prompts \cup
              {[req |-> task[t].req, cleared |-> task[t].cleared]}
  PROVE  Structure'
<1> USE DEF Structure, SessionStep, binding, bridgeVars
<1>1. /\ task[t].st \notin {"none", "done"} /\ gen[t].left # "returned"
      /\ gen[t].pc # "failing" /\ gen[t].pc # "unstarted"
      /\ task'[t].st # "waiting"
  BY DEF Active, Terminals, Effects, Ordering, Holding
<1>2. \A u \in Turns : \/ SameRequest(u) /\ Active(u)
                       \/ task'[u] = task[u] /\ u # t
                       \/ ~Active(u)' /\ u = t
  BY DEF SameRequest, Active, Holding
<1>3. \A u \in Turns : Active(u)' => SameRequest(u) /\ Active(u)
  BY <1>2 DEF SameRequest, Active
<1>4. Ordering'
  BY <1>1 DEF Ordering, Live
<1>5. Terminals'
  BY <1>1 DEF Terminals
<1>6. Effects'
  BY <1>1 DEF Effects, Performed, OnlyLateCalls, CliGrows
<1>7. Binding' /\ Clearance'
  <2>1. \A p \in prompts' : p \in prompts \/
          (p.req = task[t].req /\ p.cleared = task[t].cleared)
    OBVIOUS
  <2> QED
    BY <1>3, <2>1 DEF Binding, Clearance, SameRequest
<1>8. Bound'
  BY <1>3 DEF Bound, Binding, SameRequest, Live, SessionsClose
<1>9. OneOpenSession'
  BY TurnsAssumption DEF OneOpenSession, SessionsClose, OwnTypeOK, Sessions
<1>10. ToolCallsInTheirTurn'
  BY DEF ToolCallsInTheirTurn, CliGrows
<1>11. Locking'
  <2>1. \A u \in Turns : u # t /\ Holding(u) /\ Holding(t)' =>
                           task[u].sess # task'[t].sess
    BY <1>1 DEF Locking, Holding, HasLock, Holds, Active, SameRequest
  <2>2. \A u, v \in Turns :
          Holding(u)' /\ Holding(v)' /\ task'[u].sess = task'[v].sess => u = v
    BY <2>1 DEF Locking, Holding
  <2>3. \A u \in Turns : Active(u)' => task'[u].sess <= current'
    BY <1>3 DEF Locking, SameRequest
  <2>4. \A u \in Turns :
          /\ gen'[u].pc = "unstarted" \/ task'[u].st = "waiting" =>
               task'[u].queue = <<>>
          /\ gen'[u].pc = "yielded" \/ gen'[u].left = "abandoned" =>
               task'[u].st # "waiting"
    BY <1>1 DEF Locking
  <2>5. \A s \in Sessions :
          current' < s => ~sess'[s].closed /\ ~sess'[s].cancelReq
    BY DEF Locking, SessionsClose
  <2> QED
    BY <2>2, <2>3, <2>4, <2>5 DEF Locking
<1> QED
  BY <1>4, <1>5, <1>6, <1>7, <1>8, <1>9, <1>10, <1>11

(* A tool call is made for the prompt of the live turn, to which the bridge *)
(* is bound, or of one whose CLI was left behind.                           *)
LEMMA ToolCallMoves ==
  ASSUME OwnTypeOK, Structure, CliTypeOK, Work, NEW t \in Turns,
         NEW c \in Calls, ToolCall(c, t)
  PROVE  Structure'
<1> USE DEF Structure, SessionStep, binding, cli
<1>1. /\ UNCHANGED <<closed, token, host, contract, current, gen, fresh,
                     cancels, sess, task, prompts, correlation, work, stray>>
      /\ t \in stray \/ WorkedOn(t)
      /\ late' = IF gen[t].pc = "ended" THEN late \cup {c} ELSE late
  BY DEF ToolCall, Refuse, Execute
<1>2. /\ executions' \in {executions, executions + 1}
      /\ \A d \in Calls : d # c => call'[d] = call[d]
      /\ call'[c].turn = t /\ call'[c].under = correlation
      /\ call'[c].st = "refused" \/ executions' = executions + 1
      /\ executions \in Nat
  BY DEF ToolCall, Refuse, Execute, Made, OwnTypeOK, BridgeTypeOK
<1>3. /\ gen[t].pc # "unstarted"
      /\ t \in stray \/ (correlation = t /\ gen[t].pc # "ended")
  BY <1>1 DEF Work, WorkOf, WorkedOn, Live
<1>4. Effects'
  <2>1. \A u \in Turns : u # t => (Performed(u)' => Performed(u))
    BY <1>2 DEF Performed
  <2>2. ASSUME Performed(t)', executions' # executions + 1
        PROVE Performed(t)
    <3>1. PICK d \in Calls : call'[d].turn = t
                   /\ call'[d].st \notin {"unmade", "refused"}
      BY <2>2 DEF Performed
    <3>2. d # c
      BY <1>2, <2>2, <3>1
    <3> QED
      BY <1>2, <3>1, <3>2 DEF Performed
  <2>3. \A u \in Turns : gen[u].start \in Nat
    BY DEF OwnTypeOK, Generators
  <2>4. ASSUME NEW u \in Turns, gen[u].out = "failed", OnlyLateCalls(u)
        PROVE  OnlyLateCalls(u)'
    <3>1. u = t => c \in late' /\ t \in stray
      BY <1>1, <1>3, <2>4 DEF Terminals
    <3> QED
      BY <1>1, <1>2, <2>4, <3>1 DEF OnlyLateCalls
  <2>5. \A u \in Turns : gen[u].pc = "unstarted" =>
                           \A d \in Calls : call'[d].turn # u
    BY <1>2, <1>3 DEF Effects
  <2>6. \A u \in Turns : gen[u].pc # "ended" /\ Performed(u)' =>
                           gen[u].start < executions'
    BY <1>2, <2>1, <2>2, <2>3 DEF Effects
  <2>7. \A u \in Turns : gen[u].start <= executions'
    BY <1>2, <2>3 DEF Effects
  <2> QED
    BY <1>1, <2>4, <2>5, <2>6, <2>7 DEF Effects
<1>5. ToolCallsInTheirTurn' /\ Bound'
  <2>1. ToolCallsInTheirTurn'
    BY <1>1, <1>2, <1>3 DEF ToolCallsInTheirTurn
  <2>2. \A d \in Calls : call'[d].turn = NoTurn => call'[d].under = NoTurn
    BY <1>2, TurnsAssumption DEF Bound
  <2> QED
    BY <1>1, <2>1, <2>2 DEF Bound, Active, Live
<1>6. Ordering' /\ Terminals'
  BY <1>1 DEF Ordering, Terminals, Live
<1>7. Binding' /\ Clearance' /\ OneOpenSession'
  BY <1>1 DEF Binding, Clearance, OneOpenSession, Active
<1>8. Locking'
  BY <1>1 DEF Locking, Active, Holding
<1> QED
  BY <1>4, <1>5, <1>6, <1>7, <1>8

(* The next turn has no task and no calls, and no other turn is live. *)
LEMMA NextTurn ==
  ASSUME OwnTypeOK, Structure, NEW t \in Turns, IsNext(t)
  PROVE  /\ gen[t].pc = "unstarted" /\ task[t].st = "none"
         /\ task[t].queue = <<>> /\ ~Performed(t)
         /\ gen[t].terminals = 0 /\ gen[t].left = "none"
         /\ gen[t].out = "none" /\ gen[t].start = 0
         /\ current < t /\ current \in Nat
         /\ \A u \in Turns : u # t => ~Live(u)
         /\ \A u \in Turns : gen[u].pc = "unstarted" /\ u # t => t < u
         /\ \A c \in Calls : call[c].turn # t
<1>1. /\ gen[t].pc = "unstarted"
      /\ \A u \in Turns : u < t => gen[u].pc = "ended"
      /\ Turns \subseteq Nat /\ current \in Nat
  BY TurnsAssumption DEF IsNext, OwnTypeOK, Sessions
<1>2. \A u \in Turns : u # t => u < t \/ t < u
  BY <1>1
<1>3. \A u \in Turns : u # t => ~Live(u)
  BY <1>1, <1>2 DEF Structure, Ordering, Live
<1>4. \A u \in Turns : gen[u].pc = "unstarted" /\ u # t => t < u
  BY <1>1, <1>2
<1>5. \A c \in Calls : call[c].turn # t
  BY <1>1 DEF Structure, Effects
<1>6. ~Performed(t)
  BY <1>5 DEF Performed
<1> QED
  BY <1>1, <1>3, <1>4, <1>5, <1>6
  DEF Structure, Ordering, Terminals, Locking

(* A session that a turn uses or replaces is one of the Sessions: its       *)
(* number is at most that of the turn.                                      *)
LEMMA SessionNumber ==
  ASSUME OwnTypeOK, Structure, NEW t \in Turns, IsNext(t)
  PROVE  /\ 1 \in Sessions /\ 1 <= t
         /\ current # 0 => SessionFor \in Sessions /\ SessionFor <= t
<1>1. current < t /\ current \in Nat /\ t \in Nat \ {0}
      /\ 1..t \subseteq Sessions
  BY NextTurn, TurnsAssumption DEF Sessions
<1> QED
  BY <1>1 DEF SessionFor

(* What run_turn() does with the token.                                     *)
LEMMA ConsumeFacts ==
  ASSUME NEW r, NEW ok, Consumes(r, ok)
  PROVE  token' = None /\ fresh' = None
  BY DEF Consumes, TokenAfterUse

(* A turn that is refused before its session is touched. *)
LEMMA TurnRefused ==
  ASSUME OwnTypeOK, Structure, NEW t \in Turns, IsNext(t), Returned(t),
         token' = None,
         host' # host => current = 0,
         UNCHANGED <<closed, contract, current, sess, task, prompts,
                     bridgeVars>>, CliGrows
  PROVE  Structure'
<1> USE DEF Structure, bridgeVars
<1>1. /\ gen'[t].pc = "ended" /\ gen'[t].left = "returned"
      /\ gen'[t].start = 0 /\ gen'[t].terminals = 1
      /\ gen'[t].out = "failed" /\ gen'[t].phase # "effects" => ~Performed(t)
      /\ \A u \in Turns : u # t => gen'[u] = gen[u]
      /\ task[t].st = "none" /\ task[t].queue = <<>>
  BY NextTurn DEF Returned, OthersKept
<1>2. /\ gen[t].pc = "unstarted" /\ gen[t].left = "none"
      /\ \A u \in Turns : u # t => ~Live(u)
      /\ \A u \in Turns : u < t => gen[u].pc = "ended"
  BY NextTurn DEF IsNext
<1>3. Ordering'
  BY <1>1, <1>2 DEF Ordering, Live
<1>4. Terminals'
  BY <1>1 DEF Terminals
<1>5. Effects'
  <2>1. 0 <= executions
    BY DEF OwnTypeOK, BridgeTypeOK
  <2> QED
    BY <1>1, <2>1 DEF Effects, Performed, OnlyLateCalls, CliGrows
<1>6. Binding' /\ Clearance'
  <2>1. host' # None \/ host' = host \/ current = 0
    OBVIOUS
  <2> QED
    BY <2>1 DEF Binding, Clearance, Active
<1>7. Bound'
  BY <1>1, <1>2 DEF Bound, Active, Live
<1>8. OneOpenSession'
  BY DEF OneOpenSession
<1>9. ToolCallsInTheirTurn'
  <2>1. \A c \in Calls : call[c].under # call[c].turn => call[c].turn \in Turns
    BY DEF Bound, OwnTypeOK, BridgeTypeOK
  <2> QED
    BY <1>1, <1>2, <2>1 DEF ToolCallsInTheirTurn, CliGrows
<1>10. Locking'
  BY <1>1 DEF Locking, Active, Holding
<1> QED
  BY <1>3, <1>4, <1>5, <1>6, <1>7, <1>8, <1>9, <1>10

(* What the start of a session task sets. *)
LEMMA LaunchFacts ==
  ASSUME gen \in [Turns -> Generators], task \in [Turns -> SessionTasks],
         executions \in Nat, NEW t \in Turns, NEW r \in Requests,
         NEW s \in Sessions, NEW ok \in BOOLEAN, Launch(t, r, s, ok)
  PROVE  /\ gen' \in [Turns -> Generators]
         /\ task' \in [Turns -> SessionTasks]
         /\ gen'[t].pc = "loop" /\ gen'[t].start = executions
         /\ gen'[t].terminals = gen[t].terminals
         /\ gen'[t].out = gen[t].out /\ gen'[t].left = gen[t].left
         /\ task'[t].st = "waiting" /\ task'[t].req = r
         /\ task'[t].sess = s /\ task'[t].queue = task[t].queue
         /\ task'[t].cleared = IF token = r THEN fresh = r ELSE ok
         /\ \A u \in Turns : u # t => gen'[u] = gen[u] /\ task'[u] = task[u]
         /\ correlation' = t /\ executions' = executions /\ call' = call
<1> DEFINE g == [gen[t] EXCEPT !.pc = "loop", !.start = executions]
           b == IF token = r THEN fresh = r ELSE ok
           k == [task[t] EXCEPT !.st = "waiting", !.req = r, !.sess = s,
                                !.cleared = b]
<1>1. /\ g \in Generators /\ g.pc = "loop" /\ g.start = executions
      /\ g.terminals = gen[t].terminals
      /\ g.out = gen[t].out /\ g.left = gen[t].left
  BY ZenonT(60) DEF Generators
<1>2. b \in BOOLEAN
  OBVIOUS
<1> HIDE DEF b
<1>3. /\ k \in SessionTasks /\ k.st = "waiting" /\ k.req = r /\ k.sess = s
      /\ k.queue = task[t].queue /\ k.cleared = b
  BY <1>2 DEF SessionTasks
<1>4. /\ gen' = [gen EXCEPT ![t] = g]
      /\ correlation' = t /\ executions' = executions /\ call' = call
  BY DEF Launch, BeginTurn
<1>5. task' = [task EXCEPT ![t] = k]
  BY DEF Launch, b
<1> HIDE DEF g, k
<1>6. /\ gen' \in [Turns -> Generators] /\ gen'[t] = g
      /\ task' \in [Turns -> SessionTasks] /\ task'[t] = k
      /\ \A u \in Turns : u # t => gen'[u] = gen[u] /\ task'[u] = task[u]
  BY <1>1, <1>3, <1>4, <1>5
<1> QED
  BY <1>1, <1>3, <1>4, <1>6 DEF b

(* A turn that gets a session keeps the structure: the bridge is bound to   *)
(* it, its request was cleared, and no other turn is live.                  *)
LEMMA TurnLaunched ==
  ASSUME OwnTypeOK, Structure, NEW t \in Turns, IsNext(t),
         NEW r \in Requests, NEW ok \in BOOLEAN,
         Admitted(r, ok, "no", TRUE), current' \in Sessions,
         Launch(t, r, current', ok), token' = None,
         \/ current = 0 /\ current' = 1
         \/ current # 0 /\ current' = SessionFor,
         current # 0 => host' = host /\ contract' = contract,
         host' = HostOf[r], contract' = ContractOf[r],
         UNCHANGED <<closed, sess, prompts>>, CliGrows
  PROVE  Structure'
<1> USE DEF Structure
<1>0. /\ gen \in [Turns -> Generators] /\ task \in [Turns -> SessionTasks]
      /\ executions \in Nat
  BY DEF OwnTypeOK, BridgeTypeOK
<1>1. /\ gen'[t].pc = "loop" /\ gen'[t].start = executions
      /\ gen'[t].terminals = gen[t].terminals
      /\ gen'[t].out = gen[t].out /\ gen'[t].left = gen[t].left
      /\ task'[t].st = "waiting" /\ task'[t].req = r
      /\ task'[t].sess = current' /\ task'[t].queue = task[t].queue
      /\ task'[t].cleared = IF token = r THEN fresh = r ELSE ok
      /\ \A u \in Turns : u # t => gen'[u] = gen[u] /\ task'[u] = task[u]
      /\ correlation' = t /\ executions' = executions /\ call' = call
  BY <1>0, LaunchFacts
<1>2. /\ gen[t].pc = "unstarted" /\ task[t].st = "none"
      /\ task[t].queue = <<>> /\ ~Performed(t)
      /\ gen[t].terminals = 0 /\ gen[t].left = "none"
      /\ gen[t].out = "none" /\ gen[t].start = 0
      /\ \A u \in Turns : u # t => ~Live(u)
      /\ \A u \in Turns : gen[u].pc = "unstarted" /\ u # t => t < u
      /\ \A u \in Turns : u < t => gen[u].pc = "ended"
      /\ \A c \in Calls : call[c].turn # t
  BY NextTurn DEF IsNext
<1>3. /\ current' \in Nat /\ current' # 0 /\ current' <= t
      /\ current \in Nat /\ current <= current' /\ Turns \subseteq Nat
      /\ ~closed
  BY SessionNumber, TurnsAssumption
  DEF OwnTypeOK, Sessions, SessionFor, Admitted
<1>4. Ordering'
  BY <1>1, <1>2, <1>3 DEF Ordering, Live
<1>5. Terminals'
  BY <1>1, <1>2 DEF Terminals
<1>6. Effects'
  BY <1>0, <1>1, <1>2 DEF Effects, Performed, OnlyLateCalls, CliGrows
<1>7. Binding'
  BY <1>1, <1>3, RequestAssumption DEF Binding, Active
<1>8. Clearance'
  <2>1. task'[t].cleared
    BY ZenonT(60), <1>1, RequestAssumption DEF Clearance, Admitted
  <2> QED
    BY <1>1, <2>1 DEF Clearance, Active
<1>9. Bound'
  BY <1>1, <1>2 DEF Bound, Active, Live
<1>10. OneOpenSession'
  <2>1. \A s \in 1..current : s # current => sess[s].closed
    BY DEF OneOpenSession
  <2>2. current' # current => current' = current + 1 /\
          (current # 0 => sess[current].closed)
    BY DEF SessionFor, CanRestart
  <2>3. \A s \in 1..current' : s # current' => sess[s].closed
    BY <1>3, <2>1, <2>2
  <2> QED
    BY <1>3, <2>3 DEF OneOpenSession
<1>11. ToolCallsInTheirTurn'
  <2>1. \A c \in Calls : call[c].under # call[c].turn => call[c].turn \in Turns
    BY DEF Bound, OwnTypeOK, BridgeTypeOK
  <2> QED
    BY <1>1, <1>2, <2>1 DEF ToolCallsInTheirTurn, CliGrows
<1>12. Locking'
  <2>1. \A u \in Turns : /\ Holding(u)' => Holding(u) /\ u # t
                         /\ Active(u) => task[u].sess <= current
                         /\ Active(u) => task[u].sess \in Nat
    BY <1>1, TurnsAssumption DEF Locking, Holding, Binding, Sessions
  <2>2. \A u, v \in Turns :
          Holding(u)' /\ Holding(v)' /\ task'[u].sess = task'[v].sess => u = v
    BY <1>1, <2>1 DEF Locking
  <2>3. \A u \in Turns : Active(u)' => task'[u].sess <= current'
    BY <1>1, <1>3, <2>1 DEF Active
  <2>4. \A u \in Turns :
          /\ gen'[u].pc = "unstarted" \/ task'[u].st = "waiting" =>
               task'[u].queue = <<>>
          /\ gen'[u].pc = "yielded" \/ gen'[u].left = "abandoned" =>
               task'[u].st # "waiting"
    BY <1>1, <1>2 DEF Locking
  <2>5. \A s \in Sessions :
          current' < s => ~sess'[s].closed /\ ~sess'[s].cancelReq
    BY <1>3 DEF Locking, Sessions
  <2> QED
    BY <2>2, <2>3, <2>4, <2>5 DEF Locking
<1> QED
  BY <1>4, <1>5, <1>6, <1>7, <1>8, <1>9, <1>10, <1>11, <1>12

(* A turn whose begin_turn() is refused keeps the structure: it has no task, *)
(* and cancels the session it would have used.                               *)
LEMMA TurnRaises ==
  ASSUME OwnTypeOK, Structure, NEW t \in Turns, IsNext(t),
         NEW r \in Requests, ~closed,
         BeginTurnRaises(t, r), token' = None, UNCHANGED <<closed, prompts>>,
         CliGrows
  PROVE  Structure' /\ Moves(t, "failing") /\ SessionsClose
         /\ \A u \in Turns : TaskKept(u)
<1> USE DEF Structure, bridgeVars
<1>1. Moves(t, "failing")
  BY MovePc DEF BeginTurnRaises, OwnTypeOK, PointsInTurn
<1>2. \A u \in Turns : TaskKept(u)
  BY ToldKept DEF BeginTurnRaises, OwnTypeOK
<1>3. /\ current # 0 /\ current' = SessionFor /\ SessionFor \in Sessions
      /\ SessionFor <= t /\ sess' = Requested(SessionFor)
      /\ UNCHANGED <<host, contract, correlation, executions, call>>
  BY SessionNumber DEF BeginTurnRaises
<1>4. /\ current' \in Nat /\ current \in Nat /\ current <= current'
      /\ Turns \subseteq Nat /\ current' # 0
  BY <1>3, TurnsAssumption DEF OwnTypeOK, Sessions, SessionFor
<1>5. \A s \in Sessions :
        /\ sess'[s].closed = sess[s].closed
        /\ s # current' => sess'[s].cancelReq = sess[s].cancelReq
  BY <1>3, RequestedFacts DEF OwnTypeOK, SessionStates
<1>6. \A s \in Sessions : s # current' => sess'[s] = sess[s]
  BY <1>3 DEF Requested, OwnTypeOK
<1>7. SessionsClose
  <2>1. \A s \in Sessions : current' < s => s # current'
    BY <1>4, TurnsAssumption DEF Sessions
  <2> QED
    BY <1>5, <1>6, <2>1 DEF SessionsClose
<1>8. /\ gen[t].pc = "unstarted" /\ task[t].st = "none"
      /\ task[t].queue = <<>> /\ ~Performed(t)
      /\ gen[t].terminals = 0 /\ gen[t].left = "none"
      /\ gen[t].out = "none" /\ gen[t].start = 0
      /\ \A u \in Turns : u # t => ~Live(u)
      /\ \A u \in Turns : gen[u].pc = "unstarted" /\ u # t => t < u
      /\ \A u \in Turns : u < t => gen[u].pc = "ended"
      /\ \A c \in Calls : call[c].turn # t
  BY NextTurn DEF IsNext
<1>9. /\ gen'[t].pc = "failing" /\ gen'[t].start = 0
      /\ gen'[t].terminals = 0 /\ gen'[t].out = "none"
      /\ gen'[t].left = "none"
      /\ \A u \in Turns : u # t => gen'[u] = gen[u]
  BY <1>1, <1>8 DEF Moves, OthersKept
<1>10. \A u \in Turns : task'[u].st = task[u].st /\ SameRequest(u)
  BY <1>2 DEF TaskKept
<1>11. Ordering'
  BY <1>3, <1>4, <1>8, <1>9, <1>10 DEF Ordering, Live
<1>12. Terminals'
  BY <1>9, <1>10 DEF Terminals
<1>13. Effects'
  <2>1. executions \in Nat
    BY DEF OwnTypeOK, BridgeTypeOK
  <2> QED
    BY <1>3, <1>8, <1>9, <1>10, <2>1
    DEF Effects, Performed, OnlyLateCalls, CliGrows
<1>14. Binding' /\ Clearance'
  BY <1>3, <1>4, <1>10 DEF Binding, Clearance, Active, SameRequest
<1>15. Bound'
  BY <1>3, <1>7, <1>8, <1>9, <1>10
  DEF Bound, Binding, Active, Live, SameRequest, SessionsClose
<1>16. OneOpenSession'
  <2>1. \A s \in 1..current : s # current => sess[s].closed
    BY DEF OneOpenSession
  <2>2. current' # current => current' = current + 1 /\ sess[current].closed
    BY <1>3 DEF SessionFor, CanRestart
  <2>3. \A s \in 1..current' : s # current' => sess[s].closed
    BY <1>4, <2>1, <2>2
  <2>4. 1..current' \subseteq Sessions
    BY <1>3, TurnsAssumption DEF Sessions
  <2> QED
    BY <1>4, <1>5, <2>3, <2>4 DEF OneOpenSession
<1>17. ToolCallsInTheirTurn'
  <2>1. \A c \in Calls : call[c].under # call[c].turn => call[c].turn \in Turns
    BY DEF Bound, OwnTypeOK, BridgeTypeOK
  <2> QED
    BY <1>3, <1>8, <1>9, <2>1 DEF ToolCallsInTheirTurn, CliGrows
<1>18. Locking'
  <2>1. \A u, v \in Turns :
          Holding(u)' /\ Holding(v)' /\ task'[u].sess = task'[v].sess => u = v
    BY <1>10 DEF Locking, Holding, SameRequest
  <2>2. \A u \in Turns : Active(u) => task[u].sess <= current
                                      /\ task[u].sess \in Nat
    BY TurnsAssumption DEF Locking, Binding, Sessions
  <2>3. \A u \in Turns : Active(u)' => task'[u].sess <= current'
    BY <1>4, <1>10, <2>2 DEF Active, SameRequest
  <2>4. \A u \in Turns :
          /\ gen'[u].pc = "unstarted" \/ task'[u].st = "waiting" =>
               task'[u].queue = <<>>
          /\ gen'[u].pc = "yielded" \/ gen'[u].left = "abandoned" =>
               task'[u].st # "waiting"
    BY <1>2, <1>9, <1>10 DEF Locking, TaskKept
  <2>5. \A s \in Sessions :
          current' < s => ~sess'[s].closed /\ ~sess'[s].cancelReq
    BY <1>4, <1>7, TurnsAssumption DEF Locking, SessionsClose, Sessions
  <2> QED
    BY <2>1, <2>3, <2>4, <2>5 DEF Locking
<1> QED
  BY <1>1, <1>2, <1>7, <1>11, <1>12, <1>13, <1>14, <1>15, <1>16, <1>17, <1>18

(* What the host does between turns, and close(). *)
LEMMA HostMoves ==
  ASSUME OwnTypeOK, Structure,
         \/ \E r \in Requests : Preflight(r)
         \/ \E c \in Calls : ToolReturns(c)
         \/ Close
         \/ UNCHANGED vars
  PROVE  Structure'
<1> USE DEF Structure, binding
<1>1. ASSUME NEW r \in Requests, Preflight(r) PROVE Structure'
  <2>1. /\ UNCHANGED <<closed, host, contract, current, sess, gen, task,
                       prompts, correlation, executions, call, stray, late>>
        /\ fresh' = token'
    BY <1>1 DEF Preflight, bridgeVars, cli
  <2>2. Ordering' /\ Terminals' /\ Effects'
    BY <2>1 DEF Ordering, Terminals, Effects, Live, Performed, OnlyLateCalls
  <2>3. Binding' /\ Clearance' /\ Bound'
    BY <2>1 DEF Binding, Clearance, Bound, Active, Live
  <2>4. OneOpenSession' /\ ToolCallsInTheirTurn' /\ Locking'
    BY <2>1 DEF OneOpenSession, ToolCallsInTheirTurn, Locking, Active, Holding
  <2> QED
    BY <2>2, <2>3, <2>4
<1>2. ASSUME NEW c \in Calls, ToolReturns(c) PROVE Structure'
  <2>1. /\ UNCHANGED <<closed, token, host, contract, current, sess, gen,
                       task, fresh, prompts, correlation, executions, stray,
                       late>>
        /\ call[c].st = "executing"
        /\ \A d \in Calls : /\ call'[d].turn = call[d].turn
                            /\ call'[d].under = call[d].under
                            /\ d # c => call'[d].st = call[d].st
    BY <1>2 DEF ToolReturns, HostReturns, SessionStep, cli, OwnTypeOK,
       BridgeTypeOK
  <2>2. \A u \in Turns : /\ Performed(u)' => Performed(u)
                         /\ OnlyLateCalls(u) => OnlyLateCalls(u)'
    BY <2>1 DEF Performed, OnlyLateCalls
  <2>3. Ordering' /\ Terminals' /\ Effects'
    BY <2>1, <2>2 DEF Ordering, Terminals, Effects, Live
  <2>4. Binding' /\ Clearance' /\ Bound'
    BY <2>1 DEF Binding, Clearance, Bound, Active, Live
  <2>5. OneOpenSession' /\ ToolCallsInTheirTurn' /\ Locking'
    BY <2>1 DEF OneOpenSession, ToolCallsInTheirTurn, Locking, Active, Holding
  <2> QED
    BY <2>3, <2>4, <2>5
<1>3. ASSUME Close PROVE Structure'
  <2>1. /\ UNCHANGED <<host, contract, current, gen, prompts, correlation,
                       executions, call, late>>
        /\ token' = None /\ stray \subseteq stray'
    BY <1>3 DEF Close, CloseSession, bridgeVars, cli
  <2>2. \A u \in Turns : TaskKept(u)
    BY <1>3, ToldKept DEF Close, OwnTypeOK, TaskKept, SameRequest
  <2>3. \A s \in Sessions : /\ sess[s].closed => sess'[s].closed
                            /\ s # current => sess'[s] = sess[s]
                            /\ s = current => sess'[s].closed
    BY <1>3, TurnsAssumption DEF Close, CloseSession, OwnTypeOK, Sessions
  <2>4. /\ current \in Nat /\ Sessions \subseteq Nat \ {0}
        /\ current # 0 =>
             current \in Sessions /\ 1..current \subseteq Sessions
    <3>1. current \in Sessions \cup {0}
      BY DEF OwnTypeOK
    <3>2. /\ Sessions \subseteq Nat \ {0}
          /\ \A s \in Sessions : 1..s \subseteq Sessions
      BY TurnsAssumption DEF Sessions
    <3> QED
      BY <3>1, <3>2
  <2>5. \A u \in Turns : task'[u].st = task[u].st /\ SameRequest(u)
    BY <2>2 DEF TaskKept
  <2>6. Ordering' /\ Terminals' /\ Effects'
    BY <2>1, <2>5 DEF Ordering, Terminals, Effects, Live, Performed,
       OnlyLateCalls
  <2>7. Binding' /\ Clearance'
    BY <2>1, <2>5 DEF Binding, Clearance, Active, SameRequest
  <2>8. Bound'
    BY <2>1, <2>3, <2>5 DEF Bound, Binding, Active, Live, SameRequest
  <2>9. OneOpenSession'
    BY <2>1, <2>3, <2>4 DEF OneOpenSession
  <2>10. ToolCallsInTheirTurn'
    BY <2>1 DEF ToolCallsInTheirTurn, CliGrows
  <2>11. Locking'
    BY <2>1, <2>2, <2>3, <2>4, <2>5
    DEF Locking, Active, Holding, SameRequest, TaskKept
  <2> QED
    BY <2>6, <2>7, <2>8, <2>9, <2>10, <2>11
<1>4. ASSUME UNCHANGED vars PROVE Structure'
  <2>1. Ordering' /\ Terminals' /\ Effects'
    BY <1>4 DEF vars, bridgeVars, cli, Ordering, Terminals, Effects, Live,
       Performed, OnlyLateCalls
  <2>2. Binding' /\ Clearance' /\ Bound'
    BY <1>4 DEF vars, bridgeVars, Binding, Clearance, Bound, Active, Live
  <2>3. OneOpenSession' /\ ToolCallsInTheirTurn' /\ Locking'
    BY <1>4 DEF vars, bridgeVars, cli, OneOpenSession, ToolCallsInTheirTurn,
       Locking, Active, Holding
  <2> QED
    BY <2>1, <2>2, <2>3
<1> QED
  BY <1>1, <1>2, <1>3, <1>4

-----------------------------------------------------------------------------
(* What the steps do to the promise that a cancelled session is closed *)

(* The live turn is the only one.                                           *)
LEMMA OneLive ==
  ASSUME OwnTypeOK, Structure, NEW t \in Turns, Live(t)
  PROVE  /\ \A u \in Turns : u # t => ~Live(u)
         /\ \A u \in Turns : u # t => ~Cancelling(u)
         /\ current \in Sessions
<1>1. \A u \in Turns : u # t => u < t \/ t < u
  BY TurnsAssumption
<1>2. \A u \in Turns : u # t => ~Live(u)
  BY <1>1 DEF Structure, Ordering, Live
<1> QED
  BY <1>2 DEF Structure, Ordering, Live, Cancelling, OwnTypeOK

(* A generator that begins session.cancel(). *)
LEMMA CancelsRequested ==
  ASSUME OwnTypeOK, Structure, Cancels, NEW t \in Turns, Live(t),
         NEW p \in {"cancelling", "native", "failing", "dying"}, Moves(t, p),
         GeneratorStep, sess' = Requested(current),
         \A u \in Turns : u # t => TaskKept(u), TaskKept(t) \/ TaskGone(t)
  PROVE  Cancels'
<1> SUFFICES ASSUME ~closed PROVE Cancels'
  BY DEF Cancels, GeneratorStep
<1>1. /\ current' = current /\ current \in Sessions /\ closed' = closed
      /\ sess \in [Sessions -> SessionStates]
  BY OneLive DEF GeneratorStep, binding, OwnTypeOK, SessionStates
<1>2. /\ \A s \in Sessions :
           /\ sess'[s].closed = sess[s].closed
           /\ sess[s].cancelReq => sess'[s].cancelReq
      /\ sess'[current].cancelReq \/ sess'[current].closed
  BY <1>1, RequestedFacts
<1>3. \A u \in Turns :
        \/ SameRequest(u) /\ task'[u].st = task[u].st
             /\ task'[u].result = task[u].result
        \/ task'[u].st = "none"
  BY DEF TaskKept, TaskGone
<1>4. \A u \in Turns : Holding(u)' =>
        Holding(u) /\ SameRequest(u) /\ task[u].sess \in Sessions
  BY <1>3 DEF Holding, Structure, Binding, Active
<1>5. \A s \in Sessions :
        Recoverable(s) => (sess'[s].closed => sess'[s].cancelReq)
  BY <1>2 DEF Recoverable
<1>6. \A u \in Turns : Holding(u)' =>
        (sess'[task'[u].sess].closed => sess'[task'[u].sess].cancelReq)
  BY <1>4, <1>5 DEF Cancels, SameRequest
<1>8. /\ Cancelling(t)'
      /\ \A u \in Turns : gen'[u].left = gen[u].left
      /\ \A u \in Turns : Live(u)' => u = t
  BY OneLive DEF Moves, OthersKept, Cancelling, Live
<1>9. \A u \in Turns : task'[u].st = "retiring" =>
                         task'[u].result # "cancelled"
  BY <1>3 DEF Cancels
<1>10. ASSUME ~CutShort', task'[t].st = "done", task'[t].result = "cancelled"
       PROVE  /\ sess'[current].closed => sess'[current].cancelReq
              /\ \A u \in Turns : ~Holds(u, current)'
  <2>1. Recoverable(current) /\ \A u \in Turns : ~Holds(u, current)
    BY <1>3, <1>8, <1>10 DEF Cancels, CutShort
  <2> QED
    BY <1>1, <1>3, <1>5, <2>1 DEF Holds, SameRequest
<1> QED
  BY <1>1, <1>2, <1>6, <1>8, <1>9, <1>10 DEF Cancels, Recoverable

(* A generator that goes on or is left; its cancel() has closed. *)
LEMMA CancelsReturned ==
  ASSUME OwnTypeOK, Structure, Cancels, NEW t \in Turns, Live(t),
         OthersKept(t),
         gen'[t].pc \in {"loop", "yielded", "nativeTask", "ended"},
         GeneratorStep,
         \/ sess' = sess /\ (~Cancelling(t) \/ gen'[t].left = "cut")
         \/ Cancelling(t) /\ sess' = [sess EXCEPT ![current].closed = TRUE],
         \A u \in Turns : u # t => TaskKept(u), TaskKept(t) \/ TaskGone(t)
  PROVE  Cancels'
<1> SUFFICES ASSUME ~closed PROVE Cancels'
  BY DEF Cancels, GeneratorStep
<1>1. /\ current' = current /\ current \in Sessions /\ closed' = closed
      /\ sess \in [Sessions -> SessionStates]
  BY OneLive DEF GeneratorStep, binding, OwnTypeOK, SessionStates
<1>2. \A u \in Turns :
        \/ SameRequest(u) /\ task'[u].st = task[u].st
             /\ task'[u].result = task[u].result
        \/ task'[u].st = "none"
  BY DEF TaskKept, TaskGone
<1>3. \A u \in Turns : Holding(u)' =>
        Holding(u) /\ SameRequest(u) /\ task[u].sess \in Sessions
  BY <1>2 DEF Holding, Structure, Binding, Active
<1>4. \A s \in Sessions :
        Recoverable(s) => (sess'[s].closed => sess'[s].cancelReq)
  <2>1. CASE sess' = sess
    BY <2>1 DEF Recoverable
  <2>2. CASE Cancelling(t) /\ sess' = [sess EXCEPT ![current].closed = TRUE]
    <3>1. \A s \in Sessions : /\ sess'[s].cancelReq = sess[s].cancelReq
                              /\ s # current => sess'[s] = sess[s]
      BY <1>1, <2>2 DEF SessionStates
    <3>2. Recoverable(current) => sess[current].cancelReq
      BY <2>2 DEF Cancels, Recoverable
    <3> QED
      BY <3>1, <3>2 DEF Recoverable
  <2> QED
    BY <2>1, <2>2
<1>5. \A u \in Turns : Holding(u)' =>
        (sess'[task'[u].sess].closed => sess'[task'[u].sess].cancelReq)
  BY <1>3, <1>4 DEF Cancels, SameRequest
<1>6. /\ \A u \in Turns : ~Cancelling(u)'
      /\ \A u \in Turns : Live(u)' => u = t
      /\ \A u \in Turns : u # t => gen'[u].left = gen[u].left
      /\ gen[t].left = "none"
  BY OneLive DEF OthersKept, Cancelling, Live, Structure, Terminals
<1>7. \A u \in Turns : task'[u].st = "retiring" =>
                         task'[u].result # "cancelled"
  BY <1>2 DEF Cancels
<1>8. ASSUME ~CutShort' PROVE sess'[current].cancelReq => sess'[current].closed
  <2>1. ~CutShort
    BY <1>6, <1>8 DEF CutShort
  <2>2. CASE sess' = sess /\ (~Cancelling(t) \/ gen'[t].left = "cut")
    <3>1. \A u \in Turns : ~Cancelling(u)
      BY <1>8, <2>2, OneLive DEF CutShort
    <3>2. current # 0
      BY <1>1, TurnsAssumption DEF Sessions
    <3> QED
      BY <2>1, <2>2, <3>1, <3>2 DEF Cancels
  <2>3. CASE sess' = [sess EXCEPT ![current].closed = TRUE]
    BY <1>1, <2>3 DEF SessionStates
  <2> QED
    BY <2>2, <2>3
<1>9. ASSUME ~CutShort', Live(t)',
             task'[t].st = "done", task'[t].result = "cancelled"
      PROVE  /\ sess'[current].closed => sess'[current].cancelReq
             /\ \A u \in Turns : ~Holds(u, current)'
  <2>1. ~CutShort
    BY <1>6, <1>9 DEF CutShort
  <2>2. Recoverable(current) /\ \A u \in Turns : ~Holds(u, current)
    BY <1>2, <1>9, <2>1 DEF Cancels
  <2> QED
    BY <1>1, <1>2, <1>4, <2>2 DEF Holds, SameRequest
<1> QED
  BY <1>1, <1>5, <1>6, <1>7, <1>8, <1>9 DEF Cancels, Recoverable

(* A task that gets the turn lock of an open session is not one that a      *)
(* turn which has ended left waiting, unless its cancel() was cut short.    *)
LEMMA CancelsTaskStarts ==
  ASSUME OwnTypeOK, Structure, Cancels, NEW t \in Turns, TaskStarts(t)
  PROVE  Cancels'
<1> SUFFICES ASSUME ~closed PROVE Cancels'
  BY DEF Cancels, TaskStarts, SessionStep
<1>1. /\ UNCHANGED <<closed, current, gen, sess>> /\ task[t].st = "waiting"
      /\ ~sess[task[t].sess].closed
      /\ task'[t].st = "running" /\ task'[t].sess = task[t].sess
      /\ \A u \in Turns : u # t => task'[u] = task[u]
  BY DEF TaskStarts, HasLock, SessionStep, binding, OwnTypeOK, SessionTasks
<1>2. ASSUME ~CutShort, NEW u \in Turns, Live(u), u # t
      PROVE  task[t].sess # current
  <2>1. ~Live(t) /\ Active(t)
    BY <1>1, <1>2, OneLive DEF Active
  <2>2. gen[t].pc = "ended" /\ gen[t].left \in {"killed", "abandoned"}
    BY <1>1, <1>2, <2>1
    DEF Live, Structure, Ordering, Terminals, CutShort, OwnTypeOK, Generators
  <2> QED
    BY <1>1, <2>1, <2>2 DEF Structure, Bound, Locking
<1>3. \A u \in Turns : Holding(u)' =>
        (sess[task'[u].sess].closed => sess[task'[u].sess].cancelReq)
  BY <1>1 DEF Cancels, Holding, Recoverable
<1>4. \A u \in Turns : task'[u].st = "retiring" =>
                         task'[u].result # "cancelled"
  BY <1>1 DEF Cancels
<1>5. ASSUME ~CutShort, NEW v \in Turns, Live(v),
             task'[v].st = "done", task'[v].result = "cancelled"
      PROVE  Recoverable(current) /\ \A u \in Turns : ~Holds(u, current)'
  <2>1. v # t /\ task'[v] = task[v]
    BY <1>1, <1>5
  <2>2. Recoverable(current) /\ \A u \in Turns : ~Holds(u, current)
    BY <1>5, <2>1 DEF Cancels
  <2>3. task[t].sess # current
    BY <1>2, <1>5, <2>1
  <2> QED
    BY <1>1, <2>2, <2>3 DEF Holds
<1> QED
  BY <1>1, <1>3, <1>4, <1>5
  DEF Cancels, Recoverable, CutShort, Cancelling, Live

(* A task that projects or begins to retire still holds the lock. *)
LEMMA CancelsTaskGoesOn ==
  ASSUME OwnTypeOK, Structure, Cancels, NEW t \in Turns,
         SessionStep, sess' = sess, SameRequest(t),
         \A u \in Turns : u # t => task'[u] = task[u],
         Holding(t), Holding(t)',
         task'[t].st = "retiring" => task'[t].result # "cancelled"
  PROVE  Cancels'
<1> SUFFICES ASSUME ~closed PROVE Cancels'
  BY DEF Cancels, SessionStep
<1>1. UNCHANGED <<closed, current, gen, sess>>
  BY DEF SessionStep, binding
<1>2. \A u \in Turns : Holding(u)' =>
        (sess[task'[u].sess].closed => sess[task'[u].sess].cancelReq)
  BY DEF Cancels, Holding, Recoverable, SameRequest
<1>3. \A u \in Turns : task'[u].st = "retiring" =>
                         task'[u].result # "cancelled"
  BY DEF Cancels
<1>4. ASSUME ~CutShort, NEW v \in Turns, Live(v),
             task'[v].st = "done", task'[v].result = "cancelled"
      PROVE  Recoverable(current) /\ \A u \in Turns : ~Holds(u, current)'
  <2>1. v # t /\ task'[v] = task[v]
    BY <1>4 DEF Holding
  <2>2. Recoverable(current) /\ \A u \in Turns : ~Holds(u, current)
    BY <1>4, <2>1 DEF Cancels
  <2> QED
    BY <1>1, <2>2 DEF Holds, Holding, SameRequest
<1> QED
  BY <1>1, <1>2, <1>3, <1>4
  DEF Cancels, Recoverable, CutShort, Cancelling, Live

(* A task that is over left its session open, or closed it and reports a    *)
(* failure.                                                                 *)
LEMMA CancelsTaskOver ==
  ASSUME OwnTypeOK, Structure, Cancels, NEW t \in Turns, SessionStep,
         Holding(t) \/ HasLock(t),
         \A u \in Turns : u # t => task'[u] = task[u],
         task'[t].st \in {"none", "done"},
         \/ /\ sess' = sess
            /\ task'[t].st = "done" /\ task'[t].result = "cancelled" =>
                 Recoverable(task[t].sess)
         \/ /\ Holding(t)
            /\ sess' = [sess EXCEPT ![task[t].sess].closed = TRUE]
            /\ task'[t].st = "done" => task'[t].result # "cancelled"
  PROVE  Cancels'
<1> SUFFICES ASSUME ~closed PROVE Cancels'
  BY DEF Cancels, SessionStep
<1>1. UNCHANGED <<closed, current, gen>>
  BY DEF SessionStep, binding
<1>2. Active(t) /\ task[t].sess \in Sessions
  BY DEF Holding, HasLock, Active, Structure, Binding
<1>3. \A u \in Turns : u # t /\ Holding(u) => task[u].sess # task[t].sess
  BY DEF Holding, HasLock, Holds, Structure, Locking
<1>4. \A s \in Sessions :
        /\ s # task[t].sess => sess'[s] = sess[s]
        /\ sess'[s].cancelReq = sess[s].cancelReq
        /\ sess[s].closed => sess'[s].closed
  BY <1>2 DEF OwnTypeOK
<1>5. \A u \in Turns : Holding(u)' =>
        u # t /\ Holding(u) /\ task'[u] = task[u] /\ task[u].sess \in Sessions
  BY DEF Holding, Active, Structure, Binding
<1>6. \A u \in Turns : Holding(u)' =>
        (sess'[task'[u].sess].closed => sess'[task'[u].sess].cancelReq)
  BY <1>3, <1>4, <1>5 DEF Cancels, Recoverable
<1>7. \A u \in Turns : task'[u].st = "retiring" =>
                         task'[u].result # "cancelled"
  BY DEF Cancels
<1>8. ASSUME NEW u \in Turns, Live(u) PROVE current \in Sessions
  BY <1>8, OneLive
<1>9. ASSUME ~CutShort, NEW v \in Turns, Live(v), current \in Sessions,
             task'[v].st = "done", task'[v].result = "cancelled"
      PROVE  /\ sess'[current].closed => sess'[current].cancelReq
             /\ \A u \in Turns : ~Holds(u, current)'
  <2>1. CASE v = t
    <3>1. task[t].sess = current /\ sess' = sess /\ Recoverable(current)
      BY <1>2, <1>9, <2>1 DEF Structure, Bound
    <3> QED
      BY <1>1, <1>3, <1>5, <3>1 DEF Holds, Holding, Recoverable
  <2>2. CASE v # t
    <3>1. Recoverable(current) /\ \A u \in Turns : ~Holds(u, current)
      BY <1>9, <2>2 DEF Cancels
    <3>2. Holding(t) => task[t].sess # current
      BY <3>1 DEF Holding, Holds
    <3>3. sess'[current] = sess[current]
      BY <1>4, <1>9, <3>2
    <3> QED
      BY <1>1, <1>5, <3>1, <3>3 DEF Holds, Holding, Recoverable
  <2> QED
    BY <2>1, <2>2
<1>10. current # 0 => current \in Sessions
  BY DEF OwnTypeOK
<1>11. \A u \in Turns : Cancelling(u) =>
         sess'[current].closed \/ sess'[current].cancelReq
  BY <1>4, <1>8 DEF Cancels, Cancelling, Live
<1>12. ~CutShort /\ (\A u \in Turns : ~Cancelling(u)) /\ current # 0
         /\ sess'[current].cancelReq => sess'[current].closed
  BY <1>4, <1>10 DEF Cancels
<1> QED
  BY <1>1, <1>6, <1>7, <1>8, <1>9, <1>11, <1>12
  DEF Cancels, Recoverable, CutShort, Cancelling, Live

(* Steps that touch no turn, task or session. *)
LEMMA CancelsUntouched ==
  ASSUME Cancels, UNCHANGED <<closed, current, gen, sess, task>>
  PROVE  Cancels'
  BY DEF Cancels, Recoverable, CutShort, Cancelling, Live, Holding, Holds

(* A turn that is refused before its session is touched. *)
LEMMA CancelsRefused ==
  ASSUME OwnTypeOK, Structure, Cancels, NEW t \in Turns, IsNext(t),
         Returned(t),
         UNCHANGED <<closed, current, sess, task>>
  PROVE  Cancels'
<1>1. /\ \A u \in Turns : ~Live(u)' /\ ~Cancelling(u)' /\ ~Cancelling(u)
      /\ CutShort => CutShort'
  BY NextTurn DEF Returned, OthersKept, Live, Cancelling, CutShort
<1> QED
  BY <1>1 DEF Cancels, Recoverable, Holding

(* A turn that gets a session: a new one was never cancelled. *)
LEMMA CancelsLaunched ==
  ASSUME OwnTypeOK, Structure, Cancels, NEW t \in Turns, IsNext(t),
         NEW r \in Requests, NEW ok \in BOOLEAN, current' \in Sessions,
         Launch(t, r, current', ok),
         \/ current = 0 /\ current' = 1
         \/ current # 0 /\ current' = SessionFor,
         UNCHANGED <<closed, sess>>
  PROVE  Cancels'
<1> SUFFICES ASSUME ~closed PROVE Cancels'
  BY DEF Cancels
<1>0. /\ gen \in [Turns -> Generators] /\ task \in [Turns -> SessionTasks]
      /\ executions \in Nat
  BY DEF OwnTypeOK, BridgeTypeOK
<1>1. /\ gen'[t].pc = "loop" /\ gen'[t].left = gen[t].left
      /\ task'[t].st = "waiting"
      /\ \A u \in Turns : u # t => gen'[u] = gen[u] /\ task'[u] = task[u]
  BY <1>0, LaunchFacts
<1>2. /\ \A u \in Turns : ~Cancelling(u)' /\ ~Cancelling(u)
      /\ \A u \in Turns : Live(u)' => u = t
      /\ CutShort => CutShort'
  BY <1>1, NextTurn DEF Live, Cancelling, CutShort
<1>3. current' # current => ~sess[current'].cancelReq
  <2>1. current \in Nat /\ (current' # current => current < current')
    BY NextTurn DEF SessionFor
  <2> QED
    BY <2>1 DEF Structure, Locking
<1>4. \A u \in Turns : task'[u].st = "retiring" =>
                         task'[u].result # "cancelled"
  BY <1>1 DEF Cancels
<1>5. \A u \in Turns : Holding(u)' =>
        (sess[task'[u].sess].closed => sess[task'[u].sess].cancelReq)
  BY <1>1 DEF Cancels, Holding, Recoverable
<1>6. current' = current => current # 0
  BY TurnsAssumption DEF Sessions
<1> QED
  BY <1>1, <1>2, <1>3, <1>4, <1>5, <1>6 DEF Cancels, Recoverable

(* A turn whose begin_turn() is refused cancels its session. *)
LEMMA CancelsRaises ==
  ASSUME OwnTypeOK, Structure, Cancels, NEW t \in Turns, IsNext(t),
         current' \in Sessions, sess' = Requested(current'),
         Moves(t, "failing"), \A u \in Turns : TaskKept(u), closed' = closed
  PROVE  Cancels'
<1> SUFFICES ASSUME ~closed PROVE Cancels'
  BY DEF Cancels
<1>1. sess \in [Sessions -> SessionStates]
  BY DEF OwnTypeOK, SessionStates
<1>2. /\ \A s \in Sessions :
           /\ sess'[s].closed = sess[s].closed
           /\ sess[s].cancelReq => sess'[s].cancelReq
      /\ sess'[current'].cancelReq \/ sess'[current'].closed
  BY <1>1, RequestedFacts
<1>3. \A u \in Turns : /\ SameRequest(u) /\ task'[u].st = task[u].st
                       /\ task'[u].result = task[u].result
  BY DEF TaskKept
<1>4. \A u \in Turns : Holding(u)' =>
        Holding(u) /\ SameRequest(u) /\ task[u].sess \in Sessions
  BY <1>3 DEF Holding, Structure, Binding, Active
<1>5. \A u \in Turns : Holding(u)' =>
        (sess'[task'[u].sess].closed => sess'[task'[u].sess].cancelReq)
  BY <1>2, <1>4 DEF Cancels, SameRequest, Recoverable
<1>6. /\ Cancelling(t)' /\ task'[t].st = "none"
      /\ \A u \in Turns : Live(u)' => u = t
  BY <1>3, NextTurn DEF Moves, OthersKept, Cancelling, Live
<1>7. \A u \in Turns : task'[u].st = "retiring" =>
                         task'[u].result # "cancelled"
  BY <1>3 DEF Cancels
<1> QED
  BY <1>2, <1>5, <1>6, <1>7 DEF Cancels, Recoverable

-----------------------------------------------------------------------------
(* Every step of every actor keeps the invariant *)

(* Types, for the steps of a generator. *)
LEMMA GeneratorTyped ==
  ASSUME OwnTypeOK, GeneratorStep, gen' \in [Turns -> Generators],
         task' \in [Turns -> SessionTasks],
         sess' \in [Sessions -> SessionStates], cancels' \in 0..MaxCancels
  PROVE  OwnTypeOK'
  BY DEF OwnTypeOK, GeneratorStep, binding, bridgeVars, BridgeTypeOK,
     SessionStates

(* Types, for the steps of a session task. *)
LEMMA TaskTyped ==
  ASSUME OwnTypeOK, SessionStep, UNCHANGED bridgeVars,
         task' \in [Turns -> SessionTasks],
         sess' \in [Sessions -> SessionStates],
         prompts' \subseteq [req : Requests, cleared : BOOLEAN]
  PROVE  OwnTypeOK'
  BY DEF OwnTypeOK, SessionStep, binding, bridgeVars, BridgeTypeOK,
     SessionStates

(* cancel() opens no session again. *)
LEMMA RequestCloses ==
  ASSUME OwnTypeOK, current \in Sessions, current' = current,
         sess' = Requested(current)
  PROVE  sess' \in [Sessions -> SessionStates] /\ SessionsClose
<1>1. sess \in [Sessions -> SessionStates] /\ Sessions \subseteq Nat
  BY TurnsAssumption DEF OwnTypeOK, SessionStates, Sessions
<1>2. \A s \in Sessions : s # current => sess'[s] = sess[s]
  BY <1>1 DEF Requested
<1>3. \A s \in Sessions : current < s => s # current
  BY <1>1
<1> QED
  BY <1>1, <1>2, <1>3, RequestedFacts DEF SessionsClose

(* close() of a session, current or earlier. *)
LEMMA CloseCloses ==
  ASSUME OwnTypeOK, NEW s \in Sessions, s <= current, current' = current,
         sess' = [sess EXCEPT ![s].closed = TRUE]
  PROVE  /\ sess' \in [Sessions -> SessionStates] /\ SessionsClose
         /\ sess'[s].closed
<1>1. sess \in [Sessions -> SessionStates] /\ Sessions \subseteq Nat
      /\ current \in Nat
  BY TurnsAssumption DEF OwnTypeOK, SessionStates, Sessions
<1>2. /\ sess' \in [Sessions -> SessionStates] /\ sess'[s].closed
      /\ \A v \in Sessions : v # s => sess'[v] = sess[v]
  BY <1>1 DEF SessionStates
<1>3. \A v \in Sessions : current < v => v # s
  BY <1>1
<1> QED
  BY <1>1, <1>2, <1>3 DEF SessionsClose

(* Taking a projection off a queue keeps the tasks. *)
LEMMA TakenFacts ==
  ASSUME NEW tasks \in [Turns -> SessionTasks], NEW t \in Turns,
         \A u \in Turns :
           /\ tasks[u].st = task[u].st /\ tasks[u].req = task[u].req
           /\ tasks[u].cleared = task[u].cleared
           /\ tasks[u].sess = task[u].sess
           /\ tasks[u].result = task[u].result
           /\ tasks[u].queue = task[u].queue,
         task[t].queue # <<>>,
         task' = [tasks EXCEPT ![t].queue = Tail(@)]
  PROVE  /\ task' \in [Turns -> SessionTasks]
         /\ \A u \in Turns : TaskKept(u)
<1> DEFINE q == Tail(tasks[t].queue)
           k == [tasks[t] EXCEPT !.queue = q]
<1>1. tasks[t] \in SessionTasks /\ tasks[t].queue # <<>>
  OBVIOUS
<1>2. tasks[t].queue \in Seq(Kinds)
  BY <1>1 DEF SessionTasks
<1>3. q \in Seq(Kinds)
  BY <1>1, <1>2
<1>4. task' = [tasks EXCEPT ![t] = k]
  OBVIOUS
<1> HIDE DEF q
<1>5. /\ k \in SessionTasks /\ k.st = tasks[t].st /\ k.req = tasks[t].req
      /\ k.cleared = tasks[t].cleared /\ k.sess = tasks[t].sess
      /\ k.result = tasks[t].result
  BY <1>1, <1>3 DEF SessionTasks
<1> HIDE DEF k
<1>6. task'[t] = k /\ \A u \in Turns : u # t => task'[u] = tasks[u]
  BY <1>4
<1> QED
  BY <1>4, <1>5, <1>6 DEF TaskKept, SameRequest

(* The poll of the host. *)
LEMMA PollStep ==
  ASSUME AdapterInv, NEW t \in Turns, NEW poll \in Polls, Poll(t, poll)
  PROVE  AdapterInv'
<1> USE DEF AdapterInv
<1>1. Live(t) /\ GeneratorStep /\ CliGrows /\ cancels' = cancels
  BY DEF Poll, Live, GeneratorStep, CliGrows, cli
<1>2. current \in Sessions /\ current' = current
  BY <1>1, OneLive DEF GeneratorStep, binding
<1>3. gen \in [Turns -> Generators] /\ task \in [Turns -> SessionTasks]
  BY DEF OwnTypeOK
<1>4. Moves(t, "cancelling")
  BY <1>3, MoveCancel DEF Poll, PointsInTurn
<1>5. task' \in [Turns -> SessionTasks] /\ \A u \in Turns : TaskKept(u)
  BY <1>3, ToldKept DEF Poll
<1>6. /\ sess' = Requested(current)
      /\ sess' \in [Sessions -> SessionStates] /\ SessionsClose
  BY <1>2, RequestCloses DEF Poll
<1>7. OwnTypeOK'
  BY <1>1, <1>4, <1>5, <1>6, GeneratorTyped DEF Moves, OthersKept, OwnTypeOK
<1>8. Structure'
  BY <1>1, <1>4, <1>5, <1>6, GeneratorMoves DEF PointsInTurn
<1>9. Cancels'
  BY <1>1, <1>4, <1>5, <1>6, CancelsRequested
<1> QED
  BY <1>7, <1>8, <1>9

(* A tool that is not one of Hermes' own. *)
LEMMA TakeUnlistedStep ==
  ASSUME AdapterInv, NEW t \in Turns, TakeUnlisted(t)
  PROVE  AdapterInv'
<1> USE DEF AdapterInv
<1>1. Live(t) /\ GeneratorStep /\ CliGrows /\ cancels' = cancels
  BY DEF TakeUnlisted, Live, GeneratorStep, CliGrows, cli
<1>2. current \in Sessions /\ current' = current
  BY <1>1, OneLive DEF GeneratorStep, binding
<1>3. gen \in [Turns -> Generators] /\ task \in [Turns -> SessionTasks]
  BY DEF OwnTypeOK
<1>4. Moves(t, "native")
  BY <1>3, MoveWaits, PhaseFacts DEF TakeUnlisted, PointsInTurn
<1>5. task' \in [Turns -> SessionTasks] /\ \A u \in Turns : TaskKept(u)
  <2>1. /\ task[t].queue # <<>>
        /\ task' = [Told(current) EXCEPT ![t].queue = Tail(@)]
    BY DEF TakeUnlisted
  <2> QED
    BY ZenonT(60), <1>3, <2>1, ToldFacts, TakenFacts
<1>6. /\ sess' = Requested(current)
      /\ sess' \in [Sessions -> SessionStates] /\ SessionsClose
  BY <1>2, RequestCloses DEF TakeUnlisted
<1>7. OwnTypeOK'
  BY <1>1, <1>4, <1>5, <1>6, GeneratorTyped DEF Moves, OthersKept, OwnTypeOK
<1>8. Structure'
  BY <1>1, <1>4, <1>5, <1>6, GeneratorMoves DEF PointsInTurn
<1>9. Cancels'
  BY <1>1, <1>4, <1>5, <1>6, CancelsRequested
<1> QED
  BY <1>7, <1>8, <1>9

(* A session task that raised. *)
LEMMA TaskFailedStep ==
  ASSUME AdapterInv, NEW t \in Turns, TaskFailed(t)
  PROVE  AdapterInv'
<1> USE DEF AdapterInv
<1>1. /\ Live(t) /\ GeneratorStep /\ CliGrows /\ cancels' = cancels
      /\ task[t].st = "done"
  BY DEF TaskFailed, Finished, Live, GeneratorStep, CliGrows, cli
<1>2. current \in Sessions /\ current' = current
  BY <1>1, OneLive DEF GeneratorStep, binding
<1>3. gen \in [Turns -> Generators] /\ task \in [Turns -> SessionTasks]
  BY DEF OwnTypeOK
<1>4. Moves(t, "failing")
  BY <1>3, MovePc DEF TaskFailed, PointsInTurn
<1>5. task' \in [Turns -> SessionTasks] /\ \A u \in Turns : TaskKept(u)
  BY <1>3, ToldKept DEF TaskFailed
<1>6. /\ sess' = Requested(current)
      /\ sess' \in [Sessions -> SessionStates] /\ SessionsClose
  BY <1>2, RequestCloses DEF TaskFailed
<1>7. OwnTypeOK'
  BY <1>1, <1>4, <1>5, <1>6, GeneratorTyped DEF Moves, OthersKept, OwnTypeOK
<1>8. Structure'
  BY <1>1, <1>4, <1>5, <1>6, GeneratorMoves DEF PointsInTurn
<1>9. Cancels'
  BY <1>1, <1>4, <1>5, <1>6, CancelsRequested
<1> QED
  BY <1>7, <1>8, <1>9

(* A projection that is taken, and a host that asks for the next. *)
LEMMA TakeStep ==
  ASSUME AdapterInv, NEW t \in Turns, Take(t) \/ Resume(t)
  PROVE  AdapterInv'
<1> USE DEF AdapterInv
<1>1. /\ Live(t) /\ GeneratorStep /\ cancels' = cancels /\ sess' = sess
      /\ ~Cancelling(t) /\ CliGrows
  BY DEF Take, Resume, Live, Cancelling, GeneratorStep, CliGrows, cli
<1>2. /\ gen \in [Turns -> Generators] /\ task \in [Turns -> SessionTasks]
      /\ sess' \in [Sessions -> SessionStates] /\ SessionsClose
  BY <1>1 DEF OwnTypeOK, SessionsClose, SessionStates
<1>3. ASSUME NEW p \in {"loop", "yielded"}, Moves(t, p),
             task' \in [Turns -> SessionTasks],
             \A u \in Turns : TaskKept(u),
             p = "yielded" => task[t].st # "waiting"
      PROVE  AdapterInv'
  <2>1. OwnTypeOK'
    BY <1>1, <1>2, <1>3, GeneratorTyped DEF Moves, OthersKept, OwnTypeOK
  <2>2. Structure'
    BY <1>1, <1>2, <1>3, GeneratorMoves DEF PointsInTurn
  <2>3. Cancels'
    BY <1>1, <1>3, CancelsReturned DEF Moves
  <2> QED
    BY <2>1, <2>2, <2>3
<1>4. CASE Resume(t)
  <2>1. Moves(t, "loop")
    BY <1>2, <1>4, MovePc DEF Resume, PointsInTurn
  <2>2. task' = task
    BY <1>4 DEF Resume
  <2> QED
    BY <1>2, <1>3, <2>1, <2>2 DEF TaskKept, SameRequest
<1>5. CASE Take(t)
  <2> DEFINE k == Head(task[t].queue)
             p == IF Surfaced(k) = {} THEN "loop" ELSE "yielded"
             x == gen[t].visible \/ "content" \in Surfaced(k)
  <2>1. "completed" \notin Surfaced(k)
    BY DEF Surfaced
  <2>2. /\ task[t].queue # <<>>
        /\ task' = [task EXCEPT ![t].queue = Tail(@)]
        /\ gen' = [gen EXCEPT ![t].visible = x,
             ![t].terminals = gen[t].terminals, ![t].pc = p]
    BY <1>5, <2>1 DEF Take
  <2>3. p \in PointsInTurn /\ x \in BOOLEAN /\ p \in {"loop", "yielded"}
    BY DEF PointsInTurn
  <2> HIDE DEF p, x
  <2>4. Moves(t, p)
    BY <1>2, <2>2, <2>3, MoveVisible
  <2>5. task' \in [Turns -> SessionTasks] /\ \A u \in Turns : TaskKept(u)
    BY <1>2, <2>2, TakenFacts
  <2>6. task[t].st # "waiting"
    BY <2>2 DEF Structure, Locking
  <2> QED
    BY <1>3, <2>3, <2>4, <2>5, <2>6
<1> QED
  BY <1>4, <1>5

(* A generator that the host drops. *)
LEMMA AbandonStep ==
  ASSUME AdapterInv, NEW t \in Turns, Abandon(t)
  PROVE  AdapterInv'
<1> USE DEF AdapterInv
<1>1. /\ Live(t) /\ GeneratorStep /\ cancels' = cancels /\ sess' = sess
      /\ ~Cancelling(t) /\ gen[t].pc = "yielded" /\ CliGrows
  BY DEF Abandon, LeaveBehind, Live, Cancelling, GeneratorStep, CliGrows
<1>2. /\ gen \in [Turns -> Generators] /\ task \in [Turns -> SessionTasks]
      /\ sess' \in [Sessions -> SessionStates] /\ SessionsClose
  BY <1>1 DEF OwnTypeOK, SessionsClose, SessionStates
<1>3. Leaves(t, "abandoned")
  BY <1>2, LeaveFacts DEF Abandon
<1>4. /\ task' \in [Turns -> SessionTasks]
      /\ \A u \in Turns : u # t => TaskKept(u)
      /\ TaskKept(t) \/ TaskGone(t)
  BY <1>2, ReleasedFacts DEF Abandon
<1>5. OwnTypeOK'
  BY <1>1, <1>2, <1>3, <1>4, GeneratorTyped DEF Leaves, OthersKept, OwnTypeOK
<1>6. Structure'
  <2>1. task[t].st # "waiting"
    BY <1>1 DEF Structure, Locking
  <2> QED
    BY <1>1, <1>2, <1>3, <1>4, <2>1, GeneratorLeaves
<1>7. Cancels'
  BY <1>1, <1>3, <1>4, CancelsReturned DEF Leaves
<1> QED
  BY <1>5, <1>6, <1>7

(* The phase of a failure is "effects" when a tool was run for the turn. *)
LEMMA PhaseHonest ==
  ASSUME Structure, NEW t \in Turns, gen[t].pc # "ended",
         Phase(t) # "effects"
  PROVE  ~Performed(t)
  BY DEF Phase, Structure, Effects

(* The end of a turn whose task returned. *)
LEMMA ReportStep ==
  ASSUME AdapterInv, NEW t \in Turns, Report(t) \/ NativeReturns(t)
  PROVE  AdapterInv'
<1> USE DEF AdapterInv
<1>1. /\ Live(t) /\ GeneratorStep /\ cancels' = cancels /\ sess' = sess
      /\ ~Cancelling(t) /\ task[t].st = "done" /\ gen[t].pc # "ended"
      /\ task' = [task EXCEPT ![t] = Released(@)] /\ CliGrows
  BY DEF Report, NativeReturns, Finished, Live, Cancelling, GeneratorStep,
     CliGrows, cli
<1>2. /\ gen \in [Turns -> Generators] /\ task \in [Turns -> SessionTasks]
      /\ sess' \in [Sessions -> SessionStates] /\ SessionsClose
  BY <1>1 DEF OwnTypeOK, SessionsClose, SessionStates
<1>3. /\ gen[t].phase \in Phases /\ Phase(t) \in Phases
      /\ Phase(t) # "effects" => ~Performed(t)
  BY <1>1, <1>2, PhaseFacts, PhaseHonest DEF Generators
<1>4. Returned(t)
  <2>1. CASE NativeReturns(t)
    <3>1. gen' = [gen EXCEPT ![t] = Ended(@, "unlisted", gen[t].phase)]
      BY <2>1 DEF NativeReturns
    <3> QED
      BY <1>2, <1>3, <3>1, ReturnFacts DEF TerminalEvents
  <2>2. CASE Report(t)
    <3>1. \/ gen' = [gen EXCEPT ![t] = Ended(@, "failed", Phase(t))]
          \/ gen' = [gen EXCEPT ![t] = Ended(@, "completed", gen[t].phase)]
          \/ gen' = [gen EXCEPT ![t] = Ended(@, "cancelled", gen[t].phase)]
      BY <2>2 DEF Report
    <3>2. CASE gen' = [gen EXCEPT ![t] = Ended(@, "failed", Phase(t))]
      BY <1>2, <1>3, <3>2, ReturnFacts DEF TerminalEvents
    <3>3. CASE gen' = [gen EXCEPT ![t] = Ended(@, "completed", gen[t].phase)]
      BY <1>2, <1>3, <3>3, ReturnFacts DEF TerminalEvents
    <3>4. CASE gen' = [gen EXCEPT ![t] = Ended(@, "cancelled", gen[t].phase)]
      BY <1>2, <1>3, <3>4, ReturnFacts DEF TerminalEvents
    <3> QED
      BY <3>1, <3>2, <3>3, <3>4
  <2> QED
    BY <2>1, <2>2
<1>5. /\ task' \in [Turns -> SessionTasks]
      /\ \A u \in Turns : u # t => TaskKept(u)
      /\ TaskGone(t)
  BY <1>1, <1>2, ReleasedFacts
<1>6. OwnTypeOK'
  BY <1>1, <1>2, <1>4, <1>5, GeneratorTyped DEF Returned, OthersKept, OwnTypeOK
<1>7. Structure'
  BY <1>1, <1>2, <1>4, <1>5, GeneratorLeaves
<1>8. Cancels'
  BY <1>1, <1>4, <1>5, CancelsReturned DEF Returned
<1> QED
  BY <1>6, <1>7, <1>8

(* session.cancel() returns to the generator. *)
LEMMA CancelReturnsStep ==
  ASSUME AdapterInv, NEW t \in Turns, CancelReturns(t)
  PROVE  AdapterInv'
<1> USE DEF AdapterInv
<1>1. /\ Cancelling(t) /\ Live(t) /\ GeneratorStep /\ cancels' = cancels
      /\ sess' = [sess EXCEPT ![current].closed = TRUE]
      /\ gen' = [gen EXCEPT ![t] = AfterCancel(t)] /\ CliGrows
  BY DEF CancelReturns, CloseSession, Live, Cancelling, GeneratorStep,
     CliGrows
<1>2. /\ gen \in [Turns -> Generators] /\ task \in [Turns -> SessionTasks]
      /\ current' = current /\ current \in Sessions /\ current <= current
  BY <1>1, OneLive, TurnsAssumption
  DEF OwnTypeOK, GeneratorStep, binding, Sessions
<1>3. /\ sess' \in [Sessions -> SessionStates] /\ SessionsClose
      /\ sess'[current].closed
  BY <1>1, <1>2, CloseCloses
<1>4. CASE gen[t].pc \in {"cancelling", "native"}
  <2> DEFINE p == IF gen[t].pc = "cancelling" THEN "loop" ELSE "nativeTask"
  <2>1. gen' = [gen EXCEPT ![t].pc = p]
    BY <1>1, <1>2, <1>4 DEF AfterCancel
  <2>2. p \in PointsInTurn /\ p \in {"loop", "nativeTask"}
    BY DEF PointsInTurn
  <2> HIDE DEF p
  <2>3. Moves(t, p)
    BY <1>2, <2>1, <2>2, MovePc
  <2>4. task' \in [Turns -> SessionTasks] /\ \A u \in Turns : TaskKept(u)
    BY <1>2, <1>4, ToldKept DEF CancelReturns
  <2>5. OwnTypeOK'
    BY <1>1, <1>3, <2>3, <2>4, GeneratorTyped DEF Moves, OthersKept, OwnTypeOK
  <2>6. Structure'
    BY <1>1, <1>3, <2>2, <2>3, <2>4, GeneratorMoves
  <2>7. Cancels'
    BY <1>1, <2>2, <2>3, <2>4, CancelsReturned DEF Moves
  <2> QED
    BY <2>5, <2>6, <2>7
<1>5. CASE gen[t].pc \in {"failing", "dying"}
  <2>1. task' = [Told(current) EXCEPT ![t] = Released(@)]
    BY <1>5 DEF CancelReturns
  <2>2. /\ task' \in [Turns -> SessionTasks]
        /\ \A u \in Turns : u # t => TaskKept(u)
        /\ TaskKept(t) \/ TaskGone(t)
        /\ task[t].st \in {"none", "done"} => TaskGone(t)
    <3> DEFINE tasks == Told(current)
    <3>1. tasks \in [Turns -> SessionTasks]
      BY <1>2, ToldFacts
    <3>2. \A u \in Turns :
            /\ tasks[u].st = task[u].st /\ tasks[u].req = task[u].req
            /\ tasks[u].cleared = task[u].cleared
            /\ tasks[u].sess = task[u].sess
            /\ tasks[u].result = task[u].result
            /\ tasks[u].queue = task[u].queue
      BY <1>2, ToldFacts
    <3>3. task' = [tasks EXCEPT ![t] = Released(@)]
      BY <2>1
    <3> HIDE DEF tasks
    <3> QED
      BY <3>1, <3>2, <3>3, ReleasedFacts
  <2>3. CASE gen[t].pc = "failing"
    <3>1. gen' = [gen EXCEPT ![t] = Ended(@, "failed", Phase(t))]
      BY <1>1, <1>2, <2>3 DEF AfterCancel
    <3>2. Returned(t)
      BY <1>2, <2>3, <3>1, ReturnFacts, PhaseFacts, PhaseHonest
      DEF TerminalEvents
    <3>3. TaskGone(t)
      BY <2>2, <2>3 DEF Structure, Effects
    <3>4. OwnTypeOK'
      BY <1>1, <1>3, <2>2, <3>2, GeneratorTyped
      DEF Returned, OthersKept, OwnTypeOK
    <3>5. Structure'
      BY <1>1, <1>3, <2>2, <3>2, <3>3, GeneratorLeaves
    <3>6. Cancels'
      BY <1>1, <2>2, <3>2, CancelsReturned DEF Returned
    <3> QED
      BY <3>4, <3>5, <3>6
  <2>4. CASE gen[t].pc = "dying"
    <3>1. gen' = [gen EXCEPT ![t] = Left(@, "killed")]
      BY <1>1, <1>2, <2>4 DEF AfterCancel
    <3>2. Leaves(t, "killed")
      BY <1>2, <3>1, LeaveFacts
    <3>3. OwnTypeOK'
      BY <1>1, <1>3, <2>2, <3>2, GeneratorTyped
      DEF Leaves, OthersKept, OwnTypeOK
    <3>4. Structure'
      BY <1>1, <1>3, <2>2, <3>2, GeneratorLeaves
    <3>5. Cancels'
      BY <1>1, <2>2, <3>2, CancelsReturned DEF Leaves
    <3> QED
      BY <3>3, <3>4, <3>5
  <2> QED
    BY <1>5, <2>3, <2>4
<1> QED
  BY <1>1, <1>4, <1>5 DEF Cancelling

(* The task that runs the generator is cancelled. *)
LEMMA CancelTaskStep ==
  ASSUME AdapterInv, NEW t \in Turns, CancelTask(t)
  PROVE  AdapterInv'
<1> USE DEF AdapterInv
<1>1. /\ Live(t) /\ GeneratorStep /\ cancels' \in 0..MaxCancels
      /\ CliGrows
  BY BoundAssumption
  DEF CancelTask, LeaveBehind, Live, OwnTypeOK, GeneratorStep, CliGrows, cli
<1>2. /\ gen \in [Turns -> Generators] /\ task \in [Turns -> SessionTasks]
      /\ current' = current /\ current \in Sessions
  BY <1>1, OneLive DEF OwnTypeOK, GeneratorStep, binding
<1>3. CASE gen[t].pc \in {"loop", "cancelling", "native", "nativeTask"}
  <2>1. /\ gen' = [gen EXCEPT ![t] = Waits(gen[t], "dying", "before")]
        /\ sess' = Requested(current)
        /\ task' = IF gen[t].pc = "nativeTask"
                   THEN [Told(current) EXCEPT ![t] = NoTask]
                   ELSE Told(current)
    BY <1>3 DEF CancelTask
  <2>2. Moves(t, "dying")
    BY <1>2, <2>1, MoveWaits DEF PointsInTurn, Phases
  <2>3. /\ task' \in [Turns -> SessionTasks]
        /\ \A u \in Turns : u # t => TaskKept(u)
        /\ TaskKept(t) \/ TaskGone(t)
    <3>1. CASE gen[t].pc = "nativeTask"
      <4>1. /\ task' = [Told(current) EXCEPT ![t] = NoTask]
            /\ Told(current) \in [Turns -> SessionTasks]
        BY <1>2, <2>1, <3>1, ToldFacts
      <4>2. NoTask \in SessionTasks
        BY <1>2, TaskFacts DEF Results
      <4>3. \A u \in Turns : u # t => TaskKept(u)
        BY <1>2, <4>1, ToldFacts DEF TaskKept, SameRequest
      <4>4. TaskGone(t)
        BY <4>1 DEF TaskGone, NoTask
      <4> QED
        BY <4>1, <4>2, <4>3, <4>4
    <3>2. CASE gen[t].pc # "nativeTask"
      BY <1>2, <2>1, <3>2, ToldKept
    <3> QED
      BY <3>1, <3>2
  <2>4. sess' \in [Sessions -> SessionStates] /\ SessionsClose
    BY <1>2, <2>1, RequestCloses
  <2>5. OwnTypeOK'
    BY <1>1, <2>2, <2>3, <2>4, GeneratorTyped DEF Moves, OthersKept
  <2>6. Structure'
    BY <1>1, <2>2, <2>3, <2>4, GeneratorMoves DEF PointsInTurn
  <2>7. Cancels'
    BY <1>1, <2>1, <2>2, <2>3, CancelsRequested
  <2> QED
    BY <2>5, <2>6, <2>7
<1>4. CASE gen[t].pc \in {"failing", "dying"}
  <2>1. /\ gen' = [gen EXCEPT ![t] = Left(@, "cut")]
        /\ task' = [task EXCEPT ![t] = Released(@)]
        /\ \/ sess' = sess
           \/ sess' = [sess EXCEPT ![current].closed = TRUE]
    BY <1>4 DEF CancelTask
  <2>2. Leaves(t, "cut")
    BY <1>2, <2>1, LeaveFacts
  <2>3. /\ task' \in [Turns -> SessionTasks]
        /\ \A u \in Turns : u # t => TaskKept(u)
        /\ TaskKept(t) \/ TaskGone(t)
    BY <1>2, <2>1, ReleasedFacts
  <2>4. sess' \in [Sessions -> SessionStates] /\ SessionsClose
    <3>1. CASE sess' = sess
      BY <3>1 DEF OwnTypeOK, SessionsClose, SessionStates
    <3>2. CASE sess' = [sess EXCEPT ![current].closed = TRUE]
      <4>1. current <= current
        BY <1>2, TurnsAssumption DEF Sessions
      <4> QED
        BY <1>2, <3>2, <4>1, CloseCloses
    <3> QED
      BY <2>1, <3>1, <3>2
  <2>5. OwnTypeOK'
    BY <1>1, <2>2, <2>3, <2>4, GeneratorTyped DEF Leaves, OthersKept
  <2>6. Structure'
    BY <1>1, <2>2, <2>3, <2>4, GeneratorLeaves
  <2>7. Cancels'
    BY <1>1, <1>4, <2>1, <2>2, <2>3, CancelsReturned DEF Leaves, Cancelling
  <2> QED
    BY <2>5, <2>6, <2>7
<1> QED
  BY <1>3, <1>4 DEF CancelTask

(* A turn that is not admitted. *)
LEMMA RefuseStep ==
  ASSUME AdapterInv, NEW t \in Turns, RefuseTurn(t)
  PROVE  AdapterInv'
<1> USE DEF AdapterInv
<1>1. PICK r \in Requests, ok \in BOOLEAN, out \in TerminalEvents,
           phase \in Phases :
        /\ IsNext(t) /\ Consumes(r, ok)
        /\ gen' = [gen EXCEPT ![t] = Ended(@, out, phase)]
        /\ UNCHANGED <<closed, binding, sess, task, prompts, cancels,
                       bridgeVars>>
        /\ CliGrows
  BY DEF RefuseTurn, TerminalEvents, Phases, CliGrows, cli
<1>2. token' = None /\ fresh' = None
  BY <1>1, ConsumeFacts
<1>3. UNCHANGED <<closed, host, contract, current, sess, task, prompts,
                  cancels, bridgeVars>>
  BY <1>1 DEF binding
<1>4. gen \in [Turns -> Generators]
  BY DEF OwnTypeOK
<1>5. Returned(t)
  BY <1>1, <1>4, NextTurn, ReturnFacts
<1>6. OwnTypeOK'
  BY <1>2, <1>3, <1>5
  DEF Returned, OthersKept, OwnTypeOK, bridgeVars, BridgeTypeOK
<1>7. Structure'
  BY <1>1, <1>2, <1>3, <1>5, TurnRefused
<1>8. Cancels'
  BY <1>1, <1>3, <1>5, CancelsRefused
<1> QED
  BY <1>6, <1>7, <1>8

(* A turn that is admitted, whatever its session does. *)
LEMMA StartStep ==
  ASSUME AdapterInv, NEW t \in Turns, StartTurn(t)
  PROVE  AdapterInv'
<1> USE DEF AdapterInv
<1>1. PICK r \in Requests, ok \in BOOLEAN :
        /\ IsNext(t) /\ Admitted(r, ok, "no", TRUE) /\ Consumes(r, ok)
        /\ \/ OpenSession(t, r, ok) \/ ConfigureFails(t, r)
           \/ ContractChanged(t, r) \/ UseSession(t, r, ok)
           \/ BeginTurnRaises(t, r)
        /\ UNCHANGED <<closed, prompts, cancels>> /\ CliGrows
  BY DEF StartTurn, CliGrows, cli
<1>2. token' = None /\ fresh' = None
  BY <1>1, ConsumeFacts
<1>3. /\ gen \in [Turns -> Generators] /\ task \in [Turns -> SessionTasks]
      /\ executions \in Nat /\ ~closed
  BY <1>1 DEF OwnTypeOK, BridgeTypeOK, Admitted
<1>4. /\ 1 \in Sessions
      /\ current # 0 => SessionFor \in Sessions
  BY <1>1, SessionNumber
<1>5. ASSUME current' \in Sessions, Launch(t, r, current', ok),
             \/ current = 0 /\ current' = 1
             \/ current # 0 /\ current' = SessionFor,
             current # 0 => host' = host /\ contract' = contract,
             host' = HostOf[r], contract' = ContractOf[r], sess' = sess
      PROVE  AdapterInv'
  <2>1. /\ gen' \in [Turns -> Generators] /\ task' \in [Turns -> SessionTasks]
        /\ correlation' = t /\ executions' = executions /\ call' = call
    BY <1>3, <1>5, LaunchFacts
  <2>2. OwnTypeOK'
    BY <1>1, <1>2, <1>5, <2>1 DEF OwnTypeOK, BridgeTypeOK
  <2>3. Structure'
    BY <1>1, <1>2, <1>5, TurnLaunched
  <2>4. Cancels'
    BY <1>1, <1>5, CancelsLaunched
  <2> QED
    BY <2>2, <2>3, <2>4
<1>6. CASE OpenSession(t, r, ok)
  BY <1>4, <1>5, <1>6 DEF OpenSession
<1>7. CASE UseSession(t, r, ok)
  <2>1. host = HostOf[r]
    BY <1>1, <1>7 DEF UseSession, Admitted, Structure, Binding
  <2> QED
    BY <1>4, <1>5, <1>7, <2>1 DEF UseSession, Compatible
<1>8. CASE ConfigureFails(t, r) \/ ContractChanged(t, r)
  <2>1. /\ gen' = [gen EXCEPT ![t] = Ended(@, "failed", "before")]
        /\ UNCHANGED <<contract, current, sess, task, bridgeVars>>
        /\ host' # host => current = 0
        /\ host' \in {host, HostOf[r]}
    BY <1>8 DEF ConfigureFails, ContractChanged, binding
  <2>2. Returned(t)
    BY <1>1, <1>3, <2>1, NextTurn, ReturnFacts DEF TerminalEvents, Phases
  <2>3. OwnTypeOK'
    BY <1>1, <1>2, <2>1, <2>2
    DEF Returned, OthersKept, OwnTypeOK, bridgeVars, BridgeTypeOK
  <2>4. Structure'
    BY <1>1, <1>2, <2>1, <2>2, TurnRefused
  <2>5. Cancels'
    BY <1>1, <2>1, <2>2, CancelsRefused
  <2> QED
    BY <2>3, <2>4, <2>5
<1>9. CASE BeginTurnRaises(t, r)
  <2>1. /\ Structure' /\ Moves(t, "failing") /\ SessionsClose
        /\ \A u \in Turns : TaskKept(u)
    BY <1>1, <1>2, <1>3, <1>9, TurnRaises
  <2>2. /\ current' \in Sessions /\ sess' = Requested(current')
        /\ task' = Told(SessionFor) /\ UNCHANGED <<host, contract, bridgeVars>>
        /\ sess \in [Sessions -> SessionStates]
    BY <1>4, <1>9 DEF BeginTurnRaises, OwnTypeOK, SessionStates
  <2>3. sess' \in [Sessions -> SessionStates]
    BY <2>2, RequestedFacts
  <2>4. task' \in [Turns -> SessionTasks]
    BY <1>3, <2>2, ToldKept
  <2>5. OwnTypeOK'
    BY <1>1, <1>2, <2>1, <2>2, <2>3, <2>4
    DEF Moves, OthersKept, OwnTypeOK, bridgeVars, BridgeTypeOK, SessionStates
  <2>6. Cancels'
    BY <1>1, <2>1, <2>2, CancelsRaises
  <2> QED
    BY <2>1, <2>5, <2>6
<1> QED
  BY <1>1, <1>6, <1>7, <1>8, <1>9

(* What is left of a task that returns. *)
LEMMA DoneFacts ==
  ASSUME task \in [Turns -> SessionTasks], NEW t \in Turns,
         NEW result \in Results, Returns(t, result)
  PROVE  /\ task' \in [Turns -> SessionTasks]
         /\ \A u \in Turns : u # t => task'[u] = task[u]
         /\ \/ task'[t].st = "none"
            \/ /\ task'[t].st = "done" /\ gen[t].pc # "ended"
               /\ task'[t].result = result
<1>1. Done(t, result) \in SessionTasks
  BY TaskFacts
<1>2. task' = [task EXCEPT ![t] = Done(t, result)]
  BY DEF Returns
<1>3. \/ Done(t, result).st = "none"
      \/ /\ Done(t, result).st = "done" /\ gen[t].pc # "ended"
         /\ Done(t, result).result = result
  BY DEF Done, NoTask
<1> QED
  BY <1>1, <1>2, <1>3

(* A session task that returns. *)
LEMMA TaskOverStep ==
  ASSUME AdapterInv, NEW t \in Turns,
         \/ TaskRefused(t) \/ TaskReturns(t) \/ TaskRaises(t)
         \/ TaskRetired(t)
  PROVE  AdapterInv'
<1> USE DEF AdapterInv
<1>1. /\ SessionStep /\ UNCHANGED <<prompts, bridgeVars>> /\ CliGrows
      /\ Holding(t) \/ (HasLock(t) /\ Active(t))
  BY DEF TaskRefused, TaskReturns, TaskRaises, TaskRetired, Holding, HasLock,
     Active, CliGrows, CliAfter, LeaveBehind, CloseSession, cli
<1>2. /\ task \in [Turns -> SessionTasks] /\ current' = current
      /\ sess \in [Sessions -> SessionStates]
      /\ task[t].sess \in Sessions /\ task[t].sess <= current /\ Active(t)
      /\ task[t].result \in Results
  <2>1. Active(t)
    BY <1>1 DEF Holding, Active
  <2> QED
    BY <1>1, <2>1
    DEF OwnTypeOK, SessionStates, SessionStep, binding, Structure,
       Binding, Locking, SessionTasks
<1>3. ASSUME NEW result \in Results, Returns(t, result),
             \/ /\ sess' = sess
                /\ ~closed /\ result = "cancelled" =>
                     Recoverable(task[t].sess)
             \/ /\ Holding(t)
                /\ sess' = [sess EXCEPT ![task[t].sess].closed = TRUE]
                /\ ~closed => result # "cancelled"
      PROVE  AdapterInv'
  <2>1. /\ task' \in [Turns -> SessionTasks]
        /\ \A u \in Turns : u # t => task'[u] = task[u]
        /\ \/ task'[t].st = "none"
           \/ /\ task'[t].st = "done" /\ gen[t].pc # "ended"
              /\ task'[t].result = result
    BY <1>2, <1>3, DoneFacts
  <2>2. sess' \in [Sessions -> SessionStates] /\ SessionsClose
    BY <1>2, <1>3, CloseCloses DEF SessionsClose
  <2>3. OwnTypeOK'
    BY <1>1, <2>1, <2>2, TaskTyped DEF OwnTypeOK
  <2>4. Structure'
    BY <1>1, <1>2, <2>1, <2>2, TaskMoves
  <2>5. Cancels'
    <3>1. CASE closed
      BY <1>1, <3>1 DEF Cancels, SessionStep
    <3>2. CASE ~closed
      BY <1>1, <1>3, <2>1, <3>2, CancelsTaskOver
    <3> QED
      BY <3>1, <3>2
  <2> QED
    BY <2>3, <2>4, <2>5
<1>4. CASE TaskRefused(t)
  BY <1>3, <1>4 DEF TaskRefused, Results, Recoverable
<1>5. CASE TaskReturns(t)
  <2>1. Holding(t) /\ sess' = sess
    BY <1>5 DEF TaskReturns, Holding
  <2>2. ~closed => Recoverable(task[t].sess)
    BY <2>1 DEF Cancels
  <2>3. PICK result \in Results : Returns(t, result)
    BY <1>5 DEF TaskReturns, Outcomes, Results
  <2> QED
    BY <1>3, <2>1, <2>2, <2>3
<1>6. CASE TaskRaises(t)
  BY <1>3, <1>6 DEF TaskRaises, Results
<1>7. CASE TaskRetired(t)
  <2>1. /\ Holding(t) /\ Returns(t, task[t].result)
        /\ sess' = [sess EXCEPT ![task[t].sess].closed = TRUE]
        /\ ~closed => task[t].result # "cancelled"
    BY <1>7 DEF TaskRetired, CloseSession, Holding, Cancels
  <2> QED
    BY <1>2, <1>3, <2>1
<1> QED
  BY <1>4, <1>5, <1>6, <1>7

(* A session task that gets the lock and sends its prompt. *)
LEMMA TaskStartsStep ==
  ASSUME AdapterInv, NEW t \in Turns, TaskStarts(t)
  PROVE  AdapterInv'
<1> USE DEF AdapterInv
<1>1. /\ SessionStep /\ UNCHANGED bridgeVars /\ sess' = sess /\ HasLock(t)
      /\ task[t].st = "waiting" /\ Active(t)
      /\ task' = [task EXCEPT ![t].st = "running"]
      /\ prompts' = prompts \cup
           {[req |-> task[t].req, cleared |-> task[t].cleared]}
      /\ CliGrows
  BY DEF TaskStarts, HasLock, Active, CliGrows
<1>2. task \in [Turns -> SessionTasks]
  BY DEF OwnTypeOK
<1>3. /\ task' \in [Turns -> SessionTasks] /\ SameRequest(t)
      /\ task'[t].st = "running"
      /\ \A u \in Turns : u # t => task'[u] = task[u]
      /\ task[t].cleared \in BOOLEAN
  BY ZenonT(60), <1>1, <1>2 DEF SameRequest, SessionTasks
<1>4. sess' \in [Sessions -> SessionStates] /\ SessionsClose
  BY <1>1 DEF OwnTypeOK, SessionStates, SessionsClose
<1>5. prompts' \subseteq [req : Requests, cleared : BOOLEAN]
  BY <1>1, <1>3 DEF OwnTypeOK, Structure, Binding
<1>6. OwnTypeOK'
  BY <1>1, <1>3, <1>4, <1>5, TaskTyped
<1>7. Structure'
  BY <1>1, <1>3, <1>4, TaskMoves DEF Holding
<1>8. Cancels'
  BY CancelsTaskStarts
<1> QED
  BY <1>6, <1>7, <1>8

(* A session task that projects, or begins to retire. *)
LEMMA ProjectStep ==
  ASSUME AdapterInv, NEW t \in Turns,
         TaskRetires(t) \/ \E k \in Kinds : Project(t, k)
  PROVE  AdapterInv'
<1> USE DEF AdapterInv
<1>1. /\ SessionStep /\ UNCHANGED <<prompts, bridgeVars>> /\ sess' = sess
      /\ Holding(t) /\ Active(t) /\ task[t].st \in {"running", "answered"}
      /\ CliGrows
  BY DEF TaskRetires, Project, Holding, Active, CliGrows, cli
<1>2. task \in [Turns -> SessionTasks] /\ task[t] \in SessionTasks
  BY DEF OwnTypeOK
<1>3. /\ task' \in [Turns -> SessionTasks] /\ SameRequest(t) /\ Holding(t)'
      /\ \A u \in Turns : u # t => task'[u] = task[u]
      /\ task'[t].st = "retiring" => task'[t].result # "cancelled"
  <2>1. CASE TaskRetires(t)
    <3>1. PICK result \in {"failed", "blocked"} :
            task' = [task EXCEPT ![t].st = "retiring", ![t].result = result]
      BY <2>1 DEF TaskRetires
    <3> DEFINE k == [task[t] EXCEPT !.st = "retiring", !.result = result]
    <3>2. task' = [task EXCEPT ![t] = k]
      BY <3>1
    <3>3. /\ k \in SessionTasks /\ k.st = "retiring" /\ k.result = result
          /\ k.req = task[t].req /\ k.cleared = task[t].cleared
          /\ k.sess = task[t].sess
      BY <1>2 DEF SessionTasks, Results
    <3> HIDE DEF k
    <3> QED
      BY <1>2, <3>2, <3>3 DEF SameRequest, Holding
  <2>2. ASSUME NEW x \in Kinds, Project(t, x)
        PROVE  /\ task' \in [Turns -> SessionTasks] /\ SameRequest(t)
               /\ Holding(t)'
               /\ \A u \in Turns : u # t => task'[u] = task[u]
               /\ task'[t].st = "retiring" => task'[t].result # "cancelled"
    <3> DEFINE n == task[t].sent + 1
               q == Append(task[t].queue, x)
               s == IF x = "result" THEN "answered" ELSE task[t].st
               k == [task[t] EXCEPT !.sent = n, !.queue = q, !.st = s]
    <3>1. task' = [task EXCEPT ![t] = k]
      BY <2>2 DEF Project
    <3>2. n \in 0..MaxProjections
      <4>1. task[t].sent \in 0..MaxProjections
        BY <1>2 DEF SessionTasks
      <4>2. task[t].sent < MaxProjections
        BY <2>2 DEF Project
      <4> QED
        BY <4>1, <4>2, BoundAssumption
    <3>3. q \in Seq(Kinds)
      BY <1>2 DEF SessionTasks
    <3>4. s \in {"running", "answered"}
      BY <1>1
    <3> HIDE DEF n, q, s
    <3>5. /\ k \in SessionTasks /\ k.st = s
          /\ k.req = task[t].req /\ k.cleared = task[t].cleared
          /\ k.sess = task[t].sess
      BY <1>2, <3>2, <3>3, <3>4 DEF SessionTasks
    <3> HIDE DEF k
    <3> QED
      BY <1>2, <3>1, <3>4, <3>5 DEF SameRequest, Holding
  <2> QED
    BY <2>1, <2>2
<1>4. sess' \in [Sessions -> SessionStates] /\ SessionsClose
  BY <1>1 DEF OwnTypeOK, SessionStates, SessionsClose
<1>5. OwnTypeOK'
  BY <1>1, <1>3, <1>4, TaskTyped DEF OwnTypeOK
<1>6. Structure'
  BY <1>1, <1>3, <1>4, TaskMoves
<1>7. Cancels'
  BY <1>1, <1>3, CancelsTaskGoesOn
<1> QED
  BY <1>5, <1>6, <1>7

(* A tool call, and its end. *)
LEMMA ToolStep ==
  ASSUME AdapterInv, CliTypeOK, Work, NEW c \in Calls,
         ToolReturns(c) \/ \E t \in Turns : ToolCall(c, t)
  PROVE  AdapterInv'
<1> USE DEF AdapterInv
<1>1. UNCHANGED <<closed, token, host, contract, current, sess, gen, task,
                  fresh, prompts, cancels, correlation>>
  BY DEF ToolCall, ToolReturns, SessionStep, binding, Refuse, Execute,
     HostReturns
<1>2. OwnTypeOK'
  <2>1. ASSUME NEW t \in Turns, ToolCall(c, t)
        PROVE call' \in [Calls -> [st : CallStates, turn : Turns \cup {NoTurn},
                                   under : Turns \cup {NoTurn}]]
              /\ executions' \in Nat
    BY <2>1 DEF ToolCall, Refuse, Execute, Made, OwnTypeOK, BridgeTypeOK,
       CallStates
  <2>2. ASSUME ToolReturns(c)
        PROVE call' \in [Calls -> [st : CallStates, turn : Turns \cup {NoTurn},
                                   under : Turns \cup {NoTurn}]]
              /\ executions' \in Nat
    BY <2>2 DEF ToolReturns, HostReturns, OwnTypeOK, BridgeTypeOK, CallStates
  <2> QED
    BY <1>1, <2>1, <2>2 DEF OwnTypeOK, BridgeTypeOK
<1>3. Structure'
  BY ToolCallMoves, HostMoves
<1>4. Cancels'
  BY <1>1, CancelsUntouched
<1> QED
  BY <1>2, <1>3, <1>4

(* A preflight, close(), and a step of somebody else. *)
LEMMA HostStep ==
  ASSUME AdapterInv,
         (\E r \in Requests : Preflight(r)) \/ Close \/ UNCHANGED vars
  PROVE  AdapterInv'
<1> USE DEF AdapterInv
<1>1. Structure'
  BY HostMoves
<1>2. CASE UNCHANGED vars
  <2>1. OwnTypeOK'
    BY <1>2 DEF vars, binding, bridgeVars, OwnTypeOK, BridgeTypeOK
  <2>2. Cancels'
    BY <1>2, CancelsUntouched DEF vars, binding
  <2> QED
    BY <1>1, <2>1, <2>2
<1>3. ASSUME NEW r \in Requests, Preflight(r) PROVE AdapterInv'
  <2>1. OwnTypeOK'
    BY <1>3 DEF Preflight, binding, bridgeVars, OwnTypeOK, BridgeTypeOK
  <2>2. Cancels'
    BY <1>3, CancelsUntouched DEF Preflight, binding
  <2> QED
    BY <1>1, <2>1, <2>2
<1>4. CASE Close
  <2>1. task' \in [Turns -> SessionTasks]
    BY <1>4, ToldKept DEF Close, OwnTypeOK
  <2>2. sess' \in [Sessions -> [closed : BOOLEAN, cancelReq : BOOLEAN]]
    BY ZenonT(60), <1>4 DEF Close, CloseSession, OwnTypeOK
  <2>3. OwnTypeOK'
    BY <1>4, <2>1, <2>2 DEF Close, binding, bridgeVars, OwnTypeOK, BridgeTypeOK
  <2>4. Cancels'
    BY <1>4 DEF Close, Cancels
  <2> QED
    BY <1>1, <2>3, <2>4
<1> QED
  BY <1>2, <1>3, <1>4

-----------------------------------------------------------------------------
(* What the CLIs work on *)

(* Sessions stay closed, and stay asked to cancel. *)
SessionsKept ==
  \A s \in Sessions : /\ sess[s].closed => sess'[s].closed
                      /\ sess[s].cancelReq => sess'[s].cancelReq

(* Turn u is worked on by no other CLI than before, whose session has not   *)
(* closed, and is left behind only if it was worked on.                     *)
CliOf(u) ==
  /\ \A s \in Sessions : u \in work'[s] =>
       u \in work[s] /\ sess'[s].closed = sess[s].closed
  /\ u \in stray' => u \in stray \/ WorkedOn(u)

(* The task of turn u after cancel() told the holder of the lock of s. *)
ToldBy(u, s) ==
  /\ task'[u].st = task[u].st /\ task'[u].sess = task[u].sess
  /\ task'[u].told => task[u].told \/ (Holding(u) /\ task[u].sess = s)

(* The same, or a task that is gone. *)
LeftBy(u, s) == ToldBy(u, s) \/ (task'[u].st = "none" /\ ~task'[u].told)

(* cancel() tells the turn that holds the lock of its session. *)
LEMMA ToldOnly ==
  ASSUME NEW s, task \in [Turns -> SessionTasks], NEW u \in Turns
  PROVE  /\ Told(s) \in [Turns -> SessionTasks]
         /\ Told(s)[u].st = task[u].st /\ Told(s)[u].sess = task[u].sess
         /\ Told(s)[u].told =>
              task[u].told \/ (Holding(u) /\ task[u].sess = s)
<1>1. Told(s)[u].told = (task[u].told \/ (Holds(u, s) /\ ~sess[s].closed))
  BY DEF Told, SessionTasks
<1> QED
  BY <1>1, ToldFacts DEF Holds, Holding

(* A task that is released is gone, or told no more than before. *)
LEMMA ReleasedTold ==
  ASSUME NEW k \in SessionTasks
  PROVE  \/ Released(k).st = k.st /\ Released(k).sess = k.sess
            /\ Released(k).told = k.told
         \/ Released(k).st = "none" /\ ~Released(k).told
  BY DEF Released, NoTask, SessionTasks

(* cancel() keeps its sessions, and asks that of its turn to cancel. *)
LEMMA RequestKeeps ==
  ASSUME NEW s \in Sessions, OwnTypeOK, sess' = Requested(s)
  PROVE  /\ SessionsKept
         /\ \A v \in Sessions : sess'[v].closed = sess[v].closed
         /\ sess'[s].closed \/ sess'[s].cancelReq
<1>1. sess \in [Sessions -> SessionStates]
  BY DEF OwnTypeOK, SessionStates
<1>2. \A v \in Sessions : /\ sess'[v].closed = sess[v].closed
                          /\ sess[v].cancelReq => sess'[v].cancelReq
  BY <1>1, RequestedFacts
<1> QED
  BY <1>1, <1>2, RequestedFacts DEF SessionsKept

(* close() keeps the others. *)
LEMMA CloseKeeps ==
  ASSUME NEW s \in Sessions, OwnTypeOK,
         sess' = [sess EXCEPT ![s].closed = TRUE]
  PROVE  SessionsKept /\ sess'[s].closed
         /\ \A v \in Sessions : v # s => sess'[v] = sess[v]
  BY DEF SessionsKept, OwnTypeOK

(* What a CLI works on when a prompt is done or left behind, or a session   *)
(* closes.                                                                  *)
LEMMA CliMoves ==
  ASSUME CliTypeOK,
         \/ UNCHANGED cli
         \/ \E t \in Turns : LeaveBehind(t) \/ (WorkEnds(t) /\ stray' = stray)
         \/ \E s \in Sessions : CloseSession(s)
  PROVE  /\ work' \in [Sessions -> SUBSET Turns] /\ stray' \subseteq Turns
         /\ \A s \in Sessions : work'[s] \subseteq work[s]
         /\ \A u \in stray' : u \in stray \/ WorkedOn(u)
<1>1. ASSUME NEW t \in Turns, WorkEnds(t)
      PROVE  /\ work' \in [Sessions -> SUBSET Turns]
             /\ \A s \in Sessions : work'[s] \subseteq work[s]
  BY <1>1 DEF WorkEnds, CliTypeOK
<1>2. ASSUME NEW t \in Turns, LeaveBehind(t)
      PROVE  stray' \subseteq Turns
             /\ \A u \in stray' : u \in stray \/ WorkedOn(u)
  BY <1>2 DEF LeaveBehind, CliTypeOK
<1>3. ASSUME NEW s \in Sessions, CloseSession(s)
      PROVE  /\ work' \in [Sessions -> SUBSET Turns]
             /\ \A v \in Sessions : work'[v] \subseteq work[v]
             /\ stray' \subseteq Turns
             /\ \A u \in stray' : u \in stray \/ WorkedOn(u)
  BY <1>3 DEF CloseSession, CliTypeOK, WorkedOn
<1> QED
  BY <1>1, <1>2, <1>3 DEF LeaveBehind, CliTypeOK, cli

(* A turn that does not take part in a step. *)
LEMMA OthersWork ==
  ASSUME Work, NEW u \in Turns, SessionsKept, CliOf(u),
         correlation' = correlation, current' = current,
         gen'[u] = gen[u], current \in Sessions \cup {0},
         Active(u) => task[u].sess \in Sessions,
         Live(u) => current \in Sessions,
         task'[u] = task[u] \/ (~Live(u) /\ ToldBy(u, current))
  PROVE  WorkOf(u)'
<1>1. WorkOf(u)
  BY DEF Work
<1>2. /\ task'[u].st = task[u].st /\ task'[u].sess = task[u].sess
      /\ task'[u].told => Holding(u)
      /\ task'[u].told /\ Live(u) => task[u].told
  BY <1>1 DEF ToldBy, WorkOf
<1>3. /\ (Live(u)' <=> Live(u)) /\ (Active(u)' <=> Active(u))
      /\ (Holding(u)' <=> Holding(u))
      /\ (Cancelling(u)' <=> Cancelling(u))
  BY <1>2 DEF Live, Active, Holding, Cancelling
<1>4. Holding(u) => Active(u)
  BY DEF Holding, Active
<1>5. Cancelling(u) => Live(u)
  BY DEF Cancelling, Live
<1>6. ASSUME NEW s \in Sessions, u \in work'[s]
      PROVE  /\ Live(u)' /\ correlation' = u /\ current' = s
             /\ ~sess'[s].closed /\ (Holding(u)' \/ Cancelling(u)')
  BY <1>1, <1>3, <1>6 DEF CliOf, WorkOf
<1>7. task'[u].told =>
        /\ Holding(u)'
        /\ Live(u)' => Cancelling(u)' \/ sess'[task'[u].sess].closed
  BY <1>1, <1>2, <1>3, <1>4 DEF WorkOf, SessionsKept
<1>8. Cancelling(u)' => sess'[current'].closed \/ sess'[current'].cancelReq
  BY <1>1, <1>3, <1>5 DEF WorkOf, SessionsKept
<1>9. gen'[u].left = "cut" /\ Active(u)' =>
        sess'[task'[u].sess].closed \/ sess'[task'[u].sess].cancelReq
  BY <1>1, <1>2, <1>3 DEF WorkOf, SessionsKept
<1>10. u \in stray' => gen'[u].pc # "unstarted"
  BY <1>1 DEF WorkOf, CliOf, WorkedOn, Live
<1> QED
  BY <1>6, <1>7, <1>8, <1>9, <1>10 DEF WorkOf

(* The live turn, with its session and what is known of its task.           *)
LEMMA LiveTurn ==
  ASSUME AdapterInv, NEW t \in Turns, Live(t)
  PROVE  /\ \A u \in Turns : u # t => ~Live(u) /\ ~Cancelling(u)
         /\ current \in Sessions
         /\ Active(t) => task[t].sess = current
         /\ \A u \in Turns : Active(u) => task[u].sess \in Sessions
         /\ gen[t].left = "none" /\ gen[t].pc # "unstarted"
<1>1. OwnTypeOK /\ Structure
  BY DEF AdapterInv
<1> QED
  BY <1>1, OneLive DEF Structure, Bound, Binding, Terminals, Live

(* What a step of the generator of turn t does to the others. *)
LEMMA GeneratorWork ==
  ASSUME AdapterInv, CliTypeOK, Work, NEW t \in Turns, Live(t),
         \A u \in Turns : u # t => gen'[u] = gen[u],
         GeneratorStep \/ UNCHANGED <<correlation, current>>, SessionsKept,
         \A u \in Turns : u # t => CliOf(u),
         \A u \in Turns : u # t =>
           task'[u] = task[u] \/ ToldBy(u, current),
         WorkOf(t)'
  PROVE  Work'
<1>1. correlation' = correlation /\ current' = current
  BY DEF GeneratorStep, binding, bridgeVars
<1>2. \A u \in Turns : u # t => WorkOf(u)'
  BY <1>1, LiveTurn, OthersWork
<1> QED
  BY <1>2 DEF Work

(* A generator that begins session.cancel() waits for it, and so does what  *)
(* its CLI works on.                                                        *)
LEMMA WorkCancels ==
  ASSUME AdapterInv, CliTypeOK, Work, NEW t \in Turns, Live(t),
         \A u \in Turns : u # t => gen'[u] = gen[u],
         Cancelling(t)', gen'[t].left = gen[t].left,
         GeneratorStep, UNCHANGED cli, sess' = Requested(current),
         \A u \in Turns : u # t => ToldBy(u, current), LeftBy(t, current)
  PROVE  Work'
<1>1. /\ current \in Sessions /\ current' = current
      /\ correlation' = correlation /\ WorkOf(t) /\ OwnTypeOK
  BY LiveTurn DEF GeneratorStep, binding, bridgeVars, Work, AdapterInv
<1>2. /\ SessionsKept
      /\ \A v \in Sessions : sess'[v].closed = sess[v].closed
      /\ sess'[current].closed \/ sess'[current].cancelReq
  BY <1>1, RequestKeeps
<1>3. \A u \in Turns : CliOf(u)
  BY <1>2 DEF CliOf, cli
<1>4. /\ Live(t)' /\ gen'[t].pc # "unstarted" /\ gen'[t].left # "cut"
  BY LiveTurn DEF Live, Cancelling
<1>5. task'[t].told => Holding(t)'
  BY <1>1 DEF LeftBy, ToldBy, WorkOf, Holding
<1>6. WorkOf(t)'
  BY <1>1, <1>2, <1>3, <1>4, <1>5 DEF WorkOf, CliOf
<1> QED
  BY <1>2, <1>3, <1>6, GeneratorWork

(* A generator that goes on or returns, outside session.cancel(). *)
LEMMA WorkQuiet ==
  ASSUME AdapterInv, CliTypeOK, Work, NEW t \in Turns, Live(t),
         \A u \in Turns : u # t => gen'[u] = gen[u],
         \A u \in Turns : u # t => task'[u] = task[u],
         GeneratorStep, UNCHANGED cli, sess' = sess,
         ~Cancelling(t), ~Cancelling(t)', gen'[t].left # "cut",
         gen'[t].pc # "unstarted",
         \/ /\ task'[t].st = task[t].st /\ task'[t].sess = task[t].sess
            /\ task'[t].told = task[t].told
         \/ task'[t].st = "none" /\ ~task'[t].told,
         task[t].st = "done" \/ (Live(t)' /\ task'[t].st = task[t].st)
  PROVE  Work'
<1>1. /\ current \in Sessions /\ current' = current
      /\ correlation' = correlation /\ WorkOf(t)
  BY LiveTurn DEF GeneratorStep, binding, bridgeVars, Work
<1>2. SessionsKept /\ \A u \in Turns : CliOf(u)
  BY DEF SessionsKept, CliOf, cli
<1>3. ASSUME NEW s \in Sessions, t \in work'[s]
      PROVE  /\ Live(t)' /\ correlation' = t /\ current' = s
             /\ ~sess'[s].closed /\ Holding(t)'
  <2>1. Holding(t) /\ correlation = t /\ current = s /\ ~sess[s].closed
    BY <1>1, <1>3 DEF WorkOf, cli
  <2> QED
    BY <1>1, <2>1 DEF Holding
<1>4. task'[t].told => /\ Holding(t)'
                       /\ sess'[task'[t].sess].closed
  BY <1>1 DEF WorkOf, Holding
<1>5. WorkOf(t)'
  BY <1>3, <1>4 DEF WorkOf
<1> QED
  BY <1>2, <1>5, GeneratorWork

(* A generator that the host drops, or whose cancel() is cut short. *)
LEMMA WorkDropped ==
  ASSUME AdapterInv, CliTypeOK, Work, NEW t \in Turns, Live(t),
         \A u \in Turns : u # t => gen'[u] = gen[u],
         \A u \in Turns : u # t => task'[u] = task[u],
         gen'[t].pc = "ended", GeneratorStep, LeaveBehind(t),
         \/ sess' = sess
         \/ sess' = [sess EXCEPT ![current].closed = TRUE] /\ Cancelling(t),
         gen'[t].left = "cut" => Cancelling(t),
         \/ /\ task'[t].st = task[t].st /\ task'[t].sess = task[t].sess
            /\ task'[t].told = task[t].told
         \/ task'[t].st = "none" /\ ~task'[t].told
  PROVE  Work'
<1>1. /\ current \in Sessions /\ current' = current /\ OwnTypeOK
      /\ correlation' = correlation /\ WorkOf(t)
      /\ Active(t) => task[t].sess = current
  BY LiveTurn DEF GeneratorStep, binding, bridgeVars, Work, AdapterInv
<1>2. SessionsKept
  BY <1>1, CloseKeeps DEF SessionsKept
<1>3. \A s \in Sessions : work'[s] = work[s] \ {t}
  BY DEF LeaveBehind, WorkEnds
<1>4. \A u \in Turns : u # t => \A s \in Sessions : u \notin work[s]
  BY LiveTurn DEF Work, WorkOf
<1>5. \A u \in Turns : u \in stray' => u \in stray \/ WorkedOn(u)
  BY DEF LeaveBehind
<1>6. \A u \in Turns : u # t => CliOf(u)
  BY <1>3, <1>4, <1>5 DEF CliOf
<1>7. task'[t].told => Holding(t)'
  BY <1>1 DEF WorkOf, Holding
<1>8. gen'[t].left = "cut" /\ Active(t)' =>
        sess'[task'[t].sess].closed \/ sess'[task'[t].sess].cancelReq
  BY <1>1, <1>2 DEF WorkOf, Active, SessionsKept
<1>9. ~Live(t)' /\ ~Cancelling(t)'
  BY DEF Live, Cancelling
<1>10. WorkOf(t)'
  BY <1>3, <1>7, <1>8, <1>9 DEF WorkOf
<1> QED
  BY <1>2, <1>6, <1>10, GeneratorWork

(* session.cancel() returns: its session is closed, with whatever its CLI   *)
(* was working on.                                                          *)
LEMMA WorkClosed ==
  ASSUME AdapterInv, CliTypeOK, Work, NEW t \in Turns, Cancelling(t),
         \A u \in Turns : u # t => gen'[u] = gen[u],
         GeneratorStep, CloseSession(current),
         gen'[t].pc \in {"loop", "nativeTask", "ended"},
         gen'[t].left # "cut",
         \A u \in Turns : u # t => ToldBy(u, current), LeftBy(t, current)
  PROVE  Work'
<1>1. Live(t)
  BY DEF Cancelling, Live
<1>2. /\ current \in Sessions /\ current' = current /\ OwnTypeOK
      /\ correlation' = correlation /\ WorkOf(t)
      /\ Active(t) => task[t].sess = current
  BY <1>1, LiveTurn DEF GeneratorStep, binding, bridgeVars, Work, AdapterInv
<1>3. /\ SessionsKept /\ sess'[current].closed
      /\ \A v \in Sessions : v # current => sess'[v] = sess[v]
  BY <1>2, CloseKeeps DEF CloseSession
<1>4. /\ work'[current] = {}
      /\ \A s \in Sessions : s # current => work'[s] = work[s]
  BY <1>2 DEF CloseSession, CliTypeOK
<1>5. \A u \in Turns : u \in stray' => u \in stray \/ WorkedOn(u)
  BY <1>2 DEF CloseSession, WorkedOn
<1>6. \A u \in Turns : CliOf(u)
  BY <1>3, <1>4, <1>5 DEF CliOf
<1>7. \A s \in Sessions : t \notin work'[s]
  BY <1>2, <1>4 DEF WorkOf
<1>8. task'[t].told => Holding(t)' /\ sess'[task'[t].sess].closed
  BY <1>2, <1>3 DEF LeftBy, ToldBy, WorkOf, Holding, Active
<1>9. ~Cancelling(t)' /\ gen'[t].pc # "unstarted"
  BY DEF Cancelling
<1>10. WorkOf(t)'
  BY <1>7, <1>8, <1>9 DEF WorkOf
<1> QED
  BY <1>1, <1>3, <1>6, <1>10, GeneratorWork

(* cancel() and a change of one task: the tasks of the others are told at   *)
(* most, and that of turn t is what the change makes of it.                 *)
LEMMA ToldExcept ==
  ASSUME task \in [Turns -> SessionTasks], NEW s, NEW t \in Turns, NEW k,
         task' = [Told(s) EXCEPT ![t] = k]
  PROVE  /\ \A u \in Turns : u # t => ToldBy(u, s)
         /\ task'[t] = k
<1>1. Told(s) \in [Turns -> SessionTasks]
  BY ToldFacts
<1>2. /\ task'[t] = k
      /\ \A u \in Turns : u # t => task'[u] = Told(s)[u]
  BY <1>1
<1> QED
  BY <1>2, ToldOnly DEF ToldBy

(* The generator's own steps. *)
LEMMA WorkGenerator ==
  ASSUME AdapterInv, CliTypeOK, Work, NEW t \in Turns,
         \/ Drive(t) \/ Abandon(t) \/ CancelTask(t)
         \/ \E poll \in Polls : Poll(t, poll)
  PROVE  Work'
<1>1. /\ gen \in [Turns -> Generators] /\ task \in [Turns -> SessionTasks]
      /\ task[t] \in SessionTasks /\ gen[t] \in Generators
  BY DEF AdapterInv, OwnTypeOK
<1>2. ASSUME NEW poll \in Polls, Poll(t, poll) PROVE Work'
  <2> DEFINE a == IF poll = "yes" THEN "sent" ELSE "unavailable"
  <2>1. gen' = [gen EXCEPT ![t].pc = "cancelling", ![t].cancel = a]
    BY <1>2 DEF Poll
  <2> HIDE DEF a
  <2>2. /\ \A u \in Turns : u # t => gen'[u] = gen[u]
        /\ gen'[t].pc = "cancelling" /\ gen'[t].left = gen[t].left
    BY <1>1, <2>1 DEF Generators
  <2>3. \A u \in Turns : ToldBy(u, current)
    <3>1. task' = Told(current)
      BY <1>2 DEF Poll
    <3> QED
      BY <1>1, <3>1, ToldOnly DEF ToldBy
  <2>4. Live(t) /\ GeneratorStep /\ UNCHANGED cli /\ sess' = Requested(current)
    BY <1>2 DEF Poll, Live
  <2> QED
    BY <2>2, <2>3, <2>4, WorkCancels DEF Cancelling, LeftBy
<1>3. CASE TakeUnlisted(t)
  <2> DEFINE ph == Phase(t)
             q == Tail(Told(current)[t].queue)
             k == [Told(current)[t] EXCEPT !.queue = q]
  <2>0. ph \in Phases
    BY PhaseFacts
  <2>1. /\ gen' = [gen EXCEPT ![t] = Waits(gen[t], "native", ph)]
        /\ task' = [Told(current) EXCEPT ![t] = k]
    BY <1>3 DEF TakeUnlisted
  <2> HIDE DEF ph, q
  <2>2. /\ \A u \in Turns : u # t => gen'[u] = gen[u]
        /\ gen'[t].pc = "native" /\ gen'[t].left = gen[t].left
    <3>1. "native" \in PointsInTurn
      BY DEF PointsInTurn
    <3> QED
      BY <1>1, <2>1, <2>0, <3>1, WaitsFacts
  <2>3. Told(current)[t] \in SessionTasks
    BY <1>1, ToldFacts
  <2>4. /\ k.st = Told(current)[t].st /\ k.sess = Told(current)[t].sess
        /\ k.told = Told(current)[t].told
    BY <2>3 DEF SessionTasks
  <2> HIDE DEF k
  <2>5. \A u \in Turns : ToldBy(u, current)
    BY <1>1, <2>1, <2>4, ToldExcept, ToldOnly DEF ToldBy
  <2>6. Live(t) /\ GeneratorStep /\ UNCHANGED cli /\ sess' = Requested(current)
    BY <1>3 DEF TakeUnlisted, Live
  <2> QED
    BY <2>2, <2>5, <2>6, WorkCancels DEF Cancelling, LeftBy
<1>4. CASE TaskFailed(t)
  <2>1. gen' = [gen EXCEPT ![t].pc = "failing"]
    BY <1>4 DEF TaskFailed
  <2>2. /\ \A u \in Turns : u # t => gen'[u] = gen[u]
        /\ gen'[t].pc = "failing" /\ gen'[t].left = gen[t].left
    BY <1>1, <2>1 DEF Generators
  <2>3. \A u \in Turns : ToldBy(u, current)
    BY <1>1, <1>4, ToldOnly DEF TaskFailed, ToldBy
  <2>4. Live(t) /\ GeneratorStep /\ UNCHANGED cli /\ sess' = Requested(current)
    BY <1>4 DEF TaskFailed, Live
  <2> QED
    BY <2>2, <2>3, <2>4, WorkCancels DEF Cancelling, LeftBy
<1>5. CASE Take(t) \/ Resume(t)
  <2>1. /\ Live(t) /\ GeneratorStep /\ UNCHANGED cli /\ sess' = sess
        /\ ~Cancelling(t)
    BY <1>5 DEF Take, Resume, Live, Cancelling
  <2>2. /\ \A u \in Turns : u # t => gen'[u] = gen[u]
        /\ gen'[t].pc \in {"loop", "yielded"} /\ gen'[t].left = gen[t].left
    BY <1>1, <1>5 DEF Take, Resume, Generators
  <2>3. /\ \A u \in Turns : u # t => task'[u] = task[u]
        /\ task'[t].st = task[t].st /\ task'[t].sess = task[t].sess
        /\ task'[t].told = task[t].told
    <3>1. CASE Resume(t)
      BY <3>1 DEF Resume
    <3>2. CASE Take(t)
      <4>1. task' = [task EXCEPT ![t].queue = Tail(@)]
        BY <3>2 DEF Take
      <4> QED
        BY <1>1, <4>1 DEF SessionTasks
    <3> QED
      BY <1>5, <3>1, <3>2
  <2> QED
    BY <2>1, <2>2, <2>3, WorkQuiet, LiveTurn DEF Cancelling, Live
<1>6. ASSUME task' = [task EXCEPT ![t] = Released(@)]
      PROVE  /\ \A u \in Turns : u # t => task'[u] = task[u]
             /\ \/ /\ task'[t].st = task[t].st /\ task'[t].sess = task[t].sess
                   /\ task'[t].told = task[t].told
                \/ task'[t].st = "none" /\ ~task'[t].told
  BY <1>1, <1>6, ReleasedTold
<1>7. CASE Report(t) \/ NativeReturns(t)
  <2>1. /\ Live(t) /\ GeneratorStep /\ UNCHANGED cli /\ sess' = sess
        /\ ~Cancelling(t) /\ task[t].st = "done"
        /\ task' = [task EXCEPT ![t] = Released(@)]
    BY <1>7 DEF Report, NativeReturns, Finished, Live, Cancelling
  <2>2. gen[t].phase \in Phases /\ Phase(t) \in Phases
    BY <1>1, PhaseFacts DEF Generators
  <2>3. PICK out \in TerminalEvents, phase \in Phases :
          gen' = [gen EXCEPT ![t] = Ended(@, out, phase)]
    <3>1. CASE NativeReturns(t)
      BY <2>2, <3>1 DEF NativeReturns, TerminalEvents
    <3>2. CASE Report(t)
      BY <2>2, <3>2 DEF Report, TerminalEvents
    <3> QED
      BY <1>7, <3>1, <3>2
  <2>4. /\ \A u \in Turns : u # t => gen'[u] = gen[u]
        /\ gen'[t].pc = "ended" /\ gen'[t].left = "returned"
    BY <1>1, <2>3, EndedFacts
  <2> QED
    BY <1>6, <2>1, <2>4, WorkQuiet DEF Cancelling
<1>8. CASE Abandon(t)
  <2>1. /\ Live(t) /\ GeneratorStep /\ LeaveBehind(t) /\ sess' = sess
        /\ task' = [task EXCEPT ![t] = Released(@)]
        /\ gen' = [gen EXCEPT ![t] = Left(@, "abandoned")]
    BY <1>8 DEF Abandon, Live
  <2>2. /\ \A u \in Turns : u # t => gen'[u] = gen[u]
        /\ gen'[t].pc = "ended" /\ gen'[t].left = "abandoned"
    BY <1>1, <2>1, LeftFacts
  <2> QED
    BY <1>6, <2>1, <2>2, WorkDropped
<1>9. CASE CancelTask(t) /\ gen[t].pc \in {"failing", "dying"}
  <2>1. /\ Live(t) /\ Cancelling(t) /\ GeneratorStep /\ LeaveBehind(t)
        /\ \/ sess' = sess
           \/ sess' = [sess EXCEPT ![current].closed = TRUE]
        /\ task' = [task EXCEPT ![t] = Released(@)]
        /\ gen' = [gen EXCEPT ![t] = Left(@, "cut")]
    BY <1>9 DEF CancelTask, Live, Cancelling
  <2>2. /\ \A u \in Turns : u # t => gen'[u] = gen[u]
        /\ gen'[t].pc = "ended" /\ gen'[t].left = "cut"
    BY <1>1, <2>1, LeftFacts
  <2> QED
    BY <1>6, <2>1, <2>2, WorkDropped
<1>10. CASE CancelTask(t) /\ gen[t].pc \notin {"failing", "dying"}
  <2>1. /\ Live(t) /\ GeneratorStep /\ UNCHANGED cli
        /\ sess' = Requested(current)
        /\ gen' = [gen EXCEPT ![t] = Waits(gen[t], "dying", "before")]
        /\ \/ task' = [Told(current) EXCEPT ![t] = NoTask]
           \/ task' = Told(current)
    BY <1>10 DEF CancelTask, Live
  <2>2. /\ \A u \in Turns : u # t => gen'[u] = gen[u]
        /\ gen'[t].pc = "dying" /\ gen'[t].left = gen[t].left
    BY <1>1, <2>1, WaitsFacts DEF PointsInTurn, Phases
  <2>3. (\A u \in Turns : u # t => ToldBy(u, current)) /\ LeftBy(t, current)
    <3>1. CASE task' = Told(current)
      BY <1>1, <3>1, ToldOnly DEF ToldBy, LeftBy
    <3>2. CASE task' = [Told(current) EXCEPT ![t] = NoTask]
      <4>1. /\ \A u \in Turns : u # t => ToldBy(u, current)
            /\ task'[t] = NoTask
        BY <1>1, <3>2, ToldExcept
      <4> QED
        BY <4>1 DEF LeftBy, NoTask
    <3> QED
      BY <2>1, <3>1, <3>2
  <2> QED
    BY <2>1, <2>2, <2>3, WorkCancels DEF Cancelling
<1>11. CASE CancelReturns(t)
  <2>1. /\ Cancelling(t) /\ GeneratorStep /\ CloseSession(current)
        /\ gen' = [gen EXCEPT ![t] = AfterCancel(t)]
    BY <1>11 DEF CancelReturns
  <2>2. /\ \A u \in Turns : u # t => gen'[u] = gen[u]
        /\ gen'[t].pc \in {"loop", "nativeTask", "ended"}
        /\ gen'[t].left # "cut"
    <3>1. /\ \A u \in Turns : u # t => gen'[u] = gen[u]
          /\ gen'[t] = AfterCancel(t)
      BY <1>1, <2>1
    <3>2. gen[t].left = "none"
      BY <2>1, LiveTurn DEF Cancelling, Live
    <3>3. CASE gen[t].pc = "cancelling" \/ gen[t].pc = "native"
      BY <1>1, <3>1, <3>2, <3>3 DEF AfterCancel, Generators
    <3>4. CASE gen[t].pc = "failing"
      <4>1. gen'[t] = Ended(gen[t], "failed", Phase(t))
        BY <3>1, <3>4 DEF AfterCancel
      <4>2. Phase(t) \in Phases /\ "failed" \in TerminalEvents
        BY PhaseFacts DEF TerminalEvents
      <4>3. gen'[t].pc = "ended" /\ gen'[t].left = "returned"
        BY <1>1, <4>1, <4>2, EndedFacts
      <4> QED
        BY <3>1, <4>3
    <3>5. CASE gen[t].pc = "dying"
      BY <1>1, <3>1, <3>5, LeftFacts DEF AfterCancel
    <3> QED
      BY <2>1, <3>1, <3>3, <3>4, <3>5 DEF Cancelling
  <2>3. (\A u \in Turns : u # t => ToldBy(u, current)) /\ LeftBy(t, current)
    <3>1. CASE task' = Told(current)
      BY <1>1, <3>1, ToldOnly DEF ToldBy, LeftBy
    <3>2. CASE task' = [Told(current) EXCEPT ![t] = Released(@)]
      <4> DEFINE k == Told(current)[t]
      <4>1. /\ k \in SessionTasks /\ k.st = task[t].st
            /\ k.sess = task[t].sess
            /\ k.told => task[t].told
                 \/ (Holding(t) /\ task[t].sess = current)
        BY <1>1, ToldOnly
      <4>2. task' = [Told(current) EXCEPT ![t] = Released(k)]
        BY <3>2
      <4> HIDE DEF k
      <4>3. /\ \A u \in Turns : u # t => ToldBy(u, current)
            /\ task'[t] = Released(k)
        BY <1>1, <4>2, ToldExcept
      <4> QED
        BY <4>1, <4>3, ReleasedTold DEF LeftBy, ToldBy
    <3> QED
      BY <1>11, <3>1, <3>2 DEF CancelReturns
  <2> QED
    BY <2>1, <2>2, <2>3, WorkClosed
<1> QED
  BY <1>2, <1>3, <1>4, <1>5, <1>7, <1>8, <1>9, <1>10, <1>11 DEF Drive

(* What a step of the session task of turn t does to the others. *)
LEMMA TaskWork ==
  ASSUME AdapterInv, Work, NEW t \in Turns, SessionStep,
         UNCHANGED bridgeVars, SessionsKept,
         \A u \in Turns : u # t => task'[u] = task[u] /\ CliOf(u),
         WorkOf(t)'
  PROVE  Work'
<1>1. /\ correlation' = correlation /\ current' = current /\ gen' = gen
  BY DEF SessionStep, binding, bridgeVars
<1>2. /\ current \in Sessions \cup {0}
      /\ \A u \in Turns : /\ Active(u) => task[u].sess \in Sessions
                          /\ Live(u) => current \in Sessions
  BY DEF AdapterInv, OwnTypeOK, Structure, Binding, Ordering
<1>3. \A u \in Turns : u # t => WorkOf(u)'
  BY <1>1, <1>2, OthersWork
<1> QED
  BY <1>3 DEF Work

(* A session task that returns has answered, or what its CLI works on ends, *)
(* is left behind, or waits for the close() that told the turn.             *)
LEMMA WorkTaskOver ==
  ASSUME AdapterInv, CliTypeOK, Work, NEW t \in Turns,
         \/ TaskRefused(t) \/ TaskReturns(t) \/ TaskRaises(t)
         \/ TaskRetired(t)
  PROVE  Work'
<1>1. /\ SessionStep /\ UNCHANGED bridgeVars /\ WorkOf(t) /\ OwnTypeOK
      /\ Holding(t) \/ (HasLock(t) /\ task[t].st = "waiting")
  BY DEF TaskRefused, TaskReturns, TaskRaises, TaskRetired, Holding, HasLock,
     Work, AdapterInv
<1>2. /\ task[t].st # "done" /\ Active(t)
      /\ Live(t) => task[t].sess = current
      /\ task[t].sess \in Sessions /\ gen' = gen /\ current' = current
      /\ correlation' = correlation
  BY <1>1
  DEF Holding, Active, AdapterInv, Structure, Bound, Binding, SessionStep,
     binding, bridgeVars
<1>3. PICK result \in Results : Returns(t, result)
  BY <1>1, <1>2
  DEF TaskRefused, TaskReturns, TaskRaises, TaskRetired, Outcomes, Results,
     OwnTypeOK, SessionTasks
<1>4. /\ \A u \in Turns : u # t => task'[u] = task[u]
      /\ ~task'[t].told /\ ~Active(t)'
  BY <1>1, <1>3 DEF Returns, Done, NoTask, Active, OwnTypeOK
<1>5. /\ SessionsKept
      /\ \/ sess' = sess
         \/ /\ sess'[task[t].sess].closed /\ work'[task[t].sess] = {}
            /\ \A s \in Sessions : s # task[t].sess => sess'[s] = sess[s]
  <2>1. CASE sess' = sess
    BY <2>1 DEF SessionsKept
  <2>2. CASE CloseSession(task[t].sess)
    BY <1>1, <1>2, <2>2, CloseKeeps DEF CloseSession, CliTypeOK
  <2> QED
    BY <2>1, <2>2
    DEF TaskRefused, TaskReturns, TaskRaises, TaskRetired
<1>6. /\ \A s \in Sessions : work'[s] \subseteq work[s]
      /\ \A u \in stray' : u \in stray \/ WorkedOn(u)
  <2>1. \/ UNCHANGED cli
        \/ LeaveBehind(t) \/ (WorkEnds(t) /\ stray' = stray)
        \/ CloseSession(task[t].sess)
    BY DEF TaskRefused, TaskReturns, TaskRaises, TaskRetired, CliAfter
  <2> QED
    BY <1>2, <2>1, CliMoves
<1>7. \A u \in Turns : CliOf(u)
  BY <1>5, <1>6 DEF CliOf
<1>8. ASSUME NEW s \in Sessions, t \in work'[s]
      PROVE  /\ Live(t)' /\ correlation' = t /\ current' = s
             /\ ~sess'[s].closed /\ Cancelling(t)'
  <2>1. /\ Live(t) /\ correlation = t /\ current = s /\ ~sess[s].closed
        /\ Holding(t) \/ Cancelling(t)
    BY <1>1, <1>6, <1>8 DEF WorkOf
  <2>2. sess' = sess
    BY <1>2, <1>5, <1>8, <2>1
  <2>3. ~WorkEnds(t) /\ ~LeaveBehind(t)
    BY <1>8 DEF WorkEnds, LeaveBehind
  <2>4. Cancelling(t)
    <3>1. CASE TaskRefused(t)
      BY <2>1, <3>1 DEF TaskRefused, HasLock, Holding
    <3>2. CASE TaskReturns(t)
      <4>1. task[t].st = "running" /\ task[t].told
        BY <2>3, <3>2 DEF TaskReturns, CliAfter, Outcomes
      <4> QED
        BY <1>1, <1>2, <2>1, <4>1 DEF WorkOf
    <3>3. CASE TaskRetired(t)
      BY <1>2, <1>8, <2>1, <3>3 DEF TaskRetired, CloseSession, CliTypeOK
    <3> QED
      BY <2>3, <3>1, <3>2, <3>3 DEF TaskRaises
  <2> QED
    BY <1>2, <2>1, <2>2, <2>4 DEF Live, Cancelling
<1>9. Cancelling(t)' => sess'[current'].closed \/ sess'[current'].cancelReq
  <2>1. Cancelling(t)' => Cancelling(t) /\ Live(t)
    BY <1>2 DEF Cancelling, Live
  <2> QED
    BY <1>1, <1>2, <1>5, <2>1, LiveTurn DEF WorkOf, SessionsKept
<1>10. t \in stray' => gen'[t].pc # "unstarted"
  BY <1>1, <1>2, <1>6 DEF WorkOf, WorkedOn, Live
<1>11. WorkOf(t)'
  BY <1>4, <1>8, <1>9, <1>10 DEF WorkOf
<1> QED
  BY <1>1, <1>4, <1>5, <1>7, <1>11, TaskWork

(* A session task that goes on works on the same prompt. *)
LEMMA WorkTaskGoesOn ==
  ASSUME AdapterInv, CliTypeOK, Work, NEW t \in Turns,
         TaskRetires(t) \/ \E k \in Kinds : Project(t, k)
  PROVE  Work'
<1>1. /\ SessionStep /\ UNCHANGED bridgeVars /\ sess' = sess
      /\ UNCHANGED cli /\ Holding(t) /\ WorkOf(t)
      /\ task \in [Turns -> SessionTasks] /\ task[t] \in SessionTasks
      /\ task[t].st \in {"running", "answered"}
  BY DEF TaskRetires, Project, Holding, Work, AdapterInv, OwnTypeOK
<1>2. /\ \A u \in Turns : u # t => task'[u] = task[u]
      /\ Holding(t)' /\ task'[t].sess = task[t].sess
      /\ task'[t].told = task[t].told
  <2>1. CASE TaskRetires(t)
    BY <1>1, <2>1 DEF TaskRetires, SessionTasks, Holding
  <2>2. ASSUME NEW k \in Kinds, Project(t, k)
        PROVE  /\ \A u \in Turns : u # t => task'[u] = task[u]
               /\ Holding(t)' /\ task'[t].sess = task[t].sess
               /\ task'[t].told = task[t].told
    <3> DEFINE n == task[t].sent + 1
               q == Append(task[t].queue, k)
               s == IF k = "result" THEN "answered" ELSE task[t].st
    <3>1. task' = [task EXCEPT ![t].sent = n, ![t].queue = q, ![t].st = s]
      BY <2>2 DEF Project
    <3>2. s \in {"running", "answered"}
      BY <1>1
    <3> HIDE DEF n, q, s
    <3> QED
      BY <1>1, <3>1, <3>2 DEF SessionTasks, Holding
  <2> QED
    BY <2>1, <2>2
<1>3. SessionsKept /\ \A u \in Turns : CliOf(u)
  BY <1>1 DEF SessionsKept, CliOf, cli
<1>4. /\ correlation' = correlation /\ current' = current /\ gen' = gen
  BY <1>1 DEF SessionStep, binding, bridgeVars
<1>5. WorkOf(t)'
  BY <1>1, <1>2, <1>4
  DEF WorkOf, cli, Live, Active, Holding, Cancelling
<1> QED
  BY <1>1, <1>2, <1>3, <1>5, TaskWork

(* A prompt is sent only for the live turn: a task whose generator was left *)
(* before finds its session closed, or asked to cancel.                     *)
LEMMA WorkStarts ==
  ASSUME AdapterInv, CliTypeOK, Work, NEW t \in Turns, TaskStarts(t)
  PROVE  Work'
<1>1. /\ SessionStep /\ UNCHANGED bridgeVars /\ sess' = sess
      /\ task[t].st = "waiting" /\ Active(t) /\ WorkOf(t) /\ Structure
      /\ ~sess[task[t].sess].closed /\ ~sess[task[t].sess].cancelReq
      /\ task' = [task EXCEPT ![t].st = "running"]
      /\ work' = [work EXCEPT ![task[t].sess] = @ \cup {t}]
      /\ stray' = stray
      /\ task \in [Turns -> SessionTasks] /\ gen \in [Turns -> Generators]
  BY DEF TaskStarts, HasLock, Active, Work, AdapterInv, OwnTypeOK
<1>2. /\ correlation' = correlation /\ current' = current /\ gen' = gen
  BY <1>1 DEF SessionStep, binding, bridgeVars
<1>3. Live(t)
  <2>1. gen[t].pc # "unstarted"
    BY <1>1 DEF Structure, Ordering
  <2>2. gen[t].left \notin {"returned", "abandoned", "killed", "cut"}
    BY <1>1 DEF Structure, Terminals, Locking, Bound, WorkOf
  <2>3. gen[t].left = "none"
    BY <1>1, <2>2 DEF Generators
  <2> QED
    BY <1>1, <2>1, <2>3 DEF Structure, Terminals, Live
<1>4. task[t].sess = current /\ current \in Sessions /\ correlation = t
  BY <1>1, <1>3, LiveTurn DEF Structure, Bound
<1>5. /\ \A u \in Turns : u # t => task'[u] = task[u]
      /\ Holding(t)' /\ task'[t].sess = task[t].sess
      /\ task'[t].told = task[t].told
  BY <1>1 DEF SessionTasks, Holding
<1>6. \A s \in Sessions : /\ s # current => work'[s] = work[s]
                         /\ work'[current] = work[current] \cup {t}
  BY <1>1, <1>4 DEF CliTypeOK
<1>7. SessionsKept /\ \A u \in Turns : u # t => CliOf(u)
  BY <1>1, <1>6 DEF SessionsKept, CliOf
<1>8. ~task'[t].told
  BY <1>1, <1>5 DEF WorkOf, Holding
<1>9. \A s \in Sessions : t \in work'[s] => s = current
  BY <1>1, <1>6 DEF WorkOf
<1>10. WorkOf(t)'
  BY <1>1, <1>2, <1>3, <1>4, <1>5, <1>8, <1>9
  DEF WorkOf, Live, Active, Cancelling
<1> QED
  BY <1>1, <1>5, <1>7, <1>10, TaskWork

(* Nothing is worked on, told or awaited between turns. *)
LEMMA IdleBetweenTurns ==
  ASSUME AdapterInv, Work, NEW t \in Turns, IsNext(t)
  PROVE  /\ \A u \in Turns : /\ ~Live(u) /\ ~Cancelling(u)
                            /\ \A s \in Sessions : u \notin work[s]
         /\ task[t].st = "none" /\ ~task[t].told /\ t \notin stray
         /\ gen[t].left = "none" /\ gen[t].pc = "unstarted"
<1>1. OwnTypeOK /\ Structure
  BY DEF AdapterInv
<1>2. /\ \A u \in Turns : ~Live(u)
      /\ task[t].st = "none" /\ gen[t].left = "none"
      /\ gen[t].pc = "unstarted"
  BY <1>1, NextTurn DEF Live
<1>3. ~Holding(t) /\ \A u \in Turns : ~Cancelling(u)
  BY <1>2 DEF Holding, Cancelling, Live
<1> QED
  BY <1>2, <1>3 DEF Work, WorkOf

(* What the beginning of turn t does to the others: at most one that holds  *)
(* the lock of the session is told.                                         *)
LEMMA StartWork ==
  ASSUME AdapterInv, CliTypeOK, Work, NEW t \in Turns, IsNext(t), NEW c,
         UNCHANGED cli, SessionsKept,
         \A u \in Turns : u # t => gen'[u] = gen[u] /\ ToldBy(u, c),
         gen'[t].left # "cut", gen'[t].pc # "unstarted",
         ~task'[t].told,
         Cancelling(t)' => sess'[current'].closed \/ sess'[current'].cancelReq
  PROVE  Work'
<1>1. /\ \A u \in Turns : /\ ~Live(u) /\ ~Cancelling(u)
                         /\ \A s \in Sessions : u \notin work'[s]
      /\ t \notin stray'
  BY IdleBetweenTurns DEF cli
<1>2. WorkOf(t)'
  BY <1>1 DEF WorkOf
<1>3. ASSUME NEW u \in Turns, u # t PROVE WorkOf(u)'
  <2>1. /\ WorkOf(u) /\ gen'[u] = gen[u] /\ ToldBy(u, c)
        /\ Active(u) => task[u].sess \in Sessions
    BY <1>3 DEF Work, AdapterInv, Structure, Binding
  <2>2. ~Live(u)' /\ ~Cancelling(u)'
    BY <1>1, <2>1 DEF Live, Cancelling
  <2>3. task'[u].told => Holding(u)'
    BY <2>1 DEF WorkOf, ToldBy, Holding
  <2>4. gen'[u].left = "cut" /\ Active(u)' =>
          sess'[task'[u].sess].closed \/ sess'[task'[u].sess].cancelReq
    BY <2>1 DEF WorkOf, ToldBy, Active, SessionsKept
  <2>5. u \in stray' => gen'[u].pc # "unstarted"
    BY <2>1 DEF WorkOf, cli
  <2> QED
    BY <1>1, <2>2, <2>3, <2>4, <2>5 DEF WorkOf
<1> QED
  BY <1>2, <1>3 DEF Work

(* A turn that begins, or is refused. *)
LEMMA WorkBegins ==
  ASSUME AdapterInv, CliTypeOK, Work, NEW t \in Turns,
         RefuseTurn(t) \/ StartTurn(t)
  PROVE  Work'
<1>1. /\ gen \in [Turns -> Generators] /\ task \in [Turns -> SessionTasks]
      /\ IsNext(t) /\ UNCHANGED cli /\ OwnTypeOK /\ Structure
      /\ gen[t] \in Generators
  BY DEF AdapterInv, OwnTypeOK, RefuseTurn, StartTurn
<1>2. /\ task[t].st = "none" /\ ~task[t].told
      /\ gen[t].left = "none" /\ gen[t].pc = "unstarted"
  BY <1>1, IdleBetweenTurns
<1>3. ASSUME NEW out \in TerminalEvents, NEW phase \in Phases,
             gen' = [gen EXCEPT ![t] = Ended(@, out, phase)],
             UNCHANGED <<sess, task>>
      PROVE  Work'
  <2>1. /\ \A u \in Turns : u # t => gen'[u] = gen[u]
        /\ gen'[t].pc = "ended" /\ gen'[t].left = "returned"
    BY <1>1, <1>3, EndedFacts
  <2>2. SessionsKept /\ ~task'[t].told /\ \A u \in Turns : ToldBy(u, 0)
    BY <1>2, <1>3 DEF SessionsKept, ToldBy
  <2> QED
    BY <1>1, <2>1, <2>2, StartWork DEF Cancelling
<1>4. ASSUME NEW r \in Requests, NEW s, NEW ok, Launch(t, r, s, ok),
             sess' = sess
      PROVE  Work'
  <2> DEFINE x == IF token = r THEN fresh = r ELSE ok
             e == executions
  <2>1. /\ gen' = [gen EXCEPT ![t].pc = "loop", ![t].start = e]
        /\ task' = [task EXCEPT ![t].st = "waiting", ![t].req = r,
                                ![t].sess = s, ![t].cleared = x]
    BY <1>4 DEF Launch
  <2> HIDE DEF x, e
  <2>2. /\ \A u \in Turns : u # t => gen'[u] = gen[u]
        /\ gen'[t].pc = "loop" /\ gen'[t].left = gen[t].left
    BY <1>1, <2>1 DEF Generators
  <2>3. /\ \A u \in Turns : u # t => task'[u] = task[u]
        /\ task'[t].told = task[t].told
    BY <1>1, <2>1 DEF SessionTasks
  <2>4. /\ SessionsKept /\ ~task'[t].told
        /\ \A u \in Turns : u # t => ToldBy(u, 0)
    BY <1>2, <1>4, <2>3 DEF SessionsKept, ToldBy
  <2> QED
    BY <1>1, <1>2, <2>2, <2>4, StartWork DEF Cancelling
<1>5. ASSUME NEW r \in Requests, BeginTurnRaises(t, r) PROVE Work'
  <2> DEFINE s == SessionFor
  <2>1. /\ current' = s /\ sess' = Requested(s) /\ task' = Told(s)
        /\ gen' = [gen EXCEPT ![t].pc = "failing"] /\ s \in Sessions
    BY <1>1, <1>5, SessionNumber DEF BeginTurnRaises
  <2> HIDE DEF s
  <2>2. /\ \A u \in Turns : u # t => gen'[u] = gen[u]
        /\ gen'[t].pc = "failing" /\ gen'[t].left = gen[t].left
    BY <1>1, <2>1 DEF Generators
  <2>3. SessionsKept /\ (sess'[s].closed \/ sess'[s].cancelReq)
    BY <1>1, <2>1, RequestKeeps
  <2>4. \A u \in Turns : ToldBy(u, s)
    BY <1>1, <2>1, ToldOnly DEF ToldBy
  <2>5. ~task'[t].told
    BY <1>2, <2>4 DEF ToldBy, Holding
  <2> QED
    BY <1>1, <1>2, <2>1, <2>2, <2>3, <2>4, <2>5, StartWork
<1>6. CASE RefuseTurn(t)
  <2>1. PICK out \in TerminalEvents, phase \in Phases :
          /\ gen' = [gen EXCEPT ![t] = Ended(@, out, phase)]
          /\ UNCHANGED <<sess, task>>
    BY <1>6 DEF RefuseTurn, TerminalEvents, Phases
  <2> QED
    BY <1>3, <2>1
<1>7. CASE StartTurn(t)
  <2>1. PICK r \in Requests, ok \in BOOLEAN :
          \/ OpenSession(t, r, ok) \/ ConfigureFails(t, r)
          \/ ContractChanged(t, r) \/ UseSession(t, r, ok)
          \/ BeginTurnRaises(t, r)
    BY <1>7 DEF StartTurn
  <2>2. CASE ConfigureFails(t, r) \/ ContractChanged(t, r)
    BY <1>3, <2>2
    DEF ConfigureFails, ContractChanged, TerminalEvents, Phases
  <2>3. CASE OpenSession(t, r, ok) \/ UseSession(t, r, ok)
    BY <1>4, <2>3 DEF OpenSession, UseSession
  <2> QED
    BY <1>5, <2>1, <2>2, <2>3
<1> QED
  BY <1>6, <1>7

(* close() of the runtime, and the steps that no CLI takes part in. *)
LEMMA WorkHost ==
  ASSUME AdapterInv, CliTypeOK, Work,
         \/ \E r \in Requests : Preflight(r)
         \/ \E c \in Calls : ToolReturns(c) \/ \E t \in Turns : ToolCall(c, t)
         \/ Close \/ UNCHANGED vars
  PROVE  Work'
<1>1. ASSUME UNCHANGED <<gen, task, sess, work, stray, current, correlation>>
      PROVE  Work'
  BY <1>1 DEF Work, WorkOf, Live, Active, Holding, Cancelling
<1>2. ASSUME Close, current # 0 PROVE Work'
  <2>1. /\ CloseSession(current) /\ task' = Told(current)
        /\ gen' = gen /\ current' = current /\ correlation' = correlation
        /\ current \in Sessions /\ OwnTypeOK /\ Structure
        /\ task \in [Turns -> SessionTasks]
    BY <1>2 DEF Close, binding, bridgeVars, AdapterInv, OwnTypeOK
  <2>2. /\ SessionsKept /\ sess'[current].closed
        /\ \A v \in Sessions : v # current => sess'[v] = sess[v]
    BY <2>1, CloseKeeps DEF CloseSession
  <2>3. /\ work'[current] = {}
        /\ \A s \in Sessions : s # current => work'[s] = work[s]
        /\ \A u \in stray' : u \in stray \/ WorkedOn(u)
    BY <2>1 DEF CloseSession, CliTypeOK, WorkedOn
  <2>4. \A u \in Turns : CliOf(u) /\ ToldBy(u, current)
    BY <2>1, <2>2, <2>3, ToldOnly DEF CliOf, ToldBy
  <2>5. ASSUME NEW u \in Turns PROVE WorkOf(u)'
    <3>1. /\ WorkOf(u) /\ Live(u)' = Live(u) /\ Cancelling(u)' = Cancelling(u)
          /\ Holding(u)' = Holding(u) /\ Active(u)' = Active(u)
          /\ task'[u].sess = task[u].sess
          /\ Active(u) => task[u].sess \in Sessions
          /\ Holding(u) => Active(u)
      BY <2>1, <2>4 DEF Work, ToldBy, Live, Cancelling, Holding, Active,
         Structure, Binding
    <3>2. \A s \in Sessions : u \in work'[s] => FALSE
      BY <2>1, <2>3, <3>1 DEF WorkOf
    <3>3. task'[u].told =>
            /\ Holding(u)'
            /\ Live(u)' => Cancelling(u)' \/ sess'[task'[u].sess].closed
      BY <2>2, <2>4, <3>1 DEF WorkOf, ToldBy, SessionsKept
    <3>4. Cancelling(u)' =>
            sess'[current'].closed \/ sess'[current'].cancelReq
      BY <2>1, <2>2
    <3>5. gen'[u].left = "cut" /\ Active(u)' =>
            sess'[task'[u].sess].closed \/ sess'[task'[u].sess].cancelReq
      BY <2>1, <2>2, <3>1 DEF WorkOf, SessionsKept
    <3>6. u \in stray' => gen'[u].pc # "unstarted"
      BY <2>1, <2>4, <3>1 DEF WorkOf, CliOf, WorkedOn, Live
    <3> QED
      BY <3>2, <3>3, <3>4, <3>5, <3>6 DEF WorkOf
  <2> QED
    BY <2>5 DEF Work
<1>3. CASE Close /\ current = 0
  BY <1>1, <1>3 DEF Close, binding, bridgeVars, cli
<1>4. ASSUME NEW r \in Requests, Preflight(r) PROVE Work'
  BY <1>1, <1>4 DEF Preflight, binding, bridgeVars, cli
<1>5. ASSUME NEW c \in Calls, ToolReturns(c) PROVE Work'
  BY <1>1, <1>5 DEF ToolReturns, HostReturns, SessionStep, binding, cli
<1>6. ASSUME NEW c \in Calls, NEW t \in Turns, ToolCall(c, t) PROVE Work'
  BY <1>1, <1>6 DEF ToolCall, Refuse, Execute, SessionStep, binding, cli
<1>7. CASE UNCHANGED vars
  BY <1>1, <1>7 DEF vars, binding, bridgeVars, cli
<1> QED
  BY <1>2, <1>3, <1>4, <1>5, <1>6, <1>7

(* What the CLIs work on, what was left behind and the late calls keep      *)
(* their types.                                                             *)
LEMMA CliTyped ==
  ASSUME AdapterInv, CliTypeOK, [Next]_vars
  PROVE  CliTypeOK'
<1>1. late' \subseteq Calls
  <2> DEFINE Late ==
        late' = late \/ \E c \in Calls, t \in Turns : ToolCall(c, t)
  <2>1. ASSUME NEW t \in Turns, TaskNext(t) PROVE Late
    BY <2>1 DEF TaskNext, TaskStarts, TaskRefused, TaskRetired, TaskReturns,
       TaskRaises, TaskRetires, Project
  <2>2. ASSUME NEW t \in Turns, Drive(t) PROVE Late
    BY <2>2 DEF Drive, Take, TakeUnlisted, Resume, Report, TaskFailed,
       CancelReturns, NativeReturns, GeneratorStep
  <2>3. ASSUME NEW t \in Turns, TurnNext(t) PROVE Late
    BY <2>1, <2>2, <2>3 DEF TurnNext, RefuseTurn, StartTurn, Abandon,
       CancelTask, Poll, GeneratorStep
  <2>4. Late
    BY <2>3 DEF Next, Preflight, ToolReturns, Close, AllEnded, vars
  <2> QED
    BY <2>4 DEF ToolCall, CliTypeOK
<1>2. ASSUME NEW t \in Turns, TaskStarts(t)
      PROVE  work' \in [Sessions -> SUBSET Turns] /\ stray' \subseteq Turns
  BY <1>2 DEF TaskStarts, CliTypeOK
<1>3. ASSUME \A t \in Turns : ~TaskStarts(t)
      PROVE  work' \in [Sessions -> SUBSET Turns] /\ stray' \subseteq Turns
  <2>1. \A t \in Turns : TaskRetired(t) => task[t].sess \in Sessions
    BY DEF TaskRetired, AdapterInv, Structure, Binding, Active
  <2>2. \A t \in Turns : CancelReturns(t) => current \in Sessions
    BY LiveTurn DEF CancelReturns, Cancelling, Live
  <2>3. current # 0 => current \in Sessions
    BY DEF AdapterInv, OwnTypeOK
  <2>4. \/ UNCHANGED cli
        \/ \E t \in Turns : LeaveBehind(t) \/ (WorkEnds(t) /\ stray' = stray)
        \/ \E s \in Sessions : CloseSession(s)
    <3>1. ASSUME NEW t \in Turns, TaskNext(t)
          PROVE  \/ UNCHANGED cli
                 \/ LeaveBehind(t) \/ (WorkEnds(t) /\ stray' = stray)
                 \/ \E s \in Sessions : CloseSession(s)
      BY <1>3, <2>1, <3>1 DEF TaskNext, TaskRefused, TaskRetired, TaskReturns,
         CliAfter, TaskRaises, TaskRetires, Project, ToolCall
    <3>2. ASSUME NEW t \in Turns, Drive(t)
          PROVE  \/ UNCHANGED cli \/ \E s \in Sessions : CloseSession(s)
      BY <2>2, <3>2 DEF Drive, Take, TakeUnlisted, Resume, Report, TaskFailed,
         CancelReturns, NativeReturns
    <3>3. ASSUME NEW t \in Turns, TurnNext(t)
          PROVE  \/ UNCHANGED cli
                 \/ LeaveBehind(t) \/ (WorkEnds(t) /\ stray' = stray)
                 \/ \E s \in Sessions : CloseSession(s)
      BY <3>1, <3>2, <3>3 DEF TurnNext, RefuseTurn, StartTurn, Abandon,
         CancelTask, Poll
    <3>4. CASE Close
      BY <2>3, <3>4 DEF Close
    <3> QED
      BY <3>3, <3>4 DEF Next, Preflight, ToolReturns, AllEnded, vars
  <2> QED
    BY <2>4, CliMoves
<1> QED
  BY <1>1, <1>2, <1>3 DEF CliTypeOK

(* Every step keeps what is known of the work of the CLIs. *)
LEMMA WorkStep == RuntimeInv /\ [Next]_vars => CliTypeOK' /\ Work'
<1> SUFFICES ASSUME RuntimeInv, [Next]_vars PROVE CliTypeOK' /\ Work'
  OBVIOUS
<1> USE DEF RuntimeInv
<1>1. ASSUME NEW t \in Turns, TaskNext(t) PROVE Work'
  BY <1>1, WorkStarts, WorkTaskGoesOn, WorkTaskOver, WorkHost DEF TaskNext
<1>2. ASSUME NEW t \in Turns, TurnNext(t) PROVE Work'
  BY <1>1, <1>2, WorkGenerator, WorkBegins DEF TurnNext
<1>3. AllEnded => UNCHANGED vars
  BY DEF AllEnded
<1> QED
  BY <1>2, <1>3, WorkHost, CliTyped DEF Next

(* Every step of every actor keeps the invariant. *)
LEMMA InvStep == RuntimeInv /\ [Next]_vars => AdapterInv'
<1> SUFFICES ASSUME RuntimeInv, [Next]_vars PROVE AdapterInv'
  OBVIOUS
<1> USE DEF RuntimeInv
<1>1. ASSUME NEW t \in Turns, TaskNext(t) PROVE AdapterInv'
  BY <1>1, TaskStartsStep, ProjectStep, ToolStep, TaskOverStep DEF TaskNext
<1>2. ASSUME NEW t \in Turns, Drive(t) PROVE AdapterInv'
  BY <1>2, TakeStep, TakeUnlistedStep, ReportStep, TaskFailedStep,
     CancelReturnsStep DEF Drive
<1>3. ASSUME NEW t \in Turns, TurnNext(t) PROVE AdapterInv'
  BY <1>1, <1>2, <1>3, RefuseStep, StartStep, AbandonStep, CancelTaskStep,
     PollStep DEF TurnNext
<1>4. AllEnded => UNCHANGED vars
  BY DEF AllEnded
<1> QED
  BY <1>3, <1>4, HostStep, ToolStep DEF Next

(* A new runtime has no session, no turn and no token. *)
LEMMA InvInit == Init => AdapterInv
<1> SUFFICES ASSUME Init PROVE AdapterInv
  OBVIOUS
<1>1. OwnTypeOK
  <2>1. <<>> \in Seq(Kinds)
    OBVIOUS
  <2>2. NoTask \in SessionTasks
    BY <2>1, BoundAssumption DEF NoTask, SessionTasks, Results
  <2>3. task \in [Turns -> SessionTasks]
    BY <2>2 DEF Init
  <2>4. gen \in [Turns -> Generators]
    BY DEF Init, Generators, Phases
  <2>5. call \in [Calls -> [st : CallStates, turn : Turns \cup {NoTurn},
                            under : Turns \cup {NoTurn}]]
    BY DEF Init, BridgeInit, CallStates
  <2>6. sess \in [Sessions -> [closed : BOOLEAN, cancelReq : BOOLEAN]]
        /\ cancels \in 0..MaxCancels
    BY BoundAssumption DEF Init
  <2> QED
    BY <2>3, <2>4, <2>5, <2>6 DEF Init, BridgeInit, OwnTypeOK, BridgeTypeOK
<1>2. \A t \in Turns : /\ gen[t].pc = "unstarted" /\ gen[t].terminals = 0
                       /\ gen[t].left = "none" /\ gen[t].out = "none"
                       /\ gen[t].start = 0
                       /\ task[t].st = "none" /\ task[t].queue = <<>>
  BY DEF Init, NoTask
<1>3. \A c \in Calls : /\ call[c].turn = NoTurn /\ call[c].under = NoTurn
                       /\ call[c].st = "unmade"
  BY DEF Init, BridgeInit
<1>4. Ordering /\ Terminals
  BY <1>2, TurnsAssumption DEF Init, Ordering, Terminals, Live
<1>5. Effects
  <2>1. \A t \in Turns : ~Performed(t) /\ \A c \in Calls : call[c].turn # t
    BY <1>3, TurnsAssumption DEF Performed
  <2>2. executions = 0
    BY DEF Init, BridgeInit
  <2>3. ASSUME NEW t \in Turns PROVE gen[t].start <= executions
    <3>1. gen[t].start = 0
      BY <1>2
    <3>2. 0 <= 0
      OBVIOUS
    <3> QED
      BY <2>2, <3>1, <3>2, Zenon
  <2>4. \A t \in Turns : gen[t].pc # "failing" /\ gen[t].out # "failed"
    BY <1>2
  <2> QED
    BY <2>1, <2>3, <2>4 DEF Effects
<1>6. Binding /\ Clearance /\ Bound
  BY <1>2, <1>3 DEF Init, Binding, Clearance, Bound, Active
<1>7. Locking
  BY <1>2 DEF Init, Locking, Active, Holding
<1>8. OneOpenSession /\ ToolCallsInTheirTurn
  BY <1>3 DEF Init, OneOpenSession, ToolCallsInTheirTurn
<1>9. Cancels
  BY <1>2 DEF Init, Cancels, Holding, Cancelling, Live
<1> QED
  BY <1>1, <1>4, <1>5, <1>6, <1>7, <1>8, <1>9 DEF AdapterInv, Structure

(* Nothing is worked on yet. *)
LEMMA WorkInit == Init => CliTypeOK /\ Work
<1> SUFFICES ASSUME Init PROVE CliTypeOK /\ Work
  OBVIOUS
<1>1. CliTypeOK
  BY DEF Init, CliTypeOK
<1>2. ASSUME NEW t \in Turns PROVE WorkOf(t)
  <2>1. gen[t].pc = "unstarted" /\ gen[t].left = "none"
    BY DEF Init
  <2>2. ~task[t].told
    BY DEF Init, NoTask
  <2>3. /\ ~Cancelling(t) /\ t \notin stray
        /\ \A s \in Sessions : t \notin work[s]
    BY <2>1 DEF Init, Cancelling
  <2> QED
    BY <2>1, <2>2, <2>3 DEF WorkOf
<1> QED
  BY <1>1, <1>2 DEF Work

(* The invariant holds of every behaviour of the runtime. *)
LEMMA Invariance == Spec => []RuntimeInv
<1>1. Init => RuntimeInv
  BY InvInit, WorkInit DEF RuntimeInv
<1>2. RuntimeInv /\ [Next]_vars => RuntimeInv'
  BY InvStep, WorkStep DEF RuntimeInv
<1> QED
  BY <1>1, <1>2, PTL DEF Spec

-----------------------------------------------------------------------------
(* The state of the runtime keeps its types, for any number of turns,       *)
(* requests, tool calls, projections and cancellations (runtime.py).        *)
THEOREM TypeCorrect == Spec => []TypeOK
<1>1. RuntimeInv => TypeOK
  BY DEF RuntimeInv, AdapterInv, TypeOK
<1> QED
  BY <1>1, Invariance, PTL

(* A turn that the host drives to its end yields one terminal event, and    *)
(* a failure that claims no side effect had none, whenever cancel(), the    *)
(* session task and the tool calls happen (runtime.py:526-705).             *)
THEOREM HonestTerminals == Spec => []TerminalIsHonest
<1>1. RuntimeInv => TerminalIsHonest
  BY DEF RuntimeInv, AdapterInv, Structure, Terminals, Effects,
     TerminalIsHonest,
     TerminalExactlyOnce, EffectsReported, OwnTypeOK, Generators
<1> QED
  BY <1>1, Invariance, PTL

(* Every prompt that reaches the CLI has an authorization of its own and    *)
(* was sent for the one host and contract of the runtime                    *)
(* (runtime.py:211-248, 374-404).                                           *)
THEOREM AdmittedPrompts == Spec => []PromptsAdmitted
<1>1. RuntimeInv => PromptsAdmitted
  BY DEF RuntimeInv, AdapterInv, Structure, Binding, Clearance,
     PromptsAdmitted, Pinned, PromptsCleared
<1> QED
  BY <1>1, Invariance, PTL

(* There is never a second open session, nor one after close(), and tool    *)
(* calls carry the id of the turn whose prompt they answer                  *)
(* (runtime.py:346-404, tool_bridge.py:636-690).                            *)
THEOREM SerialTurns == Spec => []OneTurnAtATime
<1>1. RuntimeInv => OneTurnAtATime
  BY DEF RuntimeInv, AdapterInv, Structure, OneTurnAtATime
<1> QED
  BY <1>1, Invariance, PTL

(* Only the end of the loop reports that a running turn was cancelled. *)
LEMMA CancelledByReport ==
  ASSUME AdapterInv, Next, NEW t \in Turns,
         gen[t].pc = "loop", gen'[t].out = "cancelled"
  PROVE  task[t].st = "done" /\ task[t].result = "cancelled"
<1> USE DEF AdapterInv
<1>1. gen \in [Turns -> Generators] /\ gen[t].out = "none"
  BY DEF OwnTypeOK, Structure, Terminals
<1>2. ASSUME NEW u \in Turns, Moves(u, "loop") \/ Moves(u, "yielded")
               \/ Moves(u, "cancelling") \/ Moves(u, "native")
               \/ Moves(u, "failing") \/ Moves(u, "dying")
      PROVE  FALSE
  BY <1>1, <1>2 DEF Moves, OthersKept
<1>3. gen' # gen
  BY <1>1
<1>4. ASSUME NEW u \in Turns, TurnNext(u), u # t PROVE FALSE
  <2>1. gen'[t] = gen[t]
    BY ZenonT(60), <1>1, <1>4
    DEF TurnNext, RefuseTurn, StartTurn, OpenSession, UseSession,
       Launch, ConfigureFails, ContractChanged, BeginTurnRaises, Drive, Take,
       TakeUnlisted, Resume, Report, TaskFailed, CancelReturns, NativeReturns,
       TaskNext, TaskStarts, TaskRefused, TaskRetired, TaskReturns, TaskRaises,
       TaskRetires, Project, ToolCall, SessionStep, Abandon, CancelTask, Poll
  <2> QED
    BY SMTT(60), <1>1, <2>1
<1>5. ASSUME TurnNext(t), ~Report(t) PROVE FALSE
  <2>1. ~RefuseTurn(t) /\ ~StartTurn(t)
    BY DEF RefuseTurn, StartTurn, IsNext
  <2>2. ~TaskNext(t)
    BY <1>3 DEF TaskNext, TaskStarts, TaskRefused, TaskRetired, TaskReturns,
       TaskRaises, TaskRetires, Project, ToolCall, SessionStep
  <2>3. ~Abandon(t) /\ ~Resume(t) /\ ~CancelReturns(t) /\ ~NativeReturns(t)
    BY DEF Abandon, Resume, CancelReturns, Cancelling, NativeReturns
  <2>4. ASSUME NEW poll \in Polls, Poll(t, poll) PROVE FALSE
    BY <1>1, <1>2, <2>4, MoveCancel DEF Poll, PointsInTurn
  <2>5. ~TakeUnlisted(t)
    BY <1>1, <1>2, MoveWaits, PhaseFacts DEF TakeUnlisted, PointsInTurn
  <2>6. ~TaskFailed(t) /\ ~CancelTask(t)
    BY <1>1, <1>2, MovePc, MoveWaits DEF TaskFailed, CancelTask, PointsInTurn,
       Phases
  <2>7. ~Take(t)
    <3> SUFFICES ASSUME Take(t) PROVE FALSE
      OBVIOUS
    <3> DEFINE k == Head(task[t].queue)
               p == IF Surfaced(k) = {} THEN "loop" ELSE "yielded"
               x == gen[t].visible \/ "content" \in Surfaced(k)
    <3>1. "completed" \notin Surfaced(k)
      BY DEF Surfaced
    <3>2. gen' = [gen EXCEPT ![t].visible = x,
                    ![t].terminals = gen[t].terminals, ![t].pc = p]
      BY <3>1 DEF Take
    <3>3. p \in PointsInTurn /\ x \in BOOLEAN /\ p \in {"loop", "yielded"}
      BY DEF PointsInTurn
    <3> HIDE DEF p, x
    <3> QED
      BY ZenonT(60), <1>1, <1>2, <3>2, <3>3, MoveVisible
  <2> QED
    BY <1>5, <2>1, <2>2, <2>3, <2>4, <2>5, <2>6, <2>7 DEF TurnNext, Drive
<1>6. Report(t)
  BY <1>3, <1>4, <1>5 DEF Next, Preflight, ToolReturns, SessionStep, Close,
     AllEnded, vars
<1>7. ASSUME task[t].result # "cancelled" PROVE FALSE
  <2>1. /\ gen[t].phase \in Phases /\ Phase(t) \in Phases
        /\ Phase(t) # "effects" => ~Performed(t)
    BY <1>1, PhaseFacts, PhaseHonest DEF Generators
  <2>2. \/ gen' = [gen EXCEPT ![t] = Ended(@, "failed", Phase(t))]
        \/ gen' = [gen EXCEPT ![t] = Ended(@, "completed", gen[t].phase)]
    BY <1>6, <1>7 DEF Report
  <2>3. CASE gen' = [gen EXCEPT ![t] = Ended(@, "failed", Phase(t))]
    BY <1>1, <2>1, <2>3, ReturnFacts DEF TerminalEvents
  <2>4. CASE gen' = [gen EXCEPT ![t] = Ended(@, "completed", gen[t].phase)]
    BY <1>1, <2>1, <2>4, ReturnFacts DEF TerminalEvents
  <2> QED
    BY <2>2, <2>3, <2>4
<1> QED
  BY <1>6, <1>7 DEF Report, Finished

(* A turn that reports that it was cancelled leaves a session that the next *)
(* turn can use or replace (runtime.py:338-372, 526-705).                   *)
THEOREM CancelRecovers == Spec => CancelledIsRecoverable
<1> DEFINE Step ==
      \A t \in Turns :
        /\ gen[t].pc = "loop" /\ gen'[t].out = "cancelled" /\ ~closed
        /\ \A u \in Turns : gen[u].left # "cut"
        => sess[current].closed = sess[current].cancelReq
<1>1. AdapterInv /\ [Next]_vars => [Step]_vars
  <2> SUFFICES ASSUME AdapterInv, Next, NEW t \in Turns,
                      gen[t].pc = "loop", gen'[t].out = "cancelled", ~closed,
                      \A u \in Turns : gen[u].left # "cut"
               PROVE  sess[current].closed = sess[current].cancelReq
    OBVIOUS
  <2> USE DEF AdapterInv
  <2>1. task[t].st = "done" /\ task[t].result = "cancelled"
    BY CancelledByReport
  <2>2. Live(t) /\ ~Cancelling(t) /\ ~CutShort
    BY DEF Live, Cancelling, CutShort
  <2>3. /\ \A u \in Turns : ~Cancelling(u)
        /\ current \in Sessions /\ current # 0
    BY <2>2, OneLive, TurnsAssumption DEF Sessions
  <2>4. sess[current].closed => sess[current].cancelReq
    BY <2>1, <2>2 DEF Cancels, Recoverable
  <2>5. sess[current].cancelReq => sess[current].closed
    BY <2>2, <2>3 DEF Cancels
  <2>6. sess[current].closed \in BOOLEAN /\ sess[current].cancelReq \in BOOLEAN
    BY <2>3 DEF OwnTypeOK
  <2> QED
    BY <2>4, <2>5, <2>6
<1>2. RuntimeInv => AdapterInv
  BY DEF RuntimeInv
<1> QED
  BY <1>1, <1>2, Invariance, PTL DEF Spec, CancelledIsRecoverable
=============================================================================
