--------------------------- MODULE SessionProofs ----------------------------
(***************************************************************************)
(* Proofs about a live trial from the inside out: one observer, for any    *)
(* tool calls, requests, parents and tasks and any number of events; a     *)
(* lineage of sessions over such observers, whatever its client asks of it; *)
(* and the runner of a trial, whose behaviours are behaviours of its       *)
(* session.  All of it holds for any rows, budgets, events and restarts.   *)
(***************************************************************************)
EXTENDS GatewayStack, GatewayClientProofs, LiveProofs

-----------------------------------------------------------------------------
(* The observer.                                                           *)
ObserverSpec == ObserverInit /\ [][ObserverNext]_observerVars

Words == {"request", "allow", "deny", "tool"}

(* The last word that is not of a tool decides: a request is pending, a    *)
(* denial is guarded.                                                      *)
Decides(h, n, j) ==
  h[j] # "tool" /\ \A k \in (j + 1)..n : h[k] = "tool"
Spoken(h, o) ==
  \A j \in 1..Len(h) : Decides(h, Len(h), j) =>
    /\ h[j] = "request" => o.pending # NoOne
    /\ h[j] = "deny" => o.guard
ToolFree(h) ==
  \A i \in 1..Len(h) : \A j \in 1..(i - 1) :
    h[i] = "tool" /\ Decides(h, i - 1, j) => h[j] = "allow"

(* The observer as the next event finds it. *)
Sound(o) ==
  /\ o \in Observers
  /\ Len(o.phases) <= o.taskCount
  /\ o.terminals <= o.expect /\ o.turnTerminals <= o.terminals

(* What the last terminal leaves. *)
Whole(o) ==
  /\ DelegationOK(o) /\ o.terminals = o.expect
  /\ o.pending = NoOne /\ o.active = {}
  /\ Len(o.phases) = o.taskCount
  /\ o.expect = 2 => o.taskCount = o.tasks

ObserverInv ==
  /\ Sound(observer) /\ heard \in Seq(Words)
  /\ ~observer.failed => Spoken(heard, observer)
  /\ ToolFree(heard)
  /\ ~observer.failed /\ observer.terminal # "none" => Whole(observer)

(* Failing changes the mark alone. *)
LEMMA FailIsSound ==
  ASSUME NEW o, Sound(o)
  PROVE  Sound(Fail(o)) /\ Fail(o).failed
  BY DEF Sound, Fail, Observers

(* A word that is not of a tool is remembered by what it did. *)
LEMMA WordSpoken ==
  ASSUME NEW h \in Seq(Words), NEW o, NEW w \in Words \ {"tool"},
         w = "request" => o.pending # NoOne, w = "deny" => o.guard
  PROVE  Spoken(Append(h, w), o)
<1> DEFINE g == Append(h, w)
<1>1. /\ Len(h) \in Nat /\ Len(g) = Len(h) + 1 /\ g[Len(h) + 1] = w
  BY AppendProperties, LenProperties
<1> HIDE DEF g
<1>2. ASSUME NEW j \in 1..Len(g), Decides(g, Len(g), j)
      PROVE  j = Len(h) + 1
  <2>1. j # Len(h) + 1 => Len(h) + 1 \in (j + 1)..Len(g)
    BY <1>1
  <2> QED
    BY <1>1, <1>2, <2>1 DEF Decides
<1> QED
  BY <1>1, <1>2 DEF Spoken, g

(* Tool words leave the one before them the last. *)
LEMMA ToolSpoken ==
  ASSUME NEW h \in Seq(Words), NEW o, NEW p, Spoken(h, o),
         p.pending = o.pending, p.guard = o.guard
  PROVE  Spoken(Append(h, "tool"), p)
<1> DEFINE g == Append(h, "tool")
<1>1. /\ Len(h) \in Nat /\ Len(g) = Len(h) + 1 /\ g[Len(h) + 1] = "tool"
      /\ \A j \in 1..Len(h) : g[j] = h[j]
  BY AppendProperties, LenProperties DEF Words
<1> HIDE DEF g
<1>2. ASSUME NEW j \in 1..Len(g), Decides(g, Len(g), j)
      PROVE  j \in 1..Len(h) /\ Decides(h, Len(h), j) /\ g[j] = h[j]
  <2>1. j # Len(h) + 1
    BY <1>1, <1>2 DEF Decides
  <2>2. j \in 1..Len(h)
    BY <1>1, <2>1
  <2>3. \A k \in (j + 1)..Len(h) :
          k \in (j + 1)..Len(g) /\ k \in 1..Len(h)
    BY <1>1, <2>2
  <2> QED
    BY <1>1, <1>2, <2>2, <2>3 DEF Decides
<1> QED
  BY <1>2 DEF Spoken, g

(* A word keeps the history tool-free, unless it is of a tool; then nothing*)
(* may be pending and no denial may be the last word.                      *)
LEMMA StillToolFree ==
  ASSUME NEW h \in Seq(Words), ToolFree(h), NEW w \in Words,
         w = "tool" =>
           \A j \in 1..Len(h) : Decides(h, Len(h), j) => h[j] = "allow"
  PROVE  ToolFree(Append(h, w))
<1> DEFINE g == Append(h, w)
<1>1. /\ Len(h) \in Nat /\ Len(g) = Len(h) + 1 /\ g[Len(h) + 1] = w
      /\ \A j \in 1..Len(h) : g[j] = h[j]
  BY AppendProperties, LenProperties
<1> HIDE DEF g
<1> SUFFICES ASSUME NEW i \in 1..Len(g), NEW j \in 1..(i - 1),
                    g[i] = "tool", Decides(g, i - 1, j)
             PROVE  g[j] = "allow"
  BY DEF ToolFree, g
<1>2. j \in 1..Len(h) /\ i - 1 <= Len(h) /\ i \in Nat /\ g[j] = h[j]
  BY <1>1
<1>3. \A k \in (j + 1)..(i - 1) : g[k] = h[k]
  BY <1>1, <1>2
<1>4. Decides(h, i - 1, j)
  BY <1>2, <1>3 DEF Decides
<1>5. CASE i = Len(h) + 1
  <2>1. w = "tool" /\ i - 1 = Len(h)
    BY <1>1, <1>5
  <2> QED
    BY <1>2, <1>4, <2>1
<1>6. CASE i # Len(h) + 1
  <2>1. i \in 1..Len(h) /\ h[i] = "tool"
    BY <1>1, <1>6
  <2> QED
    BY <1>2, <1>4, <2>1 DEF ToolFree
<1> QED
  BY <1>5, <1>6

(* An event that is admitted is noted: its words are those of the record.  *)
LEMMA NotedIsSound ==
  ASSUME NEW o, Sound(o), NEW e \in AnyEvent, Admitted(o, e)
  PROVE  /\ Sound(Noted(o, e))
         /\ Noted(o, e).failed = o.failed
         /\ Noted(o, e).terminal = o.terminal
         /\ Noted(o, e).expect = o.expect /\ Noted(o, e).tasks = o.tasks
         /\ Noted(o, e).guard = o.guard
         /\ e.kind = "approval" => Noted(o, e).pending # NoOne
         /\ e.kind # "approval" => Noted(o, e).pending = o.pending
<1> DEFINE n == [o EXCEPT !.events = @ + 1, !.closes = FALSE]
<1>1. n \in Observers /\ Sound(n) /\ n.phases = o.phases
  <2>1. o.events + 1 \in 0..EventLimit
    BY ObserverAssumption DEF Admitted, Sound, Observers
  <2> QED
    BY <2>1 DEF Sound, Observers
<1>2. /\ n.failed = o.failed /\ n.terminal = o.terminal
      /\ n.expect = o.expect /\ n.tasks = o.tasks /\ n.guard = o.guard
      /\ n.pending = o.pending /\ n.taskCount = o.taskCount
      /\ n.active = o.active /\ n.parent = o.parent /\ n.linked = o.linked
  BY DEF Sound, Observers
<1>3. CASE e.kind = "approval"
  <2>1. Noted(o, e) = [n EXCEPT !.pending = e.request]
    BY <1>3 DEF Noted
  <2>2. e.request \in Requests /\ e.request # NoOne
    BY <1>3, ObserverAssumption DEF AnyEvent, Plain, Malformed, Approvals,
       ToolEvents, ChildEvents, Terminals
  <2> HIDE DEF n
  <2> QED
    BY SMTT(60), <1>1, <1>2, <1>3, <2>1, <2>2 DEF Sound, Observers
<1>4. CASE e.kind \in {"toolStart", "toolComplete"}
  <2>1. e.call \in ToolCalls
    BY <1>4 DEF AnyEvent, Plain, Malformed, Approvals,
       ToolEvents, ChildEvents, Terminals
  <2>2. \E a \in SUBSET ToolCalls : Noted(o, e) = [n EXCEPT !.active = a]
    <3>1. o.active \in SUBSET ToolCalls
      BY DEF Sound, Observers
    <3>2. CASE e.kind = "toolStart"
      BY <1>2, <2>1, <3>1, <3>2 DEF Noted
    <3>3. CASE e.kind = "toolComplete"
      BY <1>2, <2>1, <3>1, <3>3 DEF Noted
    <3> QED
      BY <1>4, <3>2, <3>3
  <2> HIDE DEF n
  <2> QED
    BY SMTT(60), <1>1, <1>2, <1>4, <2>2 DEF Sound, Observers
<1>5. CASE e.kind = "child"
  <2>1. /\ e.index \in Tasks /\ e.count \in 1..MaxTasks
        /\ e.parent \in Parents \cup {NoOne} /\ e.phase \in ChildPhases
    BY <1>5 DEF AnyEvent, Plain, Malformed, Approvals, ToolEvents,
       ChildEvents, Terminals
  <2>2. /\ e.index < e.count /\ Ordered(o, e) /\ o.taskCount \in {0, e.count}
    BY <1>5 DEF Admitted
  <2>3. /\ o.phases \in Seq(ChildPhases) /\ Len(o.phases) \in Nat
        /\ o.taskCount \in Nat /\ Len(o.phases) <= o.taskCount
        /\ o.parent \in Parents \cup {NoOne} /\ o.linked \in SUBSET Tasks
    BY DEF Sound, Observers
  <2> DEFINE ph == IF e.index = Len(n.phases) THEN Append(n.phases, e.phase)
                   ELSE [n.phases EXCEPT ![e.index + 1] = e.phase]
  <2>4. ph \in Seq(ChildPhases) /\ Len(ph) <= e.count
    <3>1. CASE e.index = Len(o.phases)
      BY <1>1, <2>1, <2>2, <2>3, <3>1, AppendProperties DEF Tasks
    <3>2. CASE e.index # Len(o.phases)
      <4>1. e.index + 1 \in 1..Len(o.phases)
        BY <2>1, <2>2, <2>3, <3>2 DEF Ordered, PhaseOf, Tasks
      <4>2. ph = [o.phases EXCEPT ![e.index + 1] = e.phase]
        BY <1>1, <3>2
      <4> HIDE DEF ph
      <4>3. ph \in Seq(ChildPhases) /\ Len(ph) = Len(o.phases)
        BY <2>1, <2>3, <4>1, <4>2, ExceptSeq
      <4> QED
        BY <2>1, <2>2, <2>3, <4>3
    <3> QED
      BY <3>1, <3>2
  <2> DEFINE pa == IF e.parent # NoOne THEN e.parent ELSE n.parent
             li == IF e.parent # NoOne THEN n.linked \cup {e.index}
                                       ELSE n.linked
  <2>5. pa \in Parents \cup {NoOne} /\ li \in SUBSET Tasks
    BY <1>2, <2>1, <2>3
  <2>6. Noted(o, e) = [n EXCEPT !.taskCount = e.count, !.phases = ph,
                                !.parent = pa, !.linked = li]
    BY <1>5 DEF Noted
  <2>7. e.count \in 0..MaxTasks
    BY <2>1, ObserverAssumption
  <2> HIDE DEF n, ph, pa, li
  <2>8. Noted(o, e) \in Observers
    BY <1>1, <2>4, <2>5, <2>6, <2>7 DEF Observers
  <2>9. LET m == Noted(o, e) IN
        /\ m.taskCount = e.count /\ m.phases = ph /\ m.failed = n.failed
        /\ m.terminal = n.terminal /\ m.expect = n.expect
        /\ m.tasks = n.tasks /\ m.guard = n.guard /\ m.pending = n.pending
        /\ m.terminals = n.terminals /\ m.turnTerminals = n.turnTerminals
    BY <1>1, <2>6 DEF Observers
  <2> QED
    BY <1>1, <1>2, <1>5, <2>4, <2>8, <2>9 DEF Sound
<1>6. CASE e.kind \notin {"approval", "toolStart", "toolComplete", "child"}
  BY <1>1, <1>2, <1>6 DEF Noted
<1> QED
  BY <1>3, <1>4, <1>5, <1>6

(* A terminal fails the observation, is the first of two, or is the last   *)
(* one and leaves the session whole.                                       *)
LEMMA TerminatedIsSound ==
  ASSUME NEW o, Sound(o), o.terminal = "none", ~o.failed,
         NEW s \in {"completed", "failed"}
  PROVE  LET n == Terminated(o, s) IN
         /\ Sound(n)
         /\ ~n.failed => n.pending = o.pending /\ n.guard = o.guard
         /\ ~n.failed /\ n.terminal # "none" => Whole(n)
<1> DEFINE m == [o EXCEPT !.terminals = @ + 1, !.closes = TRUE,
                          !.turnTerminals = @ + 1]
           n == Terminated(o, s)
<1>1. /\ o \in Observers /\ o.terminals \in 0..2 /\ o.expect \in {1, 2}
      /\ o.turnTerminals \in 0..2 /\ o.turnTerminals <= o.terminals
  BY DEF Sound, Observers
<1>2. /\ m.terminals = o.terminals + 1 /\ m.pending = o.pending
      /\ m.turnTerminals = o.turnTerminals + 1
      /\ m.guard = o.guard /\ m.failed = o.failed /\ m.expect = o.expect
      /\ m.terminal = o.terminal /\ m.phases = o.phases
      /\ m.taskCount = o.taskCount /\ m.linked = o.linked
      /\ m.active = o.active /\ m.tasks = o.tasks
  BY <1>1 DEF Observers
<1> HIDE DEF n
<1>3. CASE n = Fail(o)
  BY <1>3, FailIsSound DEF n
<1>4. CASE n # Fail(o)
  <2>1. /\ o.pending = NoOne /\ o.active = {} /\ m.terminals <= o.expect
        /\ o.expect = 2 => o.taskCount = o.tasks
    BY <1>1, <1>2, <1>4 DEF n, Terminated
  <2>2. m \in Observers /\ Sound(m)
    <3>1. /\ o.terminals + 1 \in 0..2 /\ o.turnTerminals + 1 \in 0..2
      BY <1>1, <1>2, <2>1
    <3>2. m \in Observers
      BY <1>1, <3>1 DEF Observers
    <3> HIDE DEF m
    <3> QED
      BY <1>1, <1>2, <2>1, <3>2 DEF Sound
  <2>3. \/ n = m /\ o.expect = 2 /\ m.terminals = 1
        \/ /\ n = [m EXCEPT !.terminal = s] /\ ChildrenClosed(o)
           /\ ~(o.expect = 2 /\ m.terminals = 1)
    BY <1>4 DEF n, Terminated
  <2> HIDE DEF m
  <2>4. CASE n = m
    BY <1>2, <2>2, <2>4 DEF n
  <2>5. CASE /\ n = [m EXCEPT !.terminal = s] /\ ChildrenClosed(o)
             /\ ~(o.expect = 2 /\ m.terminals = 1)
    <3>1. n \in Observers
      BY <2>2, <2>5 DEF Observers
    <3>2. /\ n.terminals = m.terminals /\ n.pending = m.pending
          /\ n.turnTerminals = m.turnTerminals
          /\ n.guard = m.guard /\ n.failed = m.failed
          /\ n.expect = m.expect /\ n.phases = m.phases
          /\ n.taskCount = m.taskCount /\ n.linked = m.linked
          /\ n.active = m.active /\ n.tasks = m.tasks
      BY <2>2, <2>5 DEF Observers
    <3>3. Sound(n)
      BY <2>2, <3>1, <3>2 DEF Sound
    <3>4. DelegationOK(n) /\ Len(n.phases) = n.taskCount
      BY <1>2, <2>5, <3>2 DEF ChildrenClosed, AllComplete, DelegationOK
    <3>5. n.terminals = n.expect
      BY <1>1, <1>2, <2>1, <2>5, <3>2
    <3>6. Whole(n)
      BY <1>2, <2>1, <3>2, <3>4, <3>5 DEF Whole
    <3> QED
      BY <1>2, <3>2, <3>3, <3>6 DEF n
  <2> QED
    BY <2>3, <2>4, <2>5
<1> QED
  BY <1>3, <1>4

(* An event is admitted and noted, ends the session whole, or fails it.    *)
LEMMA EventIsSound ==
  ASSUME NEW o, Sound(o), ~o.failed, NEW e \in AnyEvent,
         o.terminal # "none" => Whole(o)
  PROVE  LET n == Event(o, e) IN
         /\ Sound(n)
         /\ ~n.failed =>
              /\ n.terminal # "none" => Whole(n)
              /\ n.guard = o.guard
              /\ e.kind = "approval" => n.pending # NoOne
              /\ e.kind # "approval" => n.pending = o.pending
              /\ e.kind \in {"toolStart", "toolComplete"} => Permitted(o)
<1>1. CASE o.terminal # "none"
  <2>1. Event(o, e) = IF e.kind = "changed" THEN o ELSE Fail(o)
    BY <1>1 DEF Event
  <2> QED
    BY <1>1, <2>1, FailIsSound
<1>2. CASE o.terminal = "none" /\ ~Admitted(o, e)
  <2>1. Event(o, e) = Fail(o)
    BY <1>2 DEF Event
  <2> QED
    BY <2>1, FailIsSound
<1>3. CASE o.terminal = "none" /\ Admitted(o, e)
  <2>1. Event(o, e) = IF e.kind = "terminal"
                      THEN Terminated(Noted(o, e), e.status)
                      ELSE Noted(o, e)
    BY <1>3 DEF Event
  <2>2. /\ Sound(Noted(o, e)) /\ ~Noted(o, e).failed
        /\ Noted(o, e).terminal = "none" /\ Noted(o, e).guard = o.guard
        /\ e.kind = "approval" => Noted(o, e).pending # NoOne
        /\ e.kind # "approval" => Noted(o, e).pending = o.pending
    BY <1>3, NotedIsSound
  <2>3. e.kind \in {"toolStart", "toolComplete"} => Permitted(o)
    BY <1>3 DEF Admitted
  <2>4. CASE e.kind = "terminal"
    <3>1. e.status \in {"completed", "failed"}
      BY <2>4 DEF AnyEvent, Plain, Malformed, Approvals, ToolEvents,
         ChildEvents, Terminals
    <3> QED
      BY <2>1, <2>2, <2>4, <3>1, TerminatedIsSound
  <2>5. CASE e.kind # "terminal"
    BY <2>1, <2>2, <2>3, <2>5
  <2> QED
    BY <2>4, <2>5
<1> QED
  BY <1>1, <1>2, <1>3

(* The observer looks at one event of the stream. *)
LEMMA ObserveEventKeeps == ObserverInv /\ ObserveEvent => ObserverInv'
<1> SUFFICES ASSUME ObserverInv, ObserveEvent PROVE ObserverInv'
  OBVIOUS
<1>1. /\ Sound(observer) /\ heard \in Seq(Words) /\ ToolFree(heard)
      /\ ~observer.failed /\ Spoken(heard, observer)
      /\ observer.terminal # "none" => Whole(observer)
  BY DEF ObserverInv, ObserveEvent
<1>2. PICK e \in AnyEvent :
        /\ observer' = Event(observer, e)
        /\ CASE e.kind = "approval" -> Heard("request")
             [] e.kind \in {"toolStart", "toolComplete"} -> Heard("tool")
             [] OTHER -> UNCHANGED heard
  BY DEF ObserveEvent, AnyEvent
<1>3. /\ Sound(observer')
      /\ ~observer'.failed =>
           /\ observer'.terminal # "none" => Whole(observer')
           /\ observer'.guard = observer.guard
           /\ e.kind = "approval" => observer'.pending # NoOne
           /\ e.kind # "approval" => observer'.pending = observer.pending
           /\ e.kind \in {"toolStart", "toolComplete"} => Permitted(observer)
  BY <1>1, <1>2, EventIsSound
<1>4. ASSUME heard' \in Seq(Words), ToolFree(heard'),
             ~observer'.failed => Spoken(heard', observer')
      PROVE  ObserverInv'
  BY <1>3, <1>4 DEF ObserverInv
<1>5. CASE heard' = heard /\ (observer'.failed \/ e.kind # "approval")
  BY <1>1, <1>3, <1>4, <1>5 DEF Spoken
<1>6. CASE /\ e.kind = "approval" /\ ~observer'.failed
           /\ heard' = Append(heard, "request")
  <2>1. heard' \in Seq(Words)
    BY <1>1, <1>6, AppendProperties DEF Words
  <2>2. ToolFree(heard')
    BY <1>1, <1>6, StillToolFree DEF Words
  <2>3. Spoken(heard', observer')
    BY <1>1, <1>3, <1>6, WordSpoken DEF Words
  <2> QED
    BY <1>4, <2>1, <2>2, <2>3
<1>7. CASE /\ e.kind \in {"toolStart", "toolComplete"} /\ ~observer'.failed
           /\ heard' = Append(heard, "tool")
  <2>1. heard' \in Seq(Words)
    BY <1>1, <1>7, AppendProperties DEF Words
  <2>2. \A j \in 1..Len(heard) :
          Decides(heard, Len(heard), j) => heard[j] = "allow"
    <3>1. observer.pending = NoOne /\ ~observer.guard
      BY <1>3, <1>7 DEF Permitted
    <3>2. \A j \in 1..Len(heard) : heard[j] \in Words
      BY <1>1
    <3> QED
      BY <1>1, <3>1, <3>2 DEF Spoken, Decides, Words
  <2>3. ToolFree(heard')
    BY <1>1, <1>7, <2>2, StillToolFree DEF Words
  <2>4. Spoken(heard', observer')
    BY <1>1, <1>3, <1>7, ToolSpoken
  <2> QED
    BY <1>4, <2>1, <2>3, <2>4
<1> QED
  BY <1>2, <1>5, <1>6, <1>7 DEF Heard

(* The observer is told of the answer to a request. *)
LEMMA ObserveAnswerKeeps == ObserverInv /\ ObserveAnswer => ObserverInv'
<1> SUFFICES ASSUME ObserverInv, ObserveAnswer PROVE ObserverInv'
  OBVIOUS
<1>1. /\ Sound(observer) /\ heard \in Seq(Words) /\ ToolFree(heard)
      /\ ~observer.failed /\ observer \in Observers
      /\ observer.terminal # "none" => observer.pending = NoOne
  BY DEF ObserverInv, ObserveAnswer, Sound, Whole
<1>2. PICK request \in Requests, decision \in {"allow", "deny"},
           resolved \in BOOLEAN :
        /\ observer' = Respond(observer, request, decision, resolved)
        /\ Heard(decision)
  BY DEF ObserveAnswer
<1>3. CASE observer' = Fail(observer)
  BY <1>1, <1>2, <1>3, FailIsSound DEF ObserverInv, Heard
<1>4. CASE observer' # Fail(observer)
  <2>1. /\ observer.pending # NoOne
        /\ observer' = [observer EXCEPT !.pending = NoOne,
             !.denied = @ \/ decision = "deny",
             !.recovery = @ \/ (decision = "allow" /\ observer.denied),
             !.guard = IF decision = "deny" THEN TRUE
                       ELSE IF observer.denied THEN FALSE ELSE @]
    BY <1>2, <1>4 DEF Respond
  <2>2. observer.terminal = "none"
    BY <1>1, <2>1
  <2>3. observer' \in Observers
    BY ZenonT(60), <1>1, <2>1 DEF Observers
  <2>4. /\ ~observer'.failed /\ observer'.terminal = "none"
        /\ observer'.phases = observer.phases
        /\ observer'.taskCount = observer.taskCount
        /\ observer'.terminals = observer.terminals
        /\ observer'.expect = observer.expect
        /\ observer'.turnTerminals = observer.turnTerminals
        /\ decision = "deny" => observer'.guard
    BY <1>1, <2>1, <2>2 DEF Observers
  <2>5. Sound(observer')
    BY <1>1, <2>3, <2>4 DEF Sound
  <2>6. heard' = Append(heard, decision)
    BY <1>2, <2>4 DEF Heard
  <2>7. heard' \in Seq(Words)
    BY <1>1, <2>6, AppendProperties DEF Words
  <2>8. ToolFree(heard')
    BY <1>1, <2>6, StillToolFree DEF Words
  <2>9. Spoken(heard', observer')
    BY <1>1, <2>4, <2>6, WordSpoken DEF Words
  <2> QED
    BY <2>4, <2>5, <2>7, <2>8, <2>9 DEF ObserverInv
<1> QED
  BY <1>3, <1>4

(* The observer takes its snapshot. *)
LEMMA ObserveSnapshotKeeps == ObserverInv /\ ObserveSnapshot => ObserverInv'
<1> SUFFICES ASSUME ObserverInv, ObserveSnapshot PROVE ObserverInv'
  OBVIOUS
<1>1. /\ observer' = [observer EXCEPT !.turnTerminals = 0, !.closes = FALSE]
      /\ heard' = heard /\ observer \in Observers /\ Sound(observer)
  BY DEF ObserverInv, ObserveSnapshot, Snapshot, Sound
<1>2. observer' \in Observers
  <2>1. 0 \in 0..2 /\ FALSE \in BOOLEAN
    OBVIOUS
  <2> QED
    BY <1>1, <2>1 DEF Observers
<1>3. /\ observer'.failed = observer.failed
      /\ observer'.pending = observer.pending
      /\ observer'.guard = observer.guard
      /\ observer'.terminal = observer.terminal
      /\ observer'.phases = observer.phases
      /\ observer'.taskCount = observer.taskCount
      /\ observer'.terminals = observer.terminals
      /\ observer'.expect = observer.expect
      /\ observer'.tasks = observer.tasks
      /\ observer'.active = observer.active
      /\ observer'.linked = observer.linked
      /\ observer'.turnTerminals = 0
  BY <1>1 DEF Observers
<1>4. Sound(observer')
  BY <1>1, <1>2, <1>3 DEF Sound, Observers
<1>5. Spoken(heard, observer) => Spoken(heard, observer')
  BY <1>3 DEF Spoken
<1>6. Whole(observer) => Whole(observer')
  BY <1>3 DEF Whole, DelegationOK, AllComplete
<1> QED
  BY <1>1, <1>3, <1>4, <1>5, <1>6 DEF ObserverInv

(* The invariant of the observer. *)
LEMMA ObserverInvHolds == ObserverSpec => []ObserverInv
<1>1. ObserverInit => ObserverInv
  <2> SUFFICES ASSUME ObserverInit PROVE ObserverInv
    OBVIOUS
  <2>1. PICK x \in {1, 2}, t \in 0..MaxTasks : observer = NewObserver(x, t)
    BY ObserverAssumption DEF ObserverInit
  <2>2. observer \in Observers
    BY <2>1, EmptySeq, ObserverAssumption DEF NewObserver, Observers
  <2>3. /\ observer.terminal = "none" /\ observer.phases = <<>>
        /\ observer.taskCount = 0 /\ observer.terminals = 0
        /\ observer.turnTerminals = 0 /\ observer.expect = x
    BY <2>1 DEF NewObserver
  <2>4. heard = <<>> /\ heard \in Seq(Words)
    BY EmptySeq DEF ObserverInit
  <2> QED
    BY <2>2, <2>3, <2>4 DEF ObserverInv, Sound, Spoken, ToolFree
<1>2. ObserverInv /\ [ObserverNext]_observerVars => ObserverInv'
  <2>1. ObserverInv /\ UNCHANGED observerVars => ObserverInv'
    BY DEF ObserverInv, observerVars
  <2> QED
    BY <2>1, ObserveEventKeeps, ObserveAnswerKeeps, ObserveSnapshotKeeps
       DEF ObserverNext
<1> QED
  BY <1>1, <1>2, PTL DEF ObserverSpec

(* The observer's record keeps its fields, and never more child phases     *)
(* than tasks or more terminals than expected.                             *)
THEOREM ObserverTypeCorrect == ObserverSpec => []ObserverTypeOK
<1>1. ObserverInv => ObserverTypeOK
  BY DEF ObserverInv, ObserverTypeOK, Sound, Words
<1> QED
  BY <1>1, ObserverInvHolds, PTL

(* An observation fails closed: no tool event is accepted between a        *)
(* request and its answer or after a denial without a later approval, and  *)
(* a session that reached its last terminal is whole, whatever the gateway *)
(* sends and in which order (v4_gateway_observer.py).                      *)
THEOREM ObserverClosed == ObserverSpec => []ObserverFailsClosed
<1>1. ObserverInv => DenialIsToolFree
  BY DEF ObserverInv, ToolFree, Decides, DenialIsToolFree
<1>2. ObserverInv => TerminalIsWhole
  BY DEF ObserverInv, Whole, TerminalIsWhole
<1> QED
  BY <1>1, <1>2, ObserverInvHolds, PTL DEF ObserverFailsClosed
-----------------------------------------------------------------------------
(* What the session needs of its observer.                                 *)
(* What an event that passes leaves of the terminals. *)
LEMMA EventEnds ==
  ASSUME NEW o, Sound(o), ~o.failed, NEW e \in AnyEvent, ~Event(o, e).failed
  PROVE  LET n == Event(o, e) IN
         /\ n.expect = o.expect /\ n.tasks = o.tasks
         /\ o.terminal # "none" => n = o /\ e.kind = "changed"
         /\ e.kind # "terminal" =>
              n.terminal = o.terminal /\ n.terminals = o.terminals
         /\ e.kind = "terminal" =>
              /\ o.terminal = "none" /\ n.terminals = o.terminals + 1
              /\ n.terminal = "none" => o.expect = 2 /\ n.terminals = 1
<1> DEFINE n == Event(o, e)
<1>0. o \in Observers /\ o.terminals \in 0..2
  BY DEF Sound, Observers
<1>1. CASE o.terminal # "none"
  <2>1. n = o /\ e.kind = "changed"
    BY <1>1 DEF Event, Fail, Sound, Observers
  <2> QED
    BY <1>1, <2>1
<1>2. CASE o.terminal = "none"
  <2>1. Admitted(o, e)
    BY <1>2 DEF Event, Fail, Sound, Observers
  <2>2. n = IF e.kind = "terminal" THEN Terminated(Noted(o, e), e.status)
            ELSE Noted(o, e)
    BY <1>2, <2>1 DEF Event
  <2> DEFINE m == Noted(o, e)
  <2>3. /\ Sound(m) /\ m.failed = o.failed /\ m.terminal = o.terminal
        /\ m.expect = o.expect /\ m.tasks = o.tasks
    BY <2>1, NotedIsSound
  <2>4. m.terminals = o.terminals
    BY <1>0 DEF Noted, Observers
  <2> HIDE DEF m
  <2>5. CASE e.kind # "terminal"
    BY <1>2, <2>2, <2>3, <2>4, <2>5 DEF m
  <2>6. CASE e.kind = "terminal"
    <3> DEFINE s == e.status
    <3>1. n = Terminated(m, s)
      BY <2>2, <2>6 DEF m
    <3> HIDE DEF n, s
    <3>2. s \in {"completed", "failed"}
      BY <2>6 DEF s, AnyEvent, Plain, Malformed, Approvals, ToolEvents,
         ChildEvents, Terminals
    <3>3. n # Fail(m)
      BY <2>3 DEF n, Fail, Sound, Observers
    <3> DEFINE p == [m EXCEPT !.terminals = @ + 1, !.closes = TRUE,
                              !.turnTerminals = @ + 1]
    <3>4. \/ n = p /\ m.expect = 2 /\ p.terminals = 1
          \/ n = [p EXCEPT !.terminal = s]
      BY <3>1, <3>3 DEF Terminated
    <3>5. /\ p.terminals = m.terminals + 1 /\ p.expect = m.expect
          /\ p.tasks = m.tasks /\ p.terminal = m.terminal
          /\ [p EXCEPT !.terminal = s].terminal = s
          /\ [p EXCEPT !.terminal = s].terminals = p.terminals
          /\ [p EXCEPT !.terminal = s].expect = p.expect
          /\ [p EXCEPT !.terminal = s].tasks = p.tasks
      BY <2>3 DEF Sound, Observers
    <3> HIDE DEF p
    <3> QED
      BY <1>2, <2>3, <2>4, <2>6, <3>2, <3>4, <3>5 DEF n
  <2> QED
    BY <2>5, <2>6
<1> QED
  BY <1>1, <1>2

(* A snapshot and an answer leave the terminals alone. *)
LEMMA SnapshotKeeps ==
  ASSUME NEW o, Sound(o)
  PROVE  LET n == Snapshot(o) IN
         /\ Sound(n) /\ n.failed = o.failed /\ n.terminal = o.terminal
         /\ n.terminals = o.terminals /\ n.expect = o.expect
         /\ n.tasks = o.tasks
         /\ Whole(o) => Whole(n)
<1> DEFINE n == Snapshot(o)
<1>1. o \in Observers /\ o.terminals \in 0..2 /\ 0 \in 0..2
  BY DEF Sound, Observers
<1>2. n \in Observers
  BY <1>1 DEF Snapshot, Observers
<1>3. /\ n.failed = o.failed /\ n.terminal = o.terminal
      /\ n.terminals = o.terminals /\ n.expect = o.expect
      /\ n.tasks = o.tasks /\ n.phases = o.phases /\ n.linked = o.linked
      /\ n.taskCount = o.taskCount /\ n.pending = o.pending
      /\ n.active = o.active /\ n.turnTerminals = 0
  BY <1>1 DEF Snapshot, Observers
<1> HIDE DEF n
<1>4. Sound(n)
  BY <1>1, <1>2, <1>3 DEF Sound
<1>5. Whole(o) => Whole(n)
  BY <1>3 DEF Whole, DelegationOK, AllComplete
<1> QED
  BY <1>3, <1>4, <1>5 DEF n

(* An answer to a request leaves a sound record sound. *)
LEMMA RespondKeeps ==
  ASSUME NEW o, Sound(o), NEW r, NEW d \in {"allow", "deny"},
         o.terminal = "none"
  PROVE  LET n == Respond(o, r, d, TRUE) IN
         /\ Sound(n) /\ n.terminal = o.terminal
         /\ n.terminals = o.terminals /\ n.expect = o.expect
         /\ n.tasks = o.tasks
<1> DEFINE n == Respond(o, r, d, TRUE)
<1>1. CASE n = Fail(o)
  BY <1>1 DEF Fail, Sound, Observers
<1>2. CASE n # Fail(o)
  <2> DEFINE f == o.denied \/ d = "deny"
             g == o.recovery \/ (d = "allow" /\ o.denied)
             h == IF d = "deny" THEN TRUE
                  ELSE IF o.denied THEN FALSE ELSE o.guard
  <2>1. o \in Observers /\ f \in BOOLEAN /\ g \in BOOLEAN /\ h \in BOOLEAN
    BY DEF Sound, Observers
  <2>2. n = [o EXCEPT !.pending = NoOne, !.denied = f, !.recovery = g,
                      !.guard = h]
    BY <1>2 DEF Respond
  <2> HIDE DEF f, g, h, n
  <2>3. n \in Observers
    BY <2>1, <2>2 DEF Observers
  <2>4. /\ n.phases = o.phases /\ n.taskCount = o.taskCount
        /\ n.terminals = o.terminals /\ n.turnTerminals = o.turnTerminals
        /\ n.expect = o.expect /\ n.terminal = o.terminal
        /\ n.tasks = o.tasks
    BY <2>1, <2>2 DEF Observers
  <2> QED
    BY <2>3, <2>4 DEF Sound, n
<1> QED
  BY <1>1, <1>2

(* A new observer is sound. *)
LEMMA NewIsSound ==
  ASSUME NEW x \in {1, 2}, NEW n \in 0..MaxTasks
  PROVE  LET o == NewObserver(x, n) IN
         /\ Sound(o) /\ ~o.failed /\ o.terminal = "none"
         /\ o.terminals = 0 /\ o.expect = x /\ o.tasks = n
<1>1. NewObserver(x, n) \in Observers
  BY ObserverAssumption DEF NewObserver, Observers
<1> QED
  BY <1>1, ObserverAssumption DEF Sound, NewObserver

-----------------------------------------------------------------------------
(* Receipts and the snapshots they are matched with. *)
Matching(rs, ss, n) ==
  \E kept \in [1..Len(rs) -> 1..n] :
    \A i \in 1..Len(rs) : /\ ss[kept[i]] = rs[i].events
                          /\ i > 1 => kept[i - 1] < kept[i]
Receipts == Seq([row : Rows, events : SUBSET Nat])
Shots == Seq(SUBSET Nat)

(* No receipts match no snapshots. *)
LEMMA MatchingNone == Matching(<<>>, <<>>, 0)
<1> DEFINE k == [i \in 1..0 |-> 1]
<1>1. k \in [1..Len(<<>>) -> 1..0] /\ 1..Len(<<>>) = {}
  OBVIOUS
<1> QED
  BY <1>1 DEF Matching

(* Receipts that match the first snapshots match more of them. *)
LEMMA MatchingWider ==
  ASSUME NEW rs \in Receipts, NEW ss, NEW n \in Nat, NEW m \in Nat, n <= m,
         Matching(rs, ss, n)
  PROVE  Matching(rs, ss, m)
<1>1. \A k : k \in [1..Len(rs) -> 1..n] => k \in [1..Len(rs) -> 1..m]
  OBVIOUS
<1> QED
  BY <1>1 DEF Matching

(* One more snapshot leaves the receipts matching the earlier ones. *)
LEMMA MatchingShot ==
  ASSUME NEW rs \in Receipts, NEW ss \in Shots, NEW n \in 0..Len(ss),
         NEW x \in SUBSET Nat, Matching(rs, ss, n)
  PROVE  Matching(rs, Append(ss, x), n)
<1>1. PICK k \in [1..Len(rs) -> 1..n] :
        \A i \in 1..Len(rs) : /\ ss[k[i]] = rs[i].events
                              /\ i > 1 => k[i - 1] < k[i]
  BY DEF Matching
<1>2. \A j \in 1..n : Append(ss, x)[j] = ss[j]
  BY AppendProperties DEF Shots
<1>3. \A i \in 1..Len(rs) : k[i] \in 1..n
  BY <1>1
<1> QED
  BY <1>1, <1>2, <1>3 DEF Matching

(* A receipt with the next snapshot is one more match. *)
LEMMA MatchingNext ==
  ASSUME NEW rs \in Receipts, NEW ss \in Shots, NEW n \in 1..Len(ss),
         NEW r \in [row : Rows, events : SUBSET Nat],
         Matching(rs, ss, n - 1), ss[n] = r.events
  PROVE  Matching(Append(rs, r), ss, n)
<1>1. PICK k \in [1..Len(rs) -> 1..(n - 1)] :
        \A i \in 1..Len(rs) : /\ ss[k[i]] = rs[i].events
                              /\ i > 1 => k[i - 1] < k[i]
  BY DEF Matching
<1> DEFINE L == Len(rs)
           g == Append(rs, r)
           h == [i \in 1..(L + 1) |-> IF i = L + 1 THEN n ELSE k[i]]
<1>2. /\ L \in Nat /\ Len(g) = L + 1 /\ g[L + 1] = r
      /\ \A i \in 1..L : g[i] = rs[i]
  BY AppendProperties, LenProperties DEF Receipts
<1>3. \A i \in 1..L : k[i] \in 1..(n - 1)
  BY <1>1
<1> HIDE DEF g
<1>4. h \in [1..Len(g) -> 1..n]
  BY <1>2, <1>3
<1>5. ASSUME NEW i \in 1..Len(g)
      PROVE  ss[h[i]] = g[i].events /\ (i > 1 => h[i - 1] < h[i])
  <2>1. CASE i = L + 1
    BY <1>2, <1>3, <2>1
  <2>2. CASE i # L + 1
    <3>1. i \in 1..L /\ (i > 1 => i - 1 \in 1..L)
      BY <1>2, <2>2
    <3> QED
      BY <1>1, <1>2, <3>1
  <2> QED
    BY <2>1, <2>2
<1> QED
  BY <1>4, <1>5 DEF Matching, g

-----------------------------------------------------------------------------
(* The session. *)
LiveSpec == LiveInit /\ [][LiveNext]_liveVars

Sessions ==
  [started : BOOLEAN, closed : BOOLEAN, failed : BOOLEAN, stored : BOOLEAN,
   resumed : BOOLEAN, inventory : BOOLEAN, planned : Nat]
Ledgers ==
  [receipts : Receipts, rowTurns : [Rows -> Nat], row : Rows \cup {NoRow},
   calls : Nat]
GateStates ==
  [open : BOOLEAN, expect : {1, 2}, terminal : BOOLEAN, count : Nat,
   observer : Observers, seen : SUBSET (1..MaxIds)]
Turns ==
  [pc : {"submit", "events", "drain", "finish"}, row : Rows, auto : BOOLEAN,
   follow : BOOLEAN, decision : {"allow", "deny"},
   events : SUBSET (1..MaxIds), control : Nat, start : BOOLEAN,
   usage : BOOLEAN, drained : Nat, status : {"none", "completed", "failed"}]

LiveTyped ==
  /\ live \in Sessions /\ ledger \in Ledgers /\ gate \in GateStates
  /\ turn \in Turns \cup {NoTurn} /\ snapshots \in Shots
  /\ ids \in 0..MaxIds /\ restarts \in 0..MaxRestarts

(* The gateway is open from the start to the end of the session. *)
Opened ==
  /\ gate.open = (live.started /\ ~live.closed)
  /\ live.failed => ~gate.open
  /\ turn # NoTurn => gate.open

(* The row is bound by the first turn, and counts every receipt. *)
RowBound ==
  LET n == Len(ledger.receipts) IN
  /\ \A i \in 1..n : ledger.receipts[i].row = ledger.row
  /\ ledger.calls = n /\ (ledger.row = NoRow => n = 0)
  /\ \A r \in Rows : ledger.rowTurns[r] = IF r = ledger.row THEN n ELSE 0
  /\ ledger.row # NoRow => n <= RowBudget[ledger.row]
  /\ turn # NoTurn => turn.row = ledger.row /\ n < RowBudget[ledger.row]

(* The executor and the observer count the same events of a turn, and the  *)
(* last snapshot is the turn's from its terminal on.                       *)
HasEnded == turn.pc \in {"drain", "finish"}
TurnsOwed == IF HasEnded THEN 1 ELSE 0
Aligned ==
  /\ (gate.open \/ ~live.started) /\ turn.pc # "events" => gate.seen = {}
  /\ turn.pc = "events" /\ gate.observer.terminal = "none" =>
       gate.seen = turn.events
  /\ turn.pc = "submit" => turn.events = {}
  /\ HasEnded => /\ Len(snapshots) > 0
                 /\ snapshots[Len(snapshots)] = turn.events
  /\ Matching(ledger.receipts, snapshots, Len(snapshots) - TurnsOwed)
  /\ restarts = 0 /\ ~live.failed =>
       Len(snapshots) = Len(ledger.receipts) + TurnsOwed

(* The observer of a gate that is to see two terminals has seen one of     *)
(* them between two turns and in a delivery turn, or is at its end.        *)
Between == turn.pc \in {"none", "drain", "finish"}
           \/ (turn.pc = "events" /\ turn.auto)
Watched ==
  /\ Sound(gate.observer)
  /\ gate.observer.terminal # "none" => Whole(gate.observer)
  /\ gate.expect = 1 => gate.observer.expect = 1
  /\ ~live.started /\ gate.expect = 2 => ledger.row = NoRow
  /\ turn # NoTurn => turn.follow = (~turn.auto /\ gate.expect = 2)
  /\ turn.pc = "submit" => ~turn.auto
  /\ turn.pc = "drain" => gate.observer.terminal # "none"
  /\ gate.open /\ gate.expect = 2 /\ ledger.row # NoRow /\ Between
     /\ gate.observer.terminal = "none" =>
       gate.observer.expect = 2 /\ gate.observer.terminals > 0
  /\ HasEnded /\ turn.auto /\ gate.expect = 2 =>
       gate.observer.expect = 2 /\ gate.observer.terminal # "none"

LiveInv == LiveTyped /\ Opened /\ RowBound /\ Aligned /\ Watched

(* No turn is not a turn. *)
LEMMA NoTurnIs == NoTurn.pc = "none" /\ NoTurn \notin Turns
  BY DEF NoTurn, Turns

(* What a turn in progress finds. *)
LEMMA InProgress ==
  ASSUME LiveInv, turn # NoTurn
  PROVE  /\ turn \in Turns /\ gate.open /\ live.started /\ ~live.closed
         /\ ~live.failed /\ ledger.row \in Rows /\ turn.row = ledger.row
         /\ turn.pc # "none"
<1>1. turn \in Turns /\ gate.open /\ turn.row = ledger.row
  BY DEF LiveInv, LiveTyped, Opened, RowBound
<1>2. turn.row \in Rows /\ turn.pc # "none"
  BY <1>1 DEF Turns
<1>3. live.started /\ ~live.closed /\ ~live.failed
  BY <1>1 DEF LiveInv, LiveTyped, Opened, Sessions, GateStates
<1> QED
  BY <1>1, <1>2, <1>3

(* A turn that is somewhere is a turn. *)
LEMMA AtPc ==
  ASSUME LiveInv, turn.pc # "none"
  PROVE  turn # NoTurn
  BY NoTurnIs

(* A prompt finds the observer of the turn before, or a new one. *)
LEMMA RotatedIs ==
  ASSUME LiveInv
  PROVE  LET g == Rotated(gate) IN
         /\ g \in GateStates /\ g.open = gate.open /\ g.expect = gate.expect
         /\ g.count = gate.count /\ g.seen = gate.seen
         /\ Sound(g.observer)
         /\ g.observer.terminal # "none" => Whole(g.observer)
         /\ gate.expect = 1 => g.observer.expect = 1
         /\ \/ g = gate
            \/ g.observer.terminal = "none" /\ g.observer.expect = 1
<1>1. gate \in GateStates
  BY DEF LiveInv, LiveTyped
<1>2. CASE gate.terminal
  <2> DEFINE o == NewObserver(1, 0)
  <2>1. /\ Sound(o) /\ o.terminal = "none" /\ o.expect = 1
    BY NewIsSound, ObserverAssumption
  <2>2. o \in Observers
    BY <2>1 DEF Sound
  <2>3. Rotated(gate) = [gate EXCEPT !.observer = o, !.terminal = FALSE]
    BY <1>2 DEF Rotated
  <2> HIDE DEF o
  <2> QED
    BY <1>1, <2>1, <2>2, <2>3 DEF GateStates
<1>3. CASE ~gate.terminal
  BY <1>1, <1>3 DEF Rotated, LiveInv, Watched
<1> QED
  BY <1>2, <1>3

(* A session that fails is closed, and owes no receipt for its snapshot.   *)
LEMMA FailedKeeps ==
  ASSUME LiveInv, live.started, NEW g \in {gate, Rotated(gate)},
         FailedClosed(live, g), turn' = NoTurn, ids' \in 0..MaxIds,
         UNCHANGED <<ledger, snapshots, restarts>>
  PROVE  LiveInv'
<1>1. /\ live \in Sessions /\ gate \in GateStates /\ snapshots \in Shots
      /\ ledger.receipts \in Receipts
  BY DEF LiveInv, LiveTyped, Ledgers
<1>2. /\ live' \in Sessions /\ live'.failed /\ live'.closed
      /\ live'.started = live.started
  BY <1>1 DEF FailedClosed, Sessions
<1>3. /\ g \in GateStates /\ g.expect = gate.expect /\ Sound(g.observer)
      /\ g.observer.terminal # "none" => Whole(g.observer)
      /\ gate.expect = 1 => g.observer.expect = 1
  BY <1>1, RotatedIs DEF LiveInv, Watched
<1>4. /\ gate' \in GateStates /\ ~gate'.open /\ gate'.expect = g.expect
      /\ gate'.observer = g.observer
  BY <1>3 DEF FailedClosed, GateStates
<1>5. LiveTyped'
  BY <1>2, <1>4 DEF LiveInv, LiveTyped
<1>6. Opened'
  BY <1>2, <1>4 DEF Opened, Sessions, GateStates
<1>7. RowBound'
  BY DEF LiveInv, RowBound
<1>8. Aligned'
  <2>1. turn'.pc = "none"
    BY NoTurnIs
  <2>2. Matching(ledger.receipts, snapshots, Len(snapshots))
    <3>1. Len(snapshots) \in Nat /\ (HasEnded => Len(snapshots) > 0)
      BY <1>1 DEF LiveInv, Aligned, Shots
    <3> QED
      BY <1>1, <3>1, MatchingWider DEF LiveInv, Aligned, TurnsOwed
  <2>3. (Len(snapshots) - TurnsOwed)' = Len(snapshots)
    BY <1>1, <2>1 DEF TurnsOwed, HasEnded, Shots
  <2> QED
    BY <1>2, <1>4, <2>1, <2>2, <2>3 DEF Aligned, HasEnded, GateStates, Sessions
<1>9. Watched'
  BY <1>2, <1>3, <1>4, NoTurnIs DEF Watched, HasEnded, GateStates
<1> QED
  BY <1>5, <1>6, <1>7, <1>8, <1>9 DEF LiveInv

(* The session starts its gateway, or fails to. *)
LEMMA StartKeeps == LiveInv /\ Start => LiveInv'
<1> SUFFICES ASSUME LiveInv, Start PROVE LiveInv'
  OBVIOUS
<1>1. /\ live \in Sessions /\ gate \in GateStates /\ turn = NoTurn
      /\ ~live.started /\ ~live.closed /\ ~live.failed
      /\ UNCHANGED <<ledger, turn, snapshots, ids, restarts>>
  BY DEF LiveInv, LiveTyped, Start
<1>2. CASE /\ live' = [live EXCEPT !.started = TRUE, !.stored = TRUE]
           /\ gate' = [gate EXCEPT !.open = TRUE]
  <2>1. /\ live' \in Sessions /\ live'.started /\ ~live'.closed
        /\ ~live'.failed
    BY <1>1, <1>2 DEF Sessions
  <2>2. /\ gate' \in GateStates /\ gate'.open /\ gate'.expect = gate.expect
        /\ gate'.observer = gate.observer /\ gate'.seen = gate.seen
    BY <1>1, <1>2 DEF GateStates
  <2>3. LiveTyped' /\ Opened'
    BY <1>1, <2>1, <2>2 DEF LiveInv, LiveTyped, Opened
  <2>4. RowBound'
    BY <1>1 DEF LiveInv, RowBound
  <2>5. Aligned'
    BY <1>1, <2>1, <2>2 DEF LiveInv, Aligned, TurnsOwed, HasEnded
  <2>6. Watched'
    BY <1>1, <2>1, <2>2 DEF LiveInv, Watched, HasEnded, Between
  <2> QED
    BY <2>3, <2>4, <2>5, <2>6 DEF LiveInv
<1>3. CASE live' = [live EXCEPT !.failed = TRUE] /\ UNCHANGED gate
  <2>1. /\ live' \in Sessions /\ ~live'.started /\ live'.failed
        /\ live'.closed = live.closed
    BY <1>1, <1>3 DEF Sessions
  <2>2. ~gate.open
    BY <1>1 DEF LiveInv, Opened
  <2>3. LiveTyped' /\ Opened'
    BY <1>1, <1>3, <2>1, <2>2 DEF LiveInv, LiveTyped, Opened
  <2>4. RowBound'
    BY <1>1 DEF LiveInv, RowBound
  <2>5. Aligned'
    BY <1>1, <1>3, <2>1 DEF LiveInv, Aligned, TurnsOwed, HasEnded
  <2>6. Watched'
    BY <1>1, <1>3, <2>1 DEF LiveInv, Watched, HasEnded, Between
  <2> QED
    BY <2>3, <2>4, <2>5, <2>6 DEF LiveInv
<1> QED
  BY <1>2, <1>3 DEF Start

(* What leaves ledger and turn alone keeps the lineage within its row. *)
LEMMA SameLedger ==
  LiveInv /\ UNCHANGED <<ledger, turn>> => RowBound'
  BY DEF LiveInv, RowBound

(* Nothing happens. *)
LEMMA LiveStutters == LiveInv /\ UNCHANGED liveVars => LiveInv'
<1> SUFFICES ASSUME LiveInv, UNCHANGED liveVars PROVE LiveInv'
  OBVIOUS
<1>1. LiveTyped' /\ Opened'
  BY DEF liveVars, LiveInv, LiveTyped, Opened
<1>2. RowBound'
  BY SameLedger DEF liveVars
<1>3. Aligned'
  BY DEF liveVars, LiveInv, Aligned, TurnsOwed, HasEnded
<1>4. Watched'
  BY DEF liveVars, LiveInv, Watched, HasEnded, Between
<1> QED
  BY <1>1, <1>2, <1>3, <1>4 DEF LiveInv

(* The tool inventory is verified. *)
LEMMA VerifyKeeps == LiveInv /\ VerifyToolInventory => LiveInv'
<1> SUFFICES ASSUME LiveInv, VerifyToolInventory PROVE LiveInv'
  OBVIOUS
<1>1. /\ live \in Sessions /\ turn = NoTurn /\ live.started
      /\ ids \in 0..MaxIds
      /\ UNCHANGED <<ledger, turn, snapshots, ids, restarts>>
  BY DEF LiveInv, LiveTyped, VerifyToolInventory, Started
<1>2. CASE live' = [live EXCEPT !.inventory = TRUE] /\ UNCHANGED gate
  <2>1. /\ live' \in Sessions /\ live'.started = live.started
        /\ live'.failed = live.failed /\ live'.closed = live.closed
    BY <1>1, <1>2 DEF Sessions
  <2>2. LiveTyped' /\ Opened' /\ RowBound'
    BY <1>1, <1>2, <2>1, SameLedger DEF LiveInv, LiveTyped, Opened
  <2>3. Aligned'
    BY <1>1, <1>2, <2>1 DEF LiveInv, Aligned, TurnsOwed, HasEnded
  <2>4. Watched'
    BY <1>1, <1>2, <2>1 DEF LiveInv, Watched, HasEnded, Between
  <2> QED
    BY <2>2, <2>3, <2>4 DEF LiveInv
<1>3. CASE FailedClosed(live, gate)
  BY <1>1, <1>3, FailedKeeps
<1> QED
  BY <1>2, <1>3 DEF VerifyToolInventory

(* A path the session refuses to run fails it. *)
LEMMA OtherPathKeeps == LiveInv /\ RunOtherPath => LiveInv'
  BY FailedKeeps DEF RunOtherPath, Started, LiveInv, LiveTyped

(* The session is closed. *)
LEMMA CloseKeeps == LiveInv /\ CloseSession => LiveInv'
<1> SUFFICES ASSUME LiveInv, CloseSession PROVE LiveInv'
  OBVIOUS
<1>1. /\ live \in Sessions /\ gate \in GateStates /\ turn = NoTurn
      /\ gate' = [gate EXCEPT !.open = FALSE]
      /\ UNCHANGED <<ledger, turn, snapshots, ids, restarts>>
  BY DEF LiveInv, LiveTyped, CloseSession
<1>2. PICK fails \in BOOLEAN :
        live' = [live EXCEPT !.closed = TRUE, !.failed = @ \/ fails]
  BY DEF CloseSession
<1>3. /\ live' \in Sessions /\ live'.closed /\ live'.started = live.started
      /\ live.failed => live'.failed
  BY <1>1, <1>2 DEF Sessions
<1>4. /\ gate' \in GateStates /\ ~gate'.open /\ gate'.expect = gate.expect
      /\ gate'.observer = gate.observer /\ gate'.seen = gate.seen
  BY <1>1 DEF GateStates
<1>5. LiveTyped' /\ Opened' /\ RowBound'
  <2>1. LiveTyped'
    BY <1>1, <1>3, <1>4 DEF LiveInv, LiveTyped
  <2>2. Opened'
    BY <1>1, <1>3, <1>4 DEF Opened, GateStates, Sessions
  <2> QED
    BY <1>1, <2>1, <2>2, SameLedger
<1>6. Aligned'
  BY <1>1, <1>3, <1>4 DEF LiveInv, Aligned, TurnsOwed, HasEnded
<1>7. Watched'
  BY <1>1, <1>3, <1>4 DEF LiveInv, Watched, Between, HasEnded
<1> QED
  BY <1>5, <1>6, <1>7 DEF LiveInv

(* The evidence is collected from a session that is whole. *)
LEMMA CollectKeeps == LiveInv /\ Collect => LiveInv'
<1> SUFFICES ASSUME LiveInv, Collect PROVE LiveInv'
  OBVIOUS
<1>1. CASE UNCHANGED <<live, gate>>
  BY <1>1, LiveStutters DEF Collect, liveVars
<1>2. CASE FailedClosed(live, gate)
  BY <1>2, FailedKeeps DEF Collect, LiveInv, LiveTyped
<1> QED
  BY <1>1, <1>2 DEF Collect

(* A budget is a positive number. *)
LEMMA BudgetIsNat ==
  ASSUME NEW n \in Budgets
  PROVE  n \in Nat /\ n > 0
  BY SessionAssumption DEF Budgets

(* A session and its gate as they are made. *)
LEMMA NewIsTyped ==
  ASSUME NEW n \in Budgets, NEW b \in BOOLEAN, NEW x \in {1, 2},
         NEW t \in 0..MaxTasks
  PROVE  /\ NewSession(n, b) \in Sessions /\ ~NewSession(n, b).started
         /\ ~NewSession(n, b).closed /\ ~NewSession(n, b).failed
         /\ NewGate(x, t) \in GateStates /\ ~NewGate(x, t).open
         /\ NewGate(x, t).seen = {} /\ NewGate(x, t).expect = x
         /\ NewGate(x, t).observer = NewObserver(x, t)
<1>1. NewObserver(x, t) \in Observers
  BY NewIsSound DEF Sound
<1> QED
  BY <1>1, BudgetIsNat DEF NewSession, NewGate, Sessions, GateStates

(* The session is restarted on a new gateway, within the budget of its     *)
(* row.                                                                    *)
LEMMA RestartKeeps == LiveInv /\ Restart => LiveInv'
<1> SUFFICES ASSUME LiveInv, Restart PROVE LiveInv'
  OBVIOUS
<1>1. /\ turn = NoTurn /\ restarts' = restarts + 1
      /\ restarts \in 0..MaxRestarts /\ restarts < MaxRestarts
      /\ UNCHANGED <<ledger, turn, snapshots, ids>>
  BY DEF LiveInv, LiveTyped, Restart, Copied
<1>2. PICK n \in Budgets : live' = NewSession(n, TRUE)
  BY DEF Restart
<1>3. gate' = NewGate(1, 0) /\ 0 \in 0..MaxTasks
  BY ObserverAssumption DEF Restart
<1>4. /\ live' \in Sessions /\ ~live'.started /\ ~live'.closed
      /\ ~live'.failed /\ gate' \in GateStates /\ ~gate'.open
      /\ gate'.seen = {} /\ gate'.expect = 1
      /\ gate'.observer = NewObserver(1, 0)
  BY <1>2, <1>3, NewIsTyped
<1>5. /\ Sound(NewObserver(1, 0)) /\ NewObserver(1, 0).terminal = "none"
      /\ NewObserver(1, 0).expect = 1
  BY <1>3, NewIsSound
<1>6. restarts' \in 0..MaxRestarts /\ restarts' # 0
  BY <1>1, SessionAssumption
<1>7. LiveTyped' /\ Opened' /\ RowBound'
  <2>1. LiveTyped'
    BY <1>1, <1>4, <1>6 DEF LiveInv, LiveTyped
  <2>2. Opened'
    BY <1>1, <1>4 DEF Opened, GateStates, Sessions
  <2> QED
    BY <1>1, <2>1, <2>2, SameLedger
<1>8. Aligned'
  BY <1>1, <1>4, <1>6, NoTurnIs DEF LiveInv, Aligned, TurnsOwed, HasEnded
<1>9. Watched'
  BY <1>1, <1>4, <1>5, NoTurnIs DEF LiveInv, Watched, HasEnded
<1> QED
  BY <1>7, <1>8, <1>9 DEF LiveInv

(* The first turn binds the row; a row that admits a turn has one left.    *)
LEMMA AdmittedRow ==
  ASSUME LiveInv, NEW row \in Rows, RowAdmits(row)
  PROVE  LET n == Len(ledger.receipts) IN
         /\ ledger.row \in {NoRow, row} /\ n < RowBudget[row]
         /\ \A i \in 1..n : ledger.receipts[i].row = row
         /\ \A r \in Rows : ledger.rowTurns[r] = IF r = row THEN n ELSE 0
<1>1. /\ ledger.row \in {NoRow, row}
      /\ ledger.rowTurns[row] < RowBudget[row] /\ ledger \in Ledgers
      /\ RowBound
  BY DEF RowAdmits, LiveInv, LiveTyped
<1>2. row # NoRow /\ RowBudget[row] \in 1..4
  BY SessionAssumption
<1>3. CASE ledger.row = NoRow
  <2>1. Len(ledger.receipts) = 0 /\ \A r \in Rows : ledger.rowTurns[r] = 0
    BY <1>1, <1>3, SessionAssumption DEF RowBound
  <2> QED
    BY <1>1, <1>2, <2>1
<1>4. CASE ledger.row = row
  BY <1>1, <1>2, <1>4 DEF RowBound
<1> QED
  BY <1>1, <1>3, <1>4

(* A turn that begins, submitted or delivered. *)
LEMMA BeginKeeps ==
  ASSUME LiveInv, turn = NoTurn, Started, NEW row \in Rows, RowAdmits(row),
         NEW auto \in BOOLEAN, NEW d \in {"allow", "deny"},
         auto => ledger.row # NoRow,
         ledger' = [ledger EXCEPT !.row = row],
         turn' = NewTurn(row, auto, ~auto /\ gate.expect = 2, d),
         UNCHANGED <<live, gate, snapshots, ids, restarts>>
  PROVE  LiveInv'
<1>1. /\ ledger \in Ledgers /\ gate.open /\ gate \in GateStates
  BY DEF LiveInv, LiveTyped, Opened, Started
<1>2. /\ ledger' \in Ledgers /\ ledger'.row = row
      /\ ledger'.receipts = ledger.receipts
      /\ ledger'.rowTurns = ledger.rowTurns /\ ledger'.calls = ledger.calls
  BY <1>1 DEF Ledgers
<1>3. /\ turn' \in Turns /\ turn'.row = row /\ turn'.events = {}
      /\ turn'.auto = auto /\ turn'.follow = (~auto /\ gate.expect = 2)
      /\ turn'.pc = IF auto THEN "events" ELSE "submit"
  BY DEF NewTurn, Turns
<1>4. turn' # NoTurn /\ turn.pc = "none"
  BY <1>3, NoTurnIs
<1>5. LiveTyped' /\ Opened'
  BY <1>1, <1>2, <1>3 DEF LiveInv, LiveTyped, Opened
<1>6. RowBound'
  <2>1. row # NoRow /\ RowBudget[row] \in 1..4 /\ Len(ledger.receipts) \in Nat
    BY <1>1, SessionAssumption DEF Ledgers, Receipts
  <2>2. ledger.calls = Len(ledger.receipts)
    BY DEF LiveInv, RowBound
  <2> QED
    BY <1>2, <1>3, <2>1, <2>2, AdmittedRow DEF RowBound
<1>7. Aligned'
  <2>1. TurnsOwed = 0 /\ TurnsOwed' = 0 /\ ~HasEnded'
    BY <1>3, <1>4 DEF TurnsOwed, HasEnded
  <2> QED
    BY <1>1, <1>2, <1>3, <1>4, <2>1 DEF LiveInv, Aligned
<1>8. Watched'
  <2>1. ~HasEnded' /\ (Between' <=> auto) /\ turn'.pc # "drain"
    BY <1>3 DEF HasEnded, Between
  <2>2. live.started /\ Between
    BY <1>4 DEF Started, Between
  <2> QED
    BY <1>1, <1>2, <1>3, <2>1, <2>2 DEF LiveInv, Watched
<1> QED
  BY <1>5, <1>6, <1>7, <1>8 DEF LiveInv

(* A turn begins: within the row and the budget, or it fails the session. *)
LEMMA RunTurnKeeps ==
  ASSUME LiveInv, NEW row \in Rows, NEW d \in {"allow", "deny"},
         RunTurn(row, d)
  PROVE  LiveInv'
<1>1. /\ turn = NoTurn /\ Started /\ UNCHANGED <<snapshots, ids, restarts>>
      /\ gate.expect \in {1, 2} /\ ids \in 0..MaxIds /\ live.started
  BY DEF RunTurn, LiveInv, LiveTyped, GateStates, Started
<1>2. CASE Budgeted /\ RowAdmits(row)
  BY <1>1, <1>2, BeginKeeps DEF RunTurn
<1>3. CASE ~(Budgeted /\ RowAdmits(row))
  BY <1>1, <1>3, FailedKeeps DEF RunTurn
<1> QED
  BY <1>2, <1>3

(* A turn that only observes a delivery begins. *)
LEMMA DeliveryKeeps ==
  ASSUME LiveInv, NEW row \in Rows, ObserveDeliveryTurn(row)
  PROVE  LiveInv'
<1>1. /\ turn = NoTurn /\ Started /\ ledger.row # NoRow
      /\ UNCHANGED <<ledger, snapshots, ids, restarts>>
      /\ gate.expect \in {1, 2} /\ ids \in 0..MaxIds /\ live.started
      /\ ledger \in Ledgers
  BY DEF ObserveDeliveryTurn, LiveInv, LiveTyped, GateStates, Started
<1>2. CASE Budgeted /\ RowAdmits(row)
  <2>1. ledger.row = row
    BY <1>1, <1>2 DEF RowAdmits
  <2>2. ledger' = [ledger EXCEPT !.row = row]
    BY <1>1, <2>1 DEF Ledgers
  <2> QED
    BY <1>1, <1>2, <2>2, BeginKeeps DEF ObserveDeliveryTurn
<1>3. CASE ~(Budgeted /\ RowAdmits(row))
  BY <1>1, <1>3, FailedKeeps DEF ObserveDeliveryTurn
<1> QED
  BY <1>2, <1>3

(* The prompt is submitted, or the gateway refuses it. *)
LEMMA SubmitKeeps == LiveInv /\ Submit => LiveInv'
<1> SUFFICES ASSUME LiveInv, Submit PROVE LiveInv'
  OBVIOUS
<1> DEFINE g == Rotated(gate)
<1>1. /\ turn.pc = "submit" /\ UNCHANGED <<snapshots, ids, restarts>>
      /\ ids \in 0..MaxIds
  BY DEF Submit, LiveInv, LiveTyped
<1>2. /\ turn # NoTurn /\ turn \in Turns /\ live.started /\ gate.open
  BY <1>1, InProgress, AtPc
<1>3. CASE /\ gate' = g /\ UNCHANGED <<live, ledger>>
           /\ turn' = [turn EXCEPT !.pc = "events", !.control = @ + 1]
  <2>1. /\ turn' \in Turns /\ turn'.pc = "events" /\ turn'.row = turn.row
        /\ turn'.events = turn.events /\ turn'.auto = turn.auto
        /\ turn'.follow = turn.follow
    <3>1. turn.control + 1 \in Nat
      BY <1>2 DEF Turns
    <3> QED
      BY <1>2, <1>3, <3>1 DEF Turns
  <2>2. turn' # NoTurn
    BY <2>1, NoTurnIs
  <2>3. LiveTyped' /\ Opened'
    BY <1>1, <1>2, <1>3, <2>1, RotatedIs DEF LiveInv, LiveTyped, Opened
  <2>4. RowBound'
    BY <1>2, <1>3, <2>1 DEF LiveInv, RowBound
  <2>5. Aligned'
    <3>1. /\ TurnsOwed = 0 /\ TurnsOwed' = 0 /\ ~HasEnded'
      BY <1>1, <2>1 DEF TurnsOwed, HasEnded
    <3>2. turn.events = {} /\ gate.seen = {}
      BY <1>1, <1>2 DEF LiveInv, Aligned
    <3> QED
      BY <1>1, <1>2, <1>3, <2>1, <3>1, <3>2, RotatedIs DEF LiveInv, Aligned
  <2>6. Watched'
    <3>1. ~turn.auto
      BY <1>1 DEF LiveInv, Watched
    <3> QED
      BY <1>1, <1>2, <1>3, <2>1, <2>2, <3>1, RotatedIs
         DEF LiveInv, Watched, HasEnded, Between
  <2> QED
    BY <2>3, <2>4, <2>5, <2>6 DEF LiveInv
<1>4. CASE TurnFails(g)
  BY <1>1, <1>2, <1>4, FailedKeeps DEF TurnFails
<1> QED
  BY <1>3, <1>4 DEF Submit

(* What the gate makes of an event that passes, and of its answer.         *)
Onward(o, n) ==
  /\ Sound(n) /\ n.expect = o.expect /\ n.tasks = o.tasks
  /\ n.terminal # "none" => Whole(n)
  /\ n.terminal = "none" => o.terminal = "none"
  /\ n.terminals >= o.terminals
(* What the observer makes of an event is a gate the session can be at. *)
LEMMA ObservedIs ==
  ASSUME LiveInv, NEW e \in AnyEvent, Passes(gate, e), ids < MaxIds
  PROVE  LET o == gate.observer
             g == Observed(gate, e)
         IN  /\ g \in GateStates
             /\ g.open = gate.open /\ g.expect = gate.expect
             /\ Onward(o, g.observer)
             /\ StatusOf(e) \in {"none", "completed", "failed"}
             /\ e.kind = "approval" => g.observer.terminal = "none"
             /\ o.terminal # "none" =>
                  g.observer.terminal # "none" /\ StatusOf(e) = "none"
             /\ StatusOf(e) = "none" =>
                  g.seen = IF o.terminal = "none" THEN gate.seen \cup {ids + 1}
                           ELSE gate.seen
             /\ StatusOf(e) # "none" =>
                  /\ g.seen = {} /\ o.terminal = "none"
                  /\ e.kind = "terminal"
                  /\ g.observer.terminals = o.terminals + 1
                  /\ g.observer.terminal = "none" =>
                       o.expect = 2 /\ g.observer.terminals = 1
<1> DEFINE o == gate.observer
           n == Event(o, e)
           s == IF o.terminal = "none" THEN gate.seen \cup {ids + 1}
                ELSE gate.seen
           t == (gate.expect = 1 \/ gate.count + 1 = gate.expect)
           g == Observed(gate, e)
<1>1. /\ gate \in GateStates /\ Sound(o) /\ ~o.failed /\ ~n.failed
      /\ o.terminal # "none" => Whole(o)
      /\ o.terminals \in 0..2 /\ gate.count \in Nat
  BY DEF LiveInv, LiveTyped, Watched, Passes, Sound, Observers, GateStates
<1>2. /\ Sound(n) /\ (n.terminal # "none" => Whole(n))
  BY <1>1, EventIsSound
<1>3. /\ n.expect = o.expect /\ n.tasks = o.tasks
      /\ o.terminal # "none" => n = o /\ e.kind = "changed"
      /\ e.kind # "terminal" =>
           n.terminal = o.terminal /\ n.terminals = o.terminals
      /\ e.kind = "terminal" =>
           /\ o.terminal = "none" /\ n.terminals = o.terminals + 1
           /\ n.terminal = "none" => o.expect = 2 /\ n.terminals = 1
  BY <1>1, EventEnds
<1>4. s \in SUBSET (1..MaxIds) /\ t \in BOOLEAN /\ n \in Observers
  BY <1>1, <1>2, SessionAssumption DEF LiveInv, LiveTyped, GateStates, Sound
<1>5. e.kind = "approval" => o.terminal = "none"
  BY <1>3
<1>6. e.kind = "terminal" => e.status \in {"completed", "failed"}
  BY DEF AnyEvent, Plain, Malformed, Approvals, ToolEvents, ChildEvents,
     Terminals
<1>7. /\ StatusOf(e) \in {"none", "completed", "failed"}
      /\ StatusOf(e) # "none" => e.kind = "terminal"
  BY <1>6 DEF StatusOf
<1>8. Onward(o, n)
  BY <1>1, <1>2, <1>3 DEF Onward
<1>9. CASE StatusOf(e) = "none"
  <2>1. g = [gate EXCEPT !.observer = n, !.seen = s]
    BY <1>9 DEF Observed
  <2> HIDE DEF n, s, g
  <2>2. /\ g \in GateStates /\ g.open = gate.open /\ g.expect = gate.expect
        /\ g.observer = n /\ g.seen = s
    BY <1>1, <1>4, <2>1 DEF GateStates
  <2> QED
    BY <1>3, <1>5, <1>7, <1>8, <1>9, <2>2 DEF g, s
<1>10. CASE StatusOf(e) # "none"
  <2> DEFINE p == Snapshot(n)
             g1 == [gate EXCEPT !.observer = n, !.seen = s]
  <2>1. g = [g1 EXCEPT !.observer = Snapshot(@), !.seen = {}, !.count = @ + 1,
                       !.terminal = t]
    BY <1>10 DEF Observed
  <2>2. /\ Sound(p) /\ p.terminal = n.terminal
        /\ p.terminals = n.terminals /\ p.expect = n.expect
        /\ p.tasks = n.tasks /\ (Whole(n) => Whole(p)) /\ p \in Observers
    BY <1>2, SnapshotKeeps DEF Sound
  <2> HIDE DEF n, s, t, g, p
  <2>3. /\ g1 \in GateStates /\ g1.open = gate.open /\ g1.expect = gate.expect
        /\ g1.observer = n /\ g1.seen = s /\ g1.count = gate.count
    BY <1>1, <1>4 DEF GateStates
  <2> HIDE DEF g1
  <2>4. g = [g1 EXCEPT !.observer = p, !.seen = {}, !.count = gate.count + 1,
                       !.terminal = t]
    BY <2>1, <2>3 DEF p
  <2>5. gate.count + 1 \in Nat
    BY <1>1
  <2>6. /\ g \in GateStates /\ g.open = g1.open /\ g.expect = g1.expect
        /\ g.observer = p /\ g.seen = {}
    BY <1>4, <2>2, <2>3, <2>4, <2>5 DEF GateStates
  <2>7. Onward(o, p)
    BY <1>2, <1>8, <2>2 DEF Onward
  <2> QED
    BY <1>3, <1>7, <1>10, <2>2, <2>3, <2>6, <2>7 DEF g
<1> QED
  BY <1>9, <1>10

(* So is what an answer to an approval makes of it. *)
LEMMA AnsweredIs ==
  ASSUME NEW o, NEW g \in GateStates, Onward(o, g.observer), NEW e,
         e.kind = "approval" => g.observer.terminal = "none",
         turn.decision \in {"allow", "deny"}
  PROVE  LET h == Answered(g, e) IN
         /\ h \in GateStates /\ h.open = g.open /\ h.expect = g.expect
         /\ h.seen = g.seen /\ Onward(o, h.observer)
         /\ h.observer.terminal = g.observer.terminal
         /\ h.observer.terminals = g.observer.terminals
<1>1. CASE e.kind # "approval"
  BY <1>1 DEF Answered
<1>2. CASE e.kind = "approval"
  <2> DEFINE n == g.observer
             p == Respond(n, e.request, turn.decision, TRUE)
  <2>1. /\ Sound(p) /\ p.terminal = n.terminal
        /\ p.terminals = n.terminals /\ p.expect = n.expect
        /\ p.tasks = n.tasks /\ n.terminal = "none"
    BY <1>2, RespondKeeps DEF Onward
  <2>2. p \in Observers
    BY <2>1 DEF Sound
  <2>3. Answered(g, e) = [g EXCEPT !.observer = p]
    BY <1>2 DEF Answered
  <2>4. Onward(o, p)
    BY <2>1 DEF Onward
  <2> HIDE DEF p
  <2> QED
    BY <2>1, <2>2, <2>3, <2>4 DEF GateStates
<1> QED
  BY <1>1, <1>2

(* The turn reads one event, and goes on, ends, drains or fails. *)
LEMMA TurnEventKeeps == LiveInv /\ TurnEvent => LiveInv'
<1> SUFFICES ASSUME LiveInv, TurnEvent PROVE LiveInv'
  OBVIOUS
<1>1. /\ turn.pc = "events" /\ ids < MaxIds /\ ids' = ids + 1
      /\ UNCHANGED restarts /\ ids \in 0..MaxIds
  BY DEF TurnEvent, LiveInv, LiveTyped
<1>2. /\ turn # NoTurn /\ turn \in Turns /\ live.started /\ gate.open
      /\ ~live.failed /\ ledger.row \in Rows
  BY <1>1, InProgress, AtPc
<1>3. ids' \in 0..MaxIds /\ ids + 1 \in 1..MaxIds
  BY <1>1, SessionAssumption
<1>4. PICK e \in LiveEvents :
        IF Passes(gate, e) /\ (e.kind = "approval" =>
                                 turn.control < ControlLimit)
        THEN /\ gate' = Answered(Observed(gate, e), e)
             /\ turn' = AfterEvent(e)
             /\ snapshots' = IF StatusOf(e) = "none" THEN snapshots
                             ELSE Append(snapshots,
                                         gate.seen \cup {ids + 1})
             /\ UNCHANGED <<live, ledger>>
        ELSE TurnFails(gate) /\ UNCHANGED snapshots
  BY DEF TurnEvent
<1>5. e \in AnyEvent
  BY SessionAssumption
<1>6. CASE ~(Passes(gate, e) /\ (e.kind = "approval" =>
                                   turn.control < ControlLimit))
  BY <1>1, <1>2, <1>3, <1>4, <1>6, FailedKeeps DEF TurnFails
<1>7. CASE Passes(gate, e) /\ (e.kind = "approval" =>
                                 turn.control < ControlLimit)
  <2> DEFINE o == gate.observer
             g == Observed(gate, e)
             h == Answered(g, e)
             st == StatusOf(e)
  <2>1. /\ g \in GateStates /\ g.open = gate.open /\ g.expect = gate.expect
        /\ Onward(o, g.observer) /\ st \in {"none", "completed", "failed"}
        /\ e.kind = "approval" => g.observer.terminal = "none"
        /\ o.terminal # "none" =>
             g.observer.terminal # "none" /\ st = "none"
        /\ st = "none" =>
             g.seen = IF o.terminal = "none" THEN gate.seen \cup {ids + 1}
                      ELSE gate.seen
        /\ st # "none" =>
             /\ g.seen = {} /\ o.terminal = "none"
             /\ g.observer.terminals = o.terminals + 1
             /\ g.observer.terminal = "none" =>
                  o.expect = 2 /\ g.observer.terminals = 1
    BY <1>1, <1>5, <1>7, ObservedIs
  <2>2. turn.decision \in {"allow", "deny"}
    BY <1>2 DEF Turns
  <2> HIDE DEF g, st
  <2>3. /\ h \in GateStates /\ h.open = g.open /\ h.expect = g.expect
        /\ h.seen = g.seen /\ Onward(o, h.observer)
        /\ h.observer.terminal = g.observer.terminal
        /\ h.observer.terminals = g.observer.terminals
    BY <2>1, <2>2, AnsweredIs
  <2> HIDE DEF h
  <2>4. gate' = h /\ turn' = AfterEvent(e) /\ UNCHANGED <<live, ledger>>
    BY <1>4, <1>7 DEF h, g
  <2>5. /\ turn' \in Turns /\ turn'.row = turn.row /\ turn'.auto = turn.auto
        /\ turn'.events = turn.events \cup {ids + 1}
        /\ turn'.follow = turn.follow
        /\ turn'.pc = IF st = "none" THEN "events"
                      ELSE IF turn.follow THEN "finish" ELSE "drain"
    <3> DEFINE a == turn.start \/ e.kind = "start"
               b == turn.usage \/ (turn.start /\ e.kind = "usage")
               c == IF e.kind = "approval" THEN turn.control + 1
                    ELSE turn.control
               d == IF st = "none" THEN "events"
                    ELSE IF turn.follow THEN "finish" ELSE "drain"
               x == turn.events \cup {ids + 1}
    <3>1. /\ a \in BOOLEAN /\ b \in BOOLEAN /\ c \in Nat
          /\ d \in {"events", "drain", "finish"} /\ x \in SUBSET (1..MaxIds)
      BY <1>2, <1>3 DEF Turns
    <3>2. turn' = [turn EXCEPT !.events = x, !.status = st, !.start = a,
                               !.usage = b, !.control = c, !.pc = d]
      BY <1>2, <2>4 DEF AfterEvent, Counted, st, Turns
    <3> HIDE DEF a, b, c, d, x
    <3>3. turn' \in Turns
      BY <1>2, <2>1, <3>1, <3>2 DEF Turns
    <3>4. /\ turn'.row = turn.row /\ turn'.auto = turn.auto
          /\ turn'.events = x /\ turn'.follow = turn.follow /\ turn'.pc = d
      BY <1>2, <3>2 DEF Turns
    <3> QED
      BY <3>3, <3>4 DEF x, d
  <2>6. turn' # NoTurn
    BY <2>5, NoTurnIs
  <2>7. snapshots' = IF st = "none" THEN snapshots
                     ELSE Append(snapshots, gate.seen \cup {ids + 1})
    BY <1>4, <1>7 DEF st
  <2>8. /\ snapshots \in Shots /\ Len(snapshots) \in Nat
        /\ gate.seen \cup {ids + 1} \in SUBSET Nat
        /\ ledger.receipts \in Receipts
    BY <1>1 DEF LiveInv, LiveTyped, GateStates, Shots, Ledgers
  <2>9. snapshots' \in Shots
    BY <2>7, <2>8, AppendProperties DEF Shots
  <2>10. LiveTyped' /\ Opened'
    BY <1>1, <1>2, <1>3, <2>1, <2>3, <2>4, <2>5, <2>9
       DEF LiveInv, LiveTyped, Opened
  <2>11. RowBound'
    BY <1>2, <2>4, <2>5 DEF LiveInv, RowBound
  <2>12. Aligned'
    <3>1. CASE st = "none"
      <4>1. /\ TurnsOwed = 0 /\ TurnsOwed' = 0
            /\ ~HasEnded' /\ turn'.pc = "events"
        BY <1>1, <2>5, <3>1 DEF TurnsOwed, HasEnded
      <4>2. gate'.observer.terminal = "none" =>
              o.terminal = "none" /\ gate.seen = turn.events
        BY <1>1, <2>3, <2>4 DEF LiveInv, Aligned, Onward
      <4> QED
        BY <1>1, <2>1, <2>3, <2>4, <2>5, <2>7, <3>1, <4>1, <4>2
           DEF LiveInv, Aligned
    <3>2. CASE st # "none"
      <4>1. /\ TurnsOwed = 0 /\ TurnsOwed' = 1 /\ HasEnded'
            /\ turn'.pc \notin {"events", "submit"}
        BY <1>1, <2>5, <3>2 DEF TurnsOwed, HasEnded
      <4>2. gate.seen = turn.events
        BY <1>1, <2>1, <3>2 DEF LiveInv, Aligned
      <4>3. /\ Len(snapshots') = Len(snapshots) + 1
            /\ snapshots'[Len(snapshots) + 1] = turn'.events
        BY <2>5, <2>7, <2>8, <3>2, <4>2, AppendProperties DEF Shots
      <4>4. Matching(ledger.receipts, snapshots', Len(snapshots))
        <5>1. Matching(ledger.receipts, snapshots, Len(snapshots))
          BY <2>8, <4>1 DEF LiveInv, Aligned
        <5> QED
          BY <2>7, <2>8, <3>2, <5>1, MatchingShot
      <4>5. (Len(snapshots) - TurnsOwed)' = Len(snapshots)
        BY <2>8, <4>1, <4>3
      <4>6. restarts = 0 /\ ~live.failed =>
              Len(snapshots') = Len(ledger.receipts) + 1
        BY <2>8, <4>1, <4>3 DEF LiveInv, Aligned, Receipts
      <4> QED
        BY <1>1, <2>1, <2>3, <2>4, <2>8, <3>2, <4>1, <4>3, <4>4, <4>5, <4>6
           DEF Aligned
    <3> QED
      BY <3>1, <3>2
  <2>13. Watched'
    <3>1. /\ Sound(gate'.observer) /\ gate'.expect = gate.expect
          /\ gate'.observer.terminal # "none" => Whole(gate'.observer)
          /\ gate.expect = 1 => gate'.observer.expect = 1
          /\ gate'.observer.expect = o.expect /\ o.expect \in {1, 2}
          /\ o.terminals \in 0..2
          /\ turn.follow = (~turn.auto /\ gate.expect = 2)
      BY <1>2, <2>1, <2>3, <2>4
         DEF LiveInv, Watched, Onward, Sound, Observers
    <3>2. CASE st = "none"
      <4>1. ~HasEnded' /\ turn'.pc = "events" /\ (Between' <=> turn.auto)
        BY <2>5, <3>2 DEF HasEnded, Between
      <4>2. turn.auto /\ gate.expect = 2 /\ gate'.observer.terminal = "none"
              => o.expect = 2 /\ gate'.observer.terminals > 0
        <5>1. turn.auto => Between
          BY <1>1 DEF Between
        <5> QED
          BY <1>2, <2>3, <2>4, <3>1, <5>1, SessionAssumption
             DEF LiveInv, Watched, Onward, Sound, Observers
      <4> QED
        BY <1>2, <2>4, <2>5, <2>6, <3>1, <4>1, <4>2 DEF Watched
    <3>3. CASE st # "none"
      <4>1. /\ HasEnded' /\ turn'.pc \in {"drain", "finish"}
            /\ turn'.pc = "drain" <=> ~turn.follow
        BY <2>5, <3>3 DEF HasEnded
      <4>2. /\ gate'.observer.terminals = o.terminals + 1
            /\ gate'.observer.terminal = "none" =>
                 o.expect = 2 /\ gate'.observer.terminals = 1
        BY <2>1, <2>3, <2>4, <3>3
      <4>3. turn.auto /\ gate.expect = 2 =>
              o.expect = 2 /\ gate'.observer.terminal # "none"
        <5>1. turn.auto => Between
          BY <1>1 DEF Between
        <5>2. o.terminal = "none"
          BY <2>1, <3>3
        <5>3. turn.auto /\ gate.expect = 2 => o.expect = 2 /\ o.terminals > 0
          BY <1>2, <5>1, <5>2, SessionAssumption DEF LiveInv, Watched
        <5> QED
          BY <3>1, <4>2, <5>3
      <4>4. ~turn.follow => gate'.observer.terminal # "none"
        <5>1. gate.expect \in {1, 2} /\ turn.auto \in BOOLEAN
          BY <1>2 DEF LiveInv, LiveTyped, GateStates, Turns
        <5> QED
          BY <3>1, <4>2, <4>3, <5>1
      <4> QED
        BY <1>2, <2>4, <2>5, <2>6, <3>1, <4>1, <4>2, <4>3, <4>4 DEF Watched
    <3> QED
      BY <3>2, <3>3
  <2> QED
    BY <2>10, <2>11, <2>12, <2>13 DEF LiveInv
<1> QED
  BY <1>6, <1>7

(* The deadline of an event passes, the gateway ends or an answer fails. *)
LEMMA TurnBreaksKeeps == LiveInv /\ TurnBreaks => LiveInv'
<1> SUFFICES ASSUME LiveInv, TurnBreaks PROVE LiveInv'
  OBVIOUS
<1>1. turn.pc # "none" /\ ids \in 0..MaxIds
  BY DEF TurnBreaks, LiveInv, LiveTyped
<1> QED
  BY <1>1, AtPc, InProgress, FailedKeeps DEF TurnBreaks, TurnFails

(* The observer is at its end in a drain: what is drained is not counted.  *)
LEMMA DrainEventKeeps == LiveInv /\ DrainEvent => LiveInv'
<1> SUFFICES ASSUME LiveInv, DrainEvent PROVE LiveInv'
  OBVIOUS
<1>1. /\ turn.pc = "drain" /\ ids < MaxIds /\ ids' = ids + 1
      /\ UNCHANGED <<snapshots, restarts>> /\ ids \in 0..MaxIds
  BY DEF DrainEvent, LiveInv, LiveTyped
<1>2. /\ turn # NoTurn /\ turn \in Turns /\ live.started /\ gate.open
  BY <1>1, InProgress, AtPc
<1>3. ids' \in 0..MaxIds
  BY <1>1, SessionAssumption
<1>4. PICK e \in LiveEvents :
        IF /\ Passes(gate, e) /\ e.kind = "changed"
           /\ turn.drained + 1 < DrainLimit
        THEN /\ gate' = Observed(gate, e)
             /\ turn' = [turn EXCEPT !.drained = @ + 1]
             /\ UNCHANGED <<live, ledger>>
        ELSE TurnFails(gate)
  BY DEF DrainEvent
<1>5. e \in AnyEvent
  BY SessionAssumption
<1>6. CASE TurnFails(gate)
  BY <1>1, <1>2, <1>3, <1>6, FailedKeeps DEF TurnFails
<1>7. CASE /\ Passes(gate, e) /\ gate' = Observed(gate, e)
           /\ turn' = [turn EXCEPT !.drained = @ + 1]
           /\ UNCHANGED <<live, ledger>>
  <2> DEFINE o == gate.observer
  <2>1. o.terminal # "none"
    BY <1>1 DEF LiveInv, Watched
  <2>2. /\ gate' \in GateStates /\ gate'.open = gate.open
        /\ gate'.expect = gate.expect /\ Onward(o, gate'.observer)
        /\ gate'.observer.terminal # "none" /\ gate'.seen = gate.seen
    BY <1>1, <1>5, <1>7, <2>1, ObservedIs
  <2>3. /\ turn' \in Turns /\ turn'.pc = turn.pc /\ turn'.row = turn.row
        /\ turn'.events = turn.events /\ turn'.auto = turn.auto
        /\ turn'.follow = turn.follow
    <3>1. turn.drained + 1 \in Nat
      BY <1>2 DEF Turns
    <3> QED
      BY <1>2, <1>7, <3>1 DEF Turns
  <2>4. turn' # NoTurn
    BY <2>3, NoTurnIs
  <2>5. LiveTyped' /\ Opened'
    BY <1>1, <1>2, <1>3, <1>7, <2>2, <2>3 DEF LiveInv, LiveTyped, Opened
  <2>6. RowBound'
    BY <1>2, <1>7, <2>3 DEF LiveInv, RowBound
  <2>7. Aligned'
    <3>1. TurnsOwed' = TurnsOwed /\ HasEnded' = HasEnded
      BY <2>3 DEF TurnsOwed, HasEnded
    <3> QED
      BY <1>1, <1>7, <2>2, <2>3, <3>1 DEF LiveInv, Aligned
  <2>8. Watched'
    <3>1. HasEnded' = HasEnded
      BY <2>3 DEF HasEnded
    <3> QED
      BY <1>1, <1>2, <1>7, <2>2, <2>3, <2>4, <3>1
         DEF LiveInv, Watched, Onward
  <2> QED
    BY <2>5, <2>6, <2>7, <2>8 DEF LiveInv
<1> QED
  BY <1>4, <1>6, <1>7

(* The drain after a terminal ends, and the turn goes on to finish. *)
LEMMA DrainEndsKeeps == LiveInv /\ DrainEnds => LiveInv'
<1> SUFFICES ASSUME LiveInv, DrainEnds PROVE LiveInv'
  OBVIOUS
<1>1. /\ turn.pc = "drain" /\ turn' = [turn EXCEPT !.pc = "finish"]
      /\ UNCHANGED <<live, ledger, gate, snapshots, ids, restarts>>
  BY DEF DrainEnds
<1>2. turn # NoTurn /\ turn \in Turns
  BY <1>1, InProgress, AtPc
<1>3. /\ turn' \in Turns /\ turn'.pc = "finish" /\ turn'.row = turn.row
      /\ turn'.events = turn.events /\ turn'.auto = turn.auto
      /\ turn'.follow = turn.follow
  BY <1>1, <1>2 DEF Turns
<1>4. turn' # NoTurn
  BY <1>3, NoTurnIs
<1>5. LiveTyped' /\ Opened'
  BY <1>1, <1>2, <1>3 DEF LiveInv, LiveTyped, Opened
<1>6. RowBound'
  BY <1>1, <1>2, <1>3 DEF LiveInv, RowBound
<1>7. TurnsOwed' = TurnsOwed /\ HasEnded' /\ HasEnded
  BY <1>1, <1>3 DEF TurnsOwed, HasEnded
<1>8. Aligned'
  BY <1>1, <1>3, <1>7 DEF LiveInv, Aligned
<1>9. Watched'
  BY <1>1, <1>2, <1>3, <1>4, <1>7 DEF LiveInv, Watched, Between
<1> QED
  BY <1>5, <1>6, <1>8, <1>9 DEF LiveInv

(* A receipt takes the snapshot of its turn. *)
LEMMA TurnEndsKeeps == LiveInv /\ TurnEnds => LiveInv'
<1> SUFFICES ASSUME LiveInv, TurnEnds PROVE LiveInv'
  OBVIOUS
<1>1. turn.pc = "finish" /\ UNCHANGED <<snapshots, ids, restarts>>
  BY DEF TurnEnds
<1>2. /\ turn # NoTurn /\ turn \in Turns /\ live.started /\ ~live.failed
      /\ gate.open /\ ledger.row \in Rows /\ turn.row = ledger.row
      /\ ids \in 0..MaxIds
  BY <1>1, InProgress, AtPc DEF LiveInv, LiveTyped
<1> DEFINE r == [row |-> turn.row, events |-> turn.events]
           old == ledger.receipts
           n == Len(old)
<1>3. CASE /\ ledger' = [ledger EXCEPT !.receipts = Append(@, r),
                           !.rowTurns[turn.row] = @ + 1, !.calls = @ + 1]
           /\ turn' = NoTurn /\ UNCHANGED <<live, gate>>
  <2>1. /\ ledger \in Ledgers /\ old \in Receipts /\ n \in Nat
        /\ ledger.rowTurns \in [Rows -> Nat] /\ ledger.calls \in Nat
        /\ snapshots \in Shots /\ Len(snapshots) \in Nat
    BY DEF LiveInv, LiveTyped, Ledgers, Receipts, Shots
  <2>2. r \in [row : Rows, events : SUBSET Nat]
    BY <1>2 DEF Turns
  <2> DEFINE new == Append(old, r)
             rt == [ledger.rowTurns EXCEPT ![turn.row] = @ + 1]
  <2>3. /\ new \in Receipts /\ Len(new) = n + 1 /\ new[n + 1] = r
        /\ \A i \in 1..n : new[i] = old[i]
    BY <2>1, <2>2, AppendProperties DEF Receipts
  <2>4. /\ rt \in [Rows -> Nat] /\ rt[turn.row] = ledger.rowTurns[turn.row] + 1
        /\ \A q \in Rows \ {turn.row} : rt[q] = ledger.rowTurns[q]
    BY <1>2, <2>1
  <2>5. ledger' = [ledger EXCEPT !.receipts = new, !.rowTurns = rt,
                                 !.calls = ledger.calls + 1]
    BY <1>3, <2>1 DEF Ledgers
  <2> HIDE DEF new, rt
  <2>6. /\ ledger' \in Ledgers /\ ledger'.receipts = new
        /\ ledger'.rowTurns = rt /\ ledger'.row = ledger.row
        /\ ledger'.calls = ledger.calls + 1
    <3>1. ledger.calls + 1 \in Nat
      BY <2>1
    <3> QED
      BY <2>1, <2>3, <2>4, <2>5, <3>1 DEF Ledgers
  <2>7. LiveTyped' /\ Opened'
    BY <1>1, <1>2, <1>3, <2>6 DEF LiveInv, LiveTyped, Opened
  <2>8. RowBound'
    <3>1. /\ ledger.row # NoRow /\ RowBudget[ledger.row] \in 1..4
          /\ n < RowBudget[ledger.row]
          /\ ledger.calls = n /\ \A i \in 1..n : old[i].row = ledger.row
          /\ \A q \in Rows :
               ledger.rowTurns[q] = IF q = ledger.row THEN n ELSE 0
      BY <1>2, SessionAssumption DEF LiveInv, RowBound
    <3>2. \A i \in 1..(n + 1) : new[i].row = ledger.row
      <4> TAKE i \in 1..(n + 1)
      <4>1. i \in 1..n \/ i = n + 1
        BY <2>1
      <4> QED
        BY <1>2, <2>3, <3>1, <4>1
    <3>3. \A q \in Rows : rt[q] = IF q = ledger.row THEN n + 1 ELSE 0
      BY <1>2, <2>4, <3>1
    <3> QED
      BY <1>3, <2>1, <2>3, <2>6, <3>1, <3>2, <3>3 DEF RowBound
  <2>9. Aligned'
    <3>1. TurnsOwed = 1 /\ TurnsOwed' = 0 /\ HasEnded /\ ~HasEnded'
      BY <1>1, <1>3, NoTurnIs DEF TurnsOwed, HasEnded
    <3>2. /\ Len(snapshots) > 0 /\ snapshots[Len(snapshots)] = turn.events
          /\ Matching(old, snapshots, Len(snapshots) - 1)
      BY <3>1 DEF LiveInv, Aligned
    <3>3. Matching(new, snapshots, Len(snapshots))
      BY <2>1, <2>2, <3>2, MatchingNext DEF new
    <3>4. restarts = 0 /\ ~live.failed => Len(snapshots) = Len(new)
      BY <2>1, <2>3, <3>1 DEF LiveInv, Aligned
    <3>5. /\ Len(snapshots) - TurnsOwed' = Len(snapshots)
          /\ Len(new) + TurnsOwed' = Len(new)
      BY <2>1, <2>3, <3>1
    <3>6. gate.seen = {}
      BY <1>1, <1>2 DEF LiveInv, Aligned
    <3> QED
      BY <1>1, <1>3, <2>6, <3>1, <3>3, <3>4, <3>5, <3>6, NoTurnIs DEF Aligned
  <2>10. Watched'
    <3>1. ~HasEnded' /\ Between /\ Between'
      BY <1>1, <1>3, NoTurnIs DEF HasEnded, Between
    <3> QED
      BY <1>1, <1>2, <1>3, <2>6, <3>1, NoTurnIs DEF LiveInv, Watched
  <2> QED
    BY <2>7, <2>8, <2>9, <2>10 DEF LiveInv
<1>4. CASE TurnFails(gate)
  BY <1>1, <1>2, <1>4, FailedKeeps DEF TurnFails
<1> QED
  BY <1>3, <1>4 DEF TurnEnds

(* Before it starts the session holds nothing and owes nothing. *)
LEMMA LiveInvInit == LiveInit => LiveInv
<1> SUFFICES ASSUME LiveInit PROVE LiveInv
  OBVIOUS
<1>1. PICK m \in Budgets : live = NewSession(m, FALSE)
  BY DEF LiveInit
<1>2. PICK n \in 0..MaxTasks : gate = NewGate(IF n = 0 THEN 1 ELSE 2, n)
  BY DEF LiveInit
<1>3. /\ turn = NoTurn /\ snapshots = <<>> /\ ids = 0 /\ restarts = 0
      /\ ledger = [receipts |-> <<>>, rowTurns |-> [r \in Rows |-> 0],
                   row |-> NoRow, calls |-> 0]
  BY DEF LiveInit
<1> DEFINE x == IF n = 0 THEN 1 ELSE 2
<1>4. /\ live \in Sessions /\ ~live.started /\ ~live.closed
      /\ ~live.failed /\ gate \in GateStates /\ ~gate.open /\ x \in {1, 2}
      /\ gate.seen = {} /\ gate.expect = x
      /\ gate.observer = NewObserver(x, n)
  BY <1>1, <1>2, NewIsTyped
<1>5. /\ Sound(gate.observer) /\ gate.observer.terminal = "none"
      /\ gate.observer.expect = x
  BY <1>4, NewIsSound
<1> HIDE DEF x
<1>6. /\ ledger \in Ledgers /\ snapshots \in Shots /\ ledger.row = NoRow
      /\ ledger.receipts = <<>> /\ Len(<<>>) = 0 /\ ledger.calls = 0
      /\ \A r \in Rows : ledger.rowTurns[r] = 0
  BY <1>3 DEF Ledgers, Receipts, Shots
<1>7. LiveTyped /\ Opened
  BY <1>3, <1>4, <1>6, SessionAssumption
     DEF LiveTyped, Opened, GateStates, Sessions
<1>8. RowBound
  BY <1>3, <1>6, SessionAssumption DEF RowBound
<1>9. TurnsOwed = 0 /\ ~HasEnded /\ turn.pc = "none"
  BY <1>3, NoTurnIs DEF TurnsOwed, HasEnded
<1>10. Aligned
  BY <1>3, <1>4, <1>6, <1>9, MatchingNone DEF Aligned
<1>11. Watched
  BY <1>3, <1>4, <1>5, <1>6, <1>9 DEF Watched
<1> QED
  BY <1>7, <1>8, <1>10, <1>11 DEF LiveInv

(* Each step of the session keeps the invariant. *)
LEMMA LiveInvStep == LiveInv /\ [LiveNext]_liveVars => LiveInv'
<1> SUFFICES ASSUME LiveInv, [LiveNext]_liveVars PROVE LiveInv'
  OBVIOUS
<1>1. CASE UNCHANGED liveVars
  BY <1>1, LiveStutters
<1>2. CASE Execute
  BY <1>2, SubmitKeeps, TurnEventKeeps, TurnBreaksKeeps, DrainEventKeeps,
     DrainEndsKeeps, TurnEndsKeeps DEF Execute
<1>3. CASE \E row \in Rows, d \in {"allow", "deny"} : RunTurn(row, d)
  BY <1>3, RunTurnKeeps
<1>4. CASE \E row \in Rows : ObserveDeliveryTurn(row)
  BY <1>4, DeliveryKeeps
<1>5. CASE \/ Start \/ VerifyToolInventory \/ RunOtherPath \/ CloseSession
           \/ Collect \/ Restart
  BY <1>5, StartKeeps, VerifyKeeps, OtherPathKeeps, CloseKeeps, CollectKeeps,
     RestartKeeps
<1> QED
  BY <1>1, <1>2, <1>3, <1>4, <1>5 DEF LiveNext

(* The invariant of the session. *)
LEMMA LiveInvHolds == LiveSpec => []LiveInv
  BY LiveInvInit, LiveInvStep, PTL DEF LiveSpec

(* The invariant says what the properties of the session say. *)
LEMMA LiveInvGives ==
  ASSUME LiveInv
  PROVE  /\ ReceiptsHaveSnapshots /\ LineageWithinRow
         /\ FailureReleasesGateway /\ LiveTypeOK
<1>1. ReceiptsHaveSnapshots
  <2>1. /\ snapshots \in Shots /\ Len(snapshots) \in Nat
        /\ ledger.receipts \in Receipts /\ Len(ledger.receipts) \in Nat
    BY DEF LiveInv, LiveTyped, Shots, Ledgers, Receipts
  <2>2. Matching(ledger.receipts, snapshots, Len(snapshots))
    <3>1. /\ Matching(ledger.receipts, snapshots, Len(snapshots) - TurnsOwed)
          /\ Len(snapshots) - TurnsOwed \in Nat
          /\ Len(snapshots) - TurnsOwed <= Len(snapshots)
      BY <2>1 DEF LiveInv, Aligned, TurnsOwed
    <3> QED
      BY <2>1, <3>1, MatchingWider
  <2>3. turn = NoTurn /\ ~live.failed /\ restarts = 0 =>
          Len(snapshots) = Len(ledger.receipts)
    <3>1. turn = NoTurn => TurnsOwed = 0
      BY NoTurnIs DEF TurnsOwed, HasEnded
    <3> QED
      BY <2>1, <3>1 DEF LiveInv, Aligned
  <2> QED
    BY <2>2, <2>3 DEF ReceiptsHaveSnapshots, Matching
<1>2. LineageWithinRow
  BY DEF LiveInv, RowBound, LineageWithinRow
<1>3. FailureReleasesGateway
  BY DEF LiveInv, Opened, FailureReleasesGateway
<1>4. LiveTypeOK
  <2>1. turn.pc \in {"none", "submit", "events", "drain", "finish"}
    BY NoTurnIs DEF LiveInv, LiveTyped, Turns
  <2> QED
    BY <2>1 DEF LiveInv, LiveTyped, LiveTypeOK, Sessions, Ledgers, GateStates
<1> QED
  BY <1>1, <1>2, <1>3, <1>4

(* The session, its ledger, gate and turn keep their types through every   *)
(* call, failure and restart (V4LiveSession).                              *)
THEOREM SessionTypeCorrect == LiveSpec => []LiveTypeOK
  BY LiveInvHolds, LiveInvGives, PTL

(* Whatever its client calls and its gateway says, the receipts of a       *)
(* lineage have the snapshots of their own turns, in order, the lineage    *)
(* stays in its row and budget, and a failed session holds no gateway; and *)
(* the proof read from the host's database is of settled delegations and a *)
(* paired transcript, and an honest host is not refused before the         *)
(* deadline (v4_live_session.py, v4_host_probe.py).                        *)
THEOREM SessionHeld == LiveSpec /\ ProbeSpec => []SessionHolds
<1>1. LiveInv /\ ProbeInv => SessionHolds
  BY LiveInvGives, ProbeInvGives DEF SessionHolds
<1> QED
  BY <1>1, LiveInvHolds, ProbeInvHolds, PTL

-----------------------------------------------------------------------------
(* The runner of a trial. *)
RunSpec == RunInit /\ [][RunNext]_runVars

Places ==
  {"stage", "start", "inventory", "turns", "inTurn", "disable", "resume",
   "unwind", "delegation", "compose", "passed", "restore", "ended passed",
   "ended failed"}
Runs ==
  [pc : Places, row : Rows, done : Nat, ok : BOOLEAN,
   plugin : {"absent", "partial", "staged", "aside"}, stuck : BOOLEAN]

(* The runner counts the receipts of its session, and the delivery turn is *)
(* the last turn of a row with tasks.                                      *)
RunCounts ==
  LET children == ChildrenOf[run.row] IN
  /\ run.done = Len(ledger.receipts)
  /\ live.planned = RowBudget[run.row] /\ ledger.row \in {NoRow, run.row}
  /\ turn = NoTurn <=> run.pc # "inTurn"
  /\ gate.expect = (IF children = 0 THEN 1 ELSE 2)
  /\ gate.observer.expect = 2 => gate.observer.tasks = children
  /\ run.pc = "inTurn" /\ children > 0
     /\ run.done + 1 = RowBudget[run.row] => turn.auto
  /\ children > 0 /\ run.done = RowBudget[run.row] =>
       gate.observer.expect = 2 /\ gate.observer.terminal # "none"

(* The restart row is restarted after its first turn. *)
RunRestarts ==
  /\ restarts \in {0, 1} /\ (restarts = 1 => run.row = RestartRow)
  /\ run.pc \in {"disable", "resume"} =>
       run.row = RestartRow /\ run.done = 1 /\ restarts = 0
  /\ run.row = RestartRow /\ restarts = 0 =>
       run.done <= 1 /\ (run.pc = "inTurn" => run.done = 0)

RunEnding ==
  /\ run.pc \in {"stage", "delegation", "compose", "passed", "restore",
                 "ended passed", "ended failed"} => ~gate.open
  /\ run.ok => run.done = RowBudget[run.row]
  /\ run.pc \in {"delegation", "compose", "passed", "ended passed"} => run.ok
  /\ run.pc \in {"passed", "ended passed"} => AccountsAgree
  /\ TrialEnded /\ run.plugin = "aside" => run.stuck

RunInv == LiveInv /\ run \in Runs /\ RunCounts /\ RunRestarts /\ RunEnding

(* A run starts with a session that has not started. *)
LEMMA RunIsLiveInit == RunInit => LiveInit
<1> SUFFICES ASSUME RunInit PROVE LiveInit
  OBVIOUS
<1>1. PICK row \in Rows :
        /\ live = NewSession(PlannedTurns(row), FALSE)
        /\ gate = NewGate(IF ChildrenOf[row] = 0 THEN 1 ELSE 2,
                          ChildrenOf[row])
  BY DEF RunInit
<1>2. RowBudget[row] \in Budgets /\ ChildrenOf[row] \in 0..MaxTasks
  BY RunAssumption DEF Budgets
<1> QED
  BY <1>1, <1>2 DEF RunInit, LiveInit, PlannedTurns

(* Moving on changes where the runner is and nothing else of it. *)
LEMMA GoIs ==
  ASSUME run \in Runs, NEW p \in Places, Go(p)
  PROVE  /\ run' \in Runs /\ run'.pc = p /\ run'.row = run.row
         /\ run'.done = run.done /\ run'.ok = run.ok
         /\ run'.plugin = run.plugin /\ run'.stuck = run.stuck
  BY DEF Go, Runs

(* A run starts as a run. *)
LEMMA RunsInit == RunInit => run \in Runs
<1> SUFFICES ASSUME RunInit PROVE run \in Runs
  OBVIOUS
<1>1. PICK row \in Rows :
        run = [pc |-> "stage", row |-> row, done |-> 0, ok |-> FALSE,
               plugin |-> "absent", stuck |-> FALSE]
  BY DEF RunInit
<1> QED
  BY <1>1 DEF Runs, Places

(* A trial keeps its row. *)
LEMMA RunsStep ==
  ASSUME run \in Runs, [RunNext]_runVars
  PROVE  run' \in Runs /\ run'.row = run.row
<1>1. CASE UNCHANGED runVars
  BY <1>1 DEF runVars
<1>2. CASE Stage
  BY <1>2 DEF Stage, Runs, Places
<1>3. CASE \E p \in Places : Go(p)
  BY <1>3, GoIs
<1>4. CASE InTurn
  <2> DEFINE p == IF Failed THEN "unwind"
                  ELSE IF turn' = NoTurn THEN "turns" ELSE "inTurn"
             n == IF turn' = NoTurn /\ ~Failed THEN run.done + 1
                  ELSE run.done
  <2>1. p \in Places /\ n \in Nat
    <3>1. run.done \in Nat /\ run.done + 1 \in Nat
      BY DEF Runs
    <3>2. p \in {"unwind", "turns", "inTurn"}
      OBVIOUS
    <3>3. n \in {run.done, run.done + 1}
      OBVIOUS
    <3> QED
      BY <3>1, <3>2, <3>3 DEF Places
  <2>2. run' = [run EXCEPT !.pc = p, !.done = n]
    BY <1>4 DEF InTurn, Runs
  <2> HIDE DEF p, n
  <2> QED
    BY <2>1, <2>2 DEF Runs
<1>5. CASE Disable
  <2>1. CASE run' = [run EXCEPT !.pc = "resume", !.plugin = "aside"]
    BY <2>1 DEF Runs, Places
  <2> QED
    BY <1>5, <2>1, GoIs DEF Disable, Places
<1>6. CASE HostObservation
  <2> DEFINE b == ~Failed
  <2>1. run' = [run EXCEPT !.pc = "unwind", !.ok = b] /\ b \in BOOLEAN
    BY <1>6 DEF HostObservation
  <2> HIDE DEF b
  <2> QED
    BY <2>1 DEF Runs, Places
<1>7. CASE RestorePlugin
  <2> DEFINE end(x) == IF x /\ At("passed") THEN "ended passed"
                       ELSE "ended failed"
  <2>1. end(TRUE) \in Places /\ end(FALSE) \in Places
    BY DEF Places
  <2>2. \/ Go(end(TRUE))
        \/ run' = [run EXCEPT !.pc = end(TRUE), !.plugin = "staged"]
        \/ run' = [run EXCEPT !.pc = end(FALSE), !.stuck = TRUE]
    BY <1>7 DEF RestorePlugin
  <2> HIDE DEF end
  <2> QED
    BY <2>1, <2>2, GoIs DEF Runs
<1>8. CASE \/ RunStart \/ RunVerify \/ NextTurn \/ Delivery \/ RestartCloses
           \/ Resume \/ Unwind \/ DelegationObservation \/ Compose
  <2>1. \E p \in Places : Go(p)
    BY <1>8 DEF RunStart, RunVerify, NextTurn, Delivery, RestartCloses,
       Resume, Unwind, DelegationObservation, Compose, GoUnless, Places
  <2> QED
    BY <2>1, GoIs
<1> QED
  BY <1>1, <1>2, <1>4, <1>5, <1>6, <1>7, <1>8 DEF RunNext

(* Every step of the runner is a step of its session, or none. *)
LEMMA RunIsLiveStep ==
  ASSUME run \in Runs, [RunNext]_runVars
  PROVE  [LiveNext]_liveVars
<1>0. run.row \in Rows
  BY DEF Runs
<1>1. CASE UNCHANGED runVars
  BY <1>1 DEF runVars, liveVars
<1>2. CASE Stage \/ Disable \/ Compose \/ RestorePlugin
  BY <1>2 DEF Stage, Disable, Compose, RestorePlugin
<1>3. CASE RunStart \/ RunVerify \/ InTurn \/ RestartCloses
           \/ HostObservation \/ DelegationObservation
  BY <1>3 DEF RunStart, RunVerify, InTurn, RestartCloses, HostObservation,
     DelegationObservation, LiveNext
<1>4. CASE Unwind \/ Resume
  BY <1>4 DEF Unwind, Resume, LiveNext
<1>5. CASE NextTurn
  <2>1. \/ UNCHANGED liveVars
        \/ \E d \in {"allow", "deny"} : RunTurn(run.row, d)
    BY <1>5 DEF NextTurn
  <2> QED
    BY <1>0, <2>1 DEF LiveNext
<1>6. CASE Delivery
  BY <1>0, <1>6 DEF Delivery, LiveNext
<1> QED
  BY <1>1, <1>2, <1>3, <1>4, <1>5, <1>6 DEF RunNext

(* The runner only does what a session lets its client do: every behaviour *)
(* of a trial is one of the session (v4_normal_gateway_runner.py drives    *)
(* V4LiveSession through its methods alone).                               *)
THEOREM RunIsSession == RunSpec => LiveSpec
<1>1. RunInit => LiveInit /\ run \in Runs
  BY RunIsLiveInit, RunsInit
<1>2. run \in Runs /\ [RunNext]_runVars =>
        (run \in Runs)' /\ [LiveNext]_liveVars
  BY RunsStep, RunIsLiveStep
<1> QED
  BY <1>1, <1>2, PTL DEF RunSpec, LiveSpec

-----------------------------------------------------------------------------
(* What the actions of the session leave of what the runner counts.        *)
Same == /\ gate'.observer = gate.observer /\ gate'.expect = gate.expect
        /\ live'.planned = live.planned
        /\ UNCHANGED <<turn, snapshots, restarts>>

(* What the calls outside a turn do to the session, as the runner sees it. *)
LEMMA IdleIs ==
  ASSUME LiveInv, Start \/ VerifyToolInventory \/ CloseSession \/ Collect
  PROVE  /\ Same /\ UNCHANGED ledger /\ turn = NoTurn
         /\ CloseSession => ~gate'.open
         /\ Collect /\ ~gate.open => ~gate'.open
<1>1. live \in Sessions /\ gate \in GateStates
  BY DEF LiveInv, LiveTyped
<1>2. /\ turn = NoTurn /\ UNCHANGED <<ledger, turn, snapshots, restarts>>
  BY DEF Start, VerifyToolInventory, CloseSession, Collect
<1>3. Same
  <2>1. CASE Start
    BY <1>1, <1>2, <2>1 DEF Start, Same, Sessions, GateStates
  <2>2. CASE FailedClosed(live, gate)
    BY <1>1, <1>2, <2>2 DEF FailedClosed, Same, Sessions, GateStates
  <2>3. CASE VerifyToolInventory
    BY <1>1, <1>2, <2>2, <2>3 DEF VerifyToolInventory, Same, Sessions
  <2>4. CASE CloseSession
    BY <1>1, <1>2, <2>4 DEF CloseSession, Same, Sessions, GateStates
  <2>5. CASE Collect
    BY <1>1, <1>2, <2>2, <2>5 DEF Collect, Same
  <2> QED
    BY <2>1, <2>3, <2>4, <2>5
<1>4. CloseSession => ~gate'.open
  BY <1>1 DEF CloseSession, GateStates
<1>5. Collect /\ ~gate.open => ~gate'.open
  BY <1>1 DEF Collect, FailedClosed, GateStates
<1> QED
  BY <1>2, <1>3, <1>4, <1>5

(* A turn that is begun has the flow it is asked for; one that is refused  *)
(* ends the session.                                                       *)
LEMMA BeginIs ==
  ASSUME LiveInv, NEW row \in Rows, NEW auto \in BOOLEAN,
         IF auto THEN ObserveDeliveryTurn(row)
         ELSE \E d \in {"allow", "deny"} : RunTurn(row, d)
  PROVE  /\ gate'.observer = gate.observer /\ gate'.expect = gate.expect
         /\ live'.planned = live.planned /\ UNCHANGED <<snapshots, restarts>>
         /\ turn = NoTurn /\ ledger'.receipts = ledger.receipts
         /\ ledger'.row \in {ledger.row, row}
         /\ \/ turn' # NoTurn /\ turn'.auto = auto /\ ~live'.failed
            \/ turn' = NoTurn /\ live'.failed
<1>1. /\ live \in Sessions /\ gate \in GateStates /\ ledger \in Ledgers
  BY DEF LiveInv, LiveTyped
<1>2. /\ turn = NoTurn /\ UNCHANGED <<snapshots, restarts>> /\ Started
  BY DEF RunTurn, ObserveDeliveryTurn
<1>3. ~live.failed
  BY <1>1, <1>2 DEF LiveInv, Opened, Started, Sessions, GateStates
<1>4. CASE /\ FailedClosed(live, gate) /\ UNCHANGED <<ledger, turn>>
  BY <1>1, <1>2, <1>4 DEF FailedClosed, Sessions, GateStates
<1>5. CASE /\ ledger' \in {ledger, [ledger EXCEPT !.row = row]}
           /\ \E f \in BOOLEAN, d \in {"allow", "deny"} :
                turn' = NewTurn(row, auto, f, d)
           /\ UNCHANGED <<live, gate>>
  <2>1. turn' # NoTurn /\ turn'.auto = auto
    BY <1>5 DEF NewTurn, NoTurn
  <2>2. /\ ledger'.receipts = ledger.receipts
        /\ ledger'.row \in {ledger.row, row}
    BY <1>1, <1>5 DEF Ledgers
  <2> QED
    BY <1>2, <1>3, <1>5, <2>1, <2>2
<1>6. CASE auto
  BY <1>4, <1>5, <1>6 DEF ObserveDeliveryTurn
<1>7. CASE ~auto
  BY <1>4, <1>5, <1>7 DEF RunTurn
<1> QED
  BY <1>6, <1>7

(* A step of the executor goes on with the turn, gives it its receipt, or  *)
(* ends the session.                                                       *)
Tasked(o, n) == n.expect = 2 => o.expect = 2 /\ n.tasks = o.tasks
GoesOn ==
  /\ turn' # NoTurn /\ turn'.auto = turn.auto /\ ~live'.failed
  /\ UNCHANGED <<live, ledger>>
Fails ==
  turn' = NoTurn /\ live'.failed /\ ~gate'.open /\ UNCHANGED ledger
Receives ==
  /\ turn' = NoTurn /\ HasEnded /\ ~live'.failed /\ UNCHANGED <<live, gate>>
  /\ Len(ledger'.receipts) = Len(ledger.receipts) + 1
  /\ ledger'.row = ledger.row

(* What a turn that fails does to the session, as the runner sees it. *)
LEMMA FailsIs ==
  ASSUME LiveInv, NEW g \in {gate, Rotated(gate)}, TurnFails(g)
  PROVE  /\ Fails /\ gate'.expect = gate.expect
         /\ Tasked(gate.observer, gate'.observer)
         /\ live'.planned = live.planned
<1>1. live \in Sessions /\ gate \in GateStates
  BY DEF LiveInv, LiveTyped
<1>2. /\ g \in GateStates /\ g.expect = gate.expect
      /\ Tasked(gate.observer, g.observer)
  BY <1>1, RotatedIs DEF Tasked
<1>3. /\ ~gate'.open /\ gate'.expect = g.expect
      /\ gate'.observer = g.observer
  BY <1>2 DEF TurnFails, FailedClosed, GateStates
<1>4. live'.failed /\ live'.planned = live.planned
  BY <1>1 DEF TurnFails, FailedClosed, Sessions
<1> QED
  BY <1>2, <1>3, <1>4 DEF TurnFails, Fails

(* What a step of a turn does to the session, as the runner sees it. *)
LEMMA ExecuteIs ==
  ASSUME LiveInv, Execute
  PROVE  /\ turn # NoTurn /\ gate'.expect = gate.expect
         /\ Tasked(gate.observer, gate'.observer)
         /\ live'.planned = live.planned /\ UNCHANGED restarts
         /\ GoesOn \/ Fails \/ Receives
<1>1. turn.pc # "none" /\ UNCHANGED restarts
  BY DEF Execute, Submit, TurnEvent, TurnBreaks, DrainEvent, DrainEnds,
     TurnEnds
<1>2. /\ turn # NoTurn /\ turn \in Turns /\ ~live.failed /\ turn.row \in Rows
      /\ gate \in GateStates /\ ledger \in Ledgers /\ ids \in 0..MaxIds
  BY <1>1, InProgress, AtPc DEF LiveInv, LiveTyped
<1>3. ASSUME NEW g \in {gate, Rotated(gate)}, TurnFails(g)
      PROVE  /\ Fails /\ gate'.expect = gate.expect
             /\ Tasked(gate.observer, gate'.observer)
             /\ live'.planned = live.planned
  BY <1>3, FailsIs
<1>4. CASE Submit
  <2> DEFINE g == Rotated(gate)
  <2>1. CASE TurnFails(g)
    BY <1>1, <1>2, <1>3, <2>1
  <2>2. CASE /\ gate' = g /\ UNCHANGED <<live, ledger>>
             /\ turn' = [turn EXCEPT !.pc = "events", !.control = @ + 1]
    <3>1. turn'.pc = "events" /\ turn'.auto = turn.auto
      BY <1>2, <2>2 DEF Turns
    <3>2. g.expect = gate.expect /\ Tasked(gate.observer, g.observer)
      BY RotatedIs DEF Tasked
    <3> QED
      BY <1>1, <1>2, <2>2, <3>1, <3>2, NoTurnIs DEF GoesOn
  <2> QED
    BY <1>4, <2>1, <2>2 DEF Submit
<1>5. CASE TurnEvent
  <2>1. PICK e \in LiveEvents :
          \/ /\ Passes(gate, e) /\ turn' = AfterEvent(e)
             /\ gate' = Answered(Observed(gate, e), e)
             /\ UNCHANGED <<live, ledger>>
          \/ TurnFails(gate)
    BY <1>5 DEF TurnEvent
  <2>2. CASE TurnFails(gate)
    BY <1>1, <1>2, <1>3, <2>2
  <2>3. CASE /\ Passes(gate, e) /\ turn' = AfterEvent(e)
             /\ gate' = Answered(Observed(gate, e), e)
             /\ UNCHANGED <<live, ledger>>
    <3> DEFINE g == Observed(gate, e)
    <3>1. /\ g \in GateStates /\ g.expect = gate.expect
          /\ Onward(gate.observer, g.observer)
          /\ e.kind = "approval" => g.observer.terminal = "none"
      BY <1>5, <2>3, ObservedIs, SessionAssumption DEF TurnEvent
    <3>2. turn.decision \in {"allow", "deny"}
      BY <1>2 DEF Turns
    <3> HIDE DEF g
    <3>3. /\ gate'.expect = gate.expect
          /\ Onward(gate.observer, gate'.observer)
      BY <2>3, <3>1, <3>2, AnsweredIs DEF g
    <3>4. /\ turn'.auto = turn.auto
          /\ turn'.pc \in {"events", "finish", "drain"}
      BY <1>2, <2>3 DEF AfterEvent, Turns
    <3> QED
      BY <1>1, <1>2, <2>3, <3>3, <3>4, NoTurnIs DEF GoesOn, Onward, Tasked
  <2> QED
    BY <2>1, <2>2, <2>3
<1>6. CASE TurnBreaks
  BY <1>1, <1>2, <1>3, <1>6 DEF TurnBreaks
<1>7. CASE DrainEvent
  <2>1. PICK e \in LiveEvents :
          \/ /\ Passes(gate, e) /\ gate' = Observed(gate, e)
             /\ turn' = [turn EXCEPT !.drained = @ + 1]
             /\ UNCHANGED <<live, ledger>>
          \/ TurnFails(gate)
    BY <1>7 DEF DrainEvent
  <2>2. CASE TurnFails(gate)
    BY <1>1, <1>2, <1>3, <2>2
  <2>3. CASE /\ Passes(gate, e) /\ gate' = Observed(gate, e)
             /\ turn' = [turn EXCEPT !.drained = @ + 1]
             /\ UNCHANGED <<live, ledger>>
    <3>1. /\ gate'.expect = gate.expect
          /\ Onward(gate.observer, gate'.observer)
      BY <1>7, <2>3, ObservedIs, SessionAssumption DEF DrainEvent
    <3>2. turn'.auto = turn.auto /\ turn'.pc = turn.pc
      BY <1>2, <2>3 DEF Turns
    <3> QED
      BY <1>1, <1>2, <2>3, <3>1, <3>2, NoTurnIs DEF GoesOn, Onward, Tasked
  <2> QED
    BY <2>1, <2>2, <2>3
<1>8. CASE DrainEnds
  <2>1. turn'.auto = turn.auto /\ turn'.pc = "finish"
    BY <1>2, <1>8 DEF DrainEnds, Turns
  <2> QED
    BY <1>1, <1>2, <1>8, <2>1, NoTurnIs DEF DrainEnds, GoesOn, Tasked
<1>9. CASE TurnEnds
  <2> DEFINE r == [row |-> turn.row, events |-> turn.events]
  <2>1. CASE TurnFails(gate)
    BY <1>1, <1>2, <1>3, <2>1
  <2>2. CASE /\ ledger' = [ledger EXCEPT !.receipts = Append(@, r),
                             !.rowTurns[turn.row] = @ + 1, !.calls = @ + 1]
             /\ turn' = NoTurn /\ UNCHANGED <<live, gate>>
    <3>1. /\ ledger'.receipts = Append(ledger.receipts, r)
          /\ ledger'.row = ledger.row
      BY <1>2, <2>2 DEF Ledgers
    <3>2. r \in [row : Rows, events : SUBSET Nat]
      BY <1>2 DEF Turns
    <3>3. Len(ledger'.receipts) = Len(ledger.receipts) + 1
      BY <1>2, <3>1, <3>2, AppendProperties DEF Ledgers, Receipts
    <3> QED
      BY <1>1, <1>2, <1>9, <2>2, <3>1, <3>3
         DEF TurnEnds, HasEnded, Receives, Tasked
  <2> QED
    BY <1>9, <2>1, <2>2 DEF TurnEnds
<1> QED
  BY <1>4, <1>5, <1>6, <1>7, <1>8, <1>9 DEF Execute

-----------------------------------------------------------------------------
(* The trial. *)
LEMMA BudgetIs ==
  ASSUME run \in Runs
  PROVE  /\ run.row \in Rows /\ run.row # NoRow /\ run.done \in Nat
         /\ run.pc \in Places
         /\ RowBudget[run.row] \in 1..4
         /\ ChildrenOf[run.row] \in 0..MaxTasks /\ ChildrenOf[run.row] \in Nat
         /\ FixtureTurns(run.row) =
              IF ChildrenOf[run.row] > 0 THEN RowBudget[run.row] - 1
              ELSE RowBudget[run.row]
         /\ run.row = RestartRow =>
              RowBudget[run.row] > 1 /\ ChildrenOf[run.row] = 0
  BY RunAssumption, SessionAssumption, ObserverAssumption
     DEF Runs, FixtureTurns

(* Before its first step a run has put nothing to restore. *)
LEMMA RunInvInit == RunInit => RunInv
<1> SUFFICES ASSUME RunInit PROVE RunInv
  OBVIOUS
<1>1. PICK row \in Rows :
        /\ run = [pc |-> "stage", row |-> row, done |-> 0, ok |-> FALSE,
                  plugin |-> "absent", stuck |-> FALSE]
        /\ live = NewSession(PlannedTurns(row), FALSE)
        /\ gate = NewGate(IF ChildrenOf[row] = 0 THEN 1 ELSE 2,
                          ChildrenOf[row])
  BY DEF RunInit
<1>2. /\ run \in Runs /\ LiveInv
  BY RunsInit, RunIsLiveInit, LiveInvInit
<1>3. /\ turn = NoTurn /\ restarts = 0 /\ ledger.row = NoRow
      /\ ledger.receipts = <<>> /\ Len(<<>>) = 0
  BY DEF RunInit
<1> DEFINE n == ChildrenOf[row]
           x == IF n = 0 THEN 1 ELSE 2
<1>4. /\ n \in 0..MaxTasks /\ x \in {1, 2} /\ n \in Nat
      /\ gate.observer = NewObserver(x, n) /\ gate.expect = x /\ ~gate.open
      /\ live.planned = RowBudget[row]
  BY <1>1, RunAssumption, ObserverAssumption
     DEF NewGate, NewSession, PlannedTurns
<1>5. gate.observer.expect = x /\ gate.observer.tasks = n
  BY <1>4, NewIsSound
<1>6. RunCounts
  <2>1. /\ run.row = row /\ run.done = 0 /\ run.pc = "stage"
        /\ RowBudget[row] \in 1..4
    BY <1>1, <1>2, BudgetIs
  <2>2. x = 2 => gate.observer.tasks = n
    BY <1>5
  <2> HIDE DEF n
  <2> QED
    BY <1>3, <1>4, <1>5, <2>1, <2>2 DEF RunCounts, n
<1>7. RunRestarts
  BY <1>1, <1>3 DEF RunRestarts
<1>8. RunEnding
  BY <1>1, <1>4 DEF RunEnding, TrialEnded
<1> QED
  BY <1>2, <1>6, <1>7, <1>8 DEF RunInv

(* Between two turns the counts stay as they are. *)
LEMMA QuietCounts ==
  ASSUME RunCounts, run'.row = run.row, run'.done = run.done,
         run'.pc # "inTurn", turn' = NoTurn, UNCHANGED ledger,
         gate'.observer = gate.observer, gate'.expect = gate.expect,
         live'.planned = live.planned
  PROVE  RunCounts'
  BY DEF RunCounts

(* A step that restarts nothing keeps the count of restarts. *)
LEMMA QuietRestarts ==
  ASSUME RunRestarts, run'.row = run.row, run'.done = run.done,
         UNCHANGED restarts, run'.pc \notin {"disable", "resume", "inTurn"}
  PROVE  RunRestarts'
  BY DEF RunRestarts

(* On the way, before the observation of the host. *)
Underway == {"start", "inventory", "turns", "inTurn", "disable", "resume",
             "unwind"}
(* A step that stays underway keeps what the end of a run promises. *)
LEMMA UnderwayEnds ==
  ASSUME RunEnding, run'.row = run.row, run'.done = run.done,
         run'.ok = run.ok, run'.pc \in Underway
  PROVE  RunEnding'
  BY DEF RunEnding, Underway, TrialEnded

(* The plugin is staged for the trial, wholly or not. *)
LEMMA StageHolds == RunInv /\ LiveInv' /\ run' \in Runs /\ Stage => RunInv'
<1> SUFFICES ASSUME RunInv, LiveInv', run' \in Runs, Stage PROVE RunInv'
  OBVIOUS
<1>1. /\ run \in Runs /\ RunCounts /\ RunRestarts /\ RunEnding
      /\ UNCHANGED liveVars /\ run.pc = "stage"
  BY DEF RunInv, Stage, At
<1>2. /\ run'.pc \in {"start", "restore"} /\ run'.row = run.row
      /\ run'.done = run.done /\ run'.ok = run.ok
  BY <1>1 DEF Stage, Runs
<1>3. RunCounts'
  BY <1>1, <1>2, QuietCounts DEF RunCounts, liveVars
<1>4. RunRestarts'
  BY <1>1, <1>2, QuietRestarts DEF liveVars
<1>5. RunEnding'
  BY <1>1, <1>2 DEF RunEnding, TrialEnded, liveVars
<1> QED
  BY <1>3, <1>4, <1>5 DEF RunInv

(* The session of the run is started or its tools verified. *)
LEMMA StartHolds ==
  ASSUME RunInv, LiveInv', RunStart \/ RunVerify
  PROVE  RunInv'
<1>1. /\ run \in Runs /\ RunCounts /\ RunRestarts /\ RunEnding /\ LiveInv
      /\ Start \/ VerifyToolInventory
      /\ \E p \in {"inventory", "turns", "unwind"} : Go(p)
  BY DEF RunInv, RunStart, RunVerify, GoUnless
<1>2. /\ run' \in Runs /\ run'.pc \in {"inventory", "turns", "unwind"}
      /\ run'.row = run.row /\ run'.done = run.done /\ run'.ok = run.ok
  BY <1>1, GoIs DEF Places
<1>3. Same /\ UNCHANGED ledger /\ turn = NoTurn
  BY <1>1, IdleIs
<1>4. RunCounts'
  BY <1>1, <1>2, <1>3, QuietCounts DEF Same
<1>5. RunRestarts'
  BY <1>1, <1>2, <1>3, QuietRestarts DEF Same
<1>6. RunEnding'
  BY <1>1, <1>2, UnderwayEnds DEF Underway
<1> QED
  BY <1>2, <1>4, <1>5, <1>6 DEF RunInv

(* The next turn of the row is asked for. *)
LEMMA NextTurnHolds == RunInv /\ LiveInv' /\ NextTurn => RunInv'
<1> SUFFICES ASSUME RunInv, LiveInv', NextTurn PROVE RunInv'
  OBVIOUS
<1>1. /\ run \in Runs /\ RunCounts /\ RunRestarts /\ RunEnding /\ LiveInv
      /\ run.pc = "turns" /\ ~RestartDue /\ TurnsLeft
  BY DEF RunInv, NextTurn, At
<1>2. CASE Go("unwind") /\ UNCHANGED liveVars
  <2>1. /\ run' \in Runs /\ run'.pc = "unwind"
        /\ run'.row = run.row /\ run'.done = run.done /\ run'.ok = run.ok
    BY <1>1, <1>2, GoIs DEF Places
  <2>2. RunCounts'
    BY <1>1, <1>2, <2>1, QuietCounts DEF RunCounts, liveVars
  <2> QED
    BY <1>1, <1>2, <2>1, <2>2, QuietRestarts, UnderwayEnds
       DEF RunInv, liveVars, Underway
<1>3. CASE /\ \E d \in {"allow", "deny"} : RunTurn(run.row, d)
           /\ GoUnless("inTurn")
  <2>1. run.row \in Rows
    BY <1>1, BudgetIs
  <2>2. /\ gate'.observer = gate.observer /\ gate'.expect = gate.expect
        /\ live'.planned = live.planned /\ UNCHANGED <<snapshots, restarts>>
        /\ turn = NoTurn /\ ledger'.receipts = ledger.receipts
        /\ ledger'.row \in {ledger.row, run.row}
        /\ \/ turn' # NoTurn /\ turn'.auto = FALSE /\ ~live'.failed
           \/ turn' = NoTurn /\ live'.failed
    BY <1>1, <1>3, <2>1, BeginIs
  <2>3. \/ Go("inTurn") /\ ~live'.failed
        \/ Go("unwind") /\ live'.failed
    BY <1>3 DEF GoUnless, Failed
  <2>4. /\ run' \in Runs /\ run'.row = run.row /\ run'.done = run.done
        /\ run'.ok = run.ok /\ run'.pc \in {"inTurn", "unwind"}
        /\ run'.pc = "inTurn" <=> ~live'.failed
    BY <1>1, <2>3, GoIs DEF Places
  <2>5. /\ ChildrenOf[run.row] > 0 => run.done + 1 # RowBudget[run.row]
        /\ run.done # RowBudget[run.row]
    BY <1>1, BudgetIs DEF TurnsLeft
  <2>6. RunCounts'
    BY <1>1, <2>2, <2>4, <2>5 DEF RunCounts
  <2>7. RunRestarts'
    <3>1. run.row = RestartRow /\ restarts = 0 => run.done = 0
      BY <1>1, BudgetIs DEF RunRestarts, RestartDue
    <3> QED
      BY <1>1, <2>2, <2>4, <3>1 DEF RunRestarts
  <2>8. RunEnding'
    BY <1>1, <2>4, UnderwayEnds DEF Underway
  <2> QED
    BY <2>4, <2>6, <2>7, <2>8 DEF RunInv
<1> QED
  BY <1>2, <1>3 DEF NextTurn

(* The delivery turn of the row is asked for. *)
LEMMA DeliveryHolds == RunInv /\ LiveInv' /\ Delivery => RunInv'
<1> SUFFICES ASSUME RunInv, LiveInv', Delivery PROVE RunInv'
  OBVIOUS
<1>1. /\ run \in Runs /\ RunCounts /\ RunRestarts /\ RunEnding /\ LiveInv
      /\ run.pc = "turns" /\ ~TurnsLeft /\ run.done < RowBudget[run.row]
      /\ ObserveDeliveryTurn(run.row) /\ GoUnless("inTurn")
  BY DEF RunInv, Delivery, At
<1>2. run.row \in Rows
  BY <1>1, BudgetIs
<1>3. /\ gate'.observer = gate.observer /\ gate'.expect = gate.expect
      /\ live'.planned = live.planned /\ UNCHANGED <<snapshots, restarts>>
      /\ turn = NoTurn /\ ledger'.receipts = ledger.receipts
      /\ ledger'.row \in {ledger.row, run.row}
      /\ \/ turn' # NoTurn /\ turn'.auto = TRUE /\ ~live'.failed
         \/ turn' = NoTurn /\ live'.failed
  BY <1>1, <1>2, BeginIs
<1>4. \/ Go("inTurn") /\ ~live'.failed
      \/ Go("unwind") /\ live'.failed
  BY <1>1 DEF GoUnless, Failed
<1>5. /\ run' \in Runs /\ run'.row = run.row /\ run'.done = run.done
      /\ run'.ok = run.ok /\ run'.pc \in {"inTurn", "unwind"}
      /\ run'.pc = "inTurn" <=> ~live'.failed
  BY <1>1, <1>4, GoIs DEF Places
<1>6. run.done # RowBudget[run.row] /\ run.row # RestartRow
  BY <1>1, BudgetIs DEF TurnsLeft
<1>7. RunCounts'
  BY <1>1, <1>3, <1>5, <1>6 DEF RunCounts
<1>8. RunRestarts'
  BY <1>1, <1>3, <1>5, <1>6 DEF RunRestarts
<1>9. RunEnding'
  BY <1>1, <1>5, UnderwayEnds DEF Underway
<1> QED
  BY <1>5, <1>7, <1>8, <1>9 DEF RunInv

(* A receipt is counted; the last one of a row with tasks is the delivery's*)
(* turn, whose observer is at its end.                                     *)
LEMMA InTurnHolds ==
  RunInv /\ LiveInv' /\ run' \in Runs /\ InTurn => RunInv'
<1> SUFFICES ASSUME RunInv, LiveInv', run' \in Runs, InTurn PROVE RunInv'
  OBVIOUS
<1>1. /\ run \in Runs /\ RunCounts /\ RunRestarts /\ RunEnding /\ LiveInv
      /\ run.pc = "inTurn" /\ Execute
      /\ run' = [run EXCEPT
           !.pc = IF Failed THEN "unwind"
                  ELSE IF turn' = NoTurn THEN "turns" ELSE "inTurn",
           !.done = IF turn' = NoTurn /\ ~Failed THEN @ + 1 ELSE @]
  BY DEF RunInv, InTurn, At
<1>2. /\ turn # NoTurn /\ gate'.expect = gate.expect
      /\ Tasked(gate.observer, gate'.observer)
      /\ live'.planned = live.planned /\ UNCHANGED restarts
      /\ GoesOn \/ Fails \/ Receives
  BY <1>1, ExecuteIs
<1>3. /\ run.row \in Rows /\ RowBudget[run.row] \in 1..4
      /\ run.done \in Nat /\ run.done < RowBudget[run.row]
      /\ ledger.row = run.row /\ run'.row = run.row /\ run'.ok = run.ok
  <2>1. run.row \in Rows /\ run.row # NoRow /\ run.done \in Nat
        /\ RowBudget[run.row] \in 1..4
    BY <1>1, BudgetIs
  <2>2. ledger.row \in Rows
    BY <1>1, <1>2, InProgress
  <2>3. ledger.row = run.row
    BY <1>1, <2>2, SessionAssumption DEF RunCounts
  <2>4. run.done < RowBudget[run.row]
    BY <1>1, <1>2, <2>3 DEF RunCounts, LiveInv, RowBound
  <2>5. run'.row = run.row /\ run'.ok = run.ok
    BY <1>1 DEF Runs
  <2> QED
    BY <2>1, <2>3, <2>4, <2>5
<1>4. CASE GoesOn \/ Fails
  <2>1. /\ run'.done = run.done /\ run'.pc \in {"inTurn", "unwind"}
        /\ run'.pc = "inTurn" <=> turn' # NoTurn
        /\ ledger' = ledger /\ (turn' # NoTurn => turn'.auto = turn.auto)
    BY <1>1, <1>4 DEF GoesOn, Fails, Failed, Runs
  <2>2. RunCounts'
    BY <1>1, <1>2, <1>3, <2>1 DEF RunCounts, Tasked
  <2>3. RunRestarts'
    BY <1>1, <1>2, <1>3, <2>1 DEF RunRestarts
  <2>4. RunEnding'
    BY <1>1, <1>3, <2>1, UnderwayEnds DEF Underway
  <2> QED
    BY <2>2, <2>3, <2>4 DEF RunInv
<1>5. CASE Receives
  <2>1. /\ run'.done = run.done + 1 /\ run'.pc = "turns"
        /\ turn' = NoTurn /\ HasEnded /\ gate' = gate
        /\ Len(ledger'.receipts) = Len(ledger.receipts) + 1
        /\ ledger'.row = ledger.row
    BY <1>1, <1>5 DEF Receives, Failed, Runs
  <2>2. ChildrenOf[run.row] > 0 /\ run.done + 1 = RowBudget[run.row] =>
          gate.observer.expect = 2 /\ gate.observer.terminal # "none"
    <3>1. ChildrenOf[run.row] > 0 => gate.expect = 2
      BY <1>1 DEF RunCounts
    <3> QED
      BY <1>1, <2>1, <3>1 DEF RunCounts, LiveInv, Watched
  <2>3. RunCounts'
    BY <1>1, <1>2, <1>3, <2>1, <2>2 DEF RunCounts
  <2>4. RunRestarts'
    BY <1>1, <1>2, <1>3, <2>1 DEF RunRestarts
  <2>5. RunEnding'
    <3>1. run.ok = FALSE
      BY <1>1, <1>3 DEF RunEnding, Runs
    <3> QED
      BY <1>3, <2>1, <3>1 DEF RunEnding, TrialEnded
  <2> QED
    BY <2>3, <2>4, <2>5 DEF RunInv
<1> QED
  BY <1>2, <1>4, <1>5

(* The run closes its gateway on the way to a restart. *)
LEMMA RestartClosesHolds == RunInv /\ LiveInv' /\ RestartCloses => RunInv'
<1> SUFFICES ASSUME RunInv, LiveInv', RestartCloses PROVE RunInv'
  OBVIOUS
<1>1. /\ run \in Runs /\ RunCounts /\ RunRestarts /\ RunEnding /\ LiveInv
      /\ CloseSession /\ RestartDue
      /\ Go("disable") \/ Go("unwind")
  BY DEF RunInv, RestartCloses, GoUnless
<1>2. /\ run' \in Runs /\ run'.pc \in {"disable", "unwind"}
      /\ run'.row = run.row /\ run'.done = run.done /\ run'.ok = run.ok
  BY <1>1, GoIs DEF Places
<1>3. Same /\ UNCHANGED ledger /\ turn = NoTurn
  BY <1>1, IdleIs
<1>4. RunCounts'
  BY <1>1, <1>2, <1>3, QuietCounts DEF Same
<1>5. RunRestarts'
  BY <1>1, <1>2, <1>3 DEF RunRestarts, RestartDue, Same
<1>6. RunEnding'
  BY <1>1, <1>2, UnderwayEnds DEF Underway
<1> QED
  BY <1>2, <1>4, <1>5, <1>6 DEF RunInv

(* The plugin is moved aside on the way to a restart. *)
LEMMA DisableHolds == RunInv /\ LiveInv' /\ run' \in Runs /\ Disable => RunInv'
<1> SUFFICES ASSUME RunInv, LiveInv', run' \in Runs, Disable PROVE RunInv'
  OBVIOUS
<1>1. /\ run \in Runs /\ RunCounts /\ RunRestarts /\ RunEnding
      /\ UNCHANGED liveVars /\ run.pc = "disable"
  BY DEF RunInv, Disable, At
<1>2. /\ run'.pc \in {"resume", "unwind"} /\ run'.row = run.row
      /\ run'.done = run.done /\ run'.ok = run.ok
  BY <1>1 DEF Disable, Go, Runs
<1>3. RunCounts'
  BY <1>1, <1>2, QuietCounts DEF RunCounts, liveVars
<1>4. RunRestarts'
  BY <1>1, <1>2 DEF RunRestarts, liveVars
<1>5. RunEnding'
  BY <1>1, <1>2, UnderwayEnds DEF Underway
<1> QED
  BY <1>3, <1>4, <1>5 DEF RunInv

(* The resumed session has the plan, the ledger and, the row having no     *)
(* tasks, the terminals of the one before.                                 *)
LEMMA ResumeHolds == RunInv /\ LiveInv' /\ Resume => RunInv'
<1> SUFFICES ASSUME RunInv, LiveInv', Resume PROVE RunInv'
  OBVIOUS
<1>1. /\ run \in Runs /\ RunCounts /\ RunRestarts /\ RunEnding /\ LiveInv
      /\ run.pc = "resume"
  BY DEF RunInv, Resume, At
<1>2. run.row = RestartRow /\ run.done = 1 /\ restarts = 0
  BY <1>1 DEF RunRestarts
<1>3. CASE Go("unwind") /\ UNCHANGED liveVars
  <2>1. /\ run' \in Runs /\ run'.pc = "unwind"
        /\ run'.row = run.row /\ run'.done = run.done /\ run'.ok = run.ok
    BY <1>1, <1>3, GoIs DEF Places
  <2>2. RunCounts'
    BY <1>1, <1>3, <2>1, QuietCounts DEF RunCounts, liveVars
  <2> QED
    BY <1>1, <1>3, <2>1, <2>2, QuietRestarts, UnderwayEnds
       DEF RunInv, liveVars, Underway
<1>4. CASE Restart /\ live'.planned = live.planned /\ Go("start")
  <2>1. /\ run' \in Runs /\ run'.pc = "start"
        /\ run'.row = run.row /\ run'.done = run.done /\ run'.ok = run.ok
    BY <1>1, <1>4, GoIs DEF Places
  <2>2. /\ gate'.expect = 1 /\ gate'.observer.expect = 1
        /\ ledger' = ledger /\ turn = NoTurn /\ turn' = NoTurn
        /\ restarts' = 1
    BY <1>2, <1>4, NewIsSound, ObserverAssumption
       DEF Restart, Copied, NewGate
  <2>3. ChildrenOf[run.row] = 0
    BY <1>1, <1>2, BudgetIs
  <2>4. RunCounts'
    BY <1>1, <1>4, <2>1, <2>2, <2>3 DEF RunCounts
  <2>5. RunRestarts'
    BY <1>2, <2>1, <2>2 DEF RunRestarts
  <2>6. RunEnding'
    BY <1>1, <2>1, UnderwayEnds DEF Underway
  <2> QED
    BY <2>1, <2>4, <2>5, <2>6 DEF RunInv
<1> QED
  BY <1>3, <1>4 DEF Resume

(* After the last turn the evidence of the host is collected. *)
LEMMA HostObservationHolds ==
  RunInv /\ LiveInv' /\ run' \in Runs /\ HostObservation => RunInv'
<1> SUFFICES ASSUME RunInv, LiveInv', run' \in Runs, HostObservation
             PROVE  RunInv'
  OBVIOUS
<1>1. /\ run \in Runs /\ RunCounts /\ RunRestarts /\ RunEnding /\ LiveInv
      /\ Collect /\ run.done = RowBudget[run.row]
      /\ run' = [run EXCEPT !.pc = "unwind", !.ok = ~Failed]
  BY DEF RunInv, HostObservation
<1>2. /\ run'.pc = "unwind" /\ run'.row = run.row /\ run'.done = run.done
  BY <1>1 DEF Runs
<1>3. Same /\ UNCHANGED ledger /\ turn = NoTurn
  BY <1>1, IdleIs
<1>4. RunCounts'
  BY <1>1, <1>2, <1>3, QuietCounts DEF Same
<1>5. RunRestarts'
  BY <1>1, <1>2, <1>3, QuietRestarts DEF Same
<1>6. RunEnding'
  BY <1>1, <1>2 DEF RunEnding, TrialEnded
<1> QED
  BY <1>4, <1>5, <1>6 DEF RunInv

(* The session that is current is closed, whether or not a step raised. *)
LEMMA UnwindHolds == RunInv /\ LiveInv' /\ Unwind => RunInv'
<1> SUFFICES ASSUME RunInv, LiveInv', Unwind PROVE RunInv'
  OBVIOUS
<1>1. /\ run \in Runs /\ RunCounts /\ RunRestarts /\ RunEnding /\ LiveInv
      /\ run.pc = "unwind"
      /\ CloseSession \/ (live.closed /\ UNCHANGED liveVars)
      /\ (Go("delegation") /\ run.ok) \/ Go("restore")
  BY DEF RunInv, Unwind, At
<1>2. /\ run' \in Runs /\ run'.row = run.row /\ run'.done = run.done
      /\ run'.ok = run.ok /\ run'.pc \in {"delegation", "restore"}
      /\ run'.pc = "delegation" => run.ok
  BY <1>1, GoIs DEF Places
<1>3. /\ Same /\ UNCHANGED ledger /\ turn = NoTurn /\ ~gate'.open
  <2>1. CASE CloseSession
    BY <1>1, <2>1, IdleIs
  <2>2. CASE live.closed /\ UNCHANGED liveVars
    <3>1. turn = NoTurn /\ ~gate.open
      BY <1>1, <2>2 DEF RunCounts, LiveInv, LiveTyped, Opened, Sessions
    <3> QED
      BY <2>2, <3>1 DEF Same, liveVars
  <2> QED
    BY <1>1, <2>1, <2>2
<1>4. RunCounts'
  BY <1>1, <1>2, <1>3, QuietCounts DEF Same
<1>5. RunRestarts'
  BY <1>1, <1>2, <1>3, QuietRestarts DEF Same
<1>6. RunEnding'
  BY <1>1, <1>2, <1>3 DEF RunEnding, TrialEnded
<1> QED
  BY <1>2, <1>4, <1>5, <1>6 DEF RunInv

(* The delegations of the row are observed. *)
LEMMA DelegationHolds ==
  RunInv /\ LiveInv' /\ DelegationObservation => RunInv'
<1> SUFFICES ASSUME RunInv, LiveInv', DelegationObservation PROVE RunInv'
  OBVIOUS
<1>1. /\ run \in Runs /\ RunCounts /\ RunRestarts /\ RunEnding /\ LiveInv
      /\ run.pc = "delegation" /\ Collect
      /\ Go("restore") \/ Go("compose")
  BY DEF RunInv, DelegationObservation, At
<1>2. /\ run' \in Runs /\ run'.row = run.row /\ run'.done = run.done
      /\ run'.ok = run.ok /\ run'.pc \in {"compose", "restore"} /\ run.ok
  BY <1>1, GoIs DEF Places, RunEnding
<1>3. /\ Same /\ UNCHANGED ledger /\ turn = NoTurn /\ ~gate'.open
  BY <1>1, IdleIs DEF RunEnding
<1>4. RunCounts'
  BY <1>1, <1>2, <1>3, QuietCounts DEF Same
<1>5. RunRestarts'
  BY <1>1, <1>2, <1>3, QuietRestarts DEF Same
<1>6. RunEnding'
  BY <1>1, <1>2, <1>3 DEF RunEnding, TrialEnded
<1> QED
  BY <1>2, <1>4, <1>5, <1>6 DEF RunInv

(* The accounts are compared and the result composed, or the trial         *)
(* refused.                                                                *)
LEMMA ComposeHolds == RunInv /\ LiveInv' /\ Compose => RunInv'
<1> SUFFICES ASSUME RunInv, LiveInv', Compose PROVE RunInv'
  OBVIOUS
<1>1. /\ run \in Runs /\ RunCounts /\ RunRestarts /\ RunEnding /\ LiveInv
      /\ run.pc = "compose" /\ UNCHANGED liveVars
      /\ (AccountsAgree /\ Go("passed")) \/ Go("restore")
  BY DEF RunInv, Compose, At
<1>2. /\ run' \in Runs /\ run'.row = run.row /\ run'.done = run.done
      /\ run'.ok = run.ok /\ run'.pc \in {"passed", "restore"} /\ run.ok
      /\ run'.pc = "passed" => AccountsAgree
  BY <1>1, GoIs DEF Places, RunEnding
<1>3. AccountsAgree => AccountsAgree'
  BY <1>1 DEF AccountsAgree, liveVars
<1>4. RunCounts'
  BY <1>1, <1>2, QuietCounts DEF RunCounts, liveVars
<1>5. RunRestarts'
  BY <1>1, <1>2, QuietRestarts DEF liveVars
<1>6. RunEnding'
  BY <1>1, <1>2, <1>3 DEF RunEnding, TrialEnded, liveVars
<1> QED
  BY <1>2, <1>4, <1>5, <1>6 DEF RunInv

(* The plugin is put back. *)
LEMMA RestorePluginHolds ==
  RunInv /\ LiveInv' /\ run' \in Runs /\ RestorePlugin => RunInv'
<1> SUFFICES ASSUME RunInv, LiveInv', run' \in Runs, RestorePlugin
             PROVE  RunInv'
  OBVIOUS
<1>1. /\ run \in Runs /\ RunCounts /\ RunRestarts /\ RunEnding
      /\ run.pc \in {"passed", "restore"} /\ UNCHANGED liveVars
  BY DEF RunInv, RestorePlugin
<1>2. /\ run'.row = run.row /\ run'.done = run.done /\ run'.ok = run.ok
      /\ run'.pc \in {"ended passed", "ended failed"}
      /\ run'.pc = "ended passed" => run.pc = "passed"
      /\ run'.plugin = "aside" => run'.stuck
  <2> DEFINE end(x) == IF x /\ At("passed") THEN "ended passed"
                       ELSE "ended failed"
  <2>1. \A x \in BOOLEAN :
          /\ end(x) \in {"ended passed", "ended failed"}
          /\ end(x) = "ended passed" => run.pc = "passed"
    BY DEF At
  <2>2. \/ run.plugin # "aside" /\ run' = [run EXCEPT !.pc = end(TRUE)]
        \/ run' = [run EXCEPT !.pc = end(TRUE), !.plugin = "staged"]
        \/ run' = [run EXCEPT !.pc = end(FALSE), !.stuck = TRUE]
    BY DEF RestorePlugin, PutBack, Go
  <2> HIDE DEF end
  <2> QED
    BY <1>1, <2>1, <2>2 DEF Runs
<1>3. AccountsAgree => AccountsAgree'
  BY <1>1 DEF AccountsAgree, liveVars
<1>4. RunCounts'
  BY <1>1, <1>2, QuietCounts DEF RunCounts, liveVars
<1>5. RunRestarts'
  BY <1>1, <1>2, QuietRestarts DEF liveVars
<1>6. RunEnding'
  BY <1>1, <1>2, <1>3 DEF RunEnding, TrialEnded, liveVars
<1> QED
  BY <1>4, <1>5, <1>6 DEF RunInv

(* Each step of a run keeps the invariant. *)
LEMMA RunInvStep == RunInv /\ [RunNext]_runVars => RunInv'
<1> SUFFICES ASSUME RunInv, [RunNext]_runVars PROVE RunInv'
  OBVIOUS
<1>1. run' \in Runs /\ [LiveNext]_liveVars
  BY RunsStep, RunIsLiveStep DEF RunInv
<1>2. LiveInv'
  BY <1>1, LiveInvStep DEF RunInv
<1>3. CASE UNCHANGED runVars
  <2>1. RunCounts'
    BY <1>3 DEF runVars, liveVars, RunInv, RunCounts
  <2>2. RunRestarts'
    BY <1>3 DEF runVars, liveVars, RunInv, RunRestarts
  <2>3. AccountsAgree' = AccountsAgree
    BY <1>3 DEF runVars, liveVars, AccountsAgree
  <2>4. RunEnding'
    BY <1>3, <2>3 DEF runVars, liveVars, RunInv, RunEnding, TrialEnded
  <2> QED
    BY <1>1, <1>2, <2>1, <2>2, <2>4 DEF RunInv
<1>4. CASE \/ Stage \/ RunStart \/ RunVerify \/ NextTurn \/ Delivery
           \/ InTurn \/ RestartCloses \/ Disable \/ Resume
  BY <1>1, <1>2, <1>4, StageHolds, StartHolds, NextTurnHolds, DeliveryHolds,
     InTurnHolds, RestartClosesHolds, DisableHolds, ResumeHolds
<1>5. CASE \/ HostObservation \/ Unwind \/ DelegationObservation \/ Compose
           \/ RestorePlugin
  BY <1>1, <1>2, <1>5, HostObservationHolds, UnwindHolds, DelegationHolds,
     ComposeHolds, RestorePluginHolds
<1> QED
  BY <1>3, <1>4, <1>5 DEF RunNext

(* The invariant says what the properties of a run say. *)
LEMMA RunInvGives ==
  ASSUME RunInv
  PROVE  TrialHolds
<1>1. /\ run \in Runs /\ RunCounts /\ RunRestarts /\ RunEnding /\ LiveInv
      /\ run.row \in Rows /\ run.row # NoRow /\ run.done \in Nat
  BY BudgetIs DEF RunInv
<1>2. run.done = RowBudget[run.row] => restarts # 0 \/ run.row # RestartRow
  <2>1. /\ RowBudget[run.row] \in 1..4
        /\ run.row = RestartRow => RowBudget[run.row] > 1
    BY <1>1, BudgetIs
  <2>2. run.row = RestartRow /\ restarts = 0 => run.done <= 1
    BY <1>1 DEF RunRestarts
  <2> QED
    BY <2>1, <2>2
<1>3. RunnerKeepsBudget
  <2> SUFFICES ASSUME At("turns"), run.done < RowBudget[run.row],
                      ~RestartDue
               PROVE  /\ Budgeted /\ RowAdmits(run.row)
                      /\ ledger.row \in {NoRow, run.row}
                      /\ run.done = Len(ledger.receipts)
    BY DEF RunnerKeepsBudget
  <2>1. /\ run.done = Len(ledger.receipts) /\ ledger.calls = run.done
        /\ live.planned = RowBudget[run.row]
        /\ ledger.row \in {NoRow, run.row}
        /\ ledger.rowTurns[run.row] =
             IF run.row = ledger.row THEN run.done ELSE 0
    BY <1>1 DEF RunCounts, LiveInv, RowBound
  <2>2. Budgeted
    BY <2>1 DEF Budgeted
  <2>3. RowAdmits(run.row)
    <3>1. RowBudget[run.row] \in 1..4
      BY <1>1, BudgetIs
    <3> QED
      BY <1>1, <2>1, <3>1 DEF RowAdmits
  <2> QED
    BY <2>1, <2>2, <2>3
<1>4. PassedTrialIsWhole
  <2> SUFFICES ASSUME run.pc = "ended passed"
               PROVE  /\ Len(ledger.receipts) = RowBudget[run.row]
                      /\ AccountsAgree
                      /\ restarts = (IF run.row = RestartRow THEN 1 ELSE 0)
                      /\ ChildrenOf[run.row] > 0 =>
                           /\ gate.observer.taskCount = ChildrenOf[run.row]
                           /\ AllComplete(gate.observer)
    BY DEF PassedTrialIsWhole
  <2>1. run.done = RowBudget[run.row] /\ AccountsAgree
    BY <1>1 DEF RunEnding
  <2>2. Len(ledger.receipts) = RowBudget[run.row]
    BY <1>1, <2>1 DEF RunCounts
  <2>3. restarts = (IF run.row = RestartRow THEN 1 ELSE 0)
    BY <1>1, <1>2, <2>1 DEF RunRestarts
  <2>4. ASSUME ChildrenOf[run.row] > 0
        PROVE  /\ gate.observer.taskCount = ChildrenOf[run.row]
               /\ AllComplete(gate.observer)
    <3>1. /\ gate.observer.expect = 2 /\ gate.observer.terminal # "none"
          /\ gate.observer.tasks = ChildrenOf[run.row]
      BY <1>1, <2>1, <2>4 DEF RunCounts
    <3>2. Whole(gate.observer)
      BY <1>1, <3>1 DEF LiveInv, Watched
    <3> QED
      BY <3>1, <3>2 DEF Whole, DelegationOK
  <2> QED
    BY <2>1, <2>2, <2>3, <2>4
<1>5. TrialCleansUp
  BY <1>1 DEF RunEnding, TrialCleansUp, TrialEnded
<1> QED
  BY <1>3, <1>4, <1>5 DEF TrialHolds

(* A trial never asks its session for a turn more than its row has, passes *)
(* only whole, and gives back its gateway and plugin, for any rows,        *)
(* budgets, tasks and events (V4NormalGatewayRunner.execute()).            *)
THEOREM TrialHeld == RunSpec => []TrialHolds
<1>1. RunSpec => []RunInv
  BY RunInvInit, RunInvStep, PTL DEF RunSpec
<1> QED
  BY <1>1, RunInvGives, PTL

-----------------------------------------------------------------------------
(* Each part of the stack has its type in every behaviour of its own, for  *)
(* any bounds, rows, budgets, events and answers of the host.              *)
THEOREM StackTypesKept ==
  /\ ClientSpec /\ ObserverSpec /\ LiveSpec /\ SandboxSpec
  /\ SuitesSpec /\ TrialsSpec /\ ProbeSpec
  => []GatewayTypeOK
<1>1. /\ ClientTypeOK /\ ObserverTypeOK /\ LiveTypeOK /\ SandboxTypeOK
      /\ SuitesTypeOK /\ TrialsTypeOK /\ ProbeTypeOK
      => GatewayTypeOK
  BY DEF GatewayTypeOK
<1> QED
  BY <1>1, ClientTypeCorrect, ObserverTypeCorrect, SessionTypeCorrect,
     SandboxTypeCorrect, CaseTypeCorrect, LocalTrialTypeCorrect,
     ProbeTypeCorrect, PTL
=============================================================================
