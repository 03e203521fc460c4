------------------------ MODULE GatewayClientProofs ------------------------
(***************************************************************************)
(* Proofs about GatewayClient, for any bound of its queues, any event      *)
(* types and any amount of traffic.                                        *)
(***************************************************************************)
EXTENDS GatewayClient, SequenceTheorems, FiniteSetTheorems, TLAPS

ClientSpec == ClientInit /\ [][ClientNext]_clientVars

AnyFrame == EventFrames \cup {STOP}
Waiting == call.deferred \o backlog \o events

(* The events of a sequence are in order, and are those of 1..n that are   *)
(* not in g.                                                               *)
KeptFrames(w, n, g) ==
  /\ \A i, j \in {k \in DOMAIN w : w[k] # STOP} : i < j => w[i].id < w[j].id
  /\ {w[i].id : i \in {k \in DOMAIN w : w[k] # STOP}} = (1..n) \ g

(* What a wait has passed over fits into the backlog with what is in it:   *)
(* the deque is never cut when the frames are put back.                    *)
Room ==
  /\ Len(call.deferred) + Len(backlog) <= MaxBacklog
  /\ call.op = "wait" => /\ Len(call.deferred) < MaxBacklog
                         /\ call.want # "none"
  /\ call.op # "wait" => call.deferred = <<>>
  /\ call.op # "idle" => call.closed = "none"

(* The end marker is the last frame of a queue, and nothing is read after  *)
(* it, nor after an error.                                                 *)
Ends ==
  /\ \A i \in DOMAIN events :
       events[i] = STOP => i = Len(events) /\ reader = "ended"
  /\ \A i \in DOMAIN responses : responses[i] = STOP => reader = "ended"
  /\ reader = "read" => readerError = "none"
  /\ readerError # "none" => stop \/ reader = "ended"

(* A wait passes over the frames it does not want only; one that was told  *)
(* of the end had passed over all there were.                              *)
Passed ==
  /\ call.op = "wait" =>
       \A i \in DOMAIN call.deferred :
         call.want \notin {call.deferred[i].kind, "any"}
  /\ call.closed # "none" =>
       /\ reader = "ended" /\ events = <<>>
       /\ \A i \in DOMAIN backlog : call.closed \notin {backlog[i].kind, "any"}

(* The requests an answer may still come or lie in the queue for: the      *)
(* present one, and those whose calls gave up.                             *)
Owed == abandoned \cup (IF call.op = "call" THEN {call.id} ELSE {})

AllAnswered ==
  /\ \A i \in DOMAIN responses : responses[i] # STOP =>
       /\ responses[i].id \in Owed /\ responses[i].id \notin unanswered
       /\ \A j \in DOMAIN responses :
            j # i /\ responses[j] # STOP => responses[j].id # responses[i].id
  /\ unanswered \subseteq Owed
  /\ Owed \subseteq 1..(nextId - 1)

(* An overflow, while fewer calls gave up than a queue holds, is one of    *)
(* events.                                                                 *)
Overflow ==
  Cardinality(abandoned) < MaxBacklog /\ readerError = "overflow" =>
    sent >= MaxBacklog

Delivered == KeptFrames(Waiting, sent, gone) /\ gone \subseteq 1..sent

ClientInv ==
  /\ ClientTypeOK /\ Room /\ Ends /\ Passed /\ Delivered
  /\ AllAnswered /\ Overflow
-----------------------------------------------------------------------------
(* Sequences of frames.                                                    *)

(* The end marker is no event. *)
LEMMA StopIsNoEvent == STOP \notin EventFrames /\ STOP \notin Answers
  BY ClientAssumption DEF STOP, EventFrames, Answers

(* An event that enters comes last, with the next id. *)
LEMMA KeptAppend ==
  ASSUME NEW w \in Seq(AnyFrame), NEW n \in Nat, NEW g \in SUBSET (1..n),
         NEW f \in EventFrames, f.id = n + 1, KeptFrames(w, n, g)
  PROVE  KeptFrames(Append(w, f), n + 1, g)
<1> DEFINE v == Append(w, f)
<1>1. /\ DOMAIN w = 1..Len(w) /\ DOMAIN v = 1..(Len(w) + 1)
      /\ Len(w) \in Nat /\ v[Len(w) + 1] = f
      /\ \A i \in 1..Len(w) : v[i] = w[i]
  <2>1. f \in AnyFrame
    BY DEF AnyFrame
  <2> QED
    BY <2>1, AppendProperties, LenProperties
<1>2. f # STOP
  BY StopIsNoEvent
<1>3. \A i \in DOMAIN w : w[i] # STOP => w[i].id \in (1..n) \ g
  BY DEF KeptFrames
<1>4. \A x \in (1..n) \ g : \E i \in DOMAIN w : w[i] # STOP /\ w[i].id = x
  BY DEF KeptFrames
<1>5. \A i, j \in {k \in DOMAIN v : v[k] # STOP} :
         i < j => v[i].id < v[j].id
  <2> SUFFICES ASSUME NEW i \in DOMAIN v, NEW j \in DOMAIN v, i < j,
                      v[i] # STOP, v[j] # STOP
               PROVE  v[i].id < v[j].id
    OBVIOUS
  <2>1. i \in DOMAIN w /\ v[i] = w[i]
    BY <1>1
  <2>2. CASE j \in DOMAIN w
    BY <1>1, <2>1, <2>2 DEF KeptFrames
  <2>3. CASE j = Len(w) + 1
    BY <1>1, <1>3, <2>1, <2>3
  <2> QED
    BY <1>1, <2>2, <2>3
<1>6. {v[i].id : i \in {k \in DOMAIN v : v[k] # STOP}} = (1..(n + 1)) \ g
  <2>1. ASSUME NEW i \in DOMAIN v, v[i] # STOP
        PROVE  v[i].id \in (1..(n + 1)) \ g
    <3>1. CASE i \in DOMAIN w
      BY <1>1, <1>3, <2>1, <3>1
    <3>2. CASE i = Len(w) + 1
      BY <1>1, <3>2
    <3> QED
      BY <1>1, <3>1, <3>2
  <2>2. ASSUME NEW x \in (1..(n + 1)) \ g
        PROVE  \E i \in DOMAIN v : v[i] # STOP /\ v[i].id = x
    <3>1. CASE x = n + 1
      BY <1>1, <1>2, <3>1
    <3>2. CASE x # n + 1
      BY <1>1, <1>4, <3>2
    <3> QED
      BY <3>1, <3>2
  <2> QED
    BY <2>1, <2>2
<1> QED
  BY <1>5, <1>6 DEF KeptFrames

(* The end marker changes nothing. *)
LEMMA KeptStop ==
  ASSUME NEW w \in Seq(AnyFrame), NEW n, NEW g, KeptFrames(w, n, g)
  PROVE  KeptFrames(Append(w, STOP), n, g)
<1> DEFINE v == Append(w, STOP)
<1>1. /\ DOMAIN w = 1..Len(w) /\ DOMAIN v = 1..(Len(w) + 1)
      /\ Len(w) \in Nat /\ v[Len(w) + 1] = STOP
      /\ \A i \in 1..Len(w) : v[i] = w[i]
  <2>1. STOP \in AnyFrame
    BY DEF AnyFrame
  <2> QED
    BY <2>1, AppendProperties, LenProperties
<1>2. {k \in DOMAIN v : v[k] # STOP} = {k \in DOMAIN w : w[k] # STOP}
  BY <1>1
<1>3. \A i \in {k \in DOMAIN v : v[k] # STOP} : v[i] = w[i]
  BY <1>1
<1>4. \A i, j \in {k \in DOMAIN v : v[k] # STOP} :
         i < j => v[i].id < v[j].id
  BY <1>2, <1>3 DEF KeptFrames
<1>5. {v[i].id : i \in {k \in DOMAIN v : v[k] # STOP}} =
        {w[i].id : i \in {k \in DOMAIN w : w[k] # STOP}}
  BY <1>2, <1>3
<1> QED
  BY <1>4, <1>5 DEF KeptFrames

(* A frame that leaves the sequence, wherever it stands. *)
LEMMA Without ==
  ASSUME NEW l \in Seq(AnyFrame), NEW r \in Seq(AnyFrame), NEW f \in AnyFrame
  PROVE  LET w == l \o (<<f>> \o r)
             v == l \o r
             p == Len(l) + 1
         IN  /\ DOMAIN v = 1..(Len(l) + Len(r))
             /\ DOMAIN w = 1..(Len(l) + Len(r) + 1)
             /\ Len(l) \in Nat /\ Len(r) \in Nat /\ w[p] = f
             /\ \A i \in DOMAIN v : v[i] = IF i < p THEN w[i] ELSE w[i + 1]
<1>1. <<f>> \in Seq(AnyFrame) /\ Len(<<f>>) = 1 /\ <<f>>[1] = f
  OBVIOUS
<1>2. Len(l) \in Nat /\ Len(r) \in Nat
  BY LenProperties
<1>3. /\ <<f>> \o r \in Seq(AnyFrame) /\ Len(<<f>> \o r) = 1 + Len(r)
      /\ \A i \in 1..(1 + Len(r)) :
           (<<f>> \o r)[i] = IF i <= 1 THEN <<f>>[i] ELSE r[i - 1]
  BY <1>1, ConcatProperties
<1>4. /\ l \o (<<f>> \o r) \in Seq(AnyFrame)
      /\ Len(l \o (<<f>> \o r)) = Len(l) + (1 + Len(r))
      /\ \A i \in 1..(Len(l) + (1 + Len(r))) :
           (l \o (<<f>> \o r))[i] =
             IF i <= Len(l) THEN l[i] ELSE (<<f>> \o r)[i - Len(l)]
  BY <1>3, ConcatProperties
<1>5. /\ l \o r \in Seq(AnyFrame) /\ Len(l \o r) = Len(l) + Len(r)
      /\ \A i \in 1..(Len(l) + Len(r)) :
           (l \o r)[i] = IF i <= Len(l) THEN l[i] ELSE r[i - Len(l)]
  BY ConcatProperties
<1>6. /\ DOMAIN (l \o r) = 1..(Len(l) + Len(r))
      /\ DOMAIN (l \o (<<f>> \o r)) = 1..(Len(l) + Len(r) + 1)
  <2>1. DOMAIN (l \o r) = 1..Len(l \o r)
    BY <1>5, LenProperties
  <2>2. DOMAIN (l \o (<<f>> \o r)) = 1..Len(l \o (<<f>> \o r))
    BY <1>4, LenProperties
  <2> QED
    BY <1>2, <1>4, <1>5, <2>1, <2>2
<1>7. (l \o (<<f>> \o r))[Len(l) + 1] = f
  BY <1>1, <1>2, <1>3, <1>4
<1>8. ASSUME NEW i \in 1..(Len(l) + Len(r))
      PROVE  (l \o r)[i] = IF i < Len(l) + 1 THEN (l \o (<<f>> \o r))[i]
                                             ELSE (l \o (<<f>> \o r))[i + 1]
  <2>1. CASE i <= Len(l)
    BY <1>2, <1>4, <1>5, <2>1
  <2>2. CASE i > Len(l)
    <3>1. (l \o r)[i] = r[i - Len(l)]
      BY <1>2, <1>5, <2>2
    <3>2. (l \o (<<f>> \o r))[i + 1] = (<<f>> \o r)[(i + 1) - Len(l)]
      BY <1>2, <1>4, <2>2
    <3>3. (<<f>> \o r)[(i + 1) - Len(l)] = r[((i + 1) - Len(l)) - 1]
      BY <1>2, <1>3, <2>2
    <3>4. ((i + 1) - Len(l)) - 1 = i - Len(l)
      BY <1>2
    <3> QED
      BY <1>2, <2>2, <3>1, <3>2, <3>3, <3>4
  <2> QED
    BY <1>2, <2>1, <2>2
<1> QED
  BY <1>2, <1>6, <1>7, <1>8

(* The order of the frames that stay. *)
LEMMA OrderWithout ==
  ASSUME NEW l \in Seq(AnyFrame), NEW r \in Seq(AnyFrame),
         NEW f \in AnyFrame, NEW n, NEW g, KeptFrames(l \o (<<f>> \o r), n, g)
  PROVE  LET v == l \o r
         IN  \A i, j \in {k \in DOMAIN v : v[k] # STOP} :
               i < j => v[i].id < v[j].id
<1> DEFINE w == l \o (<<f>> \o r)
           v == l \o r
           at(i) == IF i < Len(l) + 1 THEN i ELSE i + 1
<1>1. /\ DOMAIN v = 1..(Len(l) + Len(r))
      /\ DOMAIN w = 1..(Len(l) + Len(r) + 1)
      /\ Len(l) \in Nat /\ Len(r) \in Nat
      /\ \A i \in DOMAIN v : v[i] = w[at(i)]
  BY Without
<1>2. \A i \in DOMAIN v : at(i) \in DOMAIN w
  BY <1>1
<1>3. \A i, j \in DOMAIN v : i < j => at(i) < at(j)
  BY <1>1
<1>4. \A i, j \in {k \in DOMAIN w : w[k] # STOP} : i < j => w[i].id < w[j].id
  BY DEF KeptFrames
<1> HIDE DEF w, v, at
<1>5. \A i, j \in {k \in DOMAIN v : v[k] # STOP} : i < j => v[i].id < v[j].id
  BY <1>1, <1>2, <1>3, <1>4
<1> QED
  BY <1>5 DEF v

(* An event that is handed over or refused is gone, and only that one: the *)
(* ids are in order, so no other has its id.                               *)
LEMMA KeptTaken ==
  ASSUME NEW l \in Seq(AnyFrame), NEW r \in Seq(AnyFrame),
         NEW f \in EventFrames, NEW n, NEW g,
         KeptFrames(l \o (<<f>> \o r), n, g)
  PROVE  KeptFrames(l \o r, n, g \cup {f.id}) /\ f.id \in (1..n) \ g
<1> DEFINE w == l \o (<<f>> \o r)
           v == l \o r
           p == Len(l) + 1
           at(i) == IF i < p THEN i ELSE i + 1
           back(i) == IF i < p THEN i ELSE i - 1
<1>0. f \in AnyFrame /\ f # STOP
  BY StopIsNoEvent DEF AnyFrame
<1>1. /\ DOMAIN v = 1..(Len(l) + Len(r))
      /\ DOMAIN w = 1..(Len(l) + Len(r) + 1)
      /\ Len(l) \in Nat /\ Len(r) \in Nat /\ w[p] = f /\ p \in DOMAIN w
      /\ \A i \in DOMAIN v : v[i] = w[at(i)]
  BY SMTT(60), <1>0, Without
<1>2. \A i \in DOMAIN v : at(i) \in DOMAIN w /\ at(i) # p
  BY <1>1
<1>3. \A i \in DOMAIN w : i # p => back(i) \in DOMAIN v /\ at(back(i)) = i
  BY <1>1
<1>4. \A i \in DOMAIN w : w[i] # STOP => w[i].id \in (1..n) \ g
  BY DEF KeptFrames
<1>5. \A x \in (1..n) \ g : \E i \in DOMAIN w : w[i] # STOP /\ w[i].id = x
  BY DEF KeptFrames
<1>6. \A i, j \in {k \in DOMAIN v : v[k] # STOP} : i < j => v[i].id < v[j].id
  BY <1>0, OrderWithout
<1>7. \A i \in DOMAIN w : w[i] # STOP /\ i # p => w[i].id # f.id
  <2> SUFFICES ASSUME NEW i \in DOMAIN w, w[i] # STOP, i # p
               PROVE  w[i].id # f.id
    OBVIOUS
  <2>1. \A j, k \in {m \in DOMAIN w : w[m] # STOP} :
          j < k => w[j].id < w[k].id
    BY DEF KeptFrames
  <2> HIDE DEF w
  <2>2. i < p \/ p < i
    BY <1>1
  <2>3. w[i].id < f.id \/ f.id < w[i].id
    BY <1>0, <1>1, <2>1, <2>2
  <2>4. f.id \in Nat
    BY DEF EventFrames
  <2> QED
    BY <2>3, <2>4
<1> HIDE DEF w, v, p, at, back
<1>8. ASSUME NEW i \in DOMAIN v, v[i] # STOP
      PROVE  v[i].id \in (1..n) \ (g \cup {f.id})
  BY <1>1, <1>2, <1>4, <1>7, <1>8
<1>9. ASSUME NEW x \in (1..n) \ (g \cup {f.id})
      PROVE  \E i \in DOMAIN v : v[i] # STOP /\ v[i].id = x
  <2>1. PICK i \in DOMAIN w : w[i] # STOP /\ w[i].id = x
    BY <1>5
  <2>2. i # p
    BY <1>1, <2>1
  <2> QED
    BY <1>1, <1>3, <2>1, <2>2
<1>10. {v[i].id : i \in {k \in DOMAIN v : v[k] # STOP}} =
         (1..n) \ (g \cup {f.id})
  BY <1>8, <1>9
<1>11. KeptFrames(v, n, g \cup {f.id})
  BY <1>6, <1>10 DEF KeptFrames
<1>12. f.id \in (1..n) \ g
  BY <1>0, <1>1, <1>4
<1> QED
  BY <1>11, <1>12 DEF v

(* Frames that wait in three places, in one sequence. *)
LEMMA Regroup ==
  ASSUME NEW s \in Seq(AnyFrame), NEW t \in Seq(AnyFrame),
         NEW u \in Seq(AnyFrame)
  PROVE  (s \o t) \o u = s \o (t \o u)
  BY ConcatAssociative

(* The end marker, once read, is forgotten. *)
LEMMA KeptEnded ==
  ASSUME NEW l \in Seq(AnyFrame), NEW r \in Seq(AnyFrame), NEW n, NEW g,
         KeptFrames(l \o (<<STOP>> \o r), n, g)
  PROVE  KeptFrames(l \o r, n, g)
<1> DEFINE w == l \o (<<STOP>> \o r)
           v == l \o r
           p == Len(l) + 1
           at(i) == IF i < p THEN i ELSE i + 1
           back(i) == IF i < p THEN i ELSE i - 1
<1>0. STOP \in AnyFrame
  BY DEF AnyFrame
<1>1. /\ DOMAIN v = 1..(Len(l) + Len(r))
      /\ DOMAIN w = 1..(Len(l) + Len(r) + 1)
      /\ Len(l) \in Nat /\ Len(r) \in Nat /\ w[p] = STOP
      /\ \A i \in DOMAIN v : v[i] = w[at(i)]
  BY SMTT(60), <1>0, Without
<1>2. \A i \in DOMAIN v : at(i) \in DOMAIN w
  BY <1>1
<1>3. \A i \in DOMAIN w : i # p => back(i) \in DOMAIN v /\ at(back(i)) = i
  BY <1>1
<1>4. \A i \in DOMAIN w : w[i] # STOP => w[i].id \in (1..n) \ g
  BY DEF KeptFrames
<1>5. \A x \in (1..n) \ g : \E i \in DOMAIN w : w[i] # STOP /\ w[i].id = x
  BY DEF KeptFrames
<1>6. \A i, j \in {k \in DOMAIN v : v[k] # STOP} : i < j => v[i].id < v[j].id
  BY <1>0, OrderWithout
<1> HIDE DEF w, v, p, at, back
<1>7. ASSUME NEW i \in DOMAIN v, v[i] # STOP
      PROVE  v[i].id \in (1..n) \ g
  BY <1>1, <1>2, <1>4, <1>7
<1>8. ASSUME NEW x \in (1..n) \ g
      PROVE  \E i \in DOMAIN v : v[i] # STOP /\ v[i].id = x
  <2>1. PICK i \in DOMAIN w : w[i] # STOP /\ w[i].id = x
    BY <1>5
  <2> QED
    BY <1>1, <1>3, <2>1
<1>9. {v[i].id : i \in {k \in DOMAIN v : v[k] # STOP}} = (1..n) \ g
  BY <1>7, <1>8
<1>10. KeptFrames(v, n, g)
  BY <1>6, <1>9 DEF KeptFrames
<1> QED
  BY <1>10 DEF v

(* A sequence is its head and its tail. *)
LEMMA HeadAndTail ==
  ASSUME NEW S, NEW s \in Seq(S), s # <<>>
  PROVE  /\ Head(s) \in S /\ Tail(s) \in Seq(S) /\ s = <<Head(s)>> \o Tail(s)
         /\ Len(s) = Len(Tail(s)) + 1 /\ Len(Tail(s)) \in Nat
<1>1. Head(s) \in S /\ Tail(s) \in Seq(S) /\ Len(Tail(s)) = Len(s) - 1
  BY HeadTailProperties
<1>2. Len(s) \in Nat /\ Len(Tail(s)) \in Nat
  BY <1>1, LenProperties
<1>3. \A i \in 1..Len(Tail(s)) : Tail(s)[i] = s[i + 1]
  BY HeadTailProperties
<1>4. <<Head(s)>> \in Seq(S) /\ Len(<<Head(s)>>) = 1
  BY <1>1
<1>5. /\ <<Head(s)>> \o Tail(s) \in Seq(S)
      /\ Len(<<Head(s)>> \o Tail(s)) = 1 + Len(Tail(s))
      /\ \A i \in 1..(1 + Len(Tail(s))) :
           (<<Head(s)>> \o Tail(s))[i] =
             IF i <= 1 THEN <<Head(s)>>[i] ELSE Tail(s)[i - 1]
  BY <1>1, <1>4, ConcatProperties
<1>6. \A i \in 1..Len(s) : s[i] = (<<Head(s)>> \o Tail(s))[i]
  <2> SUFFICES ASSUME NEW i \in 1..Len(s)
               PROVE  s[i] = (<<Head(s)>> \o Tail(s))[i]
    OBVIOUS
  <2>1. CASE i = 1
    <3>1. s[1] = Head(s)
      OBVIOUS
    <3> QED
      BY <1>2, <1>5, <2>1, <3>1
  <2>2. CASE i # 1
    <3>1. i - 1 \in 1..Len(Tail(s)) /\ (i - 1) + 1 = i
      BY <1>1, <1>2, <2>2
    <3>2. Tail(s)[i - 1] = s[i]
      BY <1>3, <3>1
    <3>3. (<<Head(s)>> \o Tail(s))[i] = Tail(s)[i - 1]
      BY <1>1, <1>2, <1>5, <2>2
    <3> QED
      BY <3>2, <3>3
  <2> QED
    BY <2>1, <2>2
<1>7. s = <<Head(s)>> \o Tail(s)
  BY <1>1, <1>2, <1>5, <1>6, SeqEqual
<1> QED
  BY <1>1, <1>2, <1>7
-----------------------------------------------------------------------------
(* The caller's side of the events.                                        *)

(* The state of a caller that has no call in progress. *)
LEMMA IdleState ==
  ASSUME NEW c \in Wanted
  PROVE  /\ Idle(c) \in CallStates /\ Idle(c).op = "idle"
         /\ Idle(c).deferred = <<>> /\ Idle(c).closed = c
         /\ Done \in CallStates /\ Done.op = "idle"
         /\ Done.deferred = <<>> /\ Done.closed = "none"
<1>1. 0 \in 0..MaxTraffic /\ <<>> \in Seq(EventFrames)
  BY ClientAssumption
<1>2. "none" \in Wanted
  BY DEF Wanted
<1> QED
  BY <1>1, <1>2 DEF Idle, Done, CallStates

(* Sequences of events are sequences of frames. *)
LEMMA EventsAreFrames ==
  ASSUME NEW s \in Seq(EventFrames)
  PROVE  s \in Seq(AnyFrame)
<1>1. EventFrames \subseteq AnyFrame
  BY DEF AnyFrame
<1> QED
  BY <1>1, SeqMonotonic

(* What is put back into the backlog is all that was passed over. *)
LEMMA RestoreAll ==
  ASSUME NEW rest \in Seq(EventFrames), call.deferred \in Seq(EventFrames),
         Len(call.deferred) + Len(rest) <= MaxBacklog, Restore(rest)
  PROVE  /\ backlog' = call.deferred \o rest
         /\ backlog' \in Seq(EventFrames)
         /\ Len(backlog') = Len(call.deferred) + Len(rest)
<1> DEFINE all == call.deferred \o rest
<1>1. /\ all \in Seq(EventFrames)
      /\ Len(all) = Len(call.deferred) + Len(rest)
  BY ConcatProperties
<1>2. Len(all) \in Nat /\ Len(all) <= MaxBacklog
  BY <1>1, LenProperties
<1>3. backlog' = SubSeq(all, 1, IF Len(all) < MaxBacklog THEN Len(all)
                                ELSE MaxBacklog)
  BY DEF Restore
<1> HIDE DEF all
<1>4. backlog' = SubSeq(all, 1, Len(all))
  BY <1>2, <1>3, ClientAssumption
<1>5. backlog' = all
  BY <1>1, <1>4, SubSeqFull
<1> QED
  BY <1>1, <1>5 DEF all

(* One frame looked at: it is gone to the caller, or stays where it was    *)
(* among the frames that wait.                                             *)
LEMMA LookKeeps ==
  ASSUME ClientTypeOK, Room, Passed, Delivered, call.op = "wait",
         NEW f \in EventFrames, NEW rest \in Seq(EventFrames),
         Len(call.deferred) + Len(rest) + 1 <= MaxBacklog,
         events' \in Seq(AnyFrame), sent' = sent,
         Waiting = call.deferred \o (<<f>> \o (rest \o events')),
         Look(f, rest)
  PROVE  /\ backlog' \in Seq(EventFrames) /\ Len(backlog') <= MaxBacklog
         /\ call' \in CallStates /\ Room' /\ Delivered'
         /\ call'.op # "call" /\ call'.closed = "none"
         /\ call'.op = "wait" =>
              \A i \in DOMAIN call'.deferred :
                call'.want \notin {call'.deferred[i].kind, "any"}
<1> DEFINE d == call.deferred
           e == events'
<1>1. /\ d \in Seq(EventFrames) /\ d \in Seq(AnyFrame)
      /\ rest \in Seq(AnyFrame) /\ e \in Seq(AnyFrame)
      /\ call \in CallStates /\ sent \in Nat
  BY EventsAreFrames, ClientAssumption DEF ClientTypeOK, CallStates
<1>2. /\ rest \o e \in Seq(AnyFrame)
      /\ Len(d) \in Nat /\ Len(rest) \in Nat
  BY <1>1, ConcatProperties, LenProperties
<1>3. "none" \in Wanted
  BY DEF Wanted
<1>4. ASSUME Restore(rest), gone' = gone \cup {f.id}, call' = Done
      PROVE  /\ backlog' \in Seq(EventFrames) /\ Len(backlog') <= MaxBacklog
             /\ call' \in CallStates /\ Room' /\ Delivered'
             /\ call'.op = "idle" /\ call'.closed = "none"
  <2>1. /\ backlog' = d \o rest /\ backlog' \in Seq(EventFrames)
        /\ Len(backlog') = Len(d) + Len(rest)
    BY <1>1, <1>2, <1>4, RestoreAll, ClientAssumption
  <2>2. /\ call' \in CallStates /\ call'.op = "idle"
        /\ call'.deferred = <<>> /\ call'.closed = "none"
    BY <1>3, <1>4, IdleState
  <2>3. Waiting' = d \o (rest \o e)
    <3>1. backlog' \in Seq(AnyFrame)
      BY <2>1, EventsAreFrames
    <3>2. <<>> \o backlog' = backlog'
      BY <3>1, ConcatEmptySeq
    <3>3. Waiting' = backlog' \o e
      BY <2>2, <3>2 DEF Waiting
    <3>4. (d \o rest) \o e = d \o (rest \o e)
      BY <1>1, Regroup
    <3> QED
      BY <2>1, <3>3, <3>4
  <2>4. /\ KeptFrames(d \o (rest \o e), sent, gone \cup {f.id})
        /\ f.id \in 1..sent
    BY <1>1, <1>2, KeptTaken DEF Delivered
  <2>5. Delivered'
    BY <1>4, <2>3, <2>4 DEF Delivered
  <2>6. Room'
    BY <1>2, <2>1, <2>2, ClientAssumption DEF Room
  <2> QED
    BY <1>2, <2>1, <2>2, <2>5, <2>6, ClientAssumption
<1>5. ASSUME f.kind # NATIVE, call.want \notin {f.kind, "any"},
             gone' = gone,
             LET deferred == Append(d, f)
             IN  IF TooMany(deferred)
                 THEN /\ backlog' = SubSeq(deferred \o rest, 1, MaxBacklog)
                      /\ call' = Done
                 ELSE /\ backlog' = rest
                      /\ call' = [call EXCEPT !.deferred = deferred]
      PROVE  /\ backlog' \in Seq(EventFrames) /\ Len(backlog') <= MaxBacklog
             /\ call' \in CallStates /\ Room' /\ Delivered'
             /\ call'.op # "call" /\ call'.closed = "none"
             /\ call'.op = "wait" =>
                  \A i \in DOMAIN call'.deferred :
                    call'.want \notin {call'.deferred[i].kind, "any"}
  <2> DEFINE more == Append(d, f)
  <2>1. /\ more \in Seq(EventFrames) /\ Len(more) = Len(d) + 1
        /\ more = d \o <<f>> /\ more \in Seq(AnyFrame)
        /\ \A i \in DOMAIN more :
             (i \in DOMAIN d /\ more[i] = d[i]) \/ more[i] = f
    <3>1. more \in Seq(EventFrames) /\ Len(more) = Len(d) + 1
      BY <1>1, AppendProperties
    <3>2. more = d \o <<f>>
      BY <1>1, AppendIsConcat
    <3>3. DOMAIN more = 1..(Len(d) + 1) /\ DOMAIN d = 1..Len(d)
      BY <1>1, <3>1, LenProperties
    <3>4. /\ \A i \in 1..Len(d) : more[i] = d[i]
          /\ more[Len(d) + 1] = f
      BY <1>1, AppendProperties
    <3>5. more \in Seq(AnyFrame)
      BY <3>1, EventsAreFrames
    <3> QED
      BY <1>2, <3>1, <3>2, <3>3, <3>4, <3>5
  <2>2. more \o (rest \o e) = Waiting
    <3>1. <<f>> \in Seq(AnyFrame)
      BY DEF AnyFrame
    <3>2. (d \o <<f>>) \o (rest \o e) = d \o (<<f>> \o (rest \o e))
      BY <1>1, <1>2, <3>1, Regroup
    <3> QED
      BY <2>1, <3>2
  <2>3. CASE TooMany(more)
    <3>1. Len(rest) = 0 /\ Len(more) = MaxBacklog
      BY <1>2, <2>1, <2>3, ClientAssumption DEF TooMany
    <3>2. rest = <<>>
      BY <3>1, EmptySeq
    <3>3. more \o rest = more
      BY <2>1, <3>2, ConcatEmptySeq
    <3>4. backlog' = SubSeq(more, 1, Len(more)) /\ call' = Done
      BY <1>5, <2>3, <3>1, <3>3
    <3>5. backlog' = more
      BY <2>1, <3>4, SubSeqFull
    <3>6. /\ call' \in CallStates /\ call'.op = "idle"
          /\ call'.deferred = <<>> /\ call'.closed = "none"
      BY <1>3, <3>4, IdleState
    <3>7. Waiting' = Waiting
      <4>1. Waiting' = (<<>> \o more) \o e
        BY <3>5, <3>6 DEF Waiting
      <4>2. rest \o e = e
        BY <1>1, <3>2, ConcatEmptySeq
      <4>3. <<>> \o more = more
        BY <2>1, ConcatEmptySeq
      <4> QED
        BY <2>2, <4>1, <4>2, <4>3
    <3>8. Delivered'
      BY <1>5, <3>7 DEF Delivered
    <3>9. Room'
      BY <3>1, <3>5, <3>6, ClientAssumption DEF Room
    <3> QED
      BY <2>1, <3>1, <3>5, <3>6, <3>8, <3>9, ClientAssumption
  <2>4. CASE ~TooMany(more)
    <3>1. backlog' = rest /\ call' = [call EXCEPT !.deferred = more]
      BY <1>5, <2>4
    <3>2. /\ call' \in CallStates /\ call'.op = "wait"
          /\ call'.deferred = more /\ call'.closed = call.closed
          /\ call'.want = call.want
      BY <1>1, <2>1, <3>1 DEF CallStates
    <3>3. Waiting' = Waiting
      <4>1. Waiting' = (more \o rest) \o e
        BY <3>1, <3>2 DEF Waiting
      <4>2. (more \o rest) \o e = more \o (rest \o e)
        BY <1>1, <2>1, Regroup
      <4> QED
        BY <2>2, <4>1, <4>2
    <3>4. Delivered'
      BY <1>5, <3>3 DEF Delivered
    <3>5. Room'
      BY <1>2, <2>1, <2>4, <3>1, <3>2, ClientAssumption DEF Room, TooMany
    <3>6. \A i \in DOMAIN more : call.want \notin {more[i].kind, "any"}
      BY <1>5, <2>1 DEF Passed
    <3>7. call.closed = "none"
      BY DEF Room
    <3> QED
      BY <1>2, <3>1, <3>2, <3>4, <3>5, <3>6, <3>7, ClientAssumption
  <2> QED
    BY <2>3, <2>4
<1>6. \/ Restore(rest) /\ gone' = gone \cup {f.id} /\ call' = Done
      \/ /\ f.kind # NATIVE /\ call.want \notin {f.kind, "any"}
         /\ gone' = gone
         /\ LET deferred == Append(d, f)
            IN  IF TooMany(deferred)
                THEN /\ backlog' = SubSeq(deferred \o rest, 1, MaxBacklog)
                     /\ call' = Done
                ELSE /\ backlog' = rest
                     /\ call' = [call EXCEPT !.deferred = deferred]
  BY DEF Look
<1>7. CASE Restore(rest) /\ gone' = gone \cup {f.id} /\ call' = Done
  BY <1>4, <1>7
<1> QED
  BY <1>5, <1>6, <1>7

(* One turn of the loop of a wait keeps every event. *)
LEMMA WaitTakesKeeps == ClientInv /\ WaitTakes => ClientInv'
<1> SUFFICES ASSUME ClientInv, WaitTakes PROVE ClientInv'
  OBVIOUS
<1> DEFINE d == call.deferred
<1>1. /\ ClientTypeOK /\ Room /\ Ends /\ Passed /\ Delivered /\ AllAnswered
      /\ Overflow
  BY DEF ClientInv
<1>2. /\ call.op = "wait" /\ call \in CallStates
      /\ UNCHANGED <<reader, stop, readerError, responses, nextId, unanswered,
                     sent, abandoned>>
  BY <1>1 DEF WaitTakes, ClientTypeOK
<1>3. /\ d \in Seq(EventFrames) /\ d \in Seq(AnyFrame)
      /\ backlog \in Seq(EventFrames) /\ backlog \in Seq(AnyFrame)
      /\ events \in Seq(AnyFrame)
      /\ Len(d) \in Nat /\ Len(backlog) \in Nat /\ Len(events) \in Nat
      /\ Len(events) <= MaxBacklog
  BY <1>1, EventsAreFrames, LenProperties
  DEF ClientTypeOK, CallStates, AnyFrame
<1>4. ASSUME events' \in Seq(AnyFrame), Len(events') <= MaxBacklog,
             \A i \in DOMAIN events' :
               events'[i] = STOP => i = Len(events') /\ reader = "ended",
             backlog' \in Seq(EventFrames), Len(backlog') <= MaxBacklog,
             call' \in CallStates, Room', Delivered', Passed',
             call'.op # "call"
      PROVE  ClientInv'
  <2>1. gone' \subseteq 1..MaxTraffic
    <3>1. gone' \subseteq 1..sent' /\ sent' \in 0..MaxTraffic
      BY <1>1, <1>2, <1>4 DEF Delivered, ClientTypeOK
    <3> QED
      BY <3>1, ClientAssumption
  <2>2. ClientTypeOK'
    BY <1>1, <1>2, <1>4, <2>1 DEF ClientTypeOK, AnyFrame
  <2>3. Ends'
    BY <1>1, <1>2, <1>4 DEF Ends
  <2>4. Owed' = Owed
    BY <1>2, <1>4 DEF Owed
  <2>5. AllAnswered' /\ Overflow'
    BY <1>1, <1>2, <2>4 DEF AllAnswered, Overflow
  <2> QED
    BY <1>4, <2>2, <2>3, <2>5 DEF ClientInv
<1>5. CASE backlog # <<>> /\ Look(Head(backlog), Tail(backlog))
           /\ events' = events
  <2> DEFINE f == Head(backlog)
             rest == Tail(backlog)
  <2>1. /\ f \in EventFrames /\ rest \in Seq(EventFrames)
        /\ backlog = <<f>> \o rest /\ Len(backlog) = Len(rest) + 1
        /\ Len(rest) \in Nat
    BY <1>3, <1>5, HeadAndTail
  <2>2. Len(d) + Len(rest) + 1 <= MaxBacklog
    BY <1>1, <1>3, <2>1, ClientAssumption DEF Room
  <2>3. /\ rest \in Seq(AnyFrame) /\ <<f>> \in Seq(AnyFrame)
        /\ rest \o events \in Seq(AnyFrame)
    BY <1>3, <2>1, EventsAreFrames, ConcatProperties DEF AnyFrame
  <2> HIDE DEF f, rest
  <2>4. Waiting = d \o (<<f>> \o (rest \o events'))
    <3>1. (d \o backlog) \o events = d \o (backlog \o events)
      BY <1>3, Regroup
    <3>2. (<<f>> \o rest) \o events = <<f>> \o (rest \o events)
      BY <1>3, <2>3, Regroup
    <3> QED
      BY <1>5, <2>1, <3>1, <3>2 DEF Waiting
  <2>5. Look(f, rest)
    BY <1>5 DEF f, rest
  <2>6. /\ backlog' \in Seq(EventFrames) /\ Len(backlog') <= MaxBacklog
        /\ call' \in CallStates /\ Room' /\ Delivered'
        /\ call'.op # "call" /\ call'.closed = "none"
        /\ call'.op = "wait" =>
             \A i \in DOMAIN call'.deferred :
               call'.want \notin {call'.deferred[i].kind, "any"}
    BY <1>1, <1>2, <1>3, <1>5, <2>1, <2>2, <2>4, <2>5, LookKeeps
  <2>7. Passed'
    BY <2>6 DEF Passed
  <2> QED
    BY <1>1, <1>3, <1>4, <1>5, <2>6, <2>7 DEF Ends
<1>6. ASSUME backlog = <<>>, events # <<>>, events' = Tail(events)
      PROVE  /\ events' \in Seq(AnyFrame) /\ Len(events') <= MaxBacklog
             /\ Head(events) \in AnyFrame
             /\ \A i \in DOMAIN events' :
                  events'[i] = STOP => i = Len(events') /\ reader = "ended"
             /\ Head(events) = STOP => events' = <<>> /\ reader = "ended"
             /\ Waiting = d \o (<<Head(events)>> \o events')
  <2>1. /\ Head(events) \in AnyFrame /\ events' \in Seq(AnyFrame)
        /\ events = <<Head(events)>> \o events'
        /\ Len(events) = Len(events') + 1 /\ Len(events') \in Nat
    BY <1>3, <1>6, HeadAndTail
  <2>2. /\ \A i \in 1..Len(events') : events'[i] = events[i + 1]
        /\ DOMAIN events' = 1..Len(events') /\ DOMAIN events = 1..Len(events)
        /\ events[1] = Head(events)
    BY <1>3, <1>6, <2>1, HeadTailProperties, LenProperties
  <2>3. \A i \in DOMAIN events :
          events[i] = STOP => i = Len(events) /\ reader = "ended"
    BY <1>1 DEF Ends
  <2>4. \A i \in DOMAIN events' :
          events'[i] = STOP => i = Len(events') /\ reader = "ended"
    BY <2>1, <2>2, <2>3
  <2>5. Head(events) = STOP => events' = <<>> /\ reader = "ended"
    <3> SUFFICES ASSUME Head(events) = STOP
                 PROVE  events' = <<>> /\ reader = "ended"
      OBVIOUS
    <3>1. 1 = Len(events) /\ reader = "ended"
      BY <2>1, <2>2, <2>3
    <3>2. Len(events') = 0
      BY <2>1, <3>1
    <3> QED
      BY <2>1, <3>1, <3>2, EmptySeq
  <2>6. Waiting = d \o events
    BY <1>3, <1>6, ConcatEmptySeq DEF Waiting
  <2>7. Waiting = d \o (<<Head(events)>> \o events')
    BY <2>1, <2>6
  <2>8. Len(events') <= MaxBacklog
    BY <1>3, <2>1, ClientAssumption
  <2> QED
    BY <2>1, <2>4, <2>5, <2>7, <2>8
<1>7. CASE backlog = <<>> /\ events # <<>> /\ events' = Tail(events)
           /\ Head(events) # STOP /\ Look(Head(events), <<>>)
  <2> DEFINE f == Head(events)
  <2>1. /\ f \in EventFrames /\ <<>> \in Seq(EventFrames) /\ Len(<<>>) = 0
        /\ events' \in Seq(AnyFrame) /\ Len(events') <= MaxBacklog
        /\ Waiting = d \o (<<f>> \o events')
    BY <1>6, <1>7 DEF AnyFrame
  <2>2. Waiting = d \o (<<f>> \o (<<>> \o events'))
    BY <2>1, ConcatEmptySeq
  <2>3. Len(d) + Len(<<>>) + 1 <= MaxBacklog
    BY <1>1, <1>2, <1>3, <2>1, ClientAssumption DEF Room
  <2> HIDE DEF f
  <2>4. Look(f, <<>>)
    BY <1>7 DEF f
  <2>5. /\ backlog' \in Seq(EventFrames) /\ Len(backlog') <= MaxBacklog
        /\ call' \in CallStates /\ Room' /\ Delivered'
        /\ call'.op # "call" /\ call'.closed = "none"
        /\ call'.op = "wait" =>
             \A i \in DOMAIN call'.deferred :
               call'.want \notin {call'.deferred[i].kind, "any"}
    BY <1>1, <1>2, <1>3, <2>1, <2>2, <2>3, <2>4, LookKeeps
  <2>6. Passed'
    BY <2>5 DEF Passed
  <2> QED
    BY <1>4, <1>6, <1>7, <2>5, <2>6
<1>8. CASE backlog = <<>> /\ events # <<>> /\ events' = Tail(events)
           /\ Head(events) = STOP /\ Restore(<<>>)
           /\ call' = Idle(call.want) /\ gone' = gone
  <2>1. /\ events' = <<>> /\ reader = "ended"
        /\ Waiting = d \o (<<STOP>> \o <<>>)
    BY <1>6, <1>8
  <2>2. <<>> \in Seq(EventFrames) /\ <<>> \in Seq(AnyFrame) /\ Len(<<>>) = 0
    BY EmptySeq
  <2>3. Len(d) + Len(<<>>) <= MaxBacklog
    BY <1>1, <1>2, <1>3, <2>2, ClientAssumption DEF Room
  <2>4. /\ backlog' = d \o <<>> /\ backlog' \in Seq(EventFrames)
        /\ Len(backlog') = Len(d) + Len(<<>>)
    BY <1>3, <1>8, <2>2, <2>3, RestoreAll
  <2>5. backlog' = d
    BY <1>3, <2>4, ConcatEmptySeq
  <2>6. /\ call' \in CallStates /\ call'.op = "idle"
        /\ call'.deferred = <<>> /\ call'.closed = call.want
    <3>1. call.want \in Wanted
      BY <1>2 DEF CallStates
    <3> QED
      BY <1>8, <3>1, IdleState
  <2>7. Delivered'
    <3>1. Waiting' = d
      <4>1. Waiting' = (<<>> \o d) \o <<>>
        BY <2>1, <2>5, <2>6 DEF Waiting
      <4> QED
        BY <1>3, <4>1, ConcatEmptySeq
    <3>2. KeptFrames(d \o <<>>, sent, gone)
      BY <1>1, <1>3, <2>1, <2>2, KeptEnded DEF Delivered
    <3>3. d \o <<>> = d
      BY <1>3, ConcatEmptySeq
    <3> QED
      BY <1>1, <1>2, <1>8, <3>1, <3>2, <3>3 DEF Delivered
  <2>8. Room'
    BY <1>1, <1>2, <1>3, <2>2, <2>5, <2>6, ClientAssumption DEF Room
  <2>9. Passed'
    BY <1>1, <1>2, <2>1, <2>5, <2>6 DEF Passed
  <2>10. Len(backlog') <= MaxBacklog
    BY <2>2, <2>3, <2>4
  <2> QED
    BY <1>4, <1>6, <1>8, <2>4, <2>6, <2>7, <2>8, <2>9, <2>10
<1> QED
  BY <1>5, <1>7, <1>8 DEF WaitTakes

(* A wait that gives up puts back what it passed over. *)
LEMMA WaitTimesOutKeeps == ClientInv /\ WaitTimesOut => ClientInv'
<1> SUFFICES ASSUME ClientInv, WaitTimesOut PROVE ClientInv'
  OBVIOUS
<1> DEFINE d == call.deferred
<1>1. /\ ClientTypeOK /\ Room /\ Ends /\ Passed /\ Delivered /\ AllAnswered
      /\ Overflow
  BY DEF ClientInv
<1>2. /\ call.op = "wait" /\ call \in CallStates /\ call' = Done
      /\ Restore(backlog)
      /\ UNCHANGED <<reader, stop, readerError, responses, events, nextId,
                     unanswered, sent, gone, abandoned>>
  BY <1>1 DEF WaitTimesOut, ClientTypeOK
<1>3. /\ d \in Seq(EventFrames) /\ d \in Seq(AnyFrame)
      /\ backlog \in Seq(EventFrames) /\ backlog \in Seq(AnyFrame)
      /\ Len(d) + Len(backlog) <= MaxBacklog
  BY <1>1, EventsAreFrames DEF ClientTypeOK, CallStates, Room
<1>4. /\ backlog' = d \o backlog /\ backlog' \in Seq(EventFrames)
      /\ Len(backlog') = Len(d) + Len(backlog)
  BY <1>2, <1>3, RestoreAll
<1>5. /\ call' \in CallStates /\ call'.op = "idle"
      /\ call'.deferred = <<>> /\ call'.closed = "none"
  <2>1. "none" \in Wanted
    BY DEF Wanted
  <2> QED
    BY <1>2, <2>1, IdleState
<1>6. Waiting' = Waiting
  <2>1. backlog' \in Seq(AnyFrame)
    BY <1>4, EventsAreFrames
  <2>2. <<>> \o backlog' = backlog'
    BY <2>1, ConcatEmptySeq
  <2> QED
    BY <1>2, <1>4, <1>5, <2>2 DEF Waiting
<1>7. Room'
  <2>1. Len(<<>>) = 0 /\ Len(backlog') \in Nat /\ Len(backlog') <= MaxBacklog
    BY <1>3, <1>4, LenProperties
  <2> QED
    BY <1>5, <2>1, ClientAssumption DEF Room
<1>8. ClientTypeOK'
  BY <1>1, <1>2, <1>3, <1>4, <1>5 DEF ClientTypeOK
<1>9. Owed' = Owed
  BY <1>2, <1>5 DEF Owed
<1> QED
  BY <1>1, <1>2, <1>5, <1>6, <1>7, <1>8, <1>9 DEF ClientInv, Ends, Passed,
     Delivered, AllAnswered, Overflow
-----------------------------------------------------------------------------
(* The answers.                                                            *)

(* What is owed is bounded by the calls that gave up, and the present one. *)
LEMMA OwedBound ==
  ASSUME ClientTypeOK, NEW S, NEW f \in Injection(S, Owed)
  PROVE  Cardinality(S) <=
           Cardinality(abandoned) + (IF call.op = "call" THEN 1 ELSE 0)
<1>1. IsFiniteSet(abandoned)
  <2>1. IsFiniteSet(1..MaxTraffic)
    BY ClientAssumption, FS_Interval
  <2> QED
    BY <2>1, FS_Subset DEF ClientTypeOK
<1>2. Cardinality(abandoned) \in Nat
  BY <1>1, FS_CardinalityType
<1>3. /\ IsFiniteSet(Owed) /\ Cardinality(Owed) \in Nat
      /\ Cardinality(Owed) <=
           Cardinality(abandoned) + (IF call.op = "call" THEN 1 ELSE 0)
  <2>1. CASE call.op = "call"
    <3>1. Owed = abandoned \cup {call.id}
      BY <2>1 DEF Owed
    <3>2. /\ IsFiniteSet(abandoned \cup {call.id})
          /\ Cardinality(abandoned \cup {call.id}) =
               IF call.id \in abandoned THEN Cardinality(abandoned)
                                        ELSE Cardinality(abandoned) + 1
      BY <1>1, FS_AddElement
    <3> QED
      BY <1>2, <2>1, <3>1, <3>2
  <2>2. CASE call.op # "call"
    BY <1>1, <1>2, <2>2 DEF Owed
  <2> QED
    BY <2>1, <2>2
<1>4. IsFiniteSet(S) /\ Cardinality(S) <= Cardinality(Owed)
  BY <1>3, FS_Injection
<1>5. Cardinality(S) \in Nat
  BY <1>4, FS_CardinalityType
<1> QED
  BY <1>2, <1>3, <1>4, <1>5

(* The answers in the queue have room. *)
LEMMA AnswersBounded ==
  ASSUME ClientTypeOK, AllAnswered
  PROVE  Cardinality({i \in DOMAIN responses : responses[i] # STOP}) <=
           Cardinality(abandoned) + (IF call.op = "call" THEN 1 ELSE 0)
<1> DEFINE S == {i \in DOMAIN responses : responses[i] # STOP}
           f == [i \in S |-> responses[i].id]
<1>1. f \in [S -> Owed]
  BY DEF AllAnswered
<1>2. \A i, j \in S : f[i] = f[j] => i = j
  BY DEF AllAnswered
<1>3. f \in Injection(S, Owed)
  BY <1>1, <1>2 DEF Injection, IsInjective
<1> HIDE DEF S, f
<1>4. Cardinality(S) <=
        Cardinality(abandoned) + (IF call.op = "call" THEN 1 ELSE 0)
  BY <1>3, OwedBound
<1> QED
  BY <1>4 DEF S

(* An answer that finds its queue full is one too many: as many calls gave *)
(* up as the queue holds.                                                  *)
LEMMA FullOfLateAnswers ==
  ASSUME ClientTypeOK, AllAnswered, NEW id \in unanswered,
         Len(responses) >= MaxBacklog,
         \A i \in DOMAIN responses : responses[i] # STOP
  PROVE  ~(Cardinality(abandoned) < MaxBacklog)
<1> DEFINE n == Len(responses)
           S == 1..(n + 1)
           f == [i \in S |-> IF i = n + 1 THEN id ELSE responses[i].id]
<1>1. n \in Nat /\ DOMAIN responses = 1..n
  BY LenProperties DEF ClientTypeOK
<1>2. f \in [S -> Owed]
  BY <1>1 DEF AllAnswered
<1>3. ASSUME NEW i \in S, NEW j \in S, f[i] = f[j]
      PROVE  i = j
  <2>1. CASE i = n + 1 /\ j # n + 1
    BY <1>1, <1>3, <2>1 DEF AllAnswered
  <2>2. CASE i # n + 1 /\ j = n + 1
    BY <1>1, <1>3, <2>2 DEF AllAnswered
  <2>3. CASE i # n + 1 /\ j # n + 1
    BY <1>1, <1>3, <2>3 DEF AllAnswered
  <2> QED
    BY <2>1, <2>2, <2>3
<1>4. f \in Injection(S, Owed)
  BY <1>2, <1>3 DEF Injection, IsInjective
<1>5. Cardinality(S) = n + 1
  BY <1>1, FS_Interval
<1> HIDE DEF S, f
<1>6. n + 1 <= Cardinality(abandoned) + (IF call.op = "call" THEN 1 ELSE 0)
  BY <1>4, <1>5, OwedBound
<1>7. Cardinality(abandoned) \in Nat
  <2>1. IsFiniteSet(1..MaxTraffic)
    BY ClientAssumption, FS_Interval
  <2> QED
    BY <2>1, FS_Subset, FS_CardinalityType DEF ClientTypeOK
<1> QED
  BY <1>1, <1>6, <1>7, ClientAssumption

(* A full queue of events has taken as many events as it holds. *)
LEMMA FullOfEvents ==
  ASSUME ClientTypeOK, Delivered, Len(events) >= MaxBacklog,
         \A i \in DOMAIN events : events[i] # STOP
  PROVE  sent >= MaxBacklog
<1> DEFINE a == call.deferred \o backlog
           n == Len(events)
           f == [i \in 1..n |-> events[i].id]
<1>1. /\ a \in Seq(AnyFrame) /\ events \in Seq(AnyFrame) /\ sent \in Nat
  <2>1. /\ call.deferred \in Seq(AnyFrame) /\ backlog \in Seq(AnyFrame)
    BY EventsAreFrames DEF ClientTypeOK, CallStates
  <2> QED
    BY <2>1, ConcatProperties, ClientAssumption DEF ClientTypeOK, AnyFrame
<1>2. Len(a) \in Nat /\ n \in Nat /\ DOMAIN events = 1..n
  BY <1>1, LenProperties
<1> HIDE DEF a
<1>3. /\ Waiting = a \o events /\ DOMAIN Waiting = 1..(Len(a) + n)
      /\ \A i \in 1..n : Waiting[Len(a) + i] = events[i]
  <2>1. Waiting = a \o events
    BY DEF Waiting, a
  <2>2. /\ a \o events \in Seq(AnyFrame) /\ Len(a \o events) = Len(a) + n
        /\ \A i \in 1..(Len(a) + n) : (a \o events)[i] =
             IF i <= Len(a) THEN a[i] ELSE events[i - Len(a)]
    BY <1>1, ConcatProperties
  <2>3. DOMAIN (a \o events) = 1..(Len(a) + n)
    BY <2>2, LenProperties
  <2>4. ASSUME NEW i \in 1..n PROVE (a \o events)[Len(a) + i] = events[i]
    <3>1. /\ Len(a) + i \in 1..(Len(a) + n) /\ ~(Len(a) + i <= Len(a))
          /\ (Len(a) + i) - Len(a) = i
      BY <1>2
    <3> QED
      BY <2>2, <3>1
  <2> QED
    BY <2>1, <2>3, <2>4
<1>4. \A i \in 1..n : Len(a) + i \in {k \in DOMAIN Waiting :
                                        Waiting[k] # STOP}
  BY <1>2, <1>3
<1>5. f \in [1..n -> 1..sent]
  <2>1. \A k \in {k \in DOMAIN Waiting : Waiting[k] # STOP} :
          Waiting[k].id \in 1..sent
    BY DEF Delivered, KeptFrames
  <2> QED
    BY <1>3, <1>4, <2>1
<1>6. ASSUME NEW i \in 1..n, NEW j \in 1..n, f[i] = f[j] PROVE i = j
  <2>1. \A k, m \in {k \in DOMAIN Waiting : Waiting[k] # STOP} :
          k < m => Waiting[k].id < Waiting[m].id
    BY DEF Delivered, KeptFrames
  <2> DEFINE k == Len(a) + i
             m == Len(a) + j
  <2>2. /\ k \in {x \in DOMAIN Waiting : Waiting[x] # STOP}
        /\ m \in {x \in DOMAIN Waiting : Waiting[x] # STOP}
        /\ Waiting[k].id = f[i] /\ Waiting[m].id = f[j]
    BY <1>3, <1>4
  <2>3. (i < j => k < m) /\ (j < i => m < k)
    BY <1>2
  <2> HIDE DEF k, m, f
  <2>4. i < j => f[i] < f[j]
    BY <2>1, <2>2, <2>3
  <2>5. j < i => f[j] < f[i]
    BY <2>1, <2>2, <2>3
  <2>6. f[i] \in Nat
    BY <1>1, <1>5
  <2> QED
    BY <1>2, <1>6, <2>4, <2>5, <2>6
<1>7. f \in Injection(1..n, 1..sent)
  BY <1>5, <1>6 DEF Injection, IsInjective
<1>8. /\ IsFiniteSet(1..sent) /\ Cardinality(1..sent) = sent
      /\ Cardinality(1..n) = n
  <2>1. 1 \in Int /\ sent \in Int /\ n \in Int
    BY <1>1, <1>2
  <2>2. /\ IsFiniteSet(1..sent)
        /\ Cardinality(1..sent) = IF 1 > sent THEN 0 ELSE sent - 1 + 1
    BY <2>1, FS_Interval
  <2>3. Cardinality(1..n) = IF 1 > n THEN 0 ELSE n - 1 + 1
    BY <2>1, FS_Interval
  <2> QED
    BY <1>1, <1>2, <2>2, <2>3
<1> HIDE DEF f
<1>9. Cardinality(1..n) <= Cardinality(1..sent)
  BY <1>7, <1>8, FS_Injection
<1> QED
  BY <1>1, <1>2, <1>8, <1>9, ClientAssumption
-----------------------------------------------------------------------------
(* The reader's side.                                                      *)

(* A frame put behind the queue is put behind all that waits. *)
LEMMA AppendWaiting ==
  ASSUME ClientTypeOK, NEW f \in AnyFrame, call' = call, backlog' = backlog,
         events' = Append(events, f)
  PROVE  /\ Waiting \in Seq(AnyFrame) /\ Waiting' = Append(Waiting, f)
         /\ events' \in Seq(AnyFrame) /\ Len(events') = Len(events) + 1
         /\ DOMAIN events = 1..Len(events) /\ Len(events) \in Nat
         /\ DOMAIN events' = 1..(Len(events) + 1)
         /\ events'[Len(events) + 1] = f
         /\ \A i \in 1..Len(events) : events'[i] = events[i]
<1> DEFINE a == call.deferred \o backlog
<1>1. a \in Seq(AnyFrame) /\ events \in Seq(AnyFrame)
  <2>1. /\ call.deferred \in Seq(AnyFrame) /\ backlog \in Seq(AnyFrame)
    BY EventsAreFrames DEF ClientTypeOK, CallStates
  <2> QED
    BY <2>1, ConcatProperties DEF ClientTypeOK, AnyFrame
<1>2. Waiting = a \o events /\ Waiting' = a \o Append(events, f)
  BY DEF Waiting
<1> HIDE DEF a
<1>3. Waiting \in Seq(AnyFrame)
  BY <1>1, <1>2, ConcatProperties
<1>4. <<f>> \in Seq(AnyFrame)
  OBVIOUS
<1>5. Append(events, f) = events \o <<f>>
  BY <1>1, AppendIsConcat
<1>6. (a \o events) \o <<f>> = a \o (events \o <<f>>)
  BY <1>1, <1>4, Regroup
<1>7. Append(Waiting, f) = Waiting \o <<f>>
  BY <1>3, AppendIsConcat
<1>8. Waiting' = Append(Waiting, f)
  BY <1>2, <1>5, <1>6, <1>7
<1>9. /\ events' \in Seq(AnyFrame) /\ Len(events') = Len(events) + 1
      /\ events'[Len(events) + 1] = f
      /\ \A i \in 1..Len(events) : events'[i] = events[i]
  BY <1>1, AppendProperties
<1>10. /\ DOMAIN events = 1..Len(events) /\ Len(events) \in Nat
       /\ DOMAIN events' = 1..Len(events')
  BY <1>1, <1>9, LenProperties
<1> QED
  BY <1>3, <1>8, <1>9, <1>10

(* The reader ends: each queue that has room gets the end marker. *)
LEMMA EndedKeeps ==
  ASSUME ClientInv, reader # "ended", Ended, stop' \in BOOLEAN,
         readerError' \in {readerError, "invalid"},
         UNCHANGED <<backlog, nextId, call, unanswered, sent, gone,
                     abandoned>>
  PROVE  ClientInv'
<1>1. /\ ClientTypeOK /\ Room /\ Ends /\ Passed /\ Delivered /\ AllAnswered
      /\ Overflow
  BY DEF ClientInv
<1>2. /\ reader' = "ended" /\ responses' = WithStop(responses)
      /\ events' = WithStop(events)
  BY DEF Ended
<1>3. STOP \in AnyFrame
  BY DEF AnyFrame
<1>4. \A i \in DOMAIN events : events[i] # STOP
  BY <1>1 DEF Ends
<1>5. /\ Delivered' /\ events' \in Seq(AnyFrame)
      /\ Len(events') <= MaxBacklog
      /\ \A i \in DOMAIN events' : events'[i] = STOP => i = Len(events')
  <2>1. CASE Len(events) < MaxBacklog
    <3>1. events' = Append(events, STOP)
      BY <1>2, <2>1 DEF WithStop
    <3>2. /\ Waiting \in Seq(AnyFrame) /\ Waiting' = Append(Waiting, STOP)
          /\ events' \in Seq(AnyFrame) /\ Len(events') = Len(events) + 1
          /\ DOMAIN events = 1..Len(events) /\ Len(events) \in Nat
          /\ DOMAIN events' = 1..(Len(events) + 1)
          /\ \A i \in 1..Len(events) : events'[i] = events[i]
      BY <1>1, <1>3, <3>1, AppendWaiting
    <3>3. KeptFrames(Waiting', sent, gone)
      BY <1>1, <3>2, KeptStop DEF Delivered
    <3> QED
      BY <1>1, <1>4, <2>1, <3>2, <3>3, ClientAssumption DEF Delivered
  <2>2. CASE ~(Len(events) < MaxBacklog)
    BY <1>1, <1>2, <1>4, <2>2 DEF WithStop, Delivered, Waiting, ClientTypeOK,
       AnyFrame
  <2> QED
    BY <2>1, <2>2
<1>6. /\ responses' \in Seq(Answers \cup {STOP})
      /\ Len(responses') <= MaxBacklog
      /\ \A i \in DOMAIN responses' : responses'[i] # STOP =>
           i \in DOMAIN responses /\ responses'[i] = responses[i]
  <2>1. CASE Len(responses) < MaxBacklog
    <3>1. responses' = Append(responses, STOP)
      BY <1>2, <2>1 DEF WithStop
    <3>2. responses \in Seq(Answers \cup {STOP})
      BY <1>1 DEF ClientTypeOK
    <3>3. /\ responses' \in Seq(Answers \cup {STOP})
          /\ Len(responses') = Len(responses) + 1
          /\ responses'[Len(responses) + 1] = STOP
          /\ \A i \in 1..Len(responses) : responses'[i] = responses[i]
      BY <3>1, <3>2, AppendProperties
    <3>4. /\ DOMAIN responses = 1..Len(responses) /\ Len(responses) \in Nat
          /\ DOMAIN responses' = 1..Len(responses')
      BY <3>2, <3>3, LenProperties
    <3> QED
      BY <2>1, <3>3, <3>4, ClientAssumption
  <2>2. CASE ~(Len(responses) < MaxBacklog)
    BY <1>1, <1>2, <2>2 DEF WithStop, ClientTypeOK
  <2> QED
    BY <2>1, <2>2
<1>7. ClientTypeOK'
  BY <1>1, <1>2, <1>5, <1>6 DEF ClientTypeOK, AnyFrame
<1>8. Ends'
  BY <1>2, <1>5 DEF Ends
<1>9. Passed' /\ Room'
  BY <1>1 DEF Passed, Room
<1>10. Owed' = Owed
  BY DEF Owed
<1>11. AllAnswered'
  BY <1>1, <1>6, <1>10 DEF AllAnswered
<1>12. Overflow'
  BY <1>1 DEF Overflow
<1> QED
  BY <1>5, <1>7, <1>8, <1>9, <1>11, <1>12 DEF ClientInv

(* An event that arrives. *)
LEMMA ReaderEventKeeps == ClientInv /\ ReaderEvent => ClientInv'
<1> SUFFICES ASSUME ClientInv, ReaderEvent PROVE ClientInv'
  OBVIOUS
<1>1. /\ ClientTypeOK /\ Room /\ Ends /\ Passed /\ Delivered /\ AllAnswered
      /\ Overflow
  BY DEF ClientInv
<1>2. /\ reader = "read" /\ readerError = "none" /\ nextId + sent <= MaxTraffic
      /\ sent' = IF readerError' = "none" THEN sent + 1 ELSE sent
      /\ UNCHANGED <<backlog, nextId, call, unanswered, gone, abandoned>>
  BY <1>1 DEF ReaderEvent, Ends
<1>3. PICK kind \in Kinds \cup {NATIVE} :
        Enqueue([id |-> sent + 1, kind |-> kind])
  BY DEF ReaderEvent
<1> DEFINE f == [id |-> sent + 1, kind |-> kind]
<1>4. sent \in Nat /\ nextId \in Nat /\ nextId >= 1
  BY <1>1, ClientAssumption DEF ClientTypeOK
<1>5. f \in EventFrames /\ f \in AnyFrame /\ f.id = sent + 1 /\ f # STOP
  <2>1. sent + 1 \in 1..MaxTraffic
    BY <1>2, <1>4, ClientAssumption
  <2>2. f \in EventFrames
    BY <2>1 DEF EventFrames
  <2> QED
    BY <2>2, StopIsNoEvent DEF AnyFrame
<1>6. Routed(f) = "events"
  <2>1. f.kind # "response"
    BY ClientAssumption DEF NATIVE
  <2> QED
    BY <2>1 DEF Routed
<1> HIDE DEF f
<1>7. /\ reader' = "check" /\ responses' = responses
      /\ IF Len(events) < MaxBacklog
         THEN /\ events' = Append(events, f)
              /\ UNCHANGED <<stop, readerError>>
         ELSE /\ stop' = TRUE /\ readerError' = "overflow"
              /\ UNCHANGED events
  BY <1>3, <1>6 DEF Enqueue, f
<1>8. Owed' = Owed
  BY <1>2 DEF Owed
<1>9. AllAnswered'
  BY <1>1, <1>2, <1>7, <1>8 DEF AllAnswered
<1>10. Room'
  BY <1>1, <1>2 DEF Room
<1>11. call.closed = "none"
  BY <1>1, <1>2 DEF Passed
<1>12. Passed'
  BY <1>1, <1>2, <1>11 DEF Passed
<1>13. CASE Len(events) < MaxBacklog
  <2>1. /\ events' = Append(events, f) /\ stop' = stop
        /\ readerError' = readerError /\ sent' = sent + 1
    BY <1>2, <1>7, <1>13
  <2>2. /\ Waiting \in Seq(AnyFrame) /\ Waiting' = Append(Waiting, f)
        /\ events' \in Seq(AnyFrame) /\ Len(events') = Len(events) + 1
        /\ DOMAIN events = 1..Len(events) /\ Len(events) \in Nat
        /\ DOMAIN events' = 1..(Len(events) + 1)
        /\ events'[Len(events) + 1] = f
        /\ \A i \in 1..Len(events) : events'[i] = events[i]
    BY <1>1, <1>2, <1>5, <2>1, AppendWaiting
  <2>3. Delivered'
    <3>1. KeptFrames(Waiting', sent + 1, gone)
      BY <1>1, <1>4, <1>5, <2>2, KeptAppend DEF Delivered
    <3>2. gone \subseteq 1..(sent + 1)
      BY <1>1, <1>4 DEF Delivered
    <3> QED
      BY <1>2, <2>1, <3>1, <3>2 DEF Delivered
  <2>4. \A i \in DOMAIN events' : events'[i] # STOP
    BY <1>1, <1>2, <1>5, <2>2 DEF Ends
  <2>5. Ends'
    BY <1>1, <1>2, <1>7, <2>1, <2>4 DEF Ends
  <2>6. sent' \in 0..MaxTraffic /\ Len(events') <= MaxBacklog
    BY <1>2, <1>4, <1>13, <2>1, <2>2, ClientAssumption
  <2>7. ClientTypeOK'
    BY <1>1, <1>2, <1>7, <2>1, <2>2, <2>6 DEF ClientTypeOK, AnyFrame
  <2>8. Overflow'
    BY <1>2, <2>1 DEF Overflow
  <2> QED
    BY <1>9, <1>10, <1>12, <2>3, <2>5, <2>7, <2>8 DEF ClientInv
<1>14. CASE ~(Len(events) < MaxBacklog)
  <2>1. /\ events' = events /\ stop' = TRUE /\ readerError' = "overflow"
        /\ sent' = sent
    BY <1>2, <1>7, <1>14
  <2>2. Len(events) \in Nat /\ \A i \in DOMAIN events : events[i] # STOP
    BY <1>1, <1>2, LenProperties DEF Ends, ClientTypeOK
  <2>3. sent >= MaxBacklog
    BY <1>1, <1>14, <2>2, FullOfEvents, ClientAssumption
  <2>4. Overflow'
    BY <2>1, <2>3 DEF Overflow
  <2>5. Delivered' /\ Ends'
    BY <1>1, <1>2, <1>7, <2>1, <2>2 DEF Delivered, Waiting, Ends
  <2>6. ClientTypeOK'
    BY <1>1, <1>2, <1>7, <2>1 DEF ClientTypeOK
  <2> QED
    BY <1>9, <1>10, <1>12, <2>4, <2>5, <2>6 DEF ClientInv
<1> QED
  BY <1>13, <1>14

(* The answer to a request that arrives. *)
LEMMA ReaderResponseKeeps == ClientInv /\ ReaderResponse => ClientInv'
<1> SUFFICES ASSUME ClientInv, ReaderResponse PROVE ClientInv'
  OBVIOUS
<1>1. /\ ClientTypeOK /\ Room /\ Ends /\ Passed /\ Delivered /\ AllAnswered
      /\ Overflow
  BY DEF ClientInv
<1>2. /\ reader = "read" /\ readerError = "none"
      /\ UNCHANGED <<backlog, nextId, call, sent, gone, abandoned>>
  BY <1>1 DEF ReaderResponse, Ends
<1>3. PICK id \in unanswered :
        /\ Enqueue([id |-> id, kind |-> "response"])
        /\ unanswered' = unanswered \ {id}
  BY DEF ReaderResponse
<1> DEFINE f == [id |-> id, kind |-> "response"]
<1>4. f \in Answers /\ f # STOP /\ f.id = id
  <2>1. f \in Answers
    BY <1>1 DEF ClientTypeOK, Answers
  <2> QED
    BY <2>1, StopIsNoEvent
<1>5. Routed(f) = "responses"
  BY DEF Routed
<1> HIDE DEF f
<1>6. /\ reader' = "check" /\ events' = events
      /\ IF Len(responses) < MaxBacklog
         THEN /\ responses' = Append(responses, f)
              /\ UNCHANGED <<stop, readerError>>
         ELSE /\ stop' = TRUE /\ readerError' = "overflow"
              /\ UNCHANGED responses
  BY <1>3, <1>5 DEF Enqueue, f
<1>7. Owed' = Owed
  BY <1>2 DEF Owed
<1>8. Room' /\ Delivered'
  BY <1>1, <1>2, <1>6 DEF Room, Delivered, Waiting
<1>9. call.closed = "none"
  BY <1>1, <1>2 DEF Passed
<1>10. Passed'
  BY <1>1, <1>2, <1>9 DEF Passed
<1>11. /\ responses \in Seq(Answers \cup {STOP}) /\ Len(responses) \in Nat
       /\ DOMAIN responses = 1..Len(responses)
       /\ \A i \in DOMAIN responses : responses[i] # STOP
       /\ \A i \in DOMAIN events : events[i] # STOP
  BY <1>1, <1>2, LenProperties DEF Ends, ClientTypeOK
<1>12. CASE Len(responses) < MaxBacklog
  <2>1. /\ responses' = Append(responses, f) /\ stop' = stop
        /\ readerError' = readerError
    BY <1>6, <1>12
  <2>2. /\ responses' \in Seq(Answers \cup {STOP})
        /\ Len(responses') = Len(responses) + 1
        /\ responses'[Len(responses) + 1] = f
        /\ \A i \in 1..Len(responses) : responses'[i] = responses[i]
    BY <1>4, <1>11, <2>1, AppendProperties
  <2>3. DOMAIN responses' = 1..(Len(responses) + 1)
    BY <2>2, LenProperties
  <2>4. \A i \in DOMAIN responses' :
          \/ i \in DOMAIN responses /\ responses'[i] = responses[i]
          \/ i = Len(responses) + 1 /\ responses'[i] = f
    BY <1>11, <2>2, <2>3
  <2>5. AllAnswered'
    <3>1. ASSUME NEW i \in DOMAIN responses'
          PROVE  /\ responses'[i].id \in Owed
                 /\ responses'[i].id \notin unanswered'
      BY <1>1, <1>3, <1>4, <1>11, <2>4 DEF AllAnswered
    <3>2. ASSUME NEW i \in DOMAIN responses', NEW j \in DOMAIN responses',
                 j # i
          PROVE  responses'[j].id # responses'[i].id
      BY <1>1, <1>4, <1>11, <2>4, <3>2 DEF AllAnswered
    <3>3. unanswered' \subseteq Owed' /\ Owed' \subseteq 1..(nextId' - 1)
      BY <1>1, <1>2, <1>3, <1>7 DEF AllAnswered
    <3> QED
      BY <1>7, <3>1, <3>2, <3>3 DEF AllAnswered
  <2>6. Ends'
    BY <1>1, <1>2, <1>4, <1>6, <1>11, <2>1, <2>4 DEF Ends
  <2>7. Len(responses') <= MaxBacklog
    BY <1>11, <1>12, <2>2, ClientAssumption
  <2>8. ClientTypeOK'
    BY <1>1, <1>2, <1>3, <1>6, <2>1, <2>2, <2>7 DEF ClientTypeOK
  <2>9. Overflow'
    BY <1>2, <2>1 DEF Overflow
  <2> QED
    BY <1>8, <1>10, <2>5, <2>6, <2>8, <2>9 DEF ClientInv
<1>13. CASE ~(Len(responses) < MaxBacklog)
  <2>1. /\ responses' = responses /\ stop' = TRUE
        /\ readerError' = "overflow"
    BY <1>6, <1>13
  <2>2. ~(Cardinality(abandoned) < MaxBacklog)
    BY <1>1, <1>11, <1>13, FullOfLateAnswers, ClientAssumption
  <2>3. Overflow'
    BY <1>2, <2>2 DEF Overflow
  <2>4. AllAnswered'
    BY <1>1, <1>2, <1>3, <1>7, <2>1 DEF AllAnswered
  <2>5. Ends'
    BY <1>6, <1>11, <2>1 DEF Ends
  <2>6. ClientTypeOK'
    BY <1>1, <1>2, <1>3, <1>6, <2>1 DEF ClientTypeOK
  <2> QED
    BY <1>8, <1>10, <2>3, <2>4, <2>5, <2>6 DEF ClientInv
<1> QED
  BY <1>12, <1>13
-----------------------------------------------------------------------------
(* The caller's side of the answers.                                       *)

(* More calls that gave up excuse no overflow that was not excused. *)
LEMMA GivenUp ==
  ASSUME ClientTypeOK, Overflow, abandoned \subseteq abandoned',
         abandoned' \subseteq 1..MaxTraffic,
         readerError' = readerError, sent' = sent
  PROVE  Overflow'
<1>1. IsFiniteSet(abandoned')
  <2>1. IsFiniteSet(1..MaxTraffic)
    BY ClientAssumption, FS_Interval
  <2> QED
    BY <2>1, FS_Subset
<1>2. /\ IsFiniteSet(abandoned)
      /\ Cardinality(abandoned) <= Cardinality(abandoned')
  BY <1>1, FS_Subset
<1>3. Cardinality(abandoned) \in Nat /\ Cardinality(abandoned') \in Nat
  BY <1>1, <1>2, FS_CardinalityType
<1> QED
  BY <1>2, <1>3, ClientAssumption DEF Overflow

(* The caller begins or ends a call, and has no event in its hands. *)
LEMMA CallAside ==
  ASSUME ClientInv, call' \in CallStates, call.op # "wait",
         call'.deferred = <<>>, call'.closed = "none",
         call'.op = "wait" => call'.want # "none",
         UNCHANGED <<backlog, events, sent, gone>>
  PROVE  Room' /\ Passed' /\ Delivered'
<1>1. call.deferred = <<>> /\ Len(<<>>) = 0
  BY DEF ClientInv, Room
<1>2. Waiting' = Waiting
  BY <1>1 DEF Waiting
<1>3. Room'
  BY <1>1, ClientAssumption DEF ClientInv, Room
<1>4. Passed'
  BY DEF Passed
<1>5. Delivered'
  BY <1>2 DEF ClientInv, Delivered
<1> QED
  BY <1>3, <1>4, <1>5

(* A request: its id is new, whether or not it can be written. *)
LEMMA CallKeeps == ClientInv /\ Call => ClientInv'
<1> SUFFICES ASSUME ClientInv, Call PROVE ClientInv'
  OBVIOUS
<1>1. /\ ClientTypeOK /\ Room /\ Ends /\ Passed /\ Delivered /\ AllAnswered
      /\ Overflow
  BY DEF ClientInv
<1>2. /\ call.op = "idle" /\ nextId + sent <= MaxTraffic
      /\ nextId' = nextId + 1
      /\ UNCHANGED <<reader, stop, readerError, responses, events, backlog,
                     sent, gone>>
  BY DEF Call
<1>3. /\ nextId \in Nat /\ nextId \in 1..MaxTraffic
      /\ nextId' \in 1..(MaxTraffic + 1)
  BY <1>1, <1>2, ClientAssumption DEF ClientTypeOK
<1>4. "none" \in Wanted
  BY DEF Wanted
<1>5. Owed = abandoned /\ nextId \notin Owed
  BY <1>1, <1>2, <1>3 DEF Owed, AllAnswered
<1>6. Ends'
  BY <1>1, <1>2 DEF Ends
<1>7. \A i \in DOMAIN responses :
        responses[i] # STOP => responses[i].id # nextId
  BY <1>1, <1>5 DEF AllAnswered
<1>8. 1..(nextId - 1) \subseteq 1..(nextId' - 1) /\ nextId \in 1..(nextId' - 1)
  BY <1>2, <1>3
<1>9. CASE /\ call' = [Done EXCEPT !.op = "call", !.id = nextId]
           /\ unanswered' = unanswered \cup {nextId}
           /\ abandoned' = abandoned
  <2>1. /\ call' \in CallStates /\ call'.op = "call" /\ call'.id = nextId
        /\ call'.deferred = <<>> /\ call'.closed = "none"
    <3>1. Done \in CallStates /\ Done.deferred = <<>> /\ Done.closed = "none"
      BY <1>4, IdleState
    <3>2. nextId \in 0..MaxTraffic
      BY <1>3
    <3> QED
      BY <1>9, <3>1, <3>2 DEF CallStates
  <2>2. Owed' = Owed \cup {nextId}
    BY <1>5, <1>9, <2>1 DEF Owed
  <2>3. AllAnswered'
    BY <1>1, <1>2, <1>7, <1>8, <1>9, <2>2 DEF AllAnswered
  <2>4. ClientTypeOK'
    BY <1>1, <1>2, <1>3, <1>9, <2>1 DEF ClientTypeOK
  <2>5. Overflow'
    BY <1>1, <1>2, <1>9 DEF Overflow
  <2>6. Room' /\ Passed' /\ Delivered'
    BY <1>2, <2>1, CallAside
  <2> QED
    BY <1>6, <2>3, <2>4, <2>5, <2>6 DEF ClientInv
<1>10. CASE /\ call' = Done /\ abandoned' = abandoned \cup {nextId}
            /\ unanswered' = unanswered
  <2>1. /\ call' \in CallStates /\ call'.op = "idle"
        /\ call'.deferred = <<>> /\ call'.closed = "none"
    BY <1>4, <1>10, IdleState
  <2>2. Owed' = Owed \cup {nextId}
    BY <1>5, <1>10, <2>1 DEF Owed
  <2>3. AllAnswered'
    BY <1>1, <1>2, <1>7, <1>8, <1>10, <2>2 DEF AllAnswered
  <2>4. ClientTypeOK'
    BY <1>1, <1>2, <1>3, <1>10, <2>1 DEF ClientTypeOK
  <2>5. Overflow'
    <3>1. abandoned' \subseteq 1..MaxTraffic /\ abandoned \subseteq abandoned'
      BY <1>1, <1>3, <1>10 DEF ClientTypeOK
    <3> QED
      BY <1>1, <1>2, <3>1, GivenUp
  <2>6. Room' /\ Passed' /\ Delivered'
    BY <1>2, <2>1, CallAside
  <2> QED
    BY <1>6, <2>3, <2>4, <2>5, <2>6 DEF ClientInv
<1> QED
  BY <1>9, <1>10 DEF Call

(* A call that gives up leaves its answer to come or to lie there. *)
LEMMA CallTimesOutKeeps == ClientInv /\ CallTimesOut => ClientInv'
<1> SUFFICES ASSUME ClientInv, CallTimesOut PROVE ClientInv'
  OBVIOUS
<1>1. /\ ClientTypeOK /\ Room /\ Ends /\ Passed /\ Delivered /\ AllAnswered
      /\ Overflow
  BY DEF ClientInv
<1>2. /\ call.op = "call" /\ call' = Done
      /\ abandoned' = abandoned \cup {call.id}
      /\ UNCHANGED <<reader, stop, readerError, responses, events, backlog,
                     nextId, unanswered, sent, gone>>
  BY DEF CallTimesOut
<1>3. /\ call' \in CallStates /\ call'.op = "idle"
      /\ call'.deferred = <<>> /\ call'.closed = "none"
  <2>1. "none" \in Wanted
    BY DEF Wanted
  <2> QED
    BY <1>2, <2>1, IdleState
<1>4. Owed' = Owed /\ call.id \in 1..MaxTraffic
  <2>1. Owed = abandoned \cup {call.id}
    BY <1>2 DEF Owed
  <2>2. Owed \subseteq 1..(nextId - 1) /\ nextId \in 1..(MaxTraffic + 1)
    BY <1>1 DEF AllAnswered, ClientTypeOK
  <2>3. call.id \in 1..MaxTraffic
    BY <2>1, <2>2, ClientAssumption
  <2> QED
    BY <1>2, <1>3, <2>1, <2>3 DEF Owed
<1>5. AllAnswered' /\ Ends'
  BY <1>1, <1>2, <1>4 DEF AllAnswered, Ends
<1>6. ClientTypeOK'
  BY <1>1, <1>2, <1>3, <1>4 DEF ClientTypeOK
<1>7. Overflow'
  <2>1. abandoned' \subseteq 1..MaxTraffic /\ abandoned \subseteq abandoned'
    BY <1>1, <1>2, <1>4 DEF ClientTypeOK
  <2> QED
    BY <1>1, <1>2, <2>1, GivenUp
<1>8. Room' /\ Passed' /\ Delivered'
  BY <1>2, <1>3, CallAside
<1> QED
  BY <1>5, <1>6, <1>7, <1>8 DEF ClientInv

(* One turn of the loop of a call: the answer, a late one, or the end. *)
LEMMA CallTakesKeeps == ClientInv /\ CallTakes => ClientInv'
<1> SUFFICES ASSUME ClientInv, CallTakes PROVE ClientInv'
  OBVIOUS
<1> DEFINE f == Head(responses)
<1>1. /\ ClientTypeOK /\ Room /\ Ends /\ Passed /\ Delivered /\ AllAnswered
      /\ Overflow
  BY DEF ClientInv
<1>2. /\ call.op = "call" /\ responses # <<>> /\ responses' = Tail(responses)
      /\ UNCHANGED <<reader, stop, readerError, events, backlog, nextId,
                     unanswered, sent, gone>>
  BY DEF CallTakes
<1>3. /\ responses \in Seq(Answers \cup {STOP})
      /\ f \in Answers \cup {STOP} /\ responses' \in Seq(Answers \cup {STOP})
      /\ Len(responses) = Len(responses') + 1 /\ Len(responses') \in Nat
  BY <1>1, <1>2, HeadAndTail DEF ClientTypeOK
<1>4. /\ \A i \in 1..Len(responses') : responses'[i] = responses[i + 1]
      /\ DOMAIN responses' = 1..Len(responses')
      /\ DOMAIN responses = 1..Len(responses) /\ responses[1] = f
  BY <1>2, <1>3, HeadTailProperties, LenProperties
<1>5. \A i \in DOMAIN responses' :
        /\ i + 1 \in DOMAIN responses /\ i + 1 # 1
        /\ responses'[i] = responses[i + 1]
  BY <1>3, <1>4
<1>6. 1 \in DOMAIN responses
  BY <1>3, <1>4
<1> HIDE DEF f
<1>7. Len(responses') <= MaxBacklog
  BY <1>1, <1>3, ClientAssumption DEF ClientTypeOK
<1>8. /\ Owed = abandoned \cup {call.id} /\ call.id \in 1..MaxTraffic
  <2>1. Owed = abandoned \cup {call.id}
    BY <1>2 DEF Owed
  <2>2. Owed \subseteq 1..(nextId - 1) /\ nextId \in 1..(MaxTraffic + 1)
    BY <1>1 DEF AllAnswered, ClientTypeOK
  <2> QED
    BY <2>1, <2>2, ClientAssumption
<1>9. \A i \in DOMAIN responses' : responses'[i] # STOP =>
        /\ responses'[i].id \in Owed /\ responses'[i].id \notin unanswered
        /\ \A j \in DOMAIN responses' : j # i /\ responses'[j] # STOP =>
             responses'[j].id # responses'[i].id
  <2> SUFFICES ASSUME NEW i \in DOMAIN responses', responses'[i] # STOP
               PROVE  /\ responses'[i].id \in Owed
                      /\ responses'[i].id \notin unanswered
                      /\ \A j \in DOMAIN responses' :
                           j # i /\ responses'[j] # STOP =>
                             responses'[j].id # responses'[i].id
    OBVIOUS
  <2>1. i \in Nat
    BY <1>4
  <2>2. /\ responses'[i].id \in Owed /\ responses'[i].id \notin unanswered
    BY <1>1, <1>5 DEF AllAnswered
  <2>3. ASSUME NEW j \in DOMAIN responses', j # i, responses'[j] # STOP
        PROVE  responses'[j].id # responses'[i].id
    <3>1. j + 1 # i + 1
      BY <1>4, <2>1, <2>3
    <3> QED
      BY <1>1, <1>5, <2>3, <3>1 DEF AllAnswered
  <2> QED
    BY <2>2, <2>3
<1>10. "none" \in Wanted
  BY DEF Wanted
<1>11. Ends'
  BY <1>1, <1>2, <1>5 DEF Ends
<1>12. CASE f = STOP /\ call' = Done /\ abandoned' = abandoned \cup {call.id}
  <2>1. /\ call' \in CallStates /\ call'.op = "idle"
        /\ call'.deferred = <<>> /\ call'.closed = "none"
    BY <1>10, <1>12, IdleState
  <2>2. Owed' = Owed
    BY <1>8, <1>12, <2>1 DEF Owed
  <2>3. AllAnswered'
    BY <1>1, <1>2, <1>9, <2>2 DEF AllAnswered
  <2>4. ClientTypeOK'
    BY <1>1, <1>2, <1>3, <1>7, <1>8, <1>12, <2>1 DEF ClientTypeOK
  <2>5. Overflow'
    <3>1. abandoned' \subseteq 1..MaxTraffic /\ abandoned \subseteq abandoned'
      BY <1>1, <1>8, <1>12 DEF ClientTypeOK
    <3> QED
      BY <1>1, <1>2, <3>1, GivenUp
  <2>6. Room' /\ Passed' /\ Delivered'
    BY <1>2, <2>1, CallAside
  <2> QED
    BY <1>11, <2>3, <2>4, <2>5, <2>6 DEF ClientInv
<1>13. CASE call' = call /\ abandoned' = abandoned
  <2>1. Owed' = Owed
    BY <1>13 DEF Owed
  <2>2. AllAnswered'
    BY <1>1, <1>2, <1>9, <2>1 DEF AllAnswered
  <2>3. ClientTypeOK'
    BY <1>1, <1>2, <1>3, <1>7, <1>13 DEF ClientTypeOK
  <2>4. Overflow' /\ Room' /\ Passed' /\ Delivered'
    BY <1>1, <1>2, <1>13 DEF Overflow, Room, Passed, Delivered, Waiting
  <2> QED
    BY <1>11, <2>2, <2>3, <2>4 DEF ClientInv
<1>14. CASE f.id = call.id /\ call' = Done /\ abandoned' = abandoned
  <2>1. /\ call' \in CallStates /\ call'.op = "idle"
        /\ call'.deferred = <<>> /\ call'.closed = "none"
    BY <1>10, <1>14, IdleState
  <2>2. Owed' = abandoned
    BY <1>14, <2>1 DEF Owed
  <2>3. f # STOP
    <3>1. STOP.id = 0
      BY DEF STOP
    <3> QED
      BY <1>8, <1>14, <3>1
  <2>4. call.id \notin unanswered
    BY <1>1, <1>4, <1>6, <1>14, <2>3 DEF AllAnswered
  <2>5. \A i \in DOMAIN responses' :
          responses'[i] # STOP => responses'[i].id # call.id
    BY <1>1, <1>4, <1>5, <1>6, <1>14, <2>3 DEF AllAnswered
  <2>6. unanswered \subseteq Owed /\ Owed \subseteq 1..(nextId - 1)
    BY <1>1 DEF AllAnswered
  <2>7. unanswered' \subseteq Owed' /\ Owed' \subseteq 1..(nextId' - 1)
    BY <1>2, <1>8, <2>2, <2>4, <2>6
  <2>8. \A i \in DOMAIN responses' :
          responses'[i] # STOP => responses'[i].id \in Owed'
    BY <1>8, <1>9, <2>2, <2>5
  <2>9. AllAnswered'
    BY <1>2, <1>9, <2>7, <2>8 DEF AllAnswered
  <2>10. ClientTypeOK'
    BY <1>1, <1>2, <1>3, <1>7, <1>14, <2>1 DEF ClientTypeOK
  <2>11. Overflow'
    BY <1>1, <1>2, <1>14 DEF Overflow
  <2>12. Room' /\ Passed' /\ Delivered'
    BY <1>2, <2>1, CallAside
  <2> QED
    BY <1>11, <2>9, <2>10, <2>11, <2>12 DEF ClientInv
<1> QED
  BY <1>12, <1>13, <1>14 DEF CallTakes, f
-----------------------------------------------------------------------------
(* The inductive step.                                                     *)

(* A client that was just started has nothing. *)
LEMMA ClientInvInit == ClientInit => ClientInv
<1> SUFFICES ASSUME ClientInit PROVE ClientInv
  OBVIOUS
<1>1. /\ call \in CallStates /\ call.op = "idle"
      /\ call.deferred = <<>> /\ call.closed = "none"
  <2>1. "none" \in Wanted
    BY DEF Wanted
  <2> QED
    BY <2>1, IdleState DEF ClientInit
<1>2. /\ <<>> \in Seq(Answers \cup {STOP}) /\ <<>> \in Seq(AnyFrame)
      /\ <<>> \in Seq(EventFrames) /\ Len(<<>>) = 0
      /\ DOMAIN <<>> = {}
  BY EmptySeq
<1>3. ClientTypeOK
  <2>1. /\ 1 \in 1..(MaxTraffic + 1) /\ 0 \in 0..MaxTraffic
        /\ 0 <= MaxBacklog
    BY ClientAssumption
  <2>2. /\ reader = "check" /\ stop = FALSE /\ readerError = "none"
        /\ responses = <<>> /\ events = <<>> /\ backlog = <<>>
        /\ nextId = 1 /\ sent = 0
        /\ gone = {} /\ unanswered = {} /\ abandoned = {}
    BY DEF ClientInit
  <2>3. /\ responses \in Seq(Answers \cup {STOP})
        /\ events \in Seq(EventFrames \cup {STOP})
        /\ backlog \in Seq(EventFrames)
        /\ Len(responses) <= MaxBacklog /\ Len(events) <= MaxBacklog
        /\ Len(backlog) <= MaxBacklog
    BY <1>2, <2>1, <2>2 DEF AnyFrame
  <2>4. nextId \in 1..(MaxTraffic + 1) /\ sent \in 0..MaxTraffic
    BY <2>1, <2>2
  <2> QED
    BY <1>1, <2>2, <2>3, <2>4 DEF ClientTypeOK
<1>4. Waiting = <<>>
  BY <1>1 DEF ClientInit, Waiting
<1>5. Delivered
  BY <1>2, <1>4 DEF ClientInit, Delivered, KeptFrames
<1>6. Owed = {}
  BY <1>1 DEF ClientInit, Owed
<1>7. AllAnswered /\ Overflow
  BY <1>2, <1>6 DEF ClientInit, AllAnswered, Overflow
<1>8. Room /\ Ends /\ Passed
  BY <1>1, <1>2, ClientAssumption DEF ClientInit, Room, Ends, Passed
<1> QED
  BY <1>3, <1>5, <1>7, <1>8 DEF ClientInv

(* Every step of the reader thread and of the caller keeps the events and  *)
(* the answers.                                                            *)
LEMMA ClientInvStep == ClientInv /\ [ClientNext]_clientVars => ClientInv'
<1> SUFFICES ASSUME ClientInv, [ClientNext]_clientVars PROVE ClientInv'
  OBVIOUS
<1>0. /\ ClientTypeOK /\ Room /\ Ends /\ Passed /\ Delivered /\ AllAnswered
      /\ Overflow
  BY DEF ClientInv
<1>1. CASE ReaderCheck
  <2>1. CASE stop /\ Ended
    BY <1>0, <1>1, <2>1, EndedKeeps DEF ReaderCheck, ClientTypeOK
  <2>2. CASE ~stop /\ reader' = "read" /\ UNCHANGED <<responses, events>>
    <3>1. /\ reader = "check" /\ readerError = "none"
          /\ UNCHANGED <<stop, readerError, backlog, nextId, call, unanswered,
                         sent, gone, abandoned>>
      BY <1>0, <1>1, <2>2 DEF ReaderCheck, Ends
    <3>2. ClientTypeOK' /\ Ends' /\ Room' /\ Overflow'
      BY <1>0, <2>2, <3>1 DEF ClientTypeOK, Ends, Room, Overflow
    <3>3. Owed' = Owed /\ Waiting' = Waiting
      BY <2>2, <3>1 DEF Owed, Waiting
    <3>4. Passed' /\ Delivered' /\ AllAnswered'
      BY <1>0, <2>2, <3>1, <3>3 DEF Passed, Delivered, AllAnswered
    <3> QED
      BY <3>2, <3>4 DEF ClientInv
  <2> QED
    BY <1>1, <2>1, <2>2 DEF ReaderCheck
<1>2. CASE ReaderEvent
  BY <1>2, ReaderEventKeeps
<1>3. CASE ReaderResponse
  BY <1>3, ReaderResponseKeeps
<1>4. CASE ReaderInvalid
  <2>1. CASE Ended /\ stop' = stop
    BY <1>0, <1>4, <2>1, EndedKeeps DEF ReaderInvalid, ClientTypeOK
  <2>2. CASE /\ reader' = "check" /\ stop' = TRUE
             /\ UNCHANGED <<responses, events>>
    <3>1. /\ reader = "read" /\ readerError' = "invalid"
          /\ UNCHANGED <<backlog, nextId, call, unanswered, sent, gone,
                         abandoned>>
      BY <1>4 DEF ReaderInvalid
    <3>2. ClientTypeOK' /\ Ends' /\ Room' /\ Overflow'
      BY <1>0, <2>2, <3>1 DEF ClientTypeOK, Ends, Room, Overflow
    <3>3. Owed' = Owed /\ Waiting' = Waiting
      BY <2>2, <3>1 DEF Owed, Waiting
    <3>4. Passed' /\ Delivered' /\ AllAnswered'
      BY <1>0, <2>2, <3>1, <3>3 DEF Passed, Delivered, AllAnswered
    <3> QED
      BY <3>2, <3>4 DEF ClientInv
  <2> QED
    BY <1>4, <2>1, <2>2 DEF ReaderInvalid
<1>5. CASE ReaderEof
  BY <1>0, <1>5, EndedKeeps DEF ReaderEof, ClientTypeOK
<1>6. CASE Call
  BY <1>6, CallKeeps
<1>7. CASE CallTakes
  BY <1>7, CallTakesKeeps
<1>8. CASE CallTimesOut
  BY <1>8, CallTimesOutKeeps
<1>9. CASE WaitEvent
  <2>1. PICK kind \in Kinds \cup {"any"} :
          call' = [Done EXCEPT !.op = "wait", !.want = kind]
    BY <1>9 DEF WaitEvent
  <2>2. /\ call.op = "idle"
        /\ UNCHANGED <<reader, stop, readerError, responses, events, backlog,
                       nextId, unanswered, sent, gone, abandoned>>
    BY <1>9 DEF WaitEvent
  <2>3. /\ call' \in CallStates /\ call'.op = "wait"
        /\ call'.deferred = <<>> /\ call'.closed = "none"
        /\ call'.want # "none"
    <3>1. "none" \in Wanted /\ kind \in Wanted /\ kind # "none"
      BY ClientAssumption DEF Wanted
    <3>2. Done \in CallStates /\ Done.deferred = <<>> /\ Done.closed = "none"
      BY <3>1, IdleState
    <3> QED
      BY <2>1, <3>1, <3>2 DEF CallStates
  <2>4. Room' /\ Passed' /\ Delivered'
    BY <2>2, <2>3, CallAside
  <2>5. Owed' = Owed
    BY <2>2, <2>3 DEF Owed
  <2>6. ClientTypeOK' /\ Ends' /\ AllAnswered' /\ Overflow'
    BY <1>0, <2>2, <2>3, <2>5 DEF ClientTypeOK, Ends, AllAnswered, Overflow
  <2> QED
    BY <2>4, <2>6 DEF ClientInv
<1>10. CASE WaitTakes
  BY <1>10, WaitTakesKeeps
<1>11. CASE WaitTimesOut
  BY <1>11, WaitTimesOutKeeps
<1>12. CASE Close
  <2>1. /\ stop' = TRUE
        /\ UNCHANGED <<reader, readerError, responses, events, backlog,
                       nextId, call, unanswered, sent, gone, abandoned>>
    BY <1>12 DEF Close
  <2>2. ClientTypeOK' /\ Ends' /\ Room' /\ Overflow'
    BY <1>0, <2>1 DEF ClientTypeOK, Ends, Room, Overflow
  <2>3. Owed' = Owed /\ Waiting' = Waiting
    BY <2>1 DEF Owed, Waiting
  <2>4. Passed' /\ Delivered' /\ AllAnswered'
    BY <1>0, <2>1, <2>3 DEF Passed, Delivered, AllAnswered
  <2> QED
    BY <2>2, <2>4 DEF ClientInv
<1>13. CASE UNCHANGED clientVars
  <2>1. Owed' = Owed /\ Waiting' = Waiting
    BY <1>13 DEF Owed, Waiting, clientVars
  <2>2. ClientTypeOK' /\ Ends' /\ Room' /\ Overflow'
    BY <1>0, <1>13 DEF ClientTypeOK, Ends, Room, Overflow, clientVars
  <2>3. Passed' /\ Delivered' /\ AllAnswered'
    BY <1>0, <1>13, <2>1 DEF Passed, Delivered, AllAnswered, clientVars
  <2> QED
    BY <2>2, <2>3 DEF ClientInv
<1> QED
  BY <1>1, <1>2, <1>3, <1>4, <1>5, <1>6, <1>7, <1>8, <1>9, <1>10, <1>11,
     <1>12, <1>13 DEF ClientNext

(* The invariant, of every behaviour of the client. *)
LEMMA ClientInvHolds == ClientSpec => []ClientInv
  BY ClientInvInit, ClientInvStep, PTL DEF ClientSpec
-----------------------------------------------------------------------------
(* The client's state keeps its types: no queue and no backlog outgrows    *)
(* max_backlog.                                                            *)
THEOREM ClientTypeCorrect == ClientSpec => []ClientTypeOK
<1>1. ClientInv => ClientTypeOK
  BY DEF ClientInv
<1> QED
  BY <1>1, ClientInvHolds, PTL

(* Between the reader thread and the calls of a Gateway no event is lost,  *)
(* repeated or overtaken, whatever wait_event() passes over and however a  *)
(* wait ends; a wait that was told of the end has seen all there was; and  *)
(* late answers stop the reader only after as many calls as the queue      *)
(* holds have given up.                                                    *)
THEOREM TrafficKept == ClientSpec => []ClientKeepsItsTraffic
<1>1. ASSUME ClientInv PROVE ClientKeepsItsTraffic
  <2>1. NoEventIsLost
    BY <1>1 DEF ClientInv, Delivered, KeptFrames, Waiting, NoEventIsLost
  <2>2. EndHidesNothing
    <3> DEFINE left == {backlog[i].kind : i \in DOMAIN backlog}
                         \cup {events[i].kind : i \in DOMAIN events}
    <3>1. CASE call.closed # "none"
      <4>1. /\ events = <<>> /\ DOMAIN <<>> = {}
            /\ \A i \in DOMAIN backlog :
                 call.closed # backlog[i].kind /\ call.closed # "any"
        BY <1>1, <3>1 DEF ClientInv, Passed
      <4>2. call.closed \notin left
        BY <4>1
      <4>3. call.closed = "any" => left = {}
        BY <4>1
      <4> QED
        BY <4>2, <4>3 DEF EndHidesNothing
    <3>2. CASE call.closed = "none"
      <4>1. /\ backlog \in Seq(EventFrames)
            /\ events \in Seq(EventFrames \cup {STOP})
        BY <1>1 DEF ClientInv, ClientTypeOK
      <4>2. /\ \A i \in DOMAIN backlog : backlog[i] \in EventFrames
            /\ \A i \in DOMAIN events : events[i] \in EventFrames \cup {STOP}
        BY <4>1, ElementOfSeq, LenProperties
      <4>3. \A f \in EventFrames \cup {STOP} : f.kind # "none"
        BY ClientAssumption DEF EventFrames, STOP, NATIVE
      <4>4. "none" \notin left
        BY <4>2, <4>3
      <4> QED
        BY <3>2, <4>4 DEF EndHidesNothing
    <3> QED
      BY <3>1, <3>2
  <2>3. AnswersHaveRoom
    BY <1>1, AnswersBounded DEF ClientInv, Overflow, AnswersHaveRoom
  <2> QED
    BY <2>1, <2>2, <2>3 DEF ClientKeepsItsTraffic
<1> QED
  BY <1>1, ClientInvHolds, PTL
=============================================================================
