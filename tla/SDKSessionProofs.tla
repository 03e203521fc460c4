--------------------------- MODULE SDKSessionProofs ---------------------------
(***************************************************************************)
(* Proofs about SDKSession, for every number of turns and of callers, every *)
(* set of message kinds, and every bound on the CLI, the hooks and the     *)
(* cancelled tasks.                                                        *)
(*                                                                         *)
(* The invariant has five parts.  Claims says who holds the turn lock and  *)
(* the inbox, Closes who closes the session, and Starts what the client,   *)
(* the reader and the pipe are before and after the one connection.        *)
(* Answers follows what the CLI wrote in answer to a prompt from the pipe  *)
(* to the inbox, and Retirement follows the reasons not to use the client  *)
(* again until the session is closed.                                      *)
(***************************************************************************)
EXTENDS SDKSession, TLAPS

-----------------------------------------------------------------------------
(* Types.                                                                  *)

(* What the reader, cancel(), close() and the watchdog put into an inbox. *)
LEMMA MarkerTyped ==
  ASSUME NEW k \in Markers
  PROVE  Marker(k) \in Messages
BY DEF Marker, Messages

(* What the CLI writes. *)
LEMMA MessageTyped ==
  ASSUME TypeOK, NEW k \in Kinds
  PROVE  Message(k) \in Messages
BY SessionAssumption DEF Message, Messages, TypeOK

(* put_nowait() keeps the inbox a sequence of messages. *)
LEMMA DeliveredTyped ==
  ASSUME TypeOK, NEW k \in Markers
  PROVE  Delivered(Marker(k)) \in Seq(Messages)
BY MarkerTyped DEF Delivered, TypeOK

(* What the finally clause assigns. *)
LEMMA FinishTyped ==
  ASSUME TypeOK, NEW t \in Turns, NEW o \in Outcomes, Finish(t, o)
  PROVE  /\ turnLock' \in Turns \cup {NoTurn}
         /\ owner' \in Turns \cup {NoTurn}
         /\ inbox' \in Seq(Messages)
         /\ terminalSeen' \in BOOLEAN /\ watched' \in BOOLEAN
         /\ depth' \in Nat
         /\ pc' \in [Tasks -> PCs]
         /\ outcome' \in [Turns -> Outcomes]
<1>1. inbox' \in Seq(Messages)
  <2>1. CASE owner = t
    BY <2>1 DEF Finish
  <2>2. CASE owner # t
    BY <2>2 DEF Finish, TypeOK
  <2>3. QED
    BY <2>1, <2>2
<1>2. QED
  BY <1>1 DEF Finish, Release, Goto, Decide, TypeOK, Tasks, PCs

(* What the return of close() assigns. *)
LEMMA ReturnTyped ==
  ASSUME TypeOK, NEW p \in Tasks, Return(p)
  PROVE  /\ turnLock' \in Turns \cup {NoTurn}
         /\ owner' \in Turns \cup {NoTurn}
         /\ inbox' \in Seq(Messages)
         /\ terminalSeen' \in BOOLEAN /\ watched' \in BOOLEAN
         /\ depth' \in Nat
         /\ pc' \in [Tasks -> PCs]
         /\ outcome' \in [Turns -> Outcomes]
<1>1. CASE turnLock = p /\ owner = p
  <2>1. p \in Turns
    BY <1>1, SessionAssumption DEF TypeOK
  <2>2. outcome[p] \in Outcomes /\ Finish(p, outcome[p])
    BY <1>1, <2>1 DEF Return, TypeOK
  <2>3. QED
    BY <2>1, <2>2, FinishTyped
<1>2. CASE ~(turnLock = p /\ owner = p)
  BY <1>2 DEF Return, Goto, claim, TypeOK, PCs
<1>3. QED
  BY <1>1, <1>2

(* Types of a turn, up to the prompt. *)
LEMMA BeginTyped ==
  ASSUME TypeOK, NEW t \in Turns, Begin(t)
  PROVE  TypeOK'
<1> USE DEF session, locks, receipts, claim, turn, cli, Goto, Decide,
            Release, Retire, Tasks, Acquire, Usable, PCs, Outcomes
<1>1. CASE RefuseClosed(t)
  BY <1>1 DEF RefuseClosed, TypeOK
<1>2. CASE RefuseTainted(t)
  BY <1>2 DEF RefuseTainted, TypeOK
<1>3. CASE Connect(t)
  BY <1>3 DEF Connect, TypeOK
<1>4. CASE StartRaises(t)
  BY <1>4 DEF StartRaises, TypeOK
<1>5. ASSUME UNCHANGED <<session, closeLock, receipts, pipe, budget>>,
             link' \in Links, reader' \in Readers, AfterStart(t)
      PROVE  TypeOK'
  <2>1. CASE LeaveCancelled(t)
    BY <1>5, <2>1 DEF LeaveCancelled, TypeOK
  <2>2. CASE BindRaises(t)
    <3>1. inbox' \in Seq(Messages)
      BY <2>2 DEF BindRaises, ClaimInbox
    <3>2. QED
      BY <1>5, <2>2, <3>1 DEF BindRaises, ClaimInbox, TypeOK
  <2>3. CASE SendPrompt(t)
    <3>1. inbox' \in Seq(Messages)
      BY <2>3 DEF SendPrompt, ClaimAndBind, ClaimInbox
    <3>2. QED
      BY <1>5, <2>3, <3>1 DEF SendPrompt, ClaimAndBind, ClaimInbox, TypeOK
  <2>4. CASE ClientGone(t)
    <3>1. inbox' \in Seq(Messages)
      BY <2>4 DEF ClientGone, ClaimAndBind, ClaimInbox
    <3>2. QED
      BY <1>5, <2>4, <3>1 DEF ClientGone, ClaimAndBind, ClaimInbox, TypeOK
  <2>5. QED
    BY <1>5, <2>1, <2>2, <2>3, <2>4 DEF AfterStart
<1>6. CASE AlreadyStarted(t)
  BY <1>5, <1>6 DEF AlreadyStarted, TypeOK
<1>7. CASE Connected(t)
  BY <1>5, <1>7 DEF Connected, Links, Readers
<1>8. CASE ConnectFails(t)
  BY <1>8 DEF ConnectFails, TypeOK
<1>9. CASE QuerySent(t)
  BY <1>9 DEF QuerySent, TypeOK
<1>10. CASE QueryFails(t)
  BY ZenonT(60), <1>10 DEF QueryFails, TypeOK
<1> QED
  BY <1>1, <1>2, <1>3, <1>4, <1>6, <1>7, <1>8, <1>9, <1>10 DEF Begin

(* Types of a turn in its message loop. *)
LEMMA RecvTyped ==
  ASSUME TypeOK, NEW t \in Turns, Recv(t)
  PROVE  TypeOK'
<1> USE DEF session, locks, receipts, claim, turn, cli, Goto, Decide,
            Retire, Tasks, PCs, Outcomes, Takes
<1>1. CASE RecvCancelled(t)
  <2>1. Finish(t, "cancelled")
    BY <1>1 DEF RecvCancelled
  <2>2. QED
    BY <1>1, <2>1, FinishTyped DEF RecvCancelled, TypeOK
<1>2. CASE RecvViolation(t)
  BY <1>2 DEF RecvViolation, TypeOK, MarkerCode
<1>3. CASE RecvEnded(t)
  <2>1. PICK o \in Outcomes : Finish(t, o)
    BY <1>3 DEF RecvEnded, MarkerCode
  <2>2. QED
    BY <1>3, <2>1, FinishTyped DEF RecvEnded, TypeOK
<1>4. CASE RecvMetered(t)
  BY <1>4 DEF RecvMetered, TypeOK
<1>5. CASE RecvMessage(t)
  BY <1>5 DEF RecvMessage, TypeOK, DepthAfter, Merged
<1>6. CASE RecvRaises(t)
  BY <1>6 DEF RecvRaises, TypeOK, DepthAfter
<1>7. CASE RecvResult(t)
  BY <1>7 DEF RecvResult, TypeOK, Results, ResultCode
<1>8. CASE RecvUnbilled(t)
  BY <1>8 DEF RecvUnbilled, TypeOK
<1>9. CASE DrainViolation(t)
  BY <1>9 DEF DrainViolation, TypeOK, Violating, MarkerCode
<1>10. CASE Drain(t)
  <2>1. outcome[t] \in Outcomes /\ Finish(t, outcome[t])
    BY <1>10 DEF Drain, TypeOK
  <2>2. QED
    BY <1>10, <2>1, FinishTyped DEF Drain, TypeOK
<1> QED
  BY <1>1, <1>2, <1>3, <1>4, <1>5, <1>6, <1>7, <1>8, <1>9, <1>10 DEF Recv

(* Types of cancel() and close(). *)
LEMMA TeardownTyped ==
  ASSUME TypeOK, NEW p \in Tasks, Teardown(p)
  PROVE  TypeOK'
<1> USE DEF session, locks, receipts, claim, turn, cli, Goto, PCs
<1>0. Delivered(Marker("CANCELLED")) \in Seq(Messages)
  BY DeliveredTyped DEF Markers
<1>1. CASE Cancel(p)
  BY <1>0, <1>1 DEF Cancel, TypeOK
<1>2. CASE CancelClosed(p)
  BY <1>2, ReturnTyped DEF CancelClosed, TypeOK
<1>3. CASE Interrupted(p)
  BY <1>3 DEF Interrupted, TypeOK
<1>4. CASE CloseAgain(p)
  BY <1>4, ReturnTyped DEF CloseAgain, TypeOK
<1>5. CASE CloseBegin(p)
  BY <1>0, <1>5 DEF CloseBegin, Signal, TypeOK
<1>6. CASE CloseSignal(p)
  BY <1>0, <1>6 DEF CloseSignal, Signal, TypeOK
<1>7. CASE Disconnected(p)
  BY <1>7 DEF Disconnected, ReaderAfterClose, TypeOK, Links, Readers
<1>8. CASE Reap(p)
  BY <1>8, ReturnTyped DEF Reap, TypeOK
<1> QED
  BY <1>1, <1>2, <1>3, <1>4, <1>5, <1>6, <1>7, <1>8 DEF Teardown

(* Types of a task that its owner cancels. *)
LEMMA TaskCancelTyped ==
  ASSUME TypeOK, NEW p \in Tasks, TaskCancel(p)
  PROVE  TypeOK'
<1>1. CASE Handling(p)
  <2>1. p \in Turns
    BY <1>1, SessionAssumption DEF Handling, TypeOK
  <2>2. PICK o \in Exceptions : Finish(p, o)
    BY <1>1 DEF TaskCancel, Exceptions
  <2>3. o \in Outcomes
    BY DEF Exceptions, Outcomes
  <2>4. /\ turnLock' \in Turns \cup {NoTurn} /\ owner' \in Turns \cup {NoTurn}
        /\ inbox' \in Seq(Messages) /\ terminalSeen' \in BOOLEAN
        /\ watched' \in BOOLEAN /\ depth' \in Nat
        /\ pc' \in [Tasks -> PCs] /\ outcome' \in [Turns -> Outcomes]
    BY <2>1, <2>2, <2>3, FinishTyped
  <2>5. UNCHANGED <<session, receipts, evidence, cli, reader, dirty>>
    BY <1>1 DEF TaskCancel
  <2>6. closeLock' \in Tasks \cup {NoTask}
    BY DEF TaskCancel, TypeOK
  <2>7. budget' \in [emits : Nat, hooks : Nat, cancels : Nat]
    BY SMTT(30) DEF TaskCancel, TypeOK
  <2> QED
    BY <2>4, <2>5, <2>6, <2>7 DEF session, receipts, cli, TypeOK
<1>2. CASE ~Handling(p)
  <2>1. pc' \in [Tasks -> PCs]
    BY <1>2 DEF TaskCancel, TypeOK, Goto, PCs
  <2>2. dirty' \subseteq dirty \cup {"retired"}
    BY <1>2 DEF TaskCancel
  <2>3. turnLock' \in Turns \cup {NoTurn}
    <3>1. turnLock' = turnLock \/ turnLock' = NoTurn
      BY <1>2 DEF TaskCancel
    <3> QED
      BY <3>1 DEF TypeOK
  <2>4. outcome' \in [Turns -> Outcomes]
    <3>1. outcome' = [t \in Turns |-> IF t = p THEN "raised" ELSE outcome[t]]
      BY <1>2 DEF TaskCancel
    <3>2. "raised" \in Outcomes
      BY DEF Outcomes
    <3> QED
      BY <3>1, <3>2 DEF TypeOK
  <2>5. UNCHANGED <<session, receipts, claim, evidence, cli, reader>>
    BY <1>2 DEF TaskCancel
  <2>6. closeLock' \in Tasks \cup {NoTask}
    BY DEF TaskCancel, TypeOK
  <2>7. budget' \in [emits : Nat, hooks : Nat, cancels : Nat]
    BY DEF TaskCancel, TypeOK
  <2> QED
    BY <2>1, <2>4, <2>5, <2>2, <2>3, <2>6, <2>7
    DEF session, receipts, claim, cli, TypeOK
<1> QED
  BY <1>1, <1>2

(* Types of the reader. *)
LEMMA ReaderTyped ==
  ASSUME TypeOK, Reader
  PROVE  TypeOK'
<1> USE DEF session, locks, receipts, claim, turn, cli
<1>1. \A k \in Markers : Delivered(Marker(k)) \in Seq(Messages)
  BY DeliveredTyped
<1>2. CASE ReaderStart
  BY <1>2 DEF ReaderStart, TypeOK, Readers
<1>3. ASSUME NEW k \in Markers, ReaderStops(k)
      PROVE  TypeOK'
  BY <1>1, <1>3 DEF ReaderStops, TypeOK, Readers
<1>4. CASE ReaderStartFails \/ ReaderEnd \/ ReaderCancelled
  BY <1>3, <1>4
     DEF ReaderStartFails, ReaderEnd, ReaderCancelled, Markers
<1>5. CASE ReadNative
  BY <1>1, <1>5 DEF ReadNative, Reads, TypeOK, Markers
<1>6. CASE ReadIdle
  BY <1>6 DEF ReadIdle, Reads, TypeOK
<1>7. CASE ReadPostTerminal
  BY <1>7, MarkerTyped DEF ReadPostTerminal, Reads, TypeOK, Markers
<1>8. CASE ReadMessage
  BY <1>8 DEF ReadMessage, Reads, TypeOK
<1> QED
  BY <1>2, <1>4, <1>5, <1>6, <1>7, <1>8 DEF Reader

(* Every initial state is typed. *)
LEMMA TypeInit == Init => TypeOK
<1> SUFFICES ASSUME Init PROVE TypeOK
  OBVIOUS
<1>1. inbox \in Seq(Messages) /\ pipe \in Seq(Messages)
  BY DEF Init
<1>2. budget \in [emits : Nat, hooks : Nat, cancels : Nat]
  BY SessionAssumption DEF Init
<1>3. pc \in [Tasks -> PCs] /\ outcome \in [Turns -> Outcomes]
  BY DEF Init, PCs, Outcomes
<1>4. depth \in Nat
  BY DEF Init
<1> QED
  BY <1>1, <1>2, <1>3, <1>4 DEF Init, TypeOK, Readers, Links

(* Every step keeps the types. *)
LEMMA TypeStep ==
  ASSUME TypeOK, [Next]_vars
  PROVE  TypeOK'
<1> USE DEF session, locks, receipts, claim, turn, cli, Goto, Decide, Tasks,
            PCs, Outcomes
<1>1. ASSUME NEW t \in Turns, Call(t)
      PROVE  TypeOK'
  BY ZenonT(60), <1>1 DEF Call, TypeOK
<1>2. ASSUME NEW t \in Turns, Await(t) \/ Deadline(t)
      PROVE  TypeOK'
  BY ZenonT(60), <1>2 DEF Await, Deadline, Retire, TypeOK
<1>3. ASSUME NEW c \in Ctls, CtlCall(c)
      PROVE  TypeOK'
  BY <1>3 DEF CtlCall, TypeOK
<1>4. CASE Expire
  <2>1. inbox' \in Seq(Messages)
    BY <1>4, DeliveredTyped DEF Expire, Markers, TypeOK
  <2>2. QED
    BY <1>4, <2>1 DEF Expire, TypeOK
<1>5. ASSUME NEW k \in Kinds, Emit(k)
      PROVE  TypeOK'
  BY SMTT(60), <1>5, MessageTyped DEF Emit, TypeOK
<1>6. CASE EndStream \/ PreCompact
  BY SMTT(60), <1>6 DEF EndStream, PreCompact, TypeOK, Links
<1>7. CASE UNCHANGED vars
  BY <1>7 DEF vars, TypeOK
<1> QED
  BY <1>1, <1>2, <1>3, <1>4, <1>5, <1>6, <1>7, BeginTyped, RecvTyped,
     TeardownTyped, TaskCancelTyped, ReaderTyped
     DEF Next, Environment

-----------------------------------------------------------------------------
(* Who holds the locks, the inbox and the connection.                      *)

(* A turn that has its inbox and has not begun to retire the client. *)
Served == {"query", "loop", "timed", "untimed", "drain"}

(* A caller that is past the guard of close(). *)
Closing == {"ending", "disconnect", "reap"}

(* A served turn holds the turn lock and the inbox.  The inbox of an open  *)
(* session belongs to a turn that has not returned, even if that turn has  *)
(* lost the lock in bind().                                                *)
Claims ==
  /\ owner # NoTurn => pc[owner] \notin {"idle", "lock", "connect"}
  /\ owner # NoTurn /\ ~closed => pc[owner] # "done"
  /\ \A t \in Turns : pc[t] \in Served => turnLock = t /\ owner = t
  /\ \A t \in Turns : pc[t] = "connect" => turnLock = t
  /\ \A c \in Ctls : pc[c] \notin Served \cup {"connect", "lock"}
  /\ turnLock # NoTurn => pc[turnLock] \notin {"idle", "lock", "done"}

(* Whoever is past the guard of close() holds its lock. *)
Closes ==
  /\ \A p \in Tasks : pc[p] \in Closing => closed /\ closeLock = p
  /\ closeLock # NoTask => closed

(* There is one connection: a client is built once, and until the reader   *)
(* task exists nothing was asked, written or read.                         *)
Starts ==
  /\ client = "none" /\ ~closed => reader = "none"
  /\ reader = "none" =>
       /\ link = "down" /\ pipe = <<>> /\ asked = NoTurn
       /\ depth = 0 /\ ~postNative /\ ~postOutput
  /\ client = "held" /\ reader = "none" /\ ~closed =>
       turnLock # NoTurn /\ pc[turnLock] \in {"connect", "close"}
  /\ \A t \in Turns : pc[t] = "connect" =>
       reader = "none" /\ (closed <=> client = "none")
  /\ \A t \in Turns : pc[t] \in Served => asked = t

Shape == Claims /\ Closes /\ Starts

(* Locks and claims: a turn, up to the prompt. *)
LEMMA BeginShape ==
  ASSUME TypeOK, TypeOK', Shape, NEW t \in Turns, Begin(t)
  PROVE  Shape'
<1> USE DEF session, locks, receipts, claim, turn, cli, Goto, Decide, Release,
            Retire, Acquire, Usable, Tasks
<1>1. CASE RefuseClosed(t)
  BY <1>1, SessionAssumption DEF RefuseClosed, TypeOK, Shape, Claims, Closes,
     Starts, Served, Closing
<1>2. CASE RefuseTainted(t)
  BY <1>2, SessionAssumption DEF RefuseTainted, TypeOK, Shape, Claims, Closes,
     Starts, Served, Closing
<1>3. CASE Connect(t)
  BY <1>3, SessionAssumption DEF Connect, TypeOK, Shape, Claims, Closes,
     Starts, Served, Closing
<1>4. CASE StartRaises(t)
  BY <1>4, SessionAssumption DEF StartRaises, TypeOK, Shape, Claims, Closes,
     Starts, Served, Closing
<1>5. CASE AlreadyStarted(t)
  <2>1. CASE LeaveCancelled(t)
    BY <1>5, <2>1, SessionAssumption DEF AlreadyStarted, LeaveCancelled,
       TypeOK, Shape, Claims, Closes, Starts, Served, Closing
  <2>2. CASE BindRaises(t)
    BY <1>5, <2>2, SessionAssumption DEF AlreadyStarted, BindRaises,
       ClaimInbox, TypeOK, Shape, Claims, Closes, Starts, Served, Closing
  <2>3. CASE SendPrompt(t)
    <3>1. Claims'
      BY <1>5, <2>3, SessionAssumption DEF AlreadyStarted, SendPrompt,
         ClaimAndBind, ClaimInbox, TypeOK, Shape, Claims, Closes, Starts,
         Served, Closing
    <3>2. Closes'
      BY <1>5, <2>3, SessionAssumption DEF AlreadyStarted, SendPrompt,
         ClaimAndBind, ClaimInbox, TypeOK, Shape, Claims, Closes, Starts,
         Served, Closing
    <3>3. Starts'
      BY <1>5, <2>3, SessionAssumption DEF AlreadyStarted, SendPrompt,
         ClaimAndBind, ClaimInbox, TypeOK, Shape, Claims, Closes, Starts,
         Served, Closing
    <3> QED
      BY <3>1, <3>2, <3>3 DEF Shape
  <2>4. CASE ClientGone(t)
    BY <1>5, <2>4, SessionAssumption DEF AlreadyStarted, ClientGone,
       ClaimAndBind, ClaimInbox, TypeOK, Shape, Claims, Closes, Starts,
       Served, Closing
  <2> QED
    BY <1>5, <2>1, <2>2, <2>3, <2>4 DEF AlreadyStarted, AfterStart
<1>6. CASE Connected(t)
  <2>1. CASE LeaveCancelled(t)
    <3>1. Claims'
      BY <1>6, <2>1, SessionAssumption DEF Connected, LeaveCancelled, TypeOK,
         Shape, Claims, Closes, Starts, Served, Closing
    <3>2. Closes'
      BY <1>6, <2>1, SessionAssumption DEF Connected, LeaveCancelled, TypeOK,
         Shape, Claims, Closes, Starts, Served, Closing
    <3>3. Starts'
      BY <1>6, <2>1, SessionAssumption DEF Connected, LeaveCancelled, TypeOK,
         Shape, Claims, Closes, Starts, Served, Closing
    <3> QED
      BY <3>1, <3>2, <3>3 DEF Shape
  <2>2. CASE BindRaises(t)
    BY <1>6, <2>2, SessionAssumption DEF Connected, BindRaises, ClaimInbox,
       TypeOK, Shape, Claims, Closes, Starts, Served, Closing
  <2>3. CASE SendPrompt(t)
    BY <1>6, <2>3, SessionAssumption DEF Connected, SendPrompt, ClaimAndBind,
       ClaimInbox, TypeOK, Shape, Claims, Closes, Starts, Served, Closing
  <2>4. CASE ClientGone(t)
    <3>1. Claims'
      BY <1>6, <2>4, SessionAssumption DEF Connected, ClientGone,
         ClaimAndBind, ClaimInbox, TypeOK, Shape, Claims, Closes, Starts,
         Served, Closing
    <3>2. Closes'
      BY <1>6, <2>4, SessionAssumption DEF Connected, ClientGone,
         ClaimAndBind, ClaimInbox, TypeOK, Shape, Claims, Closes, Starts,
         Served, Closing
    <3>3. Starts'
      BY <1>6, <2>4, SessionAssumption DEF Connected, ClientGone,
         ClaimAndBind, ClaimInbox, TypeOK, Shape, Claims, Closes, Starts,
         Served, Closing
    <3> QED
      BY <3>1, <3>2, <3>3 DEF Shape
  <2> QED
    BY <1>6, <2>1, <2>2, <2>3, <2>4 DEF Connected, AfterStart
<1>7. CASE ConnectFails(t)
  BY <1>7, SessionAssumption DEF ConnectFails, TypeOK, Shape, Claims, Closes,
     Starts, Served, Closing
<1>8. CASE QuerySent(t)
  BY <1>8, SessionAssumption DEF QuerySent, TypeOK, Shape, Claims, Closes,
     Starts, Served, Closing
<1>9. CASE QueryFails(t)
  BY <1>9, SessionAssumption DEF QueryFails, TypeOK, Shape, Claims, Closes,
     Starts, Served, Closing
<1> QED
  BY <1>1, <1>2, <1>3, <1>4, <1>5, <1>6, <1>7, <1>8, <1>9 DEF Begin

(* Locks and claims: a turn in its message loop. *)
LEMMA RecvShape ==
  ASSUME TypeOK, TypeOK', Shape, NEW t \in Turns, Recv(t)
  PROVE  Shape'
<1> USE DEF session, locks, receipts, claim, turn, cli, Goto, Decide, Release,
            Finish, Retire, Takes, Tasks
<1>1. CASE RecvCancelled(t)
  BY <1>1, SessionAssumption DEF RecvCancelled, TypeOK, Shape, Claims, Closes,
     Starts, Served, Closing
<1>2. CASE RecvViolation(t)
  BY <1>2, SessionAssumption DEF RecvViolation, TypeOK, Shape, Claims, Closes,
     Starts, Served, Closing
<1>3. CASE RecvEnded(t)
  BY <1>3, SessionAssumption DEF RecvEnded, TypeOK, Shape, Claims, Closes,
     Starts, Served, Closing
<1>4. CASE RecvMetered(t)
  BY <1>4, SessionAssumption DEF RecvMetered, TypeOK, Shape, Claims, Closes,
     Starts, Served, Closing
<1>5. CASE RecvMessage(t)
  BY <1>5, SessionAssumption DEF RecvMessage, TypeOK, Shape, Claims, Closes,
     Starts, Served, Closing
<1>6. CASE RecvRaises(t)
  BY <1>6, SessionAssumption DEF RecvRaises, TypeOK, Shape, Claims, Closes,
     Starts, Served, Closing
<1>7. CASE RecvResult(t)
  BY <1>7, SessionAssumption DEF RecvResult, TypeOK, Shape, Claims, Closes,
     Starts, Served, Closing
<1>8. CASE RecvUnbilled(t)
  BY <1>8, SessionAssumption DEF RecvUnbilled, TypeOK, Shape, Claims, Closes,
     Starts, Served, Closing
<1>9. CASE DrainViolation(t)
  BY <1>9, SessionAssumption DEF DrainViolation, TypeOK, Shape, Claims,
     Closes, Starts, Served, Closing
<1>10. CASE Drain(t)
  BY <1>10, SessionAssumption DEF Drain, TypeOK, Shape, Claims, Closes,
     Starts, Served, Closing
<1> QED
  BY <1>1, <1>2, <1>3, <1>4, <1>5, <1>6, <1>7, <1>8, <1>9, <1>10 DEF Recv

(* Locks and claims: cancel() and close(). *)
LEMMA TeardownShape ==
  ASSUME TypeOK, TypeOK', Shape, NEW p \in Tasks, Teardown(p)
  PROVE  Shape'
<1> USE DEF session, locks, receipts, claim, turn, cli, Goto, Decide, Release,
            Finish, Tasks
<1>1. CASE Cancel(p)
  BY <1>1, SessionAssumption DEF Cancel, TypeOK, Shape, Claims, Closes,
     Starts, Served, Closing
<1>2. CASE CancelClosed(p)
  <2>1. Claims'
    BY SMTT(60), <1>2, SessionAssumption
       DEF CancelClosed, Return, TypeOK, Shape,
       Claims, Closes, Starts, Served, Closing
  <2>2. Closes'
    BY <1>2, SessionAssumption DEF CancelClosed, Return, TypeOK, Shape,
       Claims, Closes, Starts, Served, Closing
  <2>3. Starts'
    BY <1>2, SessionAssumption DEF CancelClosed, Return, TypeOK, Shape,
       Claims, Closes, Starts, Served, Closing
  <2> QED
    BY <2>1, <2>2, <2>3 DEF Shape
<1>3. CASE Interrupted(p)
  BY <1>3, SessionAssumption DEF Interrupted, TypeOK, Shape, Claims, Closes,
     Starts, Served, Closing
<1>4. CASE CloseAgain(p)
  <2>1. Claims'
    BY <1>4, SessionAssumption DEF CloseAgain, Return, TypeOK, Shape, Claims,
       Closes, Starts, Served, Closing
  <2>2. Closes'
    BY <1>4, SessionAssumption DEF CloseAgain, Return, TypeOK, Shape, Claims,
       Closes, Starts, Served, Closing
  <2>3. Starts'
    BY <1>4, SessionAssumption DEF CloseAgain, Return, TypeOK, Shape, Claims,
       Closes, Starts, Served, Closing
  <2> QED
    BY <2>1, <2>2, <2>3 DEF Shape
<1>5. CASE CloseBegin(p)
  BY <1>5, SessionAssumption DEF CloseBegin, Signal, TypeOK, Shape, Claims,
     Closes, Starts, Served, Closing
<1>6. CASE CloseSignal(p)
  BY <1>6, SessionAssumption DEF CloseSignal, Signal, TypeOK, Shape, Claims,
     Closes, Starts, Served, Closing
<1>7. CASE Disconnected(p)
  BY <1>7, SessionAssumption DEF Disconnected, ReaderAfterClose, TypeOK,
     Shape, Claims, Closes, Starts, Served, Closing
<1>8. CASE Reap(p)
  <2>1. Claims'
    BY SMTT(60), <1>8, SessionAssumption
       DEF Reap, Return, TypeOK, Shape, Claims,
       Closes, Starts, Served, Closing
  <2>2. Closes'
    BY <1>8, SessionAssumption DEF Reap, Return, TypeOK, Shape, Claims,
       Closes, Starts, Served, Closing
  <2>3. Starts'
    BY <1>8, SessionAssumption DEF Reap, Return, TypeOK, Shape, Claims,
       Closes, Starts, Served, Closing
  <2> QED
    BY <2>1, <2>2, <2>3 DEF Shape
<1> QED
  BY <1>1, <1>2, <1>3, <1>4, <1>5, <1>6, <1>7, <1>8 DEF Teardown

(* Locks and claims: the reader. *)
LEMMA ReaderShape ==
  ASSUME TypeOK, TypeOK', Shape, Reader
  PROVE  Shape'
<1> USE DEF session, locks, receipts, claim, turn, cli, Goto, Decide, Tasks
<1>1. CASE ReaderStart
  BY <1>1, SessionAssumption DEF ReaderStart, TypeOK, Shape, Claims, Closes,
     Starts, Served, Closing
<1>2. CASE ReaderStartFails
  BY <1>2, SessionAssumption DEF ReaderStartFails, ReaderStops, TypeOK, Shape,
     Claims, Closes, Starts, Served, Closing
<1>3. CASE ReaderEnd
  BY <1>3, SessionAssumption DEF ReaderEnd, ReaderStops, TypeOK, Shape,
     Claims, Closes, Starts, Served, Closing
<1>4. CASE ReaderCancelled
  BY <1>4, SessionAssumption DEF ReaderCancelled, ReaderStops, TypeOK, Shape,
     Claims, Closes, Starts, Served, Closing
<1>5. CASE ReadNative
  BY <1>5, SessionAssumption DEF ReadNative, Reads, TypeOK, Shape, Claims,
     Closes, Starts, Served, Closing
<1>6. CASE ReadIdle
  BY <1>6, SessionAssumption DEF ReadIdle, Reads, TypeOK, Shape, Claims,
     Closes, Starts, Served, Closing
<1>7. CASE ReadPostTerminal
  BY <1>7, SessionAssumption DEF ReadPostTerminal, Reads, TypeOK, Shape,
     Claims, Closes, Starts, Served, Closing
<1>8. CASE ReadMessage
  BY <1>8, SessionAssumption DEF ReadMessage, Reads, TypeOK, Shape, Claims,
     Closes, Starts, Served, Closing
<1> QED
  BY <1>1, <1>2, <1>3, <1>4, <1>5, <1>6, <1>7, <1>8 DEF Reader

(* Locks and claims: a task that its owner cancels. *)
LEMMA TaskCancelShape ==
  ASSUME TypeOK, TypeOK', Shape, NEW p \in Tasks, TaskCancel(p)
  PROVE  Shape'
<1> USE DEF TaskCancel, Suspended, session, receipts, claim, cli, Goto, Tasks,
            Served, Closing, TypeOK, Shape, Claims, Closes, Starts
<1>1. CASE Handling(p)
  <2> USE DEF Handling, Finish, Release
  <2>1. Claims'
    BY <1>1, SessionAssumption
  <2>2. Closes'
    BY <1>1, SessionAssumption
  <2>3. Starts'
    BY <1>1, SessionAssumption
  <2> QED
    BY <2>1, <2>2, <2>3
<1>2. CASE ~Handling(p)
  <2>1. Claims'
    BY <1>2, SessionAssumption
  <2>2. Closes'
    BY <1>2, SessionAssumption
  <2>3. Starts'
    BY <1>2, SessionAssumption
  <2> QED
    BY <2>1, <2>2, <2>3
<1> QED
  BY <1>1, <1>2

(* Locks and claims hold at the start. *)
LEMMA ShapeInit == Init => Shape
BY SessionAssumption
   DEF Init, Shape, Claims, Closes, Starts, Served, Closing, Tasks

(* Every step keeps the locks and the claims. *)
LEMMA ShapeStep ==
  ASSUME TypeOK, TypeOK', Shape, [Next]_vars
  PROVE  Shape'
<1> USE DEF session, locks, receipts, claim, turn, cli, Goto, Decide, Tasks,
            Served, Closing, Shape, Claims, Closes, Starts
<1>1. ASSUME NEW t \in Turns, Call(t)
      PROVE  Shape'
  BY <1>1, SessionAssumption DEF Call, TypeOK
<1>2. ASSUME NEW t \in Turns, Await(t) \/ Deadline(t)
      PROVE  Shape'
  BY <1>2, SessionAssumption DEF Await, Deadline, Retire, TypeOK
<1>3. ASSUME NEW c \in Ctls, CtlCall(c)
      PROVE  Shape'
  BY <1>3, SessionAssumption DEF CtlCall, TypeOK
<1>4. CASE Expire
  BY <1>4 DEF Expire, TypeOK
<1>5. ASSUME NEW k \in Kinds, Emit(k)
      PROVE  Shape'
  BY <1>5 DEF Emit
<1>6. CASE EndStream \/ PreCompact
  BY <1>6 DEF EndStream, PreCompact, TypeOK
<1>7. CASE UNCHANGED vars
  BY <1>7 DEF vars
<1> QED
  BY <1>1, <1>2, <1>3, <1>4, <1>5, <1>6, <1>7, BeginShape, RecvShape,
     TeardownShape, TaskCancelShape, ReaderShape
     DEF Next, Environment

-----------------------------------------------------------------------------
(* What is in the pipe and in the inbox.                                   *)

(* A queue after put_nowait(): what it held, and then the new item. *)
LEMMA AppendItems ==
  ASSUME NEW S, NEW q \in Seq(S), NEW m \in S
  PROVE  /\ Append(q, m) \in Seq(S)
         /\ Len(Append(q, m)) = Len(q) + 1
         /\ \A i \in DOMAIN q : i \in DOMAIN Append(q, m) /\ i < Len(q) + 1
         /\ \A i \in DOMAIN Append(q, m) :
              \/ i \in DOMAIN q /\ Append(q, m)[i] = q[i]
              \/ i = Len(q) + 1 /\ Append(q, m)[i] = m
OBVIOUS

(* A queue after get_nowait(): what it held, without the first item. *)
LEMMA TailItems ==
  ASSUME NEW S, NEW q \in Seq(S), q # <<>>
  PROVE  /\ Tail(q) \in Seq(S)
         /\ 1 \in DOMAIN q /\ Head(q) = q[1]
         /\ \A i \in DOMAIN Tail(q) :
              i + 1 \in DOMAIN q /\ i \in Nat \ {0} /\ Tail(q)[i] = q[i + 1]
         /\ \A i \in DOMAIN q : i # 1 => i - 1 \in DOMAIN Tail(q)
OBVIOUS

Ends == {"ENDED", "FAILED"}
Violations == {"NATIVE", "POST"}

(* The pipe holds what the CLI wrote; CANCELLED comes from cancel() or     *)
(* close(); the end of the stream is the last word of the reader.          *)
Marks ==
  /\ \A i \in DOMAIN pipe : pipe[i].kind \in AllKinds
  /\ \A i \in DOMAIN inbox :
       inbox[i].kind = "CANCELLED" => closed \/ cancelRequested
  /\ \A i \in DOMAIN inbox : inbox[i].kind \in Ends => reader = "done"
  /\ \A i, j \in DOMAIN inbox :
       i < j /\ inbox[i].kind \in Ends => inbox[j].kind \notin Violations

(* No end of the stream is a message of the CLI or another marker. *)
LEMMA KindsApart ==
  /\ Ends \cap AllKinds = {}
  /\ Violations \cap AllKinds = {}
  /\ Results \subseteq AllKinds
  /\ Ends \cap Violations = {}
  /\ "CANCELLED" \notin AllKinds \cup Ends \cup Violations
  /\ "WATCHDOG" \notin AllKinds \cup Ends \cup Violations \cup {"CANCELLED"}
BY DEF Ends, Violations, AllKinds, Evidence, Results

(* A step that leaves the inbox alone, or empties it. *)
LEMMA SameMarks ==
  ASSUME Marks, inbox' = inbox \/ inbox' = <<>>, UNCHANGED pipe,
         closed \/ cancelRequested => closed' \/ cancelRequested',
         reader = "done" => reader' = "done"
  PROVE  Marks'
<1>1. CASE inbox' = inbox
  BY <1>1 DEF Marks
<1>2. CASE inbox' = <<>>
  BY <1>2 DEF Marks
<1> QED
  BY <1>1, <1>2

(* Taking the first item of the inbox. *)
LEMMA TakenMarks ==
  ASSUME TypeOK, Marks, inbox # <<>>, inbox' = Tail(inbox),
         UNCHANGED <<pipe, session, reader>>
  PROVE  Marks'
<1>1. \A i \in DOMAIN inbox' :
        i + 1 \in DOMAIN inbox /\ i \in Nat /\ inbox'[i] = inbox[i + 1]
  BY TailItems DEF TypeOK
<1> QED
  BY <1>1 DEF Marks, session

(* put_nowait() on the active inbox. *)
LEMMA PutMarks ==
  ASSUME TypeOK, Marks, NEW m \in Messages,
         inbox' = inbox \/ inbox' = Append(inbox, m),
         \A i \in DOMAIN pipe' : pipe'[i].kind \in AllKinds,
         closed \/ cancelRequested => closed' \/ cancelRequested',
         reader = "done" => reader' = "done",
         m.kind = "CANCELLED" => closed' \/ cancelRequested',
         m.kind \in Ends => reader' = "done",
         m.kind \in Violations => reader # "done"
  PROVE  Marks'
<1>1. CASE inbox' = inbox
  BY <1>1 DEF Marks
<1>2. CASE inbox' = Append(inbox, m)
  <2>1. \A i \in DOMAIN inbox' :
          \/ i \in DOMAIN inbox /\ inbox'[i] = inbox[i]
          \/ i = Len(inbox) + 1 /\ inbox'[i] = m
    BY <1>2, AppendItems DEF TypeOK
  <2>2. \A i \in DOMAIN inbox : i < Len(inbox) + 1
    BY DEF TypeOK
  <2>3. \A i, j \in DOMAIN inbox' :
          i < j /\ inbox'[i].kind \in Ends => inbox'[j].kind \notin Violations
    <3> SUFFICES ASSUME NEW i \in DOMAIN inbox', NEW j \in DOMAIN inbox',
                        i < j, inbox'[i].kind \in Ends
                 PROVE  inbox'[j].kind \notin Violations
      OBVIOUS
    <3>1. i \in DOMAIN inbox /\ inbox'[i] = inbox[i]
      BY <2>1, <2>2, <1>2 DEF TypeOK
    <3>2. reader = "done"
      BY <3>1 DEF Marks
    <3>3. QED
      BY <2>1, <3>1, <3>2 DEF Marks
  <2>4. QED
    BY <2>1, <2>3 DEF Marks
<1> QED
  BY <1>1, <1>2

(* Marks: a turn, up to the prompt. *)
LEMMA BeginMarks ==
  ASSUME TypeOK, Shape, Marks, NEW t \in Turns, Begin(t)
  PROVE  Marks'
<1> USE DEF session, receipts, claim, cli, ClaimInbox, ClaimAndBind
<1>1. ASSUME AfterStart(t)
      PROVE  inbox' = inbox \/ inbox' = <<>>
  BY <1>1
     DEF AfterStart, LeaveCancelled, BindRaises, SendPrompt, ClientGone
<1>2. CASE AlreadyStarted(t)
  BY <1>1, <1>2, SameMarks DEF AlreadyStarted
<1>3. CASE Connected(t)
  <2>1. reader # "done"
    BY <1>3 DEF Connected, Shape, Starts
  <2>2. QED
    BY <1>1, <1>3, <2>1, SameMarks DEF Connected
<1>4. CASE ~AlreadyStarted(t) /\ ~Connected(t)
  BY <1>4, SameMarks
     DEF Begin, RefuseClosed, RefuseTainted, Connect, StartRaises,
         ConnectFails, QuerySent, QueryFails
<1> QED
  BY <1>2, <1>3, <1>4

(* Marks: a turn in its message loop. *)
LEMMA RecvMarks ==
  ASSUME TypeOK, Marks, NEW t \in Turns, Recv(t)
  PROVE  Marks'
<1> USE DEF session, receipts, claim, cli
<1>1. ASSUME NEW o, Finish(t, o)
      PROVE  inbox' = inbox \/ inbox' = <<>>
  BY <1>1 DEF Finish
<1>2. CASE RecvCancelled(t)
  BY <1>1, <1>2, SameMarks DEF RecvCancelled
<1>3. CASE RecvEnded(t)
  BY <1>1, <1>3, SameMarks DEF RecvEnded
<1>4. CASE DrainViolation(t)
  BY <1>4, SameMarks DEF DrainViolation
<1>5. CASE Drain(t)
  BY <1>1, <1>5, SameMarks DEF Drain
<1>6. CASE \/ RecvViolation(t) \/ RecvMetered(t) \/ RecvMessage(t)
           \/ RecvRaises(t) \/ RecvResult(t) \/ RecvUnbilled(t)
  BY <1>6, TakenMarks
     DEF RecvViolation, RecvMetered, RecvMessage, RecvRaises, RecvResult,
         RecvUnbilled, Takes
<1> QED
  BY <1>2, <1>3, <1>4, <1>5, <1>6 DEF Recv

(* Marks: cancel() and close(). *)
LEMMA TeardownMarks ==
  ASSUME TypeOK, Shape, Marks, NEW p \in Tasks, Teardown(p)
  PROVE  Marks'
<1> USE DEF session, receipts, claim, cli
<1>1. ASSUME Return(p)
      PROVE  inbox' = inbox \/ inbox' = <<>>
  BY <1>1 DEF Return, Finish
<1>2. CASE CancelClosed(p) \/ CloseAgain(p) \/ Reap(p)
  BY <1>1, <1>2, SameMarks DEF CancelClosed, CloseAgain, Reap
<1>3. CASE Interrupted(p) \/ Disconnected(p)
  BY <1>3, SameMarks DEF Interrupted, Disconnected, ReaderAfterClose
<1>4. ASSUME inbox' = inbox \/ inbox' = Delivered(Marker("CANCELLED")),
             closed' \/ cancelRequested', UNCHANGED <<pipe, reader>>
      PROVE  Marks'
  <2>1. Marker("CANCELLED") \in Messages
    BY MarkerTyped DEF Markers
  <2>2. Marker("CANCELLED").kind = "CANCELLED"
    BY DEF Marker
  <2>3. inbox' = inbox \/ inbox' = Append(inbox, Marker("CANCELLED"))
    BY <1>4 DEF Delivered
  <2>4. \A i \in DOMAIN pipe' : pipe'[i].kind \in AllKinds
    BY <1>4 DEF Marks
  <2>5. QED
    BY <1>4, <2>1, <2>2, <2>3, <2>4, PutMarks, KindsApart
<1>5. CASE Cancel(p)
  BY <1>4, <1>5 DEF Cancel
<1>6. CASE CloseBegin(p)
  BY <1>4, <1>6 DEF CloseBegin, Signal
<1>7. CASE CloseSignal(p)
  <2>1. closed
    BY <1>7 DEF CloseSignal, Shape, Closes, Closing
  <2>2. QED
    BY <1>4, <1>7, <2>1 DEF CloseSignal, Signal
<1> QED
  BY <1>2, <1>3, <1>5, <1>6, <1>7 DEF Teardown

(* Marks: the reader. *)
LEMMA ReaderMarks ==
  ASSUME TypeOK, Marks, Reader
  PROVE  Marks'
<1> USE DEF session, receipts, claim, cli
<1>1. CASE ReaderStart
  BY <1>1, SameMarks DEF ReaderStart
<1>2. ASSUME NEW k \in Ends, ReaderStops(k)
      PROVE  Marks'
  <2>1. Marker(k) \in Messages /\ Marker(k).kind = k
    BY MarkerTyped DEF Markers, Ends, Marker
  <2>2. inbox' = inbox \/ inbox' = Append(inbox, Marker(k))
    BY <1>2 DEF ReaderStops, Delivered
  <2>3. UNCHANGED <<pipe, session>> /\ reader' = "done"
    BY <1>2 DEF ReaderStops
  <2>4. \A i \in DOMAIN pipe' : pipe'[i].kind \in AllKinds
    BY <2>3 DEF Marks
  <2>5. QED
    BY <2>1, <2>2, <2>3, <2>4, PutMarks, KindsApart
<1>3. CASE ReaderStartFails \/ ReaderEnd \/ ReaderCancelled
  BY <1>2, <1>3 DEF ReaderStartFails, ReaderEnd, ReaderCancelled, Ends
<1>4. ASSUME NEW m \in Messages, Reads(m)
      PROVE  /\ reader # "done" /\ UNCHANGED <<session, reader>>
             /\ m.kind \in AllKinds
             /\ \A i \in DOMAIN pipe' : pipe'[i].kind \in AllKinds
  <2>1. /\ 1 \in DOMAIN pipe /\ m = pipe[1]
        /\ \A i \in DOMAIN pipe' :
             i + 1 \in DOMAIN pipe /\ pipe'[i] = pipe[i + 1]
    BY <1>4, TailItems DEF Reads, TypeOK
  <2>2. QED
    BY <1>4, <2>1 DEF Reads, Marks
<1>5. ASSUME NEW m \in Messages, Reads(m), NEW k \in Violations,
             inbox' = inbox \/ inbox' = Append(inbox, Marker(k))
      PROVE  Marks'
  <2>1. Marker(k) \in Messages /\ Marker(k).kind = k
    BY MarkerTyped DEF Markers, Violations, Marker
  <2>2. QED
    BY <1>4, <1>5, <2>1, PutMarks, KindsApart
<1>6. CASE ReadNative
  BY <1>5, <1>6 DEF ReadNative, Delivered, Violations
<1>7. CASE ReadIdle
  BY <1>5, <1>7 DEF ReadIdle, Violations
<1>8. CASE ReadPostTerminal
  BY <1>5, <1>8 DEF ReadPostTerminal, Violations
<1>9. CASE ReadMessage
  <2>1. PICK m \in Messages : Reads(m) /\ inbox' = Append(inbox, m)
    BY <1>9 DEF ReadMessage
  <2>2. QED
    BY <1>4, <2>1, PutMarks, KindsApart
<1> QED
  BY <1>1, <1>3, <1>6, <1>7, <1>8, <1>9 DEF Reader

(* No marks at the start. *)
LEMMA MarksInit == Init => Marks
BY DEF Init, Marks

(* Every step keeps the marks. *)
LEMMA MarksStep ==
  ASSUME TypeOK, Shape, Marks, [Next]_vars
  PROVE  Marks'
<1> USE DEF session, receipts, claim, cli
<1>1. ASSUME NEW t \in Turns, Call(t) \/ Await(t) \/ Deadline(t)
      PROVE  Marks'
  BY <1>1, SameMarks DEF Call, Await, Deadline
<1>2. ASSUME NEW c \in Ctls, CtlCall(c)
      PROVE  Marks'
  BY <1>2, SameMarks DEF CtlCall
<1>3. ASSUME NEW p \in Tasks, TaskCancel(p)
      PROVE  Marks'
  BY <1>3, SameMarks DEF TaskCancel, Finish
<1>4. CASE Expire
  <2>1. Marker("WATCHDOG") \in Messages /\ Marker("WATCHDOG").kind = "WATCHDOG"
    BY MarkerTyped DEF Markers, Marker
  <2>2. inbox' = inbox \/ inbox' = Append(inbox, Marker("WATCHDOG"))
    BY <1>4 DEF Expire, Delivered
  <2>3. UNCHANGED <<pipe, session, reader>>
    BY <1>4 DEF Expire
  <2>4. \A i \in DOMAIN pipe' : pipe'[i].kind \in AllKinds
    BY <2>3 DEF Marks
  <2>5. QED
    BY <2>1, <2>2, <2>3, <2>4, PutMarks, KindsApart
<1>5. ASSUME NEW k \in Kinds, Emit(k)
      PROVE  Marks'
  <2>1. \A i \in DOMAIN pipe' :
          \/ i \in DOMAIN pipe /\ pipe'[i] = pipe[i]
          \/ pipe'[i] = Message(k)
    BY <1>5, AppendItems, MessageTyped DEF Emit, TypeOK
  <2>2. Message(k).kind \in AllKinds
    BY SessionAssumption DEF Message
  <2>3. QED
    BY <1>5, <2>1, <2>2 DEF Emit, Marks
<1>6. CASE EndStream \/ PreCompact \/ UNCHANGED vars
  BY <1>6, SameMarks DEF EndStream, PreCompact, vars
<1> QED
  BY <1>1, <1>2, <1>3, <1>4, <1>5, <1>6, BeginMarks, RecvMarks,
     TeardownMarks, ReaderMarks
     DEF Next, Environment

-----------------------------------------------------------------------------
(* The answers of the CLI.                                                 *)

(* A message that is no part of an answer that is still due. *)
Clean(m) == m.turn = NoTurn \/ m.late

(* The CLI owes no answer, and nothing of one is in the pipe. *)
Quiet ==
  /\ asked = NoTurn \/ answered
  /\ \A i \in DOMAIN pipe : Clean(pipe[i])

(* The reader may still read. *)
Live == reader \in {"starting", "running"}

(* Who may have an answer that is due: the turn that asked, while it holds *)
(* the lock and the inbox, or nobody else once the session is on its way   *)
(* to be closed.                                                           *)
Held ==
  \/ owner = asked /\ turnLock = asked
  \/ (closed \/ cancelRequested) /\ owner \in {NoTurn, asked}

(* In the pipe an answer is of the turn that asked last, and its result is *)
(* the end of it.                                                          *)
Written ==
  Live =>
    /\ \A i \in DOMAIN pipe : Clean(pipe[i]) \/ pipe[i].turn = asked
    /\ \A i \in DOMAIN pipe : pipe[i].kind \in Results =>
         /\ answered /\ ~Clean(pipe[i])
         /\ \A j \in DOMAIN pipe : i < j => pipe[j].late

(* What the inbox holds of an answer is of its owner's.                    *)
AtTheirTurn ==
  \A i \in DOMAIN inbox :
    inbox[i].turn # NoTurn /\ ~inbox[i].late => inbox[i].turn = owner

Answers ==
  /\ Written
  /\ \A i \in DOMAIN inbox : inbox[i].kind \in Results => Quiet
  /\ \A t \in Turns : pc[t] = "drain" => Quiet
  /\ Live /\ ~Quiet => Held
  /\ AtTheirTurn

(* An answer is due to a turn. *)
LEMMA DueToATurn ==
  ASSUME Written, Live, ~Quiet
  PROVE  asked # NoTurn
BY DEF Written, Quiet, Clean

(* The locks, the inbox and the tasks move; the CLI and the pipe do not. *)
LEMMA AnswersKept ==
  ASSUME TypeOK, Answers, UNCHANGED <<asked, answered, pipe>>, Live' => Live,
         owner' = owner \/ inbox' = <<>>,
         \A i \in DOMAIN inbox' :
           \/ \E j \in DOMAIN inbox : inbox'[i] = inbox[j]
           \/ inbox'[i].turn = NoTurn /\ inbox'[i].kind \notin Results,
         \A t \in Turns : pc'[t] = "drain" => pc[t] = "drain" \/ Quiet,
         Live /\ ~Quiet /\ asked # NoTurn /\ Held => Held'
  PROVE  Answers'
<1>1. Quiet' <=> Quiet
  BY DEF Quiet
<1>2. Written'
  BY DEF Answers, Written
<1>3. \A i \in DOMAIN inbox' : inbox'[i].kind \in Results => Quiet'
  BY <1>1 DEF Answers
<1>4. \A t \in Turns : pc'[t] = "drain" => Quiet'
  BY <1>1 DEF Answers
<1>5. Live' /\ ~Quiet' => Held'
  BY <1>1, DueToATurn DEF Answers
<1>6. AtTheirTurn'
  <2>1. CASE owner' = owner
    BY <2>1 DEF Answers, AtTheirTurn
  <2>2. CASE inbox' = <<>>
    BY <2>2 DEF AtTheirTurn
  <2> QED
    BY <2>1, <2>2
<1> QED
  BY <1>2, <1>3, <1>4, <1>5, <1>6 DEF Answers

(* The inbox of a step that takes its first item, empties it or adds a     *)
(* marker.                                                                 *)
LEMMA InboxItems ==
  ASSUME TypeOK,
         \/ inbox' = inbox \/ inbox' = <<>>
         \/ inbox # <<>> /\ inbox' = Tail(inbox)
         \/ \E k \in Markers : inbox' = Append(inbox, Marker(k))
  PROVE  \A i \in DOMAIN inbox' :
           \/ \E j \in DOMAIN inbox : inbox'[i] = inbox[j]
           \/ inbox'[i].turn = NoTurn /\ inbox'[i].kind \notin Results
<1>1. CASE inbox' = inbox \/ inbox' = <<>>
  BY <1>1
<1>2. CASE inbox # <<>> /\ inbox' = Tail(inbox)
  BY <1>2, TailItems DEF TypeOK
<1>3. ASSUME NEW k \in Markers, inbox' = Append(inbox, Marker(k))
      PROVE  \A i \in DOMAIN inbox' :
               \/ \E j \in DOMAIN inbox : inbox'[i] = inbox[j]
               \/ inbox'[i].turn = NoTurn /\ inbox'[i].kind \notin Results
  <2>1. Marker(k).turn = NoTurn /\ Marker(k).kind \notin Results
    BY DEF Marker, Markers, Results
  <2>2. QED
    BY <1>3, <2>1, AppendItems, MarkerTyped DEF TypeOK
<1> QED
  BY <1>1, <1>2, <1>3

(* A step of a task that leaves the locks, the claim and the CLI alone. *)
LEMMA AnswersSame ==
  ASSUME TypeOK, Answers, UNCHANGED <<asked, answered, pipe>>, Live' => Live,
         UNCHANGED <<owner, turnLock>>,
         closed \/ cancelRequested => closed' \/ cancelRequested',
         \/ inbox' = inbox \/ inbox' = <<>>
         \/ inbox # <<>> /\ inbox' = Tail(inbox)
         \/ \E k \in Markers : inbox' = Append(inbox, Marker(k)),
         \A t \in Turns : pc'[t] = "drain" => pc[t] = "drain" \/ Quiet
  PROVE  Answers'
BY AnswersKept, InboxItems DEF Held

(* A step that takes or releases the turn lock, or retires the inbox, of a *)
(* session that is quiet, on its way to be closed, or whose lock is free.  *)
LEMMA AnswersReleased ==
  ASSUME TypeOK, Answers, UNCHANGED <<asked, answered, pipe>>, Live' => Live,
         closed \/ cancelRequested => closed' \/ cancelRequested',
         \/ UNCHANGED <<owner, inbox>>
         \/ inbox' = <<>> /\ owner' = NoTurn
         \/ inbox' = <<>> /\ turnLock = NoTurn /\ ~closed /\ ~cancelRequested,
         \/ closed \/ cancelRequested \/ ~Live \/ Quiet \/ turnLock = NoTurn
         \/ owner # turnLock,
         \A t \in Turns : pc'[t] = "drain" => pc[t] = "drain" \/ Quiet
  PROVE  Answers'
<1>1. \A i \in DOMAIN inbox' :
        \/ \E j \in DOMAIN inbox : inbox'[i] = inbox[j]
        \/ inbox'[i].turn = NoTurn /\ inbox'[i].kind \notin Results
  BY InboxItems
<1>2. owner' = owner \/ inbox' = <<>>
  OBVIOUS
<1>3. Live /\ ~Quiet /\ asked # NoTurn /\ Held => Held'
  BY DEF Held
<1> QED
  BY <1>1, <1>2, <1>3, AnswersKept

(* A prompt is sent when no answer is due, so that the next one is its own. *)
LEMMA PromptAnswers ==
  ASSUME TypeOK, Shape, Answers, NEW t \in Turns, SendPrompt(t),
         UNCHANGED pipe, pc[t] # "drain",
         turnLock \in {NoTurn, t},
         pipe = <<>> \/ (Live' => Live /\ Quiet)
  PROVE  Answers'
<1> USE DEF SendPrompt, ClaimAndBind, ClaimInbox
<1>1. inbox' = <<>> /\ owner' = t /\ turnLock' = t /\ asked' = t
  OBVIOUS
<1>2. Written'
  BY DEF Answers, Written, Quiet, Clean
<1>3. \A u \in Turns : pc'[u] # "drain"
  BY SessionAssumption DEF Goto, TypeOK, Shape, Claims, Served, Tasks
<1> QED
  BY <1>1, <1>2, <1>3 DEF Answers, Held, AtTheirTurn

(* Answers: a turn, up to the prompt. *)
LEMMA BeginAnswers ==
  ASSUME TypeOK, Shape, Answers, NEW t \in Turns, Begin(t)
  PROVE  Answers'
<1> USE DEF session, locks, receipts, claim, cli, Goto, Decide, Release,
            Retire, Acquire, Usable
<1>1. ASSUME pc[t] # "drain", pc' = [pc EXCEPT ![t] = "query"]
      PROVE  \A u \in Turns : pc'[u] = "drain" => pc[u] = "drain"
  BY <1>1 DEF TypeOK, Tasks
<1>2. CASE AlreadyStarted(t)
  <2>1. /\ turnLock = NoTurn /\ ~closed /\ pc[t] = "lock"
        /\ UNCHANGED <<session, pipe, reader>>
    BY <1>2 DEF AlreadyStarted
  <2>2. CASE LeaveCancelled(t)
    <3>1. UNCHANGED <<owner, inbox, asked, answered, turnLock>>
      BY <2>1, <2>2 DEF LeaveCancelled
    <3>2. \A u \in Turns : pc'[u] = "drain" => pc[u] = "drain"
      BY <2>2 DEF LeaveCancelled, TypeOK, Tasks
    <3> QED
      BY <2>1, <3>1, <3>2, AnswersSame DEF Live
  <2>3. CASE BindRaises(t) \/ ClientGone(t)
    <3>1. /\ inbox' = <<>> /\ ~cancelRequested
          /\ UNCHANGED <<asked, answered>>
      BY <2>3 DEF BindRaises, ClientGone, ClaimAndBind, ClaimInbox
    <3>2. \A u \in Turns : pc'[u] = "drain" => pc[u] = "drain"
      BY <2>3 DEF BindRaises, ClientGone, TypeOK, Tasks
    <3> QED
      BY <2>1, <3>1, <3>2, AnswersReleased DEF Live
  <2>4. CASE SendPrompt(t)
    <3>1. Live => Quiet
      BY <2>1, <2>4, DueToATurn
         DEF SendPrompt, ClaimAndBind, Answers, Held
    <3> QED
      BY <2>1, <2>4, <3>1, PromptAnswers DEF Live
  <2> QED
    BY <1>2, <2>2, <2>3, <2>4 DEF AlreadyStarted, AfterStart
<1>3. CASE Connected(t)
  <2>1. /\ pipe = <<>> /\ asked = NoTurn /\ turnLock = t
        /\ pc[t] = "connect" /\ UNCHANGED pipe
    BY <1>3 DEF Connected, Shape, Claims, Starts
  <2>2. CASE SendPrompt(t)
    BY <2>1, <2>2, PromptAnswers
  <2>3. CASE LeaveCancelled(t) \/ BindRaises(t) \/ ClientGone(t)
    <3>1. UNCHANGED <<asked, answered>>
      BY <2>3 DEF LeaveCancelled, BindRaises, ClientGone
    <3>2. Quiet' /\ Written'
      BY <2>1, <3>1 DEF Quiet, Written
    <3>3. UNCHANGED <<owner, inbox>> \/ inbox' = <<>>
      BY <2>3 DEF LeaveCancelled, BindRaises, ClientGone, ClaimAndBind,
                  ClaimInbox
    <3>4. AtTheirTurn'
      BY <3>3 DEF Answers, AtTheirTurn
    <3> QED
      BY <3>2, <3>4 DEF Answers
  <2> QED
    BY <1>3, <2>2, <2>3 DEF Connected, AfterStart
<1>4. CASE RefuseClosed(t) \/ RefuseTainted(t) \/ Connect(t)
           \/ StartRaises(t)
  <2>1. /\ UNCHANGED <<asked, answered, pipe, reader, owner, inbox>>
        /\ turnLock = NoTurn /\ UNCHANGED <<closed, cancelRequested>>
    BY <1>4 DEF RefuseClosed, RefuseTainted, Connect, StartRaises
  <2>2. \A u \in Turns : pc'[u] = "drain" => pc[u] = "drain"
    BY <1>4 DEF RefuseClosed, RefuseTainted, Connect, StartRaises, TypeOK,
                Tasks
  <2> QED
    BY <2>1, <2>2, AnswersReleased DEF Live
<1>5. CASE ConnectFails(t) \/ QuerySent(t) \/ QueryFails(t)
  <2>1. UNCHANGED <<asked, answered, pipe, reader, owner, inbox, turnLock,
                    closed, cancelRequested>>
    BY <1>5 DEF ConnectFails, QuerySent, QueryFails
  <2>2. \A u \in Turns : pc'[u] = "drain" => pc[u] = "drain"
    BY <1>5 DEF ConnectFails, QuerySent, QueryFails, TypeOK, Tasks
  <2> QED
    BY <2>1, <2>2, AnswersSame DEF Live
<1> QED
  BY <1>2, <1>3, <1>4, <1>5 DEF Begin

(* Answers: a turn in its message loop. *)
LEMMA RecvAnswers ==
  ASSUME TypeOK, Shape, Marks, Answers, NEW t \in Turns, Recv(t)
  PROVE  Answers'
<1> USE DEF session, locks, receipts, claim, cli, Goto, Decide
<1>1. ASSUME NEW o, Finish(t, o),
             UNCHANGED <<session, asked, answered, pipe, reader>>,
             closed \/ cancelRequested \/ ~Live \/ Quiet
      PROVE  Answers'
  <2>1. UNCHANGED <<owner, inbox>> \/ (inbox' = <<>> /\ owner' = NoTurn)
    BY <1>1 DEF Finish
  <2>2. \A u \in Turns : pc'[u] = "drain" => pc[u] = "drain"
    BY <1>1 DEF Finish, Release, TypeOK, Tasks
  <2> QED
    BY <1>1, <2>1, <2>2, AnswersReleased DEF Live
<1>2. ASSUME Takes(t, Head(inbox).kind)
      PROVE  1 \in DOMAIN inbox /\ Head(inbox) = inbox[1]
  BY <1>2, TailItems DEF Takes, TypeOK
<1>3. CASE RecvCancelled(t)
  <2>1. closed \/ cancelRequested
    BY <1>2, <1>3 DEF RecvCancelled, Takes, Marks
  <2> QED
    BY <1>1, <1>3, <2>1 DEF RecvCancelled
<1>4. CASE RecvEnded(t)
  <2>1. ~Live
    BY <1>2, <1>4 DEF RecvEnded, Takes, Marks, Ends, Live
  <2> QED
    BY <1>1, <1>4, <2>1 DEF RecvEnded
<1>5. CASE Drain(t)
  <2>1. Quiet
    BY <1>5 DEF Drain, Answers
  <2> QED
    BY <1>1, <1>5, <2>1 DEF Drain
<1>6. CASE \/ RecvViolation(t) \/ RecvMetered(t) \/ RecvMessage(t)
           \/ RecvRaises(t) \/ RecvUnbilled(t) \/ DrainViolation(t)
  <2>1. /\ UNCHANGED <<asked, answered, pipe, reader, owner, turnLock,
                       closed, cancelRequested>>
        /\ inbox' = <<>> \/ (inbox # <<>> /\ inbox' = Tail(inbox))
    BY <1>6 DEF RecvViolation, RecvMetered, RecvMessage, RecvRaises,
                RecvUnbilled, DrainViolation, Takes
  <2>2. \A u \in Turns : pc'[u] = "drain" => pc[u] = "drain"
    BY <1>6 DEF RecvViolation, RecvMetered, RecvMessage, RecvRaises,
                RecvUnbilled, DrainViolation, Retire, TypeOK, Tasks
  <2> QED
    BY <2>1, <2>2, AnswersSame DEF Live
<1>7. CASE RecvResult(t)
  <2>1. /\ UNCHANGED <<asked, answered, pipe, reader, owner, turnLock,
                       closed, cancelRequested>>
        /\ inbox # <<>> /\ inbox' = Tail(inbox)
    BY <1>7 DEF RecvResult, Takes
  <2>2. Quiet
    BY <1>2, <1>7 DEF RecvResult, Takes, Answers
  <2> QED
    BY <2>1, <2>2, AnswersSame DEF Live
<1> QED
  BY <1>3, <1>4, <1>5, <1>6, <1>7 DEF Recv

(* Answers: cancel() and close(). *)
LEMMA TeardownAnswers ==
  ASSUME TypeOK, Shape, Answers, NEW p \in Tasks, Teardown(p)
  PROVE  Answers'
<1> USE DEF session, locks, receipts, claim, cli, Goto
<1>1. CASE CancelClosed(p) \/ CloseAgain(p) \/ Reap(p)
  <2>1. closed /\ Return(p)
        /\ UNCHANGED <<session, asked, answered, pipe, reader>>
    BY <1>1 DEF CancelClosed, CloseAgain, Reap, Shape, Closes, Closing
  <2>2. UNCHANGED <<owner, inbox>> \/ (inbox' = <<>> /\ owner' = NoTurn)
    BY <2>1 DEF Return, Finish
  <2>3. \A u \in Turns : pc'[u] = "drain" => pc[u] = "drain"
    BY <2>1 DEF Return, Finish, Release, TypeOK, Tasks
  <2> QED
    BY <2>1, <2>2, <2>3, AnswersReleased DEF Live
<1>2. CASE \/ Cancel(p) \/ Interrupted(p) \/ CloseBegin(p)
           \/ CloseSignal(p) \/ Disconnected(p)
  <2>1. /\ UNCHANGED <<asked, answered, pipe, owner, turnLock>>
        /\ closed \/ cancelRequested => closed' \/ cancelRequested'
        /\ Live' => Live
    BY <1>2 DEF Cancel, Interrupted, CloseBegin, CloseSignal, Disconnected,
                Signal, ReaderAfterClose, Live
  <2>2. inbox' = inbox \/ \E k \in Markers : inbox' = Append(inbox, Marker(k))
    BY <1>2 DEF Cancel, Interrupted, CloseBegin, CloseSignal, Disconnected,
                Signal, Delivered, Markers
  <2>3. \A u \in Turns : pc'[u] = "drain" => pc[u] = "drain"
    BY <1>2 DEF Cancel, Interrupted, CloseBegin, CloseSignal, Disconnected,
                Signal, TypeOK, Tasks
  <2> QED
    BY <2>1, <2>2, <2>3, AnswersSame
<1> QED
  BY <1>1, <1>2 DEF Teardown

(* Answers: the reader.  A message of an answer goes to the turn that      *)
(* asked, and when its result is read the CLI owes nothing.                *)
LEMMA ReaderAnswers ==
  ASSUME TypeOK, Shape, Marks, Answers, Reader
  PROVE  Answers'
<1> USE DEF session, locks, receipts, claim, turn, cli
<1>1. CASE ReaderStart \/ ReaderStartFails \/ ReaderEnd \/ ReaderCancelled
  <2>1. /\ UNCHANGED <<asked, answered, pipe, owner, turnLock, closed,
                       cancelRequested, pc>>
        /\ Live' => Live
    BY <1>1 DEF ReaderStart, ReaderStartFails, ReaderEnd, ReaderCancelled,
                ReaderStops, Live
  <2>2. inbox' = inbox \/ \E k \in Markers : inbox' = Append(inbox, Marker(k))
    BY <1>1 DEF ReaderStart, ReaderStartFails, ReaderEnd, ReaderCancelled,
                ReaderStops, Delivered, Markers
  <2> QED
    BY <2>1, <2>2, AnswersSame
<1>2. ASSUME NEW m \in Messages, Reads(m),
             \A i \in DOMAIN inbox' :
               \/ \E j \in DOMAIN inbox : inbox'[i] = inbox[j]
               \/ inbox'[i].turn = NoTurn /\ inbox'[i].kind \notin Results
               \/ inbox'[i] = m /\ owner # NoTurn
      PROVE  Answers'
  <2>1. /\ Live /\ Live'
        /\ UNCHANGED <<asked, answered, owner, turnLock, closed,
                       cancelRequested, pc>>
    BY <1>2 DEF Reads, Live
  <2>2. /\ 1 \in DOMAIN pipe /\ m = pipe[1]
        /\ \A i \in DOMAIN pipe' :
             i + 1 \in DOMAIN pipe /\ i \in Nat \ {0} /\ pipe'[i] = pipe[i + 1]
    BY <1>2, TailItems DEF Reads, TypeOK
  <2>3. Quiet => Quiet'
    BY <2>1, <2>2 DEF Quiet, Clean
  <2>4. Written'
    <3>1. \A i \in DOMAIN pipe' : Clean(pipe'[i]) \/ pipe'[i].turn = asked
      BY <2>1, <2>2 DEF Answers, Written
    <3>2. ASSUME NEW i \in DOMAIN pipe', pipe'[i].kind \in Results
          PROVE  /\ answered /\ ~Clean(pipe'[i])
                 /\ \A j \in DOMAIN pipe' : i < j => pipe'[j].late
      BY <2>1, <2>2, <3>2 DEF Answers, Written
    <3> QED
      BY <2>1, <3>1, <3>2 DEF Written, Clean
  <2>5. m.kind \in Results => Quiet'
    <3> SUFFICES ASSUME m.kind \in Results PROVE Quiet'
      OBVIOUS
    <3>1. answered /\ \A j \in DOMAIN pipe : 1 < j => pipe[j].late
      BY <2>1, <2>2 DEF Answers, Written
    <3>2. \A i \in DOMAIN pipe' : pipe'[i].late
      BY <2>2, <3>1
    <3> QED
      BY <2>1, <3>1, <3>2 DEF Quiet, Clean
  <2>6. owner # NoTurn => Clean(m) \/ m.turn = owner
    BY <2>1, <2>2 DEF Answers, Written, Held, Quiet
  <2>7. AtTheirTurn'
    BY <1>2, <2>1, <2>6 DEF Answers, AtTheirTurn, Clean
  <2>8. Live' /\ ~Quiet' => Held'
    BY <2>1, <2>3 DEF Answers, Held
  <2>9. \A i \in DOMAIN inbox' : inbox'[i].kind \in Results => Quiet'
    BY <1>2, <2>3, <2>5 DEF Answers
  <2> QED
    BY <2>1, <2>3, <2>4, <2>7, <2>8, <2>9 DEF Answers
<1>3. CASE ReadNative \/ ReadIdle \/ ReadPostTerminal
  <2>1. PICK m \in Messages : Reads(m)
    BY <1>3 DEF ReadNative, ReadIdle, ReadPostTerminal
  <2>2. inbox' = inbox \/ \E k \in Markers : inbox' = Append(inbox, Marker(k))
    BY <1>3 DEF ReadNative, ReadIdle, ReadPostTerminal, Delivered, Markers
  <2> QED
    BY <1>2, <2>1, <2>2, InboxItems
<1>4. CASE ReadMessage
  <2>1. PICK m \in Messages : Reads(m) /\ inbox' = Append(inbox, m)
    BY <1>4 DEF ReadMessage
  <2>2. \A i \in DOMAIN inbox' :
          \/ i \in DOMAIN inbox /\ inbox'[i] = inbox[i]
          \/ inbox'[i] = m
    BY <2>1, AppendItems DEF TypeOK
  <2> QED
    BY <1>2, <1>4, <2>1, <2>2 DEF ReadMessage
<1> QED
  BY <1>1, <1>3, <1>4 DEF Reader

(* Answers: the CLI.  While it owes no answer, what it writes is no result *)
(* and no part of one.                                                     *)
LEMMA EmitAnswers ==
  ASSUME TypeOK, Answers, ResultsAreSolicited, NEW k \in Kinds, Emit(k)
  PROVE  Answers'
<1> USE DEF session, locks, receipts, claim, turn
<1>1. UNCHANGED <<asked, owner, inbox, turnLock, closed, cancelRequested, pc,
                  reader>>
  BY DEF Emit
<1>2. /\ \A i \in DOMAIN pipe' :
           \/ i \in DOMAIN pipe /\ pipe'[i] = pipe[i]
           \/ i = Len(pipe) + 1 /\ pipe'[i] = Message(k)
      /\ \A i \in DOMAIN pipe : i < Len(pipe) + 1
  BY AppendItems, MessageTyped DEF Emit, TypeOK
<1>3. /\ Message(k).kind = k /\ Message(k).turn = asked
      /\ Message(k).late = answered
  BY DEF Message
<1>4. k \in Results => asked # NoTurn /\ ~answered
  BY DEF Emit, ResultsAreSolicited
<1>5. answered' = (answered \/ k \in Results)
  BY DEF Emit
<1>6. Quiet => Quiet'
  BY <1>1, <1>2, <1>3, <1>5 DEF Quiet, Clean
<1>7. Written'
  <2> SUFFICES ASSUME Live' PROVE Written'
    BY DEF Written
  <2>1. \A i \in DOMAIN pipe' : Clean(pipe'[i]) \/ pipe'[i].turn = asked
    BY <1>1, <1>2, <1>3 DEF Answers, Written, Live
  <2>2. ASSUME NEW i \in DOMAIN pipe', pipe'[i].kind \in Results
        PROVE  /\ answered' /\ ~Clean(pipe'[i])
               /\ \A j \in DOMAIN pipe' : i < j => pipe'[j].late
    <3>1. CASE i \in DOMAIN pipe /\ pipe'[i] = pipe[i]
      BY <1>1, <1>2, <1>3, <1>5, <2>2, <3>1 DEF Answers, Written, Live
    <3>2. CASE i = Len(pipe) + 1 /\ pipe'[i] = Message(k)
      <4>1. k \in Results
        BY <1>3, <2>2, <3>2
      <4>2. \A j \in DOMAIN pipe' : ~(i < j)
        BY <1>2, <3>2 DEF TypeOK
      <4> QED
        BY <1>3, <1>4, <1>5, <3>2, <4>1, <4>2 DEF Clean
    <3> QED
      BY <1>2, <3>1, <3>2
  <2> QED
    BY <1>1, <2>1, <2>2 DEF Written, Clean
<1> QED
  BY <1>1, <1>6, <1>7 DEF Answers, Held, AtTheirTurn, Live

(* Nothing is due at the start. *)
LEMMA AnswersInit == Init => Answers
BY DEF Init, Answers, Written, Quiet, AtTheirTurn, Live, Tasks

(* Every step keeps the answers with the turns that asked for them, unless *)
(* it cuts a retirement short.                                             *)
LEMMA AnswersStep ==
  ASSUME TypeOK, TypeOK', Shape, Marks, Answers, ResultsAreSolicited,
         [Next]_vars, NoneCutShort'
  PROVE  Answers'
<1> USE DEF session, locks, receipts, claim, turn, cli, Goto, Decide
<1>1. ASSUME NEW t \in Turns, Call(t) \/ Await(t) \/ Deadline(t)
      PROVE  Answers'
  <2>1. UNCHANGED <<asked, answered, pipe, reader, owner, inbox, turnLock,
                    closed, cancelRequested>>
    BY <1>1 DEF Call, Await, Deadline
  <2>2. \A u \in Turns : pc'[u] = "drain" => pc[u] = "drain"
    BY <1>1 DEF Call, Await, Deadline, Retire, TypeOK, Tasks
  <2> QED
    BY <2>1, <2>2, AnswersSame DEF Live
<1>2. ASSUME NEW c \in Ctls, CtlCall(c)
      PROVE  Answers'
  <2>1. UNCHANGED <<asked, answered, pipe, reader, owner, inbox, turnLock,
                    closed, cancelRequested>>
    BY <1>2 DEF CtlCall
  <2>2. \A u \in Turns : pc'[u] = "drain" => pc[u] = "drain"
    BY <1>2 DEF CtlCall, TypeOK, Tasks
  <2> QED
    BY <2>1, <2>2, AnswersSame DEF Live
<1>3. ASSUME NEW p \in Tasks, TaskCancel(p)
      PROVE  Answers'
  <2>1. UNCHANGED <<asked, answered, pipe, reader, closed, cancelRequested>>
    BY <1>3 DEF TaskCancel
  <2>2. \A u \in Turns : pc'[u] = "drain" => pc[u] = "drain"
    BY <1>3 DEF TaskCancel, Finish, Release, TypeOK, Tasks
  <2>3. CASE Handling(p)
    <3>1. p \in Turns /\ inbox' = <<>> /\ owner' = NoTurn
      BY <1>3, <2>3, SessionAssumption
         DEF TaskCancel, Handling, Finish, TypeOK
    <3>2. closed
      BY <1>3, <2>3, <3>1
         DEF TaskCancel, Finish, Release, NoneCutShort, TypeOK
    <3> QED
      BY <2>1, <2>2, <3>1, <3>2, AnswersReleased DEF Live
  <2>4. CASE ~Handling(p)
    <3>1. UNCHANGED <<owner, inbox>>
      BY <1>3, <2>4 DEF TaskCancel
    <3>2. CASE UNCHANGED turnLock
      BY <2>1, <2>2, <3>1, <3>2, AnswersSame DEF Live
    <3>3. CASE owner # turnLock
      BY <2>1, <2>2, <3>1, <3>3, AnswersReleased DEF Live
    <3> QED
      BY <1>3, <2>4, <3>2, <3>3 DEF TaskCancel
  <2> QED
    BY <2>3, <2>4
<1>4. CASE Expire
  <2>1. UNCHANGED <<asked, answered, pipe, reader, owner, turnLock, closed,
                    cancelRequested, pc>>
    BY <1>4 DEF Expire
  <2>2. inbox' = inbox \/ \E k \in Markers : inbox' = Append(inbox, Marker(k))
    BY <1>4 DEF Expire, Delivered, Markers
  <2> QED
    BY <2>1, <2>2, AnswersSame DEF Live
<1>5. CASE EndStream \/ PreCompact \/ UNCHANGED vars
  <2>1. UNCHANGED <<asked, answered, pipe, reader, owner, inbox, turnLock,
                    closed, cancelRequested, pc>>
    BY <1>5 DEF EndStream, PreCompact, vars
  <2> QED
    BY <2>1, AnswersSame DEF Live
<1> QED
  BY <1>1, <1>2, <1>3, <1>4, <1>5, BeginAnswers, RecvAnswers,
     TeardownAnswers, ReaderAnswers, EmitAnswers
     DEF Next, Environment

-----------------------------------------------------------------------------
(* Retiring the client.                                                    *)

(* A violation waits in the inbox. *)
Caught == \E i \in DOMAIN inbox : inbox[i].kind \in Violations

(* The result waits in the inbox. *)
Answer == \E i \in DOMAIN inbox : inbox[i].kind \in Results

(* The session is on its way to be closed, and no prompt is sent any more. *)
Retired ==
  \/ closed \/ cancelRequested
  \/ turnLock # NoTurn /\ pc[turnLock] \in {"interrupt", "close"}

(* A violation is in a receipt or in the inbox until the client is         *)
(* retired; evidence that is unbilled is with the turn that saw it, unless *)
(* the stream has ended.                                                   *)
Reasons ==
  /\ "retired" \in dirty => Retired
  /\ "violation" \in dirty =>
       \/ Retired \/ postNative \/ postOutput
       \/ owner # NoTurn /\ Caught
  /\ "unbilled" \in dirty =>
       \/ Retired \/ reader = "done"
       \/ \E t \in Turns : pc[t] \in Served /\ evidence = "malformed"

(* What a served turn knows of them. *)
Knows ==
  \A t \in Turns : pc[t] \in Served =>
    /\ "violation" \in dirty => Caught
    /\ "unbilled" \in dirty =>
         \/ evidence = "malformed"
         \/ reader = "done" /\ ~Answer /\ pc[t] # "drain"
    /\ pc[t] = "drain" => evidence = "included"

(* Where turns are that no exception has ended. *)
Calm ==
  /\ \A t \in Turns : pc[t] # "cancel"
  /\ owner # NoTurn /\ ~closed => turnLock = owner
  /\ \A t \in Turns : outcome[t] = "complete" => pc[t] \in {"drain", "done"}

Retirement == NoTurnRaised => Calm /\ Reasons /\ Knows

(* A turn that raised is past run_turn(). *)
Raised ==
  \A t \in Turns : outcome[t] \in Exceptions =>
    pc[t] \notin Served \cup {"idle", "lock", "connect"}

(* No turn has raised at the start. *)
LEMMA RaisedInit == Init => Raised /\ NoTurnRaised
BY DEF Init, Raised, NoTurnRaised, Exceptions

(* A turn that raised does not run again. *)
LEMMA RaisedStep ==
  ASSUME TypeOK, Shape, Raised, [Next]_vars
  PROVE  /\ Raised'
         /\ NoTurnRaised' => NoTurnRaised
         /\ NoneCutShort' => NoneCutShort
<1> USE DEF session, locks, receipts, claim, turn, cli, Goto, Decide, Tasks,
            Served, Exceptions
<1>1. SUFFICES \A u \in Turns :
                 /\ outcome'[u] \in Exceptions =>
                      pc'[u] \notin Served \cup {"idle", "lock", "connect"}
                 /\ outcome[u] \in Exceptions => outcome'[u] = outcome[u]
  BY DEF Raised, NoTurnRaised, NoneCutShort
<1> TAKE u \in Turns
<1> DEFINE Kept == /\ outcome'[u] \in Exceptions =>
                        pc'[u] \notin Served \cup {"idle", "lock", "connect"}
                   /\ outcome[u] \in Exceptions => outcome'[u] = outcome[u]
<1>2. ASSUME NEW t \in Turns, Call(t) \/ Await(t) \/ Deadline(t)
      PROVE  Kept
  BY <1>2 DEF Call, Await, Deadline, Retire, TypeOK, Raised
<1>3. ASSUME NEW t \in Turns, Begin(t)
      PROVE  Kept
  <2> USE DEF Release, Retire, Acquire, Usable
  <2>1. CASE \/ RefuseClosed(t) \/ RefuseTainted(t) \/ Connect(t)
             \/ StartRaises(t) \/ ConnectFails(t) \/ QuerySent(t)
             \/ QueryFails(t)
    BY <2>1 DEF RefuseClosed, RefuseTainted, Connect, StartRaises,
                ConnectFails, QuerySent, QueryFails, TypeOK, Raised
  <2>2. CASE AlreadyStarted(t) \/ Connected(t)
    <3>1. pc[t] \in {"lock", "connect"} /\ AfterStart(t)
      BY <2>2 DEF AlreadyStarted, Connected
    <3> QED
      BY <3>1 DEF AfterStart, LeaveCancelled, BindRaises, SendPrompt,
                  ClientGone, ClaimAndBind, TypeOK, Raised
  <2> QED
    BY <1>3, <2>1, <2>2 DEF Begin
<1>4. ASSUME NEW t \in Turns, Recv(t)
      PROVE  Kept
  <2>1. /\ pc[t] \in Served
        /\ pc' = [pc EXCEPT ![t] = pc'[t]]
        /\ outcome' = [outcome EXCEPT ![t] = outcome'[t]]
        /\ outcome'[t] \in Exceptions => outcome[t] \in Exceptions
    <3> USE DEF Release, Retire, Finish, Takes, Outcomes
    <3>1. CASE \/ RecvCancelled(t) \/ RecvMetered(t) \/ RecvMessage(t)
               \/ RecvRaises(t) \/ RecvUnbilled(t)
      BY <3>1 DEF RecvCancelled, RecvMetered, RecvMessage, RecvRaises,
                  RecvUnbilled, TypeOK
    <3>2. CASE RecvViolation(t) \/ RecvEnded(t) \/ DrainViolation(t)
      BY <3>2 DEF RecvViolation, RecvEnded, DrainViolation, Violating,
                  MarkerCode, TypeOK
    <3>3. CASE RecvResult(t)
      <4>1. PICK k \in Results :
              outcome' = [outcome EXCEPT ![t] = ResultCode[k]]
        BY <3>3 DEF RecvResult
      <4>2. ResultCode[k] \notin Exceptions
        BY DEF ResultCode, Results
      <4> QED
        BY <3>3, <4>1, <4>2 DEF RecvResult, TypeOK
    <3>4. CASE Drain(t)
      BY <3>4 DEF Drain, TypeOK
    <3> QED
      BY <1>4, <3>1, <3>2, <3>3, <3>4 DEF Recv
  <2> QED
    BY <2>1 DEF TypeOK, Raised
<1>5. ASSUME NEW c \in Ctls, CtlCall(c)
      PROVE  Kept
  BY <1>5, SessionAssumption DEF CtlCall, TypeOK, Raised
<1>6. ASSUME NEW p \in Tasks, Teardown(p)
      PROVE  Kept
  <2>1. outcome' = outcome
    BY <1>6 DEF Teardown, Cancel, CancelClosed, Interrupted, CloseAgain,
                CloseBegin, CloseSignal, Disconnected, Reap, Return, Finish,
                Release, TypeOK
  <2>2. \E l \in PCs \ (Served \cup {"idle", "lock", "connect"}) :
          pc' = [pc EXCEPT ![p] = l]
    BY <1>6 DEF Teardown, Cancel, CancelClosed, Interrupted, CloseAgain,
                CloseBegin, CloseSignal, Disconnected, Reap, Return, Finish,
                Release, Signal, PCs
  <2> QED
    BY <2>1, <2>2 DEF TypeOK, Raised
<1>7. ASSUME NEW p \in Tasks, TaskCancel(p)
      PROVE  Kept
  BY <1>7 DEF TaskCancel, Finish, Release, TypeOK, Raised
<1>8. CASE Reader
  BY <1>8 DEF Reader, ReaderStart, ReaderStartFails, ReaderEnd,
              ReaderCancelled, ReaderStops, ReadNative, ReadIdle,
              ReadPostTerminal, ReadMessage, Reads, Raised
<1>9. CASE Expire \/ Environment \/ UNCHANGED vars
  BY <1>9 DEF Expire, Environment, Emit, EndStream, PreCompact, vars, Raised
<1> QED
  BY <1>2, <1>3, <1>4, <1>5, <1>6, <1>7, <1>8, <1>9 DEF Next

(* What is caught or answered, when the inbox is left alone. *)
LEMMA InboxSame ==
  ASSUME inbox' = inbox
  PROVE  (Caught' <=> Caught) /\ (Answer' <=> Answer)
BY DEF Caught, Answer

(* An emptied inbox holds neither. *)
LEMMA InboxEmptied ==
  ASSUME inbox' = <<>>
  PROVE  ~Caught' /\ ~Answer'
BY DEF Caught, Answer

(* The first item is taken: a violation behind it stays. *)
LEMMA InboxTaken ==
  ASSUME TypeOK, inbox # <<>>, inbox' = Tail(inbox)
  PROVE  /\ Answer' => Answer
         /\ Head(inbox).kind \in Results => Answer
         /\ Caught /\ Head(inbox).kind \notin Violations => Caught'
<1>1. /\ 1 \in DOMAIN inbox /\ Head(inbox) = inbox[1]
      /\ \A i \in DOMAIN inbox' :
           i + 1 \in DOMAIN inbox /\ inbox'[i] = inbox[i + 1]
      /\ \A i \in DOMAIN inbox : i # 1 => i - 1 \in DOMAIN inbox'
  BY TailItems DEF TypeOK
<1>2. Answer' => Answer
  BY <1>1 DEF Answer
<1>3. ASSUME Caught, Head(inbox).kind \notin Violations
      PROVE  Caught'
  <2>1. PICK i \in DOMAIN inbox : inbox[i].kind \in Violations
    BY <1>3 DEF Caught
  <2>2. i - 1 \in DOMAIN inbox' /\ i \in Nat
    BY <1>1, <1>3, <2>1 DEF TypeOK
  <2>3. inbox'[i - 1] = inbox[i]
    BY <1>1, <2>2
  <2> QED
    BY <2>1, <2>2, <2>3 DEF Caught
<1> QED
  BY <1>1, <1>2, <1>3 DEF Answer

(* An item is put at the end. *)
LEMMA InboxPut ==
  ASSUME TypeOK, NEW m \in Messages, inbox' = Append(inbox, m)
  PROVE  /\ Caught' <=> Caught \/ m.kind \in Violations
         /\ Answer' => Answer \/ m.kind \in Results
<1>1. /\ \A i \in DOMAIN inbox : i \in DOMAIN inbox' /\ inbox'[i] = inbox[i]
      /\ \A i \in DOMAIN inbox' :
           \/ i \in DOMAIN inbox /\ inbox'[i] = inbox[i]
           \/ inbox'[i] = m
      /\ Len(inbox) + 1 \in DOMAIN inbox' /\ inbox'[Len(inbox) + 1] = m
  BY DEF TypeOK
<1> QED
  BY <1>1 DEF Caught, Answer

(* A marker of cancel(), close(), the watchdog or the reader's end. *)
LEMMA InboxTold ==
  ASSUME TypeOK, NEW k \in Markers \ Violations,
         inbox' = inbox \/ inbox' = Delivered(Marker(k))
  PROVE  (Caught' <=> Caught) /\ (Answer' => Answer)
<1>1. Marker(k) \in Messages /\ Marker(k).kind = k /\ k \notin Results
  BY MarkerTyped DEF Marker, Markers, Results
<1> QED
  BY <1>1, InboxSame, InboxPut DEF Delivered

(* A prompt is sent only to a client that nothing speaks against. *)
LEMMA PromptIsClean ==
  ASSUME TypeOK, Shape, Calm, Reasons, NEW t \in Turns, SendPrompt(t),
         AlreadyStarted(t) \/ Connected(t)
  PROVE  /\ "violation" \notin dirty /\ "retired" \notin dirty
         /\ "unbilled" \in dirty => reader = "done"
<1> USE DEF SendPrompt, ClaimAndBind
<1>1. CASE AlreadyStarted(t)
  BY <1>1, SessionAssumption
     DEF AlreadyStarted, Usable, Acquire, Reasons, Retired, Calm, Shape,
         Claims, TypeOK, Tasks
<1>2. CASE Connected(t)
  <2>1. /\ pc[t] = "connect" /\ turnLock = t /\ ~closed /\ ~cancelRequested
        /\ reader = "none" /\ ~postNative /\ ~postOutput /\ owner = NoTurn
    BY <1>2 DEF Connected, Shape, Claims, Starts, Calm
  <2> QED
    BY <2>1, SessionAssumption
       DEF Reasons, Retired, Shape, Claims, Served, TypeOK
<1> QED
  BY <1>1, <1>2

(* Retirement: a turn, up to the prompt. *)
LEMMA BeginRetirement ==
  ASSUME TypeOK, TypeOK', Shape, NoTurnRaised', Calm, Reasons, Knows,
         NEW t \in Turns, Begin(t)
  PROVE  Calm' /\ Reasons' /\ Knows'
<1> USE DEF session, locks, receipts, claim, turn, cli, Goto, Decide, Release,
            Retire, Acquire, Usable, Tasks, Served, TypeOK, Shape, Claims
<1>1. CASE \/ RefuseClosed(t) \/ RefuseTainted(t) \/ Connect(t)
           \/ StartRaises(t) \/ ConnectFails(t) \/ QuerySent(t)
           \/ QueryFails(t)
  <2>1. (Caught' <=> Caught) /\ (Answer' <=> Answer)
    BY <1>1, InboxSame DEF RefuseClosed, RefuseTainted, Connect,
         StartRaises, ConnectFails, QuerySent, QueryFails
  <2>2. CASE RefuseClosed(t)
    BY <2>1, <2>2, SessionAssumption
       DEF RefuseClosed, Calm, Reasons, Knows, Retired
  <2>3. CASE RefuseTainted(t)
    BY <2>1, <2>3, SessionAssumption
       DEF RefuseTainted, Calm, Reasons, Knows, Retired
  <2>4. CASE Connect(t)
    BY <2>1, <2>4, SessionAssumption
       DEF Connect, Calm, Reasons, Knows, Retired
  <2>5. CASE StartRaises(t)
    BY <2>1, <2>5, SessionAssumption
       DEF StartRaises, Calm, Reasons, Knows, Retired
  <2>6. CASE ConnectFails(t)
    BY <2>1, <2>6, SessionAssumption
       DEF ConnectFails, Calm, Reasons, Knows, Retired
  <2>7. CASE QuerySent(t)
    BY <2>1, <2>7, SessionAssumption
       DEF QuerySent, Calm, Reasons, Knows, Retired
  <2>8. CASE QueryFails(t)
    BY SMTT(60), <2>1, <2>8, SessionAssumption
       DEF QueryFails, Calm, Reasons, Knows, Retired
  <2> QED
    BY <1>1, <2>2, <2>3, <2>4, <2>5, <2>6, <2>7, <2>8
<1>2. CASE AlreadyStarted(t) \/ Connected(t)
  <2>1. /\ pc[t] \in {"lock", "connect"} /\ turnLock \in {NoTurn, t}
        /\ UNCHANGED <<closed, cancelRequested, client, receipts>>
        /\ reader' # reader => reader = "none"
        /\ AfterStart(t)
    BY <1>2 DEF AlreadyStarted, Connected, Starts
  <2>2. \A u \in Turns : u # t => pc[u] \notin Served
    BY <2>1, SessionAssumption
  <2>3. CASE LeaveCancelled(t)
    <3>1. (Caught' <=> Caught) /\ (Answer' <=> Answer)
      BY <2>3, InboxSame DEF LeaveCancelled
    <3> QED
      BY <2>1, <2>2, <2>3, <3>1, SessionAssumption
         DEF LeaveCancelled, Calm, Reasons, Knows, Retired
  <2>4. CASE BindRaises(t)
    BY <2>4 DEF BindRaises, NoTurnRaised, Exceptions
  <2>5. CASE SendPrompt(t)
    <3>1. ~Caught' /\ ~Answer'
      BY <2>5, InboxEmptied DEF SendPrompt, ClaimAndBind, ClaimInbox
    <3>2. /\ "violation" \notin dirty /\ "retired" \notin dirty
          /\ "unbilled" \in dirty => reader = "done"
      BY <1>2, <2>5, PromptIsClean
    <3> QED
      BY <2>1, <2>2, <2>5, <3>1, <3>2, SessionAssumption
         DEF SendPrompt, ClaimAndBind, ClaimInbox, Calm, Reasons, Knows,
             Retired
  <2>6. CASE ClientGone(t)
    BY <2>1, <2>2, <2>6, SessionAssumption
       DEF ClientGone, ClaimAndBind, ClaimInbox, Calm, Reasons, Knows,
           Retired
  <2> QED
    BY <2>1, <2>3, <2>4, <2>5, <2>6 DEF AfterStart
<1> QED
  BY <1>1, <1>2 DEF Begin

(* Retirement: a turn in its message loop. *)
LEMMA RecvRetirement ==
  ASSUME TypeOK, TypeOK', Shape, Marks, Calm, Reasons, Knows,
         NEW t \in Turns, Recv(t)
  PROVE  Calm' /\ Reasons' /\ Knows'
<1> USE DEF session, locks, receipts, claim, turn, cli, Goto, Decide, Retire,
            Tasks, Served, TypeOK, Shape, Claims
<1>1. /\ pc[t] \in Served /\ turnLock = t /\ owner = t
      /\ \A u \in Turns : u # t => pc[u] \notin Served
  BY SessionAssumption
     DEF Recv, RecvCancelled, RecvViolation, RecvEnded, RecvMetered,
         RecvMessage, RecvRaises, RecvResult, RecvUnbilled, DrainViolation,
         Drain, Takes
<1>2. ASSUME NEW o \in Outcomes, Finish(t, o),
             UNCHANGED <<session, receipts, reader, dirty, evidence>>,
             o = "complete" => pc[t] = "drain",
             ~closed /\ ~cancelRequested =>
               /\ "violation" \notin dirty
               /\ "unbilled" \in dirty => reader = "done"
      PROVE  Calm' /\ Reasons' /\ Knows'
  BY <1>1, <1>2, SessionAssumption
     DEF Finish, Release, Calm, Reasons, Knows, Retired
<1>3. inbox # <<>> => 1 \in DOMAIN inbox /\ Head(inbox) = inbox[1]
  BY TailItems
<1>4. CASE RecvCancelled(t)
  <2>1. closed \/ cancelRequested
    BY <1>3, <1>4 DEF RecvCancelled, Takes, Marks
  <2>2. "cancelled" \in Outcomes
    BY DEF Outcomes
  <2> QED
    BY <1>2, <1>4, <2>1, <2>2 DEF RecvCancelled
<1>5. CASE RecvEnded(t)
  <2>1. PICK k \in Ends : Takes(t, k) /\ Finish(t, MarkerCode[k])
    BY <1>5 DEF RecvEnded, Ends
  <2>2. MarkerCode[k] \in Outcomes \ {"complete"}
    BY DEF MarkerCode, Outcomes, Ends
  <2>3. 1 \in DOMAIN inbox /\ inbox[1].kind \in Ends
    BY <1>3, <2>1 DEF Takes
  <2>4. reader = "done"
    BY <2>3 DEF Marks
  <2>5. ~Caught
    <3> SUFFICES ASSUME NEW i \in DOMAIN inbox, inbox[i].kind \in Violations
                 PROVE  FALSE
      BY DEF Caught
    <3>1. i = 1 \/ 1 < i
      OBVIOUS
    <3> QED
      BY <2>3, <3>1, KindsApart DEF Marks
  <2> QED
    BY <1>1, <1>2, <1>5, <2>1, <2>2, <2>4, <2>5 DEF RecvEnded, Knows
<1>6. CASE Drain(t)
  <2>1. ~Caught
    BY <1>6 DEF Drain, Violating, Caught, Violations
  <2>2. "violation" \notin dirty /\ "unbilled" \notin dirty
    BY <1>1, <1>6, <2>1 DEF Drain, Knows
  <2> QED
    BY <1>2, <1>6, <2>2 DEF Drain
<1>7. CASE \/ RecvViolation(t) \/ RecvMetered(t) \/ RecvRaises(t)
           \/ RecvUnbilled(t) \/ DrainViolation(t)
  <2>1. /\ pc'[t] \in {"interrupt", "close"}
        /\ \A u \in Tasks : u # t => pc'[u] = pc[u]
        /\ \A u \in Turns : u # t => outcome'[u] = outcome[u]
        /\ UNCHANGED <<closed, cancelRequested, turnLock, owner>>
    BY <1>7 DEF RecvViolation, RecvMetered, RecvRaises, RecvUnbilled,
                DrainViolation
  <2>2. outcome'[t] # "complete"
    <3>1. CASE RecvMetered(t) \/ RecvRaises(t) \/ RecvUnbilled(t)
      BY <3>1 DEF RecvMetered, RecvRaises, RecvUnbilled
    <3>2. CASE RecvViolation(t) \/ DrainViolation(t)
      BY <3>2 DEF RecvViolation, DrainViolation, MarkerCode, Violating
    <3> QED
      BY <1>7, <3>1, <3>2
  <2>3. Retired'
    BY <1>1, <2>1, SessionAssumption DEF Retired
  <2>4. Calm'
    BY ZenonT(60), <1>1, <2>1, <2>2 DEF Calm
  <2> QED
    BY <1>1, <2>1, <2>3, <2>4 DEF Reasons, Knows
<1>8. CASE RecvMessage(t)
  <2>1. PICK k \in Kinds \ Results :
          /\ Takes(t, k)
          /\ k = "metered" => evidence = "malformed"
          /\ evidence' = Merged(k)
          /\ dirty' = dirty \cup
               (IF k \in {"malformed", "metered"} THEN {"unbilled"} ELSE {})
    BY <1>8 DEF RecvMessage
  <2>2. (Answer' => Answer) /\ (Caught => Caught')
    BY <1>8, <2>1, InboxTaken, KindsApart, SessionAssumption
       DEF RecvMessage, Takes
  <2>3. /\ evidence = "malformed" => evidence' = "malformed"
        /\ k \in {"malformed", "metered"} => evidence' = "malformed"
    BY <2>1 DEF Merged
  <2>4. /\ "violation" \in dirty' => "violation" \in dirty
        /\ "retired" \in dirty' => "retired" \in dirty
        /\ "unbilled" \in dirty' =>
             "unbilled" \in dirty \/ evidence' = "malformed"
    BY <2>1, <2>3
  <2> QED
    BY <1>1, <1>8, <2>2, <2>3, <2>4, SessionAssumption
       DEF RecvMessage, Calm, Reasons, Knows, Retired, Takes
<1>9. CASE RecvResult(t)
  <2>1. Answer /\ (Answer' => Answer) /\ (Caught => Caught')
    BY <1>9, InboxTaken, KindsApart DEF RecvResult, Takes
  <2>2. "unbilled" \notin dirty
    BY <1>1, <1>9, <2>1 DEF RecvResult, Knows
  <2>3. /\ \A u \in Turns : u # t => outcome'[u] = outcome[u]
        /\ pc' = [pc EXCEPT ![t] = "drain"]
        /\ UNCHANGED <<closed, cancelRequested, turnLock, owner, evidence,
                       postNative, postOutput, reader, dirty>>
        /\ evidence = "included"
    BY <1>9 DEF RecvResult
  <2> QED
    BY <1>1, <2>1, <2>2, <2>3, SessionAssumption
       DEF Calm, Reasons, Knows, Retired
<1> QED
  BY <1>4, <1>5, <1>6, <1>7, <1>8, <1>9 DEF Recv

(* Retirement: cancel() and close(). *)
LEMMA TeardownRetirement ==
  ASSUME TypeOK, TypeOK', Shape, Calm, Reasons, Knows,
         NEW p \in Tasks, Teardown(p)
  PROVE  Calm' /\ Reasons' /\ Knows'
<1> USE DEF session, locks, receipts, claim, turn, cli, Goto, Tasks, Served,
            TypeOK, Shape, Claims
<1>1. CASE CancelClosed(p) \/ CloseAgain(p) \/ Reap(p)
  <2>1. /\ closed /\ Return(p) /\ pc[p] \notin Served
        /\ UNCHANGED <<session, receipts, reader, dirty, evidence>>
    BY <1>1 DEF CancelClosed, CloseAgain, Reap, Closes, Closing
  <2>2. /\ UNCHANGED outcome
        /\ pc' = [pc EXCEPT ![p] = "done"]
    BY <2>1 DEF Return, Finish, Release, Decide
  <2>3. inbox' = inbox \/ turnLock = p
    BY <2>1 DEF Return
  <2>4. Knows'
    <3>1. CASE inbox' = inbox
      BY <2>1, <2>2, <3>1, InboxSame DEF Knows
    <3>2. CASE turnLock = p
      BY <2>1, <2>2, <3>2 DEF Knows
    <3> QED
      BY <2>3, <3>1, <3>2
  <2> QED
    BY <2>1, <2>2, <2>4 DEF Calm, Reasons, Retired
<1>2. CASE \/ Cancel(p) \/ Interrupted(p) \/ CloseBegin(p)
           \/ CloseSignal(p) \/ Disconnected(p)
  <2>1. (Caught' <=> Caught) /\ (Answer' => Answer)
    <3>1. "CANCELLED" \in Markers \ Violations
      BY DEF Markers, Violations
    <3>2. inbox' = inbox \/ inbox' = Delivered(Marker("CANCELLED"))
      BY <1>2 DEF Cancel, Interrupted, CloseBegin, CloseSignal,
                  Disconnected, Signal
    <3> QED
      BY <3>1, <3>2, InboxTold
  <2>2. CASE Cancel(p)
    BY <2>1, <2>2 DEF Cancel, Calm, Reasons, Knows, Retired
  <2>3. CASE Interrupted(p)
    BY <2>1, <2>3 DEF Interrupted, Calm, Reasons, Knows, Retired
  <2>4. CASE CloseBegin(p)
    BY <2>1, <2>4 DEF CloseBegin, Signal, Calm, Reasons, Knows, Retired
  <2>5. CASE CloseSignal(p)
    BY <2>1, <2>5
       DEF CloseSignal, Signal, Closes, Closing, Calm, Reasons, Knows,
           Retired
  <2>6. CASE Disconnected(p)
    BY <2>1, <2>6
       DEF Disconnected, ReaderAfterClose, Closes, Closing, Calm, Reasons,
           Knows, Retired
  <2> QED
    BY <1>2, <2>2, <2>3, <2>4, <2>5, <2>6
<1> QED
  BY <1>1, <1>2 DEF Teardown

(* Retirement: the owner of a caller of cancel() or close() cancels it. *)
LEMMA TaskCancelRetirement ==
  ASSUME TypeOK, TypeOK', Shape, NoTurnRaised', Calm, Reasons, Knows,
         NEW p \in Tasks, TaskCancel(p)
  PROVE  Calm' /\ Reasons' /\ Knows'
<1> USE DEF session, receipts, claim, cli, Goto, Tasks, Served, TypeOK, Shape,
            Claims, TaskCancel
<1>1. p \in Ctls /\ p \notin Turns
  BY SessionAssumption
     DEF NoTurnRaised, Handling, Finish, Release, Decide, Exceptions
<1>2. /\ UNCHANGED <<turnLock, dirty>>
      /\ pc' = [pc EXCEPT ![p] = "done"]
      /\ \A u \in Turns : outcome'[u] = outcome[u]
      /\ ~Handling(p) /\ UNCHANGED <<owner, inbox>>
  BY <1>1, SessionAssumption DEF Handling
<1>3. (Caught' <=> Caught) /\ (Answer' <=> Answer)
  BY <1>2, InboxSame
<1> QED
  BY <1>1, <1>2, <1>3, SessionAssumption DEF Calm, Reasons, Knows, Retired

(* Retirement: the reader.  What it must report it leaves in a receipt or  *)
(* in the inbox of the turn that runs.                                     *)
LEMMA ReaderRetirement ==
  ASSUME TypeOK, TypeOK', Shape, Calm, Reasons, Knows, Reader
  PROVE  Calm' /\ Reasons' /\ Knows'
<1> USE DEF session, locks, receipts, claim, turn, cli, Served, Shape, Claims
<1>1. CASE ReaderStart
  BY <1>1, InboxSame DEF ReaderStart, Calm, Reasons, Knows, Retired
<1>2. ASSUME NEW k \in Markers \ Violations, ReaderStops(k)
      PROVE  Calm' /\ Reasons' /\ Knows'
  <2>1. (Caught' <=> Caught) /\ (Answer' => Answer)
    BY <1>2, InboxTold DEF ReaderStops
  <2> QED
    BY <1>2, <2>1 DEF ReaderStops, Calm, Reasons, Knows, Retired
<1>3. CASE ReaderStartFails \/ ReaderEnd \/ ReaderCancelled
  <2>1. "ENDED" \in Markers \ Violations /\ "FAILED" \in Markers \ Violations
    BY DEF Markers, Violations
  <2> QED
    BY <1>2, <1>3, <2>1 DEF ReaderStartFails, ReaderEnd, ReaderCancelled
<1>4. ASSUME NEW m \in Messages, Reads(m), NEW k \in Violations,
             inbox' = Delivered(Marker(k)),
             dirty' = dirty \cup {"violation"},
             owner = NoTurn => postNative' \/ postOutput',
             postNative => postNative', postOutput => postOutput'
      PROVE  Calm' /\ Reasons' /\ Knows'
  <2>1. Marker(k) \in Messages /\ Marker(k).kind = k /\ k \notin Results
    BY MarkerTyped DEF Marker, Markers, Violations, Results
  <2>2. CASE owner = NoTurn
    BY <1>4, <2>2, SessionAssumption
       DEF Reads, Calm, Reasons, Knows, Retired, Tasks
  <2>3. CASE owner # NoTurn
    <3>1. Caught' /\ (Answer' => Answer)
      BY <1>4, <2>1, <2>3, InboxPut DEF Delivered
    <3> QED
      BY <1>4, <2>3, <3>1 DEF Reads, Calm, Reasons, Knows, Retired
  <2> QED
    BY <2>2, <2>3
<1>5. CASE ReadNative
  BY <1>4, <1>5 DEF ReadNative, Violations
<1>6. CASE ReadIdle
  <2>1. inbox' = Delivered(Marker("NATIVE"))
    BY <1>6 DEF ReadIdle, Delivered
  <2> QED
    BY <1>4, <1>6, <2>1 DEF ReadIdle, Violations
<1>7. CASE ReadPostTerminal
  BY <1>4, <1>7 DEF ReadPostTerminal, Delivered, Violations
<1>8. CASE ReadMessage
  <2>1. PICK m \in Messages : Reads(m) /\ inbox' = Append(inbox, m)
    BY <1>8 DEF ReadMessage
  <2>2. Caught => Caught'
    BY <2>1, InboxPut
  <2> QED
    BY <1>8, <2>1, <2>2 DEF ReadMessage, Reads, Calm, Reasons, Knows, Retired
<1> QED
  BY <1>1, <1>3, <1>5, <1>6, <1>7, <1>8 DEF Reader

(* Nothing speaks against the client at the start. *)
LEMMA RetirementInit == Init => Retirement
BY SessionAssumption
   DEF Init, Retirement, Calm, Reasons, Knows, Served, Tasks

(* Every step keeps the reasons to retire the client. *)
LEMMA RetirementStep ==
  ASSUME TypeOK, TypeOK', Shape, Marks, Raised, Retirement, [Next]_vars
  PROVE  Retirement'
<1> SUFFICES ASSUME NoTurnRaised'
             PROVE  Calm' /\ Reasons' /\ Knows'
  BY DEF Retirement
<1>1. Calm /\ Reasons /\ Knows
  BY RaisedStep DEF Retirement
<1> USE DEF session, locks, receipts, claim, turn, cli, Goto, Decide, Tasks,
            Served, Shape, Claims
<1>2. ASSUME NEW t \in Turns, Call(t) \/ Await(t) \/ Deadline(t)
      PROVE  Calm' /\ Reasons' /\ Knows'
  <2>1. (Caught' <=> Caught) /\ (Answer' <=> Answer)
    BY <1>2, InboxSame DEF Call, Await, Deadline
  <2>2. CASE Call(t)
    BY <1>1, <2>1, <2>2, SessionAssumption
       DEF Call, Calm, Reasons, Knows, Retired, TypeOK
  <2>3. CASE Await(t)
    BY <1>1, <2>1, <2>3, SessionAssumption
       DEF Await, Calm, Reasons, Knows, Retired, TypeOK
  <2>4. CASE Deadline(t)
    BY SMTT(60), <1>1, <2>1, <2>4, SessionAssumption
       DEF Deadline, Retire, Calm, Reasons, Knows, Retired, TypeOK
  <2> QED
    BY <1>2, <2>2, <2>3, <2>4
<1>3. ASSUME NEW c \in Ctls, CtlCall(c)
      PROVE  Calm' /\ Reasons' /\ Knows'
  <2>1. (Caught' <=> Caught) /\ (Answer' <=> Answer)
    BY <1>3, InboxSame DEF CtlCall
  <2>2. /\ \A t \in Turns : t # c /\ pc'[t] = pc[t]
        /\ turnLock # NoTurn => turnLock # c /\ pc'[turnLock] = pc[turnLock]
    BY <1>3, SessionAssumption DEF CtlCall, TypeOK
  <2>3. Retired' <=> Retired
    BY <1>3, <2>2 DEF CtlCall, Retired
  <2>4. Calm'
    BY <1>1, <1>3, <2>2 DEF CtlCall, Calm
  <2>5. Reasons'
    BY <1>1, <1>3, <2>1, <2>2, <2>3 DEF CtlCall, Reasons
  <2> QED
    BY <1>1, <1>3, <2>1, <2>2, <2>4, <2>5 DEF CtlCall, Knows
<1>4. CASE Expire
  <2>1. "WATCHDOG" \in Markers \ Violations
    BY DEF Markers, Violations
  <2>2. (Caught' <=> Caught) /\ (Answer' => Answer)
    BY <1>4, <2>1, InboxTold DEF Expire
  <2> QED
    BY <1>1, <1>4, <2>2 DEF Expire, Calm, Reasons, Knows, Retired
<1>5. CASE Environment \/ UNCHANGED vars
  BY <1>1, <1>5, InboxSame
     DEF Environment, Emit, EndStream, PreCompact, vars, Calm, Reasons,
         Knows, Retired
<1> QED
  BY <1>1, <1>2, <1>3, <1>4, <1>5, BeginRetirement, RecvRetirement,
     TeardownRetirement, TaskCancelRetirement, ReaderRetirement
     DEF Next

-----------------------------------------------------------------------------
(* The theorems.                                                           *)

(* The inductive invariant.  Only the answers need a CLI that sends results *)
(* when it was asked, and that no retirement was cut short.                *)
SessionInv ==
  /\ TypeOK /\ Shape /\ Marks /\ Raised /\ Retirement
  /\ ResultsAreSolicited /\ NoneCutShort => Answers

(* The invariant holds in every state of the session. *)
THEOREM SessionInvariance == Spec => []SessionInv
<1>1. Init => SessionInv
  BY TypeInit, ShapeInit, MarksInit, RaisedInit, RetirementInit, AnswersInit
     DEF SessionInv
<1>2. SessionInv /\ [Next]_vars => SessionInv'
  <2> SUFFICES ASSUME SessionInv, [Next]_vars
               PROVE  SessionInv'
    OBVIOUS
  <2>1. TypeOK'
    BY TypeStep DEF SessionInv
  <2>2. Shape' /\ Marks' /\ Raised'
    BY <2>1, ShapeStep, MarksStep, RaisedStep DEF SessionInv
  <2>3. Retirement'
    BY <2>1, RetirementStep DEF SessionInv
  <2>4. ResultsAreSolicited /\ NoneCutShort' => Answers'
    BY <2>1, AnswersStep, RaisedStep DEF SessionInv
  <2> QED
    BY <2>1, <2>2, <2>3, <2>4 DEF SessionInv
<1> QED
  BY <1>1, <1>2, PTL DEF Spec

(* The state of the session keeps its types; in particular the compaction  *)
(* depth that handle_message() decrements is never below 0.                *)
THEOREM TypeCorrect == Spec => []TypeOK
<1>1. SessionInv => TypeOK
  BY DEF SessionInv
<1> QED
  BY <1>1, SessionInvariance, PTL

(* The inbox of an open session belongs to a turn that still runs, and what *)
(* it holds of the answer to a prompt is of that turn's, for a CLI that    *)
(* sends a result only when it was asked, as long as no turn was cancelled *)
(* in its except clause (sdk_session.py:341-348, 555-578).                 *)
THEOREM InboxesKept == ResultsAreSolicited => (Spec => []InboxesOwned)
<1> SUFFICES ASSUME ResultsAreSolicited
             PROVE  Spec => []InboxesOwned
  OBVIOUS
<1>1. SessionInv => InboxesOwned
  BY DEF SessionInv, Answers, AtTheirTurn, AnswersReachTheirTurn, Shape,
         Claims, InboxesOwned, NoOrphanClaim
<1> QED
  BY <1>1, SessionInvariance, PTL

(* Only the step that sends a prompt changes the turn the CLI was asked by. *)
LEMMA OnlyPromptsAsk ==
  ASSUME [Next]_vars, asked' # asked
  PROVE  \E t \in Turns :
           SendPrompt(t) /\ (AlreadyStarted(t) \/ Connected(t))
<1> USE DEF session, locks, receipts, claim, turn, cli
<1>1. ASSUME NEW t \in Turns, Begin(t)
      PROVE  SendPrompt(t) /\ (AlreadyStarted(t) \/ Connected(t))
  BY <1>1
     DEF Begin, RefuseClosed, RefuseTainted, Connect, StartRaises,
         AlreadyStarted, Connected, ConnectFails, QuerySent, QueryFails,
         AfterStart, LeaveCancelled, BindRaises, ClientGone
<1>2. ASSUME NEW t \in Turns
      PROVE  ~Call(t) /\ ~Await(t) /\ ~Deadline(t) /\ ~Recv(t)
  BY DEF Call, Await, Deadline, Recv, RecvCancelled, RecvViolation, RecvEnded,
         RecvMetered, RecvMessage, RecvRaises, RecvResult, RecvUnbilled,
         DrainViolation, Drain
<1>3. ASSUME NEW p \in Tasks
      PROVE  ~CtlCall(p) /\ ~Teardown(p) /\ ~TaskCancel(p)
  BY DEF CtlCall, Teardown, Cancel, CancelClosed, Interrupted, CloseAgain,
         CloseBegin, CloseSignal, Disconnected, Reap, TaskCancel
<1>4. ~Reader
  BY DEF Reader, ReaderStart, ReaderStartFails, ReaderEnd, ReaderCancelled,
         ReaderStops, ReadNative, ReadIdle, ReadPostTerminal, ReadMessage,
         Reads
<1>5. ~Expire /\ ~Environment /\ ~UNCHANGED vars
  BY DEF Expire, Environment, Emit, EndStream, PreCompact, vars
<1> QED
  BY <1>1, <1>2, <1>3, <1>4, <1>5 DEF Next, Tasks

(* While no turn has raised, no prompt is sent to a client once a violation *)
(* was read, a block, a timeout or an error was met, or cancel() or close() *)
(* was called (sdk_session.py:479), however many turns and callers there   *)
(* are.                                                                    *)
THEOREM RetiredStaysRetired == Spec => RetiredClientNeverQueried
<1>1. SessionInv /\ [Next]_vars =>
        [asked' # asked /\ NoTurnRaised =>
           dirty \cap {"violation", "retired"} = {}]_vars
  <2> SUFFICES ASSUME SessionInv, [Next]_vars, asked' # asked, NoTurnRaised
               PROVE  dirty \cap {"violation", "retired"} = {}
    OBVIOUS
  <2>1. PICK t \in Turns :
          SendPrompt(t) /\ (AlreadyStarted(t) \/ Connected(t))
    BY OnlyPromptsAsk
  <2>2. TypeOK /\ Shape /\ Calm /\ Reasons
    BY DEF SessionInv, Retirement
  <2>3. "violation" \notin dirty /\ "retired" \notin dirty
    BY <2>1, <2>2, PromptIsClean
  <2> QED
    BY <2>3
<1> QED
  BY <1>1, SessionInvariance, PTL DEF Spec, RetiredClientNeverQueried

(* A turn that had no exception completes in the step that drains its inbox. *)
LEMMA OnlyDrainCompletes ==
  ASSUME TypeOK, Shape, Calm, [Next]_vars, NEW t \in Turns,
         pc'[t] = "done", pc[t] # "done", outcome'[t] = "complete"
  PROVE  Drain(t)
<1> USE DEF session, locks, receipts, claim, turn, cli, Goto, Decide, Tasks,
            Release, Retire
<1>1. ASSUME NEW u \in Turns
      PROVE  ~Call(u) /\ ~Await(u) /\ ~Deadline(u)
  BY DEF Call, Await, Deadline, TypeOK, Calm
<1>2. ASSUME NEW u \in Turns
      PROVE  ~Begin(u)
  <2>1. ~RefuseClosed(u) /\ ~RefuseTainted(u) /\ ~Connect(u)
        /\ ~StartRaises(u) /\ ~ConnectFails(u) /\ ~QuerySent(u)
        /\ ~QueryFails(u)
    BY DEF RefuseClosed, RefuseTainted, Connect, StartRaises, ConnectFails,
           QuerySent, QueryFails, TypeOK
  <2>2. ~AfterStart(u)
    BY DEF AfterStart, LeaveCancelled, BindRaises, SendPrompt, ClientGone,
           ClaimAndBind, TypeOK
  <2> QED
    BY <2>1, <2>2 DEF Begin, AlreadyStarted, Connected
<1>3. ASSUME NEW u \in Turns, Recv(u)
      PROVE  Drain(t)
  <2>1. \/ RecvCancelled(u) \/ Drain(u)
        \/ \E k \in Ends : Finish(u, MarkerCode[k])
    BY <1>3 DEF Recv, RecvViolation, RecvEnded, RecvMetered, RecvMessage,
                RecvRaises, RecvResult, RecvUnbilled, DrainViolation, TypeOK,
                Ends
  <2>2. \A k \in Ends : MarkerCode[k] # "complete"
    BY DEF Ends, MarkerCode
  <2> QED
    BY <2>1, <2>2 DEF RecvCancelled, Drain, Finish, TypeOK
<1>4. ASSUME NEW p \in Tasks
      PROVE  ~Teardown(p)
  <2>1. ~Cancel(p) /\ ~Interrupted(p) /\ ~CloseBegin(p) /\ ~CloseSignal(p)
        /\ ~Disconnected(p)
    BY DEF Cancel, Interrupted, CloseBegin, CloseSignal, Signal,
           Disconnected, TypeOK
  <2>2. ASSUME Return(p), pc[p] \in {"cancel", "close", "reap"}
        PROVE  FALSE
    BY <2>2 DEF Return, Finish, TypeOK, Calm
  <2> QED
    BY <2>1, <2>2 DEF Teardown, CancelClosed, CloseAgain, Reap
<1>5. ASSUME NEW p \in Tasks
      PROVE  ~TaskCancel(p) /\ (p \in Ctls => ~CtlCall(p))
  BY DEF TaskCancel, Finish, CtlCall, TypeOK
<1>6. ~Reader /\ ~Expire /\ ~Environment /\ ~UNCHANGED vars
  BY DEF Reader, ReaderStart, ReaderStartFails, ReaderEnd, ReaderCancelled,
         ReaderStops, ReadNative, ReadIdle, ReadPostTerminal, ReadMessage,
         Reads, Expire, Environment, Emit, EndStream, PreCompact, vars
<1> QED
  BY <1>1, <1>2, <1>3, <1>4, <1>5, <1>6 DEF Next

(* A turn completes only with its own result, with billing evidence that   *)
(* was never malformed nor metered, and with no violation read by then, as *)
(* long as no turn has raised.                                             *)
THEOREM CompletionIsClean == Spec => CompletesCleanly
<1> DEFINE Completes(t) ==
             /\ pc'[t] = "done" /\ pc[t] # "done" /\ outcome'[t] = "complete"
             /\ NoTurnRaised
           Cleanly(t) ==
             /\ evidence = "included" /\ asked = t
             /\ ResultsAreSolicited => answered
             /\ dirty \cap {"violation", "unbilled"} = {}
<1>1. SessionInv /\ [Next]_vars =>
        [\A t \in Turns : Completes(t) => Cleanly(t)]_vars
  <2> SUFFICES ASSUME SessionInv, [Next]_vars, NEW t \in Turns, Completes(t)
               PROVE  Cleanly(t)
    OBVIOUS
  <2>1. TypeOK /\ Shape /\ Calm /\ Knows
    BY DEF SessionInv, Retirement
  <2>2. Drain(t)
    BY <2>1, OnlyDrainCompletes
  <2>3. pc[t] = "drain" /\ asked = t
    BY <2>1, <2>2 DEF Drain, Shape, Starts, Served
  <2>4. ~Caught
    BY <2>2 DEF Drain, Violating, Caught, Violations
  <2>5. evidence = "included" /\ dirty \cap {"violation", "unbilled"} = {}
    BY <2>1, <2>3, <2>4 DEF Knows, Served
  <2>6. ResultsAreSolicited => answered
    BY <2>3, SessionAssumption
       DEF SessionInv, Answers, Quiet, Tasks, NoTurnRaised, NoneCutShort,
           Exceptions
  <2> QED
    BY <2>3, <2>5, <2>6
<1> QED
  BY <1>1, SessionInvariance, PTL DEF Spec, CompletesCleanly
=============================================================================
