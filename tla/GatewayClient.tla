--------------------------- MODULE GatewayClient ---------------------------
(***************************************************************************)
(* Gateway of v4_gateway.py over the standard streams of the gateway       *)
(* process: a reader thread sorts lines into two bounded queues, and one   *)
(* caller at a time takes responses by request id and events by type.      *)
(* Events a wait passes over are kept for the next one.                    *)
(***************************************************************************)
EXTENDS Naturals, FiniteSets, Sequences

CONSTANTS
  Kinds,        \* event types
  MaxBacklog,   \* max_backlog: the bound of each queue and of the backlog
  MaxTraffic    \* bound: requests made and events sent, together

ASSUME ClientAssumption ==
  /\ MaxBacklog \in Nat \ {0} /\ MaxTraffic \in Nat
  /\ Kinds \cap {"any", "none", "native", "stop", "response"} = {}

VARIABLES
  reader,       \* the reader thread: "check", "read" or "ended"
  stop,         \* _stop
  readerError,  \* _reader_error: "none", "overflow" or "invalid"
  responses,    \* the _responses queue
  events,       \* the _events queue
  backlog,      \* _backlog
  nextId,       \* _next_id
  call,         \* the caller: what it waits for, and the events passed over
  unanswered,   \* external: the requests the process may still answer
  sent,         \* history: events put into the queue
  gone,         \* history: events handed to the caller or refused to it
  abandoned     \* history: requests whose call ended without an answer

clientVars == <<reader, stop, readerError, responses, events, backlog,
                nextId, call, unanswered, sent, gone, abandoned>>

STOP == [id |-> 0, kind |-> "stop"]
NATIVE == "native"          \* the event of a tool that is not in the inventory

(* No call in progress; closed is the type whose wait was just told that   *)
(* the gateway closed.                                                     *)
Idle(closed) == [op |-> "idle", want |-> "none", id |-> 0,
                 deferred |-> <<>>, closed |-> closed]
Done == Idle("none")

ClientInit ==
  /\ reader = "check" /\ stop = FALSE /\ readerError = "none"
  /\ responses = <<>> /\ events = <<>> /\ backlog = <<>>
  /\ nextId = 1 /\ call = Done /\ unanswered = {}
  /\ sent = 0 /\ gone = {} /\ abandoned = {}

-----------------------------------------------------------------------------
(* The reader thread.                                                      *)

(* Mutant: the end marker is put in front of the queue. *)
WithStopFirst(q) == IF Len(q) < MaxBacklog THEN <<STOP>> \o q ELSE q

(* Mutant: the end marker is put whatever the queue holds. *)
WithStopAlways(q) == Append(q, STOP)

(* _signal_closed(): a full queue gets no end marker.                      *)
WithStop(q) == IF Len(q) < MaxBacklog THEN Append(q, STOP) ELSE q

Ended ==
  /\ reader' = "ended"
  /\ responses' = WithStop(responses) /\ events' = WithStop(events)

(* Mutant: a reader that is stopped waits instead of ending. *)
ReaderCheckWaits ==
  /\ reader = "check" /\ ~stop /\ reader' = "read"
  /\ UNCHANGED <<responses, events, stop, readerError, backlog, nextId, call,
                 unanswered, sent, gone, abandoned>>

(* The loop test of _pump_stdio(), before the blocking readline().         *)
ReaderCheck ==
  /\ reader = "check"
  /\ \/ ~stop /\ reader' = "read" /\ UNCHANGED <<responses, events>>
     \/ stop /\ Ended
  /\ UNCHANGED <<stop, readerError, backlog, nextId, call, unanswered, sent,
                 gone, abandoned>>

(* Mutant: responses and events share the first queue. *)
RoutedTogether(frame) == "responses"

(* _enqueue(): the queue a line goes to.                                   *)
Routed(frame) == IF frame.kind = "response" THEN "responses" ELSE "events"

(* _enqueue(): put_nowait(), and a full queue stops the reader.            *)
Enqueue(frame) ==
  LET q == IF Routed(frame) = "events" THEN events ELSE responses
  IN  /\ reader' = "check"
      /\ IF Len(q) < MaxBacklog
         THEN /\ IF Routed(frame) = "events"
                 THEN events' = Append(q, frame) /\ UNCHANGED responses
                 ELSE responses' = Append(q, frame) /\ UNCHANGED events
              /\ UNCHANGED <<stop, readerError>>
         ELSE /\ stop' = TRUE /\ readerError' = "overflow"
              /\ UNCHANGED <<responses, events>>

(* A line arrives: an event, or the answer to a request made before.       *)
ReaderEvent ==
  /\ reader = "read" /\ nextId + sent <= MaxTraffic
  /\ \E kind \in Kinds \cup {NATIVE} :
       Enqueue([id |-> sent + 1, kind |-> kind])
  /\ sent' = IF readerError' = "none" THEN sent + 1 ELSE sent
  /\ UNCHANGED <<backlog, nextId, call, unanswered, gone, abandoned>>

ReaderResponse ==
  /\ reader = "read"
  /\ \E id \in unanswered :
       /\ Enqueue([id |-> id, kind |-> "response"])
       /\ unanswered' = unanswered \ {id}
  /\ UNCHANGED <<backlog, nextId, call, sent, gone, abandoned>>

(* A line that is no JSON object stops the reader at its next test; an     *)
(* over-long one and the end of the stream end the loop at once.           *)
ReaderInvalid ==
  /\ reader = "read" /\ readerError' = "invalid"
  /\ \/ reader' = "check" /\ stop' = TRUE /\ UNCHANGED <<responses, events>>
     \/ Ended /\ UNCHANGED stop
  /\ UNCHANGED <<backlog, nextId, call, unanswered, sent, gone, abandoned>>

ReaderEof ==
  /\ reader = "read" /\ Ended
  /\ UNCHANGED <<stop, readerError, backlog, nextId, call, unanswered, sent,
                 gone, abandoned>>

-----------------------------------------------------------------------------
(* The caller.                                                             *)

(* call(): the id is spent before the request is written, and the write    *)
(* fails when the process is gone.                                         *)
Call ==
  /\ call.op = "idle" /\ nextId + sent <= MaxTraffic
  /\ nextId' = nextId + 1
  /\ \/ /\ call' = [Done EXCEPT !.op = "call", !.id = nextId]
        /\ unanswered' = unanswered \cup {nextId}
        /\ UNCHANGED abandoned
     \/ /\ call' = Done
        /\ abandoned' = abandoned \cup {nextId}
        /\ UNCHANGED unanswered
  /\ UNCHANGED <<reader, stop, readerError, responses, events, backlog, sent,
                 gone>>

(* One turn of the loop of call(): an answer to another request, late      *)
(* because its call timed out, is dropped.                                 *)
CallTakes ==
  /\ call.op = "call" /\ responses # <<>>
  /\ responses' = Tail(responses)
  /\ LET frame == Head(responses)
     IN  \/ /\ frame = STOP /\ call' = Done
            /\ abandoned' = abandoned \cup {call.id}
         \/ /\ frame.id \notin {0, call.id} /\ UNCHANGED <<call, abandoned>>
         \/ /\ frame.id = call.id /\ call' = Done /\ UNCHANGED abandoned
  /\ UNCHANGED <<reader, stop, readerError, events, backlog, nextId,
                 unanswered, sent, gone>>

(* The deadline of call(): it may pass between two reads as well as during *)
(* one.                                                                    *)
CallTimesOut ==
  /\ call.op = "call" /\ call' = Done
  /\ abandoned' = abandoned \cup {call.id}
  /\ UNCHANGED <<reader, stop, readerError, responses, events, backlog,
                 nextId, unanswered, sent, gone>>

(* wait_event() and next_event(), which takes whatever comes first.        *)
WaitEvent ==
  /\ call.op = "idle"
  /\ \E kind \in Kinds \cup {"any"} :
       call' = [Done EXCEPT !.op = "wait", !.want = kind]
  /\ UNCHANGED <<reader, stop, readerError, responses, events, backlog,
                 nextId, unanswered, sent, gone, abandoned>>

(* Mutant: the frames passed over go back behind the backlog. *)
RestoreBehind(frames) == backlog' = frames \o call.deferred

(* The finally clause of wait_event(): appendleft() from the last one; the *)
(* deque keeps its first MaxBacklog elements.                              *)
Restore(frames) ==
  LET all == call.deferred \o frames
  IN  backlog' = SubSeq(all, 1, IF Len(all) < MaxBacklog THEN Len(all)
                                ELSE MaxBacklog)

(* Mutant: the overflow test comes one frame late. *)
TooManyLate(deferred) == Len(deferred) > MaxBacklog

TooMany(deferred) == Len(deferred) >= MaxBacklog

(* wait_event() looks at one frame: a native tool raises and the frame is  *)
(* gone; another type is passed over; the wanted one goes to the caller,   *)
(* also when the caller's projector then fails.                            *)
Look(frame, rest) ==
  \/ /\ frame.kind = NATIVE /\ Restore(rest) /\ call' = Done
     /\ gone' = gone \cup {frame.id}
  \/ /\ frame.kind # NATIVE /\ call.want \notin {frame.kind, "any"}
     /\ LET deferred == Append(call.deferred, frame)
        IN  IF TooMany(deferred)
            THEN /\ backlog' = SubSeq(deferred \o rest, 1, MaxBacklog)
                 /\ call' = Done
            ELSE /\ backlog' = rest
                 /\ call' = [call EXCEPT !.deferred = deferred]
     /\ UNCHANGED gone
  \/ /\ frame.kind # NATIVE /\ call.want \in {frame.kind, "any"}
     /\ Restore(rest) /\ gone' = gone \cup {frame.id} /\ call' = Done

(* One turn of the loop: the backlog first, then the queue.                *)
WaitTakes ==
  /\ call.op = "wait"
  /\ \/ /\ backlog # <<>> /\ Look(Head(backlog), Tail(backlog))
        /\ UNCHANGED events
     \/ /\ backlog = <<>> /\ events # <<>> /\ events' = Tail(events)
        /\ IF Head(events) = STOP
           THEN /\ Restore(<<>>) /\ call' = Idle(call.want)
                /\ UNCHANGED gone
           ELSE Look(Head(events), <<>>)
  /\ UNCHANGED <<reader, stop, readerError, responses, nextId, unanswered,
                 sent, abandoned>>

(* Mutant: only next_event() has a deadline. *)
WaitTimesOutAny ==
  /\ call.op = "wait" /\ call.want = "any" /\ backlog = <<>>
  /\ Restore(backlog) /\ call' = Done
  /\ UNCHANGED <<reader, stop, readerError, responses, events, nextId,
                 unanswered, sent, gone, abandoned>>

(* next_event() reads once and has no deadline of its own while there is a *)
(* backlog.                                                                *)
WaitTimesOut ==
  /\ call.op = "wait" /\ (call.want = "any" => backlog = <<>>)
  /\ Restore(backlog) /\ call' = Done
  /\ UNCHANGED <<reader, stop, readerError, responses, events, nextId,
                 unanswered, sent, gone, abandoned>>

(* close(): the reader sees it at its next test; the streams of the ended  *)
(* process give it an end of file.                                         *)
Close ==
  /\ call.op = "idle" /\ ~stop /\ stop' = TRUE
  /\ UNCHANGED <<reader, readerError, responses, events, backlog, nextId,
                 call, unanswered, sent, gone, abandoned>>

ClientNext ==
  \/ ReaderCheck \/ ReaderEvent \/ ReaderResponse \/ ReaderInvalid
  \/ ReaderEof \/ Call \/ CallTakes \/ CallTimesOut \/ WaitEvent \/ WaitTakes
  \/ WaitTimesOut \/ Close

(* The threads run, and the process ends once its input is closed, if need *)
(* be because close() kills it.                                            *)
ClientFairness ==
  /\ WF_clientVars(ReaderCheck) /\ WF_clientVars(stop /\ ReaderEof)
  /\ WF_clientVars(CallTakes \/ CallTimesOut)
  /\ WF_clientVars(WaitTakes \/ WaitTimesOut)

-----------------------------------------------------------------------------
EventFrames == [id : 1..MaxTraffic, kind : Kinds \cup {NATIVE}]
Answers == [id : 1..MaxTraffic, kind : {"response"}]
Wanted == Kinds \cup {"any", "none"}
CallStates == [op : {"idle", "call", "wait"}, want : Wanted,
               id : 0..MaxTraffic, deferred : Seq(EventFrames),
               closed : Wanted]

ClientTypeOK ==
  /\ reader \in {"check", "read", "ended"} /\ stop \in BOOLEAN
  /\ readerError \in {"none", "overflow", "invalid"}
  /\ responses \in Seq(Answers \cup {STOP}) /\ Len(responses) <= MaxBacklog
  /\ events \in Seq(EventFrames \cup {STOP}) /\ Len(events) <= MaxBacklog
  /\ backlog \in Seq(EventFrames) /\ Len(backlog) <= MaxBacklog
  /\ nextId \in 1..(MaxTraffic + 1) /\ sent \in 0..MaxTraffic
  /\ call \in CallStates
  /\ gone \subseteq 1..MaxTraffic /\ unanswered \subseteq 1..MaxTraffic
  /\ abandoned \subseteq 1..MaxTraffic

(* Every event that entered the queue is in exactly one place: gone to the *)
(* caller, passed over by the present wait, in the backlog, or in the      *)
(* queue; and the three that are still to be read, in that order, are in   *)
(* the order they came.  A timeout, an overflow or an error in a wait      *)
(* neither loses, repeats nor reorders one.                                *)
NoEventIsLost ==
  LET waiting == call.deferred \o backlog \o events
      unread == {i \in DOMAIN waiting : waiting[i] # STOP}
  IN  /\ \A i, j \in unread : i < j => waiting[i].id < waiting[j].id
      /\ {waiting[i].id : i \in unread} = (1..sent) \ gone

(* The end of the gateway hides nothing: a wait that is told the gateway   *)
(* closed has seen every event that came before, so what is left in the    *)
(* backlog and in the queue is of other types, and nothing is left when it *)
(* would have taken any.                                                   *)
EndHidesNothing ==
  LET left == {backlog[i].kind : i \in DOMAIN backlog}
                \cup {events[i].kind : i \in DOMAIN events}
  IN  /\ call.closed \notin left
      /\ call.closed = "any" => left = {}

(* Late answers stop the reader only when the caller has given up as many  *)
(* calls as the queue holds: while it has not, an overflow is one of       *)
(* events, and the answer a call waits for always has room.                *)
AnswersHaveRoom ==
  Cardinality(abandoned) < MaxBacklog =>
    /\ Cardinality({i \in DOMAIN responses : responses[i] # STOP}) <=
         Cardinality(abandoned) + (IF call.op = "call" THEN 1 ELSE 0)
    /\ readerError = "overflow" => sent >= MaxBacklog

(* Between the reader thread and the calls of a client, no event and no    *)
(* answer that somebody still waits for is lost or overtaken, and the end  *)
(* of the stream hides none (v4_gateway.py).                               *)
ClientKeepsItsTraffic == NoEventIsLost /\ EndHidesNothing /\ AnswersHaveRoom

(* A closed gateway lets go of its reader thread, also when its queues are *)
(* full and nobody reads them (v4_gateway.py:248-272, 344-357).            *)
ReaderEnds == stop ~> reader = "ended"
=============================================================================
