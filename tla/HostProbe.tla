---------------------------- MODULE HostProbe ----------------------------
(* Read-only proof from the host's database (parity/v4_host_probe.py), and  *)
(* the loop in which V4LiveSession.collect_delegation_observation() waits   *)
(* for delegations to settle.  The two SELECTs of a delegation probe are no *)
(* transaction: the host writes between them.                               *)
EXTENDS Integers, Sequences, FiniteSets, FiniteSetsExt

CONSTANTS MaxDelegations,   \* bound: delegations of the session
          MaxDeliveries,    \* bound: delivery messages in the session
          MaxTranscript     \* bound: rows of the session's transcript

ASSUME ProbeAssumption ==
  MaxDelegations \in Nat /\ MaxDeliveries \in Nat /\ MaxTranscript \in Nat

VARIABLES rowOf,        \* async_delegations: the rows of the session
          deliveries,   \* its messages of kind async_delegation_complete
          settle,       \* the call of collect_delegation_observation()
          pages         \* the transcript that _transcript() goes through

settleVars == <<rowOf, deliveries, settle>>
probeVars == <<settleVars, pages>>

Delegations == 1 .. MaxDelegations     \* in the order of their ids
Absent == [state |-> "absent", delivery |-> "none"]
AnyCount == -1                         \* expected_count=None
CallIds == {"a", "b"}

-----------------------------------------------------------------------------
(* The host, external: a delegation is dispatched, ends, has its completion *)
(* written into the parent and is marked delivered, the last three in any   *)
(* order.  settle.fault records what an honest host never does: more        *)
(* delegations than expected, a second completion, one that is dropped or   *)
(* in a state the probe does not know, one that names no delegation of the  *)
(* session, or a database that cannot be read.                              *)
Settling == settle.pc \in {"rows", "messages"}
Present == {d \in Delegations : rowOf[d] # Absent}
CountOf(d, messages) ==
  Cardinality({i \in DOMAIN messages : messages[i] = d})

Dispatch(d) ==
  /\ Settling /\ rowOf[d] = Absent
  /\ rowOf' = [rowOf EXCEPT ![d] = [state |-> "live", delivery |-> "pending"]]
  /\ settle' = [settle EXCEPT
       !.fault = @ \/ Cardinality(Present) >= settle.expected]
  /\ UNCHANGED <<deliveries, pages>>

EndDelegation(d) ==
  /\ Settling /\ rowOf[d].state = "live"
  /\ rowOf' = [rowOf EXCEPT ![d].state = "ended"]
  /\ UNCHANGED <<deliveries, settle, pages>>

MarkDelivery(d, mark) ==
  /\ Settling /\ rowOf[d].delivery = "pending"
  /\ rowOf' = [rowOf EXCEPT ![d].delivery = mark]
  /\ settle' = [settle EXCEPT !.fault = @ \/ mark # "delivered"]
  /\ UNCHANGED <<deliveries, pages>>

(* A message for d; 0 is one that names no delegation of this session, or   *)
(* that _delegation_metadata() refuses.                                     *)
Deliver(d) ==
  /\ Settling /\ Len(deliveries) < MaxDeliveries
  /\ d # 0 => rowOf[d] # Absent
  /\ deliveries' = Append(deliveries, d)
  /\ settle' = [settle EXCEPT
       !.fault = @ \/ d = 0 \/ CountOf(d, deliveries) > 0]
  /\ UNCHANGED <<rowOf, pages>>

-----------------------------------------------------------------------------
(* One probe: _delegation_observation().                                    *)

(* Mutant: a delivery is believed while its delegation is running. *)
RowErrorEarly(row, has) ==
  IF row.delivery = "delivered" /\ ~has THEN "lacks" ELSE
  IF row.delivery = "dropped" /\ has THEN "dropped" ELSE
  "none"

(* What a row is refused for, in the order of the checks.                   *)
RowError(row, has) ==
  IF row.delivery = "delivered" /\ ~has THEN "lacks" ELSE
  IF row.delivery = "dropped" /\ has THEN "dropped" ELSE
  IF row.state = "live" /\ has THEN "early" ELSE
  "none"

(* Every message names one of the rows, no two the same one; then the first *)
(* row that is refused decides.                                             *)
Unbound(rows, messages) ==
  \/ \E i \in DOMAIN messages : messages[i] \notin DOMAIN rows
  \/ \E d \in DOMAIN rows : CountOf(d, messages) > 1
ProbeError(rows, messages) ==
  LET has(d) == CountOf(d, messages) > 0
      bad == {d \in DOMAIN rows : RowError(rows[d], has(d)) # "none"}
  IN  IF Unbound(rows, messages) THEN "unbound"
      ELSE IF bad = {} THEN "none"
      ELSE RowError(rows[Min(bad)], has(Min(bad)))

(* delivery_state of the observation. *)
DeliveryState(rows) ==
  LET all == {rows[d].delivery : d \in DOMAIN rows}
  IN  IF all = {} THEN "none"
      ELSE IF Cardinality(all) = 1 THEN CHOOSE s \in all : TRUE ELSE "mixed"

-----------------------------------------------------------------------------
(* The loop.  A probe that is refused for something transient, or that      *)
(* finds every delivery pending, is repeated until the deadline.            *)

(* Mutant: a completion before the end of its delegation is final. *)
TransientWritten == {"count", "lacks"}
(* _TRANSIENT_DELEGATION_ERRORS *)
Transient == {"count", "lacks", "early"}

(* Mutant: what is transient is waited for without the deadline. *)
AfterErrorPatient(error) == IF error \notin Transient THEN "failed" ELSE "rows"
AfterError(error) ==
  IF error \notin Transient \/ settle.late THEN "failed" ELSE "rows"

AfterProbe(rows, messages) ==
  IF \/ settle.expected <= 0
     \/ /\ DeliveryState(rows) = "delivered"
        /\ Len(messages) = settle.expected
  THEN "returned"
  ELSE IF DeliveryState(rows) # "pending" \/ settle.late THEN "failed"
  ELSE "rows"

(* The first SELECT, the count, and the states each row may have. *)
ReadRows ==
  /\ settle.pc = "rows"
  /\ LET error ==
           IF settle.expected \notin {AnyCount, Cardinality(Present)}
           THEN "count" ELSE
           IF \E d \in Present : rowOf[d].delivery = "unknown"
           THEN "unknown" ELSE
           "none"
     IN  settle' = IF error = "none"
                   THEN [settle EXCEPT !.pc = "messages",
                           !.rows = [d \in Present |-> rowOf[d]]]
                   ELSE [settle EXCEPT !.pc = AfterError(error)]
  /\ UNCHANGED <<rowOf, deliveries, pages>>

(* The second SELECT, the checks, and what the loop makes of them. *)
ReadMessages ==
  /\ settle.pc = "messages"
  /\ LET error == ProbeError(settle.rows, deliveries)
         next == IF error # "none" THEN AfterError(error)
                 ELSE AfterProbe(settle.rows, deliveries)
     IN  settle' = IF next = "returned"
                   THEN [settle EXCEPT !.pc = next, !.read = deliveries]
                   ELSE [settle EXCEPT !.pc = next, !.rows = <<>>]
  /\ UNCHANGED <<rowOf, deliveries, pages>>

(* The database cannot be opened or read: never transient. *)
ReadBreaks ==
  /\ Settling
  /\ settle' = [settle EXCEPT !.pc = "failed", !.fault = TRUE]
  /\ UNCHANGED <<rowOf, deliveries, pages>>

(* Five seconds have passed. *)
SettlementDeadline ==
  /\ Settling /\ ~settle.late
  /\ settle' = [settle EXCEPT !.late = TRUE]
  /\ UNCHANGED <<rowOf, deliveries, pages>>

-----------------------------------------------------------------------------
(* _transcript(), row by row: the calls and results by the row they are in, *)
(* and the terminals.  final: the finish reason is none of the four that    *)
(* end no turn.  "other": a row that is malformed in itself.                *)
TranscriptRows ==
  {[role |-> "user", calls |-> <<>>, final |-> FALSE, call |-> "none"],
   [role |-> "assistant", calls |-> <<>>, final |-> TRUE, call |-> "none"],
   [role |-> "other", calls |-> <<>>, final |-> FALSE, call |-> "none"]}
  \cup {[role |-> "assistant", calls |-> c, final |-> FALSE, call |-> "none"] :
          c \in {<<>>, <<"a">>, <<"a", "b">>, <<"b", "b">>}}
  \cup {[role |-> "tool", calls |-> <<>>, final |-> FALSE, call |-> c] :
          c \in CallIds}

NewPages ==
  [log |-> <<>>, state |-> "reading", calls |-> [c \in CallIds |-> 0],
   results |-> [c \in CallIds |-> 0], users |-> 0, terminals |-> 0,
   receipts |-> 0]
NoPages == [NewPages EXCEPT !.state = "failed"]

Page(row) ==
  LET ordinal == Len(pages.log) + 1
      calls == {row.calls[i] : i \in DOMAIN row.calls}
      bad == \/ row.role = "other"
             \/ Cardinality(calls) # Len(row.calls)
             \/ \E c \in calls : pages.calls[c] # 0
             \/ row.role = "tool" /\ pages.results[row.call] # 0
  IN  IF bad THEN NoPages
      ELSE [pages EXCEPT
              !.log = Append(@, row),
              !.calls = [c \in CallIds |->
                           IF c \in calls THEN ordinal ELSE @[c]],
              !.results = [c \in CallIds |->
                             IF row.role = "tool" /\ row.call = c
                             THEN ordinal ELSE @[c]],
              !.users = IF row.role = "user" THEN @ + 1 ELSE @,
              !.terminals = IF /\ row.role = "assistant" /\ row.final
                               /\ row.calls = <<>>
                            THEN @ + 1 ELSE @]
ReadPage(row) ==
  /\ pages.state = "reading" /\ Len(pages.log) < MaxTranscript
  /\ pages' = Page(row)
  /\ UNCHANGED settleVars

(* Mutant: a result may stand before its call. *)
PairedAnyOrder ==
  \A c \in CallIds : (pages.calls[c] = 0) = (pages.results[c] = 0)

(* The calls and the results are the same, each result behind its call.     *)
Paired ==
  \A c \in CallIds : /\ (pages.calls[c] = 0) = (pages.results[c] = 0)
                     /\ pages.calls[c] # 0 => pages.results[c] > pages.calls[c]

(* The end of the rows, then _state() and _usage(): one receipt and one     *)
(* counted call of the API for each turn, all of them exact.                *)
ReadUsage(turns, receipts, apiCalls, exact) ==
  /\ pages.state = "reading"
  /\ LET n == Len(pages.log)
         whole == /\ n > 0 /\ pages.terminals = turns /\ pages.users = turns
                  /\ pages.log[n].role = "assistant"
                  /\ pages.log[n].calls = <<>>
         used == receipts = turns /\ apiCalls = turns /\ exact
     IN  pages' = IF whole /\ Paired /\ used
                  THEN [pages EXCEPT !.state = "PASS", !.receipts = receipts]
                  ELSE NoPages
  /\ UNCHANGED settleVars

-----------------------------------------------------------------------------
NewSettlement(expected) ==
  [pc |-> "rows", expected |-> expected, rows |-> <<>>, read |-> <<>>,
   late |-> FALSE, fault |-> FALSE]
NoSettlement == [NewSettlement(0) EXCEPT !.pc = "returned"]

NoDelegations == rowOf = [d \in Delegations |-> Absent] /\ deliveries = <<>>
ProbeInit ==
  /\ NoDelegations
  /\ \/ /\ \E n \in {AnyCount} \cup 0 .. MaxDelegations :
             settle = NewSettlement(n)
        /\ pages = NoPages
     \/ settle = NoSettlement /\ pages = NewPages
ProbeAtRest == NoDelegations /\ settle = NoSettlement /\ pages = NoPages

ProbeNext ==
  \/ ReadRows \/ ReadMessages \/ ReadBreaks \/ SettlementDeadline
  \/ \E d \in Delegations :
       \/ Dispatch(d) \/ EndDelegation(d)
       \/ \E mark \in {"delivered", "dropped", "unknown"} :
            MarkDelivery(d, mark)
  \/ \E d \in Delegations \cup {0} : Deliver(d)
  \/ \E row \in TranscriptRows : ReadPage(row)
  \/ \E turns, receipts, apiCalls \in 1 .. 2, exact \in BOOLEAN :
       ReadUsage(turns, receipts, apiCalls, exact)

ProbeFairness ==
  /\ WF_settleVars(ReadRows \/ ReadMessages)
  /\ WF_settleVars(SettlementDeadline)

ProbeTypeOK ==
  /\ settle.pc \in {"rows", "messages", "returned", "failed"}
  /\ DOMAIN settle.rows \subseteq Delegations
  /\ pages.state \in {"reading", "PASS", "failed"}

(* An observation of expected delegations is returned only when each of     *)
(* them has ended and is delivered, in the host's table and not only in the *)
(* rows read before the messages, with exactly one message each             *)
(* (v4_host_probe.py:343-420, v4_live_session.py:509-514).                  *)
ReturnIsSettled ==
  settle.pc = "returned" /\ settle.expected > 0 =>
    /\ Cardinality(DOMAIN settle.rows) = settle.expected
    /\ \A d \in DOMAIN settle.rows :
         /\ rowOf[d] = [state |-> "ended", delivery |-> "delivered"]
         /\ CountOf(d, settle.read) = 1

(* A host that does what it should, in whatever order its writes fall       *)
(* between the two SELECTs, is never refused before the deadline, for the   *)
(* counts the runner asks for (v4_live_session.py:37-43, 500-519).          *)
ProbeIsPatient ==
  settle.pc = "failed" /\ settle.expected \in 0 .. 1 =>
    settle.late \/ settle.fault

(* A transcript that passes has for every call one result behind it, and as *)
(* many prompts, answers and receipts as turns (v4_host_probe.py:195-284).  *)
TranscriptIsPaired ==
  pages.state = "PASS" =>
    LET log == pages.log
        calling(c) == {i \in DOMAIN log :
                         \E k \in DOMAIN log[i].calls : log[i].calls[k] = c}
        answering(c) == {i \in DOMAIN log : log[i].call = c}
    IN  /\ \A c \in CallIds :
             /\ Cardinality(calling(c)) = Cardinality(answering(c))
             /\ \A i \in calling(c) : \E k \in answering(c) : i < k
        /\ pages.receipts =
             Cardinality({i \in DOMAIN log : log[i].role = "user"})
        /\ pages.receipts = Cardinality({i \in DOMAIN log :
             log[i].role = "assistant" /\ log[i].final /\ log[i].calls = <<>>})
=============================================================================
