---------------------------- MODULE LiveSession ----------------------------
(***************************************************************************)
(* V4LiveSession over one gateway, the V4LiveExecutor of its present turn, *)
(* and the _ObservedGateway between them and the gateway.  The client may  *)
(* call any method in any order; it never calls two at once.  A lineage is *)
(* a session and the sessions restarted from it.                           *)
(***************************************************************************)
EXTENDS GatewayObserver, HostProbe

CONSTANTS
  Rows,           \* a row of the live map with a trial index
  RowBudget,      \* _row_turn_budget(): turns of a row's trial
  LiveEvents,     \* the events the gateway may deliver in a turn
  ControlLimit,   \* CONTROL_CALL_LIMIT
  DrainLimit,     \* POST_TERMINAL_CONTROL_LIMIT
  MaxIds,         \* bound: events in a lineage
  MaxRestarts     \* bound: restarts in a lineage

NoRow == "none"

ASSUME SessionAssumption ==
  /\ RowBudget \in [Rows -> 1..4] /\ NoRow \notin Rows
  /\ ControlLimit \in Nat \ {0} /\ DrainLimit \in Nat \ {0}
  /\ MaxIds \in Nat /\ MaxRestarts \in Nat
  /\ LiveEvents \subseteq AnyEvent

VARIABLES
  live,       \* the session: _started, _closed, _failed and its budgets
  ledger,     \* what restart() copies: receipts, row turns, row, calls
  gate,       \* the _ObservedGateway: its gateway, observers and snapshots
  turn,       \* the executor of the turn in progress, or NoTurn
  snapshots,  \* the snapshots of all gateways of the lineage, in order
  ids,        \* history: events delivered
  restarts    \* bound: restarts made

liveVars == <<live, ledger, gate, turn, snapshots, ids, restarts>>

NoTurn == [pc |-> "none"]

NewSession(planned, resumed) ==
  [started |-> FALSE, closed |-> FALSE, failed |-> FALSE, stored |-> resumed,
   resumed |-> resumed, inventory |-> FALSE, planned |-> planned]
NewGate(expect, tasks) ==
  [open |-> FALSE, expect |-> expect, terminal |-> FALSE, count |-> 0,
   observer |-> NewObserver(expect, tasks), seen |-> {}]

Budgets == {RowBudget[r] : r \in Rows}

LiveInit ==
  /\ \E planned \in Budgets : live = NewSession(planned, FALSE)
  /\ \E n \in 0..MaxTasks : gate = NewGate(IF n = 0 THEN 1 ELSE 2, n)
  /\ ledger = [receipts |-> <<>>, rowTurns |-> [r \in Rows |-> 0],
               row |-> NoRow, calls |-> 0]
  /\ turn = NoTurn /\ snapshots = <<>> /\ ids = 0 /\ restarts = 0

Started == live.started /\ ~live.closed

(* Mutant: a failed operation leaves the gateway to the client. *)
FailedOpen(s, g) == live' = [s EXCEPT !.failed = TRUE] /\ gate' = g

(* The ways out of a failed operation: close() of the session; when the    *)
(* gateway's own close raises the session is closed all the same.          *)
FailedClosed(s, g) ==
  /\ live' = [s EXCEPT !.failed = TRUE, !.closed = TRUE]
  /\ gate' = [g EXCEPT !.open = FALSE]

(* start(): both identities must come back, and a resumed session must be  *)
(* the stored one; on failure the gateway is closed, the session is not.   *)
Start ==
  /\ turn = NoTurn /\ ~live.started /\ ~live.closed /\ ~live.failed
  /\ \/ /\ live' = [live EXCEPT !.started = TRUE, !.stored = TRUE]
        /\ gate' = [gate EXCEPT !.open = TRUE]
     \/ live' = [live EXCEPT !.failed = TRUE] /\ UNCHANGED gate
  /\ UNCHANGED <<ledger, turn, snapshots, ids, restarts>>

(* verify_tool_inventory(): once, and a difference ends the session.       *)
VerifyToolInventory ==
  /\ turn = NoTurn /\ Started /\ ~live.inventory
  /\ \/ live' = [live EXCEPT !.inventory = TRUE] /\ UNCHANGED gate
     \/ FailedClosed(live, gate)
  /\ UNCHANGED <<ledger, turn, snapshots, ids, restarts>>

-----------------------------------------------------------------------------
(* A turn begins.                                                          *)

(* Mutant: a bound session takes the budget it was planned with. *)
RowAdmitsPlanned(row) ==
  IF ledger.row = NoRow THEN live.planned = RowBudget[row]
  ELSE ledger.row = row

(* run_turn(): the first turn binds the row, whose budget must be the      *)
(* session's; a later one must be of that row and within its budget.       *)
RowAdmits(row) ==
  /\ IF ledger.row = NoRow THEN live.planned = RowBudget[row]
     ELSE ledger.row = row
  /\ ledger.rowTurns[row] < RowBudget[row]

Budgeted ==
  Len(ledger.receipts) < live.planned /\ ledger.calls < live.planned

(* follow is expect_followup: execute() passes TRUE exactly when it gave   *)
(* the gateway two terminals to expect.                                    *)
NewTurn(row, auto, follow, decision) ==
  [pc |-> IF auto THEN "events" ELSE "submit", row |-> row, auto |-> auto,
   follow |-> follow, decision |-> decision, events |-> {}, control |-> 0,
   start |-> FALSE, usage |-> FALSE, drained |-> 0, status |-> "none"]

(* run_turn() up to the executor.  A turn that is refused ends the         *)
(* session.                                                                *)
RunTurn(row, decision) ==
  /\ turn = NoTurn /\ Started
  /\ IF Budgeted /\ RowAdmits(row)
     THEN /\ ledger' = [ledger EXCEPT !.row = row]
          /\ turn' = NewTurn(row, FALSE, gate.expect = 2, decision)
          /\ UNCHANGED <<live, gate>>
     ELSE /\ FailedClosed(live, gate)
          /\ UNCHANGED <<ledger, turn>>
  /\ UNCHANGED <<snapshots, ids, restarts>>

(* run_turn() for a path that is not the positive one. *)
RunOtherPath ==
  /\ turn = NoTurn /\ Started /\ FailedClosed(live, gate)
  /\ UNCHANGED <<ledger, turn, snapshots, ids, restarts>>

(* observe_delivery_turn(): nothing is submitted, and the row was bound by *)
(* an earlier turn.                                                        *)
ObserveDeliveryTurn(row) ==
  /\ turn = NoTurn /\ Started /\ ledger.row # NoRow
  /\ IF Budgeted /\ RowAdmits(row)
     THEN turn' = NewTurn(row, TRUE, FALSE, "deny") /\ UNCHANGED <<live, gate>>
     ELSE FailedClosed(live, gate) /\ UNCHANGED turn
  /\ UNCHANGED <<ledger, snapshots, ids, restarts>>

-----------------------------------------------------------------------------
(* The executor.                                                           *)

TurnFails(g) ==
  FailedClosed(live, g) /\ turn' = NoTurn /\ UNCHANGED ledger

(* _ObservedGateway.call(): a prompt after a closed turn has a new         *)
(* observer, which expects one terminal.                                   *)
Rotated(g) ==
  IF g.terminal
  THEN [g EXCEPT !.observer = NewObserver(1, 0), !.terminal = FALSE]
  ELSE g

(* prompt.submit: the call may fail after the prompt was sent.             *)
Submit ==
  /\ turn.pc = "submit" /\ turn.control < ControlLimit
  /\ LET g == Rotated(gate)
     IN  \/ /\ ~g.observer.failed /\ gate' = g
            /\ turn' = [turn EXCEPT !.pc = "events", !.control = @ + 1]
            /\ UNCHANGED <<live, ledger>>
         \/ TurnFails(g)
  /\ UNCHANGED <<snapshots, ids, restarts>>

(* The status the gateway's projection gives an event.                     *)
StatusOf(e) ==
  IF e.kind = "terminal" /\ e.both THEN e.status ELSE "none"

(* _ObservedGateway.next_event(): the observer sees the event first; a     *)
(* terminal of the gateway's projection takes the snapshot of the turn.    *)
Observed(g, e) ==
  LET counted == g.observer.terminal = "none"
      g1 == [g EXCEPT !.observer = Event(g.observer, e),
                      !.seen = IF counted THEN @ \cup {ids + 1} ELSE @]
  IN  IF StatusOf(e) = "none" THEN g1
      ELSE [g1 EXCEPT !.observer = Snapshot(@), !.seen = {},
                      !.count = @ + 1,
                      !.terminal = g.expect = 1 \/ g.count + 1 = g.expect]

Passes(g, e) ==
  /\ ~g.observer.failed /\ ~Event(g.observer, e).failed
  /\ StatusOf(e) # "none" => SnapshotOK(Event(g.observer, e))

(* Mutant: the executor keeps approval requests apart from the events. *)
CountedNoApproval(t, e) ==
  IF e.kind = "approval" THEN t.events ELSE t.events \cup {ids + 1}

(* events.append(projection): every event up to the terminal. *)
Counted(t, e) == t.events \cup {ids + 1}

(* _next(): an approval request is answered at once with the turn's        *)
(* decision, as one more control call.                                     *)
Answered(g, e) ==
  IF e.kind # "approval" THEN g
  ELSE [g EXCEPT !.observer = Respond(@, e.request, turn.decision, TRUE)]

AfterEvent(e) ==
  [turn EXCEPT
     !.events = Counted(turn, e), !.status = StatusOf(e),
     !.start = @ \/ e.kind = "start",
     !.usage = @ \/ (turn.start /\ e.kind = "usage"),
     !.control = IF e.kind = "approval" THEN @ + 1 ELSE @,
     !.pc = IF StatusOf(e) = "none" THEN "events"
            ELSE IF turn.follow THEN "finish" ELSE "drain"]

(* One event of the loop of _execute_turn(); a timeout, a closed gateway   *)
(* and a refusal of the observer all end the session.                      *)
TurnEvent ==
  /\ turn.pc = "events" /\ ids < MaxIds /\ ids' = ids + 1
  /\ \E e \in LiveEvents :
       IF Passes(gate, e) /\ (e.kind = "approval" =>
                                turn.control < ControlLimit)
       THEN /\ gate' = Answered(Observed(gate, e), e)
            /\ turn' = AfterEvent(e)
            /\ snapshots' = IF StatusOf(e) = "none" THEN snapshots
                            ELSE Append(snapshots,
                                        gate.seen \cup {ids + 1})
            /\ UNCHANGED <<live, ledger>>
       ELSE TurnFails(gate) /\ UNCHANGED snapshots
  /\ UNCHANGED restarts

(* Mutant: the events of a turn are waited for without a deadline. *)
TurnBreaksDraining ==
  /\ turn.pc = "drain" /\ TurnFails(gate)
  /\ UNCHANGED <<snapshots, ids, restarts>>

(* The deadline of an event, the end of the gateway, a failing answer. *)
TurnBreaks ==
  /\ turn.pc \in {"events", "drain"} /\ TurnFails(gate)
  /\ UNCHANGED <<snapshots, ids, restarts>>

(* The events behind the terminal: only sessions.changed, and not too many *)
(* of them; the first timeout ends the drain.                              *)
DrainEvent ==
  /\ turn.pc = "drain" /\ ids < MaxIds /\ ids' = ids + 1
  /\ \E e \in LiveEvents :
       IF /\ Passes(gate, e) /\ e.kind = "changed"
          /\ turn.drained + 1 < DrainLimit
       THEN /\ gate' = Observed(gate, e)
            /\ turn' = [turn EXCEPT !.drained = @ + 1]
            /\ UNCHANGED <<live, ledger>>
       ELSE TurnFails(gate)
  /\ UNCHANGED <<snapshots, restarts>>

DrainEnds ==
  /\ turn.pc = "drain" /\ turn' = [turn EXCEPT !.pc = "finish"]
  /\ UNCHANGED <<live, ledger, gate, snapshots, ids, restarts>>

(* A delivery turn must show a start and usage after it (or usage in its   *)
(* terminal); any turn must have completed.                                *)
Proved ==
  turn.status = "completed" /\ (turn.auto => turn.start)

TurnEnds ==
  /\ turn.pc = "finish"
  /\ \E usage \in {turn.usage, TRUE} :
       IF Proved /\ (turn.auto => usage)
       THEN /\ ledger' = [ledger EXCEPT
                 !.receipts = Append(@, [row |-> turn.row,
                                         events |-> turn.events]),
                 !.rowTurns[turn.row] = @ + 1, !.calls = @ + 1]
            /\ turn' = NoTurn /\ UNCHANGED <<live, gate>>
       ELSE TurnFails(gate)
  /\ UNCHANGED <<snapshots, ids, restarts>>

-----------------------------------------------------------------------------
(* close(), from the client. *)
CloseSession ==
  /\ turn = NoTurn /\ ~live.closed
  /\ \E fails \in BOOLEAN :
       live' = [live EXCEPT !.closed = TRUE, !.failed = @ \/ fails]
  /\ gate' = [gate EXCEPT !.open = FALSE]
  /\ UNCHANGED <<ledger, turn, snapshots, ids, restarts>>

(* collect_host_observation() and collect_delegation_observation(): also   *)
(* on a closed session; a pass changes nothing, and a failure (for the     *)
(* delegations when they have not settled at the deadline) is final.       *)
Collect ==
  /\ turn = NoTurn /\ live.started /\ ~live.failed
  /\ \/ UNCHANGED <<live, gate>>
     \/ FailedClosed(live, gate)
  /\ UNCHANGED <<ledger, turn, snapshots, ids, restarts>>

(* Mutant: a restarted session has its row's turns again. *)
CopiedFresh == [ledger EXCEPT !.rowTurns = [r \in Rows |-> 0]]

(* The ledger a restarted session starts with. *)
Copied == ledger

(* restart(): a closed session with a stored identity, failed or not; the  *)
(* budgets may be new ones.                                                *)
Restart ==
  /\ turn = NoTurn /\ live.stored /\ live.closed /\ restarts < MaxRestarts
  /\ \E planned \in Budgets : live' = NewSession(planned, TRUE)
  /\ gate' = NewGate(1, 0) /\ ledger' = Copied
  /\ restarts' = restarts + 1
  /\ UNCHANGED <<turn, snapshots, ids>>

Execute ==
  Submit \/ TurnEvent \/ TurnBreaks \/ DrainEvent \/ DrainEnds \/ TurnEnds

LiveNext ==
  \/ Start \/ VerifyToolInventory \/ Execute
  \/ \E row \in Rows, d \in {"allow", "deny"} : RunTurn(row, d)
  \/ \E row \in Rows : ObserveDeliveryTurn(row)
  \/ RunOtherPath \/ CloseSession \/ Collect \/ Restart

-----------------------------------------------------------------------------
LiveTypeOK ==
  /\ {live.started, live.closed, live.failed, live.stored} \subseteq BOOLEAN
  /\ ledger.row \in Rows \cup {NoRow} /\ ledger.calls \in Nat
  /\ ledger.rowTurns \in [Rows -> Nat]
  /\ gate.open \in BOOLEAN /\ gate.seen \subseteq 1..MaxIds
  /\ turn.pc \in {"none", "submit", "events", "drain", "finish"}
  /\ ids \in 0..MaxIds /\ restarts \in 0..MaxRestarts

(* Every receipt has the snapshot of its own turn: the events the executor *)
(* counted and the events the observer counted are the same, whatever came *)
(* behind a terminal, between two turns or before a restart; a turn whose  *)
(* snapshot was taken and that failed afterwards leaves no receipt.        *)
ReceiptsHaveSnapshots ==
  LET receipts == ledger.receipts IN
  /\ \E kept \in [1..Len(receipts) -> 1..Len(snapshots)] :
       \A i \in 1..Len(receipts) :
         /\ snapshots[kept[i]] = receipts[i].events
         /\ i > 1 => kept[i - 1] < kept[i]
  /\ (turn = NoTurn /\ ~live.failed /\ restarts = 0) =>
       Len(snapshots) = Len(receipts)

(* A lineage stays in one row and trial and within that row's turns, also  *)
(* when a session is restarted with a larger plan, and its calls are the   *)
(* turns it has receipts for.                                              *)
LineageWithinRow ==
  /\ \A i \in 1..Len(ledger.receipts) : ledger.receipts[i].row = ledger.row
  /\ ledger.row # NoRow => Len(ledger.receipts) <= RowBudget[ledger.row]
  /\ ledger.calls = Len(ledger.receipts)

(* A failed session has let go of its gateway, and a turn is in progress   *)
(* only over an open one.                                                  *)
FailureReleasesGateway ==
  /\ live.failed => ~gate.open
  /\ turn # NoTurn => gate.open

(* A session gives a receipt only for turns it has snapshots of, keeps its  *)
(* lineage within its row, and holds no gateway once it failed; the proof   *)
(* it reads from the host's database is settled, and a host that is still   *)
(* writing it is waited for (v4_live_session.py, v4_host_probe.py).         *)
SessionHolds ==
  /\ ReceiptsHaveSnapshots /\ LineageWithinRow /\ FailureReleasesGateway
  /\ ReturnIsSettled /\ ProbeIsPatient /\ TranscriptIsPaired
=============================================================================
