----------------------------- MODULE NormalRun -----------------------------
(***************************************************************************)
(* V4NormalGatewayRunner.execute(): one trial of one row, driven through a *)
(* LiveSession.  The fixture plugin is staged in the trial's home; on the  *)
(* restart row the session is closed after its first turn, the plugin is   *)
(* moved aside and the session resumed over a new gateway.                 *)
(***************************************************************************)
EXTENDS LiveSession

CONSTANTS
  ChildrenOf,    \* the row's tasks in a trial
  RestartRow     \* _RESTART_ROW

(* The restart row has turns on both sides of the restart, and no tasks.   *)
ASSUME RunAssumption ==
  /\ ChildrenOf \in [Rows -> 0..MaxTasks]
  /\ RestartRow \in Rows =>
       RowBudget[RestartRow] > 1 /\ ChildrenOf[RestartRow] = 0

VARIABLES
  run            \* where execute() is, its row, and the plugin's place

runVars == <<run, liveVars>>

(* The turns the fixture submits: the delivery turn of a row with tasks is *)
(* one of the row's turns, and is not submitted.                           *)
FixtureTurns(row) ==
  RowBudget[row] - (IF ChildrenOf[row] > 0 THEN 1 ELSE 0)

(* Mutant: the session is planned for the submitted turns alone. *)
PlannedFixture(row) == FixtureTurns(row)

(* The turns and calls the session is planned for: the delivery turn is    *)
(* one of them.                                                            *)
PlannedTurns(row) == RowBudget[row]

NoRun == [pc |-> "none"]

RunInit ==
  /\ \E row \in Rows :
       /\ run = [pc |-> "stage", row |-> row, done |-> 0, ok |-> FALSE,
                 plugin |-> "absent", stuck |-> FALSE]
       /\ live = NewSession(PlannedTurns(row), FALSE)
       /\ gate = NewGate(IF ChildrenOf[row] = 0 THEN 1 ELSE 2,
                         ChildrenOf[row])
  /\ ledger = [receipts |-> <<>>, rowTurns |-> [r \in Rows |-> 0],
               row |-> NoRow, calls |-> 0]
  /\ turn = NoTurn /\ snapshots = <<>> /\ ids = 0 /\ restarts = 0

At(pc) == run.pc = pc
Go(pc) == run' = [run EXCEPT !.pc = pc]
Failed == live'.failed
GoUnless(pc) == Go(IF Failed THEN "unwind" ELSE pc)

(* _admit(), the directories and _stage_plugin(), which refuses a home     *)
(* that has the plugin; a copy that fails half-way is left.                *)
Stage ==
  /\ At("stage") /\ UNCHANGED liveVars
  /\ \/ run' = [run EXCEPT !.pc = "start", !.plugin = "staged"]
     \/ \E left \in {"absent", "partial"} :
          run' = [run EXCEPT !.pc = "restore", !.plugin = left]

RunStart == At("start") /\ Start /\ GoUnless("inventory")
RunVerify == At("inventory") /\ VerifyToolInventory /\ GoUnless("turns")

(* Mutant: no row is taken for the restart row. *)
RestartNever == FALSE

RestartDue == run.row = RestartRow /\ run.done = 1 /\ restarts = 0

TurnsLeft == run.done < FixtureTurns(run.row)

(* The loop over the fixture's turns; materialize() may fail, too.         *)
NextTurn ==
  /\ At("turns") /\ ~RestartDue /\ TurnsLeft
  /\ \/ \E d \in {"allow", "deny"} :
          RunTurn(run.row, d) /\ GoUnless("inTurn")
     \/ Go("unwind") /\ UNCHANGED liveVars

(* The delivery turn of a row with tasks comes last.                       *)
Delivery ==
  /\ At("turns") /\ ~TurnsLeft /\ run.done < RowBudget[run.row]
  /\ ObserveDeliveryTurn(run.row) /\ GoUnless("inTurn")

InTurn ==
  /\ At("inTurn") /\ Execute
  /\ run' = [run EXCEPT
       !.pc = IF Failed THEN "unwind"
              ELSE IF turn' = NoTurn THEN "turns" ELSE "inTurn",
       !.done = IF turn' = NoTurn /\ ~Failed THEN @ + 1 ELSE @]

(* The restart: close, move the plugin aside, resume over a new gateway.   *)
RestartCloses ==
  /\ At("turns") /\ RestartDue /\ CloseSession /\ GoUnless("disable")
Disable ==
  /\ At("disable") /\ UNCHANGED liveVars
  /\ \/ run' = [run EXCEPT !.pc = "resume", !.plugin = "aside"]
     \/ Go("unwind")
Resume ==
  /\ At("resume")
  /\ \/ /\ Restart /\ live'.planned = live.planned /\ Go("start")
     \/ Go("unwind") /\ UNCHANGED liveVars

(* collect_host_observation(), after the last turn. *)
HostObservation ==
  /\ At("turns") /\ run.done = RowBudget[run.row] /\ Collect
  /\ run' = [run EXCEPT !.pc = "unwind", !.ok = ~Failed]

(* The inner finally clause: the session that is current is closed.        *)
Unwind ==
  /\ At("unwind")
  /\ \/ CloseSession
     \/ live.closed /\ UNCHANGED liveVars
  /\ Go(IF run.ok /\ ~Failed THEN "delegation" ELSE "restore")

(* The delegations are collected from the closed session.                  *)
DelegationObservation ==
  /\ At("delegation") /\ Collect
  /\ Go(IF Failed THEN "restore" ELSE "compose")

(* _trace(): one snapshot for each attempt, and the same events in both.   *)
AccountsAgree ==
  /\ Len(snapshots) = Len(ledger.receipts)
  /\ \A i \in 1..Len(snapshots) : snapshots[i] = ledger.receipts[i].events

(* _trace(), _delegation(), the local observations and the packets: any of *)
(* them may refuse the trial.                                              *)
Compose ==
  /\ At("compose") /\ UNCHANGED liveVars
  /\ \/ AccountsAgree /\ Go("passed")
     \/ Go("restore")

(* Mutant: the plugin goes back only after a failure. *)
PutBackIfFailed == run.plugin = "aside" /\ ~At("passed")

PutBack == run.plugin = "aside"

(* The outer finally clause, on every way out; the rename may fail.        *)
RestorePlugin ==
  /\ run.pc \in {"passed", "restore"} /\ UNCHANGED liveVars
  /\ LET end(ok) == IF ok /\ At("passed") THEN "ended passed"
                    ELSE "ended failed"
     IN  \/ ~PutBack /\ Go(end(TRUE))
         \/ /\ PutBack
            /\ run' = [run EXCEPT !.pc = end(TRUE), !.plugin = "staged"]
         \/ /\ PutBack
            /\ run' = [run EXCEPT !.pc = end(FALSE), !.stuck = TRUE]

RunNext ==
  \/ Stage \/ RunStart \/ RunVerify \/ NextTurn \/ Delivery \/ InTurn
  \/ RestartCloses \/ Disable \/ Resume \/ HostObservation \/ Unwind
  \/ DelegationObservation \/ Compose \/ RestorePlugin

(* Every wait of the runner has a deadline.                                *)
RunFairness == WF_runVars(RunNext)

TrialEnded == run.pc \in {"ended passed", "ended failed"}

-----------------------------------------------------------------------------
(* The runner never asks its session for more than the row allows: when it *)
(* begins a turn, submitted or delivered, also after the restart, the      *)
(* session has the turn and the call left and is bound to that row.        *)
RunnerKeepsBudget ==
  (At("turns") /\ run.done < RowBudget[run.row] /\ ~RestartDue) =>
    /\ Budgeted /\ RowAdmits(run.row)
    /\ ledger.row \in {NoRow, run.row} /\ run.done = Len(ledger.receipts)

(* A trial that passes is whole: as many receipts as the row has turns,    *)
(* each with its own snapshot in order, every task of the delegation       *)
(* complete when its delivery was observed, the restart made where the row *)
(* asks for it; and what it used is given back.                            *)
PassedTrialIsWhole ==
  run.pc = "ended passed" =>
    /\ Len(ledger.receipts) = RowBudget[run.row] /\ AccountsAgree
    /\ restarts = (IF run.row = RestartRow THEN 1 ELSE 0)
    /\ ChildrenOf[run.row] > 0 =>
         /\ gate.observer.taskCount = ChildrenOf[run.row]
         /\ AllComplete(gate.observer)

(* However a trial ends, no gateway is left open and the fixture plugin is *)
(* not left aside, unless moving it back was what failed.                  *)
TrialCleansUp ==
  TrialEnded => ~gate.open /\ (run.plugin = "aside" => run.stuck)

(* Every trial ends, also when the gateway says nothing any more. *)
TrialEnds == At("stage") ~> TrialEnded

(* The runner of a trial stays within the row's turns, passes only a whole  *)
(* trial, and puts the plugin and the gateway back                          *)
(* (v4_normal_gateway_runner.py).                                           *)
TrialHolds == RunnerKeepsBudget /\ PassedTrialIsWhole /\ TrialCleansUp
=============================================================================
