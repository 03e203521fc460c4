---------------------------- MODULE ParityRunner ----------------------------
(***************************************************************************)
(* run_catalog_async of parity/runner.py: the resumable execution of a     *)
(* catalog of capabilities, with one file per result packet and a ledger,  *)
(* run-manifest.json, of the packets and of the turns they cost.           *)
(*                                                                         *)
(* A step is one effect that survives the process (a packet written, the   *)
(* ledger replaced, turns spent by an executor) or one move of its loops.  *)
(* A crash, or a KeyboardInterrupt, may come between any two; both files   *)
(* are replaced atomically by rename.                                      *)
(*                                                                         *)
(* Each capability has an execution id of its own.  The bundle and outcome *)
(* caches then only repeat what is on disk, and are not modelled.  All     *)
(* hashes match: one candidate, one catalog.                               *)
(***************************************************************************)
EXTENDS Naturals, Sequences, FiniteSets

CONSTANTS Caps,       \* capabilities
          Work,       \* the required <<capability, path>> pairs, in order
          Bundled,    \* capabilities whose executor returns all three paths
          Registered, \* capabilities that have an executor
          Passes,     \* consecutive passes their repeat policy asks for
          Classes,    \* the classifications executors return; "invalid" is
                      \* an outcome that ResultPacket.build() rejects
          MaxTrials,  \* max_trials_per_path
          Budget,     \* _TURN_BUDGETS[lane]
          MaxCost,    \* bound on the turns of one execution
          Honest,     \* executors keep within the remaining budget
          MaxCrashes, \* bound on the crashes
          MaxRuns     \* bound on the invocations

Paths == {"positive", "denial", "recovery"}
PathOrder == <<"positive", "denial", "recovery">>
Keys == Caps \X Paths \X (1..MaxTrials)

ASSUME RunnerAssumption ==
  /\ Work \in Seq(Caps \X Paths)
  /\ Bundled \subseteq Registered /\ Registered \subseteq Caps
  /\ Passes \in [Caps -> Nat \ {0}]
  /\ Classes \subseteq {"pass", "fail", "blocked", "invalid"}
  /\ MaxTrials \in Nat /\ MaxTrials >= 3
  /\ {Budget, MaxCost, MaxCrashes, MaxRuns} \subseteq Nat
  /\ Honest \in BOOLEAN

VARIABLES disk,     \* the classification in each packet file, or "absent"
          manifest, \* run-manifest.json
          proc,     \* what the process is doing
          at,       \* its place in Work
          trial,    \* trial_index
          target,   \* target of the path
          scenario, \* scenario_repeat_targets
          known,    \* checkpoint_packets
          used,     \* used_turns: the sum of the receipts in memory
          cost,     \* turns of the execution in progress
          writes,   \* packets of it still to be written
          crashes,  \* crashes so far
          runs      \* invocations so far

memory == <<at, trial, target, scenario, known, used, cost, writes>>
counters == <<crashes, runs>>
vars == <<disk, manifest, proc, memory, counters>>

Packets == {"absent", "pass", "fail", "blocked", "pending"}
Writable == {"pass", "fail", "blocked", "pending", "invalid"}
Procs == {"stopped", "lookup", "executing", "saving", "advance", "finished",
          "refused"}

TypeOK ==
  /\ disk \in [Keys -> Packets]
  /\ manifest \in [exists : BOOLEAN, keys : SUBSET Keys, turns : Nat]
  /\ proc \in Procs
  /\ at \in 1..(Len(Work) + 1)
  /\ trial \in 1..MaxTrials
  /\ target \in Nat
  /\ scenario \in [Caps -> 1..MaxTrials]
  /\ known \in SUBSET Keys
  /\ {used, cost, crashes, runs} \subseteq Nat
  /\ writes \in Seq(Keys \X Writable)

Existing == {k \in Keys : disk[k] # "absent"}
Larger(a, b) == IF a >= b THEN a ELSE b
Smaller(a, b) == IF a <= b THEN a ELSE b

Cap == Work[at][1]
Here == <<Cap, Work[at][2], trial>>

(* The memory of a process that has not started, or has ended. *)
Blank ==
  /\ at' = 1 /\ trial' = 1 /\ target' = 0
  /\ scenario' = [c \in Caps |-> 1]
  /\ known' = {} /\ used' = 0 /\ cost' = 0 /\ writes' = <<>>

Init ==
  /\ disk = [k \in Keys |-> "absent"]
  /\ manifest = [exists |-> FALSE, keys |-> {}, turns |-> 0]
  /\ proc = "stopped"
  /\ at = 1 /\ trial = 1 /\ target = 0
  /\ scenario = [c \in Caps |-> 1]
  /\ known = {} /\ used = 0 /\ cost = 0 /\ writes = <<>>
  /\ crashes = 0 /\ runs = 0
-----------------------------------------------------------------------------
(* The invocation: --resume or not.                                        *)

Fresh == ~manifest.exists /\ Existing = {}

(* Mutant: the packets on disk are trusted whatever the ledger lists. *)
ResumableUnchecked == manifest.exists \/ Existing = {}

(* The ledger must list exactly the packets on disk. *)
Resumable ==
  IF manifest.exists THEN manifest.keys = Existing ELSE Existing = {}

TargetOf(c, scen) == Larger(Passes[c], scen[c])

(* The target a path of the work starts with; none after the last. *)
TargetAt(i, scen) ==
  IF i <= Len(Work) THEN TargetOf(Work[i][1], scen) ELSE 0

Start ==
  /\ proc \in {"stopped", "finished", "refused"}
  /\ runs < MaxRuns
  /\ runs' = runs + 1
  /\ Fresh \/ Resumable
  /\ proc' = "lookup"
  /\ at' = 1 /\ trial' = 1
  /\ scenario' = [c \in Caps |-> 1]
  /\ target' = TargetAt(1, scenario')
  /\ known' = Existing
  /\ used' = manifest.turns
  /\ cost' = 0 /\ writes' = <<>>
  /\ UNCHANGED <<disk, manifest, crashes>>

(* Neither a fresh run nor a resumed one accepts the directory. *)
Refuse ==
  /\ proc \in {"stopped", "finished", "refused"}
  /\ runs < MaxRuns
  /\ runs' = runs + 1
  /\ ~Fresh /\ ~Resumable
  /\ proc' = "refused"
  /\ Blank
  /\ UNCHANGED <<disk, manifest, crashes>>
-----------------------------------------------------------------------------
(* One trial of one path.                                                  *)

Pending == at <= Len(Work) /\ trial <= target

(* A packet of this trial exists, from this run or an earlier one. *)
Found ==
  /\ proc = "lookup"
  /\ Pending
  /\ disk[Here] # "absent"
  /\ proc' = "advance"
  /\ UNCHANGED <<disk, manifest, memory, counters>>

(* An unknown execution id leaves a pending packet. *)
Unregistered ==
  /\ proc = "lookup"
  /\ Pending
  /\ disk[Here] = "absent"
  /\ Cap \notin Registered
  /\ proc' = "saving"
  /\ writes' = <<<<Here, "pending">>>>
  /\ UNCHANGED <<disk, manifest, at, trial, target, scenario, known, used,
                 cost, counters>>

Remaining == Budget - used

(* The executor runs live turns; nothing records them until it returns. *)
Execute ==
  /\ proc = "lookup"
  /\ Pending
  /\ disk[Here] = "absent"
  /\ Cap \in Registered
  /\ proc' = "executing"
  /\ \E n \in 0..MaxCost :
       /\ Honest => n <= Remaining
       /\ cost' = n
  /\ UNCHANGED <<disk, manifest, at, trial, target, scenario, known, used,
                 writes, counters>>

(* The packets of an execution, in the order they are written. *)
Outcome ==
  IF Cap \in Bundled
    THEN {[i \in 1..3 |-> <<<<Cap, PathOrder[i], trial>>, o[i]>>] :
            o \in [1..3 -> Classes]}
    ELSE {<<<<Here, o>>>> : o \in Classes}

(* Mutant: the turn count of an outcome is not validated. *)
AnyCost == TRUE

(* _validate_executor_result(). *)
WithinBudget == cost <= Remaining

ExecutorReturns ==
  /\ proc = "executing"
  /\ WithinBudget
  /\ used' = used + cost
  /\ cost' = 0
  /\ writes' \in Outcome
  /\ proc' = "saving"
  /\ UNCHANGED <<disk, manifest, at, trial, target, scenario, known, counters>>

(* More turns than were left: the run ends with a violation. *)
ExecutorOverspends ==
  /\ proc = "executing"
  /\ ~WithinBudget
  /\ proc' = "refused"
  /\ Blank
  /\ UNCHANGED <<disk, manifest, counters>>

(* An exception is a failure of this one path, with a turn count of 0. *)
ExecutorRaises ==
  /\ proc = "executing"
  /\ cost' = 0
  /\ writes' = <<<<Here, "fail">>>>
  /\ proc' = "saving"
  /\ UNCHANGED <<disk, manifest, at, trial, target, scenario, known, used,
                 counters>>

WritePacket ==
  /\ proc = "saving"
  /\ writes # <<>>
  /\ LET k == Head(writes)[1]
     IN  /\ disk[k] = "absent"
         /\ Head(writes)[2] # "invalid"
         /\ disk' = [disk EXCEPT ![k] = Head(writes)[2]]
         /\ known' = known \cup {k}
  /\ writes' = Tail(writes)
  /\ UNCHANGED <<manifest, proc, at, trial, target, scenario, used, cost,
                 counters>>

(* A packet of a combined execution exists: runner.py:594-597. *)
PartialBundle ==
  /\ proc = "saving"
  /\ writes # <<>>
  /\ disk[Head(writes)[1]] # "absent"
  /\ proc' = "refused"
  /\ Blank
  /\ UNCHANGED <<disk, manifest, counters>>

(* build_packet() rejects the outcome; the packets before it stay. *)
InvalidPacket ==
  /\ proc = "saving"
  /\ writes # <<>>
  /\ disk[Head(writes)[1]] = "absent"
  /\ Head(writes)[2] = "invalid"
  /\ proc' = "refused"
  /\ Blank
  /\ UNCHANGED <<disk, manifest, counters>>

(* Mutant: a bundle enters the ledger only with the path that asked for it. *)
LedgerOfPath ==
  [exists |-> TRUE, turns |-> used,
   keys |-> IF at > Len(Work) THEN manifest.keys
                              ELSE manifest.keys \cup {Here}]

(* checkpoint_manifest(): the packets and receipts this process knows. *)
Ledger == [exists |-> TRUE, keys |-> known, turns |-> used]

(* Mutant: the trials are not capped. *)
RetryUncapped(n) == Larger(n, trial + 3)

(* A target that leaves room for three passes after this trial. *)
Retry(n) == Smaller(MaxTrials, Larger(n, trial + 3))

(* A failure anywhere in a bundle.  The three packets of a bundle are new   *)
(* to the ledger; the packet of an executor that raised is a single one.    *)
BundleFailed ==
  LET bundle == {<<Cap, p, trial>> : p \in Paths}
  IN  /\ Cap \in Bundled
      /\ bundle \subseteq known \ manifest.keys
      /\ \E k \in bundle : disk[k] = "fail"

(* The ledger, and the retries that a failed bundle asks for. *)
Checkpoint ==
  /\ proc = "saving"
  /\ writes = <<>>
  /\ manifest' = Ledger
  /\ scenario' = IF BundleFailed THEN [scenario EXCEPT ![Cap] = Retry(@)]
                                 ELSE scenario
  /\ target' = IF BundleFailed THEN Larger(target, scenario'[Cap]) ELSE target
  /\ proc' = "advance"
  /\ UNCHANGED <<disk, at, trial, known, used, cost, writes, counters>>
-----------------------------------------------------------------------------
(* The next trial, the next path, the end.                                 *)

(* Mutant: a failure asks for no more trials. *)
TargetUnchanged == target

TargetAfter == IF disk[Here] = "fail" THEN Retry(target) ELSE target

(* Mutant: a failed trial is taken up again. *)
SameTrial == IF disk[Here] = "fail" THEN trial ELSE trial + 1

TrialAfter == trial + 1

(* A pending or blocked trial ends its path. *)
Stops == disk[Here] \in {"pending", "blocked"}

NextTrial ==
  /\ proc = "advance"
  /\ ~Stops
  /\ target' = TargetAfter
  /\ trial < Smaller(target', MaxTrials)
  /\ trial' = TrialAfter
  /\ proc' = "lookup"
  /\ UNCHANGED <<disk, manifest, at, scenario, known, used, cost, writes,
                 counters>>

NextPath ==
  /\ proc = "advance"
  /\ Stops \/ trial >= Smaller(TargetAfter, MaxTrials)
  /\ at' = at + 1
  /\ trial' = 1
  /\ target' = TargetAt(at + 1, scenario)
  /\ proc' = "lookup"
  /\ UNCHANGED <<disk, manifest, scenario, known, used, cost, writes,
                 counters>>

Finish ==
  /\ proc = "lookup"
  /\ at > Len(Work)
  /\ manifest' = Ledger
  /\ proc' = "finished"
  /\ Blank
  /\ UNCHANGED <<disk, counters>>

Crash ==
  /\ proc \notin {"stopped", "finished", "refused"}
  /\ crashes < MaxCrashes
  /\ crashes' = crashes + 1
  /\ proc' = "stopped"
  /\ Blank
  /\ UNCHANGED <<disk, manifest, runs>>
-----------------------------------------------------------------------------
Step ==
  \/ Found \/ Unregistered \/ Execute
  \/ ExecutorReturns \/ ExecutorOverspends \/ ExecutorRaises
  \/ WritePacket \/ PartialBundle \/ InvalidPacket \/ Checkpoint
  \/ NextTrial \/ NextPath \/ Finish

Next == Start \/ Refuse \/ Step \/ Crash

Spec == Init /\ [][Next]_vars

(* A running process goes on, and every executor returns or raises. *)
FairSpec == Spec /\ WF_vars(Step)
-----------------------------------------------------------------------------
(* Whenever an executor may be running, and when a run ends, the ledger    *)
(* lists the packets on disk and the turns counted so far: what            *)
(* validate_run_manifest() demands, and why an interruption inside an      *)
(* executor can be resumed.                                                *)
LedgerMatchesDisk ==
  /\ proc \in {"lookup", "executing", "finished"} => manifest.keys = Existing
  /\ proc \in {"lookup", "executing"} => manifest.turns = used

(* The turns of the receipts stay within the lane's budget, over all the   *)
(* runs in one directory and whatever an executor claims.                  *)
LedgerWithinBudget == manifest.turns <= Budget /\ used <= Budget

(* A combined execution is recorded for all three paths or for none: a     *)
(* run that was accepted never meets half of one.                          *)
BundlesWhole ==
  proc \in {"lookup", "executing", "advance", "finished"} =>
    \A c \in Bundled, n \in 1..MaxTrials :
      \A p, q \in Paths :
        disk[<<c, p, n>>] # "absent" /\ disk[<<c, p, n>>] # "fail" =>
          disk[<<c, q, n>>] # "absent"

(* What a run leaves on disk, whatever the executors do and wherever the   *)
(* process dies: whole bundles, a ledger of what is there, and the turns   *)
(* within the budget (run_catalog_async and checkpoint_manifest of         *)
(* runner.py).                                                             *)
LedgerHolds == BundlesWhole /\ LedgerMatchesDisk /\ LedgerWithinBudget

(* A verified failure is followed by the three trials a strict 3/3 needs,  *)
(* up to max_trials_per_path or a trial that stops the path.  Only of a    *)
(* run that was not interrupted: the scenario targets are not restored, so *)
(* a resumed run may end without retrying a failure in a bundle that a     *)
(* later path of the capability asked for.                                 *)
FailuresRetried ==
  proc = "finished" /\ runs = 1 =>
    \A i \in DOMAIN Work : \A n \in 1..MaxTrials :
      LET path(m) == disk[<<Work[i][1], Work[i][2], m>>]
      IN  path(n) = "fail" =>
            \A m \in n..Smaller(MaxTrials, n + 3) :
              \/ path(m) # "absent"
              \/ \E s \in 1..(m - 1) : path(s) \in {"blocked", "pending"}

(* runner.py:1, "Resume-safe execution": a directory left by a crash is     *)
(* accepted by the next run.                                               *)
ResumeSafe == proc \in {"stopped", "refused"} => Fresh \/ Resumable

(* A run ends, unless it crashes. *)
RunEnds == (proc = "lookup") ~> (proc \in {"finished", "refused", "stopped"})
=============================================================================
