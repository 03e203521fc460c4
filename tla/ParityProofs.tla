---------------------------- MODULE ParityProofs ----------------------------
(***************************************************************************)
(* Proofs about the parity campaign, for any catalog, any executors, any   *)
(* budget, any number of crashes and resumed runs, and any directory of    *)
(* packets: the runner (its ledger, and the retries of a run that is not   *)
(* interrupted), the graders, the partition validators, and the files that *)
(* are created once.                                                       *)
(***************************************************************************)
EXTENDS ParityVerdicts, SequenceTheorems, FiniteSetTheorems, TLAPS

Busy == {"lookup", "executing", "saving", "advance"}

(* The process has a path of the work while it works on a trial. *)
OnAPath == proc \in {"executing", "saving", "advance"} => at <= Len(Work)

(* The ledger lists packets that are on disk, and nothing before it is     *)
(* written; a running process knows every packet there is, and its ledger  *)
(* lags behind only while it saves.                                        *)
LedgerOfDisk ==
  /\ manifest.keys \subseteq Existing
  /\ ~manifest.exists => manifest.keys = {}
  /\ proc \in Busy => known = Existing
  /\ proc \in (Busy \ {"saving"}) \cup {"finished"} =>
       manifest.keys = Existing
  /\ proc \in Busy \ {"saving"} => manifest.turns = used

(* What has been or will be written of an execution. *)
Announced(k) ==
  k \in Existing \/ \E i \in DOMAIN writes : writes[i][1] = k

(* A bundle with a packet that no exception left is whole in the ledger,   *)
(* and on disk together with the packets that are being written.           *)
WholeInLedger ==
  \A c \in Bundled, n \in 1..MaxTrials : \A p, q \in Paths :
    <<c, p, n>> \in manifest.keys /\ disk[<<c, p, n>>] # "fail" =>
      <<c, q, n>> \in manifest.keys

WholeWithWrites ==
  proc = "saving" =>
    \A c \in Bundled, n \in 1..MaxTrials : \A p, q \in Paths :
      Announced(<<c, p, n>>) =>
        \/ disk[<<c, p, n>>] = "fail"
        \/ \E i \in DOMAIN writes : writes[i] = <<<<c, p, n>>, "fail">>
        \/ Announced(<<c, q, n>>)

RunnerInv ==
  /\ TypeOK /\ OnAPath /\ LedgerOfDisk /\ LedgerWithinBudget
  /\ WholeInLedger /\ WholeWithWrites
-----------------------------------------------------------------------------
(* Facts about the work and the helpers.                                   *)

(* An entry of the work is a capability and one of its paths. *)
LEMMA WorkEntry ==
  ASSUME NEW i \in Nat, 1 <= i, i <= Len(Work)
  PROVE  Work[i] \in Caps \X Paths
  BY RunnerAssumption

(* The packet of the trial at hand is one of the keys. *)
LEMMA HereIsKey ==
  ASSUME TypeOK, at <= Len(Work)
  PROVE  /\ Cap \in Caps /\ Work[at][2] \in Paths
         /\ Here \in Keys /\ Here = <<Cap, Work[at][2], trial>>
<1>1. at \in Nat /\ 1 <= at /\ trial \in 1..MaxTrials
  BY RunnerAssumption DEF TypeOK
<1>2. Work[at] \in Caps \X Paths
  BY <1>1, WorkEntry
<1> QED
  BY <1>1, <1>2 DEF Cap, Here, Keys

(* The retries a failure asks for are at least one and at most             *)
(* max_trials_per_path.                                                    *)
LEMMA RetryBound ==
  ASSUME TypeOK, NEW n \in Nat
  PROVE  Retry(n) \in 1..MaxTrials
  BY RunnerAssumption DEF TypeOK, Retry, Larger, Smaller

(* A path starts with a natural target, whatever the scenario asks for. *)
LEMMA TargetAtNat ==
  ASSUME NEW i \in Nat, 1 <= i, NEW s \in [Caps -> 1..MaxTrials]
  PROVE  TargetAt(i, s) \in Nat
<1>1. CASE i <= Len(Work)
  <2>1. Work[i][1] \in Caps
    BY <1>1, WorkEntry
  <2>2. Passes[Work[i][1]] \in Nat /\ s[Work[i][1]] \in Nat
    BY <2>1, RunnerAssumption
  <2> QED
    BY <1>1, <2>2 DEF TargetAt, TargetOf, Larger
<1>2. CASE ~(i <= Len(Work))
  BY <1>2 DEF TargetAt
<1> QED
  BY <1>1, <1>2

(* An execution announces packets of its own trial: all three of a bundle. *)
LEMMA OutcomeShape ==
  ASSUME TypeOK, at <= Len(Work), NEW w \in Outcome
  PROVE  /\ w \in Seq(Keys \X Writable)
         /\ \/ /\ Cap \notin Bundled /\ DOMAIN w = {1} /\ w[1][1] = Here
            \/ /\ Cap \in Bundled
               /\ \A i \in DOMAIN w : \E p \in Paths :
                    w[i][1] = <<Cap, p, trial>>
               /\ \A p \in Paths : \E i \in DOMAIN w :
                    w[i][1] = <<Cap, p, trial>>
<1>1. /\ Cap \in Caps /\ Here \in Keys /\ trial \in 1..MaxTrials
  BY HereIsKey DEF TypeOK
<1>2. Classes \subseteq Writable
  BY RunnerAssumption DEF Writable
<1>3. CASE Cap \in Bundled
  <2>1. PICK o \in [1..3 -> Classes] :
          w = [i \in 1..3 |-> <<<<Cap, PathOrder[i], trial>>, o[i]>>]
    BY <1>3 DEF Outcome
  <2>2. /\ PathOrder[1] = "positive" /\ PathOrder[2] = "denial"
        /\ PathOrder[3] = "recovery"
    BY DEF PathOrder
  <2>3. \A i \in 1..3 : PathOrder[i] \in Paths
    BY <2>2 DEF Paths
  <2>4. \A i \in 1..3 :
          w[i] \in Keys \X Writable
    BY <1>1, <1>2, <2>1, <2>3 DEF Keys
  <2>5. w \in Seq(Keys \X Writable)
    BY <2>1, <2>4
  <2>6. DOMAIN w = 1..3 /\ \A i \in 1..3 :
          w[i][1] = <<Cap, PathOrder[i], trial>>
    BY <2>1
  <2>7. \A p \in Paths : \E i \in 1..3 : PathOrder[i] = p
    BY <2>2 DEF Paths
  <2> QED
    BY <1>3, <2>3, <2>5, <2>6, <2>7
<1>4. CASE Cap \notin Bundled
  <2>1. PICK o \in Classes : w = <<<<Here, o>>>>
    BY <1>4 DEF Outcome
  <2> QED
    BY <1>1, <1>2, <1>4, <2>1
<1> QED
  BY <1>3, <1>4
-----------------------------------------------------------------------------
(* The inductive step.                                                     *)

(* A new directory has no packets and no ledger. *)
LEMMA RunnerInvInit == Init => RunnerInv
<1> SUFFICES ASSUME Init PROVE RunnerInv
  OBVIOUS
<1>1. TypeOK
  BY RunnerAssumption DEF Init, TypeOK, Packets, Procs
<1>2. Existing = {}
  BY DEF Init, Existing
<1> QED
  BY <1>1, <1>2, RunnerAssumption DEF Init, RunnerInv, OnAPath, LedgerOfDisk,
     LedgerWithinBudget, WholeInLedger, WholeWithWrites, Busy

(* A process that ends or dies loses its memory and changes no file. *)
LEMMA MemoryLost ==
  ASSUME RunnerInv, Blank, disk' = disk, manifest' = manifest,
         {crashes', runs'} \subseteq Nat,
         proc' \in {"stopped", "refused"}
  PROVE  RunnerInv'
<1>1. /\ at' \in 1..(Len(Work) + 1) /\ trial' \in 1..MaxTrials
      /\ scenario' \in [Caps -> 1..MaxTrials]
  BY RunnerAssumption DEF Blank
<1>2. TypeOK'
  BY <1>1 DEF RunnerInv, TypeOK, Blank, Procs
<1> QED
  BY <1>2, RunnerAssumption DEF RunnerInv, OnAPath, LedgerOfDisk, Existing,
     LedgerWithinBudget, WholeInLedger, WholeWithWrites, Busy, Blank

(* The moves of the loops change neither the files nor what is known of    *)
(* them.                                                                   *)
LEMMA LoopMoves ==
  ASSUME RunnerInv, TypeOK', OnAPath',
         proc \in Busy \ {"saving"}, proc' \in Busy \ {"saving"},
         UNCHANGED <<disk, manifest, known, used>>
  PROVE  RunnerInv'
  BY DEF RunnerInv, LedgerOfDisk, Existing, LedgerWithinBudget,
     WholeInLedger, WholeWithWrites, Busy

(* A run is accepted only in a directory whose ledger is true. *)
LEMMA StartKeeps == RunnerInv /\ Start => RunnerInv'
<1> SUFFICES ASSUME RunnerInv, Start PROVE RunnerInv'
  OBVIOUS
<1>1. scenario' \in [Caps -> 1..MaxTrials]
  BY RunnerAssumption DEF Start
<1>2. target' \in Nat
  BY <1>1, TargetAtNat DEF Start
<1>3. TypeOK'
  BY SMTT(60), <1>1, <1>2, RunnerAssumption
     DEF Start, RunnerInv, TypeOK, Procs,
     Existing
<1>4. manifest.keys = Existing
  BY DEF Start, Fresh, Resumable, RunnerInv, LedgerOfDisk
<1>5. Existing' = Existing
  BY DEF Start, Existing
<1>6. LedgerOfDisk' /\ OnAPath' /\ WholeWithWrites'
  BY <1>4, <1>5 DEF Start, LedgerOfDisk, OnAPath, WholeWithWrites, RunnerInv,
     Busy
<1>7. LedgerWithinBudget' /\ WholeInLedger'
  BY DEF Start, LedgerWithinBudget, WholeInLedger, RunnerInv
<1> QED
  BY <1>3, <1>6, <1>7 DEF RunnerInv

(* The packets of an execution are announced: whole bundles, the single    *)
(* packets of the other capabilities, and single failures.                 *)
LEMMA Announce ==
  ASSUME RunnerInv, TypeOK', LedgerWithinBudget', at <= Len(Work), at' = at,
         proc \in Busy \ {"saving"}, proc' = "saving",
         UNCHANGED <<disk, manifest, known>>,
         \/ /\ Cap \notin Bundled
            /\ \A i \in DOMAIN writes' : writes'[i][1] = Here
         \/ /\ Cap \in Bundled
            /\ \A i \in DOMAIN writes' : \E p \in Paths :
                 writes'[i][1] = <<Cap, p, trial>>
            /\ \A p \in Paths : \E i \in DOMAIN writes' :
                 writes'[i][1] = <<Cap, p, trial>>
         \/ \A i \in DOMAIN writes' : writes'[i] = <<Here, "fail">>
  PROVE  RunnerInv'
<1>1. Existing' = Existing /\ manifest.keys = Existing
  BY DEF RunnerInv, LedgerOfDisk, Existing, Busy
<1>2. LedgerOfDisk' /\ OnAPath' /\ WholeInLedger'
  BY <1>1 DEF RunnerInv, LedgerOfDisk, OnAPath, WholeInLedger, Busy
<1>3. ASSUME NEW c \in Bundled, NEW n \in 1..MaxTrials, NEW p \in Paths,
             NEW q \in Paths, Announced(<<c, p, n>>)'
      PROVE  \/ disk'[<<c, p, n>>] = "fail"
             \/ \E i \in DOMAIN writes' :
                  writes'[i] = <<<<c, p, n>>, "fail">>
             \/ Announced(<<c, q, n>>)'
  <2>1. CASE <<c, p, n>> \in Existing'
    BY <1>1, <2>1 DEF RunnerInv, WholeInLedger, Announced
  <2>2. ASSUME NEW i \in DOMAIN writes', writes'[i][1] = <<c, p, n>>
        PROVE  \/ writes'[i] = <<<<c, p, n>>, "fail">>
               \/ Announced(<<c, q, n>>)'
    <3>0. Here = <<Cap, Work[at][2], trial>>
      BY DEF Here
    <3>1. CASE Cap \notin Bundled /\ \A j \in DOMAIN writes' :
                 writes'[j][1] = Here
      BY <2>2, <3>0, <3>1
    <3>2. CASE /\ \A j \in DOMAIN writes' : \E r \in Paths :
                    writes'[j][1] = <<Cap, r, trial>>
               /\ \A r \in Paths : \E j \in DOMAIN writes' :
                    writes'[j][1] = <<Cap, r, trial>>
      <4>1. c = Cap /\ n = trial
        BY <2>2, <3>2
      <4> QED
        BY <3>2, <4>1 DEF Announced
    <3>3. CASE \A j \in DOMAIN writes' : writes'[j] = <<Here, "fail">>
      BY <2>2, <3>3
    <3> QED
      BY <3>1, <3>2, <3>3
  <2> QED
    BY <1>3, <2>1, <2>2 DEF Announced
<1>4. WholeWithWrites'
  BY <1>3 DEF WholeWithWrites
<1> QED
  BY <1>2, <1>4 DEF RunnerInv

(* A packet that is written was announced, and was not there before. *)
LEMMA WriteKeeps == RunnerInv /\ WritePacket => RunnerInv'
<1> SUFFICES ASSUME RunnerInv, WritePacket PROVE RunnerInv'
  OBVIOUS
<1> DEFINE k == Head(writes)[1]
           v == Head(writes)[2]
<1>1. /\ writes # <<>> /\ writes \in Seq(Keys \X Writable)
      /\ proc = "saving" /\ proc' = "saving"
      /\ disk[k] = "absent" /\ v # "invalid"
      /\ disk' = [disk EXCEPT ![k] = v] /\ known' = known \cup {k}
      /\ writes' = Tail(writes)
      /\ UNCHANGED <<manifest, at, trial, target, scenario, used, cost,
                     counters>>
  BY DEF WritePacket, RunnerInv, TypeOK
<1>2. /\ k \in Keys /\ v \in Packets \ {"absent"}
      /\ Head(writes) = <<k, v>>
      /\ Head(writes) = writes[1]
  <2>1. Head(writes) \in Keys \X Writable
    BY <1>1, HeadTailProperties
  <2>2. Head(writes) = writes[1]
    BY <1>1
  <2>3. k \in Keys /\ v \in Writable /\ Head(writes) = <<k, v>>
    BY <2>1
  <2>4. v \in Packets \ {"absent"}
    BY <1>1, <2>3 DEF Packets, Writable
  <2> QED
    BY <2>2, <2>3, <2>4
<1>3. /\ writes' \in Seq(Keys \X Writable)
      /\ \A i \in DOMAIN writes' :
           i + 1 \in DOMAIN writes /\ writes'[i] = writes[i + 1]
      /\ \A i \in DOMAIN writes :
           i = 1 \/ (i - 1 \in DOMAIN writes' /\ writes'[i - 1] = writes[i])
      /\ 1 \in DOMAIN writes
  BY <1>1, HeadTailProperties
<1>4. TypeOK'
  BY <1>1, <1>2, <1>3 DEF RunnerInv, TypeOK, counters
<1>5. Existing' = Existing \cup {k} /\ k \notin Existing
  <2>1. disk \in [Keys -> Packets]
    BY DEF RunnerInv, TypeOK
  <2>2. disk' = [disk EXCEPT ![k] = v] /\ disk[k] = "absent"
    BY <1>1
  <2> QED
    BY <1>2, <2>1, <2>2 DEF Existing
<1>6. manifest.keys \subseteq Existing /\ manifest' = manifest
  BY <1>1 DEF RunnerInv, LedgerOfDisk
<1>7. LedgerOfDisk'
  BY <1>1, <1>5, <1>6 DEF RunnerInv, LedgerOfDisk, Busy
<1>8. \A l \in Keys : l # k => disk'[l] = disk[l]
  BY <1>1 DEF RunnerInv, TypeOK
<1>9. WholeInLedger'
  <2>1. \A l \in manifest.keys : disk'[l] = disk[l]
    BY <1>5, <1>6, <1>8 DEF Existing
  <2> QED
    BY <1>6, <2>1 DEF RunnerInv, WholeInLedger
<1>10. \A l : Announced(l)' <=> Announced(l)
  BY <1>2, <1>3, <1>5 DEF Announced
<1>11. ASSUME NEW c \in Bundled, NEW n \in 1..MaxTrials, NEW p \in Paths,
              NEW q \in Paths, Announced(<<c, p, n>>)'
       PROVE  \/ disk'[<<c, p, n>>] = "fail"
              \/ \E i \in DOMAIN writes' :
                   writes'[i] = <<<<c, p, n>>, "fail">>
              \/ Announced(<<c, q, n>>)'
  <2>1. <<c, p, n>> \in Keys
    BY RunnerAssumption DEF Keys
  <2>2. \/ disk[<<c, p, n>>] = "fail"
        \/ \E i \in DOMAIN writes : writes[i] = <<<<c, p, n>>, "fail">>
        \/ Announced(<<c, q, n>>)
    BY <1>1, <1>10, <1>11 DEF RunnerInv, WholeWithWrites
  <2>3. CASE disk[<<c, p, n>>] = "fail"
    BY <1>1, <1>8, <2>1, <2>3
  <2>4. ASSUME NEW i \in DOMAIN writes,
               writes[i] = <<<<c, p, n>>, "fail">>
        PROVE  \/ disk'[<<c, p, n>>] = "fail"
               \/ \E j \in DOMAIN writes' :
                    writes'[j] = <<<<c, p, n>>, "fail">>
    <3>1. CASE i = 1
      BY <1>1, <1>2, <2>1, <2>4, <3>1 DEF RunnerInv, TypeOK
    <3>2. CASE i # 1
      BY <1>3, <2>4, <3>2
    <3> QED
      BY <3>1, <3>2
  <2> QED
    BY <1>10, <2>2, <2>3, <2>4
<1>12. WholeWithWrites'
  BY <1>11 DEF WholeWithWrites
<1>13. OnAPath' /\ LedgerWithinBudget'
  BY <1>1, <1>6 DEF RunnerInv, OnAPath, LedgerWithinBudget
<1> QED
  BY <1>4, <1>7, <1>9, <1>12, <1>13 DEF RunnerInv

(* The ledger is replaced when all that was announced is on disk. *)
LEMMA CheckpointKeeps == RunnerInv /\ Checkpoint => RunnerInv'
<1> SUFFICES ASSUME RunnerInv, Checkpoint PROVE RunnerInv'
  OBVIOUS
<1>1. /\ proc = "saving" /\ writes = <<>> /\ proc' = "advance"
      /\ manifest' = [exists |-> TRUE, keys |-> known, turns |-> used]
      /\ known = Existing /\ at <= Len(Work)
      /\ UNCHANGED <<disk, at, trial, known, used, cost, writes, counters>>
  BY DEF Checkpoint, Ledger, RunnerInv, LedgerOfDisk, OnAPath, Busy
<1>2. Cap \in Caps
  BY <1>1, HereIsKey DEF RunnerInv
<1>3. scenario \in [Caps -> 1..MaxTrials] /\ target \in Nat
  BY DEF RunnerInv, TypeOK
<1>4. scenario' \in [Caps -> 1..MaxTrials]
  <2>1. scenario[Cap] \in Nat
    BY <1>2, <1>3
  <2>2. Retry(scenario[Cap]) \in 1..MaxTrials
    BY <2>1, RetryBound DEF RunnerInv
  <2> QED
    BY <1>2, <1>3, <2>2 DEF Checkpoint
<1>5. target' \in Nat
  <2>1. scenario'[Cap] \in Nat
    BY <1>2, <1>4
  <2> QED
    BY <1>3, <2>1 DEF Checkpoint, Larger
<1>6. TypeOK'
  <2>1. used \in Nat /\ known \in SUBSET Keys
    BY DEF RunnerInv, TypeOK
  <2>2. manifest' \in [exists : BOOLEAN, keys : SUBSET Keys, turns : Nat]
    BY <1>1, <2>1
  <2> QED
    BY <1>1, <1>4, <1>5, <2>2 DEF RunnerInv, TypeOK, counters, Procs
<1>7. Existing' = Existing
  BY <1>1 DEF Existing
<1>8. LedgerOfDisk' /\ OnAPath' /\ LedgerWithinBudget' /\ WholeWithWrites'
  BY <1>1, <1>7 DEF RunnerInv, LedgerOfDisk, OnAPath, LedgerWithinBudget,
     WholeWithWrites, Busy
<1>9. \A k : Announced(k) <=> k \in Existing
  BY <1>1 DEF Announced
<1>10. WholeInLedger'
  BY <1>1, <1>9 DEF RunnerInv, WholeWithWrites, WholeInLedger
<1> QED
  BY <1>6, <1>8, <1>10 DEF RunnerInv

(* The ledger of a run that ends is the one it had. *)
LEMMA FinishKeeps == RunnerInv /\ Finish => RunnerInv'
<1> SUFFICES ASSUME RunnerInv, Finish PROVE RunnerInv'
  OBVIOUS
<1>1. /\ proc = "lookup" /\ proc' = "finished" /\ Blank
      /\ manifest' = [exists |-> TRUE, keys |-> known, turns |-> used]
      /\ known = Existing /\ manifest.keys = Existing
      /\ manifest.turns = used /\ UNCHANGED <<disk, counters>>
  BY DEF Finish, Ledger, RunnerInv, LedgerOfDisk, Busy
<1>2. /\ at' \in 1..(Len(Work) + 1) /\ trial' \in 1..MaxTrials
      /\ scenario' \in [Caps -> 1..MaxTrials]
  BY <1>1, RunnerAssumption DEF Blank
<1>3. TypeOK'
  <2>1. used \in Nat /\ known \in SUBSET Keys
    BY DEF RunnerInv, TypeOK
  <2>2. manifest' \in [exists : BOOLEAN, keys : SUBSET Keys, turns : Nat]
    BY <1>1, <2>1
  <2> QED
    BY <1>1, <1>2, <2>2 DEF RunnerInv, TypeOK, counters, Procs, Blank
<1>4. Existing' = Existing
  BY <1>1 DEF Existing
<1> QED
  BY <1>1, <1>3, <1>4, RunnerAssumption DEF RunnerInv, LedgerOfDisk, OnAPath,
     LedgerWithinBudget, WholeWithWrites, WholeInLedger, Busy, Blank

(* Every step of the runner keeps the ledger true to the disk, the turns   *)
(* within the budget and the bundles whole.                                *)
LEMMA RunnerInvStep == RunnerInv /\ [Next]_vars => RunnerInv'
<1> SUFFICES ASSUME RunnerInv, [Next]_vars PROVE RunnerInv'
  OBVIOUS
<1>0. TypeOK /\ OnAPath
  BY DEF RunnerInv
<1>1. CASE Start
  BY <1>1, StartKeeps
<1>2. CASE Refuse
  BY <1>0, <1>2, MemoryLost DEF Refuse, TypeOK
<1>3. CASE Found
  <2>1. TypeOK' /\ OnAPath'
    BY <1>0, <1>3 DEF Found, Pending, TypeOK, OnAPath, memory, counters,
       Procs
  <2> QED
    BY <1>3, <2>1, LoopMoves DEF Found, Busy, memory
<1>4. CASE Unregistered
  <2>1. at <= Len(Work) /\ Here \in Keys
    BY <1>0, <1>4, HereIsKey DEF Unregistered, Pending
  <2>2. TypeOK'
    BY <1>0, <1>4, <2>1 DEF Unregistered, TypeOK, counters, Procs, Writable
  <2>3. Cap \notin Bundled /\ \A i \in DOMAIN writes' : writes'[i][1] = Here
    BY <1>4, RunnerAssumption DEF Unregistered
  <2>4. LedgerWithinBudget'
    BY <1>4 DEF Unregistered, RunnerInv, LedgerWithinBudget
  <2> QED
    BY <1>4, <2>1, <2>2, <2>3, <2>4, Announce DEF Unregistered, Busy
<1>5. CASE Execute
  <2>0. cost' \in Nat
    BY <1>5, RunnerAssumption DEF Execute
  <2>1. TypeOK' /\ OnAPath'
    BY <1>0, <1>5, <2>0 DEF Execute, Pending, TypeOK, OnAPath, counters,
       Procs
  <2> QED
    BY <1>5, <2>1, LoopMoves DEF Execute, Busy
<1>6. CASE ExecutorReturns
  <2>1. at <= Len(Work) /\ writes' \in Outcome
    BY <1>0, <1>6 DEF ExecutorReturns, OnAPath
  <2>2. TypeOK'
    BY SMTT(60), <1>0, <1>6, <2>1, OutcomeShape
       DEF ExecutorReturns, TypeOK, counters,
       Procs
  <2>3. LedgerWithinBudget'
    BY SMTT(60), <1>0, <1>6, RunnerAssumption
       DEF ExecutorReturns, WithinBudget,
       Remaining, RunnerInv, LedgerWithinBudget, TypeOK
  <2> QED
    BY <1>0, <1>6, <2>1, <2>2, <2>3, OutcomeShape, Announce
    DEF ExecutorReturns, Busy
<1>7. CASE ExecutorOverspends
  BY <1>0, <1>7, MemoryLost DEF ExecutorOverspends, TypeOK, counters
<1>8. CASE ExecutorRaises
  <2>1. at <= Len(Work) /\ Here \in Keys
    BY <1>0, <1>8, HereIsKey DEF ExecutorRaises, OnAPath
  <2>2. TypeOK'
    BY <1>0, <1>8, <2>1 DEF ExecutorRaises, TypeOK, counters, Procs,
       Writable
  <2>3. \A i \in DOMAIN writes' : writes'[i] = <<Here, "fail">>
    BY <1>8 DEF ExecutorRaises
  <2>4. LedgerWithinBudget'
    BY <1>8 DEF ExecutorRaises, RunnerInv, LedgerWithinBudget
  <2> QED
    BY <1>8, <2>1, <2>2, <2>3, <2>4, Announce DEF ExecutorRaises, Busy
<1>9. CASE WritePacket
  BY <1>9, WriteKeeps
<1>10. CASE PartialBundle
  BY <1>0, <1>10, MemoryLost DEF PartialBundle, TypeOK, counters
<1>11. CASE InvalidPacket
  BY <1>0, <1>11, MemoryLost DEF InvalidPacket, TypeOK, counters
<1>12. CASE Checkpoint
  BY <1>12, CheckpointKeeps
<1>13. CASE NextTrial
  <2>0. target \in Nat
    BY <1>0 DEF TypeOK
  <2>1. target' \in Nat
    <3>0. Retry(target) \in 1..MaxTrials
      BY <1>0, <2>0, RetryBound
    <3>1. Retry(target) \in Nat
      BY <3>0
    <3> QED
      BY <1>13, <2>0, <3>1 DEF NextTrial, TargetAfter
  <2>2. trial' \in 1..MaxTrials
    BY <1>0, <1>13, <2>1, RunnerAssumption DEF NextTrial, TrialAfter,
       Smaller, TypeOK
  <2>3. TypeOK' /\ OnAPath'
    BY <1>0, <1>13, <2>1, <2>2 DEF NextTrial, TypeOK, OnAPath, counters,
       Procs
  <2> QED
    BY <1>13, <2>3, LoopMoves DEF NextTrial, Busy
<1>14. CASE NextPath
  <2>1. at' \in 1..(Len(Work) + 1) /\ trial' \in 1..MaxTrials
    <3>1. at <= Len(Work) /\ at' = at + 1 /\ trial' = 1
      BY <1>0, <1>14 DEF NextPath, OnAPath
    <3>2. at \in 1..(Len(Work) + 1) /\ Len(Work) \in Nat
      BY <1>0, RunnerAssumption DEF TypeOK
    <3> QED
      BY <3>1, <3>2, RunnerAssumption
  <2>2. at + 1 \in Nat /\ 1 <= at + 1 /\ scenario \in [Caps -> 1..MaxTrials]
    BY <1>0, RunnerAssumption DEF TypeOK
  <2>3. target' \in Nat
    BY <1>14, <2>2, TargetAtNat DEF NextPath
  <2>4. TypeOK' /\ OnAPath'
    BY <1>0, <1>14, <2>1, <2>3 DEF NextPath, TypeOK, OnAPath, counters,
       Procs
  <2> QED
    BY <1>14, <2>4, LoopMoves DEF NextPath, Busy
<1>15. CASE Finish
  BY <1>15, FinishKeeps
<1>16. CASE Crash
  BY <1>0, <1>16, MemoryLost DEF Crash, TypeOK
<1>17. CASE UNCHANGED vars
  <2>0. /\ UNCHANGED <<disk, manifest, proc, at, trial, target, scenario>>
        /\ UNCHANGED <<known, used, cost, writes, crashes, runs>>
    BY <1>17 DEF vars, memory, counters
  <2>1. TypeOK' /\ OnAPath' /\ LedgerWithinBudget'
    BY <2>0 DEF RunnerInv, TypeOK, OnAPath, LedgerWithinBudget
  <2>2. Existing' = Existing /\ \A k : Announced(k)' <=> Announced(k)
    BY <2>0 DEF Existing, Announced
  <2>3. LedgerOfDisk' /\ WholeInLedger'
    BY <2>0, <2>2 DEF RunnerInv, LedgerOfDisk, WholeInLedger
  <2>4. WholeWithWrites'
    BY <2>0, <2>2 DEF RunnerInv, WholeWithWrites
  <2> QED
    BY <2>1, <2>3, <2>4 DEF RunnerInv
<1> QED
  BY <1>1, <1>2, <1>3, <1>4, <1>5, <1>6, <1>7, <1>8, <1>9, <1>10, <1>11,
     <1>12, <1>13, <1>14, <1>15, <1>16, <1>17 DEF Next, Step
-----------------------------------------------------------------------------
(* The invariant, of every behaviour of the runner. *)
LEMMA RunnerInvHolds == Spec => []RunnerInv
  BY RunnerInvInit, RunnerInvStep, PTL DEF Spec

(* The runner's state keeps its types; the trials stay within              *)
(* max_trials_per_path however many failures raise the target.             *)
THEOREM TypeCorrect == Spec => []TypeOK
<1>1. RunnerInv => TypeOK
  BY DEF RunnerInv
<1> QED
  BY <1>1, RunnerInvHolds, PTL

(* Whatever the executors return, raise or claim, and however often the    *)
(* process dies and is started again: what run_catalog_async leaves on     *)
(* disk between two executions is what its ledger says, bundles are whole, *)
(* and the turns of all its runs stay within the budget of the lane.       *)
THEOREM LedgerKept == Spec => []LedgerHolds
<1>1. ASSUME RunnerInv PROVE LedgerHolds
  <2>1. LedgerMatchesDisk /\ LedgerWithinBudget
    BY <1>1 DEF RunnerInv, LedgerOfDisk, LedgerMatchesDisk, Busy
  <2>2. BundlesWhole
    <3> SUFFICES ASSUME
          proc \in {"lookup", "executing", "advance", "finished"},
          NEW c \in Bundled, NEW n \in 1..MaxTrials, NEW p \in Paths,
          NEW q \in Paths, disk[<<c, p, n>>] # "absent",
          disk[<<c, p, n>>] # "fail"
        PROVE disk[<<c, q, n>>] # "absent"
      BY DEF BundlesWhole
    <3>1. <<c, p, n>> \in Keys
      BY RunnerAssumption DEF Keys
    <3>2. manifest.keys = Existing
      BY <1>1 DEF RunnerInv, LedgerOfDisk, Busy
    <3>3. <<c, p, n>> \in manifest.keys
      BY <3>1, <3>2 DEF Existing
    <3>4. <<c, q, n>> \in manifest.keys
      BY <1>1, <3>3 DEF RunnerInv, WholeInLedger
    <3> QED
      BY <3>2, <3>4 DEF Existing
  <2> QED
    BY <2>1, <2>2 DEF LedgerHolds
<1> QED
  BY <1>1, RunnerInvHolds, PTL
-----------------------------------------------------------------------------
(* Why a failure is retried.  What is said of a run that has not been       *)
(* interrupted refers to the packets that its ledger lists: an execution    *)
(* only adds packets, all of the trial at hand, and the ledger only takes   *)
(* them in when the scenario targets have been adapted.                     *)

Trials == 1..MaxTrials

Recorded ==
  [k \in Keys |-> IF k \in manifest.keys THEN disk[k] ELSE "absent"]

ClassOf(c, p, n) == Recorded[<<c, p, n>>]

(* The paths that one execution of a capability covers. *)
Group(c, p) == IF c \in Bundled THEN Paths ELSE {p}

Tried(c, p, n) == \E q \in Group(c, p) : ClassOf(c, q, n) # "absent"

(* Every packet there is of a trial is a failure. *)
OnlyFailed(c, p, n) ==
  \A q \in Group(c, p) : ClassOf(c, q, n) \in {"absent", "fail"}

(* The execution in progress: it announces one packet, of the trial at      *)
(* hand, or the three of a bundle; none of them is in the ledger.           *)
Bundle == {<<Cap, p, trial>> : p \in Paths}

OnePacket ==
  /\ known \ manifest.keys \subseteq {Here}
  /\ \/ /\ writes = <<>> /\ Here \in known
        /\ Cap \in Bundled => disk[Here] = "fail"
     \/ /\ DOMAIN writes = {1} /\ writes[1][1] = Here
        /\ Cap \in Bundled => writes[1][2] = "fail"

ThreePackets ==
  /\ Cap \in Bundled
  /\ known \ manifest.keys \subseteq Bundle
  /\ \A i \in DOMAIN writes : writes[i][1] \in Bundle
  /\ \A k \in Bundle :
       \/ k \in known \ manifest.keys
       \/ \E i \in DOMAIN writes : writes[i][1] = k

Execution ==
  /\ proc = "executing" => disk[Here] = "absent"
  /\ proc = "saving" => Here \notin manifest.keys
  /\ proc = "saving" => OnePacket \/ ThreePackets

(* The trials of a path without a gap up to e, none but the last of them    *)
(* one that stops the path.                                                 *)
Reaches(c, p, e) ==
  /\ \A n \in 1..e : ClassOf(c, p, n) # "absent"
  /\ \A n \in 1..(e - 1) : ClassOf(c, p, n) \notin {"pending", "blocked"}

StopsAt(c, p, e) ==
  Reaches(c, p, e) /\ ClassOf(c, p, e) \in {"pending", "blocked"}

(* A path that has all the trials its policy and its failures ask for, and  *)
(* of which, and of whose bundle, there are no others.                      *)
EndsAt(c, p, e) ==
  /\ Reaches(c, p, e)
  /\ ClassOf(c, p, e) \notin {"pending", "blocked"}
  /\ e >= Smaller(MaxTrials, Passes[c])
  /\ \A n \in 1..e :
       ClassOf(c, p, n) = "fail" => e >= Smaller(MaxTrials, n + 3)
  /\ \A n \in Trials : n > e => ~Tried(c, p, n)

Settled(c, p) == \E e \in Trials : StopsAt(c, p, e) \/ EndsAt(c, p, e)

(* A path that is left keeps its end: the scenario target does not exceed   *)
(* it, or no later path of the capability would stay within it.             *)
SettledUnder(c, p) ==
  \E e \in Trials :
    StopsAt(c, p, e) \/ (EndsAt(c, p, e) /\ e >= scenario[c])

PathsLeft ==
  \A i \in DOMAIN Work : i < at => SettledUnder(Work[i][1], Work[i][2])

(* No trial is made before the one it follows, and none without a reason:   *)
(* the policy, the scenario target, or a trial before it that failed.       *)
InOrder ==
  \A c \in Caps, p \in Paths, n \in Trials :
    Tried(c, p, n) => \A m \in 1..n : Tried(c, p, m)

FailedShortly(c, p, n, k) ==
  \E m \in 1..(n - 1) :
    k <= m + 3 /\ Tried(c, p, m) /\ OnlyFailed(c, p, m)

Asked(c, p, n) ==
  n <= Larger(Passes[c], scenario[c]) \/ FailedShortly(c, p, n, n)

WithReason ==
  \A c \in Caps, p \in Paths, n \in Trials :
    Tried(c, p, n) => Asked(c, p, n)

(* A bundle that failed in part has raised the scenario target. *)
PartialFailures ==
  \A c \in Bundled, n \in Trials : \A p, q \in Paths :
    /\ ClassOf(c, p, n) = "fail"
    /\ ClassOf(c, q, n) \notin {"absent", "fail"}
    => scenario[c] >= Smaller(MaxTrials, n + 3)

(* The path at hand. *)
OnTarget ==
  at <= Len(Work) =>
    LET c == Cap
        p == Work[at][2]
    IN  /\ trial <= target
        /\ target >= Smaller(MaxTrials, Passes[c])
        /\ target >= scenario[c]
        /\ \A n \in 1..(trial - 1) :
             /\ ClassOf(c, p, n) \notin {"absent", "pending", "blocked"}
             /\ ClassOf(c, p, n) = "fail" =>
                  target >= Smaller(MaxTrials, n + 3)
        /\ \/ target <= Larger(Passes[c], scenario[c])
           \/ FailedShortly(c, p, trial, target)

HereTried == proc = "advance" => Recorded[Here] # "absent"

Retries ==
  /\ PathsLeft /\ InOrder /\ WithReason /\ PartialFailures /\ OnTarget

FirstRun == Retries /\ HereTried /\ Execution

RetryInv ==
  /\ runs = 0 => proc = "stopped" /\ manifest.keys = {}
  /\ runs = 1 /\ proc \in Busy => FirstRun
  /\ runs = 1 /\ proc = "finished" =>
       \A i \in DOMAIN Work : Settled(Work[i][1], Work[i][2])
-----------------------------------------------------------------------------
(* What is recorded of a packet, and its type.                              *)
LEMMA RecordedIs ==
  ASSUME TypeOK, NEW k \in Keys
  PROVE  /\ Recorded[k] = IF k \in manifest.keys THEN disk[k] ELSE "absent"
         /\ Recorded[k] \in Packets
  BY DEF TypeOK, Recorded, Packets

(* The path at hand, and the numbers that its trials are compared with.     *)
LEMMA AtHand ==
  ASSUME TypeOK, at <= Len(Work)
  PROVE  /\ Cap \in Caps /\ Work[at][2] \in Paths /\ Here \in Keys
         /\ Here = <<Cap, Work[at][2], trial>>
         /\ at \in DOMAIN Work /\ at \in Nat
         /\ trial \in Trials /\ trial \in Nat /\ target \in Nat
         /\ scenario[Cap] \in Trials /\ scenario[Cap] \in Nat
         /\ Passes[Cap] \in Nat /\ Passes[Cap] # 0
<1>1. /\ at \in Nat /\ 1 <= at /\ Len(Work) \in Nat /\ MaxTrials \in Nat
      /\ DOMAIN Work = 1..Len(Work)
  <2>1. Work \in Seq(Caps \X Paths) /\ MaxTrials \in Nat
    BY RunnerAssumption
  <2>2. Len(Work) \in Nat /\ DOMAIN Work = 1..Len(Work)
    BY <2>1
  <2>3. at \in 1..(Len(Work) + 1)
    BY DEF TypeOK
  <2> QED
    BY <2>1, <2>2, <2>3
<1>2. /\ Cap \in Caps /\ Work[at][2] \in Paths /\ Here \in Keys
      /\ Here = <<Cap, Work[at][2], trial>>
  BY HereIsKey
<1> QED
  BY <1>1, <1>2, RunnerAssumption, SMTT(20) DEF TypeOK, Trials

(* The group of a path contains it, and is that of each of its paths.       *)
LEMMA GroupIs ==
  ASSUME NEW c \in Caps, NEW p \in Paths
  PROVE  /\ p \in Group(c, p) /\ Group(c, p) \subseteq Paths
         /\ \A q \in Group(c, p) : Group(c, q) = Group(c, p)
         /\ c \in Bundled => Group(c, p) = Paths
         /\ c \notin Bundled => Group(c, p) = {p}
  BY DEF Group

(* Every entry of the work is a capability and one of its paths.            *)
LEMMA WorkAt ==
  ASSUME NEW i \in DOMAIN Work
  PROVE  /\ Work[i][1] \in Caps /\ Work[i][2] \in Paths /\ i \in Nat
         /\ 1 <= i /\ i <= Len(Work)
<1>1. Work \in Seq(Caps \X Paths)
  BY RunnerAssumption
<1>2. i \in 1..Len(Work) /\ Len(Work) \in Nat
  BY <1>1
<1>3. Work[i] \in Caps \X Paths
  BY <1>1, <1>2
<1> QED
  BY <1>2, <1>3

(* As long as the ledger and the place in the work stay as they are, so     *)
(* does all that is said of the retries.                                    *)
LEMMA RetriesStay ==
  ASSUME Retries, Recorded' = Recorded,
         UNCHANGED <<at, trial, target, scenario>>
  PROVE  Retries'
<1>1. PathsLeft'
  BY DEF Retries, PathsLeft, SettledUnder, StopsAt, EndsAt, Reaches, Tried,
         ClassOf
<1>2. InOrder' /\ WithReason' /\ PartialFailures'
  BY DEF Retries, InOrder, WithReason, PartialFailures, Asked,
         FailedShortly, Tried, OnlyFailed, ClassOf
<1>3. OnTarget'
  BY DEF Retries, OnTarget, FailedShortly, Tried, OnlyFailed, ClassOf, Cap
<1> QED
  BY <1>1, <1>2, <1>3 DEF Retries

(* A path that is settled is so by what is recorded, and by nothing else.   *)
LEMMA SettledStays ==
  ASSUME Recorded' = Recorded, NEW c, NEW p, Settled(c, p)
  PROVE  Settled(c, p)'
  BY DEF Settled, StopsAt, EndsAt, Reaches, Tried, ClassOf

(* Packets that are not yet in the ledger change nothing in it.             *)
LEMMA LedgerStays ==
  ASSUME manifest' = manifest, \A k \in manifest.keys : disk'[k] = disk[k]
  PROVE  Recorded' = Recorded
  BY DEF Recorded
-----------------------------------------------------------------------------
(* The steps that leave the ledger as it is.                                *)

(* The memory of a process is blank for the next run; in a new directory    *)
(* nothing is recorded.                                                     *)
LEMMA FirstStart ==
  ASSUME RunnerInv, RunnerInv', Start, manifest.keys = {}
  PROVE  FirstRun'
<1>1. /\ at' = 1 /\ trial' = 1 /\ scenario' = [c \in Caps |-> 1]
      /\ target' = TargetAt(1, scenario') /\ proc' = "lookup"
      /\ manifest' = manifest
  BY DEF Start
<1>2. Recorded' = [k \in Keys |-> "absent"]
  BY <1>1 DEF Recorded
<1>3. \A c \in Caps, p \in Paths, n \in Trials : ClassOf(c, p, n)' = "absent"
  BY <1>2 DEF ClassOf, Keys, Trials
<1>4. \A c \in Caps, p \in Paths, n \in Trials : ~Tried(c, p, n)'
  BY <1>3, GroupIs DEF Tried
<1>5. InOrder' /\ WithReason'
  BY <1>4 DEF InOrder, WithReason
<1>6. PartialFailures'
  <2>1. Bundled \subseteq Caps
    BY RunnerAssumption
  <2> QED
    BY <1>3, <2>1 DEF PartialFailures
<1>7. PathsLeft'
  BY <1>1, WorkAt DEF PathsLeft
<1>8. OnTarget'
  <2> SUFFICES ASSUME at' <= Len(Work)
               PROVE  OnTarget'
    BY DEF OnTarget
  <2>1. TypeOK'
    BY DEF RunnerInv
  <2>2. /\ Cap' = Work[1][1] /\ Work[1][1] \in Caps /\ scenario'[Cap'] = 1
        /\ Passes[Cap'] \in Nat /\ Passes[Cap'] # 0 /\ MaxTrials \in Nat
    BY <1>1, WorkEntry, RunnerAssumption DEF Cap
  <2>3. target' = Larger(Passes[Cap'], 1)
    BY <1>1, <2>2 DEF TargetAt, TargetOf
  <2>4. /\ target' >= Smaller(MaxTrials, Passes[Cap'])
        /\ target' >= 1 /\ target' <= Larger(Passes[Cap'], scenario'[Cap'])
    BY <2>2, <2>3 DEF Larger, Smaller
  <2>5. \A n : n \notin 1..(trial' - 1)
    BY <1>1
  <2> QED
    BY <1>1, <2>2, <2>4, <2>5 DEF OnTarget
<1>9. HereTried' /\ Execution'
  BY <1>1 DEF HereTried, Execution
<1> QED
  BY <1>5, <1>6, <1>7, <1>8, <1>9 DEF FirstRun, Retries

(* A trial is found, or its execution begins.                               *)
LEMMA LookupKeeps ==
  ASSUME RunnerInv, FirstRun, Found \/ Unregistered \/ Execute
  PROVE  FirstRun'
<1>1. /\ UNCHANGED <<disk, manifest, at, trial, target, scenario, known>>
      /\ proc = "lookup" /\ at <= Len(Work)
  BY DEF Found, Unregistered, Execute, Pending, memory
<1>2. Retries'
  BY <1>1, RetriesStay DEF FirstRun, Recorded
<1>3. /\ TypeOK /\ manifest.keys = Existing /\ known = Existing
      /\ Here \in Keys /\ Here' = Here
  BY <1>1, HereIsKey DEF RunnerInv, LedgerOfDisk, Busy, Here, Cap
<1>4. CASE Found
  <2>1. Recorded[Here] # "absent" /\ Recorded' = Recorded
    BY <1>1, <1>3, <1>4, RecordedIs DEF Found, Existing, Recorded
  <2> QED
    BY <1>2, <1>3, <1>4, <2>1 DEF Found, FirstRun, HereTried, Execution
<1>5. CASE Unregistered
  <2>1. /\ disk[Here] = "absent" /\ proc' = "saving"
        /\ writes' = <<<<Here, "pending">>>> /\ Cap \notin Bundled
    BY <1>5, RunnerAssumption DEF Unregistered
  <2>2. Here' \notin manifest'.keys
    BY <1>1, <1>3, <2>1 DEF Existing
  <2>3. known' \ manifest'.keys = {}
    BY <1>1, <1>3
  <2>4. Cap' = Cap
    BY <1>1 DEF Cap
  <2>5. OnePacket'
    BY <1>3, <2>1, <2>3, <2>4 DEF OnePacket
  <2> QED
    BY <1>2, <2>1, <2>2, <2>5 DEF FirstRun, HereTried, Execution
<1>6. CASE Execute
  <2>1. disk'[Here'] = "absent" /\ proc' = "executing"
    BY <1>1, <1>3, <1>6 DEF Execute
  <2> QED
    BY <1>2, <2>1 DEF FirstRun, HereTried, Execution
<1> QED
  BY <1>4, <1>5, <1>6

(* What an execution returns, or that it raised, is announced.              *)
LEMMA ExecutedKeeps ==
  ASSUME RunnerInv, FirstRun, ExecutorReturns \/ ExecutorRaises
  PROVE  FirstRun'
<1>1. /\ UNCHANGED <<disk, manifest, at, trial, target, scenario, known>>
      /\ proc = "executing" /\ proc' = "saving"
  BY DEF ExecutorReturns, ExecutorRaises
<1>2. Retries'
  BY <1>1, RetriesStay DEF FirstRun, Recorded
<1>3. /\ TypeOK /\ manifest.keys = Existing /\ known = Existing
      /\ at <= Len(Work) /\ disk[Here] = "absent"
  BY <1>1 DEF RunnerInv, LedgerOfDisk, OnAPath, Busy, FirstRun, Execution
<1>4. Here' = Here /\ Cap' = Cap /\ Bundle' = Bundle
  BY <1>1 DEF Here, Cap, Bundle
<1>5. Here' \notin manifest'.keys /\ known' \ manifest'.keys = {}
  BY <1>1, <1>3, <1>4 DEF Existing
<1>6. CASE ExecutorReturns
  <2>1. writes' \in Outcome
    BY <1>6 DEF ExecutorReturns
  <2>2. \/ /\ Cap \notin Bundled /\ DOMAIN writes' = {1}
           /\ writes'[1][1] = Here
        \/ /\ Cap \in Bundled
           /\ \A i \in DOMAIN writes' : \E p \in Paths :
                writes'[i][1] = <<Cap, p, trial>>
           /\ \A p \in Paths : \E i \in DOMAIN writes' :
                writes'[i][1] = <<Cap, p, trial>>
    BY <1>3, <2>1, OutcomeShape
  <2>3. CASE Cap \notin Bundled
    <3>1. OnePacket'
      BY <1>4, <1>5, <2>2, <2>3 DEF OnePacket
    <3> QED
      BY <1>1, <1>2, <1>5, <3>1 DEF FirstRun, HereTried, Execution
  <2>4. CASE Cap \in Bundled
    <3>1. \A i \in DOMAIN writes' : writes'[i][1] \in Bundle
      BY <2>2, <2>4 DEF Bundle
    <3>2. \A k \in Bundle : \E i \in DOMAIN writes' : writes'[i][1] = k
      BY <2>2, <2>4 DEF Bundle
    <3>3. ThreePackets'
      BY <1>4, <1>5, <2>4, <3>1, <3>2 DEF ThreePackets
    <3> QED
      BY <1>1, <1>2, <1>5, <3>3 DEF FirstRun, HereTried, Execution
  <2> QED
    BY <2>3, <2>4
<1>7. CASE ExecutorRaises
  <2>1. writes' = <<<<Here, "fail">>>>
    BY <1>7 DEF ExecutorRaises
  <2>2. OnePacket'
    BY <1>4, <1>5, <2>1 DEF OnePacket
  <2> QED
    BY <1>1, <1>2, <1>5, <2>2 DEF FirstRun, HereTried, Execution
<1> QED
  BY <1>6, <1>7

(* A packet is written: it is known, and not in the ledger.                 *)
LEMMA WrittenKeeps ==
  ASSUME RunnerInv, FirstRun, WritePacket
  PROVE  FirstRun'
<1> DEFINE k == Head(writes)[1]
<1>1. /\ UNCHANGED <<manifest, proc, at, trial, target, scenario>>
      /\ proc = "saving" /\ writes # <<>> /\ writes' = Tail(writes)
      /\ disk[k] = "absent" /\ disk' = [disk EXCEPT ![k] = Head(writes)[2]]
      /\ known' = known \cup {k}
  BY DEF WritePacket
<1>2. /\ TypeOK /\ known = Existing /\ manifest.keys \subseteq Existing
      /\ writes \in Seq(Keys \X Writable)
  BY <1>1 DEF RunnerInv, LedgerOfDisk, Busy, TypeOK
<1>3. k \in Keys /\ k \notin known /\ k \notin manifest.keys
  <2>1. Head(writes) \in Keys \X Writable
    BY <1>1, <1>2
  <2> QED
    BY <1>1, <1>2, <2>1 DEF Existing
<1>4. disk'[k] = Head(writes)[2] /\ \A j \in manifest.keys : disk'[j] = disk[j]
  BY <1>1, <1>2, <1>3 DEF TypeOK, Existing
<1>5. Recorded' = Recorded
  BY <1>1, <1>4, LedgerStays
<1>6. Retries'
  BY <1>1, <1>5, RetriesStay DEF FirstRun
<1>7. Here' = Here /\ Cap' = Cap /\ Bundle' = Bundle
  BY <1>1 DEF Here, Cap, Bundle
<1>8. Here' \notin manifest'.keys
  BY <1>1, <1>7 DEF FirstRun, Execution
<1>9. /\ known' \ manifest'.keys = (known \ manifest.keys) \cup {k}
  BY <1>1, <1>3
<1>10. CASE OnePacket
  <2>1. /\ DOMAIN writes = {1} /\ writes[1][1] = Here
        /\ Cap \in Bundled => writes[1][2] = "fail"
    BY <1>1, <1>10 DEF OnePacket
  <2>2. Len(writes) = 1
    <3>1. Len(writes) \in Nat /\ DOMAIN writes = 1..Len(writes)
      BY <1>2
    <3>2. 1 \in 1..Len(writes) /\ (Len(writes) >= 2 => 2 \in 1..Len(writes))
      BY <2>1, <3>1
    <3> QED
      BY <2>1, <3>1, <3>2
  <2>3. Tail(writes) = <<>> /\ Head(writes) = writes[1]
    <3>1. /\ Tail(writes) \in Seq(Keys \X Writable)
          /\ Len(Tail(writes)) = 0 /\ Head(writes) = writes[1]
      BY <1>1, <1>2, <2>2, HeadTailProperties
    <3> QED
      BY <3>1, EmptySeq
  <2>4. OnePacket'
    BY <1>1, <1>4, <1>7, <1>9, <1>10, <2>1, <2>3 DEF OnePacket
  <2> QED
    BY <1>1, <1>6, <1>8, <2>4 DEF FirstRun, HereTried, Execution
<1>11. CASE ThreePackets
  <2>1. Head(writes) = writes[1] /\ 1 \in DOMAIN writes
    BY <1>1, <1>2
  <2>2. \A i \in DOMAIN Tail(writes) :
          /\ i + 1 \in DOMAIN writes /\ Tail(writes)[i] = writes[i + 1]
    BY <1>1, <1>2
  <2>3. \A i \in DOMAIN writes : i # 1 =>
          /\ i - 1 \in DOMAIN Tail(writes) /\ Tail(writes)[i - 1] = writes[i]
    BY <1>1, <1>2
  <2>4. \A i \in DOMAIN Tail(writes) : Tail(writes)[i][1] \in Bundle
    BY <1>11, <2>2 DEF ThreePackets
  <2>5. known' \ manifest'.keys \subseteq Bundle
    BY <1>9, <1>11, <2>1 DEF ThreePackets
  <2>6. ASSUME NEW j \in Bundle
        PROVE  \/ j \in known' \ manifest'.keys
               \/ \E i \in DOMAIN Tail(writes) : Tail(writes)[i][1] = j
    <3>1. \/ j \in known \ manifest.keys
          \/ \E i \in DOMAIN writes : writes[i][1] = j
      BY <1>11 DEF ThreePackets
    <3> QED
      BY <1>9, <2>1, <2>3, <3>1
  <2>7. ThreePackets'
    BY <1>1, <1>7, <1>11, <2>4, <2>5, <2>6 DEF ThreePackets
  <2> QED
    BY <1>1, <1>6, <1>8, <2>7 DEF FirstRun, HereTried, Execution
<1> QED
  BY <1>1, <1>10, <1>11 DEF FirstRun, Execution
-----------------------------------------------------------------------------
(* The checkpoint: the packets of one execution enter the ledger.           *)

(* The packet at hand is new to the ledger, by itself or with its bundle;   *)
(* a failure in a new bundle raises the scenario target, and the target.    *)
OneRecorded ==
  /\ \A k \in Keys : k # Here => Recorded'[k] = Recorded[k]
  /\ Cap \in Bundled => Recorded'[Here] = "fail"
  /\ UNCHANGED <<scenario, target>>

ThreeRecorded ==
  /\ Cap \in Bundled
  /\ \A k \in Keys \ Bundle : Recorded'[k] = Recorded[k]
  /\ \A k \in Bundle : Recorded[k] = "absent" /\ Recorded'[k] # "absent"
  /\ \/ /\ scenario' = [scenario EXCEPT ![Cap] = Retry(@)]
        /\ target' = Larger(target, scenario'[Cap])
     \/ /\ \A k \in Bundle : Recorded'[k] # "fail"
        /\ UNCHANGED <<scenario, target>>

(* What a checkpoint records: one packet, or three.                         *)
LEMMA CheckpointRecords ==
  ASSUME RunnerInv, FirstRun, Checkpoint
  PROVE  /\ Recorded[Here] = "absent" /\ Recorded'[Here] # "absent"
         /\ OneRecorded \/ ThreeRecorded
<1>1. /\ proc = "saving" /\ writes = <<>> /\ manifest' = Ledger
      /\ disk' = disk /\ at <= Len(Work) /\ TypeOK
      /\ known = Existing /\ manifest.keys \subseteq Existing
  BY DEF Checkpoint, RunnerInv, OnAPath, LedgerOfDisk, Busy
<1>2. manifest'.keys = Existing
  BY <1>1 DEF Ledger
<1>3. ASSUME NEW k \in Keys
      PROVE  /\ Recorded'[k] = disk[k]
             /\ k \in manifest.keys => Recorded[k] = disk[k]
             /\ k \notin manifest.keys => Recorded[k] = "absent"
  <2>1. Recorded'[k] = IF k \in Existing THEN disk[k] ELSE "absent"
    BY <1>1, <1>2 DEF Recorded
  <2>2. Recorded[k] = IF k \in manifest.keys THEN disk[k] ELSE "absent"
    BY DEF Recorded
  <2> QED
    BY <2>1, <2>2 DEF Existing
<1>4. ASSUME NEW k \in Keys, k \notin known \ manifest.keys
      PROVE  Recorded'[k] = Recorded[k]
  BY <1>1, <1>3, <1>4 DEF Existing
<1>5. Here \in Keys /\ Here \notin manifest.keys
  BY <1>1, HereIsKey DEF FirstRun, Execution
<1>6. Bundle \subseteq Keys /\ Here \in Bundle
  BY <1>1, HereIsKey DEF Bundle, Keys, TypeOK
<1>7. /\ \A i : i \notin DOMAIN writes
      /\ DOMAIN writes # {1}
  <2>1. DOMAIN writes = {}
    BY <1>1
  <2> QED
    BY <2>1
<1>8. CASE OnePacket
  <2>1. /\ known \ manifest.keys \subseteq {Here} /\ Here \in known
        /\ Cap \in Bundled => disk[Here] = "fail"
    BY <1>7, <1>8 DEF OnePacket
  <2>2. ~BundleFailed
    <3>1. SUFFICES ASSUME BundleFailed
                   PROVE  FALSE
      OBVIOUS
    <3>2. {<<Cap, p, trial>> : p \in Paths} \subseteq known \ manifest.keys
      BY <3>1 DEF BundleFailed
    <3>3. /\ <<Cap, "positive", trial>> \in known \ manifest.keys
          /\ <<Cap, "denial", trial>> \in known \ manifest.keys
      BY <3>2 DEF Paths
    <3> QED
      BY <2>1, <3>3
  <2>3. OneRecorded
    BY <1>3, <1>4, <1>5, <2>1, <2>2 DEF OneRecorded, Checkpoint
  <2> QED
    BY <1>1, <1>3, <1>5, <2>1, <2>3 DEF Existing
<1>9. CASE ThreePackets
  <2>1. /\ Cap \in Bundled /\ known \ manifest.keys \subseteq Bundle
        /\ Bundle \subseteq known \ manifest.keys
    BY <1>7, <1>9 DEF ThreePackets
  <2>2. /\ \A k \in Keys \ Bundle : Recorded'[k] = Recorded[k]
        /\ \A k \in Bundle : /\ Recorded[k] = "absent"
                             /\ Recorded'[k] # "absent"
                             /\ Recorded'[k] = disk[k]
    BY <1>1, <1>3, <1>4, <1>6, <2>1 DEF Existing
  <2>3. BundleFailed <=> \E k \in Bundle : disk[k] = "fail"
    BY <2>1 DEF BundleFailed, Bundle
  <2>4. ThreeRecorded
    <3>1. CASE BundleFailed
      BY <2>1, <2>2, <3>1 DEF ThreeRecorded, Checkpoint
    <3>2. CASE ~BundleFailed
      BY <2>1, <2>2, <2>3, <3>2 DEF ThreeRecorded, Checkpoint
    <3> QED
      BY <3>1, <3>2
  <2> QED
    BY <1>6, <2>2, <2>4
<1> QED
  BY <1>1, <1>8, <1>9 DEF FirstRun, Execution

(* The same, of the packets by capability, path and trial.                  *)
LEMMA CheckpointChanges ==
  ASSUME RunnerInv, FirstRun, Checkpoint
  PROVE  /\ ClassOf(Cap, Work[at][2], trial) = "absent"
         /\ ClassOf(Cap, Work[at][2], trial)' # "absent"
         /\ \A c \in Caps, p \in Paths, n \in Trials :
              ClassOf(c, p, n) # "absent" =>
                ClassOf(c, p, n)' = ClassOf(c, p, n)
         /\ \A c \in Caps, p \in Paths, n \in Trials :
              ClassOf(c, p, n)' # ClassOf(c, p, n) =>
                c = Cap /\ n = trial /\ p \in Group(Cap, Work[at][2])
<1>1. /\ at <= Len(Work) /\ TypeOK
      /\ UNCHANGED <<at, trial>>
  BY DEF Checkpoint, RunnerInv, OnAPath
<1>2. /\ Recorded[Here] = "absent" /\ Recorded'[Here] # "absent"
      /\ OneRecorded \/ ThreeRecorded
  BY CheckpointRecords
<1>3. /\ Cap \in Caps /\ Work[at][2] \in Paths /\ trial \in Trials
      /\ Here = <<Cap, Work[at][2], trial>>
  BY <1>1, AtHand
<1>4. /\ ClassOf(Cap, Work[at][2], trial) = "absent"
      /\ ClassOf(Cap, Work[at][2], trial)' # "absent"
  BY <1>1, <1>2, <1>3 DEF ClassOf, Cap
<1>5. ASSUME NEW c \in Caps, NEW p \in Paths, NEW n \in Trials
      PROVE  /\ ClassOf(c, p, n) # "absent" =>
                  ClassOf(c, p, n)' = ClassOf(c, p, n)
             /\ ClassOf(c, p, n)' # ClassOf(c, p, n) =>
                  c = Cap /\ n = trial /\ p \in Group(Cap, Work[at][2])
  <2> DEFINE k == <<c, p, n>>
  <2>1. /\ k \in Keys /\ ClassOf(c, p, n) = Recorded[k]
        /\ ClassOf(c, p, n)' = Recorded'[k]
    BY DEF ClassOf, Keys, Trials
  <2>2. CASE OneRecorded
    <3>1. k = Here => c = Cap /\ p = Work[at][2] /\ n = trial
      BY <1>3
    <3>2. Work[at][2] \in Group(Cap, Work[at][2])
      BY <1>3, GroupIs
    <3> QED
      BY <1>2, <2>1, <2>2, <3>1, <3>2 DEF OneRecorded
  <2>3. CASE ThreeRecorded
    <3>1. k \in Bundle => c = Cap /\ n = trial
      BY DEF Bundle
    <3>2. p \in Group(Cap, Work[at][2])
      BY <1>3, <2>3, GroupIs DEF ThreeRecorded
    <3> QED
      BY <2>1, <2>3, <3>1, <3>2 DEF ThreeRecorded
  <2> QED
    BY <1>2, <2>2, <2>3
<1> QED
  BY <1>4, <1>5

(* A trial that is new belongs to the execution; nothing is untried.        *)
LEMMA TriedGrows ==
  ASSUME RunnerInv, FirstRun, Checkpoint,
         NEW c \in Caps, NEW p \in Paths, NEW n \in Trials
  PROVE  /\ Tried(c, p, n) => Tried(c, p, n)'
         /\ Tried(c, p, n)' /\ ~Tried(c, p, n) =>
              /\ c = Cap /\ n = trial
              /\ p \in Group(Cap, Work[at][2])
              /\ Group(c, p) = Group(Cap, Work[at][2])
<1>1. Group(c, p) \subseteq Paths
  BY GroupIs
<1>2. ASSUME Tried(c, p, n)
      PROVE  Tried(c, p, n)'
  <2>1. PICK q \in Group(c, p) : ClassOf(c, q, n) # "absent"
    BY <1>2 DEF Tried
  <2>2. ClassOf(c, q, n)' = ClassOf(c, q, n)
    BY <1>1, <2>1, CheckpointChanges
  <2> QED
    BY <2>1, <2>2 DEF Tried
<1>3. ASSUME Tried(c, p, n)', ~Tried(c, p, n)
      PROVE  /\ c = Cap /\ n = trial
             /\ p \in Group(Cap, Work[at][2])
             /\ Group(c, p) = Group(Cap, Work[at][2])
  <2>1. PICK q \in Group(c, p) : ClassOf(c, q, n)' # "absent"
    BY <1>3 DEF Tried
  <2>2. ClassOf(c, q, n) = "absent"
    BY <1>3, <2>1 DEF Tried
  <2>3. c = Cap /\ n = trial /\ q \in Group(Cap, Work[at][2]) /\ q \in Paths
    BY <1>1, <2>1, <2>2, CheckpointChanges
  <2>4. Work[at][2] \in Paths
    BY AtHand DEF Checkpoint, RunnerInv, OnAPath
  <2>5. /\ Group(c, q) = Group(c, p)
        /\ Group(c, q) = Group(Cap, Work[at][2])
        /\ p \in Group(c, p)
    BY <2>1, <2>3, <2>4, GroupIs
  <2> QED
    BY <2>3, <2>5
<1> QED
  BY <1>2, <1>3

(* A trial of which all packets failed stays one.                           *)
LEMMA FailedStays ==
  ASSUME RunnerInv, FirstRun, Checkpoint,
         NEW c \in Caps, NEW p \in Paths, NEW n \in Trials,
         Tried(c, p, n), OnlyFailed(c, p, n)
  PROVE  Tried(c, p, n)' /\ OnlyFailed(c, p, n)'
<1>1. Tried(c, p, n)'
  BY TriedGrows
<1>2. ASSUME NEW q \in Group(c, p)
      PROVE  ClassOf(c, q, n)' \in {"absent", "fail"}
  <2>1. q \in Paths /\ Group(c, p) \subseteq Paths
    BY GroupIs
  <2>2. ClassOf(c, q, n) \in {"absent", "fail"}
    BY DEF OnlyFailed
  <2>3. CASE ClassOf(c, q, n)' = ClassOf(c, q, n)
    BY <2>2, <2>3
  <2>4. CASE ClassOf(c, q, n)' # ClassOf(c, q, n)
    <3>1. /\ c = Cap /\ n = trial /\ q \in Group(Cap, Work[at][2])
          /\ Work[at][2] \in Paths /\ Here = <<Cap, Work[at][2], trial>>
      BY <2>1, <2>4, CheckpointChanges, AtHand
         DEF Checkpoint, RunnerInv, OnAPath
    <3>2. PICK r \in Group(c, p) : ClassOf(c, r, n) # "absent"
      BY DEF Tried
    <3>3. Cap \in Bundled
      <4>1. SUFFICES ASSUME Cap \notin Bundled
                     PROVE  FALSE
        OBVIOUS
      <4>2. r = q
        BY <3>1, <3>2, <4>1 DEF Group
      <4> QED
        BY <2>4, <2>1, <3>1, <3>2, <4>2, CheckpointChanges
    <3>4. OneRecorded
      <4>1. /\ <<Cap, r, trial>> \in Bundle
            /\ Recorded[<<Cap, r, trial>>] # "absent"
        BY <2>1, <3>1, <3>2 DEF Bundle, ClassOf
      <4> QED
        BY <4>1, CheckpointRecords DEF ThreeRecorded
    <3>5. /\ <<c, q, n>> \in Keys
          /\ Recorded'[<<c, q, n>>] # Recorded[<<c, q, n>>]
      BY <2>1, <2>4 DEF ClassOf, Keys, Trials
    <3>6. <<c, q, n>> = Here /\ Recorded'[Here] = "fail"
      BY <3>3, <3>4, <3>5 DEF OneRecorded
    <3> QED
      BY <3>6 DEF ClassOf
  <2> QED
    BY <2>3, <2>4
<1> QED
  BY <1>1, <1>2 DEF OnlyFailed

(* A failure shortly before a trial stays one.                              *)
LEMMA ShortlyStays ==
  ASSUME RunnerInv, FirstRun, Checkpoint,
         NEW c \in Caps, NEW p \in Paths, NEW n \in Trials, NEW k,
         FailedShortly(c, p, n, k)
  PROVE  FailedShortly(c, p, n, k)'
<1>1. PICK m \in 1..(n - 1) :
        k <= m + 3 /\ Tried(c, p, m) /\ OnlyFailed(c, p, m)
  BY DEF FailedShortly
<1>2. m \in Trials
  BY RunnerAssumption DEF Trials
<1>3. Tried(c, p, m)' /\ OnlyFailed(c, p, m)'
  BY <1>1, <1>2, FailedStays
<1> QED
  BY <1>1, <1>3 DEF FailedShortly

(* The scenario targets only grow.                                          *)
LEMMA ScenarioGrows ==
  ASSUME RunnerInv, FirstRun, Checkpoint, NEW c \in Caps
  PROVE  /\ scenario[c] \in Nat /\ scenario'[c] \in Nat
         /\ scenario'[c] >= scenario[c]
         /\ c # Cap => scenario'[c] = scenario[c]
         /\ OneRecorded => scenario'[c] = scenario[c]
<1>1. /\ at <= Len(Work) /\ TypeOK /\ MaxTrials \in Nat
      /\ scenario \in [Caps -> Trials]
  BY RunnerAssumption DEF Checkpoint, RunnerInv, OnAPath, TypeOK, Trials
<1>2. /\ trial \in Nat /\ scenario[c] \in Nat /\ scenario[c] <= MaxTrials
  BY <1>1, AtHand DEF Trials
<1>3. Retry(scenario[c]) \in Nat /\ Retry(scenario[c]) >= scenario[c]
  BY <1>1, <1>2 DEF Retry, Larger, Smaller
<1> QED
  BY <1>1, <1>2, <1>3, CheckpointRecords DEF OneRecorded, ThreeRecorded

(* A new trial follows the trials of the path at hand.                      *)
LEMMA CheckpointInOrder ==
  ASSUME RunnerInv, FirstRun, Checkpoint
  PROVE  InOrder'
<1> SUFFICES ASSUME NEW c \in Caps, NEW p \in Paths, NEW n \in Trials,
                    Tried(c, p, n)', NEW m \in 1..n
             PROVE  Tried(c, p, m)'
  BY DEF InOrder
<1>1. m \in Trials /\ n \in Nat /\ m \in Nat
  BY RunnerAssumption DEF Trials
<1>2. CASE Tried(c, p, n)
  <2>1. Tried(c, p, m)
    BY <1>2 DEF FirstRun, Retries, InOrder
  <2> QED
    BY <1>1, <2>1, TriedGrows
<1>3. CASE ~Tried(c, p, n)
  <2>1. /\ c = Cap /\ n = trial /\ at <= Len(Work) /\ TypeOK
        /\ Group(c, p) = Group(Cap, Work[at][2])
    BY <1>3, TriedGrows DEF Checkpoint, RunnerInv, OnAPath
  <2>2. CASE m = n
    BY <2>2
  <2>3. CASE m # n
    <3>1. m \in 1..(trial - 1)
      BY <1>1, <2>1, <2>3
    <3>2. ClassOf(Cap, Work[at][2], m) # "absent"
      BY <2>1, <3>1 DEF FirstRun, Retries, OnTarget
    <3>3. Work[at][2] \in Group(c, p)
      BY <2>1, AtHand, GroupIs
    <3>4. Tried(c, p, m)
      BY <2>1, <3>2, <3>3 DEF Tried
    <3> QED
      BY <1>1, <3>4, TriedGrows
  <2> QED
    BY <2>2, <2>3
<1> QED
  BY <1>2, <1>3

(* A new trial is one of those that its target asks for.                    *)
LEMMA CheckpointWithReason ==
  ASSUME RunnerInv, FirstRun, Checkpoint
  PROVE  WithReason'
<1> SUFFICES ASSUME NEW c \in Caps, NEW p \in Paths, NEW n \in Trials,
                    Tried(c, p, n)'
             PROVE  Asked(c, p, n)'
  BY DEF WithReason
<1>1. /\ n \in Nat /\ Passes[c] \in Nat
      /\ scenario[c] \in Nat /\ scenario'[c] \in Nat
      /\ scenario'[c] >= scenario[c]
  BY ScenarioGrows, RunnerAssumption DEF Trials
<1>2. ASSUME n <= Larger(Passes[c], scenario[c])
      PROVE  Asked(c, p, n)'
  <2>1. n <= Larger(Passes[c], scenario'[c])
    BY <1>1, <1>2 DEF Larger
  <2> QED
    BY <2>1 DEF Asked
<1>3. CASE Tried(c, p, n)
  <2>1. Asked(c, p, n)
    BY <1>3 DEF FirstRun, Retries, WithReason
  <2> QED
    BY <1>2, <2>1, ShortlyStays DEF Asked
<1>4. CASE ~Tried(c, p, n)
  <2>1. /\ c = Cap /\ n = trial /\ at <= Len(Work) /\ TypeOK
        /\ Group(c, p) = Group(Cap, Work[at][2])
    BY <1>4, TriedGrows DEF Checkpoint, RunnerInv, OnAPath
  <2>2. /\ trial <= target
        /\ \/ target <= Larger(Passes[Cap], scenario[Cap])
           \/ FailedShortly(Cap, Work[at][2], trial, target)
    BY <2>1 DEF FirstRun, Retries, OnTarget
  <2>3. target \in Nat /\ Larger(Passes[c], scenario[c]) \in Nat
    BY <1>1, <2>1, AtHand DEF Larger
  <2>4. CASE target <= Larger(Passes[Cap], scenario[Cap])
    <3>1. n <= Larger(Passes[c], scenario[c])
      BY <1>1, <2>1, <2>2, <2>3, <2>4
    <3> QED
      BY <1>2, <3>1
  <2>5. CASE FailedShortly(Cap, Work[at][2], trial, target)
    <3>1. FailedShortly(c, p, n, target)
      BY <2>1, <2>5 DEF FailedShortly, Tried, OnlyFailed
    <3>2. FailedShortly(c, p, n, n)
      <4>1. PICK m \in 1..(n - 1) :
              target <= m + 3 /\ Tried(c, p, m) /\ OnlyFailed(c, p, m)
        BY <3>1 DEF FailedShortly
      <4>2. n <= m + 3
        BY <1>1, <2>1, <2>2, <2>3, <4>1
      <4> QED
        BY <4>1, <4>2 DEF FailedShortly
    <3>3. FailedShortly(c, p, n, n)'
      BY <3>2, ShortlyStays
    <3> QED
      BY <3>3 DEF Asked
  <2> QED
    BY <2>2, <2>4, <2>5
<1> QED
  BY <1>3, <1>4

(* A bundle that fails in part raises the scenario target as it enters the  *)
(* ledger; a single failure joins none but failures.                        *)
LEMMA CheckpointPartial ==
  ASSUME RunnerInv, FirstRun, Checkpoint
  PROVE  PartialFailures'
<1> SUFFICES ASSUME NEW c \in Bundled, NEW n \in Trials,
                    NEW p \in Paths, NEW q \in Paths,
                    ClassOf(c, p, n)' = "fail",
                    ClassOf(c, q, n)' \notin {"absent", "fail"}
             PROVE  scenario'[c] >= Smaller(MaxTrials, n + 3)
  BY DEF PartialFailures
<1>1. c \in Caps /\ n \in Nat /\ MaxTrials \in Nat
  BY RunnerAssumption DEF Trials
<1>2. /\ scenario[c] \in Nat /\ scenario'[c] \in Nat
      /\ scenario'[c] >= scenario[c] /\ Smaller(MaxTrials, n + 3) \in Nat
  BY <1>1, ScenarioGrows DEF Smaller
<1>3. /\ at <= Len(Work) /\ TypeOK /\ Here \in Keys
      /\ Here = <<Cap, Work[at][2], trial>> /\ Work[at][2] \in Paths
  BY AtHand DEF Checkpoint, RunnerInv, OnAPath
<1>4. CASE /\ ClassOf(c, p, n)' = ClassOf(c, p, n)
           /\ ClassOf(c, q, n)' = ClassOf(c, q, n)
  <2>1. scenario[c] >= Smaller(MaxTrials, n + 3)
    BY <1>4 DEF FirstRun, Retries, PartialFailures
  <2> QED
    BY <1>2, <2>1
<1>5. CASE \/ ClassOf(c, p, n)' # ClassOf(c, p, n)
           \/ ClassOf(c, q, n)' # ClassOf(c, q, n)
  <2>1. c = Cap /\ n = trial
    BY <1>1, <1>5, CheckpointChanges
  <2> DEFINE kp == <<c, p, n>>
             kq == <<c, q, n>>
  <2>2. /\ kp \in Keys /\ kq \in Keys /\ kp \in Bundle /\ kq \in Bundle
        /\ Recorded'[kp] = "fail" /\ Recorded'[kq] \notin {"absent", "fail"}
    BY <1>1, <2>1 DEF ClassOf, Keys, Trials, Bundle
  <2>3. CASE OneRecorded
    <3>1. kq # Here
      BY <2>1, <2>2, <2>3 DEF OneRecorded
    <3>2. Recorded[kq] \notin {"absent", "fail"}
      BY <2>2, <2>3, <3>1 DEF OneRecorded
    <3>3. kq \in manifest.keys /\ disk[kq] # "fail"
      BY <1>3, <2>2, <3>2, RecordedIs
    <3>4. Here \in manifest.keys
      <4>1. WholeInLedger
        BY DEF RunnerInv
      <4>2. <<c, q, n>> \in manifest.keys /\ disk[<<c, q, n>>] # "fail"
        BY <3>3
      <4>3. <<c, Work[at][2], n>> \in manifest.keys
        BY <1>3, <4>1, <4>2 DEF WholeInLedger, Trials
      <4> QED
        BY <1>3, <2>1, <4>3
    <3>5. Here \notin manifest.keys
      BY DEF FirstRun, Execution, Checkpoint
    <3> QED
      BY <3>4, <3>5
  <2>4. CASE ThreeRecorded
    <3>1. scenario' = [scenario EXCEPT ![Cap] = Retry(@)]
      BY <2>2, <2>4 DEF ThreeRecorded
    <3>2. scenario'[c] = Retry(scenario[c])
      BY <1>1, <1>3, <2>1, <3>1 DEF TypeOK
    <3> QED
      BY <1>1, <1>2, <2>1, <3>2 DEF Retry, Larger, Smaller
  <2> QED
    BY <2>3, <2>4, CheckpointRecords
<1> QED
  BY <1>4, <1>5

(* The target of the path at hand follows the scenario target.              *)
LEMMA CheckpointOnTarget ==
  ASSUME RunnerInv, FirstRun, Checkpoint
  PROVE  OnTarget'
<1>1. /\ UNCHANGED <<at, trial>> /\ Cap' = Cap /\ at <= Len(Work) /\ TypeOK
  BY DEF Checkpoint, RunnerInv, OnAPath, Cap
<1>2. PICK c \in Caps, p \in Paths, t \in Trials :
        c = Cap /\ p = Work[at][2] /\ t = trial
  BY <1>1, AtHand
<1>3. PICK k \in Nat : k = target
  BY <1>1, AtHand
<1>4. /\ t \in Nat /\ Passes[c] \in Nat /\ MaxTrials \in Nat
      /\ scenario[c] \in Nat /\ scenario'[c] \in Nat
      /\ scenario'[c] >= scenario[c]
      /\ OneRecorded => scenario'[c] = scenario[c]
  BY <1>2, ScenarioGrows, RunnerAssumption DEF Trials
<1>5. \/ target' = k /\ scenario' = scenario
      \/ target' = Larger(k, scenario'[c])
  BY <1>2, <1>3, CheckpointRecords DEF OneRecorded, ThreeRecorded
<1>6. /\ t <= k
      /\ k >= Smaller(MaxTrials, Passes[c])
      /\ k >= scenario[c]
      /\ \A n \in 1..(t - 1) :
           /\ ClassOf(c, p, n) \notin {"absent", "pending", "blocked"}
           /\ ClassOf(c, p, n) = "fail" =>
                k >= Smaller(MaxTrials, n + 3)
      /\ \/ k <= Larger(Passes[c], scenario[c])
         \/ FailedShortly(c, p, t, k)
  BY <1>1, <1>2, <1>3 DEF FirstRun, Retries, OnTarget
<1>7. PICK j \in Nat : j = target'
  BY <1>4, <1>5 DEF Larger
<1>8. j >= k /\ j >= scenario'[c] /\ (j = k \/ j = scenario'[c])
  BY <1>4, <1>5, <1>6, <1>7 DEF Larger
<1>9. t <= j /\ j >= Smaller(MaxTrials, Passes[c])
  BY <1>4, <1>6, <1>8 DEF Smaller
<1>10. ASSUME NEW n \in 1..(t - 1)
       PROVE  /\ ClassOf(c, p, n)' \notin {"absent", "pending", "blocked"}
              /\ ClassOf(c, p, n)' = "fail" =>
                   j >= Smaller(MaxTrials, n + 3)
  <2>1. n \in Trials /\ n \in Nat /\ n # trial
    BY <1>2, <1>4 DEF Trials
  <2>2. ClassOf(c, p, n)' = ClassOf(c, p, n)
    BY <2>1, CheckpointChanges
  <2>3. Smaller(MaxTrials, n + 3) \in Nat
    BY <1>4, <2>1 DEF Smaller
  <2> QED
    BY <1>6, <1>8, <2>2, <2>3
<1>11. \/ j <= Larger(Passes[c], scenario'[c])
       \/ FailedShortly(c, p, t, j)'
  <2>1. CASE j = scenario'[c]
    BY <1>4, <2>1 DEF Larger
  <2>2. CASE j = k
    <3>1. CASE k <= Larger(Passes[c], scenario[c])
      BY <1>4, <2>2, <3>1 DEF Larger
    <3>2. CASE FailedShortly(c, p, t, k)
      BY <2>2, <3>2, ShortlyStays
    <3> QED
      BY <1>6, <3>1, <3>2
  <2> QED
    BY <1>8, <2>1, <2>2
<1> QED
  BY <1>1, <1>2, <1>7, <1>8, <1>9, <1>10, <1>11
     DEF OnTarget, FailedShortly, Tried, OnlyFailed, ClassOf

(* The trials at hand stay within what was made of a path that is left.     *)
LEMMA WithinLeft ==
  ASSUME RunnerInv, Retries, at <= Len(Work),
         NEW p \in Group(Cap, Work[at][2]), NEW e \in Trials,
         EndsAt(Cap, p, e), e >= scenario[Cap]
  PROVE  trial <= e
<1>1. PICK c \in Caps, t \in Trials : c = Cap /\ t = trial
  BY AtHand DEF RunnerInv
<1>2. /\ t \in Nat /\ e \in Nat /\ t <= MaxTrials /\ MaxTrials \in Nat
      /\ target \in Nat /\ Passes[c] \in Nat /\ scenario[c] \in Nat
      /\ Work[at][2] \in Paths
  BY <1>1, AtHand, RunnerAssumption DEF RunnerInv, Trials
<1>3. p \in Paths /\ Group(c, p) = Group(c, Work[at][2])
  BY <1>1, <1>2, GroupIs
<1>4. /\ e >= Smaller(MaxTrials, Passes[c]) /\ e >= scenario[c]
      /\ \A n \in 1..e : ClassOf(c, p, n) # "absent"
      /\ \A n \in 1..e :
           ClassOf(c, p, n) = "fail" => e >= Smaller(MaxTrials, n + 3)
      /\ \A n \in Trials : n > e => ~Tried(c, p, n)
  BY <1>1 DEF EndsAt, Reaches
<1>5. /\ t <= target
      /\ \/ target <= Larger(Passes[c], scenario[c])
         \/ FailedShortly(c, Work[at][2], t, target)
  BY <1>1 DEF Retries, OnTarget
<1>6. CASE target <= Larger(Passes[c], scenario[c])
  BY <1>1, <1>2, <1>4, <1>5, <1>6 DEF Larger, Smaller
<1>7. CASE FailedShortly(c, Work[at][2], t, target)
  <2>1. PICK n \in 1..(t - 1) :
          /\ target <= n + 3
          /\ Tried(c, Work[at][2], n) /\ OnlyFailed(c, Work[at][2], n)
    BY <1>7 DEF FailedShortly
  <2>2. n \in Trials /\ n \in Nat
    BY <1>2 DEF Trials
  <2>3. Tried(c, p, n) /\ OnlyFailed(c, p, n)
    BY <1>3, <2>1 DEF Tried, OnlyFailed
  <2>4. n <= e
    BY <1>2, <1>4, <2>2, <2>3
  <2>5. n \in 1..e /\ p \in Group(c, p)
    BY <1>1, <1>3, <2>1, <2>2, <2>4, GroupIs
  <2>6. ClassOf(c, p, n) = "fail"
    BY <1>4, <2>3, <2>5 DEF OnlyFailed
  <2>7. e >= Smaller(MaxTrials, n + 3)
    BY <1>4, <2>5, <2>6
  <2> QED
    BY <1>1, <1>2, <1>5, <2>1, <2>2, <2>7 DEF Smaller
<1> QED
  BY <1>5, <1>6, <1>7

(* A checkpoint adds nothing to a path that was left.                       *)
LEMMA CheckpointLeft ==
  ASSUME RunnerInv, FirstRun, Checkpoint
  PROVE  PathsLeft'
<1> SUFFICES ASSUME NEW i \in DOMAIN Work, i < at'
             PROVE  SettledUnder(Work[i][1], Work[i][2])'
  BY DEF PathsLeft
<1> DEFINE c == Work[i][1]
           p == Work[i][2]
<1>1. /\ c \in Caps /\ p \in Paths /\ i < at /\ at <= Len(Work)
      /\ MaxTrials \in Nat
  BY WorkAt, RunnerAssumption DEF Checkpoint, RunnerInv, OnAPath
<1>2. SettledUnder(c, p)
  BY <1>1 DEF FirstRun, Retries, PathsLeft
<1>3. PICK e \in Trials :
        StopsAt(c, p, e) \/ (EndsAt(c, p, e) /\ e >= scenario[c])
  BY <1>2 DEF SettledUnder
<1>4. e \in Nat /\ e <= MaxTrials /\ e \in 1..e
  BY <1>1 DEF Trials
<1>5. ASSUME NEW n \in 1..e
      PROVE  ClassOf(c, p, n)' = ClassOf(c, p, n)
  <2>1. n \in Trials
    BY <1>1, <1>4 DEF Trials
  <2>2. ClassOf(c, p, n) # "absent"
    BY <1>3 DEF StopsAt, EndsAt, Reaches
  <2> QED
    BY <1>1, <2>1, <2>2, CheckpointChanges
<1>6. Reaches(c, p, e)'
  <2>1. Reaches(c, p, e) /\ \A n \in 1..(e - 1) : n \in 1..e
    BY <1>3, <1>4 DEF StopsAt, EndsAt
  <2> QED
    BY <1>5, <2>1 DEF Reaches
<1>7. CASE StopsAt(c, p, e)
  <2>1. StopsAt(c, p, e)'
    BY <1>4, <1>5, <1>6, <1>7 DEF StopsAt
  <2> QED
    BY <2>1 DEF SettledUnder
<1>8. CASE EndsAt(c, p, e) /\ e >= scenario[c]
  <2>1. ASSUME c = Cap, p \in Group(Cap, Work[at][2])
        PROVE  trial <= e /\ OneRecorded
    <3>1. trial <= e
      BY <1>1, <1>8, <2>1, WithinLeft DEF FirstRun
    <3>2. trial \in 1..e
      BY <1>1, <3>1, AtHand DEF Trials, RunnerInv
    <3>3. ClassOf(c, p, trial) # "absent"
      BY <1>8, <3>2 DEF EndsAt, Reaches
    <3>4. <<c, p, trial>> \in Bundle
      BY <1>1, <2>1 DEF Bundle
    <3> QED
      BY <3>1, <3>3, <3>4, CheckpointRecords DEF ThreeRecorded, ClassOf
  <2>2. ASSUME NEW n \in Trials, n > e
        PROVE  ~Tried(c, p, n)'
    <3>1. ~Tried(c, p, n)
      BY <1>8, <2>2 DEF EndsAt
    <3>2. CASE c = Cap /\ n = trial /\ p \in Group(Cap, Work[at][2])
      <4>1. trial <= e
        BY <2>1, <3>2
      <4> QED
        BY <1>4, <2>2, <3>2, <4>1 DEF Trials
    <3>3. CASE ~(c = Cap /\ n = trial /\ p \in Group(Cap, Work[at][2]))
      BY <1>1, <3>1, <3>3, TriedGrows
    <3> QED
      BY <3>2, <3>3
  <2>3. scenario'[c] = scenario[c]
    <3>1. CASE c # Cap
      BY <1>1, <3>1, ScenarioGrows
    <3>2. CASE OneRecorded
      BY <1>1, <3>2, ScenarioGrows
    <3>3. CASE c = Cap /\ ThreeRecorded
      <4>1. p \in Group(Cap, Work[at][2])
        BY <1>1, <3>3 DEF Group, ThreeRecorded
      <4> QED
        BY <2>1, <3>2, <3>3, <4>1
    <3> QED
      BY <3>1, <3>2, <3>3, CheckpointRecords
  <2>4. EndsAt(c, p, e)'
    BY <1>4, <1>5, <1>6, <1>8, <2>2 DEF EndsAt
  <2> QED
    BY <1>8, <2>3, <2>4 DEF SettledUnder
<1> QED
  BY <1>3, <1>7, <1>8

(* A checkpoint keeps all of it.                                            *)
LEMMA CheckpointRetries ==
  ASSUME RunnerInv, FirstRun, Checkpoint
  PROVE  FirstRun'
<1>1. Retries'
  BY CheckpointInOrder, CheckpointWithReason, CheckpointPartial,
     CheckpointOnTarget, CheckpointLeft DEF Retries
<1>2. proc' = "advance" /\ Here' = Here
  BY DEF Checkpoint, Here, Cap
<1>3. HereTried'
  BY <1>2, CheckpointRecords DEF HereTried
<1> QED
  BY <1>1, <1>2, <1>3 DEF FirstRun, Execution
-----------------------------------------------------------------------------
(* The moves between trials and paths.                                      *)

(* The record of the path at hand after its trial, with the target that the *)
(* trial leaves.                                                            *)
LEMMA AfterTrial ==
  ASSUME RunnerInv, Retries, HereTried, proc = "advance", ~Stops,
         NEW c \in Caps, NEW p \in Paths, NEW t \in Trials, NEW g,
         c = Cap, p = Work[at][2], t = trial, g = TargetAfter
  PROVE  /\ g \in Nat /\ g >= Smaller(MaxTrials, Passes[c])
         /\ g >= scenario[c]
         /\ \A n \in 1..t :
              /\ ClassOf(c, p, n) \notin {"absent", "pending", "blocked"}
              /\ ClassOf(c, p, n) = "fail" => g >= Smaller(MaxTrials, n + 3)
         /\ \/ g <= Larger(Passes[c], scenario[c])
            \/ FailedShortly(c, p, t + 1, g)
<1>1. /\ at <= Len(Work) /\ TypeOK /\ manifest.keys = Existing
      /\ MaxTrials \in Nat
  BY RunnerAssumption DEF RunnerInv, OnAPath, LedgerOfDisk, Busy
<1>2. PICK k \in Nat : k = target
  BY <1>1, AtHand
<1>3. /\ t \in Nat /\ t <= MaxTrials /\ 1 <= t
      /\ Passes[c] \in Nat /\ scenario[c] \in Nat
      /\ scenario[c] <= MaxTrials /\ Here = <<c, p, t>> /\ Here \in Keys
  BY <1>1, AtHand DEF Trials
<1>4. /\ k >= Smaller(MaxTrials, Passes[c]) /\ k >= scenario[c]
      /\ \A n \in 1..(t - 1) :
           /\ ClassOf(c, p, n) \notin {"absent", "pending", "blocked"}
           /\ ClassOf(c, p, n) = "fail" => k >= Smaller(MaxTrials, n + 3)
      /\ \/ k <= Larger(Passes[c], scenario[c])
         \/ FailedShortly(c, p, t, k)
  BY <1>1, <1>2 DEF Retries, OnTarget
<1>5. ClassOf(c, p, t) = disk[Here] /\ ClassOf(c, p, t) # "absent"
  BY <1>1, <1>3, RecordedIs DEF HereTried, ClassOf, Existing
<1>6. g = IF ClassOf(c, p, t) = "fail"
          THEN Smaller(MaxTrials, Larger(k, t + 3)) ELSE k
  BY <1>2, <1>5 DEF TargetAfter, Retry
<1>7. /\ g \in Nat /\ (ClassOf(c, p, t) # "fail" => g = k)
      /\ ClassOf(c, p, t) = "fail" => /\ g >= Smaller(MaxTrials, t + 3)
                                      /\ g <= MaxTrials
                                      /\ g <= k \/ g <= t + 3
      /\ g >= Smaller(MaxTrials, k)
  BY <1>1, <1>2, <1>3, <1>6 DEF Larger, Smaller
<1>8. g >= Smaller(MaxTrials, Passes[c]) /\ g >= scenario[c]
  BY <1>1, <1>2, <1>3, <1>4, <1>7 DEF Smaller
<1>9. ASSUME NEW n \in 1..t
      PROVE  /\ ClassOf(c, p, n) \notin {"absent", "pending", "blocked"}
             /\ ClassOf(c, p, n) = "fail" => g >= Smaller(MaxTrials, n + 3)
  <2>1. CASE n = t
    BY <1>5, <1>7, <2>1 DEF Stops
  <2>2. CASE n # t
    <3>1. n \in 1..(t - 1) /\ n \in Nat
      BY <1>3, <2>2
    <3> QED
      BY <1>1, <1>2, <1>4, <1>7, <3>1 DEF Smaller
  <2> QED
    BY <2>1, <2>2
<1>10. ASSUME FailedShortly(c, p, t, k), g <= k
       PROVE  FailedShortly(c, p, t + 1, g)
  <2>1. PICK m \in 1..(t - 1) :
          k <= m + 3 /\ Tried(c, p, m) /\ OnlyFailed(c, p, m)
    BY <1>10 DEF FailedShortly
  <2>2. m \in 1..t /\ g <= m + 3 /\ 1..t = 1..((t + 1) - 1)
    BY <1>2, <1>3, <1>7, <1>10, <2>1
  <2> QED
    BY <2>1, <2>2 DEF FailedShortly
<1>11. ASSUME g <= k
       PROVE  \/ g <= Larger(Passes[c], scenario[c])
              \/ FailedShortly(c, p, t + 1, g)
  <2>1. CASE k <= Larger(Passes[c], scenario[c])
    BY <1>2, <1>3, <1>7, <1>11, <2>1 DEF Larger
  <2> QED
    BY <1>4, <1>10, <1>11, <2>1
<1>12. ASSUME ClassOf(c, p, t) = "fail", g <= t + 3
       PROVE  \/ g <= Larger(Passes[c], scenario[c])
              \/ FailedShortly(c, p, t + 1, g)
  <2>1. p \in Group(c, p) /\ Group(c, p) \subseteq Paths
    BY GroupIs
  <2>2. Tried(c, p, t)
    BY <1>12, <2>1 DEF Tried
  <2>3. CASE OnlyFailed(c, p, t)
    <3>1. t \in 1..t /\ 1..t = 1..((t + 1) - 1)
      BY <1>3
    <3> QED
      BY <1>12, <2>2, <2>3, <3>1 DEF FailedShortly
  <2>4. CASE ~OnlyFailed(c, p, t)
    <3>1. PICK q \in Group(c, p) : ClassOf(c, q, t) \notin {"absent", "fail"}
      BY <2>4 DEF OnlyFailed
    <3>2. c \in Bundled
      BY <1>12, <3>1 DEF Group
    <3>3. scenario[c] >= Smaller(MaxTrials, t + 3)
      BY <1>12, <2>1, <3>1, <3>2 DEF Retries, PartialFailures
    <3> QED
      BY <1>1, <1>3, <1>7, <1>12, <3>3 DEF Smaller, Larger
  <2> QED
    BY <2>3, <2>4
<1> QED
  BY <1>2, <1>7, <1>8, <1>9, <1>11, <1>12

(* As long as the ledger and the scenario targets stay as they are, so does *)
(* what is said of the trials that were made.                               *)
LEMMA RecordStays ==
  ASSUME Retries, Recorded' = Recorded, scenario' = scenario
  PROVE  InOrder' /\ WithReason' /\ PartialFailures'
  BY DEF Retries, InOrder, WithReason, PartialFailures, Asked,
         FailedShortly, Tried, OnlyFailed, ClassOf

(* A path that was left stays as it was when only the loops move.           *)
LEMMA LeftStays ==
  ASSUME Recorded' = Recorded, scenario' = scenario, NEW c, NEW p,
         SettledUnder(c, p)
  PROVE  SettledUnder(c, p)'
  BY DEF SettledUnder, StopsAt, EndsAt, Reaches, Tried, ClassOf

(* The next trial of the path is within the target that the last one left.  *)
LEMMA NextTrialKeeps ==
  ASSUME RunnerInv, FirstRun, NextTrial
  PROVE  FirstRun'
<1>1. /\ UNCHANGED <<disk, manifest, at, scenario>> /\ Recorded' = Recorded
      /\ proc = "advance" /\ ~Stops /\ target' = TargetAfter
      /\ trial' = trial + 1 /\ proc' = "lookup" /\ Cap' = Cap
      /\ trial < Smaller(target', MaxTrials)
      /\ at <= Len(Work) /\ TypeOK /\ MaxTrials \in Nat
  BY RunnerAssumption
     DEF NextTrial, Recorded, RunnerInv, OnAPath, TrialAfter, Cap
<1>2. InOrder' /\ WithReason' /\ PartialFailures'
  BY <1>1, RecordStays DEF FirstRun
<1>3. PathsLeft'
  BY <1>1, LeftStays DEF FirstRun, Retries, PathsLeft
<1>4. PICK c \in Caps, p \in Paths, t \in Trials :
        c = Cap /\ p = Work[at][2] /\ t = trial
  BY <1>1, AtHand
<1>5. PICK g : g = TargetAfter
  OBVIOUS
<1>6. /\ g \in Nat /\ g >= Smaller(MaxTrials, Passes[c])
      /\ g >= scenario[c]
      /\ \A n \in 1..t :
           /\ ClassOf(c, p, n) \notin {"absent", "pending", "blocked"}
           /\ ClassOf(c, p, n) = "fail" => g >= Smaller(MaxTrials, n + 3)
      /\ \/ g <= Larger(Passes[c], scenario[c])
         \/ FailedShortly(c, p, t + 1, g)
  BY <1>1, <1>4, <1>5, AfterTrial DEF FirstRun
<1>7. t \in Nat /\ t + 1 <= g /\ 1..(t + 1 - 1) = 1..t
  BY <1>1, <1>4, <1>5, <1>6 DEF Trials, Smaller
<1>8. \A n : ClassOf(c, p, n)' = ClassOf(c, p, n)
  BY <1>1 DEF ClassOf
<1>9. FailedShortly(c, p, t + 1, g) => FailedShortly(c, p, t + 1, g)'
  BY <1>1 DEF FailedShortly, Tried, OnlyFailed, ClassOf
<1>10. OnTarget'
  <2>1. /\ trial' = t + 1 /\ target' = g /\ at' = at /\ scenario' = scenario
        /\ Cap' = c /\ Work[at'][2] = p /\ 1..(trial' - 1) = 1..t
    BY <1>1, <1>4, <1>5, <1>7
  <2>2. /\ trial' <= target'
        /\ target' >= Smaller(MaxTrials, Passes[Cap'])
        /\ target' >= scenario'[Cap']
    BY <1>6, <1>7, <2>1
  <2>3. ASSUME NEW n \in 1..(trial' - 1)
        PROVE  /\ Recorded'[<<Cap', Work[at'][2], n>>]
                    \notin {"absent", "pending", "blocked"}
               /\ Recorded'[<<Cap', Work[at'][2], n>>] = "fail" =>
                    target' >= Smaller(MaxTrials, n + 3)
    BY <1>1, <1>6, <2>1 DEF ClassOf
  <2>4. \/ target' <= Larger(Passes[Cap'], scenario'[Cap'])
        \/ FailedShortly(Cap, Work[at][2], trial, target)'
    <3>1. CASE g <= Larger(Passes[c], scenario[c])
      BY <2>1, <3>1
    <3>2. CASE FailedShortly(c, p, t + 1, g)
      BY <1>9, <2>1, <3>2 DEF FailedShortly, Tried, OnlyFailed, ClassOf
    <3> QED
      BY <1>6, <3>1, <3>2
  <2> QED
    BY <2>2, <2>3, <2>4 DEF OnTarget, ClassOf
<1> QED
  BY <1>1, <1>2, <1>3, <1>10 DEF FirstRun, Retries, HereTried, Execution

(* A path that is left has stopped, or has all the trials it asked for, and *)
(* nothing beyond them was tried.                                           *)
LEMMA PathEnds ==
  ASSUME RunnerInv, FirstRun, NextPath
  PROVE  SettledUnder(Cap, Work[at][2])
<1>1. /\ proc = "advance"
      /\ Stops \/ trial >= Smaller(TargetAfter, MaxTrials)
      /\ at <= Len(Work) /\ TypeOK /\ MaxTrials \in Nat
      /\ manifest.keys = Existing
  BY RunnerAssumption DEF NextPath, RunnerInv, OnAPath, LedgerOfDisk, Busy
<1>2. PICK c \in Caps, p \in Paths, t \in Trials :
        c = Cap /\ p = Work[at][2] /\ t = trial
  BY <1>1, AtHand
<1>3. /\ t \in Nat /\ 1 <= t /\ t <= MaxTrials /\ Here = <<c, p, t>>
      /\ Here \in Keys /\ Passes[c] \in Nat /\ scenario[c] \in Nat
      /\ scenario[c] <= MaxTrials
  BY <1>1, <1>2, AtHand DEF Trials
<1>4. ClassOf(c, p, t) = disk[Here] /\ ClassOf(c, p, t) # "absent"
  BY <1>1, <1>3, RecordedIs DEF FirstRun, HereTried, ClassOf, Existing
<1>5. CASE Stops
  <2>1. \A n \in 1..(t - 1) :
          ClassOf(c, p, n) \notin {"absent", "pending", "blocked"}
    BY <1>1, <1>2 DEF FirstRun, Retries, OnTarget
  <2>2. \A n \in 1..t : n = t \/ n \in 1..(t - 1)
    BY <1>3
  <2>3. StopsAt(c, p, t)
    BY <1>4, <1>5, <2>1, <2>2 DEF StopsAt, Reaches, Stops
  <2> QED
    BY <1>2, <2>3 DEF SettledUnder
<1>6. CASE ~Stops
  <2>1. PICK g : g = TargetAfter
    OBVIOUS
  <2>2. /\ g \in Nat /\ g >= Smaller(MaxTrials, Passes[c])
        /\ g >= scenario[c]
        /\ \A n \in 1..t :
             /\ ClassOf(c, p, n) \notin {"absent", "pending", "blocked"}
             /\ ClassOf(c, p, n) = "fail" => g >= Smaller(MaxTrials, n + 3)
    BY <1>1, <1>2, <1>6, <2>1, AfterTrial DEF FirstRun
  <2>3. t >= Smaller(g, MaxTrials)
    BY <1>1, <1>2, <1>6, <2>1
  <2>4. /\ t >= Smaller(MaxTrials, Passes[c]) /\ t >= scenario[c]
        /\ \A n \in 1..t :
             ClassOf(c, p, n) = "fail" => t >= Smaller(MaxTrials, n + 3)
    BY <1>1, <1>3, <2>2, <2>3 DEF Smaller
  <2>5. Reaches(c, p, t)
    <3>1. \A n \in 1..(t - 1) : n \in 1..t
      BY <1>3
    <3> QED
      BY <2>2, <3>1 DEF Reaches
  <2>6. ASSUME NEW n \in Trials, n > t
        PROVE  ~Tried(c, p, n)
    <3>1. SUFFICES ASSUME Tried(c, p, n)
                   PROVE  FALSE
      OBVIOUS
    <3>2. t + 1 \in 1..n /\ t + 1 \in Trials /\ n \in Nat
      BY <1>1, <1>3, <2>6 DEF Trials
    <3>3. Tried(c, p, t + 1)
      BY <3>1, <3>2 DEF FirstRun, Retries, InOrder
    <3>4. Asked(c, p, t + 1)
      BY <3>2, <3>3 DEF FirstRun, Retries, WithReason
    <3>5. CASE t + 1 <= Larger(Passes[c], scenario[c])
      BY <1>1, <1>3, <2>4, <2>6, <3>2, <3>5 DEF Larger, Smaller, Trials
    <3>6. CASE FailedShortly(c, p, t + 1, t + 1)
      <4>0. 1..t = 1..((t + 1) - 1)
        BY <1>3
      <4>1. PICK m \in 1..t :
              t + 1 <= m + 3 /\ Tried(c, p, m) /\ OnlyFailed(c, p, m)
        BY <3>6, <4>0 DEF FailedShortly
      <4>2. m \in 1..t /\ m \in Nat /\ p \in Group(c, p)
        BY <1>3, <4>1, GroupIs
      <4>3. ClassOf(c, p, m) = "fail"
        BY <2>2, <4>1, <4>2 DEF OnlyFailed
      <4>4. t >= Smaller(MaxTrials, m + 3)
        BY <2>4, <4>2, <4>3
      <4>5. t + 1 <= MaxTrials
        BY <1>1, <3>2 DEF Trials
      <4> QED
        BY <1>1, <1>3, <4>1, <4>2, <4>4, <4>5 DEF Smaller
    <3> QED
      BY <3>4, <3>5, <3>6 DEF Asked
  <2>7. t \in 1..t
    BY <1>3
  <2>8. EndsAt(c, p, t)
    BY <2>2, <2>4, <2>5, <2>6, <2>7 DEF EndsAt
  <2> QED
    BY <1>2, <2>4, <2>8 DEF SettledUnder
<1> QED
  BY <1>5, <1>6

(* The next path starts at its first trial, with a target of its own.       *)
LEMMA NextPathKeeps ==
  ASSUME RunnerInv, FirstRun, NextPath
  PROVE  FirstRun'
<1>1. /\ UNCHANGED <<disk, manifest, scenario>> /\ Recorded' = Recorded
      /\ proc' = "lookup" /\ at' = at + 1 /\ trial' = 1
      /\ target' = TargetAt(at + 1, scenario) /\ TypeOK
      /\ at \in Nat /\ MaxTrials \in Nat /\ at <= Len(Work)
  BY AtHand, RunnerAssumption DEF NextPath, Recorded, RunnerInv, OnAPath
<1>2. InOrder' /\ WithReason' /\ PartialFailures'
  BY <1>1, RecordStays DEF FirstRun
<1>3. PathsLeft'
  <2> SUFFICES ASSUME NEW i \in DOMAIN Work, i < at'
               PROVE  SettledUnder(Work[i][1], Work[i][2])'
    BY DEF PathsLeft
  <2>1. SettledUnder(Work[i][1], Work[i][2])
    <3>1. CASE i = at
      BY <3>1, PathEnds DEF Cap
    <3>2. CASE i # at
      BY <1>1, <3>2, WorkAt DEF FirstRun, Retries, PathsLeft
    <3> QED
      BY <3>1, <3>2
  <2> QED
    BY <1>1, <2>1, LeftStays
<1>4. OnTarget'
  <2> SUFFICES ASSUME at' <= Len(Work)
               PROVE  OnTarget'
    BY DEF OnTarget
  <2>1. /\ Cap' = Work[at + 1][1] /\ Work[at + 1][1] \in Caps
    BY <1>1, WorkEntry DEF Cap
  <2>2. PICK c \in Caps : c = Cap'
    BY <2>1
  <2>3. /\ Passes[c] \in Nat /\ Passes[c] # 0 /\ scenario[c] \in Nat
    BY <1>1, RunnerAssumption, SMTT(20) DEF TypeOK
  <2>4. target' = Larger(Passes[c], scenario[c])
    BY <1>1, <2>1, <2>2 DEF TargetAt, TargetOf
  <2>5. /\ 1 <= target' /\ target' >= Smaller(MaxTrials, Passes[c])
        /\ target' >= scenario[c]
        /\ target' <= Larger(Passes[c], scenario[c])
    BY <1>1, <2>3, <2>4 DEF Larger, Smaller
  <2>6. \A n : n \notin 1..(trial' - 1)
    BY <1>1
  <2> QED
    BY <1>1, <2>2, <2>5, <2>6 DEF OnTarget
<1> QED
  BY <1>1, <1>2, <1>3, <1>4 DEF FirstRun, Retries, HereTried, Execution

(* After the last path every path of the work is settled.                   *)
LEMMA FinishSettles ==
  ASSUME RunnerInv, FirstRun, Finish
  PROVE  \A i \in DOMAIN Work : Settled(Work[i][1], Work[i][2])'
<1>1. /\ proc = "lookup" /\ at > Len(Work) /\ manifest' = Ledger
      /\ disk' = disk /\ known = Existing /\ manifest.keys = Existing
      /\ at \in Nat /\ Len(Work) \in Nat
  BY RunnerAssumption
     DEF Finish, RunnerInv, LedgerOfDisk, Busy, TypeOK
<1>2. Recorded' = Recorded
  BY <1>1 DEF Recorded, Ledger
<1> SUFFICES ASSUME NEW i \in DOMAIN Work
             PROVE  Settled(Work[i][1], Work[i][2])'
  OBVIOUS
<1>3. i < at
  BY <1>1, WorkAt
<1>4. SettledUnder(Work[i][1], Work[i][2])
  BY <1>3 DEF FirstRun, Retries, PathsLeft
<1>5. Settled(Work[i][1], Work[i][2])
  BY <1>4 DEF SettledUnder, Settled
<1> QED
  BY <1>2, <1>5, SettledStays

(* No run has begun.                                                        *)
LEMMA RetryInvInit == Init => RetryInv
  BY DEF Init, RetryInv

(* Every step keeps the invariant: the actions of the first run by their    *)
(* lemmas, and the others because they end it.                              *)
LEMMA RetryInvStep ==
  RunnerInv /\ RunnerInv' /\ RetryInv /\ [Next]_vars => RetryInv'
<1> SUFFICES ASSUME RunnerInv, RunnerInv', RetryInv, [Next]_vars
             PROVE  RetryInv'
  OBVIOUS
<1>1. runs \in Nat
  BY DEF RunnerInv, TypeOK
<1>2. CASE Start
  <2>1. runs' = runs + 1 /\ proc' = "lookup"
    BY <1>2 DEF Start
  <2>2. runs' = 1 => FirstRun'
    BY <1>1, <1>2, <2>1, FirstStart DEF RetryInv
  <2> QED
    BY <1>1, <2>1, <2>2 DEF RetryInv
<1>3. CASE Refuse
  BY <1>1, <1>3 DEF Refuse, RetryInv, Busy
<1>4. CASE Crash
  BY <1>4 DEF Crash, RetryInv, Busy
<1>5. CASE UNCHANGED vars
  <2>1. /\ UNCHANGED <<disk, manifest, proc, at, trial, target, scenario>>
        /\ UNCHANGED <<known, writes, runs>>
    BY <1>5 DEF vars, memory, counters
  <2>2. Recorded' = Recorded /\ Here' = Here /\ Cap' = Cap /\ Bundle' = Bundle
    BY <2>1 DEF Recorded, Here, Cap, Bundle
  <2>3. Retries => Retries'
    BY <2>1, <2>2, RetriesStay
  <2>4. HereTried /\ Execution => HereTried' /\ Execution'
    BY <2>1, <2>2 DEF HereTried, Execution, OnePacket, ThreePackets
  <2>5. FirstRun => FirstRun'
    BY <2>3, <2>4 DEF FirstRun
  <2>6. \A i \in DOMAIN Work :
          Settled(Work[i][1], Work[i][2]) => Settled(Work[i][1], Work[i][2])'
    BY <2>2, SettledStays
  <2> QED
    BY <2>1, <2>5, <2>6 DEF RetryInv
<1>6. CASE Step
  <2>1. runs' = runs /\ runs # 0 /\ proc \in Busy
    <3>1. proc \in Busy /\ UNCHANGED counters
      BY <1>6 DEF Step, Found, Unregistered, Execute, ExecutorReturns,
                  ExecutorOverspends, ExecutorRaises, WritePacket,
                  PartialBundle, InvalidPacket, Checkpoint, NextTrial,
                  NextPath, Finish, Busy
    <3> QED
      BY <3>1 DEF RetryInv, Busy, counters
  <2>2. CASE runs # 1
    BY <2>1, <2>2 DEF RetryInv
  <2>3. CASE runs = 1
    <3>1. FirstRun
      BY <2>1, <2>3 DEF RetryInv
    <3>2. CASE Found \/ Unregistered \/ Execute
      <4>1. proc' \in Busy
        BY <3>2 DEF Found, Unregistered, Execute, Busy
      <4> QED
        BY <2>1, <2>3, <3>1, <3>2, <4>1, LookupKeeps DEF RetryInv, Busy
    <3>3. CASE ExecutorReturns \/ ExecutorRaises
      <4>1. proc' = "saving"
        BY <3>3 DEF ExecutorReturns, ExecutorRaises
      <4> QED
        BY <2>1, <2>3, <3>1, <3>3, <4>1, ExecutedKeeps DEF RetryInv
    <3>4. CASE ExecutorOverspends \/ PartialBundle \/ InvalidPacket
      <4>1. proc' = "refused"
        BY <3>4 DEF ExecutorOverspends, PartialBundle, InvalidPacket
      <4> QED
        BY <2>1, <2>3, <4>1 DEF RetryInv, Busy
    <3>5. CASE WritePacket
      <4>1. proc' = "saving"
        BY <3>5 DEF WritePacket
      <4> QED
        BY <2>1, <2>3, <3>1, <3>5, <4>1, WrittenKeeps DEF RetryInv
    <3>6. CASE Checkpoint
      <4>1. proc' = "advance"
        BY <3>6 DEF Checkpoint
      <4> QED
        BY <2>1, <2>3, <3>1, <3>6, <4>1, CheckpointRetries DEF RetryInv
    <3>7. CASE NextTrial
      <4>1. proc' = "lookup"
        BY <3>7 DEF NextTrial
      <4> QED
        BY <2>1, <2>3, <3>1, <3>7, <4>1, NextTrialKeeps DEF RetryInv
    <3>8. CASE NextPath
      <4>1. proc' = "lookup"
        BY <3>8 DEF NextPath
      <4> QED
        BY <2>1, <2>3, <3>1, <3>8, <4>1, NextPathKeeps DEF RetryInv
    <3>9. CASE Finish
      <4>1. proc' = "finished"
        BY <3>9 DEF Finish
      <4> QED
        BY <2>1, <2>3, <3>1, <3>9, <4>1, FinishSettles DEF RetryInv, Busy
    <3> QED
      BY <1>6, <3>2, <3>3, <3>4, <3>5, <3>6, <3>7, <3>8, <3>9 DEF Step
  <2> QED
    BY <2>2, <2>3
<1> QED
  BY <1>2, <1>3, <1>4, <1>5, <1>6 DEF Next

(* The invariant of the retries, of every behaviour of the runner.          *)
LEMMA RetryInvHolds == Spec => [](RunnerInv /\ RetryInv)
<1>1. Init => RunnerInv /\ RetryInv
  BY RunnerInvInit, RetryInvInit
<1>2. RunnerInv /\ RetryInv /\ [Next]_vars => (RunnerInv /\ RetryInv)'
  BY RunnerInvStep, RetryInvStep
<1> QED
  BY <1>1, <1>2, PTL DEF Spec

(* What is on disk when a run ends is what its ledger lists.                *)
LEMMA DiskIsRecorded ==
  ASSUME RunnerInv, proc = "finished",
         NEW c \in Caps, NEW p \in Paths, NEW n \in Trials
  PROVE  ClassOf(c, p, n) = disk[<<c, p, n>>]
<1>1. /\ <<c, p, n>> \in Keys /\ manifest.keys = Existing /\ TypeOK
  BY DEF Keys, Trials, RunnerInv, LedgerOfDisk
<1> QED
  BY <1>1, RecordedIs DEF ClassOf, Existing

(* A settled path has the trials that its failures ask for.                 *)
LEMMA Retried == RunnerInv /\ RetryInv => FailuresRetried
<1> SUFFICES ASSUME RunnerInv, RetryInv, proc = "finished", runs = 1,
                    NEW i \in DOMAIN Work, NEW n \in 1..MaxTrials,
                    disk[<<Work[i][1], Work[i][2], n>>] = "fail",
                    NEW m \in n..Smaller(MaxTrials, n + 3)
             PROVE  \/ disk[<<Work[i][1], Work[i][2], m>>] # "absent"
                    \/ \E s \in 1..(m - 1) :
                         disk[<<Work[i][1], Work[i][2], s>>]
                           \in {"blocked", "pending"}
  BY DEF FailuresRetried
<1> DEFINE c == Work[i][1]
           p == Work[i][2]
<1>1. c \in Caps /\ p \in Paths /\ MaxTrials \in Nat
  BY WorkAt, RunnerAssumption
<1>2. \A k \in Trials : ClassOf(c, p, k) = disk[<<c, p, k>>]
  BY <1>1, DiskIsRecorded
<1>3. PICK e \in Trials : StopsAt(c, p, e) \/ EndsAt(c, p, e)
  BY DEF RetryInv, Settled
<1>4. /\ n \in Trials /\ n \in Nat /\ e \in Nat /\ e <= MaxTrials
      /\ m \in Nat /\ n <= m /\ m <= Smaller(MaxTrials, n + 3)
      /\ m \in Trials /\ 1 <= e /\ 1 <= m
  BY <1>1 DEF Trials, Smaller
<1>5. ASSUME m <= e
      PROVE  disk[<<c, p, m>>] # "absent"
  <2>1. m \in 1..e
    BY <1>4, <1>5
  <2>2. ClassOf(c, p, m) # "absent"
    BY <1>3, <2>1 DEF StopsAt, EndsAt, Reaches
  <2> QED
    BY <1>2, <1>4, <2>2
<1>6. CASE StopsAt(c, p, e)
  <2>1. disk[<<c, p, e>>] \in {"blocked", "pending"}
    BY <1>2, <1>6 DEF StopsAt
  <2>2. e \in 1..(m - 1) \/ m <= e
    BY <1>4
  <2> QED
    BY <1>5, <2>1, <2>2
<1>7. CASE EndsAt(c, p, e)
  <2>1. n <= e
    <3>1. SUFFICES ASSUME n > e
                   PROVE  FALSE
      BY <1>4
    <3>2. ClassOf(c, p, n) = "fail"
      BY <1>2, <1>4
    <3>3. Tried(c, p, n)
      BY <1>1, <3>2, GroupIs DEF Tried
    <3> QED
      BY <1>4, <1>7, <3>1, <3>3 DEF EndsAt
  <2>2. ClassOf(c, p, n) = "fail" /\ n \in 1..e
    BY <1>2, <1>4, <2>1
  <2>3. e >= Smaller(MaxTrials, n + 3)
    BY <1>7, <2>2 DEF EndsAt
  <2>4. m <= e
    BY <1>1, <1>4, <2>3 DEF Smaller
  <2> QED
    BY <1>5, <2>4
<1> QED
  BY <1>3, <1>6, <1>7

(* A verified failure is followed by the trials that a strict 3/3 needs,    *)
(* whatever the executors return or raise, bundled or not, and in whatever  *)
(* order the catalog lists the paths (run_catalog_async).                   *)
THEOREM FailuresAreRetried == Spec => []FailuresRetried
  BY RetryInvHolds, Retried, PTL
-----------------------------------------------------------------------------
(* The graders, for any directory of packets.                               *)
GradingSpec == GradingInit /\ [][GradingNext]_gradingVars

(* The elements of a set of at most one element are equal.                  *)
LEMMA AtMostOne ==
  ASSUME NEW T, IsFiniteSet(T), ~(Cardinality(T) > 1), NEW x \in T, NEW y \in T
  PROVE  x = y
<1>1. Cardinality(T) \in Nat
  BY FS_CardinalityType
<1>2. Cardinality(T) # 0
  BY FS_EmptySet
<1>3. Cardinality(T) = 1
  BY <1>1, <1>2
<1> QED
  BY <1>3, FS_Singleton

(* The packets of a path: those of one candidate only, when it is graded.   *)
LEMMA OneCandidate ==
  ASSUME NEW S, IsFiniteSet(DOMAIN S), ~(Cardinality(Candidates3(S)) > 1),
         NEW i \in DOMAIN S, NEW j \in DOMAIN S
  PROVE  S[i].candidate = S[j].candidate
<1> DEFINE f == [k \in DOMAIN S |-> S[k].candidate]
<1>1. f \in Surjection(DOMAIN S, Candidates3(S))
  BY DEF Surjection, Candidates3
<1>2. IsFiniteSet(Candidates3(S))
  BY <1>1, FS_Surjection
<1>3. S[i].candidate \in Candidates3(S) /\ S[j].candidate \in Candidates3(S)
  BY DEF Candidates3
<1> QED
  BY <1>2, <1>3, AtMostOne

(* The packets of a stable path have one class, and match the trace or not. *)
LEMMA StableState ==
  ASSUME NEW path, NEW S, IsFiniteSet(DOMAIN S), ~Unstable(path, S),
         NEW i \in DOMAIN S, NEW j \in DOMAIN S
  PROVE  /\ S[i].cls = S[j].cls
         /\ TraceMatches(path, S[i]) = TraceMatches(path, S[j])
<1> DEFINE g(k) == <<S[k].cls, TraceMatches(path, S[k])>>
           f == [k \in DOMAIN S |-> g(k)]
<1>1. States(path, S) = {g(k) : k \in DOMAIN S}
  BY DEF States
<1>2. f \in Surjection(DOMAIN S, States(path, S))
  BY <1>1 DEF Surjection
<1>3. IsFiniteSet(States(path, S))
  BY <1>2, FS_Surjection
<1>4. g(i) \in States(path, S) /\ g(j) \in States(path, S)
  BY <1>1
<1>5. g(i) = g(j)
  <2> HIDE DEF g
  <2> QED
    BY <1>3, <1>4, AtMostOne DEF Unstable
<1> QED
  BY <1>5

(* The policy of a row, with the raise of a consequential one.              *)
LEMMA PolicyIs ==
  ASSUME NEW r \in AnyGradeRow
  PROVE  Policy(r) \in {1, 3}
  BY DEF AnyGradeRow, Policy

(* What a COMPLETE of the v3 grader stands for.                             *)
LEMMA CompleteMeans ==
  ASSUME NEW r \in AnyGradeRow, NEW S, IsFiniteSet(DOMAIN S),
         Grade3(r, S) = "COMPLETE"
  PROVE  /\ ~(Cardinality(Candidates3(S)) > 1)
         /\ \/ ThreeConsecutive(r.path, S)
            \/ /\ Policy(r) = 1 /\ GoodTrials(r.path, S) # {}
               /\ GoodTrials(r.path, S) = DOMAIN S
<1> DEFINE req == RequiredPasses(r, S)
           power3 == ThreeConsecutive(r.path, S)
           failed == HadFailure(r.path, S)
           good == GoodTrials(r.path, S)
           many == Cardinality(Candidates3(S)) > 1
<1>1. "COMPLETE" = IF many THEN "refused"
                   ELSE IF failed /\ ~(req = 3 /\ power3)
                        THEN "VERIFIED_FAILURE"
                   ELSE IF req >= 3 /\ power3 THEN "COMPLETE"
                   ELSE IF req = 1 /\ good # {} THEN "COMPLETE"
                   ELSE "PENDING"
  BY DEF Grade3
<1> HIDE DEF req, power3, failed, good, many
<1>2. ~many /\ (power3 \/ (req = 1 /\ good # {}))
  BY <1>1
<1>3. ASSUME req = 1, good # {}
      PROVE  Policy(r) = 1 /\ good = DOMAIN S
  <2>1. /\ ~HadFailure(r.path, S) /\ ~Unstable(r.path, S) /\ Policy(r) = 1
    BY <1>3, PolicyIs DEF RequiredPasses, req
  <2>2. PICK i \in DOMAIN S :
          IsPass(r.path, S[i]) /\ TraceMatches(r.path, S[i])
    BY <1>3 DEF good, GoodTrials
  <2>3. ASSUME NEW j \in DOMAIN S
        PROVE  j \in good
    <3>1. /\ S[i].cls = S[j].cls
          /\ TraceMatches(r.path, S[i]) = TraceMatches(r.path, S[j])
      BY <2>1, StableState
    <3>2. IsPass(r.path, S[j]) /\ TraceMatches(r.path, S[j])
      BY <2>2, <3>1 DEF IsPass
    <3> QED
      BY <3>2 DEF good, GoodTrials
  <2> QED
    BY <2>1, <2>3 DEF good, GoodTrials
<1> QED
  BY <1>2, <1>3 DEF power3, good, many

(* A directory holds packets under trial indexes.                           *)
LEMMA GradingInvHolds == GradingSpec => []GradingTypeOK
<1>1. GradingInit => GradingTypeOK
  BY GradingAssumption DEF GradingInit, GradingTypeOK
<1>2. GradingTypeOK /\ [GradingNext]_gradingVars => GradingTypeOK'
  <2> SUFFICES ASSUME GradingTypeOK, [GradingNext]_gradingVars
               PROVE  GradingTypeOK'
    OBVIOUS
  <2>1. CASE RecordTrial
    <3>1. PICK i \in Indexes3 \ DOMAIN trials, raw \in RawTrials :
            trials' = [j \in DOMAIN trials \cup {i} |->
                         IF j = i THEN raw ELSE trials[j]]
      BY <2>1 DEF RecordTrial
    <3>2. raw \in AnyRawTrial /\ row' = row
      BY <2>1, GradingAssumption DEF RecordTrial
    <3>3. DOMAIN trials' = DOMAIN trials \cup {i}
      BY <3>1
    <3>4. \A j \in DOMAIN trials' :
            trials'[j] = IF j = i THEN raw ELSE trials[j]
      BY <3>1
    <3> QED
      BY <3>2, <3>3, <3>4 DEF GradingTypeOK
  <2>2. CASE UNCHANGED gradingVars
    BY <2>2 DEF gradingVars, GradingTypeOK
  <2> QED
    BY <2>1, <2>2 DEF GradingNext
<1> QED
  BY <1>1, <1>2, PTL DEF GradingSpec

(* Only finitely many packets can be found.                                 *)
LEMMA DirectoryIsFinite ==
  ASSUME NEW D \in SUBSET Indexes3
  PROVE  IsFiniteSet(D)
<1>1. IsFiniteSet(Indexes3)
  BY GradingAssumption, FS_Interval DEF Indexes3
<1> QED
  BY <1>1, FS_Subset

(* COMPLETE stands for repeated passes of one candidate.                    *)
LEMMA CompleteRepeated == GradingTypeOK => CompleteIsRepeated
<1> SUFFICES ASSUME GradingTypeOK, Grade3(row, trials) = "COMPLETE"
             PROVE  LET good == GoodTrials(row.path, trials)
                        inARow == \E i \in good : {i + 1, i + 2} \subseteq good
                    IN  /\ good # {}
                        /\ \A i, j \in DOMAIN trials :
                             trials[i].candidate = trials[j].candidate
                        /\ inARow \/ (Policy(row) = 1 /\ good = DOMAIN trials)
  BY DEF CompleteIsRepeated
<1>1. row \in AnyGradeRow /\ IsFiniteSet(DOMAIN trials)
  BY DirectoryIsFinite DEF GradingTypeOK
<1>2. /\ ~(Cardinality(Candidates3(trials)) > 1)
      /\ \/ ThreeConsecutive(row.path, trials)
         \/ /\ Policy(row) = 1 /\ GoodTrials(row.path, trials) # {}
            /\ GoodTrials(row.path, trials) = DOMAIN trials
  BY <1>1, CompleteMeans
<1>3. \A i, j \in DOMAIN trials : trials[i].candidate = trials[j].candidate
  BY <1>1, <1>2, OneCandidate
<1>4. ASSUME ThreeConsecutive(row.path, trials)
      PROVE  \E i \in GoodTrials(row.path, trials) :
               {i + 1, i + 2} \subseteq GoodTrials(row.path, trials)
  BY <1>4 DEF ThreeConsecutive
<1> QED
  BY <1>2, <1>3, <1>4

(* A v4 COMPLETE of some of the packets is a v3 COMPLETE of the same ones,  *)
(* and has them all.                                                        *)
LEMMA V4Stricter == GradingTypeOK => V4IsStricter
<1> SUFFICES ASSUME GradingTypeOK, NEW D \in SUBSET Bindable(row, trials),
                    Grade4(row, Restricted(trials, D)) = "COMPLETE"
             PROVE  LET S == Restricted(trials, D)
                    IN  /\ Grade3(row, S) = "COMPLETE"
                        /\ D = FrozenTrials(row)
                        /\ \A i \in D :
                             /\ IsPass(row.path, S[i]) /\ S[i].proofs
                             /\ row.live => S[i].billing =
                                              "subscription_included"
  BY DEF V4IsStricter
<1> DEFINE S == Restricted(trials, D)
           path == row.path
           policy == Policy(row)
           good == GoodTrials(path, S)
<1>1. /\ DOMAIN S = D /\ \A i \in D : S[i] = trials[i]
      /\ D \subseteq DOMAIN trials /\ row \in AnyGradeRow
      /\ IsFiniteSet(D)
  BY DirectoryIsFinite DEF Restricted, Bindable, GradingTypeOK
<1>2. \A i \in D : Binds(row, i, trials[i])
  BY DEF Bindable
<1> DEFINE failed == HadFailure4(path, S)
           shaky == Unstable(path, S)
           req == IF failed \/ shaky THEN IF policy < 3 THEN 3 ELSE policy
                                     ELSE policy
           power3 == ThreeConsecutive(path, S)
           many == Cardinality(Candidates3(S)) > 1
<1>3. "COMPLETE" =
         IF many THEN "refused"
         ELSE IF DOMAIN S = {} THEN "NOT_RUN"
         ELSE IF failed /\ ~(req = 3 /\ power3) THEN "VERIFIED_FAILURE"
         ELSE IF ~ExactTrials(row, S) THEN "PARTIAL"
         ELSE IF req >= 3 /\ power3 THEN "COMPLETE"
         ELSE IF req = 1 /\ good # {} THEN "COMPLETE"
         ELSE "PENDING"
  BY DEF Grade4
<1>4. policy \in {1, 3}
  BY <1>1, PolicyIs
<1>5. /\ ~many /\ ExactTrials(row, S) /\ (failed => req = 3 /\ power3)
      /\ (req >= 3 /\ power3) \/ (req = 1 /\ good # {})
  <2> HIDE DEF req, power3, failed, good, many, S
  <2> QED
    BY <1>3
<1>6. D = 1..policy
  BY <1>1, <1>5 DEF ExactTrials, FrozenTrials
<1>7. good \subseteq D
  BY <1>1 DEF GoodTrials
<1>8. ASSUME policy = 3, power3
      PROVE  good = D
  <2>1. PICK i \in good : {i + 1, i + 2} \subseteq good
    BY <1>8 DEF ThreeConsecutive
  <2>2. i \in 1..3 /\ i + 1 \in 1..3 /\ i + 2 \in 1..3
    BY <1>6, <1>7, <1>8, <2>1
  <2>3. i = 1 /\ i + 1 = 2 /\ i + 2 = 3
    BY <2>2
  <2>4. 1 \in good /\ 2 \in good /\ 3 \in good
    BY <2>1, <2>3
  <2>5. \A k \in 1..3 : k = 1 \/ k = 2 \/ k = 3
    OBVIOUS
  <2> QED
    BY <1>6, <1>7, <1>8, <2>4, <2>5
<1>9. ASSUME policy = 1
      PROVE  ~power3
  <2>1. SUFFICES ASSUME power3
                 PROVE  FALSE
    OBVIOUS
  <2>2. PICK i \in good : {i + 1, i + 2} \subseteq good
    BY <2>1 DEF ThreeConsecutive
  <2>3. i \in 1..1 /\ i + 1 \in 1..1
    BY <1>6, <1>7, <1>9, <2>2
  <2> QED
    BY <2>3
<1>10. good = D /\ (policy = 3 => power3) /\ (policy = 1 => ~failed /\ ~shaky)
  <2>1. CASE policy = 3
    <3>1. req = 3
      BY <2>1
    <3> QED
      BY <1>5, <1>8, <2>1, <3>1
  <2>2. CASE policy = 1
    <3>1. ~power3
      BY <1>9, <2>2
    <3>2. req = 1 /\ good # {}
      BY <1>5, <3>1
    <3>3. ~failed /\ ~shaky
      BY <2>2, <3>2
    <3>4. D = {1}
      BY <1>6, <2>2
    <3>5. good = D
      <4> HIDE DEF good
      <4> QED
        BY <1>7, <3>2, <3>4
    <3>6. policy # 3
      BY <2>2
    <3> QED
      BY <3>3, <3>5, <3>6
  <2> QED
    BY <1>4, <2>1, <2>2
<1>11. \A i \in D : IsPass(path, S[i]) /\ TraceMatches(path, S[i])
  BY <1>10 DEF GoodTrials
<1>12. \A i \in D : /\ S[i].proofs
                    /\ row.live => S[i].billing = "subscription_included"
  BY <1>1, <1>2, <1>11 DEF Binds, HasReceipt, SubscriptionShown
<1>13. ~HadFailure(path, S)
  <2>1. \A i \in D : S[i].cls # "VERIFIED_FAILURE"
    BY <1>11 DEF IsPass
  <2> QED
    BY <1>1, <1>11, <2>1 DEF HadFailure
<1>14. Grade3(row, S) = "COMPLETE"
  <2>1. policy = 1 => RequiredPasses(row, S) = 1
    BY <1>10, <1>13 DEF RequiredPasses
  <2>2. policy = 3 => RequiredPasses(row, S) = 3
    BY DEF RequiredPasses
  <2>3. policy = 1 => good # {}
    BY <1>6, <1>10
  <2> HIDE DEF S, good, power3, many, policy
  <2>4. CASE policy = 1
    BY <1>5, <1>13, <2>1, <2>3, <2>4 DEF Grade3, many, good
  <2>5. CASE policy = 3
    BY <1>5, <1>10, <1>13, <2>2, <2>5 DEF Grade3, many, power3
  <2> QED
    BY <1>4, <2>4, <2>5
<1> QED
  BY <1>6, <1>11, <1>12, <1>14 DEF FrozenTrials

(* A COMPLETE is repeated as often as the policy and the failures ask for,  *)
(* for any directory of packets; and no choice of v4 packets from it is     *)
(* graded more leniently (grade_packets, _derive_grade).                    *)
THEOREM GradesEarned ==
  GradingSpec => [](CompleteIsRepeated /\ V4IsStricter)
  BY GradingInvHolds, CompleteRepeated, V4Stricter, PTL

(* A path that has failed asks for three passes in a row.                   *)
LEMMA FailedAsksThree ==
  ASSUME NEW r \in AnyGradeRow, NEW S, HadFailure(r.path, S)
  PROVE  RequiredPasses(r, S) = 3
  BY PolicyIs DEF RequiredPasses

(* A path that is graded failed has a failure and no three passes.          *)
LEMMA FailedMeans ==
  ASSUME NEW r \in AnyGradeRow, NEW S, Grade3(r, S) = "VERIFIED_FAILURE"
  PROVE  HadFailure(r.path, S) /\ ~ThreeConsecutive(r.path, S)
<1> DEFINE req == RequiredPasses(r, S)
           power3 == ThreeConsecutive(r.path, S)
           failed == HadFailure(r.path, S)
           good == GoodTrials(r.path, S)
           many == Cardinality(Candidates3(S)) > 1
<1>1. "VERIFIED_FAILURE" =
         IF many THEN "refused"
         ELSE IF failed /\ ~(req = 3 /\ power3) THEN "VERIFIED_FAILURE"
         ELSE IF req >= 3 /\ power3 THEN "COMPLETE"
         ELSE IF req = 1 /\ good # {} THEN "COMPLETE"
         ELSE "PENDING"
  BY DEF Grade3
<1>2. failed => req = 3
  BY FailedAsksThree
<1> HIDE DEF req, power3, failed, good, many
<1>3. failed /\ ~power3
  BY <1>1, <1>2
<1> QED
  BY <1>3 DEF failed, power3

(* A path with a failure is failed, refused, or complete with three passes. *)
LEMMA FailedGrades ==
  ASSUME NEW r \in AnyGradeRow, NEW S, HadFailure(r.path, S)
  PROVE  \/ Grade3(r, S) \in {"VERIFIED_FAILURE", "refused"}
         \/ Grade3(r, S) = "COMPLETE" /\ ThreeConsecutive(r.path, S)
<1> DEFINE req == RequiredPasses(r, S)
           power3 == ThreeConsecutive(r.path, S)
           failed == HadFailure(r.path, S)
           good == GoodTrials(r.path, S)
           many == Cardinality(Candidates3(S)) > 1
<1>1. Grade3(r, S) =
         IF many THEN "refused"
         ELSE IF failed /\ ~(req = 3 /\ power3) THEN "VERIFIED_FAILURE"
         ELSE IF req >= 3 /\ power3 THEN "COMPLETE"
         ELSE IF req = 1 /\ good # {} THEN "COMPLETE"
         ELSE "PENDING"
  BY DEF Grade3
<1>2. failed /\ req = 3
  BY FailedAsksThree
<1>3. req >= 3
  BY <1>2
<1> HIDE DEF req, power3, failed, good, many
<1>4. \/ Grade3(r, S) \in {"VERIFIED_FAILURE", "refused"}
      \/ Grade3(r, S) = "COMPLETE" /\ power3
  BY <1>1, <1>2, <1>3
<1> QED
  BY <1>4 DEF power3

(* Three passes in a row that one more packet makes possible have that      *)
(* packet among them.                                                       *)
LEMMA NewWindow ==
  ASSUME NEW path, NEW S, NEW T, NEW new \in Int,
         DOMAIN S \subseteq Int, DOMAIN T = DOMAIN S \cup {new},
         \A j \in DOMAIN S : T[j] = S[j], new \notin DOMAIN S,
         ThreeConsecutive(path, T), ~ThreeConsecutive(path, S)
  PROVE  \E k \in DOMAIN T : /\ new \in k .. k + 2
                             /\ k .. k + 2 \subseteq GoodTrials(path, T)
<1>1. PICK k \in GoodTrials(path, T) :
        /\ {k + 1, k + 2} \subseteq GoodTrials(path, T)
        /\ Cardinality({T[j].candidate : j \in k .. k + 2}) = 1
  BY DEF ThreeConsecutive
<1>2. k \in Int /\ k \in DOMAIN T
  BY DEF GoodTrials
<1>3. \A j \in k .. k + 2 : j = k \/ j = k + 1 \/ j = k + 2
  BY <1>2
<1>4. k .. k + 2 \subseteq GoodTrials(path, T)
  BY <1>1, <1>3
<1>5. ASSUME new \notin k .. k + 2
      PROVE  FALSE
  <2>1. k .. k + 2 \subseteq DOMAIN S
    BY <1>4, <1>5 DEF GoodTrials
  <2>2. \A j \in k .. k + 2 : T[j] = S[j]
    BY <2>1
  <2>3. k .. k + 2 \subseteq GoodTrials(path, S)
    BY <1>4, <2>1, <2>2 DEF GoodTrials
  <2>4. {T[j].candidate : j \in k .. k + 2}
          = {S[j].candidate : j \in k .. k + 2}
    BY <2>2
  <2>5. k \in k .. k + 2 /\ k + 1 \in k .. k + 2 /\ k + 2 \in k .. k + 2
    BY <1>2
  <2>6. Cardinality({S[j].candidate : j \in k .. k + 2}) = 1
    BY <1>1, <2>4
  <2> QED
    BY <2>3, <2>5, <2>6 DEF ThreeConsecutive
<1> QED
  BY <1>2, <1>4, <1>5

(* A verified failure is never forgotten, whatever packets follow it        *)
(* (grade_packets).                                                         *)
THEOREM FailureKept == GradingSpec => FailureSticks
<1> DEFINE Kept ==
      Grade3(row, trials) = "VERIFIED_FAILURE" =>
        \/ Grade3(row, trials)' \in {"VERIFIED_FAILURE", "refused"}
        \/ /\ Grade3(row, trials)' = "COMPLETE"
           /\ \E i \in DOMAIN trials' \ DOMAIN trials,
                 k \in Indexes3 :
                /\ i \in k .. k + 2
                /\ k .. k + 2 \subseteq GoodTrials(row.path, trials')
<1>1. GradingTypeOK /\ GradingTypeOK' /\ [GradingNext]_gradingVars
        => [Kept]_gradingVars
  <2> SUFFICES ASSUME GradingTypeOK, GradingTypeOK', RecordTrial,
                      Grade3(row, trials) = "VERIFIED_FAILURE"
               PROVE  \/ Grade3(row, trials)' \in
                            {"VERIFIED_FAILURE", "refused"}
                      \/ /\ Grade3(row, trials)' = "COMPLETE"
                         /\ \E i \in DOMAIN trials' \ DOMAIN trials,
                               k \in Indexes3 :
                              /\ i \in k .. k + 2
                              /\ k .. k + 2 \subseteq
                                   GoodTrials(row.path, trials')
    BY DEF GradingNext
  <2>1. PICK i \in Indexes3 \ DOMAIN trials, raw \in RawTrials :
          trials' = [j \in DOMAIN trials \cup {i} |->
                       IF j = i THEN raw ELSE trials[j]]
    BY DEF RecordTrial
  <2>2. /\ DOMAIN trials' = DOMAIN trials \cup {i} /\ row' = row
        /\ \A j \in DOMAIN trials : trials'[j] = trials[j]
        /\ i \in Indexes3 /\ i \notin DOMAIN trials
    BY <2>1 DEF RecordTrial
  <2>3. /\ row \in AnyGradeRow /\ Indexes3 \subseteq Int
        /\ DOMAIN trials \subseteq Indexes3
        /\ DOMAIN trials' \subseteq Indexes3
    BY <2>2, GradingAssumption DEF GradingTypeOK, Indexes3
  <2>4. HadFailure(row.path, trials) /\ ~ThreeConsecutive(row.path, trials)
    BY <2>3, FailedMeans
  <2>5. HadFailure(row.path, trials')
    BY <2>2, <2>4 DEF HadFailure
  <2>6. Grade3(row, trials)' = Grade3(row, trials')
    BY <2>2
  <2>7. \/ Grade3(row, trials') \in {"VERIFIED_FAILURE", "refused"}
        \/ /\ Grade3(row, trials') = "COMPLETE"
           /\ ThreeConsecutive(row.path, trials')
    BY <2>3, <2>5, FailedGrades
  <2>8. ASSUME ThreeConsecutive(row.path, trials')
        PROVE  \E k \in DOMAIN trials' :
                 /\ i \in k .. k + 2
                 /\ k .. k + 2 \subseteq GoodTrials(row.path, trials')
    BY <2>2, <2>3, <2>4, <2>8, NewWindow
  <2> QED
    BY <2>2, <2>3, <2>6, <2>7, <2>8
<1>2. GradingSpec => [][Kept]_gradingVars
  BY <1>1, GradingInvHolds, PTL DEF GradingSpec
<1> QED
  BY <1>2 DEF FailureSticks
-----------------------------------------------------------------------------
(* The grade of the packets that a run leaves.                              *)

(* What the grader sees in the packets that the runner writes.              *)
LEMMA PacketGrades ==
  ASSUME NEW path \in Paths
  PROVE  /\ IsPass(path, PacketOf(path, "pass"))
         /\ TraceMatches(path, PacketOf(path, "pass"))
         /\ PacketOf(path, "fail").cls = "VERIFIED_FAILURE"
         /\ ~IsPass(path, PacketOf(path, "fail"))
         /\ PacketOf(path, "pass").cls # "VERIFIED_FAILURE"
         /\ PacketOf(path, "pass").candidate = "c1"
         /\ PacketOf(path, "fail").candidate = "c1"
<1>1. CASE path = "denial"
  BY <1>1 DEF PacketOf, IsPass, TraceMatches
<1>2. CASE path # "denial"
  BY <1>2 DEF PacketOf, IsPass, TraceMatches
<1> QED
  BY <1>1, <1>2

RowOf(path, passes) ==
  [path |-> path, passes |-> passes, consequential |-> FALSE, live |-> TRUE]

PacketsOf(path, e, class) == [n \in 1..e |-> PacketOf(path, class[n])]

(* The trials 1 .. e of a path, each a pass or a failure, of which there    *)
(* are as many as the policy and the failures ask for.                      *)
LEMMA SettledGrade ==
  ASSUME NEW path \in Paths, NEW e \in Nat, e >= 1, NEW passes \in {1, 3},
         NEW class \in [1..e -> {"pass", "fail"}],
         e >= Smaller(MaxTrials, passes),
         \A n \in 1..e : class[n] = "fail" => e >= Smaller(MaxTrials, n + 3)
  PROVE  LET grade == Grade3(RowOf(path, passes), PacketsOf(path, e, class))
         IN  /\ grade # "PENDING"
             /\ (\A n \in 1..e : class[n] = "fail" => n <= MaxTrials - 3)
                  => grade = "COMPLETE"
<1>0. PICK S, r : S = PacketsOf(path, e, class) /\ r = RowOf(path, passes)
  OBVIOUS
<1> DEFINE max == MaxTrials
           good == GoodTrials(path, S)
           power3 == ThreeConsecutive(path, S)
           failed == HadFailure(path, S)
           shaky == Unstable(path, S)
           req == RequiredPasses(r, S)
           many == Cardinality(Candidates3(S)) > 1
<1>1. /\ DOMAIN S = 1..e /\ max \in Nat /\ max >= 3
      /\ \A n \in 1..e : S[n] = PacketOf(path, class[n])
  BY <1>0, RunnerAssumption DEF PacketsOf
<1>2. good = {n \in 1..e : class[n] = "pass"}
  BY <1>1, PacketGrades DEF GoodTrials
<1>3. failed <=> \E n \in 1..e : class[n] = "fail"
  BY <1>1, PacketGrades DEF HadFailure
<1>4. ~many
  <2>1. Candidates3(S) = {"c1"}
    <3>1. \A n \in 1..e : S[n].candidate = "c1"
      BY <1>1, PacketGrades
    <3>2. 1 \in 1..e
      OBVIOUS
    <3> QED
      BY <1>1, <3>1, <3>2 DEF Candidates3
  <2>2. Cardinality(Candidates3(S)) = 1
    BY <2>1, FS_Singleton
  <2> QED
    BY <2>2
<1>5. ASSUME NEW i \in good, i + 1 \in good, i + 2 \in good
      PROVE  power3
  <2>1. i \in Int
    BY <1>2
  <2>2. \A j \in i .. i + 2 : j = i \/ j = i + 1 \/ j = i + 2
    BY <2>1
  <2>3. \A j \in i .. i + 2 : S[j].candidate = "c1"
    BY <1>1, <1>2, <1>5, <2>2, PacketGrades
  <2>4. i \in i .. i + 2
    BY <2>1
  <2>5. {S[j].candidate : j \in i .. i + 2} = {"c1"}
    BY <2>3, <2>4
  <2>6. Cardinality({S[j].candidate : j \in i .. i + 2}) = 1
    BY <2>5, FS_Singleton
  <2> QED
    BY <1>5, <2>6 DEF ThreeConsecutive
<1>6. Policy(r) = passes /\ r.path = path
  BY <1>0 DEF Policy, RowOf
<1>7. Grade3(r, S) = IF many THEN "refused"
                     ELSE IF failed /\ ~(req = 3 /\ power3)
                          THEN "VERIFIED_FAILURE"
                     ELSE IF req >= 3 /\ power3 THEN "COMPLETE"
                     ELSE IF req = 1 /\ good # {} THEN "COMPLETE"
                     ELSE "PENDING"
  BY <1>6 DEF Grade3
<1>8. CASE failed
  <2>1. req = 3
    BY <1>6, <1>8 DEF RequiredPasses
  <2>2. Grade3(r, S) = IF power3 THEN "COMPLETE" ELSE "VERIFIED_FAILURE"
    <3>1. req >= 3
      BY <2>1
    <3> HIDE DEF many, failed, req, power3, good
    <3> QED
      BY <1>4, <1>7, <1>8, <2>1, <3>1
  <2>3. ASSUME \A n \in 1..e : class[n] = "fail" => n <= max - 3
        PROVE  power3
    <3>1. PICK n \in 1..e : class[n] = "fail"
      BY <1>3, <1>8
    <3>2. n <= max - 3 /\ e >= Smaller(max, n + 3)
      BY <2>3, <3>1
    <3>3. e >= 4
      BY <1>1, <3>2 DEF Smaller
    <3>4. ASSUME NEW k \in 1..e, k >= e - 2
          PROVE  k \in good
      <4>1. SUFFICES ASSUME class[k] = "fail"
                     PROVE  FALSE
        BY <1>2
      <4>2. k <= max - 3 /\ e >= Smaller(max, k + 3)
        BY <2>3, <4>1
      <4> QED
        BY <1>1, <3>4, <4>2 DEF Smaller
    <3>5. e - 2 \in good /\ (e - 2) + 1 \in good /\ (e - 2) + 2 \in good
      BY <3>3, <3>4
    <3> QED
      BY <1>5, <3>5
  <2> QED
    BY <1>0, <2>2, <2>3
<1>9. CASE ~failed
  <2>1. \A n \in 1..e : class[n] = "pass"
    BY <1>3, <1>9
  <2>2. good = 1..e
    BY <1>2, <2>1
  <2>3. ~shaky
    <3> DEFINE st == <<PacketOf(path, "pass").cls,
                       TraceMatches(path, PacketOf(path, "pass"))>>
    <3>1. \A n \in 1..e : <<S[n].cls, TraceMatches(path, S[n])>> = st
      BY <1>1, <2>1
    <3>2. States(path, S) =
            {<<S[n].cls, TraceMatches(path, S[n])>> : n \in 1..e}
      BY <1>1 DEF States
    <3>3. 1 \in 1..e
      OBVIOUS
    <3> HIDE DEF st
    <3>4. States(path, S) = {st}
      BY <3>1, <3>2, <3>3
    <3>5. Cardinality(States(path, S)) = 1
      BY <3>4, FS_Singleton
    <3> QED
      BY <3>5 DEF Unstable
  <2>4. req = passes
    BY <1>6, <1>9, <2>3 DEF RequiredPasses
  <2>5. good # {}
    BY <2>2
  <2>6. passes = 3 => power3
    <3>1. SUFFICES ASSUME passes = 3
                   PROVE  power3
      OBVIOUS
    <3>2. e >= 3
      BY <1>1, <3>1 DEF Smaller
    <3>3. 1 \in good /\ 1 + 1 \in good /\ 1 + 2 \in good
      BY <2>2, <3>2
    <3> QED
      BY <1>5, <3>3
  <2>7. Grade3(r, S) = "COMPLETE"
    <3> HIDE DEF many, failed, req, power3, good
    <3>1. CASE passes = 1
      BY <1>4, <1>7, <1>9, <2>4, <2>5, <3>1
    <3>2. CASE passes = 3
      <4>1. req >= 3
        BY <2>4, <3>2
      <4> QED
        BY <1>4, <1>7, <1>9, <2>6, <3>2, <4>1
    <3> QED
      BY <3>1, <3>2
  <2> QED
    BY <1>0, <2>7
<1> QED
  BY <1>0, <1>8, <1>9

(* The repeat policies of the catalog ask for one pass or for three.        *)
PoliciesKnown == \A c \in Caps : Passes[c] \in {1, 3}

(* A settled path that was not stopped has the grade its trials allow.      *)
LEMMA Suffice == PoliciesKnown /\ RunnerInv /\ RetryInv => RetriesSuffice
<1> SUFFICES ASSUME PoliciesKnown, RunnerInv, RetryInv,
                    proc = "finished", runs = 1, NEW i \in DOMAIN Work,
                    \A n \in 1..MaxTrials :
                      disk[<<Work[i][1], Work[i][2], n>>]
                        \notin {"pending", "blocked"}
             PROVE  /\ GradeOf(Work[i][1], Work[i][2]) # "PENDING"
                    /\ (\A n \in 1..MaxTrials :
                          disk[<<Work[i][1], Work[i][2], n>>] = "fail"
                            => n <= MaxTrials - 3)
                       => GradeOf(Work[i][1], Work[i][2]) = "COMPLETE"
  BY DEF RetriesSuffice
<1>1. PICK c \in Caps, p \in Paths : c = Work[i][1] /\ p = Work[i][2]
  BY WorkAt
<1>2. \A k \in Trials : ClassOf(c, p, k) = disk[<<c, p, k>>]
  BY DiskIsRecorded
<1>3. MaxTrials \in Nat /\ MaxTrials >= 3 /\ Passes[c] \in {1, 3}
  BY RunnerAssumption DEF PoliciesKnown
<1>4. PICK e \in Trials : EndsAt(c, p, e)
  <2>1. PICK e \in Trials : StopsAt(c, p, e) \/ EndsAt(c, p, e)
    BY <1>1 DEF RetryInv, Settled
  <2>2. ~StopsAt(c, p, e)
    BY <1>1, <1>2 DEF StopsAt, Trials
  <2> QED
    BY <2>1, <2>2
<1>5. e \in Nat /\ e >= 1 /\ e <= MaxTrials /\ 1..e \subseteq Trials
  BY <1>3 DEF Trials
<1> DEFINE class == [n \in 1..e |-> disk[<<c, p, n>>]]
<1>6. \A n \in 1..e : class[n] \in {"pass", "fail"}
  <2> SUFFICES ASSUME NEW n \in 1..e
               PROVE  class[n] \in {"pass", "fail"}
    OBVIOUS
  <2>1. n \in Trials /\ <<c, p, n>> \in Keys
    BY <1>5 DEF Keys, Trials
  <2>2. class[n] \in Packets
    BY <2>1 DEF RunnerInv, TypeOK
  <2>3. class[n] # "absent"
    BY <1>2, <1>4, <2>1 DEF EndsAt, Reaches
  <2>4. class[n] \notin {"pending", "blocked"}
    BY <1>1, <2>1 DEF Trials
  <2> QED
    BY <2>2, <2>3, <2>4 DEF Packets
<1>7. TrialsOf(c, p) = 1..e
  <2>1. \A n \in 1..e : disk[<<c, p, n>>] # "absent"
    BY <1>6
  <2>2. ASSUME NEW n \in Trials, n > e
        PROVE  disk[<<c, p, n>>] = "absent"
    <3>1. ~Tried(c, p, n)
      BY <1>4, <2>2 DEF EndsAt
    <3>2. ClassOf(c, p, n) = "absent"
      BY <3>1, GroupIs DEF Tried
    <3> QED
      BY <1>2, <3>2
  <2>3. \A n \in Trials : n \in 1..e \/ n > e
    BY <1>5 DEF Trials
  <2> QED
    BY <1>5, <2>1, <2>2, <2>3 DEF TrialsOf, Trials
<1>8. /\ e >= Smaller(MaxTrials, Passes[c])
      /\ \A n \in 1..e : class[n] = "fail" => e >= Smaller(MaxTrials, n + 3)
  BY <1>2, <1>4, <1>5 DEF EndsAt
<1>9. GradeOf(c, p) = Grade3(RowOf(p, Passes[c]), PacketsOf(p, e, class))
  <2>1. [n \in TrialsOf(c, p) |-> PacketOf(p, disk[<<c, p, n>>])]
          = PacketsOf(p, e, class)
    BY <1>7 DEF PacketsOf
  <2> QED
    BY <2>1 DEF GradeOf, RowOf
<1>10. class \in [1..e -> {"pass", "fail"}]
  BY <1>6
<1> HIDE DEF class
<1>11. /\ GradeOf(c, p) # "PENDING"
       /\ (\A n \in 1..e : class[n] = "fail" => n <= MaxTrials - 3)
            => GradeOf(c, p) = "COMPLETE"
  BY <1>3, <1>5, <1>8, <1>9, <1>10, SettledGrade
<1>12. (\A n \in 1..MaxTrials : disk[<<c, p, n>>] = "fail"
                                  => n <= MaxTrials - 3)
         => \A n \in 1..e : class[n] = "fail" => n <= MaxTrials - 3
  BY <1>5 DEF class, Trials
<1> QED
  BY <1>1, <1>11, <1>12

(* The trials that a run makes are those that the grader asks for, for any  *)
(* catalog whose policies ask for one pass or for three (run_catalog_async, *)
(* grade_packets).                                                          *)
THEOREM RetriesAreEnough == PoliciesKnown /\ Spec => []RetriesSuffice
<1>1. PoliciesKnown /\ RunnerInv /\ RetryInv => RetriesSuffice
  BY Suffice
<1>2. CASE PoliciesKnown
  <2>1. RunnerInv /\ RetryInv => RetriesSuffice
    BY <1>1, <1>2
  <2> QED
    BY <2>1, RetryInvHolds, PTL
<1>3. CASE ~PoliciesKnown
  BY <1>3
<1> QED
  BY <1>2, <1>3
-----------------------------------------------------------------------------
(* The partition validators, for any attempts.                              *)
PartitionSpec == PartitionInit /\ [][PartitionNext]_partitionVars

PartitionTypeOK ==
  /\ scope \in [Partitions -> {"isolated_cell", "one_logical_session"}]
  /\ mode \in [Partitions -> {"once", "consecutive_3"}]
  /\ attempts \in [Partitions -> Seq(Attempts)]
  /\ drift \in [Partitions -> BOOLEAN]

(* Attempts are added to cells, and nothing else changes.                   *)
LEMMA PartitionInvHolds == PartitionSpec => []PartitionTypeOK
<1>1. PartitionInit => PartitionTypeOK
  BY DEF PartitionInit, PartitionTypeOK
<1>2. PartitionTypeOK /\ [PartitionNext]_partitionVars => PartitionTypeOK'
  <2> SUFFICES ASSUME PartitionTypeOK, [PartitionNext]_partitionVars
               PROVE  PartitionTypeOK'
    OBVIOUS
  <2>1. CASE AddAttempt
    <3>1. PICK p \in Partitions, a \in AttemptKinds :
            /\ attempts' = [attempts EXCEPT ![p] = Append(@, a)]
            /\ UNCHANGED <<scope, mode, drift>>
      BY <2>1 DEF AddAttempt
    <3>2. a \in Attempts
      BY PartitionAssumption
    <3>3. attempts[p] \in Seq(Attempts)
      BY DEF PartitionTypeOK
    <3>4. Append(attempts[p], a) \in Seq(Attempts)
      BY <3>2, <3>3, AppendProperties
    <3> QED
      BY <3>1, <3>4 DEF PartitionTypeOK
  <2>2. CASE UNCHANGED partitionVars
    BY <2>2 DEF partitionVars, PartitionTypeOK
  <2> QED
    BY <2>1, <2>2 DEF PartitionNext
<1> QED
  BY <1>1, <1>2, PTL DEF PartitionSpec

(* In a cell that is looked at by itself no two attempts share a boundary.  *)
LEMMA CellIsolated ==
  ASSUME PartitionTypeOK, NEW p \in Partitions, ResultValid(p),
         scope[p] = "isolated_cell",
         NEW n \in DOMAIN attempts[p], NEW m \in DOMAIN attempts[p],
         attempts[p][n].boundary = attempts[p][m].boundary
  PROVE  n = m
<1>1. attempts[p] \in Seq(Attempts)
  BY DEF PartitionTypeOK
<1>2. DOMAIN attempts[p] = 1 .. Len(attempts[p]) /\ Len(attempts[p]) \in Nat
  BY <1>1
<1>3. ASSUME NEW x \in DOMAIN attempts[p], NEW y \in DOMAIN attempts[p],
             attempts[p][x].boundary = attempts[p][y].boundary, y < x
      PROVE  FALSE
  <2>1. attempts[p][x].boundary \notin BoundariesOf(p, x - 1)
    BY <1>2, <1>3 DEF ResultValid, Isolated
  <2>2. y \in 1 .. x - 1
    BY <1>2, <1>3
  <2> QED
    BY <1>3, <2>1, <2>2 DEF BoundariesOf
<1>4. n \in Int /\ m \in Int
  BY <1>2
<1>5. n < m \/ n = m \/ m < n
  BY <1>4
<1> QED
  BY <1>3, <1>5

(* An aggregate that validates is isolated: within a cell, and against the  *)
(* partitions before it.                                                    *)
LEMMA Isolates == PartitionTypeOK => IsolationHolds
<1> SUFFICES ASSUME PartitionTypeOK, AggregateValid,
                    NEW k \in DOMAIN PartitionOrder,
                    NEW j \in DOMAIN PartitionOrder,
                    scope[PartitionOrder[k]] = "isolated_cell", j <= k,
                    NEW n \in DOMAIN attempts[PartitionOrder[k]],
                    NEW m \in DOMAIN attempts[PartitionOrder[j]],
                    attempts[PartitionOrder[k]][n].boundary
                      = attempts[PartitionOrder[j]][m].boundary
             PROVE  PartitionOrder[k] = PartitionOrder[j] /\ n = m
  BY DEF IsolationHolds
<1> DEFINE p == PartitionOrder[k]
           q == PartitionOrder[j]
<1>1. /\ p \in Partitions /\ q \in Partitions /\ k \in Int /\ j \in Int
      /\ j \in Nat \ {0}
  BY PartitionAssumption DEF Partitions
<1>2. /\ ResultValid(p)
      /\ \A x \in 1 .. Len(attempts[p]) :
           Isolated(p, x, Seen(k) \cup BoundariesOf(p, x - 1))
  BY DEF AggregateValid
<1>3. /\ attempts[p] \in Seq(Attempts) /\ attempts[q] \in Seq(Attempts)
      /\ DOMAIN attempts[p] = 1 .. Len(attempts[p])
      /\ DOMAIN attempts[q] = 1 .. Len(attempts[q])
  BY <1>1 DEF PartitionTypeOK
<1>4. CASE p = q
  BY <1>1, <1>2, <1>4, CellIsolated
<1>5. CASE p # q
  <2>1. j \in 1 .. k - 1
    <3>1. j # k
      BY <1>5
    <3> QED
      BY <1>1, <3>1
  <2>2. attempts[q][m].boundary \in BoundariesOf(q, Len(attempts[q]))
    BY <1>3 DEF BoundariesOf
  <2>3. attempts[q][m].boundary \in Seen(k)
    BY <2>1, <2>2 DEF Seen, SeenBefore
  <2>4. attempts[p][n].boundary \notin Seen(k)
    BY <1>2, <1>3 DEF Isolated
  <2> QED
    BY <2>3, <2>4
<1> QED
  BY <1>4, <1>5

(* A partition graded PASS has what the validators looked at.               *)
LEMMA Unbroken == PartitionTypeOK => PassIsUnbroken
<1> SUFFICES ASSUME PartitionTypeOK, NEW p \in Partitions,
                    attempts[p] # <<>>, ResultValid(p),
                    PartitionGrade(p) = "PASS"
             PROVE  /\ Last(p).status = "PASS"
                    /\ \A n \in DOMAIN attempts[p] : attempts[p][n].safe
                    /\ \A n \in 2 .. Len(attempts[p]) :
                         attempts[p][n - 1].produced
                           \in {NoState, attempts[p][n].prior}
  BY DEF PassIsUnbroken
<1>1. /\ attempts[p] \in Seq(Attempts) /\ Len(attempts[p]) \in Nat
      /\ DOMAIN attempts[p] = 1 .. Len(attempts[p])
      /\ Len(attempts[p]) # 0
  BY DEF PartitionTypeOK
<1>2. Last(p) \in Attempts
  BY <1>1 DEF Last
<1>3. Last(p).status \in Statuses
  BY <1>2 DEF Attempts
<1>4. Qualification(Last(p).status) = "PASS" /\ BillingSafe(p)
  <2> DEFINE last == Qualification(Last(p).status)
             bad == drift[p] \/ ~BillingSafe(p)
  <2>1. "PASS" = IF last = "BLOCKED" THEN "BLOCKED"
                 ELSE IF last = "PENDING" THEN "PENDING"
                 ELSE IF last = "FAIL" \/ bad THEN "FAIL"
                 ELSE "PASS"
    BY DEF PartitionGrade
  <2>2. last \in {"PASS", "FAIL", "BLOCKED", "PENDING"}
    BY <1>3 DEF Statuses, Qualification
  <2> HIDE DEF last, bad
  <2>3. last = "PASS" /\ ~bad
    BY <2>1, <2>2
  <2> QED
    BY <2>3 DEF last, bad
<1>5. Last(p).status = "PASS"
  BY <1>3, <1>4 DEF Statuses, Qualification
<1>6. \A n \in DOMAIN attempts[p] : attempts[p][n].safe
  BY <1>1, <1>4 DEF BillingSafe
<1>7. ASSUME NEW n \in 2 .. Len(attempts[p])
      PROVE  attempts[p][n - 1].produced \in {NoState, attempts[p][n].prior}
  <2>1. n \in 1 .. Len(attempts[p]) /\ n > 1
    BY <1>1
  <2>2. Chained(p, n)
    BY <2>1 DEF ResultValid
  <2> QED
    BY <2>1, <2>2 DEF Chained
<1> QED
  BY <1>5, <1>6, <1>7

(* In an aggregate that validates the isolated attempts share no boundary,  *)
(* and a partition that is graded PASS passed without a break, for any      *)
(* partitions and attempts (validate_aggregate, validate_result, _grade).   *)
THEOREM PartitionsIsolated ==
  PartitionSpec => [](IsolationHolds /\ PassIsUnbroken)
  BY PartitionInvHolds, Isolates, Unbroken, PTL

CreateSpec == CreateInit /\ [][CreateNext]_createVars

(* What a writer that passed validation has, and what a file says of the    *)
(* writer that made it; what was read was the file as it still is.          *)
OwnerDiscipline ==
  /\ \A w \in Writers :
       /\ writerAt[w] \notin {"start", "refused"} => w \in ValidOf
       /\ writerAt[w] \in {"open", "dead"} => file.owner = w /\ ~file.whole
       /\ writerAt[w] = "written" => file = [owner |-> w, whole |-> TRUE]
  /\ file.owner # Nobody =>
       file.owner \in Writers
         /\ writerAt[file.owner] \in {"open", "written", "dead"}
  /\ file.whole => file.owner # Nobody
  /\ read \subseteq {file.owner} /\ (read # {} => file.whole)

CreateInv == CreateTypeOK /\ OwnerDiscipline

(* Before anybody looks there is no file. *)
LEMMA CreateInvInit == CreateInit => CreateInv
  BY WriterAssumption DEF CreateInit, CreateInv, CreateTypeOK,
     OwnerDiscipline, NoFile, WriterStates

(* Every step of every process keeps the evidence with the one writer that  *)
(* created it: open("x") is the only step that gives the file an owner, and *)
(* it does so only while there is none.                                     *)
LEMMA CreateInvStep == CreateInv /\ [CreateNext]_createVars => CreateInv'
<1> SUFFICES ASSUME CreateInv, [CreateNext]_createVars PROVE CreateInv'
  OBVIOUS
<1> USE WriterAssumption DEF CreateInv, CreateTypeOK, OwnerDiscipline, NoFile,
        WriterStates, Goes
<1>1. ASSUME NEW w \in Writers, LookForFile(w) PROVE CreateInv'
  BY <1>1 DEF LookForFile
<1>2. ASSUME NEW w \in Writers, CreateFile(w) PROVE CreateInv'
  <2>1. CASE file = NoFile
    <3>1. \A v \in Writers : writerAt[v] \notin {"open", "written", "dead"}
      BY <2>1
    <3>2. /\ file' = [owner |-> w, whole |-> FALSE] /\ read' = read
          /\ writerAt' = [writerAt EXCEPT ![w] = "open"]
          /\ writerAt[w] = "looked"
      BY <1>2, <2>1 DEF CreateFile
    <3>3. read = {}
      BY <2>1
    <3>4. CreateTypeOK'
      BY <3>2, <3>3
    <3>5. \A v \in Writers : v # w =>
             writerAt'[v] \in {"start", "looked", "refused"}
      BY <3>1, <3>2
    <3>6. OwnerDiscipline'
      BY <3>2, <3>3, <3>5
    <3> QED
      BY <3>4, <3>6
  <2>2. CASE file # NoFile
    BY <1>2, <2>2 DEF CreateFile
  <2> QED
    BY <2>1, <2>2
<1>3. ASSUME NEW w \in Writers, WriteFile(w) PROVE CreateInv'
  <2>1. /\ file' = [owner |-> w, whole |-> TRUE] /\ read' = read
        /\ writerAt' = [writerAt EXCEPT ![w] = "written"]
        /\ writerAt[w] = "open" /\ file.owner = w /\ ~file.whole
    BY <1>3 DEF WriteFile
  <2>2. read = {}
    BY <2>1
  <2>3. \A v \in Writers : v # w =>
           writerAt[v] \in {"start", "looked", "refused"}
    BY <2>1
  <2>4. CreateTypeOK'
    BY <2>1, <2>2
  <2>5. OwnerDiscipline'
    BY <2>1, <2>2, <2>3
  <2> QED
    BY <2>4, <2>5
<1>4. ASSUME NEW w \in Writers, WriteFails(w) PROVE CreateInv'
  BY <1>4 DEF WriteFails
<1>5. CASE ReadFile
  BY <1>5 DEF ReadFile
<1>6. CASE UNCHANGED createVars
  BY <1>6 DEF createVars
<1> QED
  BY <1>1, <1>2, <1>3, <1>4, <1>5, <1>6 DEF CreateNext

(* One owner, and what was read is of that owner. *)
LEMMA CreateInvImplies == CreateInv => EvidenceIsNeverReplaced
<1> SUFFICES ASSUME CreateInv PROVE EvidenceIsNeverReplaced
  OBVIOUS
<1>1. Cardinality(read) <= 1
  <2>1. Cardinality({file.owner}) = 1 /\ IsFiniteSet({file.owner})
    BY FS_Singleton
  <2>2. read \subseteq {file.owner}
    BY DEF CreateInv, OwnerDiscipline
  <2> QED
    BY <2>1, <2>2, FS_Subset
<1>2. read \subseteq ValidOf
  BY DEF CreateInv, OwnerDiscipline
<1> QED
  BY <1>1, <1>2 DEF CreateInv, OwnerDiscipline, EvidenceIsNeverReplaced

(* However many processes are asked for the same evidence file, and however *)
(* they interleave or die: what is read is one validated document, and      *)
(* nobody but its writer believes to have written it                        *)
(* (v4_receipts.py, v4_release_ready.py).                                   *)
THEOREM EvidenceKept == CreateSpec => []EvidenceIsNeverReplaced
  BY CreateInvInit, CreateInvStep, CreateInvImplies, PTL DEF CreateSpec
-----------------------------------------------------------------------------
(* The parts together.                                                      *)

(* What is graded as complete or as passed was earned by the recorded       *)
(* attempts, and the attempts that a run makes suffice: for any catalog     *)
(* whose policies ask for one pass or for three, any executors, any packets *)
(* and any attempts (runner.py, grader.py, v4_runner.py, packets.py).       *)
THEOREM VerdictsEarned ==
  PoliciesKnown /\ Spec /\ GradingSpec /\ PartitionSpec => []VerdictsAreEarned
<1>1. (CompleteIsRepeated /\ V4IsStricter)
        /\ (IsolationHolds /\ PassIsUnbroken)
        /\ FailuresRetried /\ RetriesSuffice => VerdictsAreEarned
  BY DEF VerdictsAreEarned
<1>2. GradingSpec => [](CompleteIsRepeated /\ V4IsStricter)
  BY GradesEarned
<1>3. PartitionSpec => [](IsolationHolds /\ PassIsUnbroken)
  BY PartitionsIsolated
<1>4. Spec => []FailuresRetried
  BY FailuresAreRetried
<1>5. PoliciesKnown /\ Spec => []RetriesSuffice
  BY RetriesAreEnough
<1> QED
  BY <1>1, <1>2, <1>3, <1>4, <1>5, PTL

(* The runner, the grader and the writers of evidence keep their types.     *)
THEOREM ParityTypesKept ==
  Spec /\ GradingSpec /\ CreateSpec => []ParityTypeOK
<1>1. CreateInv => CreateTypeOK
  BY DEF CreateInv
<1>2. CreateSpec => []CreateTypeOK
  BY CreateInvInit, CreateInvStep, <1>1, PTL DEF CreateSpec
<1>3. TypeOK /\ GradingTypeOK /\ CreateTypeOK => ParityTypeOK
  BY DEF ParityTypeOK
<1> QED
  BY <1>2, <1>3, TypeCorrect, GradingInvHolds, PTL
=============================================================================
