------------------------------ MODULE Grading ------------------------------
(* What the trials of one required path are worth: a result packet as       *)
(* ResultPacket.from_dict admits it (parity/results.py), the grade of the   *)
(* v3 grader (parity/grader.py), the binding of a trial and its ownership   *)
(* receipt into a v4 packet (parity/v4_receipts.py, v4_evidence.py), and    *)
(* the grade of the v4 grader (parity/v4_runner.py).                        *)
(*                                                                          *)
(* The packets of a path are found on disk in any order and number; a       *)
(* behaviour records them one by one, and each state is a directory that    *)
(* may be graded.  Hashes are abstract: a packet whose hashes do not match  *)
(* its content is refused, so a recorded one is what it says.               *)
EXTENDS Integers, FiniteSets

CONSTANTS MaxTrial,       \* bound: trial indexes are 1 .. MaxTrial
          RawTrials,      \* the packets that an execution may try to write
          GradeRows       \* the rows: what the catalog says of the path

(* A row: the path, its repeat policy, and whether v4 wants it live.        *)
AnyGradeRow ==
  [path : {"positive", "denial", "recovery"}, passes : {1, 3},
   consequential : BOOLEAN, live : BOOLEAN]

Classes5 == {"COMPLETE", "EXPECTED_NEGATIVE", "VERIFIED_FAILURE",
             "PENDING", "ENVIRONMENT_BLOCKED"}
NotRun == {"PENDING", "ENVIRONMENT_BLOCKED"}

(* A packet before it is looked at: the outcomes of its terminal events,    *)
(* whether its event kinds are those of the expected trace (of a denial:    *)
(* start as it does and end in the terminal event), and its proof hashes.   *)
AnyRawTrial ==
  [cls : Classes5,
   terminals : {<<>>, <<"completed">>, <<"denied">>, <<"failed">>,
                <<"cancelled">>, <<"completed", "completed">>},
   exact : BOOLEAN, proofs : BOOLEAN,
   billing : {"subscription_included", "none", "unsafe", "unknown"},
   candidate : {"c1", "c2"}]

ASSUME GradingAssumption ==
  /\ MaxTrial \in Nat
  /\ RawTrials \subseteq AnyRawTrial /\ GradeRows \subseteq AnyGradeRow

VARIABLES row,      \* the row the packets belong to
          trials    \* the packets on disk, by trial index

gradingVars == <<row, trials>>
Indexes3 == 1 .. MaxTrial
-----------------------------------------------------------------------------
(* ResultPacket.from_dict.                                                  *)

OutcomeFits(raw) ==
  CASE raw.cls \in NotRun -> raw.terminals = <<>>
    [] raw.cls = "COMPLETE" -> raw.terminals = <<"completed">>
    [] raw.cls = "EXPECTED_NEGATIVE" -> raw.terminals = <<"denied">>
    [] raw.cls = "VERIFIED_FAILURE" ->
         raw.terminals \in {<<"failed">>, <<"cancelled">>}

FromDict(raw) ==
  /\ raw.billing \notin {"unsafe", "unknown"}
  /\ OutcomeFits(raw)
  /\ raw.cls \in {"COMPLETE", "EXPECTED_NEGATIVE"} => raw.proofs

(* A successful outcome in the packet of a required path, and the trace.    *)
IsPass(path, p) ==
  p.cls = IF path = "denial" THEN "EXPECTED_NEGATIVE" ELSE "COMPLETE"
TraceMatches(path, p) ==
  /\ p.exact
  /\ p.terminals = <<IF path = "denial" THEN "denied" ELSE "completed">>

GoodTrials(path, S) ==
  {i \in DOMAIN S : IsPass(path, S[i]) /\ TraceMatches(path, S[i])}
-----------------------------------------------------------------------------
(* grade_packets, for one path.  S is a function from the trial indexes     *)
(* found to their packets.                                                  *)

(* Mutant: three passes, whatever the trials between them.                  *)
AnyThree(path, S) == Cardinality(GoodTrials(path, S)) >= 3

(* The trials are sorted and every window of three adjacent ones is tried:  *)
(* their indexes must follow one another and their candidate be the same.   *)
ThreeConsecutive(path, S) ==
  \E i \in GoodTrials(path, S) :
    /\ {i + 1, i + 2} \subseteq GoodTrials(path, S)
    /\ Cardinality({S[j].candidate : j \in i .. i + 2}) = 1

States(path, S) ==
  {<<S[i].cls, TraceMatches(path, S[i])>> : i \in DOMAIN S}
Unstable(path, S) == Cardinality(States(path, S)) > 1
Candidates3(S) == {S[i].candidate : i \in DOMAIN S}

HadFailure(path, S) ==
  \E i \in DOMAIN S :
    \/ S[i].cls = "VERIFIED_FAILURE"
    \/ IsPass(path, S[i]) /\ ~TraceMatches(path, S[i])

Policy(r) == IF r.consequential /\ r.passes < 3 THEN 3 ELSE r.passes

(* Mutant: a failure does not raise what is required.                       *)
RequiredFlat(r, S) == Policy(r)

RequiredPasses(r, S) ==
  IF HadFailure(r.path, S) \/ Unstable(r.path, S)
  THEN IF Policy(r) < 3 THEN 3 ELSE Policy(r)
  ELSE Policy(r)

Grade3(r, S) ==
  LET required == RequiredPasses(r, S)
      power3 == ThreeConsecutive(r.path, S)
  IN  IF Cardinality(Candidates3(S)) > 1 THEN "refused"
      ELSE IF HadFailure(r.path, S) /\ ~(required = 3 /\ power3)
           THEN "VERIFIED_FAILURE"
      ELSE IF required >= 3 /\ power3 THEN "COMPLETE"
      ELSE IF required = 1 /\ GoodTrials(r.path, S) # {} THEN "COMPLETE"
      ELSE "PENDING"
-----------------------------------------------------------------------------
(* The v4 packets.                                                          *)

FrozenTrials(r) == 1 .. Policy(r)

(* build_ownership_receipt writes a receipt for a trial that carries both   *)
(* proofs; bind_v4_evidence admits the trial with it when the row wants it, *)
(* its index is one of the frozen ones and, on a live row, a passing trial  *)
(* was included in the subscription.                                        *)
HasReceipt(p) == p.proofs
SubscriptionShown(r, p) ==
  r.live /\ IsPass(r.path, p) => p.billing = "subscription_included"

(* Mutant: any billing that from_dict admits will do.                       *)
BindsUnbilled(r, i, p) == HasReceipt(p) /\ i \in FrozenTrials(r)

Binds(r, i, p) ==
  HasReceipt(p) /\ i \in FrozenTrials(r) /\ SubscriptionShown(r, p)

Bindable(r, S) == {i \in DOMAIN S : Binds(r, i, S[i])}

HadFailure4(path, S) ==
  \E i \in DOMAIN S :
    /\ S[i].cls \notin NotRun
    /\ ~(IsPass(path, S[i]) /\ TraceMatches(path, S[i]))

ExactTrials(r, S) == DOMAIN S = FrozenTrials(r)

Grade4(r, S) ==
  LET policy == Policy(r)
      required == IF HadFailure4(r.path, S) \/ Unstable(r.path, S)
                  THEN IF policy < 3 THEN 3 ELSE policy
                  ELSE policy
      power3 == ThreeConsecutive(r.path, S)
  IN  IF Cardinality(Candidates3(S)) > 1 THEN "refused"
      ELSE IF DOMAIN S = {} THEN "NOT_RUN"
      ELSE IF HadFailure4(r.path, S) /\ ~(required = 3 /\ power3)
           THEN "VERIFIED_FAILURE"
      ELSE IF ~ExactTrials(r, S) THEN "PARTIAL"
      ELSE IF required >= 3 /\ power3 THEN "COMPLETE"
      ELSE IF required = 1 /\ GoodTrials(r.path, S) # {} THEN "COMPLETE"
      ELSE "PENDING"
-----------------------------------------------------------------------------
GradingInit == row \in GradeRows /\ trials = [i \in {} |-> "none"]

(* A packet is written under the index of its trial, once.                  *)
RecordTrial ==
  \E i \in Indexes3 \ DOMAIN trials, raw \in RawTrials :
    /\ FromDict(raw)
    /\ trials' = [j \in DOMAIN trials \cup {i} |->
                    IF j = i THEN raw ELSE trials[j]]
    /\ UNCHANGED row

GradingNext == RecordTrial

GradingTypeOK ==
  /\ row \in AnyGradeRow
  /\ DOMAIN trials \subseteq Indexes3
  /\ \A i \in DOMAIN trials : trials[i] \in AnyRawTrial
-----------------------------------------------------------------------------
Restricted(S, D) == [i \in D |-> S[i]]

(* A path on which anything but clean passes was seen, or whose policy says *)
(* so, is COMPLETE only with three passes in a row of one candidate; a      *)
(* clean one needs a pass, and no trial of it failed.  (grade_packets)      *)
CompleteIsRepeated ==
  Grade3(row, trials) = "COMPLETE" =>
    LET good == GoodTrials(row.path, trials)
        inARow == \E i \in good : {i + 1, i + 2} \subseteq good
    IN  /\ good # {}
        /\ \A i, j \in DOMAIN trials :
             trials[i].candidate = trials[j].candidate
        /\ inARow \/ (Policy(row) = 1 /\ good = DOMAIN trials)

(* Whatever part of the trials is bound, in whatever order, the v4 grader   *)
(* is never more lenient than the v3 grader was on the same trials; and its *)
(* COMPLETE stands for all the frozen trials, each of which passed with its *)
(* proofs and, on a live row, under the subscription.                       *)
V4IsStricter ==
  \A D \in SUBSET Bindable(row, trials) :
    LET S == Restricted(trials, D)
    IN  Grade4(row, S) = "COMPLETE" =>
          /\ Grade3(row, S) = "COMPLETE"
          /\ D = FrozenTrials(row)
          /\ \A i \in D : /\ IsPass(row.path, S[i]) /\ S[i].proofs
                          /\ row.live => S[i].billing =
                                           "subscription_included"

(* A verified failure is never forgotten: one more packet leaves the path   *)
(* failed, or is the one that completes three passes in a row, or makes the *)
(* report impossible because it is of another candidate.                    *)
FailureSticks ==
  [][Grade3(row, trials) = "VERIFIED_FAILURE" =>
       \/ Grade3(row, trials)' \in {"VERIFIED_FAILURE", "refused"}
       \/ /\ Grade3(row, trials)' = "COMPLETE"
          /\ \E i \in DOMAIN trials' \ DOMAIN trials,
                k \in Indexes3 :
               /\ i \in k .. k + 2
               /\ k .. k + 2 \subseteq GoodTrials(row.path, trials')
    ]_gradingVars

(* What the reason of a VERIFIED_FAILURE says: a failure "has not been      *)
(* followed by strict 3/3 evidence".  It is not what the grader requires:   *)
(* a failure after three passes leaves the path COMPLETE.                   *)
FailureIsFollowed ==
  Grade3(row, trials) = "COMPLETE" =>
    \A i \in DOMAIN trials :
      trials[i].cls = "VERIFIED_FAILURE" =>
        \E k \in Indexes3 : /\ k > i
                            /\ k .. k + 2 \subseteq
                                 GoodTrials(row.path, trials)
=============================================================================
