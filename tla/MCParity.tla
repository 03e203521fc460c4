------------------------------ MODULE MCParity ------------------------------
(* What a parity campaign writes and what is made of it: the runner with    *)
(* the grader, the grader by itself, the partition validators, and the      *)
(* files that are created once.  The parts share no state: a behaviour is   *)
(* one of one of them.                                                      *)
EXTENDS ParityVerdicts

VARIABLE part

(* The runner: "b" has a combined executor, "u" none.  Of the path that is  *)
(* not required only the first trial fails or is invalid, and of the second *)
(* path only the first two.                                                 *)
MixedWork == <<<<"b", "positive">>, <<"b", "denial">>, <<"u", "positive">>>>
OncePerPath == [c \in Caps |-> 1]
RunnerBound ==
  \A i \in DOMAIN writes' :
    LET k == writes'[i][1]
    IN  \/ k[2] = "recovery" /\ k[3] > 1
        \/ k[2] = "denial" /\ k[3] > 2
        => writes'[i][2] = "pass"

(* The grader: packets with at most one thing wrong with them.              *)
MCRawTrials ==
  {r \in AnyRawTrial :
    /\ r.terminals # <<"cancelled">> /\ r.cls # "ENVIRONMENT_BLOCKED"
    /\ r.candidate = "c2" => /\ r.cls = "COMPLETE" /\ r.exact
                             /\ r.billing = "subscription_included"
    /\ ~r.proofs => r.cls \in {"COMPLETE", "PENDING"}
    /\ r.billing = "none" => r.cls = "COMPLETE" /\ r.exact /\ r.proofs
    /\ ~r.exact => r.cls \in {"COMPLETE", "EXPECTED_NEGATIVE"}}
MCGradeRows ==
  {r \in AnyGradeRow :
     r.path # "recovery" /\ ~(r.passes = 3 /\ r.consequential)}

(* The validators: attempts with at most one thing wrong with them, and     *)
(* that only in one boundary.                                               *)
GoodAttempt(b) ==
  [boundary |-> b, fresh |-> TRUE, status |-> "PASS", prior |-> "s1",
   produced |-> "s1", safe |-> TRUE]
MCAttemptKinds ==
  {a \in Attempts :
     LET good == GoodAttempt(a.boundary)
     IN  IF a.boundary = "b1"
         THEN Cardinality({f \in DOMAIN good : a[f] # good[f]}) <= 1
         ELSE a = good}
MCPartitionOrder == <<"p1", "p2">>

runnerVars == vars
NoGrading == row = CHOOSE r \in GradeRows : TRUE

MCInit ==
  /\ part \in {"runner", "grading", "partition", "create"}
  /\ Init /\ CreateInit
  /\ IF part = "grading" THEN GradingInit
     ELSE NoGrading /\ trials = [i \in {} |-> "none"]
  /\ PartitionInit
  /\ mode = [p \in Partitions |-> IF p = "p1" THEN "consecutive_3" ELSE "once"]
  /\ ~drift["p2"]
  /\ part # "partition" =>
       ~drift["p1"] /\ \A p \in Partitions : scope[p] = "isolated_cell"

RunnerNext(A) ==
  /\ part = "runner" /\ A /\ RunnerBound
  /\ UNCHANGED <<gradingVars, partitionVars, createVars, part>>

MCNext ==
  \/ RunnerNext(Next)
  \/ /\ part = "grading" /\ GradingNext
     /\ UNCHANGED <<runnerVars, partitionVars, createVars, part>>
  \/ /\ part = "partition" /\ PartitionNext
     /\ UNCHANGED <<runnerVars, gradingVars, createVars, part>>
  \/ /\ part = "create" /\ CreateNext
     /\ UNCHANGED <<runnerVars, gradingVars, partitionVars, part>>

mcVars == <<runnerVars, gradingVars, partitionVars, createVars, part>>
MCSpec == MCInit /\ [][MCNext]_mcVars /\ WF_mcVars(RunnerNext(Step))
=============================================================================
