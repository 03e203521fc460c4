--------------------------- MODULE ParityVerdicts ---------------------------
(* The parts of a parity campaign together: the runner with the grader, the *)
(* partition validators, and the files that are created once; and what all  *)
(* of them promise of a verdict.                                            *)
EXTENDS GradedRun, PartitionResult, CreateOnly

(* What is graded as complete or as passed was earned by the recorded       *)
(* attempts: repeated, exact, isolated and unmetered (grader.py,            *)
(* v4_runner.py, packets.py); and the attempts suffice, as a run retries a  *)
(* failure as often as the grader asks for (runner.py).                     *)
VerdictsAreEarned ==
  /\ CompleteIsRepeated /\ V4IsStricter /\ IsolationHolds /\ PassIsUnbroken
  /\ FailuresRetried /\ RetriesSuffice

ParityTypeOK == TypeOK /\ GradingTypeOK /\ CreateTypeOK
=============================================================================
