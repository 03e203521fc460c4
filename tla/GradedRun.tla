----------------------------- MODULE GradedRun -----------------------------
(* The runner and the grader together: `parity run` (ParityRunner) writes   *)
(* packets, `parity grade` (Grading) reads them.  The runner decides how    *)
(* many trials a path gets, the grader how many it wants to see: nothing in *)
(* the code ties the two rules to each other.                               *)
EXTENDS ParityRunner, Grading

(* The packet that the grader finds for a packet the runner wrote.  The     *)
(* executor's trace is the expected one; the runner never looks at it.      *)
PacketOf(path, class) ==
  LET cls == CASE class = "pass" -> IF path = "denial"
                                    THEN "EXPECTED_NEGATIVE" ELSE "COMPLETE"
               [] class = "fail" -> "VERIFIED_FAILURE"
               [] class = "blocked" -> "ENVIRONMENT_BLOCKED"
               [] class = "pending" -> "PENDING"
  IN  [cls |-> cls, exact |-> TRUE, proofs |-> TRUE,
       terminals |-> CASE cls = "COMPLETE" -> <<"completed">>
                       [] cls = "EXPECTED_NEGATIVE" -> <<"denied">>
                       [] cls = "VERIFIED_FAILURE" -> <<"failed">>
                       [] OTHER -> <<>>,
       billing |-> "subscription_included", candidate |-> "c1"]

TrialsOf(c, path) ==
  {n \in 1 .. MaxTrials : disk[<<c, path, n>>] # "absent"}

GradeOf(c, path) ==
  Grade3([path |-> path, passes |-> Passes[c], consequential |-> FALSE,
          live |-> TRUE],
         [n \in TrialsOf(c, path) |-> PacketOf(path, disk[<<c, path, n>>])])

(* The trials a run makes are the trials the grader asks for: after a run   *)
(* that was not interrupted, a path none of whose trials is pending or      *)
(* blocked is COMPLETE, unless one of the last three trials that the runner *)
(* allows failed.  A path is never left PENDING for want of a trial.        *)
RetriesSuffice ==
  proc = "finished" /\ runs = 1 =>
    \A i \in DOMAIN Work :
      LET c == Work[i][1]
          path == Work[i][2]
          class(n) == disk[<<c, path, n>>]
      IN  (\A n \in 1 .. MaxTrials : class(n) \notin {"pending", "blocked"})
          => /\ GradeOf(c, path) # "PENDING"
             /\ (\A n \in 1 .. MaxTrials : class(n) = "fail"
                                             => n <= MaxTrials - 3)
                => GradeOf(c, path) = "COMPLETE"
=============================================================================
