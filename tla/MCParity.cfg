\* The runner: a combined executor that may claim any number of turns, a
\* capability without an executor, one crash and a resumed run.  The grader:
\* up to four trials.  The validators: two partitions, two attempts.  Files:
\* three writers, one of them with a document that does not validate.
SPECIFICATION MCSpec
CONSTANTS
  Caps = {"b", "u"}
  Work <- MixedWork
  Bundled = {"b"}
  Registered = {"b"}
  Passes <- OncePerPath
  Classes = {"pass", "fail", "invalid"}
  MaxTrials = 4
  Budget = 1
  MaxCost = 1
  Honest = FALSE
  MaxCrashes = 1
  MaxRuns = 2
  MaxTrial = 4
  RawTrials <- MCRawTrials
  GradeRows <- MCGradeRows
  Boundaries = {"b1", "b2", "b3"}
  ResumeStates = {"s1", "s2"}
  NoState = NoState
  MaxAttempts = 2
  AttemptKinds <- MCAttemptKinds
  PartitionOrder <- MCPartitionOrder
  Writers = {"w1", "w2", "w3"}
  ValidOf = {"w1", "w2"}
  Nobody = Nobody
INVARIANTS
  ParityTypeOK
  LedgerHolds
  VerdictsAreEarned
  EvidenceIsNeverReplaced
PROPERTIES
  RunEnds
  FailureSticks
CHECK_DEADLOCK FALSE
