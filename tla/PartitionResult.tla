-------------------------- MODULE PartitionResult --------------------------
(* The validators of parity/packets.py: validate_result() of one partition  *)
(* of the catalog, its attempts and its derived grade, and                  *)
(* validate_aggregate() over the partitions.  Attempts are added to the     *)
(* cells one by one; each state is an aggregate that may be validated.      *)
(*                                                                          *)
(* Digests are abstract: a document whose digests do not fit its content is *)
(* refused before anything else is looked at.  An attempt keeps what the    *)
(* validators compare between attempts: its boundary, the session state it  *)
(* was given and the one it produced, its billing, and the status of a      *)
(* required path (the other two paths are not required).                    *)
EXTENDS Integers, Sequences, FiniteSets

CONSTANTS Boundaries,     \* digests of session boundaries
          ResumeStates,   \* digests of session states
          NoState,        \* no digest
          MaxAttempts,    \* 3 in the code
          AttemptKinds,   \* the attempts that a run may report
          PartitionOrder  \* partition ids, in the order of the aggregate

Partitions == {PartitionOrder[i] : i \in DOMAIN PartitionOrder}
Statuses == {"PASS", "VERIFIED_FAILURE", "ENVIRONMENT_BLOCKED", "PENDING"}

Attempts ==
  [boundary : Boundaries, fresh : BOOLEAN, status : Statuses,
   prior : ResumeStates \cup {NoState},
   produced : ResumeStates \cup {NoState}, safe : BOOLEAN]

ASSUME PartitionAssumption ==
  /\ NoState \notin ResumeStates /\ AttemptKinds \subseteq Attempts
  /\ PartitionOrder \in Seq(Partitions)

VARIABLES scope,      \* of each partition: isolated_cell or one session
          mode,       \* the repeat policy of each partition's one capability
          attempts,   \* the attempts of each partition's cell
          drift       \* the observed inventory is not the declared one

partitionVars == <<scope, mode, attempts, drift>>
-----------------------------------------------------------------------------
(* One partition.                                                           *)

(* Mutant: the first attempt of a cell may share a boundary.                *)
IsolatedLater(p, n, seen) ==
  scope[p] = "isolated_cell" /\ n > 1 =>
    attempts[p][n].fresh /\ attempts[p][n].boundary \notin seen

Isolated(p, n, seen) ==
  scope[p] = "isolated_cell" =>
    attempts[p][n].fresh /\ attempts[p][n].boundary \notin seen

BoundariesOf(p, n) == {attempts[p][k].boundary : k \in 1 .. n}

(* Mutant: an attempt that was given no state starts a chain of its own.    *)
ChainedIfGiven(p, n) ==
  n > 1 /\ attempts[p][n - 1].produced # NoState
        /\ attempts[p][n].prior # NoState =>
    attempts[p][n].prior = attempts[p][n - 1].produced

(* The state an attempt was given is the one its predecessor produced.      *)
Chained(p, n) ==
  n > 1 /\ attempts[p][n - 1].produced # NoState =>
    attempts[p][n].prior = attempts[p][n - 1].produced

AttemptCount(p) ==
  IF mode[p] = "once" THEN Len(attempts[p]) = 1
  ELSE Len(attempts[p]) \in 1 .. 3

(* validate_result, up to the grade.  The set of boundaries starts empty.   *)
ResultValid(p) ==
  /\ AttemptCount(p)
  /\ \A n \in 1 .. Len(attempts[p]) :
       /\ Isolated(p, n, BoundariesOf(p, n - 1))
       /\ Chained(p, n)

(* derive_path_qualification, for a path that is expected to pass.          *)
Qualification(status) ==
  CASE status = "PASS" -> "PASS"
    [] status = "VERIFIED_FAILURE" -> "FAIL"
    [] status = "ENVIRONMENT_BLOCKED" -> "BLOCKED"
    [] status = "PENDING" -> "PENDING"

Last(p) == attempts[p][Len(attempts[p])]

(* Mutant: the billing of the last attempt stands for all of them.          *)
BillingOfLast(p) == Last(p).safe

BillingSafe(p) == \A n \in 1 .. Len(attempts[p]) : attempts[p][n].safe

(* _grade: the status looks at the last attempt of a cell.                  *)
PartitionGrade(p) ==
  LET last == Qualification(Last(p).status)
  IN  IF last = "BLOCKED" THEN "BLOCKED"
      ELSE IF last = "PENDING" THEN "PENDING"
      ELSE IF last = "FAIL" \/ drift[p] \/ ~BillingSafe(p) THEN "FAIL"
      ELSE "PASS"
-----------------------------------------------------------------------------
(* The aggregate: every partition once, in order; the boundaries of the     *)
(* partitions before it count for an isolated one.                          *)

SeenBefore(k) ==
  UNION {BoundariesOf(PartitionOrder[j], Len(attempts[PartitionOrder[j]])) :
           j \in 1 .. k - 1}

(* Mutant: each partition is looked at by itself.                           *)
SeenNothing(k) == {}

Seen(k) == SeenBefore(k)

AggregateValid ==
  \A k \in DOMAIN PartitionOrder :
    LET p == PartitionOrder[k]
    IN  /\ ResultValid(p)
        /\ \A n \in 1 .. Len(attempts[p]) :
             Isolated(p, n, Seen(k) \cup BoundariesOf(p, n - 1))
-----------------------------------------------------------------------------
PartitionInit ==
  /\ scope \in [Partitions -> {"isolated_cell", "one_logical_session"}]
  /\ mode \in [Partitions -> {"once", "consecutive_3"}]
  /\ attempts = [p \in Partitions |-> <<>>]
  /\ drift \in [Partitions -> BOOLEAN]

AddAttempt ==
  \E p \in Partitions, a \in AttemptKinds :
    /\ Len(attempts[p]) < IF mode[p] = "once" THEN 1 ELSE MaxAttempts
    /\ attempts' = [attempts EXCEPT ![p] = Append(@, a)]
    /\ UNCHANGED <<scope, mode, drift>>

PartitionNext == AddAttempt
-----------------------------------------------------------------------------
(* In an aggregate that validates, no isolated attempt shares its boundary  *)
(* with an attempt of its own cell, or with any attempt of a partition that *)
(* comes before it in the aggregate.  (A session that comes after may share *)
(* the boundary of an isolated cell: the check is not symmetric.)           *)
IsolationHolds ==
  AggregateValid =>
    \A k, j \in DOMAIN PartitionOrder :
      LET p == PartitionOrder[k]
          q == PartitionOrder[j]
      IN  scope[p] = "isolated_cell" /\ j <= k =>
            \A n \in DOMAIN attempts[p], m \in DOMAIN attempts[q] :
              attempts[p][n].boundary = attempts[q][m].boundary =>
                p = q /\ n = m

(* A partition that validates and is graded PASS ends in a pass, never ran  *)
(* on metered billing in any attempt, and carries the session state from    *)
(* each attempt that produced one into the next.                            *)
PassIsUnbroken ==
  \A p \in Partitions :
    attempts[p] # <<>> /\ ResultValid(p) /\ PartitionGrade(p) = "PASS" =>
      /\ Last(p).status = "PASS"
      /\ \A n \in DOMAIN attempts[p] : attempts[p][n].safe
      /\ \A n \in 2 .. Len(attempts[p]) :
           attempts[p][n - 1].produced \in {NoState, attempts[p][n].prior}
=============================================================================
