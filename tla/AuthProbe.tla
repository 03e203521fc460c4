----------------------------- MODULE AuthProbe -----------------------------
(***************************************************************************)
(* probe_claude_auth(): the CLI is run as a child process with a deadline  *)
(* and an output budget, and its status is parsed into one category.  The  *)
(* child (external) writes, closes its output, exits or hangs as it likes. *)
(***************************************************************************)
EXTENDS Naturals

CONSTANT OutputLimit    \* max_output_bytes, in chunks

ASSUME AuthAssumption == OutputLimit \in Nat \ {0}

VARIABLES
  auth,         \* where the probe is, "done" at the end
  category,     \* its AuthCategory
  output,       \* chunks read so far
  child,        \* "none", "running", "closed" (its output) or "gone"
  written,      \* history: chunks the child has written
  status        \* the status the child prints, and its exit code

authVars == <<auth, category, output, child, written, status>>

(* The four fields of the status, as parse_auth_status() tells them apart. *)
StatusPayloads ==
  [json : BOOLEAN, loggedIn : {"yes", "no", "bad"},
   method : {"oauth", "api_key", "metered", "other", "bad"},
   provider : {"first", "third", "other", "bad"},
   plan : {"missing", "blank", "bad", "metered", "other", "subscription"},
   exit : {0, 1}]

(* parse_auth_status(), in its order. *)
ParseAuthStatus(s) ==
  IF ~s.json \/ s.loggedIn = "bad" THEN "malformed" ELSE
  IF s.loggedIn = "no" THEN "logged_out" ELSE
  IF s.method = "bad" \/ s.provider = "bad" THEN "malformed" ELSE
  IF s.method = "api_key" THEN "api_key" ELSE
  IF s.method = "metered" THEN "metered" ELSE
  IF s.provider = "third" THEN "third_party" ELSE
  IF s.provider = "other" \/ s.method = "other" THEN "unknown" ELSE
  IF s.plan \in {"missing", "blank"} THEN "missing_subscription" ELSE
  IF s.plan = "bad" THEN "malformed" ELSE
  IF s.plan = "metered" THEN "metered" ELSE
  IF s.plan = "other" THEN "unknown" ELSE
  "subscription_oauth"

(* What the child will print is fixed when the probe starts; every run     *)
(* says from which set.                                                    *)
AuthInit ==
  /\ auth = "resolve" /\ category = "none" /\ output = 0
  /\ child = "none" /\ written = 0

Return(c) == auth' = "done" /\ category' = c

(* The resolver fails, or its path is not an absolute executable file.     *)
CliMissing ==
  /\ auth = "resolve" /\ Return("cli_missing")
  /\ UNCHANGED <<output, child, written, status>>

(* Popen() starts the child, or raises. *)
Spawn ==
  /\ auth = "resolve" /\ auth' = "reading" /\ child' = "running"
  /\ UNCHANGED <<category, output, written, status>>
SpawnFails ==
  /\ auth = "resolve"
  /\ \E c \in {"cli_missing", "probe_failed"} : Return(c)
  /\ UNCHANGED <<output, child, written, status>>

(* Mutant: the budget is off by one chunk. *)
ExceedsLate(n) == n > OutputLimit + 1

Exceeds(n) == n > OutputLimit

(* One round of the read loop: a chunk, and the budget is exceeded by the  *)
(* first one past it.                                                      *)
ReadChunk ==
  /\ auth = "reading" /\ output < written
  /\ output' = output + 1
  /\ IF Exceeds(output') THEN child' = "gone" /\ Return("oversized")
                         ELSE UNCHANGED <<auth, category, child>>
  /\ UNCHANGED <<written, status>>
ReadEnd ==
  /\ auth = "reading" /\ output = written /\ child \in {"closed", "gone"}
  /\ auth' = "waiting"
  /\ UNCHANGED <<category, output, child, written, status>>

(* Mutant: a deadline is reported without the child being stopped. *)
DeadlineLeaves ==
  /\ auth = "reading" \/ (auth = "waiting" /\ child # "gone")
  /\ Return("timeout") /\ UNCHANGED child
  /\ UNCHANGED <<output, written, status>>

(* Mutant: nobody bounds the wait for the exit of the child. *)
DeadlineReading ==
  /\ auth = "reading"
  /\ Return("timeout") /\ child' = "gone"
  /\ UNCHANGED <<output, written, status>>

(* The deadline passes before the next chunk, or before the child exits:   *)
(* _stop_process() kills it.  It may pass while a chunk is there as well,  *)
(* but the wait for a child that is gone returns at once.                  *)
Deadline ==
  /\ auth = "reading" \/ (auth = "waiting" /\ child # "gone")
  /\ Return("timeout") /\ child' = "gone"
  /\ UNCHANGED <<output, written, status>>

(* select() or read() raises: the stream is closed, the child is not       *)
(* stopped.                                                                *)
ReadFails ==
  /\ auth = "reading" /\ Return("probe_failed")
  /\ UNCHANGED <<output, child, written, status>>

Exit ==
  /\ auth = "waiting" /\ child = "gone"
  /\ Return(IF status.exit = 0 THEN ParseAuthStatus(status) ELSE "nonzero")
  /\ UNCHANGED <<output, child, written, status>>

(* The child, which writes its status in several chunks.                   *)
ChildWrites ==
  /\ child = "running" /\ written <= OutputLimit
  /\ written' = written + 1
  /\ UNCHANGED <<auth, category, output, child, status>>
ChildCloses ==
  /\ child = "running" /\ child' = "closed"
  /\ UNCHANGED <<auth, category, output, written, status>>
ChildExits ==
  /\ child \in {"running", "closed"} /\ child' = "gone"
  /\ UNCHANGED <<auth, category, output, written, status>>

ProbeStep ==
  \/ CliMissing \/ Spawn \/ SpawnFails \/ ReadChunk \/ ReadEnd
  \/ Deadline \/ ReadFails \/ Exit
ChildStep == ChildWrites \/ ChildCloses \/ ChildExits
AuthNext == ProbeStep \/ ChildStep

-----------------------------------------------------------------------------
AuthTypeOK ==
  /\ auth \in {"resolve", "reading", "waiting", "done"}
  /\ output \in 0 .. OutputLimit + 1 /\ written \in 0 .. OutputLimit + 1
  /\ child \in {"none", "running", "closed", "gone"}
  /\ (category = "none") = (auth # "done")

(* A subscription is reported only for a child that ended by itself with   *)
(* code 0, whose whole output was read within the budget, and whose four   *)
(* fields all say so: a status cut short is never accepted.                *)
AllowedIsWhole ==
  category = "subscription_oauth" =>
    /\ child = "gone" /\ status.exit = 0
    /\ output = written /\ output <= OutputLimit
    /\ status.json /\ status.loggedIn = "yes" /\ status.method = "oauth"
    /\ status.provider = "first" /\ status.plan = "subscription"

(* When the probe returns its child is gone, on every path but the one     *)
(* where reading raises.                                                   *)
NoChildLeft ==
  auth = "done" /\ category # "probe_failed" => child \in {"none", "gone"}

(* The probe returns whatever the child does: its deadline needs nobody.   *)
ProbeEnds == (auth = "reading") ~> (auth = "done")

(* A probe allows only what a child said in full, and leaves no child      *)
(* (auth.py).                                                              *)
ProbeIsWhole == AllowedIsWhole /\ NoChildLeft
=============================================================================
