------------------------------ MODULE Billing ------------------------------
(***************************************************************************)
(* The subscription-only billing policy.  Each SDK message may update four *)
(* fields of evidence; run_turn() merges them field by field, blocks at    *)
(* once on a sign of paid usage, and lets the result through only when     *)
(* classify_sdk_billing() finds the merged evidence included.  The plan of *)
(* the child's environment is part of the same policy.                     *)
(***************************************************************************)
EXTENDS Naturals

CONSTANT MaxUpdates     \* bound: messages with billing fields in a turn

ASSUME BillingAssumption == MaxUpdates \in Nat

VARIABLES
  evidence,     \* the merged SDKBillingEvidence of the turn
  updates,      \* bound: messages seen
  billing,      \* "open", "blocked" or "completed"
  paid,         \* history: was merged evidence ever a sign of paid usage
  masked,       \* history: was it so while a field was malformed
  childEnv      \* the parent and configured environment of a child

billingVars == <<evidence, updates, billing, paid, masked, childEnv>>

(* Raw values of the fields: absent, the categories the policy tells apart,*)
(* and values of a wrong type or length ("bad").                           *)
Sources == {"absent", "none", "metered", "unknown", "bad"}
Overages == {"absent", "yes", "no", "bad"}
Statuses == {"absent", "safe", "risky", "unknown", "bad"}
RateTypes == {"absent", "window", "overage", "unknown", "bad"}
SDKBillingEvidence ==
  [source : Sources, overage : Overages, status : Statuses,
   rate : RateTypes, malformed : BOOLEAN]
NoEvidence == [source |-> "absent", overage |-> "absent",
               status |-> "absent", rate |-> "absent", malformed |-> FALSE]

(* extract_sdk_billing_evidence(): an init message has a source, or data   *)
(* that is no mapping; a rate-limit event has the other three fields.  Only*)
(* two defects are recorded as malformed_fields, the others are found when *)
(* the evidence is classified.                                             *)
InitEvidence(source) == [NoEvidence EXCEPT !.source = source]
InitUnreadable == [NoEvidence EXCEPT !.malformed = TRUE]
RateEvidence(overage, status, rate, rawBad) ==
  [source |-> "absent", overage |-> overage, status |-> status, rate |-> rate,
   malformed |-> rawBad \/ overage = "bad"]

Extracted ==
  {InitEvidence(s) : s \in Sources} \cup {InitUnreadable}
    \cup {RateEvidence(o, s, r, b) :
            o \in Overages, s \in Statuses, r \in RateTypes, b \in BOOLEAN}

Latest(new, old) == IF new # "absent" THEN new ELSE old

(* _merge_evidence(): the last value of each field, and every recorded     *)
(* defect.                                                                 *)
MergeEvidence(old, new) ==
  [source |-> Latest(new.source, old.source),
   overage |-> Latest(new.overage, old.overage),
   status |-> Latest(new.status, old.status),
   rate |-> Latest(new.rate, old.rate),
   malformed |-> old.malformed \/ new.malformed]

(* _normalize_evidence(). *)
MalformedFields(e) ==
  e.malformed \/ "bad" \in {e.source, e.overage, e.status, e.rate}

(* classify_sdk_billing(), in its order. *)
Classify(e) ==
  LET risky == e.overage = "yes" \/ e.status = "risky" IN
  IF MalformedFields(e) THEN "unknown_evidence" ELSE
  IF e.source = "none" /\ risky THEN "conflicting_evidence" ELSE
  IF e.overage = "no" /\ e.status = "risky" THEN "conflicting_evidence" ELSE
  IF e.source = "metered" THEN "api_key_source" ELSE
  IF risky THEN "extra_usage" ELSE
  IF e.rate = "overage" /\ e.overage # "no" THEN "overage" ELSE
  IF "unknown" \in {e.source, e.status, e.rate} THEN "unknown_evidence" ELSE
  IF \/ e.source = "none" \/ e.overage = "no"
     \/ e.status = "safe" \/ e.rate = "window"
  THEN "included" ELSE
  "unknown_evidence"

(* Mutant: contradictory evidence waits for the result. *)
ImmediateMetered(e) ==
  Classify(e) \in {"api_key_source", "extra_usage", "overage"}

(* _IMMEDIATE_BILLING_BLOCKS. *)
Immediate(e) ==
  Classify(e) \in {"api_key_source", "extra_usage", "overage",
                   "conflicting_evidence"}

(* Evidence that says the turn is paid for outside the subscription.       *)
PaidUsage(e) ==
  \/ e.source = "metered" \/ e.overage = "yes" \/ e.status = "risky"
  \/ e.rate = "overage" /\ e.overage # "no"

-----------------------------------------------------------------------------
(* plan_sdk_env_overrides().  Of the ten metered vectors of the denylist   *)
(* the shared token differs from the rest, so two stand for all; the knobs *)
(* are the fallback switch, one with a secret-looking name and a plain one.*)
Denied == {"ANTHROPIC_TOKEN", "ANTHROPIC_API_KEY"}
Knobs == {"REFUSAL_FALLBACK", "secretish", "plain"}
ParentValues == {"absent", "empty", "oauth", "key", "unreadable"}
ConfiguredValues == {"absent", "knob", "object"}

(* is_metered_sdk_env_value() *)
MeteredValue(key, value) ==
  /\ key \in Denied /\ value \notin {"absent", "empty"}
  /\ key = "ANTHROPIC_TOKEN" => value # "oauth"

(* Mutant: configuration may set any name that is not on the denylist. *)
ConfigurableUnlisted(key, value) == key \notin Denied /\ value = "knob"

Configurable(key, value) ==
  /\ key \notin Denied /\ key \notin {"REFUSAL_FALLBACK", "secretish"}
  /\ value = "knob"

PlanOverrides(parent, configured) ==
  [key \in Denied \cup Knobs |->
     CASE Configurable(key, configured[key]) -> "knob"
       [] key = "REFUSAL_FALLBACK" -> "disabled"
       [] MeteredValue(key, parent[key]) -> "empty"
       [] OTHER -> "absent"]

(* The SDK lays the overrides over the environment it inherits.            *)
ChildValue(key) ==
  Latest(PlanOverrides(childEnv.parent, childEnv.configured)[key],
         childEnv.parent[key])

(* Every environment a child may be started with; only the values of the   *)
(* denied names matter to the plan beyond being there.                     *)
Environments ==
  {e \in [parent : [Denied \cup Knobs -> ParentValues],
          configured : [Denied \cup Knobs -> ConfiguredValues]] :
     \A k \in Knobs : e.parent[k] \in {"absent", "key"}}

-----------------------------------------------------------------------------
BillingInit ==
  /\ evidence = NoEvidence /\ updates = 0 /\ billing = "open"
  /\ paid = FALSE /\ masked = FALSE

(* A message before the result. *)
BillingUpdate ==
  /\ billing = "open" /\ updates < MaxUpdates
  /\ updates' = updates + 1
  /\ \E update \in Extracted :
       LET merged == MergeEvidence(evidence, update) IN
       /\ evidence' = merged
       /\ billing' = IF Immediate(merged) THEN "blocked" ELSE "open"
       /\ paid' = (paid \/ PaidUsage(merged))
       /\ masked' = (\/ masked
                     \/ PaidUsage(merged) /\ MalformedFields(merged))
  /\ UNCHANGED childEnv

(* The result: it is released only when the evidence is included. *)
BillingResult ==
  /\ billing = "open"
  /\ billing' = IF Classify(evidence) = "included"
                THEN "completed" ELSE "blocked"
  /\ UNCHANGED <<evidence, updates, paid, masked, childEnv>>

BillingNext == BillingUpdate \/ BillingResult

-----------------------------------------------------------------------------
BillingTypeOK ==
  /\ evidence \in SDKBillingEvidence /\ updates \in 0 .. MaxUpdates
  /\ billing \in {"open", "blocked", "completed"}

(* A turn is completed only if no message, in whatever order they came,    *)
(* showed paid usage, except under cover of a malformed field; and never   *)
(* once a defect was recorded.                                             *)
CompletedIsUnpaid ==
  billing = "completed" => (paid => masked) /\ ~evidence.malformed

(* What the documentation promises without the exception: paid usage is a  *)
(* hard gate failure.                                                      *)
PaidTurnNeverCompletes == billing = "completed" => ~paid

(* Whatever the parent's environment and the configuration hold, the child *)
(* sees no metered vector, keeps a subscription token, runs with refusal   *)
(* fallback disabled, and takes no secret-looking value from configuration.*)
ChildIsUnmetered ==
  /\ \A key \in Denied : ~MeteredValue(key, ChildValue(key))
  /\ childEnv.parent["ANTHROPIC_TOKEN"] = "oauth" =>
       ChildValue("ANTHROPIC_TOKEN") = "oauth"
  /\ ChildValue("REFUSAL_FALLBACK") = "disabled"
  /\ ChildValue("secretish") # "knob"

(* Neither a turn that completes nor the child it runs in can be metered   *)
(* (billing.py).                                                           *)
NothingIsPaid == CompletedIsUnpaid /\ ChildIsUnmetered
=============================================================================
