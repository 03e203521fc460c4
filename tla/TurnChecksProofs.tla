-------------------------- MODULE TurnChecksProofs --------------------------
(***************************************************************************)
(* Proofs about the checks around a turn: the guard over the stream, the   *)
(* billing policy, the authentication probe, the projector of the model    *)
(* and the admission checks, for any set of tools, indexes and models, any *)
(* limits and any number of events, messages, chunks and blocks.           *)
(***************************************************************************)
EXTENDS TurnChecks, SequenceTheorems, FiniteSetTheorems,
        WellFoundedInduction, TLAPS

GuardSpec == GuardInit /\ [][GuardNext]_guardVars

BillingSpec ==
  /\ BillingInit /\ childEnv \in Environments
  /\ [][BillingNext]_billingVars

AuthSpec ==
  /\ AuthInit /\ status \in StatusPayloads
  /\ [][AuthNext]_authVars
-----------------------------------------------------------------------------
(* The guard.                                                              *)

(* An index is marked exactly while an allowed tool is open at it. *)
IndexesTrue ==
  \A i \in Indexes : indexes[i] <=> ToolOpen(i, Len(log) + 1)

GuardInv ==
  GuardTypeOK /\ IndexesTrue /\ DeltasProved /\ NoUnlistedToolIsPublic

(* A named use is refused exactly for its name. *)
LEMMA NamedUseVerdict ==
  ASSUME NEW e, NamedUse(e)
  PROVE  StreamViolation(e) <=> e.name \notin Tools
  BY DEF NamedUse, StreamViolation, ServerUse, InputDelta, Plain

(* What ToolOpen says of a log, the present one or the next. *)
Closes(r, i) == Stops(r.event) /\ r.event.index = i
Opens(r, i) == NamedUse(r.event) /\ ~r.violation /\ r.event.index = i
OpenIn(l, i, k) ==
  \E j \in 1..(k - 1) :
    Opens(l[j], i) /\ \A m \in (j + 1)..(k - 1) : ~Closes(l[m], i)

(* Whether a tool is open reads only the log, before and after a step. *)
LEMMA ToolOpenIn ==
  /\ IndexesTrue <=>
       \A i \in Indexes : indexes[i] <=> OpenIn(log, i, Len(log) + 1)
  /\ IndexesTrue' <=>
       \A i \in Indexes : indexes'[i] <=> OpenIn(log', i, Len(log') + 1)
  /\ DeltasProved <=>
       \A k \in DOMAIN log : InputDelta(log[k].event) =>
         (log[k].violation <=>
            ~(/\ log[k].event.index \in Indexes
              /\ OpenIn(log, log[k].event.index, k)))
  /\ DeltasProved' <=>
       \A k \in DOMAIN log' : InputDelta(log'[k].event) =>
         (log'[k].violation <=>
            ~(/\ log'[k].event.index \in Indexes
              /\ OpenIn(log', log'[k].event.index, k)))
<1>1. \A i, k : ToolOpen(i, k) <=> i \in Indexes /\ OpenIn(log, i, k)
  BY DEF ToolOpen, OpenIn, Opens, Closes
<1>2. IndexesTrue <=>
        \A i \in Indexes : indexes[i] <=> OpenIn(log, i, Len(log) + 1)
  BY <1>1 DEF IndexesTrue
<1>3. DeltasProved <=>
        \A k \in DOMAIN log : InputDelta(log[k].event) =>
          (log[k].violation <=>
             ~(/\ log[k].event.index \in Indexes
               /\ OpenIn(log, log[k].event.index, k)))
  BY <1>1 DEF DeltasProved
<1>4. IndexesTrue' <=>
        \A i \in Indexes : indexes'[i] <=> OpenIn(log', i, Len(log') + 1)
  BY DEF IndexesTrue, ToolOpen, OpenIn, Opens, Closes
<1>5. DeltasProved' <=>
        \A k \in DOMAIN log' : InputDelta(log'[k].event) =>
          (log'[k].violation <=>
             ~(/\ log'[k].event.index \in Indexes
               /\ OpenIn(log', log'[k].event.index, k)))
  BY DEF DeltasProved, ToolOpen, OpenIn, Opens, Closes
<1> QED
  BY <1>2, <1>3, <1>4, <1>5

(* What is open before an event depends on the events before it alone. *)
LEMMA OpenBefore ==
  ASSUME NEW l, NEW l2, NEW n \in Nat, \A j \in 1..n : l2[j] = l[j],
         NEW k \in 1..(n + 1), NEW i
  PROVE  OpenIn(l2, i, k) <=> OpenIn(l, i, k)
<1>1. \A j \in 1..(k - 1) :
        /\ l2[j] = l[j]
        /\ \A m \in (j + 1)..(k - 1) : l2[m] = l[m]
  OBVIOUS
<1> QED
  BY <1>1 DEF OpenIn

(* One event opens its index, closes it, or leaves it as it was. *)
LEMMA OpenAfter ==
  ASSUME NEW l, NEW l2, NEW n \in Nat, \A j \in 1..n : l2[j] = l[j], NEW i
  PROVE  OpenIn(l2, i, n + 2) <=>
           \/ Opens(l2[n + 1], i)
           \/ OpenIn(l, i, n + 1) /\ ~Closes(l2[n + 1], i)
<1>1. ASSUME OpenIn(l2, i, n + 2)
      PROVE  \/ Opens(l2[n + 1], i)
             \/ OpenIn(l, i, n + 1) /\ ~Closes(l2[n + 1], i)
  <2>1. PICK j \in 1..(n + 1) :
          Opens(l2[j], i) /\ \A m \in (j + 1)..(n + 1) : ~Closes(l2[m], i)
    BY <1>1 DEF OpenIn
  <2>2. CASE j = n + 1
    BY <2>1, <2>2
  <2>3. CASE j # n + 1
    <3>1. /\ j \in 1..n /\ n + 1 \in (j + 1)..(n + 1)
          /\ \A m \in (j + 1)..n : m \in (j + 1)..(n + 1) /\ l2[m] = l[m]
      BY <2>3
    <3>2. OpenIn(l, i, n + 1)
      <4>1. Opens(l[j], i) /\ \A m \in (j + 1)..n : ~Closes(l[m], i)
        BY <2>1, <3>1
      <4> QED
        BY <3>1, <4>1 DEF OpenIn
    <3> QED
      BY <2>1, <3>1, <3>2
  <2> QED
    BY <2>2, <2>3
<1>2. ASSUME Opens(l2[n + 1], i)
      PROVE  OpenIn(l2, i, n + 2)
  <2>1. n + 1 \in 1..(n + 1) /\ (n + 2)..(n + 1) = {}
    OBVIOUS
  <2> QED
    BY <1>2, <2>1 DEF OpenIn
<1>3. ASSUME OpenIn(l, i, n + 1), ~Closes(l2[n + 1], i)
      PROVE  OpenIn(l2, i, n + 2)
  <2>1. PICK j \in 1..n :
          Opens(l[j], i) /\ \A m \in (j + 1)..n : ~Closes(l[m], i)
    BY <1>3 DEF OpenIn
  <2>2. Opens(l2[j], i)
    BY <2>1
  <2>3. ASSUME NEW m \in (j + 1)..(n + 1)
        PROVE  ~Closes(l2[m], i)
    <3>1. m = n + 1 \/ (m \in (j + 1)..n /\ m \in 1..n)
      OBVIOUS
    <3> QED
      BY <1>3, <2>1, <3>1
  <2> QED
    BY <2>2, <2>3 DEF OpenIn
<1> QED
  BY <1>1, <1>2, <1>3

(* The reader marks what it reads. *)
LEMMA ReadStreamKeeps == GuardInv /\ ReadStream => GuardInv'
<1> SUFFICES ASSUME GuardInv, ReadStream PROVE GuardInv'
  OBVIOUS
<1>1. GuardTypeOK /\ IndexesTrue /\ DeltasProved
  BY DEF GuardInv
<1>2. PICK e \in StreamEvents :
        /\ log' = Append(log, [event |-> e, violation |-> StreamViolation(e)])
        /\ indexes' = IndexesAfter(e)
  BY DEF ReadStream
<1> DEFINE r == [event |-> e, violation |-> StreamViolation(e)]
<1>3. /\ message' = NoMessage /\ UNCHANGED <<turn, claimed>>
      /\ log' = Append(log, r)
  BY <1>2 DEF ReadStream
<1>4. StreamViolation(e) \in BOOLEAN
  BY DEF StreamViolation, ServerUse, NamedUse, InputDelta, Plain
<1>5. /\ r \in [event : StreamEvents, violation : BOOLEAN]
      /\ r.event = e /\ r.violation = StreamViolation(e)
  BY <1>4
<1>6. /\ log \in Seq([event : StreamEvents, violation : BOOLEAN])
      /\ log' \in Seq([event : StreamEvents, violation : BOOLEAN])
      /\ Len(log) \in Nat /\ Len(log') = Len(log) + 1
      /\ DOMAIN log = 1..Len(log) /\ DOMAIN log' = 1..(Len(log) + 1)
      /\ log'[Len(log) + 1] = r /\ \A k \in 1..Len(log) : log'[k] = log[k]
  <2>1. log \in Seq([event : StreamEvents, violation : BOOLEAN])
    BY <1>1 DEF GuardTypeOK
  <2> HIDE DEF r
  <2>2. /\ log' \in Seq([event : StreamEvents, violation : BOOLEAN])
        /\ Len(log') = Len(log) + 1 /\ log'[Len(log) + 1] = r
        /\ \A k \in 1..Len(log) : log'[k] = log[k]
    BY <1>3, <1>5, <2>1, AppendProperties
  <2>3. /\ Len(log) \in Nat /\ DOMAIN log = 1..Len(log)
        /\ DOMAIN log' = 1..Len(log')
    BY <2>1, <2>2, LenProperties
  <2> QED
    BY <2>1, <2>2, <2>3
<1> HIDE DEF r
<1>7. \A i \in Indexes : indexes'[i] <=>
        \/ NamedUse(e) /\ e.name \in Tools /\ e.index = i
        \/ indexes[i] /\ ~(Stops(e) /\ e.index = i)
  <2>1. indexes \in [Indexes -> BOOLEAN]
    BY <1>1 DEF GuardTypeOK
  <2>2. NamedUse(e) => ~Stops(e)
    BY DEF Stops, Plain
  <2>3. CASE NamedUse(e) /\ e.name \in Tools /\ e.index \in Indexes
    <3>1. indexes' = [indexes EXCEPT ![e.index] = TRUE]
      BY <1>2, <2>2, <2>3 DEF IndexesAfter
    <3>2. \A i \in Indexes :
            indexes'[i] = IF i = e.index THEN TRUE ELSE indexes[i]
      BY <2>1, <3>1
    <3> QED
      BY <2>2, <2>3, <3>2
  <2>4. CASE /\ ~(NamedUse(e) /\ e.name \in Tools /\ e.index \in Indexes)
             /\ Stops(e)
    <3>1. indexes' = [indexes EXCEPT ![e.index] = FALSE]
      BY <1>2, <2>4 DEF IndexesAfter
    <3> QED
      BY <2>1, <2>4, <3>1
  <2>5. CASE /\ ~(NamedUse(e) /\ e.name \in Tools /\ e.index \in Indexes)
             /\ ~Stops(e)
    <3>1. indexes' = indexes
      BY <1>2, <2>5 DEF IndexesAfter
    <3> QED
      BY <2>1, <2>5, <3>1
  <2> QED
    BY <2>3, <2>4, <2>5
<1>8. IndexesTrue'
  <2> SUFFICES ASSUME NEW i \in Indexes
               PROVE  indexes'[i] <=> OpenIn(log', i, Len(log) + 2)
    BY <1>6, ToolOpenIn
  <2>1. OpenIn(log', i, Len(log) + 2) <=>
          \/ Opens(r, i)
          \/ OpenIn(log, i, Len(log) + 1) /\ ~Closes(r, i)
    BY <1>6, OpenAfter
  <2>2. NamedUse(e) => (StreamViolation(e) <=> e.name \notin Tools)
    BY NamedUseVerdict
  <2>3. indexes[i] <=> OpenIn(log, i, Len(log) + 1)
    BY <1>1, ToolOpenIn
  <2> QED
    BY <1>5, <1>7, <2>1, <2>2, <2>3 DEF Opens, Closes
<1>9. DeltasProved'
  <2> SUFFICES ASSUME NEW k \in 1..(Len(log) + 1), InputDelta(log'[k].event)
               PROVE  log'[k].violation <=>
                        ~(/\ log'[k].event.index \in Indexes
                          /\ OpenIn(log', log'[k].event.index, k))
    BY <1>6, ToolOpenIn
  <2>1. \A i : OpenIn(log', i, k) <=> OpenIn(log, i, k)
    BY <1>6, OpenBefore
  <2>2. CASE k \in 1..Len(log)
    BY <1>1, <1>6, <2>1, <2>2, ToolOpenIn
  <2>3. CASE k = Len(log) + 1
    <3>1. log'[k].event = e /\ log'[k].violation = StreamViolation(e)
      BY <1>5, <1>6, <2>3
    <3>2. InputDelta(e)
      BY <3>1
    <3>3. StreamViolation(e) <=> (e.index = NoIndex \/ ~indexes[e.index])
      BY <3>2 DEF InputDelta, StreamViolation, ServerUse, NamedUse, Plain
    <3>4. e.index \in Indexes \cup {NoIndex} /\ NoIndex \notin Indexes
      BY GuardAssumption DEF StreamEvents
    <3>5. CASE e.index = NoIndex
      BY <3>1, <3>3, <3>4, <3>5
    <3>6. CASE e.index \in Indexes
      <4>1. indexes[e.index] <=> OpenIn(log, e.index, k)
        BY <1>1, <2>3, <3>6, ToolOpenIn
      <4> QED
        BY <2>1, <3>1, <3>3, <3>4, <3>6, <4>1
    <3> QED
      BY <3>4, <3>5, <3>6
  <2> QED
    BY <1>6, <2>2, <2>3
<1>10. GuardTypeOK'
  <2>1. indexes' \in [Indexes -> BOOLEAN]
    BY <1>1, <1>2 DEF GuardTypeOK, IndexesAfter
  <2> QED
    BY <1>1, <1>3, <1>6, <2>1 DEF GuardTypeOK, NoMessage
<1>11. NoUnlistedToolIsPublic'
  BY <1>3 DEF NoUnlistedToolIsPublic, NoMessage
<1> QED
  BY <1>8, <1>9, <1>10, <1>11 DEF GuardInv

(* A message becomes public past both looks at its blocks. *)
LEMMA ReadMessageKeeps == GuardInv /\ ReadMessage => GuardInv'
<1> SUFFICES ASSUME GuardInv, ReadMessage PROVE GuardInv'
  OBVIOUS
<1>1. PICK flag \in Flags, n \in 0..(ScanLimit + 1) :
        \E blocks \in [1..n -> Blocks] :
          message' =
            [blocks |-> blocks,
             fate |-> IF MessageViolation(flag, blocks) THEN "violation" ELSE
                      IF Unlisted(blocks) THEN "unlisted" ELSE "public"]
  BY DEF ReadMessage
<1>2. PICK blocks \in [1..n -> Blocks] :
        message' =
          [blocks |-> blocks,
           fate |-> IF MessageViolation(flag, blocks) THEN "violation" ELSE
                    IF Unlisted(blocks) THEN "unlisted" ELSE "public"]
  BY <1>1
<1> DEFINE fate == IF MessageViolation(flag, blocks) THEN "violation" ELSE
                   IF Unlisted(blocks) THEN "unlisted" ELSE "public"
<1>A. /\ fate \in {"violation", "unlisted", "public"}
      /\ fate # "violation" => ~MessageViolation(flag, blocks)
      /\ fate = "public" => ~Unlisted(blocks)
  OBVIOUS
<1>B. message' = [blocks |-> blocks, fate |-> fate]
  BY <1>2
<1> HIDE DEF fate
<1>3. /\ message'.blocks = blocks
      /\ message'.fate \in {"violation", "unlisted", "public"}
      /\ message'.fate # "violation" => ~MessageViolation(flag, blocks)
      /\ message'.fate = "public" => ~Unlisted(blocks)
  BY <1>A, <1>B
<1>4. UNCHANGED <<indexes, turn, claimed, log>>
  BY DEF ReadMessage
<1>5. GuardTypeOK' /\ IndexesTrue' /\ DeltasProved'
  BY <1>3, <1>4 DEF GuardInv, GuardTypeOK, IndexesTrue, DeltasProved,
     ToolOpen
<1>6. \A i \in DOMAIN blocks : blocks[i] \in Blocks
  OBVIOUS
<1>7. \A b \in Blocks :
        ~NativeBlock(b) =>
          b.kind = "text" \/ (b.name \in Tools /\ b.kind # "server")
  BY DEF Blocks, NativeBlock
<1>8. NoUnlistedToolIsPublic'
  <2>1. message'.fate = "public" =>
          \A i \in DOMAIN blocks :
            blocks[i].kind = "tool_use" => blocks[i].name \in Tools
    BY <1>3 DEF Unlisted
  <2>2. message'.fate \in {"public", "unlisted"} =>
          \A i \in Scanned(blocks) : ~NativeBlock(blocks[i])
    BY <1>3 DEF MessageViolation
  <2>3. \A i \in Scanned(blocks) : blocks[i] \in Blocks
    BY <1>6 DEF Scanned
  <2> QED
    BY <1>3, <1>7, <2>1, <2>2, <2>3 DEF NoUnlistedToolIsPublic, Scanned
<1> QED
  BY <1>5, <1>8 DEF GuardInv

(* A turn begins and ends with no index marked and nothing in its log. *)
LEMMA GuardCleared ==
  ASSUME GuardInv, indexes' = [i \in Indexes |-> FALSE], log' = <<>>,
         message' = message, turn' \in 0..MaxTurns, claimed' \in BOOLEAN
  PROVE  GuardInv'
<1>1. GuardTypeOK'
  BY DEF GuardInv, GuardTypeOK
<1>2. IndexesTrue'
  BY DEF IndexesTrue, ToolOpen
<1>3. DeltasProved' /\ NoUnlistedToolIsPublic'
  BY DEF GuardInv, DeltasProved, NoUnlistedToolIsPublic
<1> QED
  BY <1>1, <1>2, <1>3 DEF GuardInv

(* The invariant of the guard. *)
LEMMA GuardIsInvariant == GuardSpec => []GuardInv
<1>1. GuardInit => GuardInv
  <2> SUFFICES ASSUME GuardInit PROVE GuardInv
    OBVIOUS
  <2>1. GuardTypeOK
    <3>1. log \in Seq([event : StreamEvents, violation : BOOLEAN])
      BY EmptySeq DEF GuardInit
    <3>2. message.fate = "none"
      BY DEF GuardInit, NoMessage
    <3>3. turn \in 0..MaxTurns /\ indexes \in [Indexes -> BOOLEAN]
      BY GuardAssumption DEF GuardInit
    <3> QED
      BY <3>1, <3>2, <3>3 DEF GuardInit, GuardTypeOK
  <2>2. IndexesTrue /\ DeltasProved
    BY DEF GuardInit, IndexesTrue, ToolOpen, DeltasProved
  <2>3. NoUnlistedToolIsPublic
    BY DEF GuardInit, NoUnlistedToolIsPublic, NoMessage
  <2> QED
    BY <2>1, <2>2, <2>3 DEF GuardInv
<1>2. GuardInv /\ [GuardNext]_guardVars => GuardInv'
  <2> SUFFICES ASSUME GuardInv, [GuardNext]_guardVars PROVE GuardInv'
    OBVIOUS
  <2>1. CASE Claim
    <3>1. turn' \in 0..MaxTurns
      BY <2>1, GuardAssumption DEF Claim, GuardInv, GuardTypeOK
    <3> QED
      BY <2>1, <3>1, GuardCleared DEF Claim
  <2>2. CASE Finish
    <3>1. turn' \in 0..MaxTurns
      BY <2>2 DEF Finish, GuardInv, GuardTypeOK
    <3> QED
      BY <2>2, <3>1, GuardCleared DEF Finish
  <2>3. CASE ReadStream
    BY <2>3, ReadStreamKeeps
  <2>4. CASE ReadMessage
    BY <2>4, ReadMessageKeeps
  <2>5. CASE UNCHANGED guardVars
    BY <2>5 DEF guardVars, GuardInv, GuardTypeOK, IndexesTrue, ToolOpen,
       DeltasProved, NoUnlistedToolIsPublic
  <2> QED
    BY <2>1, <2>2, <2>3, <2>4, <2>5 DEF GuardNext
<1> QED
  BY <1>1, <1>2, PTL DEF GuardSpec

(* What the SDK shows of a turn is guarded: an input delta passes exactly  *)
(* when an allowed tool is open at its index, however the events of blocks *)
(* and turns follow each other, and no message with a tool outside the     *)
(* allowlist becomes public (content_events.py).                           *)
THEOREM StreamGuarded == GuardSpec => []StreamIsGuarded
<1>1. GuardInv => StreamIsGuarded
  BY DEF GuardInv, StreamIsGuarded
<1> QED
  BY <1>1, GuardIsInvariant, PTL
-----------------------------------------------------------------------------
(* The billing policy.                                                     *)

(* While the turn is open a sign of paid usage was seen only together with *)
(* a malformed field.                                                      *)
OpenIsUnpaid == billing = "open" => (paid => masked)

BillingInv ==
  /\ BillingTypeOK /\ paid \in BOOLEAN /\ masked \in BOOLEAN
  /\ childEnv \in Environments
  /\ OpenIsUnpaid /\ CompletedIsUnpaid

(* Merging keeps evidence evidence. *)
LEMMA MergedEvidence ==
  ASSUME NEW old \in SDKBillingEvidence, NEW new \in Extracted
  PROVE  MergeEvidence(old, new) \in SDKBillingEvidence
<1>1. new \in SDKBillingEvidence
  <2>1. NoEvidence \in SDKBillingEvidence
    BY DEF NoEvidence, SDKBillingEvidence, Sources, Overages, Statuses,
       RateTypes
  <2>2. \A s \in Sources : InitEvidence(s) \in SDKBillingEvidence
    BY <2>1 DEF InitEvidence, SDKBillingEvidence
  <2>3. InitUnreadable \in SDKBillingEvidence
    BY <2>1 DEF InitUnreadable, SDKBillingEvidence
  <2>4. \A o \in Overages, s \in Statuses, r \in RateTypes, b \in BOOLEAN :
          RateEvidence(o, s, r, b) \in SDKBillingEvidence
    BY DEF RateEvidence, SDKBillingEvidence, Sources
  <2> QED
    BY <2>2, <2>3, <2>4 DEF Extracted
<1> QED
  BY <1>1 DEF MergeEvidence, SDKBillingEvidence, Latest

(* Evidence of paid usage blocks the turn at once, unless it is malformed. *)
LEMMA PaidBlocks ==
  ASSUME NEW e \in SDKBillingEvidence, PaidUsage(e), ~MalformedFields(e)
  PROVE  Immediate(e)
  BY DEF SDKBillingEvidence, Sources, Overages, Statuses, RateTypes,
     PaidUsage, MalformedFields, Immediate, Classify

(* Malformed evidence is never included. *)
LEMMA IncludedIsSound ==
  ASSUME NEW e, Classify(e) = "included"
  PROVE  ~MalformedFields(e)
  BY DEF Classify

(* The plan leaves no metered vector, whatever it is laid over. *)
LEMMA ChildEnvironment == childEnv \in Environments => ChildIsUnmetered
<1> SUFFICES ASSUME childEnv \in Environments PROVE ChildIsUnmetered
  OBVIOUS
<1>1. /\ childEnv.parent \in [Denied \cup Knobs -> ParentValues]
      /\ childEnv.configured \in [Denied \cup Knobs -> ConfiguredValues]
  BY DEF Environments
<1> DEFINE plan == PlanOverrides(childEnv.parent, childEnv.configured)
<1>2. \A key \in Denied :
        plan[key] = IF MeteredValue(key, childEnv.parent[key])
                    THEN "empty" ELSE "absent"
  BY DEF PlanOverrides, Configurable, Denied
<1>3. /\ plan["REFUSAL_FALLBACK"] = "disabled"
      /\ plan["secretish"] = "absent"
  BY DEF PlanOverrides, Configurable, Denied, Knobs, MeteredValue
<1>4. \A key : ChildValue(key) =
        IF plan[key] # "absent" THEN plan[key] ELSE childEnv.parent[key]
  BY DEF ChildValue, Latest
<1>5. childEnv.parent["secretish"] # "knob"
  BY <1>1 DEF Knobs, ParentValues
<1> HIDE DEF plan
<1>6. \A key \in Denied : ~MeteredValue(key, ChildValue(key))
  BY <1>2, <1>4 DEF MeteredValue
<1>7. childEnv.parent["ANTHROPIC_TOKEN"] = "oauth" =>
        ChildValue("ANTHROPIC_TOKEN") = "oauth"
  BY <1>2, <1>4 DEF MeteredValue, Denied
<1> QED
  BY <1>3, <1>4, <1>5, <1>6, <1>7 DEF ChildIsUnmetered

(* A message before the result is merged into the evidence. *)
LEMMA BillingUpdateKeeps == BillingInv /\ BillingUpdate => BillingInv'
<1> SUFFICES ASSUME BillingInv, BillingUpdate PROVE BillingInv'
  OBVIOUS
<1>1. PICK update \in Extracted :
        LET merged == MergeEvidence(evidence, update) IN
        /\ evidence' = merged
        /\ billing' = IF Immediate(merged) THEN "blocked" ELSE "open"
        /\ paid' = (paid \/ PaidUsage(merged))
        /\ masked' = (\/ masked
                      \/ PaidUsage(merged) /\ MalformedFields(merged))
  BY DEF BillingUpdate
<1>2. evidence' \in SDKBillingEvidence
  BY <1>1, MergedEvidence DEF BillingInv, BillingTypeOK
<1>3. /\ billing = "open" /\ updates < MaxUpdates /\ updates' = updates + 1
      /\ UNCHANGED childEnv
  BY DEF BillingUpdate
<1>4. /\ billing' = IF Immediate(evidence') THEN "blocked" ELSE "open"
      /\ paid' = (paid \/ PaidUsage(evidence'))
      /\ masked' = (\/ masked
                    \/ PaidUsage(evidence') /\ MalformedFields(evidence'))
  BY <1>1
<1>5. BillingTypeOK'
  BY <1>2, <1>3, <1>4, BillingAssumption DEF BillingInv, BillingTypeOK
<1>6. paid' \in BOOLEAN /\ masked' \in BOOLEAN
  BY <1>4 DEF BillingInv, PaidUsage, MalformedFields
<1>7. OpenIsUnpaid'
  <2>1. PaidUsage(evidence') /\ ~MalformedFields(evidence') =>
          billing' = "blocked"
    BY <1>2, <1>4, PaidBlocks
  <2>2. paid => masked
    BY <1>3 DEF BillingInv, OpenIsUnpaid
  <2> QED
    BY <1>4, <2>1, <2>2 DEF OpenIsUnpaid
<1>8. CompletedIsUnpaid'
  BY <1>4 DEF CompletedIsUnpaid
<1> QED
  BY <1>3, <1>5, <1>6, <1>7, <1>8 DEF BillingInv

(* The invariant of the billing policy. *)
LEMMA BillingIsInvariant == BillingSpec => []BillingInv
<1>1. BillingInit /\ childEnv \in Environments => BillingInv
  <2> SUFFICES ASSUME BillingInit, childEnv \in Environments
               PROVE  BillingInv
    OBVIOUS
  <2>1. evidence \in SDKBillingEvidence
    BY DEF BillingInit, NoEvidence, SDKBillingEvidence, Sources, Overages,
       Statuses, RateTypes
  <2>2. updates \in 0..MaxUpdates
    BY BillingAssumption DEF BillingInit
  <2> QED
    BY <2>1, <2>2 DEF BillingInit, BillingInv, BillingTypeOK, OpenIsUnpaid,
       CompletedIsUnpaid
<1>2. BillingInv /\ [BillingNext]_billingVars => BillingInv'
  <2> SUFFICES ASSUME BillingInv, [BillingNext]_billingVars
               PROVE  BillingInv'
    OBVIOUS
  <2>1. CASE BillingUpdate
    BY <2>1, BillingUpdateKeeps
  <2>2. CASE BillingResult
    <3>1. Classify(evidence) = "included" => ~evidence.malformed
      BY IncludedIsSound DEF MalformedFields
    <3>2. /\ billing = "open"
          /\ billing' = IF Classify(evidence) = "included"
                        THEN "completed" ELSE "blocked"
          /\ UNCHANGED <<evidence, updates, paid, masked, childEnv>>
      BY <2>2 DEF BillingResult
    <3> QED
      BY <3>1, <3>2 DEF BillingInv, BillingTypeOK, OpenIsUnpaid,
         CompletedIsUnpaid
  <2>3. CASE UNCHANGED billingVars
    BY <2>3 DEF billingVars, BillingInv, BillingTypeOK, OpenIsUnpaid,
       CompletedIsUnpaid
  <2> QED
    BY <2>1, <2>2, <2>3 DEF BillingNext
<1> QED
  BY <1>1, <1>2, PTL DEF BillingSpec

(* Neither a turn that completes nor the child it runs in can be metered:  *)
(* whatever fields the messages update and in which order (billing.py).    *)
THEOREM NothingPaid == BillingSpec => []NothingIsPaid
<1>1. BillingInv => NothingIsPaid
  BY ChildEnvironment DEF BillingInv, NothingIsPaid
<1> QED
  BY <1>1, BillingIsInvariant, PTL
-----------------------------------------------------------------------------
(* The authentication probe.                                               *)

(* The probe has read no more than was written and allowed while it reads, *)
(* and everything once it waits: the child cannot write any more.          *)
Reading ==
  /\ auth = "resolve" => child = "none" /\ output = 0 /\ written = 0
  /\ auth \in {"reading", "waiting"} => output <= written
  /\ auth \in {"reading", "waiting"} => output <= OutputLimit
  /\ auth = "waiting" => output = written /\ child \in {"closed", "gone"}

AuthInv ==
  AuthTypeOK /\ status \in StatusPayloads /\ Reading /\ ProbeIsWhole

(* A subscription is the answer to one status only. *)
LEMMA SubscriptionStatus ==
  ASSUME NEW s \in StatusPayloads, ParseAuthStatus(s) = "subscription_oauth"
  PROVE  /\ s.json /\ s.loggedIn = "yes" /\ s.method = "oauth"
         /\ s.provider = "first" /\ s.plan = "subscription"
  BY DEF StatusPayloads, ParseAuthStatus

(* The answers of the parser are categories, none of them of the probe.    *)
LEMMA ParsedStatus ==
  ASSUME NEW s
  PROVE  ParseAuthStatus(s) \notin {"none", "probe_failed"}
  BY DEF ParseAuthStatus

(* The probe reads, waits, kills or decides. *)
LEMMA ProbeStepKeeps == AuthInv /\ ProbeStep => AuthInv'
<1> SUFFICES ASSUME AuthInv, ProbeStep PROVE AuthInv'
  OBVIOUS
<1> USE AuthAssumption DEF AuthInv, AuthTypeOK, Reading, ProbeIsWhole,
      AllowedIsWhole, NoChildLeft, Return
<1>1. CASE CliMissing
  BY <1>1 DEF CliMissing
<1>2. CASE Spawn
  BY <1>2 DEF Spawn
<1>3. CASE SpawnFails
  BY <1>3 DEF SpawnFails
<1>4. CASE ReadChunk
  BY <1>4 DEF ReadChunk, Exceeds
<1>5. CASE ReadEnd
  BY <1>5 DEF ReadEnd
<1>6. CASE Deadline
  BY <1>6 DEF Deadline
<1>7. CASE ReadFails
  BY <1>7 DEF ReadFails
<1>8. CASE Exit
  <2>1. ParseAuthStatus(status) \notin {"none", "probe_failed"}
    BY ParsedStatus
  <2>2. ParseAuthStatus(status) = "subscription_oauth" =>
          /\ status.json /\ status.loggedIn = "yes"
          /\ status.method = "oauth" /\ status.provider = "first"
          /\ status.plan = "subscription"
    BY SubscriptionStatus
  <2> QED
    BY <1>8, <2>1, <2>2 DEF Exit
<1> QED
  BY <1>1, <1>2, <1>3, <1>4, <1>5, <1>6, <1>7, <1>8 DEF ProbeStep

(* The child writes, closes its output or ends. *)
LEMMA ChildStepKeeps == AuthInv /\ ChildStep => AuthInv'
<1> SUFFICES ASSUME AuthInv, ChildStep PROVE AuthInv'
  OBVIOUS
<1> USE AuthAssumption DEF AuthInv, AuthTypeOK, Reading, ProbeIsWhole,
      AllowedIsWhole, NoChildLeft
<1>1. CASE ChildWrites
  BY <1>1 DEF ChildWrites
<1>2. CASE ChildCloses
  BY <1>2 DEF ChildCloses
<1>3. CASE ChildExits
  BY <1>3 DEF ChildExits
<1> QED
  BY <1>1, <1>2, <1>3 DEF ChildStep

(* The invariant of the probe. *)
LEMMA AuthIsInvariant == AuthSpec => []AuthInv
<1>1. AuthInit /\ status \in StatusPayloads => AuthInv
  BY AuthAssumption DEF AuthInit, AuthInv, AuthTypeOK, Reading, ProbeIsWhole,
     AllowedIsWhole, NoChildLeft
<1>2. AuthInv /\ [AuthNext]_authVars => AuthInv'
  <2>1. AuthInv /\ UNCHANGED authVars => AuthInv'
    BY DEF authVars, AuthInv, AuthTypeOK, Reading, ProbeIsWhole,
       AllowedIsWhole, NoChildLeft
  <2> QED
    BY <2>1, ProbeStepKeeps, ChildStepKeeps DEF AuthNext
<1> QED
  BY <1>1, <1>2, PTL DEF AuthSpec

(* The probe reports a subscription only for a status that was read whole, *)
(* within the budget, of a child that ended by itself with code 0; and it  *)
(* leaves no child but where reading raised, for any budget and any child  *)
(* (auth.py).                                                              *)
THEOREM ProbeWhole == AuthSpec => []ProbeIsWhole
<1>1. AuthInv => ProbeIsWhole
  BY DEF AuthInv
<1> QED
  BY <1>1, AuthIsInvariant, PTL

-----------------------------------------------------------------------------
(* Folds.  The library's fold is a function on the sets of indexes that    *)
(* takes the largest one off; what it does to the prefixes of a sequence   *)
(* is the induction that follows.                                          *)

(* Induction over the natural numbers, for a set. *)
LEMMA NatSet ==
  ASSUME NEW S, 0 \in S, \A n \in Nat : n \in S => n + 1 \in S
  PROVE  Nat \subseteq S
<1> DEFINE T == Nat \ S
           R == OpToRel(<, Nat)
<1> SUFFICES ASSUME T # {} PROVE FALSE
  OBVIOUS
<1>1. \A x, y \in Nat : y < x => <<y, x>> \in R
  BY DEF OpToRel
<1>2. PICK x \in T : \A y \in T : ~(<<y, x>> \in R)
  BY NatLessThanWellFounded, WFMin
<1> HIDE DEF R
<1>3. x \in Nat /\ x # 0
  OBVIOUS
<1>4. x - 1 \in Nat /\ x - 1 < x /\ (x - 1) + 1 = x
  BY <1>3
<1>5. x - 1 \notin T
  BY <1>1, <1>2, <1>3, <1>4
<1> QED
  BY <1>3, <1>4, <1>5

(* The largest of the first indexes is the last one. *)
LEMMA TopIs ==
  ASSUME NEW n \in Nat, NEW s \in SUBSET (1..(n + 1)), n + 1 \in s
  PROVE  Max(s) = n + 1 /\ s \ {n + 1} \in SUBSET (1..n)
<1>1. \A y \in s : n + 1 >= y
  OBVIOUS
<1>2. \A x \in s : (\A y \in s : x >= y) => x = n + 1
  OBVIOUS
<1>3. Max(s) = n + 1
  BY <1>1, <1>2 DEF Max
<1>4. \A y \in s \ {n + 1} : y \in 1..n
  OBVIOUS
<1> QED
  BY <1>3, <1>4

(* The largest of some indexes is one of them. *)
LEMMA MaxIsIn ==
  ASSUME NEW n \in Nat
  PROVE  \A s \in SUBSET (1..n) : s # {} => Max(s) \in s
<1> DEFINE Good(k) == \A s \in SUBSET (1..k) : s # {} => Max(s) \in s
           S == {k \in Nat : Good(k)}
<1>1. 0 \in S
  <2>1. 1..0 = {}
    OBVIOUS
  <2> QED
    BY <2>1
<1>2. ASSUME NEW k \in Nat, k \in S
      PROVE  k + 1 \in S
  <2> SUFFICES ASSUME NEW s \in SUBSET (1..(k + 1)), s # {}
               PROVE  Max(s) \in s
    OBVIOUS
  <2>1. CASE k + 1 \in s
    BY <2>1, TopIs
  <2>2. CASE k + 1 \notin s
    <3>1. s \in SUBSET (1..k)
      BY <2>2
    <3> QED
      BY <1>2, <3>1
  <2> QED
    BY <2>1, <2>2
<1> HIDE DEF S
<1>3. Nat \subseteq S
  BY <1>1, <1>2, NatSet
<1>4. Good(n)
  BY <1>3 DEF S
<1> QED
  BY <1>4

(* F takes the largest index off; a is what it makes of no index.          *)
Peels(F, a, N, g) ==
  \A s \in SUBSET (1..N) :
    F[s] = IF s = {} THEN a ELSE g[<<F[s \ {Max(s)}], Max(s)>>]
(* The same of a function that may do anything outside A. *)
PeelsIn(F, A, a, N, g) ==
  /\ F[{}] = a
  /\ \A s \in SUBSET (1..N) :
       s # {} /\ F[s \ {Max(s)}] \in A =>
         F[s] = g[<<F[s \ {Max(s)}], Max(s)>>]
(* Step by step: f is what becomes of the prefixes. *)
Steps(f, a, N, g) ==
  f[0] = a /\ \A k \in 1..N : f[k] = g[<<f[k - 1], k>>]

(* A function that takes the largest index off exists. *)
LEMMA FoldExists ==
  ASSUME NEW A, NEW a \in A, NEW N \in Nat, NEW g \in [A \X (1..N) -> A]
  PROVE  \E F \in [SUBSET (1..N) -> A] : Peels(F, a, N, g)
<1> DEFINE Folds(F, n) ==
             \A s \in SUBSET (1..n) :
               F[s] = IF s = {} THEN a ELSE g[<<F[s \ {Max(s)}], Max(s)>>]
           Good(n) == n <= N => \E F \in [SUBSET (1..n) -> A] : Folds(F, n)
           S == {n \in Nat : Good(n)}
<1>1. 0 \in S
  <2>1. [s \in SUBSET (1..0) |-> a] \in [SUBSET (1..0) -> A]
    OBVIOUS
  <2>2. \A s \in SUBSET (1..0) : s = {}
    OBVIOUS
  <2>3. Folds([s \in SUBSET (1..0) |-> a], 0)
    BY <2>2
  <2> QED
    BY <2>1, <2>3
<1>2. ASSUME NEW n \in Nat, n \in S
      PROVE  n + 1 \in S
  <2> HIDE DEF Good
  <2>0. Good(n)
    BY <1>2
  <2> SUFFICES Good(n + 1)
    OBVIOUS
  <2> USE DEF Good
  <2> SUFFICES ASSUME n + 1 <= N
               PROVE  \E F \in [SUBSET (1..(n + 1)) -> A] : Folds(F, n + 1)
    BY Zenon
  <2>1. n <= N /\ n + 1 \in 1..N
    OBVIOUS
  <2>2. PICK F \in [SUBSET (1..n) -> A] : Folds(F, n)
    BY <2>0, <2>1
  <2> DEFINE G == [s \in SUBSET (1..(n + 1)) |->
                     IF n + 1 \in s THEN g[<<F[s \ {n + 1}], n + 1>>]
                                    ELSE F[s]]
  <2>3. \A s \in SUBSET (1..(n + 1)) : n + 1 \notin s =>
          s \in SUBSET (1..n)
    OBVIOUS
  <2>4. \A s \in SUBSET (1..(n + 1)) : n + 1 \in s =>
          /\ s \ {n + 1} \in SUBSET (1..n) /\ Max(s) = n + 1
    BY TopIs
  <2>5. G \in [SUBSET (1..(n + 1)) -> A]
    <3>1. ASSUME NEW s \in SUBSET (1..(n + 1)) PROVE G[s] \in A
      <4>1. CASE n + 1 \in s
        <5>1. F[s \ {n + 1}] \in A
          BY <2>4, <4>1
        <5>2. g[<<F[s \ {n + 1}], n + 1>>] \in A
          BY <2>1, <5>1
        <5> QED
          BY <4>1, <5>2
      <4>2. CASE n + 1 \notin s
        BY <2>3, <4>2
      <4> QED
        BY <4>1, <4>2
    <3> QED
      BY <3>1
  <2>6. \A s \in SUBSET (1..n) :
          s \in SUBSET (1..(n + 1)) /\ n + 1 \notin s /\ G[s] = F[s]
    OBVIOUS
  <2>7. ASSUME NEW s \in SUBSET (1..(n + 1))
        PROVE  G[s] = IF s = {} THEN a
                      ELSE g[<<G[s \ {Max(s)}], Max(s)>>]
    <3>1. CASE n + 1 \in s
      <4>1. /\ s \ {n + 1} \in SUBSET (1..n) /\ Max(s) = n + 1 /\ s # {}
        BY <2>4, <3>1
      <4>2. G[s \ {n + 1}] = F[s \ {n + 1}]
        BY <2>6, <4>1
      <4>3. G[s] = g[<<F[s \ {n + 1}], n + 1>>]
        BY <3>1
      <4> HIDE DEF G
      <4> QED
        BY <4>1, <4>2, <4>3
    <3>2. CASE n + 1 \notin s
      <4>1. s \in SUBSET (1..n) /\ s \ {Max(s)} \in SUBSET (1..n)
        BY <2>3, <3>2
      <4>2. G[s] = F[s] /\ G[s \ {Max(s)}] = F[s \ {Max(s)}]
        BY <2>6, <4>1
      <4>3. F[s] = IF s = {} THEN a ELSE g[<<F[s \ {Max(s)}], Max(s)>>]
        BY <2>2, <4>1
      <4> HIDE DEF G
      <4> QED
        BY <4>2, <4>3
    <3> QED
      BY <3>1, <3>2
  <2> HIDE DEF G
  <2>8. Folds(G, n + 1)
    BY <2>7
  <2> QED
    BY <2>5, <2>8
<1> HIDE DEF S
<1>3. Nat \subseteq S
  BY <1>1, <1>2, NatSet
<1> HIDE DEF Good
<1>4. Good(N)
  BY <1>3 DEF S
<1> HIDE DEF Folds
<1>5. \E F \in [SUBSET (1..N) -> A] : Folds(F, N)
  <2>1. N <= N
    OBVIOUS
  <2> QED
    BY <1>4, <2>1, Zenon DEF Good
<1> QED
  BY <1>5, Zenon DEF Folds, Peels

(* What such a function does to the prefixes. *)
LEMMA FoldChain ==
  ASSUME NEW A, NEW a \in A, NEW N \in Nat, NEW g \in [A \X (1..N) -> A],
         NEW it, PeelsIn(it, A, a, N, g)
  PROVE  \E f \in [0..N -> A] : f[N] = it[1..N] /\ Steps(f, a, N, g)
<1> DEFINE S == {n \in Nat : n <= N => it[1..n] \in A}
<1>1. ASSUME NEW n \in Nat, n + 1 <= N, it[1..n] \in A
      PROVE  /\ it[1..(n + 1)] = g[<<it[1..n], n + 1>>]
             /\ it[1..(n + 1)] \in A
  <2> DEFINE s == 1..(n + 1)
  <2>1. s \in SUBSET (1..N) /\ n + 1 \in s
    BY <1>1
  <2>2. Max(s) = n + 1
    BY <2>1, TopIs
  <2>3. s \ {n + 1} = 1..n
    OBVIOUS
  <2> HIDE DEF s
  <2>4. it[s] = g[<<it[1..n], n + 1>>]
    BY <1>1, <2>1, <2>2, <2>3 DEF PeelsIn
  <2>5. <<it[1..n], n + 1>> \in A \X (1..N)
    BY <1>1
  <2> QED
    BY <2>4, <2>5 DEF s
<1>2. 0 \in S
  <2>1. 1..0 = {}
    OBVIOUS
  <2> QED
    BY <2>1 DEF PeelsIn
<1>3. ASSUME NEW n \in Nat, n \in S PROVE n + 1 \in S
  <2> SUFFICES ASSUME n + 1 <= N PROVE it[1..(n + 1)] \in A
    OBVIOUS
  <2>1. it[1..n] \in A
    BY <1>3
  <2> QED
    BY <1>1, <2>1
<1> HIDE DEF S
<1>4. Nat \subseteq S
  BY <1>2, <1>3, NatSet
<1>5. \A n \in 0..N : it[1..n] \in A
  BY <1>4 DEF S
<1> DEFINE f == [n \in 0..N |-> it[1..n]]
<1>6. f \in [0..N -> A] /\ f[N] = it[1..N]
  BY <1>5
<1>7. f[0] = a
  <2>1. 1..0 = {} /\ 0 \in 0..N
    OBVIOUS
  <2> QED
    BY <2>1 DEF PeelsIn
<1>8. ASSUME NEW k \in 1..N PROVE f[k] = g[<<f[k - 1], k>>]
  <2>1. /\ k - 1 \in Nat /\ (k - 1) + 1 = k /\ k <= N
        /\ k - 1 \in 0..N /\ k \in 0..N
    OBVIOUS
  <2>2. it[1..((k - 1) + 1)] = g[<<it[1..(k - 1)], (k - 1) + 1>>]
    BY <1>1, <1>5, <2>1
  <2>3. f[k] = it[1..k] /\ f[k - 1] = it[1..(k - 1)]
    BY <2>1
  <2> HIDE DEF f
  <2> QED
    BY <2>1, <2>2, <2>3
<1> HIDE DEF f
<1> QED
  BY <1>6, <1>7, <1>8 DEF Steps

-----------------------------------------------------------------------------
(* The projector of the model.                                             *)
ProjectorSpec == ProjectorInit /\ [][ProjectorNext]_projectorVars

UsageStates ==
  [usage : [Models -> Models \cup {None, Unseen}], bad : BOOLEAN]

(* What the usage remembers of a set of entries, in whatever order they    *)
(* came: whole is whether a mapping as a whole was malformed.              *)
UsageTells(u, bad, whole, E) ==
  /\ \A m \in Models :
       /\ u[m] # Unseen => \E e \in E : e.model = m
       /\ u[m] \in Models => \E e \in E : e.model = m /\ e.canonical = u[m]
  /\ ~bad => /\ ~whole
             /\ \A e \in E :
                  /\ e.model # Bad /\ e.canonical # Bad
                  /\ u[e.model] # Unseen
                  /\ e.canonical \in Models => u[e.model] = e.canonical
  /\ bad => \/ whole
            \/ \E e \in E : Bad \in {e.model, e.canonical}
            \/ \E d, e \in E :
                 /\ d.model = e.model
                 /\ {d.canonical, e.canonical} \subseteq Models
                 /\ d.canonical # e.canonical

(* One more entry. *)
LEMMA EntryTells ==
  ASSUME NEW st \in UsageStates, NEW whole, NEW E \in SUBSET UsageEntries,
         UsageTells(st.usage, st.bad, whole, E), NEW e \in UsageEntries
  PROVE  /\ Entry(st, e) \in UsageStates
         /\ UsageTells(Entry(st, e).usage, Entry(st, e).bad, whole, E \cup {e})
<1> DEFINE u == st.usage
           known == u[e.model]
           clash == /\ known \in Models /\ e.canonical \in Models
                    /\ known # e.canonical
           after == IF e.canonical = None /\ known # Unseen
                    THEN known ELSE e.canonical
<1>1. /\ u \in [Models -> Models \cup {None, Unseen}] /\ st.bad \in BOOLEAN
      /\ e.model \in Models \cup {Bad}
      /\ e.canonical \in Models \cup {None, Bad}
  BY DEF UsageStates, UsageEntries
<1>2. /\ Bad \notin Models /\ None \notin Models /\ None # Bad
      /\ Unseen \notin Models \cup {None}
  BY ProjectorAssumption
<1>3. CASE e.model = Bad \/ e.canonical = Bad \/ clash
  <2>1. Entry(st, e) = [st EXCEPT !.bad = TRUE]
    BY <1>3 DEF Entry
  <2>2. /\ Entry(st, e) \in UsageStates
        /\ Entry(st, e).usage = u /\ Entry(st, e).bad = TRUE
    BY <2>1 DEF UsageStates
  <2>3. CASE e.model = Bad \/ e.canonical = Bad
    BY <2>2, <2>3 DEF UsageTells
  <2>4. CASE e.model # Bad /\ e.canonical # Bad /\ clash
    <3>1. e.model \in Models
      BY <1>1, <2>4
    <3>2. PICK d \in E : d.model = e.model /\ d.canonical = known
      BY <2>4, <3>1 DEF UsageTells
    <3>3. /\ d \in E \cup {e} /\ e \in E \cup {e} /\ d.model = e.model
          /\ {d.canonical, e.canonical} \subseteq Models
          /\ d.canonical # e.canonical
      BY <2>4, <3>2
    <3> HIDE DEF u, known
    <3> QED
      BY <2>2, <3>3 DEF UsageTells, u
  <2> QED
    BY <1>3, <2>2, <2>3, <2>4
<1>4. CASE ~(e.model = Bad \/ e.canonical = Bad \/ clash)
  <2>1. e.model \in Models /\ e.canonical \in Models \cup {None}
    BY <1>1, <1>4
  <2>2. Entry(st, e) = [st EXCEPT !.usage = [u EXCEPT ![e.model] = after]]
    BY <1>4 DEF Entry
  <2> DEFINE w == [u EXCEPT ![e.model] = after]
  <2>3. after \in Models \cup {None}
    BY <1>1, <2>1
  <2>4. /\ w \in [Models -> Models \cup {None, Unseen}]
        /\ w[e.model] = after
        /\ \A m \in Models : m # e.model => w[m] = u[m]
    BY <1>1, <2>1, <2>3
  <2> HIDE DEF w
  <2>5. /\ Entry(st, e) \in UsageStates
        /\ Entry(st, e).usage = w /\ Entry(st, e).bad = st.bad
    BY <1>1, <2>2, <2>4 DEF UsageStates, w
  <2>6. ASSUME NEW m \in Models
        PROVE  /\ w[m] # Unseen => \E d \in E \cup {e} : d.model = m
               /\ w[m] \in Models =>
                    \E d \in E \cup {e} : d.model = m /\ d.canonical = w[m]
    <3>1. CASE m # e.model
      BY <2>4, <3>1 DEF UsageTells
    <3>2. CASE m = e.model /\ after = e.canonical
      BY <2>4, <3>2
    <3>3. CASE m = e.model /\ after = known /\ known # Unseen
      BY <2>4, <3>3 DEF UsageTells
    <3> QED
      BY <3>1, <3>2, <3>3
  <2>7. ASSUME ~st.bad, NEW d \in E \cup {e}
        PROVE  /\ d.model # Bad /\ d.canonical # Bad
               /\ w[d.model] # Unseen
               /\ d.canonical \in Models => w[d.model] = d.canonical
    <3>1. CASE d = e
      <4>1. after # Unseen
        BY <1>2, <2>3
      <4>2. e.canonical \in Models => after = e.canonical
        BY <1>2
      <4> QED
        BY <1>4, <2>4, <3>1, <4>1, <4>2
    <3>2. CASE d # e
      <4>1. /\ d \in E /\ d.model # Bad /\ d.canonical # Bad
            /\ u[d.model] # Unseen
            /\ d.canonical \in Models => u[d.model] = d.canonical
        BY <2>7, <3>2 DEF UsageTells
      <4>2. d.model \in Models
        BY <4>1 DEF UsageEntries
      <4>3. CASE d.model # e.model
        BY <2>4, <4>1, <4>2, <4>3
      <4>4. CASE d.model = e.model
        <5>1. after # Unseen
          BY <1>2, <2>3
        <5>2. d.canonical \in Models => after = d.canonical
          BY <1>4, <2>1, <4>1, <4>4
        <5> QED
          BY <2>4, <4>1, <4>4, <5>1, <5>2
      <4> QED
        BY <4>3, <4>4
    <3> QED
      BY <3>1, <3>2
  <2>8. st.bad => \/ whole
                  \/ \E d \in E \cup {e} : Bad \in {d.model, d.canonical}
                  \/ \E c, d \in E \cup {e} :
                       /\ c.model = d.model
                       /\ {c.canonical, d.canonical} \subseteq Models
                       /\ c.canonical # d.canonical
    BY DEF UsageTells
  <2>9. ~st.bad => ~whole
    BY DEF UsageTells
  <2> HIDE DEF u, known, clash, after
  <2>10. UsageTells(w, st.bad, whole, E \cup {e})
    BY <2>6, <2>7, <2>8, <2>9 DEF UsageTells
  <2> QED
    BY <2>5, <2>10
<1> QED
  BY <1>3, <1>4

(* One more entry makes a state of the usage again. *)
LEMMA EntryIsState ==
  ASSUME NEW st \in UsageStates, NEW e \in UsageEntries
  PROVE  Entry(st, e) \in UsageStates
<1> DEFINE known == st.usage[e.model]
           after == IF e.canonical = None /\ known # Unseen
                    THEN known ELSE e.canonical
<1>1. CASE Entry(st, e) = [st EXCEPT !.bad = TRUE]
  BY <1>1 DEF UsageStates
<1>2. CASE Entry(st, e) # [st EXCEPT !.bad = TRUE]
  <2>1. /\ Entry(st, e) = [st EXCEPT !.usage[e.model] = after]
        /\ e.model # Bad /\ e.canonical # Bad
    BY <1>2 DEF Entry
  <2>2. /\ st.usage \in [Models -> Models \cup {None, Unseen}]
        /\ e.model \in Models /\ e.canonical \in Models \cup {None}
    BY <2>1 DEF UsageStates, UsageEntries
  <2>3. after \in Models \cup {None, Unseen}
    BY <2>2
  <2> HIDE DEF after
  <2> QED
    BY <2>1, <2>2, <2>3 DEF UsageStates
<1> QED
  BY <1>1, <1>2

(* A mapping, entry by entry. *)
LEMMA EntriesFold ==
  ASSUME NEW es \in Seq(UsageEntries), NEW st \in UsageStates
  PROVE  \E f \in [0..Len(es) -> UsageStates] :
           /\ f[0] = st /\ f[Len(es)] = FoldLeft(Entry, st, es)
           /\ \A k \in 1..Len(es) : f[k] = Entry(f[k - 1], es[k])
<1> DEFINE N == Len(es)
           g == [p \in UsageStates \X (1..N) |-> Entry(p[1], es[p[2]])]
           P(F) == F = [s \in SUBSET DOMAIN es |->
                          IF s = {} THEN st
                          ELSE Entry(F[s \ {Max(s)}], es[Max(s)])]
           it == CHOOSE F : P(F)
<1>1. N \in Nat /\ DOMAIN es = 1..N
  BY LenProperties
<1>2. \A k \in 1..N : es[k] \in UsageEntries
  BY <1>1
<1>3. \A x \in UsageStates, e \in UsageEntries : Entry(x, e) \in UsageStates
  BY EntryIsState
<1>4. g \in [UsageStates \X (1..N) -> UsageStates]
  BY <1>2, <1>3
<1>5. \A x \in UsageStates, k \in 1..N : g[<<x, k>>] = Entry(x, es[k])
  OBVIOUS
<1> HIDE DEF g, N
<1>6. \A s \in SUBSET (1..N) : s # {} => Max(s) \in 1..N
  BY <1>1, MaxIsIn
<1>7. \E F : P(F)
  <2>1. PICK F \in [SUBSET (1..N) -> UsageStates] : Peels(F, st, N, g)
    BY <1>1, <1>4, FoldExists
  <2>2. ASSUME NEW s \in SUBSET (1..N), s # {}
        PROVE  F[s] = Entry(F[s \ {Max(s)}], es[Max(s)])
    <3>1. F[s \ {Max(s)}] \in UsageStates /\ Max(s) \in 1..N
      BY <1>6, <2>2
    <3> QED
      BY <1>5, <2>1, <2>2, <3>1 DEF Peels
  <2>3. F = [s \in SUBSET (1..N) |->
               IF s = {} THEN st
               ELSE Entry(F[s \ {Max(s)}], es[Max(s)])]
    BY <2>1, <2>2 DEF Peels
  <2> QED
    BY <1>1, <2>3
<1>8. FoldLeft(Entry, st, es) = it[DOMAIN es]
  BY Zenon DEF FoldLeft, MapThenFoldSet
<1> HIDE DEF P
<1>9. P(it)
  BY <1>7, Zenon
<1> HIDE DEF it
<1>10. /\ it[{}] = st
       /\ \A s \in SUBSET (1..N) :
            s # {} => it[s] = Entry(it[s \ {Max(s)}], es[Max(s)])
  <2>1. it = [s \in SUBSET (1..N) |->
                IF s = {} THEN st
                ELSE Entry(it[s \ {Max(s)}], es[Max(s)])]
    BY <1>1, <1>9 DEF P
  <2> QED
    BY <2>1
<1>11. PeelsIn(it, UsageStates, st, N, g)
  BY <1>5, <1>6, <1>10 DEF PeelsIn
<1>12. PICK f \in [0..N -> UsageStates] :
         f[N] = it[1..N] /\ Steps(f, st, N, g)
  BY <1>1, <1>4, <1>11, FoldChain
<1>13. ASSUME NEW k \in 1..N PROVE f[k] = Entry(f[k - 1], es[k])
  <2>1. f[k - 1] \in UsageStates
    BY <1>1, <1>12
  <2> QED
    BY <1>5, <1>12, <2>1 DEF Steps
<1> QED
  BY <1>1, <1>8, <1>12, <1>13 DEF N, Steps

(* A whole mapping. *)
LEMMA MappingTells ==
  ASSUME NEW st \in UsageStates, NEW whole, NEW E \in SUBSET UsageEntries,
         UsageTells(st.usage, st.bad, whole, E),
         NEW es \in Seq(UsageEntries)
  PROVE  LET after == FoldLeft(Entry, st, es)
         IN  /\ after \in UsageStates
             /\ UsageTells(after.usage, after.bad, whole, E \cup ToSet(es))
<1> DEFINE N == Len(es)
           Read(k) == {es[i] : i \in 1..k}
<1>1. N \in Nat /\ DOMAIN es = 1..N
  BY LenProperties
<1>2. PICK f \in [0..N -> UsageStates] :
         /\ f[0] = st /\ f[N] = FoldLeft(Entry, st, es)
         /\ \A k \in 1..N : f[k] = Entry(f[k - 1], es[k])
  BY EntriesFold
<1> HIDE DEF N
<1> DEFINE Good(k) ==
             UsageTells(f[k].usage, f[k].bad, whole, E \cup Read(k))
           S == {k \in Nat : k <= N => Good(k)}
<1> HIDE DEF Good
<1>3. 0 \in S
  <2>1. E \cup Read(0) = E
    OBVIOUS
  <2>2. Good(0)
    BY <1>2, <2>1 DEF Good
  <2> QED
    BY <2>2
<1>4. ASSUME NEW n \in Nat, n \in S PROVE n + 1 \in S
  <2> SUFFICES ASSUME n + 1 <= N PROVE Good(n + 1)
    OBVIOUS
  <2>1. n \in 0..N /\ n + 1 \in 1..N /\ (n + 1) - 1 = n /\ n <= N
    BY <1>1
  <2>2. Good(n)
    BY <1>4, <2>1
  <2>3. f[n] \in UsageStates /\ f[n + 1] = Entry(f[n], es[n + 1])
    BY <1>2, <2>1
  <2>4. es[n + 1] \in UsageEntries /\ \A i \in 1..n : es[i] \in UsageEntries
    BY <1>1, <2>1
  <2>5. E \cup Read(n) \in SUBSET UsageEntries
    BY <2>4
  <2>6. E \cup Read(n + 1) = (E \cup Read(n)) \cup {es[n + 1]}
    OBVIOUS
  <2> HIDE DEF Read
  <2>7. UsageTells(Entry(f[n], es[n + 1]).usage, Entry(f[n], es[n + 1]).bad,
                   whole, (E \cup Read(n)) \cup {es[n + 1]})
    BY <2>2, <2>3, <2>4, <2>5, EntryTells DEF Good
  <2> QED
    BY <2>3, <2>6, <2>7 DEF Good
<1> HIDE DEF S
<1>5. Nat \subseteq S
  BY <1>3, <1>4, NatSet
<1>6. Good(N)
  BY <1>1, <1>5 DEF S
<1>7. Read(N) = ToSet(es)
  BY <1>1 DEF ToSet
<1>8. f[N] \in UsageStates
  BY <1>1, <1>2
<1> QED
  BY <1>2, <1>6, <1>7, <1>8 DEF Good

(* The evidence of a turn is finite, and the projector remembers of it     *)
(* what the properties read from it.                                       *)
Whole == \E e \in told : e.entries = Bad
EvidenceKept ==
  /\ told \subseteq Evidence
  /\ inits \subseteq Models \cup {Bad} /\ IsFiniteSet(inits)
  /\ Entries \subseteq UsageEntries /\ IsFiniteSet(Entries)
  /\ reported = Roots /\ IsFiniteSet(reported)
UsageKept ==
  /\ [usage |-> usage, bad |-> usageBad] \in UsageStates
  /\ UsageTells(usage, usageBad, Whole, Entries)
SessionKept ==
  /\ session \in Models \cup {None} /\ sessionBad \in BOOLEAN
  /\ session = None => InitModels = {}
  /\ session # None => session \in InitModels
  /\ ~sessionBad => Bad \notin inits /\ InitModels \subseteq {session}
  /\ sessionBad => Bad \in inits \/ \E m, n \in InitModels : m # n
OutKept ==
  \/ out = NoOutput
  \/ out.proof = Provenance /\ out.receipt \in {None, ReceiptModel(Provenance)}
ProjectorInv == EvidenceKept /\ UsageKept /\ SessionKept /\ OutKept

(* Before the first message nothing is remembered. *)
LEMMA ProjectorInvInit == ProjectorInit => ProjectorInv
<1> SUFFICES ASSUME ProjectorInit PROVE ProjectorInv
  OBVIOUS
<1>1. /\ told = {} /\ inits = {} /\ reported = {} /\ session = None
      /\ sessionBad = FALSE /\ usageBad = FALSE /\ out = NoOutput
      /\ usage = [m \in Models |-> Unseen]
  BY DEF ProjectorInit
<1>2. Entries = {} /\ Roots = {} /\ InitModels = {} /\ ~Whole
  BY <1>1 DEF Entries, Roots, InitModels, Whole
<1>3. IsFiniteSet({})
  BY FS_EmptySet
<1>4. EvidenceKept
  BY <1>1, <1>2, <1>3 DEF EvidenceKept
<1>5. UsageKept
  <2>1. \A m \in Models : usage[m] = Unseen
    BY <1>1
  <2>2. Unseen \notin Models
    BY ProjectorAssumption
  <2> QED
    BY <1>1, <1>2, <2>1, <2>2 DEF UsageKept, UsageTells, UsageStates
<1>6. SessionKept
  BY <1>1, <1>2 DEF SessionKept
<1> QED
  BY <1>1, <1>4, <1>5, <1>6 DEF ProjectorInv, OutKept

(* A turn begins: its evidence is dropped, that of the session stays.      *)
LEMMA BeginKeeps == ProjectorInv /\ ProjectorBegin => ProjectorInv'
<1> SUFFICES ASSUME ProjectorInv, ProjectorBegin PROVE ProjectorInv'
  OBVIOUS
<1>1. /\ told' = {} /\ reported' = {} /\ usageBad' = FALSE
      /\ usage' = [m \in Models |-> Unseen] /\ out' = NoOutput
      /\ inits' = inits /\ session' = session /\ sessionBad' = sessionBad
  BY DEF ProjectorBegin, ForgetTurn
<1>2. Entries' = {} /\ Roots' = {} /\ ~Whole' /\ InitModels' = InitModels
  BY <1>1 DEF Entries, Roots, Whole, InitModels
<1>3. IsFiniteSet({})
  BY FS_EmptySet
<1>4. EvidenceKept'
  BY <1>1, <1>2, <1>3 DEF ProjectorInv, EvidenceKept
<1>5. UsageKept'
  <2>1. \A m \in Models : usage'[m] = Unseen
    BY <1>1
  <2>2. Unseen \notin Models
    BY ProjectorAssumption
  <2>3. [usage |-> usage', bad |-> usageBad'] \in UsageStates
    BY <1>1 DEF UsageStates
  <2>4. UsageTells(usage', usageBad', Whole', Entries')
    BY <1>1, <1>2, <2>1, <2>2 DEF UsageTells
  <2> QED
    BY <2>3, <2>4 DEF UsageKept
<1>6. SessionKept'
  BY <1>1, <1>2 DEF ProjectorInv, SessionKept
<1>7. NoOutput' = NoOutput
  BY DEF NoOutput
<1> QED
  BY <1>1, <1>4, <1>5, <1>6, <1>7 DEF ProjectorInv, OutKept

(* An init message names the session's model, or contradicts it.           *)
LEMMA InitKeeps == ProjectorInv /\ ProjectInit => ProjectorInv'
<1> SUFFICES ASSUME ProjectorInv, ProjectInit PROVE ProjectorInv'
  OBVIOUS
<1>1. PICK model \in Models \cup {None, Bad} :
        ObserveInit(model) /\ inits' = (inits \cup {model}) \ {None}
  BY DEF ProjectInit
<1>2. /\ told' = told /\ reported' = reported /\ usageBad' = usageBad
      /\ usage' = usage /\ out' = NoOutput
  BY DEF ProjectInit
<1>3. Entries' = Entries /\ Roots' = Roots /\ (Whole <=> Whole')
  BY <1>2 DEF Entries, Roots, Whole
<1>4. None \notin Models /\ Bad \notin Models /\ None # Bad
  BY ProjectorAssumption
<1>5. InitModels' = InitModels \cup ({model} \cap Models)
  BY <1>1, <1>4 DEF InitModels
<1>6. inits' \subseteq Models \cup {Bad} /\ IsFiniteSet(inits')
  <2>1. IsFiniteSet(inits) /\ inits \subseteq Models \cup {Bad}
    BY DEF ProjectorInv, EvidenceKept
  <2>2. IsFiniteSet(inits \cup {model})
    BY <2>1, FS_AddElement
  <2>3. IsFiniteSet(inits')
    BY <1>1, <2>2, FS_Subset
  <2> QED
    BY <1>1, <2>1, <2>3
<1>7. EvidenceKept'
  BY <1>2, <1>3, <1>6 DEF ProjectorInv, EvidenceKept
<1>8. UsageKept'
  BY <1>2, <1>3, Zenon DEF ProjectorInv, UsageKept, UsageTells
<1>9. SessionKept'
  <2>1. SessionKept
    BY DEF ProjectorInv
  <2>2. CASE model \in Models
    <3>1. /\ InitModels' = InitModels \cup {model}
          /\ Bad \in inits' <=> Bad \in inits
      BY <1>1, <1>4, <1>5, <2>2
    <3>2. CASE session = None
      BY <1>1, <1>4, <2>1, <2>2, <3>1, <3>2 DEF ObserveInit, SessionKept
    <3>3. CASE session = model
      BY <1>1, <1>4, <2>1, <2>2, <3>1, <3>3 DEF ObserveInit, SessionKept
    <3>4. CASE session \notin {None, model}
      BY <1>1, <1>4, <2>1, <2>2, <3>1, <3>4 DEF ObserveInit, SessionKept
    <3> QED
      BY <3>2, <3>3, <3>4
  <2>3. CASE model = None
    <3>1. InitModels' = InitModels /\ (Bad \in inits' <=> Bad \in inits)
      BY <1>1, <1>4, <1>5, <2>3
    <3> QED
      BY <1>1, <1>4, <2>1, <2>3, <3>1 DEF ObserveInit, SessionKept
  <2>4. CASE model = Bad
    <3>1. InitModels' = InitModels /\ Bad \in inits'
      BY <1>1, <1>4, <1>5, <2>4
    <3> QED
      BY <1>1, <1>4, <2>1, <2>4, <3>1 DEF ObserveInit, SessionKept
  <2> QED
    BY <2>2, <2>3, <2>4
<1>10. NoOutput' = NoOutput
  BY DEF NoOutput
<1> QED
  BY <1>2, <1>7, <1>8, <1>9, <1>10 DEF ProjectorInv, OutKept

(* A message of the turn is taken up with the models and the usage in it.  *)
LEMMA TakeKeeps ==
  ASSUME ProjectorInv, NEW e \in Evidence, Take(e),
         out'.proof = Provenance',
         out'.receipt \in {None, ReceiptModel(Provenance')}
  PROVE  ProjectorInv'
<1> DEFINE st == [usage |-> usage, bad |-> usageBad]
           es == e.entries
<1>1. /\ told' = told \cup {e} /\ inits' = inits
      /\ session' = session /\ sessionBad' = sessionBad
      /\ Observe(e.model, e.nested, e.entries)
  BY DEF Take
<1>2. /\ e.model \in Models \cup {None} /\ e.nested \in BOOLEAN
      /\ es \in {None, Bad} \/ es \in Seq(UsageEntries)
  BY ProjectorAssumption DEF Evidence
<1>3. /\ st \in UsageStates /\ Entries \in SUBSET UsageEntries
      /\ UsageTells(st.usage, st.bad, Whole, Entries)
  BY DEF ProjectorInv, EvidenceKept, UsageKept
<1>4. None # Bad /\ None \notin Models
  BY ProjectorAssumption
<1>5. EvidenceKept'
  <2>1. /\ IsFiniteSet(Entries') /\ Entries' \subseteq UsageEntries
    <3>1. CASE es \in {None, Bad}
      <4>1. Entries' = Entries
        BY <1>1, <3>1 DEF Entries
      <4> QED
        BY <4>1 DEF ProjectorInv, EvidenceKept
    <3>2. CASE es \notin {None, Bad}
      <4>1. Entries' = Entries \cup ToSet(es)
        BY <1>1, <3>2 DEF Entries
      <4>2. IsFiniteSet(ToSet(es)) /\ ToSet(es) \subseteq UsageEntries
        <5>1. es \in Seq(UsageEntries) /\ DOMAIN es = 1..Len(es)
              /\ Len(es) \in Nat
          BY <1>2, <3>2, LenProperties
        <5>2. IsFiniteSet(DOMAIN es)
          BY <5>1, FS_Interval
        <5> DEFINE f == [i \in DOMAIN es |-> es[i]]
        <5>3. IsFiniteSet({es[i] : i \in DOMAIN es})
          <6>1. f \in Surjection(DOMAIN es, {es[i] : i \in DOMAIN es})
            BY DEF Surjection
          <6> HIDE DEF f
          <6> QED
            BY <5>2, <6>1, FS_Surjection
        <5> QED
          BY <5>1, <5>3 DEF ToSet
      <4>3. IsFiniteSet(Entries) /\ Entries \subseteq UsageEntries
        BY DEF ProjectorInv, EvidenceKept
      <4>4. IsFiniteSet(Entries \cup ToSet(es))
        BY <4>2, <4>3, FS_Union
      <4> QED
        BY <4>1, <4>2, <4>3, <4>4
    <3> QED
      BY <3>1, <3>2
  <2>2. reported' = Roots' /\ IsFiniteSet(reported')
    <3> DEFINE new == IF e.model \in Models /\ ~e.nested THEN {e.model} ELSE {}
    <3>1. reported' = reported \cup new
      BY <1>1 DEF Observe
    <3>2. Roots' = Roots \cup new
      BY <1>1 DEF Roots
    <3>3. IsFiniteSet(new)
      BY FS_EmptySet, FS_Singleton
    <3> HIDE DEF new
    <3>4. reported = Roots /\ IsFiniteSet(reported)
      BY DEF ProjectorInv, EvidenceKept
    <3>5. IsFiniteSet(reported \cup new)
      BY <3>3, <3>4, FS_Union
    <3> QED
      BY <3>1, <3>2, <3>4, <3>5
  <2>3. told' \subseteq Evidence
    BY <1>1 DEF ProjectorInv, EvidenceKept, Evidence
  <2>4. inits' \subseteq Models \cup {Bad} /\ IsFiniteSet(inits')
    BY <1>1 DEF ProjectorInv, EvidenceKept
  <2> QED
    BY <2>1, <2>2, <2>3, <2>4 DEF EvidenceKept, Evidence
<1>6. UsageKept'
  <2>1. CASE es = None
    <3>1. /\ Entries' = Entries /\ (Whole' <=> Whole)
          /\ usage' = usage /\ usageBad' = usageBad
      BY <1>1, <1>4, <2>1 DEF Entries, Whole, Observe, ProjectorInv, UsageKept,
         UsageStates
    <3> QED
      BY <3>1, Zenon DEF ProjectorInv, UsageKept, UsageTells
  <2>2. CASE es = Bad
    <3>1. /\ Entries' = Entries /\ Whole'
          /\ usage' = usage /\ usageBad' = TRUE
      BY <1>1, <1>4, <2>2 DEF Entries, Whole, Observe
    <3>2. [usage |-> usage', bad |-> usageBad'] \in UsageStates
      BY <1>3, <3>1 DEF UsageStates
    <3>3. UsageTells(usage', usageBad', Whole', Entries')
      BY <1>3, <3>1 DEF UsageTells
    <3> QED
      BY <3>2, <3>3 DEF UsageKept
  <2>3. CASE es \notin {None, Bad}
    <3> DEFINE after == FoldLeft(Entry, st, es)
    <3>1. Entries' = Entries \cup ToSet(es) /\ (Whole' <=> Whole)
      BY <1>1, <2>3 DEF Entries, Whole
    <3>2. usage' = after.usage /\ usageBad' = after.bad
      BY <1>1, <2>3, Zenon DEF Observe
    <3>3. es \in Seq(UsageEntries)
      BY <1>2, <2>3
    <3> HIDE DEF st, es
    <3>4. /\ after \in UsageStates
          /\ UsageTells(after.usage, after.bad, Whole, Entries \cup ToSet(es))
      BY <1>3, <3>3, MappingTells
    <3> HIDE DEF after
    <3>5. [usage |-> usage', bad |-> usageBad'] \in UsageStates
      BY <3>2, <3>4 DEF UsageStates
    <3>6. UsageTells(usage', usageBad', Whole', Entries')
      BY <3>1, <3>2, <3>4, Zenon DEF UsageTells
    <3> QED
      BY <3>5, <3>6 DEF UsageKept
  <2> QED
    BY <2>1, <2>2, <2>3
<1>7. SessionKept'
  BY <1>1 DEF ProjectorInv, SessionKept, InitModels
<1>8. OutKept'
  BY DEF OutKept
<1> QED
  BY <1>5, <1>6, <1>7, <1>8 DEF ProjectorInv

(* Each message and each new turn keeps the invariant. *)
LEMMA ProjectorInvStep ==
  ProjectorInv /\ [ProjectorNext]_projectorVars => ProjectorInv'
<1> SUFFICES ASSUME ProjectorInv, [ProjectorNext]_projectorVars
             PROVE  ProjectorInv'
  OBVIOUS
<1>1. CASE UNCHANGED projectorVars
  <2>1. UNCHANGED <<reported, usage, usageBad, session, sessionBad, told,
                    inits, out>>
    BY <1>1 DEF projectorVars
  <2>2. EvidenceKept' /\ UsageKept' /\ SessionKept'
    BY <2>1, Zenon
       DEF ProjectorInv, EvidenceKept, UsageKept, UsageTells, SessionKept,
           Entries, Roots, InitModels, Whole
  <2>3. NoOutput' = NoOutput
    BY DEF NoOutput
  <2>4. Provenance' = Provenance
    BY <2>1 DEF Provenance, UsageModels, ByManyKeys, ByOneKey, ByReport,
                Resolved, Ambiguous
  <2>5. ReceiptModel(Provenance') = ReceiptModel(Provenance)
    BY <2>4 DEF ReceiptModel
  <2>7. OutKept'
    BY <2>1, <2>3, <2>4, <2>5 DEF ProjectorInv, OutKept
  <2> QED
    BY <2>2, <2>7 DEF ProjectorInv
<1>2. CASE ProjectAssistant
  <2>1. PICK e \in Evidence :
          Take(e) /\ out' = [proof |-> Provenance', receipt |-> None]
    BY <1>2 DEF ProjectAssistant
  <2> QED
    BY <2>1, TakeKeeps
<1>3. CASE ProjectResult
  <2>1. PICK e \in Evidence :
          Take(e) /\ out' = [proof |-> Provenance',
                             receipt |-> ReceiptModel(Provenance')]
    BY <1>3 DEF ProjectResult
  <2> QED
    BY <2>1, TakeKeeps
<1>4. CASE ProjectOther
  <2>1. /\ out' = NoOutput /\ UNCHANGED <<reported, usage, usageBad, session,
                                          sessionBad, told, inits>>
    BY <1>4 DEF ProjectOther
  <2>2. EvidenceKept' /\ UsageKept' /\ SessionKept'
    BY <2>1, Zenon
       DEF ProjectorInv, EvidenceKept, UsageKept, UsageTells, SessionKept,
           Entries, Roots, InitModels, Whole
  <2> QED
    BY <2>1, <2>2 DEF ProjectorInv, OutKept, NoOutput
<1> QED
  BY <1>1, <1>2, <1>3, <1>4, BeginKeeps, InitKeeps DEF ProjectorNext

(* More than one is two that differ. *)
LEMMA ManyIsTwo ==
  ASSUME NEW S, IsFiniteSet(S)
  PROVE  Cardinality(S) > 1 <=> \E x, y \in S : x # y
<1>1. Cardinality(S) \in Nat
  BY FS_CardinalityType
<1>2. Cardinality(S) = 0 <=> S = {}
  BY FS_EmptySet
<1>3. Cardinality(S) = 1 <=> \E x : S = {x}
  BY FS_Singleton
<1>4. (\E x, y \in S : x # y) <=> S # {} /\ ~ \E x : S = {x}
  OBVIOUS
<1> QED
  BY <1>1, <1>2, <1>3, <1>4

(* The canonical names of a key, and the keys, are finitely many. *)
LEMMA NamesAreFinite ==
  ASSUME ProjectorInv
  PROVE  /\ IsFiniteSet(Keys)
         /\ \A m : IsFiniteSet(CanonicalOf(m))
         /\ IsFiniteSet(InitModels)
<1>1. IsFiniteSet(Entries) /\ IsFiniteSet(inits)
  BY DEF ProjectorInv, EvidenceKept
<1>2. IsFiniteSet(Keys)
  <2> DEFINE f == [e \in Entries |-> e.model]
  <2>1. f \in Surjection(Entries, Keys)
    BY DEF Surjection, Keys
  <2> HIDE DEF f
  <2> QED
    BY <1>1, <2>1, FS_Surjection
<1>3. ASSUME NEW m PROVE IsFiniteSet(CanonicalOf(m))
  <2> DEFINE of == {x \in Entries : x.model = m}
             names == {e.canonical : e \in of}
             f == [e \in of |-> e.canonical]
  <2>1. IsFiniteSet(of)
    BY <1>1, FS_Subset
  <2>2. f \in Surjection(of, names)
    BY DEF Surjection
  <2> HIDE DEF f
  <2>3. IsFiniteSet(names)
    BY <2>1, <2>2, FS_Surjection
  <2>4. CanonicalOf(m) = names \cap Models
    BY DEF CanonicalOf
  <2> QED
    BY <2>3, <2>4, FS_Intersection
<1>4. IsFiniteSet(InitModels)
  BY <1>1, FS_Intersection DEF InitModels
<1> QED
  BY <1>2, <1>3, <1>4

(* The marks the projector keeps say whether the evidence is malformed.    *)
LEMMA MalformedIs ==
  ASSUME ProjectorInv
  PROVE  Malformed <=> usageBad \/ sessionBad
<1>1. /\ usageBad \in BOOLEAN /\ sessionBad \in BOOLEAN
  BY DEF ProjectorInv, UsageKept, UsageStates, SessionKept
<1>2. Bad \in inits \/ Cardinality(InitModels) > 1 <=> sessionBad
  <2>1. Cardinality(InitModels) > 1 <=> \E x, y \in InitModels : x # y
    BY NamesAreFinite, ManyIsTwo
  <2> QED
    BY <1>1, <2>1 DEF ProjectorInv, SessionKept
<1> DEFINE clash == \E m \in Keys : Cardinality(CanonicalOf(m)) > 1
           bads == \E e \in Entries : Bad \in {e.model, e.canonical}
<1>3. clash <=> \E d, e \in Entries :
                  /\ d.model = e.model
                  /\ {d.canonical, e.canonical} \subseteq Models
                  /\ d.canonical # e.canonical
  <2>1. \A m \in Keys : Cardinality(CanonicalOf(m)) > 1
                          <=> \E x, y \in CanonicalOf(m) : x # y
    BY NamesAreFinite, ManyIsTwo
  <2>2. ASSUME NEW m \in Keys, NEW x \in CanonicalOf(m),
               NEW y \in CanonicalOf(m), x # y
        PROVE  \E d, e \in Entries :
                 /\ d.model = e.model
                 /\ {d.canonical, e.canonical} \subseteq Models
                 /\ d.canonical # e.canonical
    <3>1. PICK d \in Entries : d.model = m /\ d.canonical = x /\ x \in Models
      BY <2>2 DEF CanonicalOf
    <3>2. PICK e \in Entries : e.model = m /\ e.canonical = y /\ y \in Models
      BY <2>2 DEF CanonicalOf
    <3> QED
      BY <2>2, <3>1, <3>2
  <2>3. ASSUME NEW d \in Entries, NEW e \in Entries, d.model = e.model,
               {d.canonical, e.canonical} \subseteq Models,
               d.canonical # e.canonical
        PROVE  \E m \in Keys : \E x, y \in CanonicalOf(m) : x # y
    <3>1. d.model \in Keys
      BY DEF Keys
    <3>2. /\ d.canonical \in CanonicalOf(d.model)
          /\ e.canonical \in CanonicalOf(d.model)
      BY <2>3 DEF CanonicalOf
    <3> QED
      BY <2>3, <3>1, <3>2
  <2> QED
    BY <2>1, <2>2, <2>3
<1>4. Whole \/ bads \/ clash <=> usageBad
  <2>1. UsageTells(usage, usageBad, Whole, Entries)
    BY DEF ProjectorInv, UsageKept
  <2>2. ~usageBad => ~Whole /\ ~bads
    BY <2>1 DEF UsageTells
  <2>3. ASSUME ~usageBad, NEW d \in Entries, NEW e \in Entries,
               d.model = e.model,
               {d.canonical, e.canonical} \subseteq Models
        PROVE  d.canonical = e.canonical
    BY <2>1, <2>3 DEF UsageTells
  <2>4. ~usageBad => ~clash
    BY <1>3, <2>3
  <2>5. usageBad => Whole \/ bads \/ clash
    BY <1>3, <2>1 DEF UsageTells
  <2> HIDE DEF clash, bads
  <2> QED
    BY <2>2, <2>4, <2>5
<1> QED
  BY <1>2, <1>4 DEF Malformed, Whole

(* When nothing is malformed the projector's own state is the evidence,    *)
(* read as sets.                                                           *)
LEMMA ProjectorReads ==
  ASSUME ProjectorInv, ~usageBad, ~sessionBad
  PROVE  /\ Keys = UsageModels /\ Keys \subseteq Models /\ IsFiniteSet(Keys)
         /\ \A m \in Keys : /\ usage[m] \in Models \cup {None}
                            /\ CanonicalOf(m) = {usage[m]} \cap Models
         /\ session \in Models \cup {None}
         /\ InitModels = {session} \cap Models
         /\ Roots = reported /\ reported \subseteq Models
         /\ IsFiniteSet(reported)
<1>1. /\ usage \in [Models -> Models \cup {None, Unseen}]
      /\ UsageTells(usage, usageBad, Whole, Entries)
      /\ Entries \subseteq UsageEntries
  BY DEF ProjectorInv, UsageKept, UsageStates, EvidenceKept
<1>2. \A e \in Entries :
        /\ e.model \in Models /\ usage[e.model] # Unseen
        /\ e.canonical \in Models \cup {None}
        /\ e.canonical \in Models => usage[e.model] = e.canonical
  BY <1>1 DEF UsageTells, UsageEntries
<1>3. Keys = UsageModels
  <2>1. Keys \subseteq UsageModels
    BY <1>2 DEF Keys, UsageModels
  <2>2. UsageModels \subseteq Keys
    BY <1>1 DEF Keys, UsageModels, UsageTells
  <2> QED
    BY <2>1, <2>2
<1>4. ASSUME NEW m \in Keys
      PROVE  /\ m \in Models /\ usage[m] \in Models \cup {None}
             /\ CanonicalOf(m) = {usage[m]} \cap Models
  <2>1. m \in Models /\ usage[m] \in Models \cup {None}
    BY <1>1, <1>3 DEF UsageModels
  <2>2. CanonicalOf(m) \subseteq {usage[m]} \cap Models
    BY <1>2 DEF CanonicalOf
  <2>3. usage[m] \in Models => usage[m] \in CanonicalOf(m)
    BY <1>1, <2>1 DEF CanonicalOf, UsageTells
  <2> QED
    BY <2>1, <2>2, <2>3
<1>5. /\ session \in Models \cup {None} /\ InitModels = {session} \cap Models
  BY ProjectorAssumption DEF ProjectorInv, SessionKept, InitModels
<1>6. Roots = reported /\ reported \subseteq Models /\ IsFiniteSet(reported)
  BY DEF ProjectorInv, EvidenceKept, Roots
<1>7. IsFiniteSet(Keys)
  BY NamesAreFinite
<1> QED
  BY <1>3, <1>4, <1>5, <1>6, <1>7

(* How many keys name a model, in the evidence and in the projector.       *)
LEMMA NamedIs ==
  ASSUME ProjectorInv, ~usageBad, ~sessionBad, NEW m \in Models
  PROVE  NamedByUsage(m) <=>
           \/ m \in UsageModels
           \/ Cardinality({k \in UsageModels : usage[k] = m}) = 1
<1>1. /\ Keys = UsageModels
      /\ \A k \in Keys : CanonicalOf(k) = {usage[k]} \cap Models
  BY ProjectorReads
<1>2. \A k \in Keys : CanonicalOf(k) = {m} <=> usage[k] = m
  BY <1>1
<1>3. {k \in Keys : CanonicalOf(k) = {m}}
        = {k \in UsageModels : usage[k] = m}
  BY <1>1, <1>2
<1> QED
  BY <1>1, <1>3 DEF NamedByUsage

(* What _model_provenance() concludes is what the evidence proves.         *)
LEMMA ProvenanceProves ==
  ASSUME ProjectorInv, ~usageBad, ~sessionBad
  PROVE  {Provenance.effective} \ {None} = Proved
<1> DEFINE u == Cardinality(UsageModels)
           r == Cardinality(reported)
           one == CHOOSE m \in reported : TRUE
<1>1. /\ Keys = UsageModels /\ Keys \subseteq Models
      /\ \A m \in Keys : /\ usage[m] \in Models \cup {None}
                         /\ CanonicalOf(m) = {usage[m]} \cap Models
      /\ session \in Models \cup {None}
      /\ InitModels = {session} \cap Models
      /\ Roots = reported /\ reported \subseteq Models
  BY ProjectorReads
<1>2. None \notin Models
  BY ProjectorAssumption
<1>3. /\ u \in Nat /\ (u = 0 <=> UsageModels = {})
      /\ (u = 1 <=> \E m : UsageModels = {m})
  BY ProjectorReads, FS_CardinalityType, FS_EmptySet, FS_Singleton
<1>4. /\ r \in Nat /\ (r = 0 <=> reported = {})
      /\ (r = 1 <=> \E m : reported = {m})
  BY ProjectorReads, FS_CardinalityType, FS_EmptySet, FS_Singleton
<1>5. Ambiguous.effective = None
      /\ \A x, c : Resolved(x, c).effective = x
  BY DEF Ambiguous, Resolved
<1>6. ASSUME NEW x \in Models
      PROVE  ByManyKeys(x).effective
               = IF NamedByUsage(x) THEN x ELSE None
  BY <1>2, <1>5, NamedIs DEF ByManyKeys
<1>7. ByManyKeys(None).effective = None
  BY <1>5 DEF ByManyKeys
<1>8. r = 1 => reported = {one}
  BY <1>4
<1> HIDE DEF u, r, one
<1>9. ASSUME session # None
      PROVE  {Provenance.effective} \ {None} = Proved
  <2>1. session \in Models /\ InitModels = {session}
    BY <1>1, <1>9
  <2> DEFINE agree == reported \subseteq Synthetic \cup {session}
  <2>2. Proved = {m \in {session} :
                    agree /\ (UsageModels = {} \/ NamedByUsage(m))}
    BY <1>1, <2>1 DEF Proved
  <2>3. CASE ~agree
    BY <1>5, <1>9, <2>2, <2>3 DEF Provenance
  <2>4. CASE agree /\ u > 1
    <3>1. Provenance = ByManyKeys(session)
      BY <1>9, <2>4 DEF Provenance, u
    <3> HIDE DEF agree
    <3> QED
      BY <1>2, <1>3, <1>6, <2>1, <2>2, <2>4, <3>1
  <2>5. CASE agree /\ u = 1
    <3>1. PICK m : UsageModels = {m}
      BY <1>3, <2>5
    <3>2. Provenance = ByOneKey(m)
      BY <1>9, <2>5, <3>1 DEF Provenance, u
    <3>3. m \in Models /\ m # None
      BY <1>1, <1>2, <3>1
    <3>4. NamedByUsage(session) <=> session = m \/ usage[m] = session
      <4>1. usage[m] = session
              => {k \in UsageModels : usage[k] = session} = {m}
        BY <3>1
      <4>2. usage[m] # session
              => {k \in UsageModels : usage[k] = session} = {}
        BY <3>1
      <4>3. Cardinality({m}) = 1 /\ Cardinality({}) = 0
        BY FS_Singleton, FS_EmptySet
      <4> QED
        BY <2>1, <3>1, <4>1, <4>2, <4>3, NamedIs
    <3>5. ByOneKey(m).effective
            = IF session = m \/ usage[m] = session THEN session ELSE None
      BY <1>5, <2>1, <1>9, <3>3 DEF ByOneKey
    <3> HIDE DEF agree
    <3> QED
      BY <1>2, <2>1, <2>2, <2>5, <3>1, <3>2, <3>4, <3>5
  <2>6. CASE agree /\ u = 0
    <3>1. Provenance = ByReport
      BY <1>9, <2>6 DEF Provenance, u
    <3>2. ByReport.effective = session
      BY <1>5, <1>9 DEF ByReport
    <3> HIDE DEF agree
    <3> QED
      BY <1>2, <1>3, <2>1, <2>2, <2>6, <3>1, <3>2
  <2> HIDE DEF agree
  <2> QED
    BY <1>3, <2>3, <2>4, <2>5, <2>6
<1>10. ASSUME session = None
       PROVE  {Provenance.effective} \ {None} = Proved
  <2>1. InitModels = {}
    BY <1>1, <1>2, <1>10
  <2>2. CASE u = 1
    <3>1. PICK m : UsageModels = {m}
      BY <1>3, <2>2
    <3>2. Provenance = ByOneKey(m)
      BY <1>10, <2>2, <3>1 DEF Provenance, u
    <3>3. m \in Models /\ m # None /\ CanonicalOf(m) = {usage[m]} \cap Models
      BY <1>1, <1>2, <3>1
    <3>4. ByOneKey(m).effective
            = IF reported \subseteq {m, usage[m]} THEN m ELSE None
      BY <1>5, <1>10, <3>3 DEF ByOneKey
    <3>5. Proved = {k \in {m} : reported \subseteq {k} \cup CanonicalOf(k)}
      BY <1>1, <2>1, <2>2, <3>1 DEF Proved, u
    <3>6. reported \subseteq {m} \cup CanonicalOf(m)
            <=> reported \subseteq {m, usage[m]}
      BY <1>1, <3>3
    <3> QED
      BY <3>2, <3>3, <3>4, <3>5, <3>6
  <2>3. ASSUME u # 1
        PROVE  Proved = {m \in reported : reported = {m} /\
                           (UsageModels = {} \/ NamedByUsage(m))}
    BY <1>1, <2>1, <2>3 DEF Proved, u
  <2>4. CASE u > 1
    <3>1. UsageModels # {}
      BY <1>3, <2>4
    <3>2. CASE r = 1
      <4>1. reported = {one} /\ one \in Models
        BY <1>1, <1>8, <3>2
      <4>2. Provenance = ByManyKeys(one)
        BY <1>10, <2>4, <3>2 DEF Provenance, u, r, one
      <4> QED
        BY <1>2, <1>6, <2>3, <2>4, <3>1, <4>1, <4>2
    <3>3. CASE r # 1
      <4>1. Provenance = ByManyKeys(None)
        BY <1>10, <2>4, <3>3 DEF Provenance, u, r
      <4>2. Proved = {}
        BY <1>4, <2>3, <2>4, <3>3
      <4> QED
        BY <1>7, <4>1, <4>2
    <3> QED
      BY <3>2, <3>3
  <2>5. CASE u = 0
    <3>1. Provenance = ByReport /\ UsageModels = {}
      BY <1>3, <1>10, <2>5 DEF Provenance, u
    <3>2. CASE r > 1
      <4>1. ByReport = Ambiguous
        BY <1>10, <3>2 DEF ByReport, r
      <4>2. Proved = {}
        BY <1>4, <2>3, <2>5, <3>2
      <4> QED
        BY <1>5, <3>1, <4>1, <4>2
    <3>3. CASE r = 1
      <4>1. reported = {one} /\ one \in Models
        BY <1>1, <1>8, <3>3
      <4>2. ByReport.effective = one
        BY <1>5, <1>10, <3>3, <4>1 DEF ByReport, r, one
      <4> QED
        BY <1>2, <2>3, <2>5, <3>1, <4>1, <4>2
    <3>4. CASE r = 0
      <4>1. reported = {}
        BY <1>4, <3>4
      <4>2. ByReport.effective = None
        BY <1>5, <1>10, <3>4, <4>1 DEF ByReport, r
      <4> QED
        BY <2>3, <2>5, <3>1, <4>1, <4>2
    <3> QED
      BY <1>4, <3>2, <3>3, <3>4
  <2> QED
    BY <1>3, <2>2, <2>4, <2>5
<1> QED
  BY <1>9, <1>10

(* The models the messages of the turn and of the session name. *)
Stated ==
  InitModels \cup Roots \cup Keys
    \cup UNION {CanonicalOf(m) : m \in Keys}

(* _model_provenance() only ever names models a message stated.            *)
LEMMA ProvenanceIs ==
  ASSUME ProjectorInv
  PROVE  \/ Provenance = Ambiguous
         \/ \E x, c \in {None} \cup Stated : Provenance = Resolved(x, c)
<1> DEFINE Names == {None} \cup Stated
           Fine(p) == p = Ambiguous \/ \E x, c \in Names : p = Resolved(x, c)
           one == CHOOSE m \in reported : TRUE
           key == CHOOSE m \in UsageModels : TRUE
<1> SUFFICES ASSUME ~usageBad, ~sessionBad
             PROVE  Fine(Provenance)
  <2>1. usageBad \/ sessionBad => Provenance = Ambiguous
    BY DEF Provenance
  <2> QED
    BY <2>1
<1>1. /\ Keys = UsageModels /\ Keys \subseteq Models
      /\ \A m \in Keys : /\ usage[m] \in Models \cup {None}
                         /\ CanonicalOf(m) = {usage[m]} \cap Models
      /\ session \in Models \cup {None}
      /\ InitModels = {session} \cap Models
      /\ Roots = reported /\ reported \subseteq Models
      /\ IsFiniteSet(UsageModels)
  BY ProjectorReads
<1>2. /\ None \in Names /\ session \in Names /\ reported \subseteq Names
      /\ UsageModels \subseteq Names
      /\ \A m \in UsageModels : usage[m] \in Names
  <2>1. \A m \in UsageModels : usage[m] \in Models =>
          usage[m] \in UNION {CanonicalOf(k) : k \in Keys}
    BY <1>1
  <2> QED
    BY <1>1, <2>1 DEF Stated
<1>3. reported # {} => one \in reported
  OBVIOUS
<1>4. UsageModels # {} => key \in UsageModels
  OBVIOUS
<1> HIDE DEF Names, one, key
<1>5. ASSUME NEW x \in Names, NEW c \in Names
      PROVE  Fine(Resolved(x, c))
  BY <1>5
<1>6. Fine(Ambiguous)
  OBVIOUS
<1> HIDE DEF Fine
<1>7. ASSUME NEW x \in Names
      PROVE  Fine(ByManyKeys(x))
  BY <1>2, <1>5, <1>6, <1>7 DEF ByManyKeys
<1>8. ASSUME UsageModels # {}
      PROVE  Fine(ByOneKey(key))
  <2>1. key \in UsageModels /\ key \in Names /\ usage[key] \in Names
    BY <1>2, <1>4, <1>8
  <2>2. key \in Models
    BY <1>1, <2>1
  <2>3. key # None
    BY <2>2, ProjectorAssumption
  <2>4. CASE session = key
    <3>1. ByOneKey(key) = Resolved(session, usage[key])
      BY <2>3, <2>4 DEF ByOneKey
    <3> QED
      BY <1>2, <1>5, <2>1, <3>1
  <2>5. CASE session \notin {None, key}
    <3>1. ByOneKey(key) \in {Resolved(session, session), Ambiguous}
      BY <2>3, <2>5 DEF ByOneKey
    <3> QED
      BY <1>2, <1>5, <1>6, <3>1
  <2>6. CASE session = None
    <3>1. ByOneKey(key) \in {Resolved(key, usage[key]), Ambiguous}
      BY <2>3, <2>6 DEF ByOneKey
    <3> QED
      BY <1>5, <1>6, <2>1, <3>1
  <2> QED
    BY <2>4, <2>5, <2>6
<1>9. Fine(ByReport)
  <2>1. CASE session # None
    BY <1>2, <1>5, <2>1 DEF ByReport
  <2>2. CASE session = None
    <3>1. ByReport \in {Ambiguous, Resolved(IF reported = {} THEN None
                                            ELSE one, None)}
      BY <2>2 DEF ByReport, one
    <3>2. (IF reported = {} THEN None ELSE one) \in Names
      BY <1>2, <1>3
    <3> QED
      BY <1>2, <1>5, <1>6, <3>1, <3>2
  <2> QED
    BY <2>1, <2>2
<1>10. Cardinality(UsageModels) = 1 => UsageModels # {}
  BY FS_EmptySet
<1>11. Cardinality(reported) = 1 => reported # {}
  BY FS_EmptySet
<1> DEFINE primary == IF session # None THEN session
                      ELSE IF Cardinality(reported) = 1 THEN one ELSE None
<1>12. primary \in Names
  BY <1>2, <1>3, <1>11
<1>13. Provenance \in {Ambiguous, ByManyKeys(primary), ByReport} \cup
         (IF Cardinality(UsageModels) = 1 THEN {ByOneKey(key)} ELSE {})
  BY DEF Provenance, one, key
<1> HIDE DEF primary
<1> QED
  BY <1>6, <1>7, <1>8, <1>9, <1>10, <1>12, <1>13

(* The invariant says what the properties of the projector say. *)
LEMMA ProjectorInvProves ==
  ProjectorInv => ModelIsProved /\ ProjectorTypeOK
<1> SUFFICES ASSUME ProjectorInv PROVE ModelIsProved /\ ProjectorTypeOK
  OBVIOUS
<1>1. Ambiguous.effective = None /\ Ambiguous.canonical = None
      /\ Ambiguous.resolution = "ambiguous"
  BY DEF Ambiguous
<1>2. \A x, c : /\ Resolved(x, c).effective = x
                /\ Resolved(x, c).canonical = c
                /\ Resolved(x, c).resolution \in
                     {"unknown", "canonicalized", "mismatch", "reported",
                      "exact"}
  BY DEF Resolved
<1>3. NoOutput.receipt = None /\ NoOutput.proof.effective = None
      /\ NoOutput.proof.canonical = None
      /\ NoOutput.proof.resolution = "unknown"
  BY DEF NoOutput
<1> DEFINE p == Provenance
<1>4. /\ {p.effective, p.canonical} \subseteq {None} \cup Stated
      /\ p.resolution \in {"unknown", "ambiguous", "canonicalized",
                           "mismatch", "reported", "exact"}
  BY <1>1, <1>2, ProvenanceIs
<1>5. EffectiveIsProved
  <2>1. Malformed => p = Ambiguous
    BY MalformedIs DEF Provenance
  <2>2. ~Malformed => {p.effective} \ {None} = Proved
    BY MalformedIs, ProvenanceProves
  <2> QED
    BY <2>1, <2>2 DEF EffectiveIsProved
<1> HIDE DEF p
<1>6. \/ out = NoOutput
      \/ out.proof = p /\ out.receipt \in {None, p.canonical, p.effective}
  BY DEF ProjectorInv, OutKept, ReceiptModel, p
<1>7. /\ {out.receipt, out.proof.effective, out.proof.canonical}
           \subseteq {None} \cup Stated
      /\ out.proof.resolution \in
           {"unknown", "ambiguous", "canonicalized", "mismatch", "reported",
            "exact"}
  BY <1>3, <1>4, <1>6
<1>8. NoModelIsGuessed
  BY <1>7 DEF NoModelIsGuessed, Stated
<1>9. ProjectorTypeOK
  BY <1>7 DEF ProjectorTypeOK, ProjectorInv, EvidenceKept, UsageKept,
              UsageStates, SessionKept, Roots
<1> QED
  BY <1>5, <1>8, <1>9 DEF ModelIsProved

(* The invariant of the projector. *)
LEMMA ProjectorIsInvariant == ProjectorSpec => []ProjectorInv
BY ProjectorInvInit, ProjectorInvStep, PTL DEF ProjectorSpec

(* The model on a receipt and the model told to the host are the one that  *)
(* the messages of the turn and of the session prove, in whatever order    *)
(* and however often they came, and never one that no message stated       *)
(* (content_events.py, _model_provenance()).                               *)
THEOREM ModelProved == ProjectorSpec => []ModelIsProved
BY ProjectorIsInvariant, ProjectorInvProves, PTL

(* The projector's evidence and its conclusion keep their types. *)
THEOREM ProjectorTypeCorrect == ProjectorSpec => []ProjectorTypeOK
BY ProjectorIsInvariant, ProjectorInvProves, PTL

(* What was admitted does not change: the checks are pure. *)
AdmissionSpec ==
  /\ install \in Installs /\ content \in Seq(InputBlocks)
  /\ [][FALSE]_admissionVars

TextStates == [parts : Seq(Nat), used : 0..MaxText]
NoText == [parts |-> <<>>, used |-> 0]
ImageStates ==
  [images : Nat, total : Nat,
   error : {"none", "invalid", "too_large", "too_many", "total"}]
NoImage == [images |-> 0, total |-> 0, error |-> "none"]
AddSize(kinds, n, b) == n + (IF b.kind \in kinds THEN b.size ELSE 0)
AddText(t, b) ==
  IF b.kind = "text" /\ b.size > 0 THEN Append(t, b.size) ELSE t

(* What the checks read of a block. *)
LEMMA BlockHas ==
  ASSUME NEW b \in InputBlocks
  PROVE  /\ b.kind \in {"text", "base64", "url", "invalid", "other"}
         /\ b.size \in Nat
         /\ b.kind \notin {"text", "base64"} => b.size = 0
<1>1. MaxText \in Nat /\ MaxImageBytes \in Nat
  BY AdmissionAssumption
<1> QED
  BY <1>1 DEF InputBlocks

(* No text yet. *)
LEMMA NoTextIsState == NoText \in TextStates
<1>1. MaxText \in Nat
  BY AdmissionAssumption
<1> QED
  BY <1>1, EmptySeq DEF NoText, TextStates

(* No image yet. *)
LEMMA NoImageIsState == NoImage \in ImageStates
BY DEF NoImage, ImageStates

(* One more block keeps the text within its limit. *)
LEMMA TextIsState ==
  \A x \in TextStates, b \in InputBlocks : TextStep(x, b) \in TextStates
<1> SUFFICES ASSUME NEW x \in TextStates, NEW b \in InputBlocks
             PROVE  TextStep(x, b) \in TextStates
  OBVIOUS
<1>1. /\ MaxText \in Nat /\ b.size \in Nat /\ x.used \in 0..MaxText
      /\ x.parts \in Seq(Nat)
  BY AdmissionAssumption, BlockHas DEF TextStates
<1> DEFINE left == MaxText - x.used
           part == IF b.size < left THEN b.size ELSE left
<1>2. CASE b.kind # "text" \/ b.size = 0 \/ left <= 0
  BY <1>2 DEF TextStep
<1>3. CASE ~(b.kind # "text" \/ b.size = 0 \/ left <= 0)
  <2>1. TextStep(x, b) = [parts |-> Append(x.parts, part),
                          used |-> x.used + part]
    BY <1>3 DEF TextStep
  <2>2. part \in Nat /\ x.used + part \in 0..MaxText
    BY <1>1, <1>3
  <2> HIDE DEF part
  <2>3. Append(x.parts, part) \in Seq(Nat)
    BY <1>1, <2>2, AppendProperties
  <2> QED
    BY <2>1, <2>2, <2>3 DEF TextStates
<1> QED
  BY <1>2, <1>3

(* One more block makes a state of the image checks again. *)
LEMMA ImageIsState ==
  \A x \in ImageStates, b \in InputBlocks : ImageStep(x, b) \in ImageStates
<1> SUFFICES ASSUME NEW x \in ImageStates, NEW b \in InputBlocks
             PROVE  ImageStep(x, b) \in ImageStates
  OBVIOUS
<1>1. b.size \in Nat
  BY BlockHas
<1>2. ImageError(b) \in {"none", "invalid", "too_large"}
  BY DEF ImageError
<1>3. \A e \in {"invalid", "too_large", "too_many", "total"} :
        [x EXCEPT !.error = e] \in ImageStates
  BY DEF ImageStates
<1>4. [x EXCEPT !.images = @ + 1, !.total = @ + b.size] \in ImageStates
  <2>1. x.images + 1 \in Nat /\ x.total + b.size \in Nat
    BY <1>1 DEF ImageStates
  <2>2. [x EXCEPT !.images = x.images + 1, !.total = x.total + b.size]
          \in ImageStates
    BY <2>1, Zenon DEF ImageStates
  <2> QED
    BY <2>2
<1> QED
  BY <1>2, <1>3, <1>4 DEF ImageStep

(* A sum of sizes is a number. *)
LEMMA SizeIsNat ==
  ASSUME NEW kinds
  PROVE  \A x \in Nat, b \in InputBlocks : AddSize(kinds, x, b) \in Nat
BY BlockHas DEF AddSize

(* The lengths of texts are numbers. *)
LEMMA TextIsSeq ==
  \A x \in Seq(Nat), b \in InputBlocks : AddText(x, b) \in Seq(Nat)
BY BlockHas, AppendProperties DEF AddText

(* The texts of a message, block by block. *)
LEMMA TextFold ==
  ASSUME NEW blocks \in Seq(InputBlocks)
  PROVE  \E f \in [0..Len(blocks) -> TextStates] :
           /\ f[0] = NoText
           /\ f[Len(blocks)] = BoundedText(blocks)
           /\ \A k \in 1..Len(blocks) :
                f[k] = TextStep(f[k - 1], blocks[k])
<1> DEFINE N == Len(blocks)
           g == [p \in TextStates \X (1..N) |-> TextStep(p[1], blocks[p[2]])]
           P(F) == F = [s \in SUBSET DOMAIN blocks |->
                          IF s = {} THEN NoText
                          ELSE TextStep(F[s \ {Max(s)}], blocks[Max(s)])]
           it == CHOOSE F : P(F)
<1>1. N \in Nat /\ DOMAIN blocks = 1..N /\ NoText \in TextStates
  BY LenProperties, NoTextIsState
<1>2. \A k \in 1..N : blocks[k] \in InputBlocks
  BY <1>1
<1>3. \A x \in TextStates, b \in InputBlocks : TextStep(x, b) \in TextStates
  BY TextIsState
<1>4. g \in [TextStates \X (1..N) -> TextStates]
  BY <1>2, <1>3
<1>5. \A x \in TextStates, k \in 1..N : g[<<x, k>>] = TextStep(x, blocks[k])
  OBVIOUS
<1> HIDE DEF g, N
<1>6. \A s \in SUBSET (1..N) : s # {} => Max(s) \in 1..N
  BY <1>1, MaxIsIn
<1>7. \E F : P(F)
  <2>1. PICK F \in [SUBSET (1..N) -> TextStates] : Peels(F, NoText, N, g)
    BY <1>1, <1>4, FoldExists
  <2>2. ASSUME NEW s \in SUBSET (1..N), s # {}
        PROVE  F[s] = TextStep(F[s \ {Max(s)}], blocks[Max(s)])
    <3>1. F[s \ {Max(s)}] \in TextStates /\ Max(s) \in 1..N
      BY <1>6, <2>2
    <3> QED
      BY <1>5, <2>1, <2>2, <3>1 DEF Peels
  <2>3. F = [s \in SUBSET (1..N) |->
               IF s = {} THEN NoText
               ELSE TextStep(F[s \ {Max(s)}], blocks[Max(s)])]
    BY <2>1, <2>2 DEF Peels
  <2> QED
    BY <1>1, <2>3
<1>8. BoundedText(blocks) = it[DOMAIN blocks]
  BY Zenon DEF FoldLeft, MapThenFoldSet, BoundedText, NoText
<1> HIDE DEF P
<1>9. P(it)
  BY <1>7, Zenon
<1> HIDE DEF it
<1>10. /\ it[{}] = NoText
       /\ \A s \in SUBSET (1..N) :
            s # {} => it[s] = TextStep(it[s \ {Max(s)}], blocks[Max(s)])
  <2>1. it = [s \in SUBSET (1..N) |->
                IF s = {} THEN NoText
                ELSE TextStep(it[s \ {Max(s)}], blocks[Max(s)])]
    BY <1>1, <1>9 DEF P
  <2> QED
    BY <2>1
<1>11. PeelsIn(it, TextStates, NoText, N, g)
  BY <1>5, <1>6, <1>10 DEF PeelsIn
<1>12. PICK f \in [0..N -> TextStates] :
         f[N] = it[1..N] /\ Steps(f, NoText, N, g)
  BY <1>1, <1>4, <1>11, FoldChain
<1>13. ASSUME NEW k \in 1..N PROVE f[k] = TextStep(f[k - 1], blocks[k])
  <2>1. f[k - 1] \in TextStates
    BY <1>1, <1>12
  <2> QED
    BY <1>5, <1>12, <2>1 DEF Steps
<1> QED
  BY <1>1, <1>8, <1>12, <1>13 DEF N, Steps

(* Its images. *)
LEMMA ImageFold ==
  ASSUME NEW blocks \in Seq(InputBlocks)
  PROVE  \E f \in [0..Len(blocks) -> ImageStates] :
           /\ f[0] = NoImage
           /\ f[Len(blocks)] = FoldLeft(ImageStep, NoImage, blocks)
           /\ \A k \in 1..Len(blocks) :
                f[k] = ImageStep(f[k - 1], blocks[k])
<1> DEFINE N == Len(blocks)
           g == [p \in ImageStates \X (1..N) |-> ImageStep(p[1], blocks[p[2]])]
           P(F) == F = [s \in SUBSET DOMAIN blocks |->
                          IF s = {} THEN NoImage
                          ELSE ImageStep(F[s \ {Max(s)}], blocks[Max(s)])]
           it == CHOOSE F : P(F)
<1>1. N \in Nat /\ DOMAIN blocks = 1..N /\ NoImage \in ImageStates
  BY LenProperties, NoImageIsState
<1>2. \A k \in 1..N : blocks[k] \in InputBlocks
  BY <1>1
<1>3. \A x \in ImageStates, b \in InputBlocks : ImageStep(x, b) \in ImageStates
  BY ImageIsState
<1>4. g \in [ImageStates \X (1..N) -> ImageStates]
  BY <1>2, <1>3
<1>5. \A x \in ImageStates, k \in 1..N : g[<<x, k>>] = ImageStep(x, blocks[k])
  OBVIOUS
<1> HIDE DEF g, N
<1>6. \A s \in SUBSET (1..N) : s # {} => Max(s) \in 1..N
  BY <1>1, MaxIsIn
<1>7. \E F : P(F)
  <2>1. PICK F \in [SUBSET (1..N) -> ImageStates] : Peels(F, NoImage, N, g)
    BY <1>1, <1>4, FoldExists
  <2>2. ASSUME NEW s \in SUBSET (1..N), s # {}
        PROVE  F[s] = ImageStep(F[s \ {Max(s)}], blocks[Max(s)])
    <3>1. F[s \ {Max(s)}] \in ImageStates /\ Max(s) \in 1..N
      BY <1>6, <2>2
    <3> QED
      BY <1>5, <2>1, <2>2, <3>1 DEF Peels
  <2>3. F = [s \in SUBSET (1..N) |->
               IF s = {} THEN NoImage
               ELSE ImageStep(F[s \ {Max(s)}], blocks[Max(s)])]
    BY <2>1, <2>2 DEF Peels
  <2> QED
    BY <1>1, <2>3
<1>8. FoldLeft(ImageStep, NoImage, blocks) = it[DOMAIN blocks]
  BY Zenon DEF FoldLeft, MapThenFoldSet
<1> HIDE DEF P
<1>9. P(it)
  BY <1>7, Zenon
<1> HIDE DEF it
<1>10. /\ it[{}] = NoImage
       /\ \A s \in SUBSET (1..N) :
            s # {} => it[s] = ImageStep(it[s \ {Max(s)}], blocks[Max(s)])
  <2>1. it = [s \in SUBSET (1..N) |->
                IF s = {} THEN NoImage
                ELSE ImageStep(it[s \ {Max(s)}], blocks[Max(s)])]
    BY <1>1, <1>9 DEF P
  <2> QED
    BY <2>1
<1>11. PeelsIn(it, ImageStates, NoImage, N, g)
  BY <1>5, <1>6, <1>10 DEF PeelsIn
<1>12. PICK f \in [0..N -> ImageStates] :
         f[N] = it[1..N] /\ Steps(f, NoImage, N, g)
  BY <1>1, <1>4, <1>11, FoldChain
<1>13. ASSUME NEW k \in 1..N PROVE f[k] = ImageStep(f[k - 1], blocks[k])
  <2>1. f[k - 1] \in ImageStates
    BY <1>1, <1>12
  <2> QED
    BY <1>5, <1>12, <2>1 DEF Steps
<1> QED
  BY <1>1, <1>8, <1>12, <1>13 DEF N, Steps

(* The sum of the sizes of some kinds of blocks. *)
LEMMA SizesFold ==
  ASSUME content \in Seq(InputBlocks), NEW kinds
  PROVE  \E f \in [0..Len(content) -> Nat] :
           /\ f[0] = 0
           /\ f[Len(content)] = Sizes(kinds)
           /\ \A k \in 1..Len(content) :
                f[k] = AddSize(kinds, f[k - 1], content[k])
<1> DEFINE N == Len(content)
           g == [p \in Nat \X (1..N) |-> AddSize(kinds, p[1], content[p[2]])]
           P(F) == F = [s \in SUBSET DOMAIN content |->
                          IF s = {} THEN 0
                          ELSE AddSize(kinds, F[s \ {Max(s)}],
                                       content[Max(s)])]
           it == CHOOSE F : P(F)
<1>1. N \in Nat /\ DOMAIN content = 1..N /\ 0 \in Nat
  BY LenProperties
<1>2. \A k \in 1..N : content[k] \in InputBlocks
  BY <1>1
<1>3. \A x \in Nat, b \in InputBlocks : AddSize(kinds, x, b) \in Nat
  BY SizeIsNat
<1>4. g \in [Nat \X (1..N) -> Nat]
  BY <1>2, <1>3
<1>5. \A x \in Nat, k \in 1..N : g[<<x, k>>] = AddSize(kinds, x, content[k])
  OBVIOUS
<1> HIDE DEF g, N
<1>6. \A s \in SUBSET (1..N) : s # {} => Max(s) \in 1..N
  BY <1>1, MaxIsIn
<1>7. \E F : P(F)
  <2>1. PICK F \in [SUBSET (1..N) -> Nat] : Peels(F, 0, N, g)
    BY <1>1, <1>4, FoldExists
  <2>2. ASSUME NEW s \in SUBSET (1..N), s # {}
        PROVE  F[s] = AddSize(kinds, F[s \ {Max(s)}], content[Max(s)])
    <3>1. F[s \ {Max(s)}] \in Nat /\ Max(s) \in 1..N
      BY <1>6, <2>2
    <3> QED
      BY <1>5, <2>1, <2>2, <3>1 DEF Peels
  <2>3. F = [s \in SUBSET (1..N) |->
               IF s = {} THEN 0
               ELSE AddSize(kinds, F[s \ {Max(s)}], content[Max(s)])]
    BY <2>1, <2>2 DEF Peels
  <2> QED
    BY <1>1, <2>3
<1>8. Sizes(kinds) = it[DOMAIN content]
  BY Zenon DEF FoldLeft, MapThenFoldSet, Sizes, AddSize
<1> HIDE DEF P
<1>9. P(it)
  BY <1>7, Zenon
<1> HIDE DEF it
<1>10. /\ it[{}] = 0
       /\ \A s \in SUBSET (1..N) :
            s # {} => it[s] = AddSize(kinds, it[s \ {Max(s)}], content[Max(s)])
  <2>1. it = [s \in SUBSET (1..N) |->
                IF s = {} THEN 0
                ELSE AddSize(kinds, it[s \ {Max(s)}], content[Max(s)])]
    BY <1>1, <1>9 DEF P
  <2> QED
    BY <2>1
<1>11. PeelsIn(it, Nat, 0, N, g)
  BY <1>5, <1>6, <1>10 DEF PeelsIn
<1>12. PICK f \in [0..N -> Nat] :
         f[N] = it[1..N] /\ Steps(f, 0, N, g)
  BY <1>1, <1>4, <1>11, FoldChain
<1>13. ASSUME NEW k \in 1..N PROVE f[k] = AddSize(kinds, f[k - 1], content[k])
  <2>1. f[k - 1] \in Nat
    BY <1>1, <1>12
  <2> QED
    BY <1>5, <1>12, <2>1 DEF Steps
<1> QED
  BY <1>1, <1>8, <1>12, <1>13 DEF N, Steps

(* The lengths of the texts that are not empty. *)
LEMMA TextsFold ==
  ASSUME NEW blocks \in Seq(InputBlocks)
  PROVE  \E f \in [0..Len(blocks) -> Seq(Nat)] :
           /\ f[0] = <<>>
           /\ f[Len(blocks)] = TextSizes(blocks)
           /\ \A k \in 1..Len(blocks) :
                f[k] = AddText(f[k - 1], blocks[k])
<1> DEFINE N == Len(blocks)
           g == [p \in Seq(Nat) \X (1..N) |-> AddText(p[1], blocks[p[2]])]
           P(F) == F = [s \in SUBSET DOMAIN blocks |->
                          IF s = {} THEN <<>>
                          ELSE AddText(F[s \ {Max(s)}], blocks[Max(s)])]
           it == CHOOSE F : P(F)
<1>1. N \in Nat /\ DOMAIN blocks = 1..N /\ <<>> \in Seq(Nat)
  BY LenProperties, EmptySeq
<1>2. \A k \in 1..N : blocks[k] \in InputBlocks
  BY <1>1
<1>3. \A x \in Seq(Nat), b \in InputBlocks : AddText(x, b) \in Seq(Nat)
  BY TextIsSeq
<1>4. g \in [Seq(Nat) \X (1..N) -> Seq(Nat)]
  BY <1>2, <1>3
<1>5. \A x \in Seq(Nat), k \in 1..N : g[<<x, k>>] = AddText(x, blocks[k])
  OBVIOUS
<1> HIDE DEF g, N
<1>6. \A s \in SUBSET (1..N) : s # {} => Max(s) \in 1..N
  BY <1>1, MaxIsIn
<1>7. \E F : P(F)
  <2>1. PICK F \in [SUBSET (1..N) -> Seq(Nat)] : Peels(F, <<>>, N, g)
    BY <1>1, <1>4, FoldExists
  <2>2. ASSUME NEW s \in SUBSET (1..N), s # {}
        PROVE  F[s] = AddText(F[s \ {Max(s)}], blocks[Max(s)])
    <3>1. F[s \ {Max(s)}] \in Seq(Nat) /\ Max(s) \in 1..N
      BY <1>6, <2>2
    <3> QED
      BY <1>5, <2>1, <2>2, <3>1 DEF Peels
  <2>3. F = [s \in SUBSET (1..N) |->
               IF s = {} THEN <<>>
               ELSE AddText(F[s \ {Max(s)}], blocks[Max(s)])]
    BY <2>1, <2>2 DEF Peels
  <2> QED
    BY <1>1, <2>3
<1>8. TextSizes(blocks) = it[DOMAIN blocks]
  BY Zenon DEF FoldLeft, MapThenFoldSet, TextSizes, AddText
<1> HIDE DEF P
<1>9. P(it)
  BY <1>7, Zenon
<1> HIDE DEF it
<1>10. /\ it[{}] = <<>>
       /\ \A s \in SUBSET (1..N) :
            s # {} => it[s] = AddText(it[s \ {Max(s)}], blocks[Max(s)])
  <2>1. it = [s \in SUBSET (1..N) |->
                IF s = {} THEN <<>>
                ELSE AddText(it[s \ {Max(s)}], blocks[Max(s)])]
    BY <1>1, <1>9 DEF P
  <2> QED
    BY <2>1
<1>11. PeelsIn(it, Seq(Nat), <<>>, N, g)
  BY <1>5, <1>6, <1>10 DEF PeelsIn
<1>12. PICK f \in [0..N -> Seq(Nat)] :
         f[N] = it[1..N] /\ Steps(f, <<>>, N, g)
  BY <1>1, <1>4, <1>11, FoldChain
<1>13. ASSUME NEW k \in 1..N PROVE f[k] = AddText(f[k - 1], blocks[k])
  <2>1. f[k - 1] \in Seq(Nat)
    BY <1>1, <1>12
  <2> QED
    BY <1>5, <1>12, <2>1 DEF Steps
<1> QED
  BY <1>1, <1>8, <1>12, <1>13 DEF N, Steps

(* One more text: cut where the limit is reached, and only there.          *)
TextRuns(t, n, x) ==
  /\ t.used = IF n < MaxText THEN n ELSE MaxText
  /\ Len(t.parts) <= Len(x) /\ Len(t.parts) <= t.used
  /\ \A i \in 1..Len(t.parts) - 1 : t.parts[i] = x[i]
  /\ t.used < MaxText => t.parts = x

(* A block keeps the text so far the texts so far, cut once. *)
LEMMA TextRunsOn ==
  ASSUME NEW t \in TextStates, NEW n \in Nat, NEW x \in Seq(Nat),
         TextRuns(t, n, x), NEW b \in InputBlocks
  PROVE  TextRuns(TextStep(t, b), AddSize({"text"}, n, b), AddText(x, b))
<1> DEFINE left == MaxText - t.used
           part == IF b.size < left THEN b.size ELSE left
<1>1. /\ MaxText \in Nat /\ b.size \in Nat /\ t.used \in 0..MaxText
      /\ t.parts \in Seq(Nat) /\ Len(t.parts) \in Nat /\ Len(x) \in Nat
  BY AdmissionAssumption, BlockHas, LenProperties DEF TextStates
<1>2. CASE b.kind # "text" \/ b.size = 0
  <2>1. /\ TextStep(t, b) = t /\ AddText(x, b) = x
        /\ AddSize({"text"}, n, b) = n
    BY <1>1, <1>2 DEF TextStep, AddText, AddSize
  <2> QED
    BY <2>1
<1>3. CASE b.kind = "text" /\ b.size > 0 /\ left <= 0
  <2>1. /\ TextStep(t, b) = t /\ AddText(x, b) = Append(x, b.size)
        /\ AddSize({"text"}, n, b) = n + b.size
    BY <1>1, <1>3 DEF TextStep, AddText, AddSize
  <2>2. t.used = MaxText /\ n >= MaxText
    BY <1>1, <1>3 DEF TextRuns
  <2>3. /\ Len(Append(x, b.size)) = Len(x) + 1
        /\ \A i \in 1..Len(x) : Append(x, b.size)[i] = x[i]
    BY <1>1, AppendProperties
  <2>4. \A i \in 1..Len(t.parts) - 1 : t.parts[i] = Append(x, b.size)[i]
    BY <1>1, <2>3 DEF TextRuns
  <2> QED
    BY <1>1, <2>1, <2>2, <2>3, <2>4 DEF TextRuns
<1>4. CASE b.kind = "text" /\ b.size > 0 /\ left > 0
  <2>1. /\ TextStep(t, b) = [parts |-> Append(t.parts, part),
                             used |-> t.used + part]
        /\ AddText(x, b) = Append(x, b.size)
        /\ AddSize({"text"}, n, b) = n + b.size
    BY <1>1, <1>4 DEF TextStep, AddText, AddSize
  <2>2. t.used = n /\ n < MaxText /\ t.parts = x
    BY <1>1, <1>4 DEF TextRuns
  <2>3. /\ part \in Nat /\ part >= 1
        /\ n + part = IF n + b.size < MaxText THEN n + b.size ELSE MaxText
        /\ n + part < MaxText => part = b.size
    BY <1>1, <1>4, <2>2
  <2> HIDE DEF part
  <2>4. /\ Len(Append(x, b.size)) = Len(x) + 1
        /\ \A i \in 1..Len(x) : Append(x, b.size)[i] = x[i]
        /\ Len(Append(x, part)) = Len(x) + 1
        /\ \A i \in 1..Len(x) : Append(x, part)[i] = x[i]
    BY <1>1, <2>3, AppendProperties
  <2>5. Len(x) <= n
    BY <2>2 DEF TextRuns
  <2> QED
    BY <1>1, <2>1, <2>2, <2>3, <2>4, <2>5 DEF TextRuns
<1> QED
  BY <1>1, <1>2, <1>3, <1>4

(* The whole text against the sum and the list of all texts. *)
LEMMA TextsAreCut ==
  ASSUME content \in Seq(InputBlocks)
  PROVE  /\ BoundedText(content) \in TextStates
         /\ TextSizes(content) \in Seq(Nat)
         /\ TextRuns(BoundedText(content), Sizes({"text"}), TextSizes(content))
<1> DEFINE N == Len(content)
<1>1. N \in Nat /\ \A k \in 1..N : content[k] \in InputBlocks
  BY LenProperties
<1>2. PICK t \in [0..N -> TextStates] :
        /\ t[0] = NoText /\ t[N] = BoundedText(content)
        /\ \A k \in 1..N : t[k] = TextStep(t[k - 1], content[k])
  BY TextFold
<1>3. PICK n \in [0..N -> Nat] :
        /\ n[0] = 0 /\ n[N] = Sizes({"text"})
        /\ \A k \in 1..N : n[k] = AddSize({"text"}, n[k - 1], content[k])
  BY SizesFold
<1>4. PICK x \in [0..N -> Seq(Nat)] :
        /\ x[0] = <<>> /\ x[N] = TextSizes(content)
        /\ \A k \in 1..N : x[k] = AddText(x[k - 1], content[k])
  BY TextsFold
<1> HIDE DEF N
<1> DEFINE S == {k \in Nat : k <= N => TextRuns(t[k], n[k], x[k])}
<1>5. 0 \in S
  <2>1. MaxText \in Nat
    BY AdmissionAssumption
  <2>2. NoText.used = 0 /\ NoText.parts = <<>> /\ Len(<<>>) = 0
    BY EmptySeq DEF NoText
  <2>3. TextRuns(NoText, 0, <<>>)
    BY <2>1, <2>2 DEF TextRuns
  <2> QED
    BY <1>2, <1>3, <1>4, <2>3
<1>6. ASSUME NEW k \in Nat, k \in S PROVE k + 1 \in S
  <2> SUFFICES ASSUME k + 1 <= N
               PROVE  TextRuns(t[k + 1], n[k + 1], x[k + 1])
    OBVIOUS
  <2>1. k \in 0..N /\ k + 1 \in 1..N /\ (k + 1) - 1 = k /\ k <= N
    BY <1>1
  <2>2. TextRuns(t[k], n[k], x[k])
    BY <1>6, <2>1
  <2> HIDE DEF S
  <2>3. /\ t[k] \in TextStates /\ n[k] \in Nat /\ x[k] \in Seq(Nat)
        /\ content[k + 1] \in InputBlocks
    BY <1>1, <1>2, <1>3, <1>4, <2>1
  <2>4. /\ t[k + 1] = TextStep(t[k], content[k + 1])
        /\ n[k + 1] = AddSize({"text"}, n[k], content[k + 1])
        /\ x[k + 1] = AddText(x[k], content[k + 1])
    BY <1>2, <1>3, <1>4, <2>1
  <2> QED
    BY <2>2, <2>3, <2>4, TextRunsOn
<1> HIDE DEF S
<1>7. Nat \subseteq S
  BY <1>5, <1>6, NatSet
<1>8. TextRuns(t[N], n[N], x[N])
  BY <1>1, <1>7 DEF S
<1>9. t[N] \in TextStates /\ x[N] \in Seq(Nat)
  BY <1>1, <1>2, <1>4
<1> QED
  BY <1>2, <1>3, <1>4, <1>8, <1>9

(* A text is cut once, where the limit is reached. *)
LEMMA TextCut == content \in Seq(InputBlocks) => TextIsCutOnce
<1> SUFFICES ASSUME content \in Seq(InputBlocks) PROVE TextIsCutOnce
  OBVIOUS
<1> DEFINE t == BoundedText(content)
<1>1. /\ t \in TextStates
      /\ TextRuns(t, Sizes({"text"}), TextSizes(content))
  BY TextsAreCut
<1>2. MaxText \in Nat
  BY AdmissionAssumption
<1> HIDE DEF t
<1>3. /\ t.parts \in Seq(Nat) /\ t.used \in 0..MaxText
      /\ Len(t.parts) \in Nat
  BY <1>1, LenProperties DEF TextStates
<1>4. t.parts # <<>> => Len(t.parts) # 0
  BY <1>3, EmptySeq
<1>5. t.parts # <<>> => t.used + Len(t.parts) - 1 < 2 * MaxText
  BY <1>1, <1>2, <1>3, <1>4 DEF TextRuns
<1> QED
  BY <1>1, <1>5 DEF TextIsCutOnce, TextRuns, t

-----------------------------------------------------------------------------
(* The images of the first k blocks. *)
ImagesTo(k) ==
  {i \in 1..k : content[i].kind \in {"base64", "url", "invalid"}}

(* The running checks after k blocks, against the sums over them. *)
ImagesRun(k, im, n) ==
  /\ im.error = "none" =>
       /\ \A i \in 1..k : ImageError(content[i]) = "none"
       /\ im.images = Cardinality(ImagesTo(k)) /\ im.images <= MaxImages
       /\ im.total = n /\ n <= MaxTotalBytes
  /\ im.error # "none" =>
       \/ \E i \in 1..k : ImageError(content[i]) # "none"
       \/ Cardinality(ImagesTo(k)) > MaxImages
       \/ n > MaxTotalBytes

(* One more block keeps the running checks in step with the sums. *)
LEMMA ImagesRunOn ==
  ASSUME content \in Seq(InputBlocks), NEW k \in Nat, k + 1 <= Len(content),
         NEW im \in ImageStates, NEW n \in Nat, ImagesRun(k, im, n)
  PROVE  ImagesRun(k + 1, ImageStep(im, content[k + 1]),
                   AddSize({"base64"}, n, content[k + 1]))
<1> DEFINE b == content[k + 1]
           m == AddSize({"base64"}, n, b)
           c == Cardinality(ImagesTo(k))
           d == Cardinality(ImagesTo(k + 1))
           after == ImageStep(im, b)
<1>1. b \in InputBlocks /\ k + 1 \in 1..Len(content) /\ Len(content) \in Nat
  BY LenProperties
<1>2. /\ b.kind \in {"text", "base64", "url", "invalid", "other"}
      /\ b.size \in Nat
      /\ b.kind \notin {"text", "base64"} => b.size = 0
  BY <1>1, BlockHas
<1>3. {MaxText, MaxImages, MaxImageBytes, MaxTotalBytes} \subseteq Nat
  BY AdmissionAssumption
<1>4. m = n + (IF b.kind = "base64" THEN b.size ELSE 0)
  BY DEF AddSize
<1>5. /\ c \in Nat
      /\ d = IF b.kind \in {"base64", "url", "invalid"} THEN c + 1 ELSE c
  <2>1. IsFiniteSet(1..k)
    BY FS_Interval
  <2>2. IsFiniteSet(ImagesTo(k))
    BY <2>1, FS_Subset DEF ImagesTo
  <2>3. c \in Nat
    BY <2>2, FS_CardinalityType
  <2>4. k + 1 \notin ImagesTo(k)
    BY DEF ImagesTo
  <2>5. CASE b.kind \in {"base64", "url", "invalid"}
    <3>1. ImagesTo(k + 1) = ImagesTo(k) \cup {k + 1}
      BY <2>5 DEF ImagesTo
    <3>2. Cardinality(ImagesTo(k) \cup {k + 1}) = c + 1
      BY <2>2, <2>4, FS_AddElement
    <3> QED
      BY <2>3, <2>5, <3>1, <3>2
  <2>6. CASE b.kind \notin {"base64", "url", "invalid"}
    <3>1. ImagesTo(k + 1) = ImagesTo(k)
      BY <2>6 DEF ImagesTo
    <3> QED
      BY <2>3, <2>6, <3>1
  <2> QED
    BY <2>5, <2>6
<1>6. /\ im.images \in Nat /\ im.total \in Nat
      /\ im.error \in {"none", "invalid", "too_large", "too_many", "total"}
  BY DEF ImageStates
<1>7. /\ (\A i \in 1..(k + 1) : ImageError(content[i]) = "none")
           <=> /\ \A i \in 1..k : ImageError(content[i]) = "none"
               /\ ImageError(b) = "none"
  <2>1. 1..(k + 1) = (1..k) \cup {k + 1}
    OBVIOUS
  <2> QED
    BY <2>1
<1> HIDE DEF b, c, d, m
<1> DEFINE good(j) == \A i \in 1..j : ImageError(content[i]) = "none"
<1>8. /\ im.error = "none" =>
           /\ good(k) /\ im.images = c /\ c <= MaxImages
           /\ im.total = n /\ n <= MaxTotalBytes
      /\ im.error # "none" => ~good(k) \/ c > MaxImages \/ n > MaxTotalBytes
  BY DEF ImagesRun, c
<1>9. good(k + 1) <=> good(k) /\ ImageError(b) = "none"
  BY <1>7
<1> HIDE DEF good
<1>10. /\ after.error = "none" =>
            /\ good(k + 1) /\ after.images = d /\ d <= MaxImages
            /\ after.total = m /\ m <= MaxTotalBytes
       /\ after.error # "none" =>
            ~good(k + 1) \/ d > MaxImages \/ m > MaxTotalBytes
  <2>1. CASE im.error # "none"
    <3>1. after = im
      BY <2>1 DEF ImageStep
    <3> HIDE DEF after
    <3>2. ~good(k) \/ c > MaxImages \/ n > MaxTotalBytes
      BY <1>8, <2>1
    <3>3. ~good(k) => ~good(k + 1)
      BY <1>9
    <3>4. c > MaxImages => d > MaxImages
      BY <1>2, <1>3, <1>5
    <3>5. n > MaxTotalBytes => m > MaxTotalBytes
      BY <1>2, <1>3, <1>4
    <3> QED
      BY <2>1, <3>1, <3>2, <3>3, <3>4, <3>5
  <2>2. CASE im.error = "none" /\ b.kind \in {"text", "other"}
    <3>1. after = im /\ ImageError(b) = "none"
      BY <2>2 DEF ImageStep, ImageError
    <3> HIDE DEF after
    <3> QED
      BY <1>2, <1>3, <1>4, <1>5, <1>8, <1>9, <2>2, <3>1
  <2>3. CASE im.error = "none" /\ b.kind \notin {"text", "other"}
    <3>1. CASE ImageError(b) # "none"
      <4>1. after.error # "none"
        BY <1>6, <2>3, <3>1 DEF ImageStep, ImageStates
      <4> HIDE DEF after
      <4> QED
        BY <1>9, <3>1, <4>1
    <3>2. CASE ImageError(b) = "none" /\ c + 1 > MaxImages
      <4>1. after = [im EXCEPT !.error = "too_many"]
        BY <1>8, <2>3, <3>2 DEF ImageStep
      <4>2. after.error = "too_many"
        BY <4>1 DEF ImageStates
      <4>3. d > MaxImages
        BY <1>2, <1>5, <2>3, <3>2
      <4> HIDE DEF after
      <4> QED
        BY <4>2, <4>3
    <3>3. CASE /\ ImageError(b) = "none" /\ c + 1 <= MaxImages
               /\ n + b.size > MaxTotalBytes
      <4>1. after = [im EXCEPT !.error = "total"]
        BY <1>3, <1>5, <1>8, <2>3, <3>3 DEF ImageStep
      <4>2. after.error = "total"
        BY <4>1 DEF ImageStates
      <4>3. m > MaxTotalBytes
        BY <1>2, <1>3, <1>4, <1>8, <2>3, <3>3
      <4> HIDE DEF after
      <4> QED
        BY <4>2, <4>3
    <3>4. CASE /\ ImageError(b) = "none" /\ c + 1 <= MaxImages
               /\ n + b.size <= MaxTotalBytes
      <4>1. after = [im EXCEPT !.images = @ + 1, !.total = @ + b.size]
        BY <1>2, <1>3, <1>5, <1>8, <2>3, <3>4 DEF ImageStep
      <4>2. /\ after.error = "none" /\ after.images = c + 1
            /\ after.total = n + b.size
        BY <1>8, <2>3, <4>1 DEF ImageStates
      <4>3. d = c + 1 /\ m = n + b.size
        BY <1>2, <1>4, <1>5, <2>3
      <4> HIDE DEF after
      <4> QED
        BY <1>8, <1>9, <2>3, <3>4, <4>2, <4>3
    <3> QED
      BY <1>2, <1>3, <1>5, <3>1, <3>2, <3>3, <3>4
  <2> QED
    BY <2>1, <2>2, <2>3
<1> HIDE DEF after
<1> QED
  BY <1>10 DEF ImagesRun, after, b, m, d, good

(* The running checks refuse exactly what the sums refuse. *)
LEMMA ImagesAreChecked ==
  content \in Seq(InputBlocks) => ImagesWithinLimits
<1> SUFFICES ASSUME content \in Seq(InputBlocks) PROVE ImagesWithinLimits
  OBVIOUS
<1> DEFINE N == Len(content)
<1>1. /\ N \in Nat /\ DOMAIN content = 1..N
      /\ \A k \in 1..N : content[k] \in InputBlocks
  BY LenProperties
<1>2. PICK im \in [0..N -> ImageStates] :
        /\ im[0] = NoImage /\ im[N] = FoldLeft(ImageStep, NoImage, content)
        /\ \A k \in 1..N : im[k] = ImageStep(im[k - 1], content[k])
  BY ImageFold
<1>3. PICK n \in [0..N -> Nat] :
        /\ n[0] = 0 /\ n[N] = Sizes({"base64"})
        /\ \A k \in 1..N : n[k] = AddSize({"base64"}, n[k - 1], content[k])
  BY SizesFold
<1> DEFINE S == {k \in Nat : k <= N => ImagesRun(k, im[k], n[k])}
<1>4. 0 \in S
  <2>1. MaxImages \in Nat /\ MaxTotalBytes \in Nat
    BY AdmissionAssumption
  <2>2. NoImage.error = "none" /\ NoImage.images = 0 /\ NoImage.total = 0
    BY DEF NoImage
  <2>3. 1..0 = {}
    OBVIOUS
  <2>4. Cardinality(ImagesTo(0)) = 0
    BY <2>3, FS_EmptySet DEF ImagesTo
  <2>5. ImagesRun(0, NoImage, 0)
    BY <2>1, <2>2, <2>3, <2>4 DEF ImagesRun
  <2> QED
    BY <1>2, <1>3, <2>5
<1>5. ASSUME NEW k \in Nat, k \in S PROVE k + 1 \in S
  <2> SUFFICES ASSUME k + 1 <= N
               PROVE  ImagesRun(k + 1, im[k + 1], n[k + 1])
    OBVIOUS
  <2>1. k \in 0..N /\ k + 1 \in 1..N /\ (k + 1) - 1 = k /\ k <= N
    BY <1>1
  <2>2. ImagesRun(k, im[k], n[k])
    BY <1>5, <2>1
  <2> HIDE DEF S
  <2>3. im[k] \in ImageStates /\ n[k] \in Nat
    BY <1>2, <1>3, <2>1
  <2>4. /\ im[k + 1] = ImageStep(im[k], content[k + 1])
        /\ n[k + 1] = AddSize({"base64"}, n[k], content[k + 1])
    BY <1>2, <1>3, <2>1
  <2> QED
    BY <2>2, <2>3, <2>4, ImagesRunOn
<1> HIDE DEF S
<1>6. Nat \subseteq S
  BY <1>4, <1>5, NatSet
<1>7. ImagesRun(N, im[N], n[N])
  BY <1>1, <1>6 DEF S
<1>8. ImagesIn = ImagesTo(N)
  BY <1>1 DEF ImagesIn, ImagesTo
<1>9. im[N].error = "none" <=>
        /\ \A i \in DOMAIN content : ImageError(content[i]) = "none"
        /\ Cardinality(ImagesIn) <= MaxImages
        /\ Sizes({"base64"}) <= MaxTotalBytes
  <2>1. IsFiniteSet(1..N)
    BY <1>1, FS_Interval
  <2>2. IsFiniteSet(ImagesTo(N))
    BY <2>1, FS_Subset DEF ImagesTo
  <2>3. Cardinality(ImagesTo(N)) \in Nat /\ n[N] \in Nat
        /\ MaxImages \in Nat /\ MaxTotalBytes \in Nat
    BY <1>1, <1>3, <2>2, FS_CardinalityType, AdmissionAssumption
  <2>4. n[N] = Sizes({"base64"}) /\ DOMAIN content = 1..N
    BY <1>1, <1>3
  <2> HIDE DEF N
  <2>5. CASE im[N].error = "none"
    <3>1. /\ \A i \in 1..N : ImageError(content[i]) = "none"
          /\ im[N].images = Cardinality(ImagesTo(N))
          /\ im[N].images <= MaxImages /\ n[N] <= MaxTotalBytes
      BY <1>7, <2>5 DEF ImagesRun
    <3> QED
      BY <1>8, <2>4, <2>5, <3>1
  <2>6. CASE im[N].error # "none"
    <3>1. \/ \E i \in 1..N : ImageError(content[i]) # "none"
          \/ Cardinality(ImagesTo(N)) > MaxImages
          \/ n[N] > MaxTotalBytes
      BY <1>7, <2>6 DEF ImagesRun
    <3> QED
      BY <1>8, <2>3, <2>4, <2>6, <3>1
  <2> QED
    BY <2>5, <2>6
<1>10. im[N].error \in {"none", "invalid", "too_large", "too_many", "total"}
  BY <1>1, <1>2 DEF ImageStates
<1>11. BuildTurnInput(content) \in {"rich", "text", "nothing"}
         <=> im[N].error = "none"
  BY <1>2, <1>10 DEF BuildTurnInput, NoImage
<1> QED
  BY <1>9, <1>11 DEF ImagesWithinLimits

-----------------------------------------------------------------------------
(* The only version between the least one and the first one that is too    *)
(* high is the least one.                                                  *)
LEMMA OnePinned ==
  ASSUME NEW v \in Versions
  PROVE  SDKInRange(v) <=> v = SDK_MIN_VERSION
BY DEF Versions, SDKInRange, Below, Malformed3, SDK_MIN_VERSION,
       SDK_MAX_VERSION

(* Only the pinned SDK and CLI, in an inert version file, are admitted. *)
LEMMA PinnedOnly == install \in Installs => AdmittedIsPinned
<1> SUFFICES ASSUME install \in Installs PROVE AdmittedIsPinned
  OBVIOUS
<1> DEFINE s == install.statements
           docs == {i \in DOMAIN s : s[i] = "doc"}
<1>1. /\ install.installed \in BOOLEAN /\ install.sdk \in Versions
      /\ install.cli \in Versions
      /\ s \in {<<>>, <<"assign">>, <<"doc", "assign">>,
                <<"assign", "doc">>, <<"doc", "doc">>,
                <<"doc", "assign", "assign">>}
  BY DEF Installs
<1>2. ModelCompatible(install) <=>
        /\ install.installed /\ install.sdk = SDK_MIN_VERSION
        /\ install.cli = FABLE_51_MIN_CLI_VERSION
        /\ s \in {<<"assign">>, <<"doc", "assign">>}
  <2>1. /\ SDK_MIN_VERSION # Malformed3
        /\ FABLE_51_MIN_CLI_VERSION # Malformed3
    BY DEF SDK_MIN_VERSION, FABLE_51_MIN_CLI_VERSION, Malformed3
  <2> QED
    BY <1>1, <2>1, OnePinned
       DEF ModelCompatible, SDKMetadata, BundledCli
<1>3. s \in {<<"assign">>, <<"doc", "assign">>} <=>
        /\ Len(s) = 1 + Cardinality(docs)
        /\ Last(s) = "assign" /\ Len(s) <= 2
  <2>1. CASE s = <<>>
    <3>1. docs = {} /\ Len(s) = 0
      BY <2>1
    <3> QED
      BY <2>1, <3>1, FS_EmptySet
  <2>2. CASE s = <<"assign">>
    <3>1. docs = {} /\ Len(s) = 1 /\ Last(s) = "assign"
      BY <2>2 DEF Last
    <3> QED
      BY <2>2, <3>1, FS_EmptySet
  <2>3. CASE s = <<"doc", "assign">>
    <3>1. docs = {1} /\ Len(s) = 2 /\ Last(s) = "assign"
      BY <2>3 DEF Last
    <3> QED
      BY <2>3, <3>1, FS_Singleton
  <2>4. CASE s \in {<<"assign", "doc">>, <<"doc", "doc">>}
    <3>1. Last(s) = "doc" /\ s # <<"assign">> /\ s # <<"doc", "assign">>
      BY <2>4 DEF Last
    <3> QED
      BY <3>1
  <2>5. CASE s = <<"doc", "assign", "assign">>
    <3>1. Len(s) = 3
      BY <2>5
    <3> QED
      BY <2>5, <3>1
  <2> QED
    BY <1>1, <2>1, <2>2, <2>3, <2>4, <2>5
<1> QED
  BY <1>2, <1>3 DEF AdmittedIsPinned

(* An installation is admitted exactly when it is the pinned one, the text *)
(* of a turn is cut once and only at the limit, and a turn with images is  *)
(* built exactly when all of them keep the limits: for messages of any     *)
(* length and for any limits (compatibility.py, turn_input.py).            *)
THEOREM AdmissionSound == AdmissionSpec => []AdmissionHolds
<1> DEFINE Inv == install \in Installs /\ content \in Seq(InputBlocks)
<1>1. Inv /\ [FALSE]_admissionVars => Inv'
  BY DEF admissionVars
<1>2. Inv => AdmissionHolds
  BY PinnedOnly, TextCut, ImagesAreChecked DEF AdmissionHolds
<1> QED
  BY <1>1, <1>2, PTL DEF AdmissionSpec
-----------------------------------------------------------------------------
(* Every check around a turn keeps its types: each from the invariant of   *)
(* its own state, of which no other check has a part (content_events.py,   *)
(* billing.py, auth.py).                                                   *)
THEOREM TurnTypeCorrect ==
  GuardSpec /\ ProjectorSpec /\ BillingSpec /\ AuthSpec => []TurnTypeOK
<1>1. GuardInv /\ ProjectorInv /\ BillingInv /\ AuthInv => TurnTypeOK
  BY ProjectorInvProves DEF GuardInv, BillingInv, AuthInv, TurnTypeOK
<1> QED
  BY <1>1, GuardIsInvariant, ProjectorIsInvariant, BillingIsInvariant,
     AuthIsInvariant, PTL
=============================================================================
