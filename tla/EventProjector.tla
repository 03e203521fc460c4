-------------------------- MODULE EventProjector --------------------------
(***************************************************************************)
(* ClaudeSdkEventProjector: SDK messages become public events, and the     *)
(* models they mention become evidence for the one question the receipt    *)
(* answers, which model served the turn.  Evidence comes in any order: an  *)
(* init message (kept for the session), assistant messages and the result  *)
(* (kept for the turn).                                                    *)
(***************************************************************************)
EXTENDS Naturals, FiniteSets, SequencesExt

CONSTANTS
  Models,       \* identifiers _safe_model_identifier() accepts
  Synthetic,    \* the ones in _SYNTHETIC_MODEL_IDENTIFIERS
  Selected,     \* the model the host asked for, or None
  None,         \* no model, a missing field
  Bad,          \* a field that is present and malformed
  UsageOf,      \* the model_usage mappings the SDK may send
  MaxMessages,  \* bound: evidence messages in a turn
  MaxInits,     \* bound: init messages in a session
  MaxProjected  \* bound: turns

(* A key of model_usage that was seen has a canonical model or None.       *)
Unseen == "unseen"

(* An entry of a mapping that is one: its key and its canonical name.      *)
UsageEntries ==
  [model : Models \cup {Bad}, canonical : Models \cup {None, Bad}]

ASSUME ProjectorAssumption ==
  /\ Synthetic \subseteq Models /\ {None, Bad} \cap Models = {}
  /\ Selected \in Models \cup {None}
  /\ None # Bad /\ Unseen \notin Models \cup {None}
  /\ UsageOf \subseteq {None, Bad} \cup Seq(UsageEntries)

VARIABLES
  reported,     \* _reported_models
  usage,        \* _usage_models and _usage_canonical_models
  usageBad,     \* _usage_malformed
  session,      \* _session_model
  sessionBad,   \* _session_model_malformed or _session_model_conflict
  projections,  \* bound: turns begun
  told,         \* history: the evidence of this turn
  inits,        \* history: the init evidence of the session
  out           \* the last projection

projectorVars == <<reported, usage, usageBad, session, sessionBad,
                   projections, told, inits, out>>

(* The keys of model_usage that were seen.                                 *)
UsageModels == {m \in Models : usage[m] # Unseen}

NoOutput == [receipt |-> None, proof |-> [effective |-> None,
               canonical |-> None, resolution |-> "unknown"]]

ProjectorInit ==
  /\ reported = {} /\ usage = [m \in Models |-> Unseen] /\ usageBad = FALSE
  /\ session = None /\ sessionBad = FALSE
  /\ projections = 0 /\ told = {} /\ inits = {} /\ out = NoOutput

(* Mutant: a new turn keeps the malformed mark of the last one. *)
ForgetUsage ==
  /\ reported' = {} /\ usage' = [m \in Models |-> Unseen]
  /\ UNCHANGED usageBad

(* begin_turn(): the evidence of a turn is dropped, that of the session    *)
(* stays.                                                                  *)
ForgetTurn ==
  /\ reported' = {} /\ usage' = [m \in Models |-> Unseen]
  /\ usageBad' = FALSE

ProjectorBegin ==
  /\ projections < MaxProjected /\ projections' = projections + 1
  /\ ForgetTurn
  /\ told' = {} /\ out' = NoOutput
  /\ UNCHANGED <<session, sessionBad, inits>>

(* Mutant: the model of an init message is kept as it is. *)
ObserveInitRaw(model) ==
  /\ session' = IF session = None THEN model ELSE session
  /\ sessionBad' = (sessionBad \/ session \notin {None, model})

(* _observe_init_model(): Bad stands for data that is no mapping as well.  *)
ObserveInit(model) ==
  /\ session' = IF session = None /\ model \in Models THEN model ELSE session
  /\ sessionBad' = (\/ sessionBad \/ model = Bad
                    \/ model \in Models /\ session \notin {None, model})

(* Mutant: a later canonical name replaces the earlier one. *)
EntryLast(state, e) ==
  IF e.model = Bad \/ e.canonical = Bad
  THEN [state EXCEPT !.bad = TRUE]
  ELSE [state EXCEPT !.usage[e.model] = e.canonical]

(* One entry of model_usage: a malformed key, value or canonical name, or  *)
(* a canonical name that contradicts an earlier one, taints the turn.      *)
Entry(state, e) ==
  LET known == state.usage[e.model]
  IN  IF \/ e.model = Bad \/ e.canonical = Bad
         \/ /\ known \in Models /\ e.canonical \in Models
            /\ known # e.canonical
      THEN [state EXCEPT !.bad = TRUE]
      ELSE [state EXCEPT !.usage[e.model] =
              IF e.canonical = None /\ known # Unseen
              THEN known ELSE e.canonical]

(* _observe_model_evidence(): the model of a root message, and the usage   *)
(* mapping: None, malformed as a whole (Bad), or a sequence of entries.    *)
Observe(model, nested, entries) ==
  LET after == IF entries \in {None, Bad}
               THEN [usage |-> usage, bad |-> usageBad \/ entries = Bad]
               ELSE FoldLeft(Entry, [usage |-> usage, bad |-> usageBad],
                             entries)
  IN  /\ reported' = reported \cup
           (IF model \in Models /\ ~nested THEN {model} ELSE {})
      /\ usage' = after.usage /\ usageBad' = after.bad

Ambiguous == [effective |-> None, canonical |-> None,
              resolution |-> "ambiguous"]

(* The last lines of _model_provenance(). *)
Resolved(effective, canonical) ==
  [effective |-> effective, canonical |-> canonical, resolution |->
     IF effective = None THEN "unknown" ELSE
     IF canonical \notin {None, effective} THEN "canonicalized" ELSE
     IF Selected \notin {None, effective} THEN "mismatch" ELSE
     IF Selected = None THEN "reported" ELSE
     "exact"]

(* _model_provenance() with several usage keys: the primary model must be  *)
(* one of them or the canonical name of exactly one.                       *)
ByManyKeys(primary) ==
  IF primary = None THEN Ambiguous
  ELSE IF primary \in UsageModels THEN Resolved(primary, usage[primary])
  ELSE IF Cardinality({m \in UsageModels : usage[m] = primary}) = 1
       THEN Resolved(primary, primary)
       ELSE Ambiguous

(* _model_provenance() with the only usage key m. *)
ByOneKey(m) ==
  CASE session = m -> Resolved(session, usage[m])
    [] session \notin {None, m} ->
         IF usage[m] = session THEN Resolved(session, session) ELSE Ambiguous
    [] session = None ->
         IF reported \subseteq {m, usage[m]}
         THEN Resolved(m, usage[m]) ELSE Ambiguous

(* _model_provenance() without usage. *)
ByReport ==
  IF session # None THEN Resolved(session, None) ELSE
  IF Cardinality(reported) > 1 THEN Ambiguous ELSE
  Resolved(IF reported = {} THEN None ELSE CHOOSE m \in reported : TRUE, None)

Provenance ==
  LET primary == IF session # None THEN session
                 ELSE IF Cardinality(reported) = 1
                 THEN CHOOSE m \in reported : TRUE ELSE None
  IN  IF usageBad \/ sessionBad THEN Ambiguous ELSE
      IF session # None /\ ~(reported \subseteq Synthetic \cup {session})
      THEN Ambiguous ELSE
      IF Cardinality(UsageModels) > 1 THEN ByManyKeys(primary) ELSE
      IF Cardinality(UsageModels) = 1
      THEN ByOneKey(CHOOSE m \in UsageModels : TRUE) ELSE
      ByReport

(* Mutant: the receipt falls back to the selected model. *)
ReceiptSelected(p) ==
  IF p.canonical # None THEN p.canonical
  ELSE IF p.effective # None THEN p.effective ELSE Selected

(* The model on the usage receipt and in the completion. *)
ReceiptModel(p) == IF p.canonical # None THEN p.canonical ELSE p.effective

(* project() for an init message: nothing is emitted. *)
ProjectInit ==
  /\ Cardinality(inits) < MaxInits
  /\ \E model \in Models \cup {None, Bad} :
       ObserveInit(model) /\ inits' = (inits \cup {model}) \ {None}
  /\ out' = NoOutput
  /\ UNCHANGED <<reported, usage, usageBad, projections, told>>

(* The model an assistant or result message names, whether the message is  *)
(* nested under a tool use, and its usage mapping.                         *)
Evidence == [model : Models, nested : BOOLEAN, entries : UsageOf]
            \cup [model : {None}, nested : {FALSE}, entries : UsageOf]

Take(e) ==
  /\ projections > 0 /\ Cardinality(told) < MaxMessages
  /\ UNCHANGED <<session, sessionBad, projections, inits>>
  /\ Observe(e.model, e.nested, e.entries)
  /\ told' = told \cup {e}

(* _project_assistant() and _project_result(): evidence first, then the    *)
(* projection carries the provenance as it is with that evidence; a result *)
(* also has a receipt and a completion.                                    *)
ProjectAssistant ==
  \E e \in Evidence :
    Take(e) /\ out' = [proof |-> Provenance', receipt |-> None]
ProjectResult ==
  \E e \in Evidence :
    Take(e) /\ out' = [proof |-> Provenance',
                      receipt |-> ReceiptModel(Provenance')]

(* _project_user() and every other message: tool results stay internal.    *)
ProjectOther ==
  /\ out' = NoOutput
  /\ UNCHANGED <<reported, usage, usageBad, session, sessionBad,
                 projections, told, inits>>

ProjectorNext ==
  ProjectorBegin \/ ProjectInit \/ ProjectAssistant \/ ProjectResult
    \/ ProjectOther

-----------------------------------------------------------------------------
ProjectorTypeOK ==
  /\ reported \subseteq Models
  /\ usage \in [Models -> Models \cup {None, Unseen}]
  /\ usageBad \in BOOLEAN /\ sessionBad \in BOOLEAN
  /\ session \in Models \cup {None}
  /\ out.proof.resolution \in {"unknown", "ambiguous", "canonicalized",
                         "mismatch", "reported", "exact"}

(* What the turn's evidence says, as one set whatever its order: the usage *)
(* entries, the models of root messages, and the models of init messages.  *)
Entries == UNION {ToSet(e.entries) : e \in {x \in told :
                                       x.entries \notin {None, Bad}}}
Roots == {e.model : e \in {x \in told : ~x.nested}} \cap Models
InitModels == inits \cap Models
Keys == {e.model : e \in Entries}
CanonicalOf(m) ==
  {e.canonical : e \in {x \in Entries : x.model = m}} \cap Models

Malformed ==
  \/ Bad \in inits \/ Cardinality(InitModels) > 1
  \/ \E e \in told : e.entries = Bad
  \/ \E e \in Entries : Bad \in {e.model, e.canonical}
  \/ \E m \in Keys : Cardinality(CanonicalOf(m)) > 1

(* m is named by the usage: as a key, or as the name of exactly one key.   *)
NamedByUsage(m) ==
  m \in Keys \/ Cardinality({k \in Keys : CanonicalOf(k) = {m}}) = 1

(* The models the evidence proves to have served the turn.                 *)
Proved ==
  IF InitModels # {}
  THEN {m \in InitModels : /\ Roots \subseteq Synthetic \cup {m}
                           /\ Keys = {} \/ NamedByUsage(m)}
  ELSE IF Cardinality(Keys) = 1
  THEN {m \in Keys : Roots \subseteq {m} \cup CanonicalOf(m)}
  ELSE {m \in Roots : Roots = {m} /\ (Keys = {} \/ NamedByUsage(m))}

(* The effective model is the one the evidence of this turn and of the     *)
(* session proves, read as a set: it does not depend on the order of the   *)
(* messages, on the way entries are spread over them, or on what earlier   *)
(* turns said; malformed or contradictory evidence proves nothing.         *)
EffectiveIsProved ==
  LET p == Provenance IN
  /\ Malformed => p = Ambiguous
  /\ ~Malformed => {p.effective} \ {None} = Proved

(* No model appears in a public event unless the SDK stated it in this     *)
(* turn or at the start of the session: the selected model is never used   *)
(* to fill a gap.                                                          *)
NoModelIsGuessed ==
  {out.receipt, out.proof.effective, out.proof.canonical} \subseteq
    {None} \cup InitModels \cup Roots \cup Keys
      \cup UNION {CanonicalOf(m) : m \in Keys}
=============================================================================
