------------------------------- MODULE MCTurn -------------------------------
(* What decides whether a turn may run, may go on and may complete: the     *)
(* admission checks, the guard over the SDK's messages, the projector of    *)
(* the model, the billing policy and the data checks of the tool bridge.    *)
(* They share no state: a behaviour is one of one of them.                  *)
EXTENDS TurnChecks, ToolSchema

CONSTANTS AnyStatus,    \* the statuses a child may print
          MaxBlocks     \* bound: blocks in a user message

VARIABLE part

Keyed == {m \in Models : m \notin Synthetic}
Known == [model : Keyed, canonical : Keyed \cup {None}]
MCUsageOf ==
  {None, Bad} \cup {<<e>> : e \in Known}
    \cup {<<[model |-> "m1", canonical |-> Bad]>>,
          <<[model |-> Bad, canonical |-> None]>>}
    \cup {<<[model |-> "m1", canonical |-> c],
            [model |-> "m2", canonical |-> d]>> : c, d \in {"m2", None}}

(* Statuses in which at most one field is not as a subscription needs it.  *)
MCAnyStatus ==
  LET good == [json |-> TRUE, loggedIn |-> "yes", method |-> "oauth",
               provider |-> "first", plan |-> "subscription", exit |-> 0]
  IN  {s \in StatusPayloads :
         Cardinality({f \in DOMAIN good : s[f] # good[f]}) <= 1}

NoEnvironment == [parent |-> [k \in Denied \cup Knobs |-> "absent"],
                  configured |-> [k \in Denied \cup Knobs |-> "absent"]]
NoInstall == [installed |-> FALSE, sdk |-> Malformed3, cli |-> Malformed3,
              statements |-> <<>>]
OneStatus == CHOOSE s \in AnyStatus : TRUE

MCInit ==
  /\ part \in {"guard", "projector", "billing", "env", "auth", "install",
               "input", "bridge"}
  /\ GuardInit /\ ProjectorInit /\ BillingInit /\ AuthInit
  /\ IF part = "env" THEN childEnv \in Environments
                     ELSE childEnv = NoEnvironment
  /\ IF part = "auth" THEN status \in AnyStatus ELSE status = OneStatus
  /\ IF part = "install" THEN install \in Installs ELSE install = NoInstall
  /\ IF part = "input"
     THEN content \in UNION {[1 .. n -> InputBlocks] : n \in 0 .. MaxBlocks}
     ELSE content = <<>>
  /\ IF part = "bridge" THEN SchemaInit ELSE datum = [of |-> "nothing"]

inputVars == <<admissionVars, datum, part>>

AuthPart(A) ==
  /\ part = "auth" /\ A
  /\ UNCHANGED <<guardVars, projectorVars, billingVars, inputVars>>

MCNext ==
  \/ /\ part = "guard" /\ GuardNext
     /\ UNCHANGED <<projectorVars, billingVars, authVars, inputVars>>
  \/ /\ part = "projector" /\ ProjectorNext
     /\ UNCHANGED <<guardVars, billingVars, authVars, inputVars>>
  \/ /\ part = "billing" /\ BillingNext
     /\ UNCHANGED <<guardVars, projectorVars, authVars, inputVars>>
  \/ AuthPart(AuthNext)

mcVars == <<guardVars, projectorVars, billingVars, authVars, inputVars>>
MCSpec == MCInit /\ [][MCNext]_mcVars /\ WF_mcVars(AuthPart(ProbeStep))
=============================================================================
