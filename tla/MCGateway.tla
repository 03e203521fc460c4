---------------------------- MODULE MCGateway ----------------------------
(* The live gateway stack, and the suites and trials beside it, one part of *)
(* the behaviours each: the client and its reader thread; one observer; a   *)
(* session that any client drives; a session that the runner of a trial     *)
(* drives; the sandbox host and the local executor; a live case; a local    *)
(* trial; a probe of the host's database.  They share no state: a behaviour *)
(* is one of one of them.                                                   *)
EXTENDS GatewayStack

VARIABLE part

MCRowBudget == [r \in Rows |-> IF r = "short" THEN 1 ELSE 2]
MCChildrenOf == [r \in Rows |-> IF r = "tasks" THEN 1 ELSE 0]
MCLiveEvents ==
  {e \in Plain : e.kind # "plain"} \cup Malformed \cup Approvals
    \cup Terminals \cup ToolEvents
    \cup {e \in ChildEvents : /\ e.count = 1 /\ e.parent = NoOne
                              /\ e.phase # "spawn"}

gatewayVars == <<clientVars, observerVars, runVars>>
localVars == <<sandboxVars, case, trialVars, probeVars>>
allVars == <<gatewayVars, localVars, part>>

(* A part that is not the behaviour's own is at rest.                       *)
ClientAtRest ==
  /\ reader = "ended" /\ stop = FALSE /\ readerError = "none"
  /\ responses = <<>> /\ events = <<>> /\ backlog = <<>>
  /\ nextId = 1 /\ call = Done /\ unanswered = {}
  /\ sent = 0 /\ gone = {} /\ abandoned = {}
LiveAtRest ==
  /\ LiveInit /\ run = NoRun /\ gate.expect = 1 /\ live.planned = 1
ObserverAtRest == observer = NewObserver(1, 0) /\ heard = <<>>
SandboxAtRest ==
  /\ host = NewHost(TRUE) /\ local = NoLocal
  /\ files = Seeded
TrialAtRest ==
  /\ trial = NewTrial("approval", "positive", 0) /\ queue = <<>>
  /\ store = NewRow /\ seen = NothingSeen

MCInit ==
  /\ part \in {"client", "observer", "session", "run", "sandbox", "suites",
               "trials", "probe"}
  /\ IF part = "client" THEN ClientInit ELSE ClientAtRest
  /\ IF part = "observer" THEN ObserverInit ELSE ObserverAtRest
  /\ CASE part = "session" -> LiveInit /\ run = NoRun
       [] part = "run" -> RunInit
       [] OTHER -> LiveAtRest
  /\ IF part = "sandbox" THEN SandboxInit ELSE SandboxAtRest
  /\ SuitesInit
  /\ IF part = "trials" THEN TrialsInit ELSE TrialAtRest
  /\ IF part = "probe" THEN ProbeInit ELSE ProbeAtRest

ClientPart == part = "client" /\ UNCHANGED <<observerVars, runVars>>
ObserverPart == part = "observer" /\ UNCHANGED <<clientVars, runVars>>
SessionPart ==
  part = "session" /\ UNCHANGED <<clientVars, observerVars, run>>
RunPart == part = "run" /\ UNCHANGED <<clientVars, observerVars>>

MCNext ==
  \/ /\ \/ ClientPart /\ ClientNext
        \/ ObserverPart /\ ObserverNext
        \/ SessionPart /\ LiveNext
        \/ RunPart /\ RunNext
     /\ UNCHANGED <<localVars, part>>
  \/ /\ part = "sandbox" /\ SandboxNext
     /\ UNCHANGED <<gatewayVars, case, trialVars, probeVars, part>>
  \/ /\ part = "suites" /\ SuitesNext
     /\ UNCHANGED <<gatewayVars, sandboxVars, trialVars, probeVars, part>>
  \/ /\ part = "trials" /\ TrialsNext
     /\ UNCHANGED <<gatewayVars, sandboxVars, case, probeVars, part>>
  \/ /\ part = "probe" /\ ProbeNext
     /\ UNCHANGED <<gatewayVars, sandboxVars, case, trialVars, part>>

MCSpec ==
  /\ MCInit /\ [][MCNext]_allVars
  /\ ClientFairness /\ RunFairness /\ ProbeFairness

-----------------------------------------------------------------------------
(* Every call of a client, and every wait for delegations to settle, ends   *)
(* by its deadline (v4_gateway.py:294-343, v4_live_session.py:491-520).     *)
Waiting == call.op # "idle" \/ Settling
WaitsEnd == Waiting ~> ~Waiting

(* The reader thread, every call, every wait and every trial come to an     *)
(* end, with a gateway or a host that may fall silent (v4_gateway.py,       *)
(* v4_live_session.py).                                                     *)
GatewayEnds == ReaderEnds /\ WaitsEnd /\ TrialEnds
=============================================================================
