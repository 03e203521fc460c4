---------------------------- MODULE ToolBridge ----------------------------
(* HostToolBridge (tool_bridge.py): the handlers of the in-process MCP      *)
(* server, through which the Claude CLI asks Hermes to run its tools.  One  *)
(* bridge serves every turn and every SDK session of a runtime.             *)
(*                                                                          *)
(* A call runs without interruption up to the await of the host's tool, so  *)
(* it is two steps: Execute (or Refuse), and HostReturns when the host is   *)
(* done or the call's task is cancelled.  What a tool is asked  *)
(* and what it answers is left out; the validation of the arguments is a    *)
(* choice of the environment.                                               *)
EXTENDS Integers

CONSTANTS
  Turns,       \* the turns of the runtime, numbered in the order they begin
  Calls,       \* the tool calls the CLI makes
  NoTurn       \* the correlation id before the first turn

ASSUME TurnsAssumption ==
  /\ Turns \subseteq Nat \ {0} /\ NoTurn \notin Turns
  /\ \A t \in Turns : 1..t \subseteq Turns

VARIABLES
  correlation,   \* _correlation_id: the turn that calls are bound to
  executions,    \* _host_execution_count
  call           \* of each call: its state, the turn whose prompt the CLI is
                 \* answering with it, and the turn its request id names

bridgeVars == <<correlation, executions, call>>

(* What host.cancellation_requested() says; it may raise or return a value *)
(* that is no Boolean.                                                      *)
Polls == {"no", "yes", "unavailable"}

CallStates == {"unmade", "refused", "executing", "over"}

BridgeTypeOK ==
  /\ correlation \in Turns \cup {NoTurn}
  /\ executions \in Nat
  /\ call \in [Calls -> [st : CallStates, turn : Turns \cup {NoTurn},
                         under : Turns \cup {NoTurn}]]

BridgeInit ==
  /\ correlation = NoTurn
  /\ executions = 0
  /\ call = [c \in Calls |-> [st |-> "unmade", turn |-> NoTurn,
                              under |-> NoTurn]]

(* Mutant: the first turn's correlation id stays. *)
BeginFirstTurn(t) == IF correlation = NoTurn THEN t ELSE correlation

(* begin_turn(): later calls belong to turn t. *)
BeginTurn(t) == t

(* The request id that a handler gives the call c is prefixed with the     *)
(* correlation id of that moment.                                           *)
Made(c, t, st) == [call EXCEPT ![c] = [st |-> st, turn |-> t,
                                       under |-> correlation]]

(* A malformed request id, an unknown tool, arguments that do not match the *)
(* schema, or a host that cancels or cannot say: the CLI is told, the host  *)
(* is not asked.                                                            *)
Refuse(c, t) ==
  /\ call[c].st = "unmade"
  /\ call' = Made(c, t, "refused")
  /\ UNCHANGED <<correlation, executions>>

(* The execution counts from before the host is called, also when the host *)
(* then returns nothing that can be awaited and the call fails at once.     *)
Execute(c, t, poll) ==
  /\ call[c].st = "unmade" /\ poll = "no"
  /\ executions' = executions + 1
  /\ call' \in {Made(c, t, "executing"), Made(c, t, "over")}
  /\ UNCHANGED correlation

(* The host's tool returned or raised, and the CLI gets its result, or an   *)
(* error when the host cancels meanwhile or cannot say; or the SDK cancels  *)
(* the task of the call, and CancelledError is passed on.                   *)
HostReturns(c) ==
  /\ call[c].st = "executing"
  /\ call' = [call EXCEPT ![c].st = "over"]
  /\ UNCHANGED <<correlation, executions>>

(* The host was asked to run a tool in answer to the prompt of turn t. *)
Performed(t) ==
  \E c \in Calls : call[c].turn = t /\ call[c].st \notin {"unmade", "refused"}
=============================================================================
