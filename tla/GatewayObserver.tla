-------------------------- MODULE GatewayObserver --------------------------
(***************************************************************************)
(* V4GatewayObserver: what one observer lets pass of the events and calls  *)
(* of a gateway session.  Its state is a record, and an event or a call is *)
(* an operator from one record to the next; the first violation latches,   *)
(* and nothing is observed after it.                                       *)
(***************************************************************************)
EXTENDS Naturals, FiniteSets, Sequences

CONSTANTS
  ToolCalls,     \* identities of tool calls
  Requests,      \* identities of approval requests
  Parents,       \* identities of parent agents
  MaxTasks,      \* bound: tasks of a delegation
  EventLimit,    \* max_events, MAX_EVENTS
  NoOne          \* no request pending, no parent known

ASSUME ObserverAssumption ==
  /\ MaxTasks \in Nat \ {0} /\ EventLimit \in Nat
  /\ NoOne \notin Requests /\ NoOne \notin Parents

Tasks == 0..(MaxTasks - 1)
ChildPhases == {"spawn", "start", "complete"}

(* An event: ok is FALSE when its session, its tool name or an identity in *)
(* it is malformed or not the expected one; both is TRUE of a terminal     *)
(* that the gateway's own projection sees as well (it knows fewer types).  *)
Plain == [kind : {"plain", "changed", "start", "usage"}, ok : {TRUE}]
Malformed == [kind : {"plain"}, ok : {FALSE}]
Approvals == [kind : {"approval"}, request : Requests, ok : {TRUE}]
ToolEvents == [kind : {"toolStart", "toolComplete"}, call : ToolCalls,
               ok : {TRUE}]
ChildEvents == [kind : {"child"}, phase : ChildPhases, index : Tasks,
                count : 1..MaxTasks, parent : Parents \cup {NoOne},
                ok : {TRUE}]
Terminals == [kind : {"terminal"}, status : {"completed", "failed"},
              both : BOOLEAN, ok : {TRUE}]
AnyEvent ==
  Plain \cup Malformed \cup Approvals \cup ToolEvents \cup ChildEvents
    \cup Terminals

(* __init__(): expect is expected_terminal_count, tasks is                 *)
(* expected_task_count, or 0.                                              *)
NewObserver(expect, tasks) ==
  [failed |-> FALSE, pending |-> NoOne, denied |-> FALSE, guard |-> FALSE,
   recovery |-> FALSE, active |-> {}, phases |-> <<>>, taskCount |-> 0,
   parent |-> NoOne, linked |-> {}, terminals |-> 0, terminal |-> "none",
   expect |-> expect, tasks |-> tasks, events |-> 0, turnTerminals |-> 0,
   closes |-> FALSE]

Observers ==
  [failed : BOOLEAN, pending : Requests \cup {NoOne}, denied : BOOLEAN,
   guard : BOOLEAN, recovery : BOOLEAN, active : SUBSET ToolCalls,
   phases : Seq(ChildPhases), taskCount : 0..MaxTasks,
   parent : Parents \cup {NoOne}, linked : SUBSET Tasks, terminals : 0..2,
   terminal : {"none", "completed", "failed"}, expect : {1, 2},
   tasks : 0..MaxTasks, events : 0..EventLimit, turnTerminals : 0..2,
   closes : BOOLEAN]

Fail(o) == [o EXCEPT !.failed = TRUE]

(* The phase of a task, whose index counts from 0. *)
PhaseOf(o, index) ==
  IF index < Len(o.phases) THEN o.phases[index + 1] ELSE "none"

(* The order of a task's events: a new task has the next index.            *)
Ordered(o, e) ==
  \/ /\ PhaseOf(o, e.index) = "none" /\ e.phase \in {"spawn", "start"}
     /\ e.index = Len(o.phases)
  \/ PhaseOf(o, e.index) = "spawn" /\ e.phase = "start"
  \/ PhaseOf(o, e.index) = "start" /\ e.phase = "complete"

(* Mutant: a tool event is refused while a request is pending, but not     *)
(* after a denial.                                                         *)
PermittedPending(o) == o.pending = NoOne

(* What _event() asks of a tool event: no request is open, and none was    *)
(* denied without a later approval.                                        *)
Permitted(o) == o.pending = NoOne /\ ~o.guard

(* The checks of _event() before the terminal ones.                        *)
Admitted(o, e) ==
  /\ e.ok /\ o.events < EventLimit
  /\ e.kind = "approval" => o.pending = NoOne
  /\ e.kind \in {"toolStart", "toolComplete"} => Permitted(o)
  /\ e.kind = "toolStart" => e.call \notin o.active
  /\ e.kind = "toolComplete" => e.call \in o.active
  /\ e.kind = "child" =>
       /\ e.index < e.count /\ Ordered(o, e) /\ o.taskCount \in {0, e.count}
       /\ e.parent # NoOne => o.parent \in {NoOne, e.parent}

(* The assignments of _event(). *)
Noted(o, e) ==
  LET n == [o EXCEPT !.events = @ + 1, !.closes = FALSE]
  IN  CASE e.kind = "approval" -> [n EXCEPT !.pending = e.request]
        [] e.kind = "toolStart" -> [n EXCEPT !.active = @ \cup {e.call}]
        [] e.kind = "toolComplete" -> [n EXCEPT !.active = @ \ {e.call}]
        [] e.kind = "child" ->
             [n EXCEPT
                !.taskCount = e.count,
                !.phases = IF e.index = Len(@) THEN Append(@, e.phase)
                           ELSE [@ EXCEPT ![e.index + 1] = e.phase],
                !.parent = IF e.parent # NoOne THEN e.parent ELSE @,
                !.linked = IF e.parent # NoOne THEN @ \cup {e.index} ELSE @]
        [] OTHER -> n

AllComplete(o) == \A i \in 1..Len(o.phases) : o.phases[i] = "complete"

(* Mutant: the last terminal may come before the tasks have completed. *)
ChildrenStarted(o) ==
  /\ o.taskCount = Len(o.phases)
  /\ o.taskCount > 1 => o.linked \in {{}, 0..(o.taskCount - 1)}

(* The last terminal: every task completed, and with several tasks each is *)
(* linked to the parent, when any is.                                      *)
ChildrenClosed(o) ==
  /\ o.taskCount = Len(o.phases) /\ AllComplete(o)
  /\ o.taskCount > 1 => o.linked \in {{}, 0..(o.taskCount - 1)}

(* The terminal part of _event(): the first of two terminals only counts.  *)
Terminated(o, status) ==
  LET n == [o EXCEPT !.terminals = @ + 1, !.closes = TRUE,
                     !.turnTerminals = @ + 1]
  IN  IF \/ o.pending # NoOne \/ o.active # {} \/ n.terminals > o.expect
         \/ o.expect = 2 /\ (status # "completed" \/ o.taskCount # o.tasks)
      THEN Fail(o)
      ELSE IF o.expect = 2 /\ n.terminals = 1 THEN n
      ELSE IF ChildrenClosed(o) THEN [n EXCEPT !.terminal = status]
      ELSE Fail(o)

(* _event() for next_event() and wait_event(); after the last terminal the *)
(* only event that passes is sessions.changed, and it is not counted.      *)
Event(o, e) ==
  CASE o.terminal # "none" -> IF e.kind = "changed" THEN o ELSE Fail(o)
    [] o.terminal = "none" /\ ~Admitted(o, e) -> Fail(o)
    [] OTHER -> IF e.kind = "terminal" THEN Terminated(Noted(o, e), e.status)
                ELSE Noted(o, e)

(* call("approval.respond"): the request must be the pending one, and the  *)
(* answer takes effect when the gateway says it resolved.                  *)
Respond(o, request, decision, resolved) ==
  IF request # o.pending \/ o.pending = NoOne \/ ~resolved THEN Fail(o)
  ELSE [o EXCEPT !.pending = NoOne,
                 !.denied = @ \/ decision = "deny",
                 !.recovery = @ \/ (decision = "allow" /\ o.denied),
                 !.guard = IF decision = "deny" THEN TRUE
                           ELSE IF o.denied THEN FALSE ELSE @]

(* turn_snapshot(): the turn has one terminal and it is its last event;    *)
(* the next turn starts at the cursors it sets.                            *)
SnapshotOK(o) ==
  /\ ~o.failed /\ o.turnTerminals = 1 /\ o.closes
  /\ o.pending = NoOne /\ o.active = {}
Snapshot(o) == [o EXCEPT !.turnTerminals = 0, !.closes = FALSE]

(* collect_delegation_observation(): the child projections are closed.     *)
DelegationOK(o) ==
  /\ ~o.failed /\ AllComplete(o)
  /\ Len(o.phases) > 1 => o.linked \in {{}, 0..(Len(o.phases) - 1)}

-----------------------------------------------------------------------------
(* One observer over any sequence of events and answers.                   *)
VARIABLES
  observer,   \* the V4GatewayObserver
  heard       \* history: requests, answers and tool events, in order

observerVars == <<observer, heard>>

ObserverInit ==
  /\ \/ observer = NewObserver(1, 0)
     \/ \E n \in 1..MaxTasks : observer = NewObserver(2, n)
  /\ heard = <<>>

Heard(word) == heard' = IF observer'.failed THEN heard
                        ELSE Append(heard, word)

ObserveEvent ==
  /\ ~observer.failed /\ observer.events < EventLimit
  /\ \E e \in AnyEvent :
       /\ observer' = Event(observer, e)
       /\ CASE e.kind = "approval" -> Heard("request")
            [] e.kind \in {"toolStart", "toolComplete"} -> Heard("tool")
            [] OTHER -> UNCHANGED heard

ObserveAnswer ==
  /\ ~observer.failed
  /\ \E request \in Requests, decision \in {"allow", "deny"},
        resolved \in BOOLEAN :
       /\ observer' = Respond(observer, request, decision, resolved)
       /\ Heard(decision)

ObserveSnapshot ==
  /\ SnapshotOK(observer) /\ observer' = Snapshot(observer)
  /\ UNCHANGED heard

ObserverNext == ObserveEvent \/ ObserveAnswer \/ ObserveSnapshot

ObserverTypeOK ==
  /\ observer \in Observers
  /\ Len(observer.phases) <= observer.taskCount
  /\ observer.terminals <= observer.expect
  /\ heard \in Seq({"request", "allow", "deny", "tool"})

(* No tool starts or completes between a request and its answer, or after  *)
(* a denial that no later approval followed: the denial the snapshot calls *)
(* tool-free was free of tools.                                            *)
DenialIsToolFree ==
  \A i \in 1..Len(heard) : \A j \in 1..(i - 1) :
    /\ heard[i] = "tool" /\ heard[j] # "tool"
    /\ \A k \in (j + 1)..(i - 1) : heard[k] = "tool"
    => heard[j] = "allow"

(* A session that reached its last terminal is whole: the delegation       *)
(* collector accepts its children, nothing is pending, no tool runs, and   *)
(* in a session that delegates the expected number of tasks completed.     *)
TerminalIsWhole ==
  (~observer.failed /\ observer.terminal # "none") =>
    /\ DelegationOK(observer) /\ observer.terminals = observer.expect
    /\ observer.pending = NoOne /\ observer.active = {}
    /\ Len(observer.phases) = observer.taskCount
    /\ observer.expect = 2 => observer.taskCount = observer.tasks

(* The observer's terminal and its tool-free denials are proved by all it  *)
(* was told, in whatever order it came (v4_gateway_observer.py).           *)
ObserverFailsClosed == DenialIsToolFree /\ TerminalIsWhole
=============================================================================
