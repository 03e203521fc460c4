----------------------------- MODULE LiveSuites -----------------------------
(* parity/active_suite.py and parity/native_suite.py: one live case, from   *)
(* the checks before it through its turns and the closing of its runtimes   *)
(* to the bundle it returns.  A case is a sequence of groups; a group opens *)
(* its runtimes, runs its turns one after another and closes the runtimes   *)
(* in its finally clause.  An active case runs under wait_for(), a native   *)
(* scenario under no deadline of its own.                                   *)
EXTENDS NativeSandbox

CONSTANTS CaseBudgets,      \* bound: turn budgets a case may be given
          MaxFaulty         \* bound: turns of a case that go wrong

ASSUME SuitesAssumption == CaseBudgets \subseteq Nat

VARIABLE case

(* A turn of a script: its runtime, and what it is meant to meet: an answer *)
(* of the provider, or a refusal by the runtime before the provider.        *)
Ask(on) == [on |-> on, meets |-> "answer"]
Refuse(on, code) == [on |-> on, meets |-> code]
One(turns) == <<[runtimes |-> <<"a">>, turns |-> turns]>>

Script ==
  [source_docs |-> One(<<Ask("a"), Ask("a")>>),
   image |-> One(<<Refuse("a", "image_invalid"), Ask("a")>>),
   memory |-> One(<<Refuse("a", "state_invalid"), Ask("a"), Ask("a")>>),
   threads |-> <<[runtimes |-> <<"a", "b">>,
                  turns |-> <<Ask("a"), Ask("b"), Ask("a"), Ask("b")>>]>>,
   restart |-> <<[runtimes |-> <<"a">>, turns |-> <<Ask("a")>>],
                 [runtimes |-> <<"b">>, turns |-> <<Ask("b")>>]>>,
   instruction |-> One(<<Ask("a")>>),
   native |-> One(<<Ask("a")>>)]
LiveRows == DOMAIN Script
Denying == {"source_docs", "restart", "instruction", "native"}

MinimumTurns ==
  [source_docs |-> 2, image |-> 1, memory |-> 2, threads |-> 4,
   restart |-> 2, instruction |-> 1, native |-> 1]
MinimumSessions ==
  [r \in LiveRows |-> IF r = "threads" THEN 2 ELSE MinimumTurns[r]]

(* The checks before a case, but for the budget: the catalog maps the row,  *)
(* both checkouts are exact, the live lane is enabled, the model is the     *)
(* authorized one and the tool inventory is the declared one.               *)
Gates == {"mapped", "source", "host", "enabled", "model", "inventory"}

(* A turn as _run_turn(), or _execute_live() of a scenario, reduces it.     *)
(* reached: whether the provider was asked; clean: no session state, tool   *)
(* or compaction was seen; text: the final text holds what the row wants    *)
(* and nothing it forbids.                                                  *)
Turn(terminal, code, billing, fallback, text, state, reached) ==
  [terminal |-> terminal, code |-> code, billing |-> billing,
   fallback |-> fallback, text |-> text, state |-> state,
   clean |-> state = 0, reached |-> reached]
Refused(code) == Turn("failed", code, "none", FALSE, FALSE, 0, FALSE)
Good(state) ==
  Turn("completed", "none", "subscription_included", FALSE, TRUE, state, TRUE)
ProviderAnswers ==
  LET short(f) ==     \* completed, but not with the text that the row wants
        {Turn("completed", "none", b, f, FALSE, 1, TRUE) :
           b \in {"none", "subscription_included", "unsafe"}}
      failed == {Turn("failed", "other", b, FALSE, FALSE, 1, TRUE) :
                   b \in {"none", "unsafe"}}
      ended == {Turn(t, "none", "none", FALSE, FALSE, 0, TRUE) :
                  t \in {"cancelled", "invalid"}}
  IN  {Good(s) : s \in 0 .. 2} \cup short(FALSE) \cup short(TRUE)
        \cup failed \cup ended
TurnsOf(script) ==
  IF script.meets = "answer"
  THEN ProviderAnswers \cup {Refused("auth"), Refused("other")}
  ELSE {Refused(script.meets), Refused("auth"), Refused("other")}

(* HostToolBridge hands a request id to execute_tool(), which takes none:   *)
(* the call raises in the bridge and the sandbox is not reached.            *)
SandboxTakes == {"name", "arguments"}
BridgePasses == {"name", "arguments", "request_id"}
Bridged(h, req) ==
  IF BridgePasses \subseteq SandboxTakes
  THEN ExecuteTool(h, Seeded, req, TRUE).host ELSE h

NoCase ==
  [row |-> "none", step |-> "start", budget |-> 0, group |-> 0, turns |-> <<>>,
   here |-> 0, closed |-> 0, open |-> {},
   hosts |-> <<NewHost(FALSE), NewHost(FALSE)>>,
   called |-> FALSE, broke |-> "no", cut |-> FALSE, spent |-> 0,
   bundle |-> [cls |-> "none", reason |-> "none", count |-> 0]]

Bundle(cls, reason, count) == [cls |-> cls, reason |-> reason, count |-> count]
Blocked(reason) == Bundle("ENVIRONMENT_BLOCKED", reason, 0)
Return(c, bundle) == [c EXCEPT !.step = "done", !.bundle = bundle]

GroupOf(c) == Script[c.row][c.group]
OpenGroup(c, g) ==
  LET group == Script[c.row][g]
  IN  [c EXCEPT !.step = "turn", !.group = g, !.here = 0, !.closed = 0,
                !.open = @ \cup {group.runtimes[i] :
                                   i \in DOMAIN group.runtimes}]

-----------------------------------------------------------------------------
LiveOk(t) ==
  /\ t.terminal = "completed" /\ t.billing = "subscription_included"
  /\ ~t.fallback /\ t.text
IsRefusal(t, code) == t.code = code /\ t.billing = "none"
HostRecovered(h) == h.denied /\ h.recovered

(* What the branch of a row asks of its turns and of the hosts of its       *)
(* groups.                                                                  *)
Used(h, tool) == \E i \in DOMAIN h.trace : h.trace[i].tool = tool
CaseOk(row, ts, hs) ==
  CASE row = "source_docs" ->
         /\ LiveOk(ts[1]) /\ LiveOk(ts[2])
         /\ hs[1].successes >= 2 /\ HostRecovered(hs[1])
    [] row = "image" ->
         /\ ts[1].terminal = "failed" /\ IsRefusal(ts[1], "image_invalid")
         /\ LiveOk(ts[2])
    [] row = "memory" ->
         /\ IsRefusal(ts[1], "state_invalid") /\ LiveOk(ts[2]) /\ LiveOk(ts[3])
         /\ ts[2].state # 0 /\ ts[3].state # 0 /\ ts[2].state = ts[3].state
    [] row = "threads" ->
         (\A i \in DOMAIN ts : LiveOk(ts[i])) /\ ts[1].state # ts[2].state
    [] row = "restart" ->
         /\ LiveOk(ts[1]) /\ LiveOk(ts[2]) /\ HostRecovered(hs[1])
         /\ Used(hs[2], "exec")
    [] row = "instruction" -> LiveOk(ts[1]) /\ HostRecovered(hs[1])

(* Mutant: every turn counts, asked of the provider or not. *)
AllTurns(ts) == Len(ts)
ProviderTurns(ts) ==
  Cardinality({i \in DOMAIN ts : ts[i].billing # "none"})

AuthRefused(ts, hs) ==
  /\ ProviderTurns(ts) = 0
  /\ \A i \in DOMAIN ts : /\ ts[i].terminal = "failed" /\ ts[i].code = "auth"
                          /\ ts[i].billing = "none" /\ ts[i].clean
  /\ \A g \in DOMAIN hs : hs[g].trace = <<>> /\ hs[g].successes = 0
Unsafe(ts) ==
  \E i \in DOMAIN ts : ts[i].billing = "unsafe" \/ ts[i].fallback
Unbilled(ts) ==
  \E i \in DOMAIN ts : ts[i].terminal = "completed" /\ ts[i].billing = "none"

(* Mutant: a turn without evidence excuses an unsafe one. *)
ActiveVerdictUnbilled(row, ts, hs) ==
  LET n == ProviderTurns(ts)
  IN  IF AuthRefused(ts, hs) THEN Blocked("auth")
      ELSE IF Unbilled(ts) THEN Blocked("unbilled")
      ELSE IF Unsafe(ts) THEN Bundle("VERIFIED_FAILURE", "unsafe", n)
      ELSE IF CaseOk(row, ts, hs) THEN Bundle("COMPLETE", "none", n)
      ELSE Bundle("VERIFIED_FAILURE", "behavior", n)
(* The end of _run_live_case(), and the bundle the suite makes of it: what  *)
(* is blocked reports no turns, whatever was spent.                         *)
ActiveVerdict(row, ts, hs) ==
  LET n == ProviderTurns(ts)
  IN  IF AuthRefused(ts, hs) THEN Blocked("auth")
      ELSE IF Unsafe(ts) THEN Bundle("VERIFIED_FAILURE", "unsafe", n)
      ELSE IF Unbilled(ts) THEN Blocked("unbilled")
      ELSE IF CaseOk(row, ts, hs) THEN Bundle("COMPLETE", "none", n)
      ELSE Bundle("VERIFIED_FAILURE", "behavior", n)

(* What grade_native_trace() makes of a scenario: its grader answers, or    *)
(* cannot be run.                                                           *)
NativeGrades == {"passed", "failed", "unavailable"}

(* The end of native_scenario_suite(), which always reports one turn.       *)
NativeVerdict(t, h, grade) ==
  IF t.billing = "unsafe" THEN Bundle("VERIFIED_FAILURE", "unsafe", 1)
  ELSE IF t.billing = "none" THEN Bundle("ENVIRONMENT_BLOCKED", "unbilled", 1)
  ELSE IF t.fallback THEN Bundle("VERIFIED_FAILURE", "fallback", 1)
  ELSE IF ~(t.terminal = "completed" /\ HostRecovered(h) /\ h.successes >= 1)
  THEN Bundle("VERIFIED_FAILURE", "recovery", 1)
  ELSE IF grade = "passed" THEN Bundle("COMPLETE", "none", 1)
  ELSE Bundle("VERIFIED_FAILURE", grade, 1)

(* After the last group; an exception or the deadline comes before the      *)
(* turns of a case are recorded, so they count for nothing.  (An exception  *)
(* the native suite does not catch is the runner's: see ParityRunner.)      *)
Verdict(c, grade) ==
  IF c.row = "native" /\ c.broke = "no"
  THEN NativeVerdict(c.turns[1], c.hosts[1], grade) ELSE
  IF c.row = "native" THEN Bundle("VERIFIED_FAILURE", "raised", 1) ELSE
  IF c.broke = "raised" THEN Bundle("VERIFIED_FAILURE", "raised", 0) ELSE
  IF c.broke = "timeout" THEN Blocked("timeout") ELSE
  ActiveVerdict(c.row, c.turns, c.hosts)

-----------------------------------------------------------------------------
(* active_agentic_suite() and native_scenario_suite() up to the case.       *)
Enter(row, held, budget) ==
  /\ case.step = "start"
  /\ LET c == [case EXCEPT !.row = row, !.budget = budget,
                           !.hosts[1] = NewHost(row \in Denying)]
     IN  case' = IF held = Gates /\ budget >= MinimumTurns[row]
                 THEN OpenGroup(c, 1)
                 ELSE Return(c, Blocked("gate"))

(* Rows that a pytest run covers, and rows that need a delegate, spend no   *)
(* turn.                                                                    *)
FocusedBundle(exit) ==
  CASE exit = "gate" -> Blocked("gate")
    [] exit = "zero" -> Bundle("COMPLETE", "none", 0)
    [] exit = "nonzero" -> Bundle("VERIFIED_FAILURE", "focused", 0)
    [] exit = "unavailable" -> Blocked("focused")
EnterFocused(exit) ==
  /\ case.step = "start"
  /\ case' = Return([case EXCEPT !.row = "focused"], FocusedBundle(exit))
EnterDelegation ==
  /\ case.step = "start"
  /\ case' = Return([case EXCEPT !.row = "delegation"], Blocked("delegate"))

(* The turns that did not go as the script wants.                           *)
Faulty(ts) ==
  {i \in DOMAIN ts : /\ ~ts[i].text \/ ts[i].state = 0
                     /\ ts[i].code \notin {"image_invalid", "state_invalid"}}

(* _run_turn(): the model may call its tool on the way, and once more.      *)
Tool(c) == IF c.group = 2 THEN [tool |-> "exec", command |-> "pwd"]
           ELSE [tool |-> "read", path |-> "seed"]
CaseTurn(t, calls) ==
  /\ case.step = "turn" /\ case.here < Len(GroupOf(case).turns)
  /\ t \in TurnsOf(GroupOf(case).turns[case.here + 1])
  /\ calls > 0 => case.row \in Denying /\ t.reached
  /\ Cardinality(Faulty(Append(case.turns, t))) <= MaxFaulty
  /\ case' = [case EXCEPT
       !.here = @ + 1, !.turns = Append(@, t),
       !.spent = @ + (IF t.reached THEN 1 ELSE 0),
       !.called = @ \/ (calls > 0 /\ case.group = 1),
       !.hosts[case.group] =
         CASE calls = 0 -> @
           [] calls = 1 -> Bridged(@, Tool(case))
           [] calls = 2 -> Bridged(Bridged(@, Tool(case)), Tool(case))]

TurnsDone ==
  /\ case.step = "turn" /\ case.here = Len(GroupOf(case).turns)
  /\ case' = [case EXCEPT !.step = "close"]

(* A turn raises, or the deadline cancels it; the provider may have been    *)
(* asked.                                                                   *)
CaseTurnBreaks(how, reached) ==
  /\ case.step = "turn" /\ case.here < Len(GroupOf(case).turns)
  /\ how = "timeout" => case.row # "native"
  /\ reached => GroupOf(case).turns[case.here + 1].meets = "answer"
  /\ case' = [case EXCEPT !.step = "close", !.broke = how,
                          !.cut = how = "timeout",
                          !.spent = @ + (IF reached THEN 1 ELSE 0)]

(* Mutant: only the first runtime is closed. *)
CloseOrderFirst(c) == <<GroupOf(c).runtimes[1]>>
(* The finally clause: close() of each runtime in turn.                     *)
CloseOrder(c) == GroupOf(c).runtimes
CloseRuntime ==
  /\ case.step = "close" /\ case.closed < Len(CloseOrder(case))
  /\ case' = [case EXCEPT
       !.closed = @ + 1,
       !.open = @ \ {CloseOrder(case)[case.closed + 1]}]

(* A close() that raises, or that the deadline cancels, skips the rest.     *)
CloseBreaks(how) ==
  /\ case.step = "close" /\ case.closed < Len(CloseOrder(case))
  /\ how = "timeout" => case.row # "native" /\ ~case.cut
  /\ case' = [case EXCEPT !.closed = Len(CloseOrder(case)), !.broke = how,
                          !.cut = @ \/ how = "timeout",
                          !.open = @ \ {CloseOrder(case)[case.closed + 1]},
                          !.step = "broken"]

EndGroup(grade) ==
  /\ \/ case.step = "close" /\ case.closed = Len(CloseOrder(case))
     \/ case.step = "broken"
  /\ case' = IF case.broke = "no" /\ case.group < Len(Script[case.row])
             THEN OpenGroup(case, case.group + 1)
             ELSE Return(case, Verdict(case, grade))

SuitesInit == case = NoCase

SuitesNext ==
  \/ \E row \in LiveRows, budget \in CaseBudgets,
        held \in {Gates} \cup {Gates \ {g} : g \in Gates} :
       Enter(row, held, budget)
  \/ \E exit \in {"gate", "zero", "nonzero", "unavailable"} :
       EnterFocused(exit)
  \/ EnterDelegation
  \/ \E t \in ProviderAnswers
          \cup {Refused(c) : c \in {"auth", "other", "image_invalid",
                                    "state_invalid"}},
        calls \in 0 .. 2 : CaseTurn(t, calls)
  \/ TurnsDone
  \/ \E how \in {"raised", "timeout"}, reached \in BOOLEAN :
       CaseTurnBreaks(how, reached)
  \/ CloseRuntime
  \/ \E how \in {"raised", "timeout"} : CloseBreaks(how)
  \/ \E grade \in NativeGrades : EndGroup(grade)

SuitesTypeOK ==
  /\ case.step \in {"start", "turn", "close", "broken", "done"}
  /\ case.open \subseteq {"a", "b"}
  /\ case.bundle.cls \in {"none", "COMPLETE", "VERIFIED_FAILURE",
                          "ENVIRONMENT_BLOCKED"}

(* No case asks the provider more often than its turn budget allows, a      *)
(* COMPLETE bundle counts every turn the provider was asked for, and a case *)
(* blocked for want of a login asked for none (active_suite.py:1065-1119,   *)
(* 1191-1200; native_suite.py:753).                                         *)
TurnsAreCounted ==
  /\ case.spent <= case.budget
  /\ case.bundle.cls = "COMPLETE" => case.bundle.count = case.spent
  /\ case.bundle.reason = "auth" => case.spent = 0

(* A case that ran to its end with a turn billed outside the subscription,  *)
(* or answered by another model, is a verified failure, whatever else it    *)
(* lacks (active_suite.py:1092; native_suite.py:789-830).                   *)
UnsafeIsNotExcused ==
  /\ case.step = "done" /\ case.broke = "no"
  /\ \E i \in DOMAIN case.turns :
       \/ case.turns[i].billing = "unsafe"
       \/ /\ case.turns[i].fallback
          /\ case.row = "native" => case.turns[i].billing # "none"
  => case.bundle.cls = "VERIFIED_FAILURE"

(* However a case ends, each runtime it opened had its close() called,      *)
(* unless the close() of the other runtime broke                            *)
(* (active_suite.py:946-948; native_suite.py:549-553).                      *)
RuntimesReleased ==
  case.step = "done" /\ case.open # {} =>
    case.broke # "no" /\ case.open = {"b"}

(* A live case in which the model called a tool has seen the sandbox's      *)
(* denial (native_sandbox.py:3-7).                                           *)
FirstCallIsDenied ==
  case.called => case.hosts[1].denied

(* The bundle of a live case counts its turns and excuses no unsafe one,    *)
(* and the case closes its runtimes (active_suite.py, native_suite.py).     *)
CaseHolds == TurnsAreCounted /\ UnsafeIsNotExcused /\ RuntimesReleased
=============================================================================
