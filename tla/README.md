# A TLA+ verification project for hermes-claude-agent-sdk

The repository is a Hermes runtime plugin: it runs the turns of a Hermes
session through one Claude Agent SDK client (a CLI child process), with the
tools of the host, on a subscription only. It also carries a large "parity"
harness that produces and grades evidence that the plugin behaves like the
host's own runtime. This directory models both: the asyncio protocol between
runtime, session, reader task, compaction lifecycle and tool bridge; the
decisions around a turn (admission, billing, tool guard, provenance, data of
tool calls); the live gateway stack of the harness, from the reader thread to
the runner of a trial; and a campaign with its files and its verdict.

Paths below are relative to `src/src/hermes_claude_agent_sdk/`.

## 1. Inventory

| Part | State it keeps | Operations | Hard behaviour | What makes it correct |
|---|---|---|---|---|
| Runtime adapter, `runtime.py` | bound host, session contract, session, preflight token, `_closed` | `preflight`, `run_turn` (an async generator), `close` | the host drops or cancels the generator; values read before an await | one terminal event per turn; honest failure phase; one open session; a cancelled turn leaves a usable runtime |
| SDK session, `sdk_session.py` | client, reader task, inbox, receipts of stray output, two locks, billing evidence | `run_turn`, `start`, `_reader_loop`, `cancel`, `close` | reader against turn against `cancel`/`close`; deadlines, and one suspended by a compaction | no prompt to a client that must not be used; completion only on clean evidence; every turn returns |
| Compaction lifecycle, `compaction.py` | depth, watchdog task, callbacks, lock | `bind`, hook, `start`, `handle_message`, `complete`, `expire`, `end_turn` | an await in the middle of `_finish` | one end for each start; an active compaction ends |
| Tool bridge, `tool_bridge.py` | correlation id, execution count | `begin_turn`, `handle_tool_call`, schema subset, bounded text | calls overlap turns and outlive them; shared and cyclic data; secrets at a cut | a call is counted before it runs and named after its turn; data in and out keeps to its bounds |
| Billing, `billing.py` | merged evidence of a turn | merge, classify, environment plan | order and contradiction of evidence | nothing paid completes; the child sees no metered vector |
| Content events, `content_events.py` | stream indexes of tool blocks, model evidence | guard, projection, provenance | deltas without a name; evidence in any order over several turns | no native tool passes; a model is proved or not named |
| Authentication probe, `auth.py` | the child process | bounded subprocess, decision | output limit, deadline, a child that hangs or dies | a subscription is reported only for a whole status; no child is left |
| Configuration, `compatibility.py`, `turn_input.py`, `configuration.py` | none | version checks, input builder | boundaries of sizes and counts | a refusal happens before any SDK call |
| Parity runner, `parity/runner.py` | packets on disk, ledger, targets | `run_catalog_async` | crash between two files; executors that raise or overspend | ledger equals disk; budget kept over resumed runs; failures retried |
| Grading, `parity/grader.py`, `v4_runner.py`, `packets.py` | none | admit packets, grade | boundary counts, order of trials | COMPLETE is earned by repeated, exact, unmetered trials |
| Release files, `parity/v4_release_ready.py` and the other create-only writers | one file | create, write, read | two writers; an interrupted write | evidence is never replaced |
| Gateway client, `parity/v4_gateway.py` | two bounded queues, backlog, next id, reader thread | `call`, `wait_event`, `next_event`, `close` | a thread, full queues, late answers | no event lost or reordered; the end hides none |
| Gateway observer, `parity/v4_gateway_observer.py` | tools, approvals, tasks, terminals | one step per event and answer | any order of events | fails closed; a terminal is whole |
| Live session and run, `parity/v4_live_session.py`, `v4_live_executor.py`, `v4_normal_gateway_runner.py` | ledger of receipts, snapshots, gateway, plugin | start, inventory, turn, drain, restart, collect | failure at any step; approvals; budget over a restart | a receipt only for what was observed; everything is put back |
| Host probe, `parity/v4_host_probe.py` and the wait in `v4_live_session.py` | none; the host's database | read delegations and deliveries, transcript and receipts; repeat until settled | two reads outside a transaction while the host writes; a deadline | only settled proof is returned; a slow host is waited for |
| Suites, `parity/active_suite.py`, `native_suite.py` | one case | gates, turns under a deadline, close, bundle | a deadline anywhere; a close that breaks | turns are counted; unsafe ones are not excused |
| Sandbox, `parity/native_sandbox.py`, `v4_local_mechanism_executor.py` | files, one denial, trace | tool calls, local verdict | spelled paths, limits, broken writes | the workspace is fenced; a PASS is exact |
| Local trials, `parity/v4_background_delivery_receipt.py`, `v4_local_restart.py`, `approval_followthrough.py`, `v4_local_path_executor.py` | what is held of the process | one script each, with its finally | a host that misbehaves, a clean-up that fails | a pass was observed; nothing is left |

`PROJECT.json` lists every part with its files and status, the lines of every
definition, and the hazards line by line.

How the core works together: the host calls `preflight(request)` and then
iterates `run_turn(request)`. The runtime opens or reuses a session, tells the
bridge that a turn begins, and starts the session's `run_turn` as a task whose
messages it projects into a queue. The session waits for its turn lock,
connects the client if needed, claims an inbox, binds the compaction callbacks
and sends the prompt. The reader task puts each message of the CLI into the
inbox of the turn that holds it, or records a receipt if there is none. Tool
calls arrive from the CLI at the bridge, and hook calls at the compaction
lifecycle, each in a task of its own.

In the harness, a runner asks executors for packets, writes them with a ledger,
and graders read them back. A live trial goes over a gateway process: a reader
thread fills the client's queues, the observer sees each event that the client
hands out, the live session takes a snapshot of the observer for each receipt,
and the runner compares the two accounts before it lets a trial pass.

## 2. Modules

| Module | Models | State and actions |
|---|---|---|
| `CompactionLifecycle` | what `compaction.py` promises | `Bind`, `Begin`, `End`, `Unbind` as atomic steps |
| `NativeCompaction` | `compaction.py` with its lock, watchdog and `gather()` | one variable per field; `pc[p]` is what a task does; one action for each stretch between two suspension points |
| `NativeCompactionProofs` | the theorems about it | |
| `RuntimeAdapterProofs`, `SDKSessionProofs`, `GatewayClientProofs` | the theorems about the module of that name | |
| `TurnChecksProofs` | the theorems about `StreamGuard`, `EventProjector`, `Billing`, `AuthProbe`, `Admission` | |
| `ParityProofs` | the theorems about `ParityRunner`, `Grading`, `GradedRun`, `PartitionResult`, `CreateOnly` | |
| `LiveProofs` | the theorems about `NativeSandbox`, `LiveSuites`, `LocalTrials`, `HostProbe` | |
| `SessionProofs` | the theorems about `GatewayObserver`, `LiveSession`, `NormalRun`; extends `LiveProofs` and `GatewayClientProofs` | |
| `SDKSession` | `sdk_session.py` over an external CLI | one variable per field and lock; `link`, `pipe`, `asked`, `answered` are the CLI, which writes the kinds in `Unsolicited` also when nothing was asked; `dirty` is a history of why the client must not be used again. Compactions appear through the atomic operations that `NativeCompaction` is shown to implement |
| `ToolBridge` | turn binding, gates and execution count of `tool_bridge.py` | `correlation`, `executions`, `call` |
| `RuntimeAdapter` | `runtime.py`; extends `ToolBridge` | `gen[t]` the generator of a turn, `task[t]` its session task and queue, `sess` the two flags of each session the runtime reads; `work[s]` the turns whose prompts the CLI of a session works on, `stray` those whose CLI was left behind at work; `late`, a history, the calls made after their turn had ended |
| `ToolSchema` | copy, schema matching and text bounds of `tool_bridge.py` | operators over object graphs, schemas and texts; `datum` is the input looked at |
| `StreamGuard` | the native-tool guard of `content_events.py` | `indexes` and the events of a turn; `message` for whole messages |
| `EventProjector` | projector and model provenance of `content_events.py` | usage, session and root evidence; one action per sort of message |
| `Billing` | `billing.py` field by field | evidence of a turn; `childEnv` for the environment plan |
| `AuthProbe` | `auth.py` and its child | the probe at `auth`, the child's output and status |
| `Admission` | `compatibility.py`, `turn_input.py` | operators over installations and message blocks |
| `ParityRunner` | `run_catalog_async` | `disk` and `manifest` survive a crash, the rest is the memory of the process |
| `Grading` | packet admission and both graders | `trials` recorded in any order |
| `GradedRun` | composes `ParityRunner` and `Grading` | the runner's packets as the grader reads them |
| `PartitionResult` | `packets.py` | attempts of two partitions |
| `CreateOnly` | create-only writers | the file, and where each writer is |
| `GatewayClient` | `v4_gateway.py` | the two queues, the backlog, the reader and one caller |
| `GatewayObserver` | `v4_gateway_observer.py` | one record, changed by `Event`, `Respond`, `Snapshot` |
| `LiveSession` | `v4_live_session.py`, `v4_live_executor.py`; extends `GatewayObserver` | `live`, `gate` (with its observer), `ledger`, `turn`, `snapshots` |
| `NormalRun` | `v4_normal_gateway_runner.py`; extends `LiveSession` | `run`: where a trial is and where its plugin is |
| `NativeSandbox` | sandbox host and local executor | `host`, `files`, `local` |
| `LiveSuites` | a live case of either suite; extends `NativeSandbox` | `case` |
| `LocalTrials` | the four local trials | `trial` (a script and what it holds), `queue`, `store`, `seen` |
| `HostProbe` | `v4_host_probe.py` and `collect_delegation_observation` | `rowOf`, `deliveries` the host's tables, `settle` the loop over two SELECTs, `pages` the transcript row by row |
| `TurnChecks`, `GatewayStack`, `ParityVerdicts` | the parts that one run checks together | no state of their own; the types and properties that are conjunctions over several parts |
| `MC*` | instances for TLC | model values, small sequences, symmetry; `MCTurn`, `MCGateway` and `MCParity` choose one of several parts that share no state, so a behaviour is a behaviour of one part |

Steps and atomicity. All of the plugin runs on one asyncio loop, so a step of
the first models is what a task does between two points at which it can be
suspended. Each await that can really suspend is a boundary: locks,
`gather()`, `queue.get`, `sleep`, the client's calls, `execute_tool`, a
`yield`. An await that cannot (an uncontended lock, a callback that puts into
an unbounded queue) is not. In the gateway client the reader is a thread: its
steps are the queue operations. For the runner, the writers and the local
trials a step is one effect that outlives the step: a file, something held of
the process, a call on the host.

Abstractions of data. A message is its kind; texts, ids, usage and error tables
are left out where no property reads them. A request is a model value with a
contract and a host. A packet is its classification in `ParityRunner` and the
fields the graders read in `Grading`. A text of `ToolSchema` is a sequence of
character classes with their widths in UTF-8. All candidate hashes of a run
match. Timeouts may fire at any time at which the code waits for them.

Checks that the code makes one after the other, where the first that applies
decides, are chains of IF and not CASE: a CASE whose guards overlap chooses
any of its values, whatever order TLC tries them in.

## 3. Runs

Passing runs; the bounds are those of the `.cfg` files.

| Run | Instance | Shows |
|---|---|---|
| `compaction` | 2 turns, 3 hook calls, `close`, no cancelled task | `TerminalPhaseExactlyOnce`, the inductive `Inv`, refinement `ImplementsLifecycle` |
| `compaction_losses` | the same, with up to 2 cancelled tasks | `OneEndLostPerCancel`; `CompactionIsBounded` under fairness |
| `session_safety` | 2 turns, one caller of `cancel`/`close`, 3 messages: evidence and native tools at any time, a result only in answer to a prompt | `RetiredClientNeverQueried`, `CompletesCleanly` |
| `session_claim` | 2 turns, one compaction, one cancelled task, 3 messages | `InboxesOwned` |
| `session_live` | 2 turns, one caller, one compaction, a CLI that sends at most one message | `TurnReturns`, `CloseReleases` |
| `runtime` | 2 turns, requests with one of 2 hosts and one of 2 contracts, one projection of a turn, one tool call, `close`, 2 cancelled tasks | `TerminalIsHonest`, `PromptsAdmitted`, `OneTurnAtATime`, `CancelledIsRecoverable`, and no deadlock: a generator that nobody can drive on would be one |
| `turn` | the checks around a turn, each over every order of its inputs | `StreamIsGuarded`, `ModelIsProved`, `NothingIsPaid`, `ProbeIsWhole`, `AdmissionHolds`, `BridgeDataIsBounded`, `ProbeEnds` |
| `gateway` | the live lanes: client, observer, session, trial, sandbox, case, local trials, host probe | `ClientKeepsItsTraffic`, `ObserverFailsClosed`, `SessionHolds`, `TrialHolds`, `LocalPassIsExact`, `WorkspaceIsFenced`, `CaseHolds`, `LocalTrialHolds`, `GatewayEnds` |
| `parity` | a combined executor that passes, fails, raises, overspends or returns what no packet can hold; a capability without executor; one crash and a resumed run; sets of up to four trials; two partitions; three writers | `LedgerHolds`, `VerdictsAreEarned`, `EvidenceIsNeverReplaced`, `FailureSticks`, `RunEnds` |

Each run also checks one type invariant of its modules. Where a cfg says
`CHECK_DEADLOCK FALSE` the system may stop: its turns are used up, or the
process, the trial or the case has ended.

Several properties are conjunctions of named parts, stated one by one in the
modules. The conjunctions over several modules are in `TurnChecks`
(`ModelIsProved`, `AdmissionHolds`, `TurnTypeOK`), `GatewayStack`
(`GatewayTypeOK`) and `ParityVerdicts` (`VerdictsAreEarned`, `ParityTypeOK`):

| Property | Its parts |
|---|---|
| `InboxesOwned` | `NoOrphanClaim`, `AnswersReachTheirTurn` |
| `TerminalIsHonest` | `TerminalExactlyOnce`, `EffectsReported` |
| `PromptsAdmitted` | `Pinned`, `PromptsCleared` |
| `OneTurnAtATime` | `OneOpenSession`, `ToolCallsInTheirTurn` |
| `StreamIsGuarded` | `DeltasProved`: an input delta passes exactly when an allowed tool was named at its index and not stopped since; `NoUnlistedToolIsPublic`, although the guard scans only the first blocks |
| `ModelIsProved` | `EffectiveIsProved`: the effective model is what a definition over the *set* of the evidence proves, so order does not matter; `NoModelIsGuessed` |
| `NothingIsPaid` | `CompletedIsUnpaid`, `ChildIsUnmetered` |
| `ProbeIsWhole` | `AllowedIsWhole`, `NoChildLeft` |
| `AdmissionHolds` | `AdmittedIsPinned`, `TextIsCutOnce`, `ImagesWithinLimits`: running checks agree with the sums |
| `BridgeDataIsBounded` | `CopyIsExact`, `MatchMeansEveryKeyword`, `TextIsSafe` |
| `ClientKeepsItsTraffic` | `NoEventIsLost`, `EndHidesNothing`, `AnswersHaveRoom` |
| `ObserverFailsClosed` | `DenialIsToolFree`, `TerminalIsWhole` |
| `SessionHolds` | `ReceiptsHaveSnapshots`, `LineageWithinRow`, `FailureReleasesGateway`; `ReturnIsSettled`, `ProbeIsPatient`, `TranscriptIsPaired` of the host probe |
| `TrialHolds` | `RunnerKeepsBudget`, `PassedTrialIsWhole`, `TrialCleansUp` |
| `CaseHolds` | `TurnsAreCounted`, `UnsafeIsNotExcused`, `RuntimesReleased` |
| `LocalTrialHolds` | `PassIsObserved`, `TrialLeavesNothing` |
| `GatewayEnds` | `ReaderEnds`, `WaitsEnd`, `TrialEnds` |
| `LedgerHolds` | `BundlesWhole`, `LedgerMatchesDisk`, `LedgerWithinBudget` |
| `VerdictsAreEarned` | `CompleteIsRepeated`, `V4IsStricter`, `IsolationHolds`, `PassIsUnbroken` of the graders; `FailuresRetried`, `RetriesSuffice` of runner and grader together |

Why the bounds are enough. Two turns are needed for everything that one turn
can leave to the next; more turns repeat it, since each turn clears or checks
what it finds. Three hook calls let two nest in one turn with one left for the
next. Three messages are evidence, a result and one stray. One caller of
`cancel` or `close` against two turns has every pairwise race. Two cancelled
tasks are one cancellation and one that cuts its handling short. `MaxPipe` of 1
loses nothing that matters: the CLI may write again as soon as the reader has
read. In `runtime`, requests of two hosts and two contracts differ in either or
both, and a projection of each kind ends up before or after every other step. In
`turn`, two stream indexes and three events are a start, a stop or start of
another or the same block, and a delta; two usage entries and two messages are
what contradiction needs; sizes go one over each limit.
In `gateway`, queues of two against four requests and events fill, overflow and
drop the end marker; rows of one and of two turns with one restart have a turn
before and after it; one task of a delegation with two terminals, and two tasks
in the observer alone; two delegations and two
deliveries, so that one can be settled and the other not, or repeated; five rows
of a transcript, which is a prompt, two calls, their results and the answer.
`MaxTrials` of 4 in `parity` is one more than the three
passes in a row, so that a failure can come before, between and after them, and
a budget of 1 with executions of 0 or 1 turns, whatever is left of the budget,
meets an exhausted, an exact and an overrun budget. The inputs named `MC...`
restrict records to those with at most one thing wrong, because one is enough
to be refused. Symmetry is used on turns and on hook calls, and only in runs
without liveness properties; `runtime` has a CONSTRAINT in its place
(`FirstBinding`): hosts and contracts are only compared, and the runtime is bound
to a named one first.

Fairness. Weak fairness of each task's own steps: asyncio runs every task that
is ready, and every bounded wait in the code (`connect`, `query`, `interrupt`,
`disconnect`, the wait for the reader, the turn deadline, the watchdog sleep,
the deadlines of `call`, `wait_event`, of the probe of `auth.py` and of the wait
for delegations) ends. None is assumed
of the CLI or the gateway process, which may stay silent for ever, except that
a process whose input was closed ends (`close()` kills it if need be); none of
callers, of hook calls or of boundaries. `NativeCompaction` assumes nothing of
the turn itself, so that the watchdog alone ends a compaction; the parity
runner assumes that executors return or raise.

Each property has a mutant in `PROJECT.json`: a definition marked `Mutant` in
its module, before the one it stands for, with the change a plausible bug would
make. Other definitions so marked break the remaining parts of a combined
property in the same way:

| Mutant | stands for | breaks |
|---|---|---|
| `NestedForgotten`, `DepthUnchecked` | `Nested`, `DepthAfterComplete` (`NativeCompaction`) | `TerminalPhaseExactlyOnce`, `Inv` |
| `FinishClaimed` | `Finish` (`SDKSession`) | `NoOrphanClaim` |
| `UnlistedNever`, `NestedBlockOnly` | `Unlisted`, `NativeBlock` (`StreamGuard`) | `NoUnlistedToolIsPublic` |
| `ForgetUsage`, `ReceiptSelected` | `ForgetTurn`, `ReceiptModel` (`EventProjector`) | `EffectiveIsProved`, `NoModelIsGuessed` |
| `ConfigurableUnlisted` | `Configurable` (`Billing`) | `ChildIsUnmetered` |
| `DeadlineLeaves` | `Deadline` (`AuthProbe`) | `NoChildLeft` |
| `TextStepDrops`, `ImageStepLate` | `TextStep`, `ImageStep` (`Admission`) | `TextIsCutOnce`, `ImagesWithinLimits` |
| `FitsEither`, `BoundedToolTextLate` | `Fits`, `BoundedToolText` (`ToolSchema`) | `MatchMeansEveryKeyword`, `TextIsSafe` |
| `WithStopFirst`, `RoutedTogether`, `TooManyLate` | `WithStop`, `Routed`, `TooMany` (`GatewayClient`) | `EndHidesNothing`, `AnswersHaveRoom`, `NoEventIsLost` |
| `WaitTimesOutAny`, `TurnBreaksDraining` | `WaitTimesOut`, `TurnBreaks` | `WaitsEnd`, `TrialEnds` |
| `ChildrenStarted` | `ChildrenClosed` (`GatewayObserver`) | `TerminalIsWhole` |
| `FailedOpen`, `RowAdmitsPlanned`, `CopiedFresh` | `FailedClosed`, `RowAdmits`, `Copied` (`LiveSession`) | `FailureReleasesGateway`, `LineageWithinRow` |
| `PlannedFixture`, `PutBackIfFailed` | `PlannedTurns`, `PutBack` (`NormalRun`) | `RunnerKeepsBudget`, `TrialCleansUp` |
| `AllTurns`, `CloseOrderFirst` | `ProviderTurns`, `CloseOrder` (`LiveSuites`) | `TurnsAreCounted`, `RuntimesReleased` |
| `AnyRow`, `AnySession`, `DropHeld`, `PathProvedAtEnd`, `AskedAny` | `DeliveredRow`, `SameSession`, `PutBackHeld`, `PathProved`, `AskedEnough` (`LocalTrials`) | `PassIsObserved` |
| `RowErrorEarly`, `TransientWritten`, `PairedAnyOrder` | `RowError`, `Transient`, `Paired` (`HostProbe`) | `ReturnIsSettled`, `ProbeIsPatient`, `TranscriptIsPaired` |
| `AfterErrorPatient` | `AfterError` (`HostProbe`) | `WaitsEnd` |
| `ResumableUnchecked`, `AnyCost`, `TargetUnchanged` | `Resumable`, `WithinBudget`, `TargetAfter` (`ParityRunner`) | `LedgerMatchesDisk`, `LedgerWithinBudget`, `FailuresRetried` |
| `RequiredFlat`, `BindsUnbilled` | `RequiredPasses`, `Binds` (`Grading`) | `CompleteIsRepeated`, `V4IsStricter` |
| `IsolatedLater`, `SeenNothing`, `BillingOfLast` | `Isolated`, `Seen`, `BillingSafe` (`PartitionResult`) | `IsolationHolds`, `PassIsUnbroken` |

### Findings

Three runs are expected to be violated. Each checks one sentence of the
repository against what the code does.

| Run | The sentence | What the code does |
|---|---|---|
| `runtime_stale_phase` | `tests/test_runtime_sdk_integration.py:1148` "tool_side_effect_is_conservative" | the failure for an unlisted tool uses the phase read before `session.cancel()` was awaited |
| `runner_crash` | `parity/runner.py:1` "Resume-safe execution" | the packet is written before the ledger that lists it: a crash between them leaves a directory that no run accepts |
| `sandbox_unreached` | `parity/native_sandbox.py:3-7` "The first admitted call is denied once" | the bridge passes a `request_id` that the sandbox's `execute_tool()` does not take: in a live case no call reaches it |

### Remarks

What the models show beside the properties, or why a property has an exception.

Plugin.

- A task cancelled in the `gather()` of `_finish` (`compaction.py:222`) reports
  no end, although `compaction.py:65` says "exactly-once terminal phase";
  `OneEndLostPerCancel` bounds it. A turn cancelled while it retires a tainted
  client leaves the client to the next turn, since the receipt was cleared
  first (`sdk_session.py:326`); a violation that the reader puts into the inbox
  which a `bind()` that raised has left is lost with that inbox. Hence
  `RetiredClientNeverQueried` and `CompletesCleanly` speak of sessions of which
  no turn has raised (`NoTurnRaised`). A `close()` cancelled in `end_turn()` has set `_closed` but
  not woken the turn (`sdk_session.py:604`; `TurnReturns` is checked without).
- A turn cancelled inside `except Exception` (`sdk_session.py:565-566`), while it
  interrupts the client and before its `close()` began, is not caught by the
  clause for a `CancelledError` beside it: only the `finally` runs, and the
  session stays open, not even marked as cancelled. The next turn sends its
  prompt to the same client and may find the rest of the old answer in its inbox.
  The outcome of such a turn is `unretired`, and `AnswersReachTheirTurn` has the
  condition that there is none (`NoneCutShort`). Not through `runtime.py`: it
  cancels a session task only at its `await task`, once `session.cancel()` has
  closed the session.
- `handle_tool_call` (`tool_bridge.py:647-690`) does not ask whether the turn it
  would run for, or any turn, still runs. A CLI left behind at work may therefore
  call tools after its turn has reported, and under the id of a later turn: one
  whose stream broke before the result (`sdk_session.py:426`), which leaves the
  session open; one that did not disconnect (`sdk_session.py:612-616`); one whose
  generator the host dropped or whose `session.cancel()` it cut short. Such turns
  are in `stray`, for good, and may call tools from then on, whether or not a
  later `close()` ends the process: a superset of what the CLI can do. That a CLI
  makes no new call for a prompt whose result was taken is assumed of it.
  `EffectsReported` and `UnlistedEffectsReported` except calls of turns in `stray`
  made after the turn had ended (`OnlyLateCalls`), `ToolCallsInTheirTurn` calls of
  turns in `stray`, and nothing else: what a failure without side effects says is
  true when it is reported, and may be overtaken by such a CLI.
- A message written after a result and read after the next turn claimed its
  inbox counts as output of that turn (`sdk_session.py:278`); nothing in the
  messages tells the two apart. A `ResultMessage` that nobody asked for would so
  end that turn: what the properties say of answers has the condition
  `ResultsAreSolicited`, that the CLI sends none such.
- A `session.cancel()` cut short by a second cancellation leaves
  `_cancel_requested` set and `_closed` not: such a session can be neither used
  nor replaced. `CancelledIsRecoverable` excepts it. `cancel()` during the
  retirement for a billing block makes the blocked session restartable.
- A malformed field masks paid usage: `CompletedIsUnpaid` excepts it, and
  `PaidTurnNeverCompletes` in `Billing`, what
  `docs/subscription-only-security.md:4-5` says without exception, is violated:
  a message with paid usage and a malformed field does not stop the turn at
  once, and later evidence can replace the paid field. In `SDKSession` the
  class "malformed" is only what `malformed_fields` records for good.
- `select()` or `read()` that raises leaves the probe's child running.
- Tool names of 110 to 256 bytes pass the bridge, but exceed the observation
  limit of `runtime.py:31` with their prefix and count as unlisted.
- An `enum` in the schema of an object or array is validated, never applied.

Runner and grading.

- The turns of an executor that raises, or that a crash interrupts, are not in
  the ledger; `LedgerWithinBudget` is about recorded turns. A combined executor
  that raises once leaves a third of a bundle; when a later path of the trial
  runs it again, the run is refused as incomplete (`parity/runner.py:596`)
  although nothing was resumed. `scenario_repeat_targets` is not restored on
  resume: `FailuresRetried` and `RetriesSuffice` are about uninterrupted runs.
- Three passes followed by a failure are COMPLETE: `FailureIsFollowed` of
  `Grading`, what the grader's reason and `tests/parity/test_grader.py:94` say,
  is violated. The v3 grader counts an EXPECTED_NEGATIVE on the positive path
  as no failure, the v4 grader as one. With the trials frozen, a failed path of
  v4 can never recover. `consecutive_passes` of 2 is accepted by `catalog.py`
  but never COMPLETE, and more than 3 needs only three. The runner does not
  retry a trace mismatch that the grader counts as a failure.
- Isolation of partitions is not symmetric, and a partition's grade looks at
  its last attempt; only tests use `packets.py`.
- A writer that dies leaves a partial file that nobody replaces or reads.

Live lanes.

- `expect_followup` is true exactly when the observer expects two terminals.
  The observer recognises more terminal types than the gateway's projection,
  and fails closed on them.
- The end marker is dropped at a full queue and is consumed once, so a later
  wait ends by its deadline. A failed start leaves the session's `_closed`
  false, but its gateway closed. A failed session may be restarted, and its
  failed turn's prompt is not counted.
- A deadline, an exception and `_blocked` report 0 turns although the provider
  was asked; the native suite always counts 1. Packets of
  `_failed(billing="unsafe")` are refused by `ResultPacket.from_dict`
  (`results.py:341`). The native suite calls an unbilled fallback blocked, the
  active suite a failure. The threads case closes A then B in one finally, so
  an A that breaks leaves B open.
- A rejected sandbox write may leave a cut file.
- Background delivery: `_requeue` takes a foreign completion out of the queue
  and loses it when held events were put back (the trial then fails); a failure
  before the try leaves `sys.path` changed, a failed import, or a home override
  that raises, resets a plugin manager that was not saved yet (`manager_lost`,
  `v4_background_delivery_receipt.py:306-307`), and a clean-up step that raises
  skips the rest. Local restart: the
  exit of the first process is not checked, the resumed identity only if named,
  and the state directory stays. Approval: hooks registered before the try
  leak, the host's module path stays (`_load_host`,
  `approval_followthrough.py:308-311`), and the status does not depend on the
  approvals. Local paths: `sys.path` is never put back either, the home override leaks if the working directory is gone,
  approvals are counted over both turns and not per turn, and the positive path
  does not look for the file.
- The wait for delegations repeats a probe whose deliveries are all pending, not
  one where some are delivered (`delivery_state` "mixed"): with two or more
  delegations a half-settled state is refused at once. The runner passes 0 or 1
  (`v4_normal_gateway_runner.py:757`), which is what `ProbeIsPatient` is about.
  A database that cannot be read is refused at once too. A transcript may end with
  an error row behind its terminal, and its prompts and answers are counted,
  not paired.

The first two findings and the cancelled-task remarks were also seen by running
the code, with a stub of the SDK or of the executor.

## 4. Proofs

Eight modules of proofs. Their theorems hold for every value of the constants
that the named `ASSUME`s of the modules allow, where a run has two turns or four
events. Where a run chooses between parts that share no state (`MCTurn`,
`MCGateway`, `MCParity`), the theorem is about the specification of the one
part, its initial states and its next-state relation, such as `GuardSpec`.

| Theorem | States | Of |
|---|---|---|
| `NativeCompactionProofs!TypeCorrect` | `TypeOK` | any turns, hook calls and cancelled tasks |
| `NativeCompactionProofs!InvHolds`, `PhasesCorrect`, `LifecycleImplemented` | `Inv`; `TerminalPhaseExactlyOnce`; `ImplementsLifecycle` | the same, `MaxCancels = 0` |
| `NativeCompactionProofs!LossesBounded` | `OneEndLostPerCancel` | any number of cancelled tasks |
| `SDKSessionProofs!SessionInvariance`, `TypeCorrect` | the inductive `SessionInv`; `TypeOK` | any turns, callers, message kinds, hooks, cancelled tasks |
| `SDKSessionProofs!InboxesKept` | `InboxesOwned` (its second part under `NoneCutShort`) | the same, `ResultsAreSolicited` |
| `SDKSessionProofs!RetiredStaysRetired`, `CompletionIsClean` | `RetiredClientNeverQueried`; `CompletesCleanly` | the same; action properties |
| `RuntimeAdapterProofs!TypeCorrect`, `HonestTerminals`, `AdmittedPrompts`, `SerialTurns` | `TypeOK`; `TerminalIsHonest`; `PromptsAdmitted`; `OneTurnAtATime` | any turns, requests, calls, projections, cancelled tasks |
| `RuntimeAdapterProofs!CancelRecovers` | `CancelledIsRecoverable` | the same; an action property |
| `TurnChecksProofs!StreamGuarded` | `StreamIsGuarded` | any indexes, tools, events and turns |
| `TurnChecksProofs!ModelProved`, `ProjectorTypeCorrect` | `ModelIsProved`; `ProjectorTypeOK` | any models, usage mappings, messages and turns |
| `TurnChecksProofs!NothingPaid`, `ProbeWhole` | `NothingIsPaid`; `ProbeIsWhole` | any number of updates; any output limit |
| `TurnChecksProofs!AdmissionSound` | `AdmissionHolds` | blocks of any length, any limits |
| `TurnChecksProofs!TurnTypeCorrect` | `TurnTypeOK` | all of these |
| `GatewayClientProofs!ClientTypeCorrect`, `TrafficKept` | `ClientTypeOK`; `ClientKeepsItsTraffic` | any queue size, event types and traffic |
| `SessionProofs!ObserverTypeCorrect`, `ObserverClosed` | `ObserverTypeOK`; `ObserverFailsClosed` | any tools, requests, tasks and events |
| `SessionProofs!SessionTypeCorrect`, `SessionHeld` | `LiveTypeOK`; `SessionHolds` | any rows of up to four turns, events, restarts, and a host that writes its tables at any time |
| `SessionProofs!RunIsSession` | `RunSpec => LiveSpec`: every behaviour of the runner is one of the session it extends | the same |
| `SessionProofs!TrialHeld` | `TrialHolds` | the same, any failure of the plugin or the host |
| `SessionProofs!StackTypesKept` | `GatewayTypeOK` | all parts of `GatewayStack` |
| `LiveProofs!LocalPassExact`, `WorkspaceFenced`, `SandboxTypeCorrect` | `LocalPassIsExact`; `WorkspaceIsFenced`; `SandboxTypeOK` | any file limit and calls |
| `LiveProofs!ProbeTypeCorrect` | `ProbeTypeOK` | any delegations, deliveries and rows |
| `LiveProofs!CaseHeld`, `CaseTypeCorrect` | `CaseHolds`; `SuitesTypeOK` | any case, budget and answer |
| `LiveProofs!LocalTrialHeld`, `LocalTrialTypeCorrect` | `LocalTrialHolds`; `TrialsTypeOK` | any number of foreign completions |
| `ParityProofs!TypeCorrect`, `LedgerKept` | `TypeOK`; `LedgerHolds` | any catalog, executors, budget, crashes and resumed runs |
| `ParityProofs!FailuresAreRetried` | `FailuresRetried` | the same |
| `ParityProofs!RetriesAreEnough` | `RetriesSuffice` | the same, `PoliciesKnown` |
| `ParityProofs!GradesEarned`, `FailureKept` | `CompleteIsRepeated /\ V4IsStricter`; `FailureSticks`, an action property | any packets in any order |
| `ParityProofs!PartitionsIsolated` | `IsolationHolds /\ PassIsUnbroken` | any partitions and attempts |
| `ParityProofs!VerdictsEarned` | `VerdictsAreEarned` | the four together, `PoliciesKnown` |
| `ParityProofs!EvidenceKept`, `ParityTypesKept` | `EvidenceIsNeverReplaced`; `ParityTypeOK` | any writers; all parts of `ParityVerdicts` |

None of the properties is inductive as it stands. What each proof adds, and why:

Compaction. "A turn that is done has heard as many ends as starts" says nothing
of the time between `_active_depth = 0` and the report. `LockDiscipline`: a task
keeps the lock across a step only in `gather()`, and then the depth is 0 and the
watchdog is on its way out; with the lock free the watchdog exists exactly while
a compaction is active. `ControlDiscipline`: one turn at a time is between
`bind` and the end of `end_turn`, and callbacks are only ever those of that
turn. `Accounting`: the bound turn is owed exactly one end while the depth is
positive *or* the lock is held, every other turn none. The refinement maps the
abstract `active` to the same condition, `depth > 0 \/ lock # NoTask`: for the
host a compaction is over when its end was reported. With cancelled tasks only
`OneEndLostPerCancel` is left, from `CancelledInv`, which keeps of that
discipline what cancellation leaves. `TypeCorrect` rests on `complete()` looking
at the depth again once it has the lock.

Session. `Shape` has three parts. `Claims`: the turn lock has one holder, and a
turn that is served has the inbox too. `Closes`: whoever is past the guard of
`close()` holds its lock. `Starts`: there is one connection, and before the
reader exists nothing was asked, written or read. `Marks`: a marker in the inbox
has its cause, and the end of the stream is the reader's last word. `Retirement`
follows each reason not to use the client (`Reasons`) from the reader's receipt
or marker to the turn that closes the session, and says what a turn that is
served knows of it (`Knows`), so that where a prompt is sent none can be left. It
is stated under `NoTurnRaised`, since the code drops a reason when a turn is
cancelled in the middle of a retirement; `Raised` says where such turns are.
`Answers` follows what the CLI wrote from the pipe to the inbox: an answer that
is still due is one for the turn that holds both the lock and the inbox, or the
session is on its way to be closed, or a turn was cut short in the clause that
handles an exception.

Runtime. `Ordering`: the host drives one generator at a time. `Terminals`: a
generator that still runs has yielded no terminal. `Effects`: the count of the
bridge is past `start` as soon as a call of the turn ran, and once a turn has
reported a failure, only a CLI left behind runs another. `Work`: any other CLI
works for the live turn alone, in its current session and until that closes; a
turn that is told to cancel has a generator that waits for the `close()`, so
that it cannot report before the CLI is gone or left behind; and a task whose
generator was cut finds its session closed or asked to cancel, and sends
nothing. `RuntimeInv` joins this with the rest (`AdapterInv`). `Binding` and `Clearance`:
a session task holds the request that was compared with the binding, and the
token it took. `Bound` and `Locking`: the live turn's task uses the current
session, and one that a killed generator left behind has a closed session.
`Cancels`: while the runtime is open, a session is closed by its own turn or by
`cancel()`; without it, `CancelledIsRecoverable` could not exclude a session
that is closed and yet not replaceable.

Checks of a turn. `IndexesTrue`: the index table is what a definition over the
log of events says. `OpenIsUnpaid`: while a turn is open, paid usage was seen
only with a malformed field, so that the decision at the result has nothing
older to discover. `Reading`: the probe has read no more than the child wrote
and than the limit, and all of it when it waits for the exit.

Model provenance. `ModelIsProved` compares what the projector concludes with a
definition over the *set* of the evidence, so the invariant (`ProjectorInv`) is
what each record keeps of the log of messages whatever their order. `UsageTells`:
the table of usage says, of each key, whether all entries of it agree and on
which canonical model, and the mark of malformed usage has its cause in the
log. `SessionKept`: the session's model is the one that all init messages
stated, and its mark stands for two that differ or one that is malformed.
`OutKept`: a conclusion was made from the records as they stand. A mapping is
processed entry by entry, a fold in the model. The fold of the library is a
function on sets of indexes, so the lemmas about folds (`FoldExists`,
`FoldChain`) are by induction on the natural numbers in the form of a set of
numbers that contains 0 and every successor (`NatSet`, from the library's theorem
that `<` on `Nat` is well-founded). `EntriesFold` is what a mapping adds;
`TextRuns` and `ImagesRun` are the same for `Admission`: the running checks of
`turn_input.py`, which stop at the first excess, agree with the sums.

Runner. `LedgerOfDisk`: the ledger lists files that exist, and lags behind only
while the process saves. `WholeInLedger` and `WholeWithWrites`: a bundle is
whole on disk *together with the packets still to be written*, which is what a
crash between two of them does not spoil: the next run refuses the directory.
`FailuresRetried` and `RetriesSuffice` need `RetryInv`, about a first run that
nothing interrupts. It speaks of what the ledger lists (`Recorded`), since the
files of the execution in progress are ahead of it (`Execution`). The paths
behind the present one are settled (`PathsLeft`), the present one has a target
that its policy and its failures ask for (`OnTarget`), and since a combined
executor writes three paths at once, no trial exists without a reason
(`WithReason`) or before the one it follows (`InOrder`): that is why a path
which is left has no more trials behind its end. `RetriesSuffice` then takes
this through the grader's definitions. It has the hypothesis `PoliciesKnown`:
repeat policies are 1 or 3, as in the shipped catalog. A policy of 2, which
`catalog.py` would accept, leaves a path PENDING for good.

Grading and partitions. The state is a directory of packets or a list of
attempts, in any order, and the properties are about the graders as functions of
it; the invariant is its type. What the proofs need is that the set of packets
is finite, and that a path which is stable and of one candidate has one class
(`StableState`, `OneCandidate`, by cardinality), so that the verdict, which looks
at the last packets, speaks of all of them. `FailureSticks` is about a step,
from one directory to the next: a packet more leaves the old ones in place, so a
path is complete only if the last three are new passes (`NewWindow`).

Gateway client. `Delivered`: what a wait has put aside, the backlog and the
queue, in this order, are the events sent and not yet handed out. `Room`: what a
wait puts back fits, so that the bounded deque never drops a frame. `Ends`: the
end marker is the last frame of a queue, and the reader has then ended.
`Passed`: a wait told of the end had passed over all there was. `Answered` and
`Overflow`: each answer in the queue is of a different call that gave up, or of
the present one, so a full queue of answers means as many calls that gave up.

Observer and sandbox. `Spoken`: the last word that is not of a tool is what the
record says: a request is pending, a denial is guarded. `Whole` is what the last
terminal leaves; no later step changes it without failing. `Progressing`: what
the executor's calls have done to files, denial and count, call by call.
`CallsCounted`: a call is traced twice and succeeds at most once.

Live session. `LiveInv` has the types and four parts. `Opened`: the gateway is
open exactly from the start to the close, and not after a failure. `RowBound`:
the receipts of a lineage are all of the row that its first turn bound, every
count agrees with their number over restarts, and a turn in progress has room for
one more. `Aligned`: the session and the observer count the same events of a
turn, the receipts match the snapshots, and the last snapshot belongs to a turn
that has ended but has no receipt yet. `Watched`: the observer in the gate
satisfies the observer's own invariant, which is why the observer is proved
first, and one that is to see two terminals has seen the first between two turns.
The host probe: `SettleInv` says of the rows that the first SELECT has read
that the host can only have moved them forward since (`RowsRead`), so that what
was ended and delivered then still is when the second has read the messages;
`PagesInv`, that each call and each result of the transcript stands where the
walk remembers it.

Runner of a trial. `RunIsSession` shows each step of the runner to be a step of
the session, or one that leaves it alone; the session's invariant then holds of
it too, and `RunInv` only adds where the runner is. `RunCounts`: it counts the
receipts of its session, and the delivery turn is the last of a row with
children. `RunRestarts`: the one row that restarts does so after its first turn.
`RunEnding`: each way out has closed the gateway, passes only with agreeing
accounts, and leaves a plugin aside only if putting it back failed.

Live cases and local trials. `CaseInv`: what is open and what was spent follows
from the place in the case's script (`AtTurn`, `AtClose`), and each turn is one
the provider, the login or the runtime can have answered (`Meant`): only one
that reached the provider completes or is billed. `TrialInv`: `TrialControl` says
what of the process is held at each step of a script and of its finally (the
plugin manager is lost only in a delivery trial that fails before it saved it),
`QueueKept` that the queue still holds every foreign completion, `RowSettled`
that the delivered row stays as it was last examined, `SeenSoFar` how much was
seen by which step.

Writers. `OwnerDiscipline`: the file has one owner, and only it is past its
`open`.

The assumptions on constants. Names that stand for "none" are no turns, tasks,
requests, rows, models or writers (they are `None` in the code); turns are
numbered from 1 in `RuntimeAdapter`, as they are made; bounds are numbers,
queue, file, call and task limits at least 1; a catalog is a sequence of pairs of
capabilities and paths with at least one required pass, combined executors are
registered ones, and a path may be tried at least three times. A row has one to
four turns, as `_row_turn_budget()` checks; a row that restarts has more than
one, and no children. A usage mapping is absent, malformed or a finite sequence
of entries. The remaining ones say that a set of inputs chosen for TLC is a
subset of all inputs (`LiveEvents`, `RawTrials`, `GradeRows`, `AttemptKinds`), so
that the theorems hold for all of them. TLC evaluates every assumption on the
instances of the runs. `PoliciesKnown`, `ResultsAreSolicited`, `NoTurnRaised`,
`NoneCutShort` and `MaxCancels = 0` are no assumptions but hypotheses or parts of the statements
that need them.

Only model-checked, and why:

- All liveness: `CompactionIsBounded`, `TurnReturns`, `CloseReleases`,
  `ProbeEnds`, `GatewayEnds`, `RunEnds`. The proof system has neither fairness
  nor `ENABLED`.
- `BridgeDataIsBounded`: copies and schemas are nested to any depth, `ToolSchema`
  describes them with `RECURSIVE` operators, and the prover does not take these.

Every other property of a passing run is stated by a theorem.

## 5. Not modelled

- Prompt context, memory and skills, provider profile, diagnostics, plugin
  entry: text assembly and static tables. No protocol, no state that lasts.
- Catalog, contract and packet validators, canonical JSON and hashing, the
  shape checks of v4 receipts and the release inventory (`inventory.py`,
  `v4_*contract*`, `v4_*receipt*`): pure functions from a document to an error;
  their verdict is an input of the models.
- Field-by-field validation in `configuration.py`, an input of
  `RuntimeAdapter`; of `assembler.py` the copying of validated fields.
- The deterministic suites and `v4_deterministic.py`: they run pytest or a
  grader process and return its verdict.
- `runtime_suite.py`: its exactly-100-turn campaign is not reached with the
  frozen catalog (`runtime_suite.py:557`).
- The gateway over an injected transport, used by tests only: `GatewayClient`
  models the process and its reader thread.
- Command lines, packaging, file and subprocess I/O below the steps named above.

## 6. Plan

Done: all modules of section 2, and a theorem for every property that the proof
system can express but one (`BridgeDataIsBounded`). What is left:

1. `ToolSchema` with recursive functions in place of `RECURSIVE` operators, and
   of `BridgeDataIsBounded` what needs no induction over the nesting.
2. The session's compaction variables as a refinement of `CompactionLifecycle`;
   at present both sides are written to the same operations.
3. `HostProbe` inside `NormalRun`: the run takes the outcome of the wait for
   delegations as a choice, the probe is checked by itself.
