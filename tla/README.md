# A specification of the self-hosted runtime of ark-runtime-go

ark-runtime-go is the Go SDK of the Ark platform. Most of it wraps HTTP
endpoints. What has behaviour of its own is the *self-hosted* part
(`src/arkruntime/selfhosted`, `src/arkruntime/lib/environments`,
`src/arkruntime/toolset`): a worker on the user's machine claims work of an
environment from the control plane, follows the events of the session it stands
for, executes the tools the agent asks for, and sends the results back, through
crashes, lost replies, interrupts and expired leases. This directory models that
part in TLA+, together with the parts of the client itself that keep state: the
refresh of tokens, retries, the breaker of batch requests and the readers of
streams. It checks the models with TLC and proves what it can with TLAPS.

Source paths below are relative to `src/arkruntime/`; *runner* stands for
`selfhosted/session_tool_runner.go`.

## 1. Inventory

| Component | State | Operations | Hard behaviour | Correct when |
|---|---|---|---|---|
| **SessionToolRunner** (runner) | answered calls, results to send, recovered results, confirmations, blockers, queue, active execution, idle timer, events seen | open a stream or poll, reconcile the history, handle tool uses, confirmations, interrupts and results, execute, send and retry, flush, idle exit | crash anywhere; replies lost; the same event from stream and history, in any order; goroutines of timed-out tools; sessions shared with other runners | no tool runs twice while its record stands; one result per call; interrupts are final; consent is respected; the session never waits for ever; idle means nothing is open |
| **Tool result ledger** (`selfhosted/tool_result_store.go`) | one JSON file per call: started, result, sent | Begin, SaveResult, MarkSent, Discard, Recover | process death and power loss between system calls; failing system calls | records are never torn; what was acknowledged survives; an execution is granted once |
| **Environment worker** (`lib/environments/worker.go`, `poller.go`, `heartbeat.go`) | item in hand, lease token, last success, stop cause, contexts | poll, acknowledge, discard, handle, heartbeat, stop | two goroutines per item; several workers and one lease; timeouts; shutdown with a drain | only its own work is stopped; a lost lease is given up in bounded time; every work ends |
| **Bash session** (`toolset/bash.go`) | process, generation, dead flag, buffers | Run, Restart, Close | three goroutines per process that outlive it; calls that were abandoned and are still in `Run`; timeouts | a result is of the call's own command; a replaced process does not disturb; none is left running; every call returns |
| File and search tools (`toolset/file.go`, `path.go`, `search.go`) | none between calls | read, write, edit, glob, grep | - | results of a single call |
| **Skill installation** (`selfhosted/envinit`, `selfhosted/skill_hub.go`) | skill directories, list of installed ones | Setup, replace, Cleanup | failures and crashes between renames | old or new skill is there; no session meets another's; nothing is left behind |
| **API client** (`client.go`, `utils/retry.go`, `batch.go`) | tokens by resource, one lock | refresh, Do, DoBatch, retry | racing refreshes, retry limits, throttling | no request with a token that is over; one refresh at a time; every request ends |
| **Breaker** (`utils/breaker.go`, `breaker_provider.go`) | allow time, waiters with indices, breakers by model | Wait, Reset, GetOrCreateBreaker | swap-removal, waiters racing resets | each waiter has one place; one breaker per model; all are let through in the end |
| **Stream readers** (`utils/stream_reader.go`, `ssestream.go`, the decoder of `model/session`) | accumulated error, finished flag, event under way | Recv, Next | errors held back by a line, lines that are no data, limits per call, broken connections | chunks in order, none lost; errors are reported; an end is final |
| MCP tools (`selfhosted/mcp`, `src/mcp`) | none | convert schemas and results | recursive references | - |
| API types, adapter, endpoint wrappers, generated models, helpers | none | translate | - | - |

Interactions. `EnvironmentWorker.Run` owns a `WorkPoller`; for each item,
`handleItem` starts `heartbeatLoop` in a goroutine, prepares the environment
(skill installation, tools), opens a file ledger and drives a
`SessionToolRunner` until it ends. The runner calls the control plane (stream,
list, send), the tools (in a goroutine each), and the ledger. The heartbeat's
only way to end the runner is to cancel the context they share; its only way to
tell `handleItem` why is the stop cause it stores. The runner executes the bash
tool in a goroutine and does not wait for it once its context is over: that is
how two calls meet in one `BashSession`. The skills are installed before the
runner starts and removed by a deferred call after it ended. Every request of the
client passes `setCommonHeaders`, and with it the refresh of the token; those of
`DoBatch` wait at the breaker of their model first. `PROJECT.json` lists every
component with its files, and every hazard at its line with the properties that
would catch it.

## 2. Modules

| Module | Models | EXTENDS |
|---|---|---|
| `ExecutionGrant` | abstract: what the interface `ToolResultStore` promises | - |
| `FileToolResultStore` | the file ledger, system call by system call | - |
| `FileToolResultStoreProofs` | theorems about it | the former, TLAPS |
| `RunnerState` | `toolRunnerState` and its methods, as operators on a record | - |
| `RunnerStateProofs` | lemmas about them, one per method | the former, TLAPS |
| `ToolRunner` | the runner's event loop and goroutines, control plane, ledger | `RunnerState` |
| `ToolRunnerProofs` | theorems about it | the former, `RunnerStateProofs` |
| `EnvironmentWorker` | workers, poller, heartbeats, leases, stops | - |
| `EnvironmentWorkerProofs` | theorems about it | the former, TLAPS |
| `BashSession` | the bash session, its process and goroutines, and the calls of the tool | - |
| `BashSessionProofs` | theorems about it | the former, TLAPS |
| `ModelBreaker` | `querySet` and slow start, as operators on a record | - |
| `Client` | requests with retries, token refresh, batch requests at the breaker | `ModelBreaker` |
| `ClientProofs` | theorems about it and the breaker's queue | the former, TLAPS |
| `SkillSlots` | abstract: what the installation of skills promises | - |
| `SkillInstall` | the installation and its cleanup, call by call | - |
| `SkillInstallProofs` | theorems about it, the refinement of `SkillSlots` among them | the former, TLAPS |
| `StreamReader` | the three ways of reading a stream, line by line | - |
| `StreamReaderProofs` | theorems about it | the former, TLAPS |
| `MC...` | instances for TLC: named tasks, symmetry | the module they instantiate |

A definition whose comment begins with *Faulty* is a mutation of the definition
that follows it. No specification uses it: `PROJECT.json` pairs each with the
property that finds it, to show that the property depends on that piece of code.

### FileToolResultStore

`vis[c]` is what a reader of the call's file finds, `disk[c]` the set of contents
that may be found after a power loss; a rename adds to `disk[c]`, the directory's
fsync leaves only what is visible. A method is a sequence of steps (`op.step`):
create, sync, rename (or remove), dirsync. One method runs at a time, as the
store's only caller is the event loop (the lock of the store is therefore not
modelled). `Begin`, `SaveResult`, `MarkSent`, `Discard`, `Recover` with
`RecoverEntry` are the entries; any system call may fail (`IOFails`), the process
may die (`ProcessDies`) and the machine lose power (`PowerLoss`) between steps.
`IOFails` leaves a rename that happened in place: the caller sees an error for a
write that may have taken effect, as with `writeRecord`. `granted` and `acked` are
history variables: how often `Begin` granted each call since its discard, and the rank of the last
acknowledged record of each call.

### RunnerState and ToolRunner

`RunnerState` has one operator per method of `toolRunnerState` that only changes
the struct: `ObserveSessionState`, `MarkAnswered`, `HandleInterrupt`,
`ReconcileUnmatchedRequiresAction`, `ReconcileRecoveredResults`, `ArmIdle`, ...
Each takes the record and returns it changed. A reference in a requires_action is
either an event id (`EventId(c)`, which equals the call's id for calls in
`SameId`) or an id the runner cannot map (`Opaque`).

`ToolRunner` has the event loop: `pc` is the place where it waits, goes round a
loop, or has a request under way.

| `pc` | Code |
|---|---|
| `down` | between two runs |
| `open`, `list`, `event`, `pending`, `handle` | `runStream`/`runList`: opening, listing, the loops of `handleListedEvents` |
| `top`, `flush`, `select` | one round of `consumeStream`/`consumeList`: `flushResults`, then the select |
| `send`, `sent` | inside `retrySendEvent`, and what `sendResult` does after it |
| `sleep` | `sleepOrIdle` |

`lp` holds the locals of a listing, `send` those of `sendResult`, `exec` the
active execution as its goroutine sees it, `running` the tools whose goroutine
has been abandoned by a timeout or a cancellation. A step runs the whole handler
up to the next point where the code can block. `log` is the session's history at
the control plane, `net` the results that are on their way although the client
gave up on them, `ledger` the records as the file store leaves them. The external
actions (`AgentUses`, `AgentWaits`, `UserInterrupts`, `LateDelivery`, ...) only
append events that a session can have; `Crash` loses everything but `log`, `net`
and `ledger`. `executed` and `ever` are history variables.

### EnvironmentWorker

`wk[k]` is one worker: `at` is where `Run`/`handleItem` stands (poll, ack, discard
and drop for work without a session, setup, run, close for the deferred calls,
stop), `beat` where its heartbeat goroutine stands, `since` the time since
`lastSuccess`, `current` whether the token it would send is the one the control
plane holds, `cause` the stop cause. `work[w]` is the control plane's record with
its owner and the age of its lease. Time is discrete and passes (`Tick`) only
while every worker waits: in a session, between beats, or for a request that
times out; so requests that do not time out take no time. The control plane is
modelled from how the code uses it: a poll may hand one item to two workers, an
acknowledgement is a compare-and-set from queued, an expired lease makes the item
available again, a heartbeat must name the last one (412 otherwise), a stop names
the work but not the worker.

### BashSession

`gen`, `dead` and `buf` are the session's fields, `proc[g]` the process of
generation `g` with what is in its pipes (`pipe`) and what its readers hold
(`reader`), `call[c]` one call of the tool. What the mutex protects is one step;
`cond.Wait` is not, so a call waits (`at = "waits"`) until it is `woken` and then
checks, in the code's order, for its report, the dead flag, its context and its
deadline (`CheckReported`, `CheckDead`, `GivesUp`, `WaitsOn`). A second call enters
only when every one before it has returned or was abandoned by the runner
(`Cancel`), as the runner executes tools one after the other. Bash takes the
frames from its stdin in order; a frame's output and its report are marks with the
name of the call, on two pipes. The two readers' end of file and `waitLoop`, which
all set the dead flag if the process is the current one, are one action (`Lost`).

### Client and ModelBreaker

`req[r].pc` is where a request stands: in `refresh` (check, try, lost, held,
blocked, rpc), about to load its token (load), with the server (sent), between
attempts (backoff), or in `Wait` (enter, waiting, refused, asleep, passed). `token`
is what each resource's token has left to live, in ticks, `locked` the one lock for
all resources. `waiters` is the breaker's `querySet`, a record with the slice and
the index, and `since` the time since `allowTime` (negative before it). The clocks of
the two are apart: a token lives for days, the breaker opens after seconds.
External are the token service, which is assumed to answer within the mandatory
time (ten minutes in the code), and the server's answers.

### SkillSlots and SkillInstall

One action per call of the file system in `installSkill`, `copyArchive` and
`replaceSkillDir`; `slot[n]` is the directory of a skill (absent, from before,
from session k, or half removed), `backup` what was moved away, `litter` what
nobody will remove. A failing call of the installation itself ("io"), of a removal
("remove") and of a download ("fetch") and the death of the worker ("crash") are counted
apart. Under the mapping `Visible` (a skill that is being replaced is taken
to hold what it held) and `Mine`, `SkillInstall` implements `SkillSlots`, where an
installation is a single step that puts the whole new content in place.

### StreamReader

`lines` is the answer's body, of each line only what a reader tells apart. The
reader is chosen at the beginning: "lines" is `ChatGenStreamReader` and
`ImageGenerationStreamReader` (which are the same code twice), "responses" is
`ResponsesStreamReader`, "session" the `StreamDecoder`. `acc` is what
`ErrAccumulator` would unmarshal to, `event` the data that the decoder holds.
`ExpectedAt` is a reference definition of what a caller gets from a stream of
bare frames; `FollowsFrames` compares all three readers with it.

## 3. Runs

| Run | Question |
|---|---|
| `store` | Does the ledger keep its promises under deaths, power losses and failing calls? `NoTornRecord`, `AckedSurvives`, `GrantedIsRecorded`; it refines `ExecutionGrant` (`GrantsOnce`). |
| `runner_faults` | One call, any four of ten kinds of fault. `NeverExecutedTwice` (a record whose discard failed is found again), `SentIsDelivered`. |
| `runner_calls` | Two calls in two threads, one asking for permission, streaming and polling, with crashes, lost replies, late tools, interrupts, and a store that does not fail. `InterruptIsFinal`, `NoExecutionWithoutConsent`, `ScheduledIsQueued`, `OneResultPerCall`, `NeverExecutedAgain`. |
| `runner_shared` | A session shared with another runner, without a ledger, with ids that are equal to the call's or unknown. `AnsweredIsResolved`, `IdleLeavesNothingOpen`. |
| `runner_liveness` | `AwaitedIsResolved`: what the session waits for is resolved. |
| `worker` | Any two of nine kinds of fault. `StaleLeaseIsGivenUp`, `QuietBeforeStop`, `CompletedMeansDone`, `StopsOthersOnlyAfterLease`, `EveryWorkEnds`. |
| `bash_session` | Two of three calls: one that hangs, one that ends, one that restarts; any two faults (bash cannot be started, a file not be written, bash dies). `OkMeansDone`, `BufferIsOfCurrentProcess`, `OnlyAbandonedCallsDisturb`, `AtMostOneProcess`, `EveryCallReturns`. |
| `client` | Three requests for two resources, as `Do` with tokens or a key and as `DoBatch`; any two faults. `SentTokenIsValid`, `RefreshesOnlyWhenDue`, `WaitersHavePlaces`, `OneBreaker`, `EveryRequestEnds`. |
| `skills` | Three sessions with up to three of two skills, two failing calls and one each of the other faults. `InstallsAtomically` (the refinement), `NoStaleSkill`, `NothingLeftBehind`. |
| `stream` | Every stream of up to four lines of nine kinds, of up to three frames, and of up to two lines behind a chunk that three empty lines precede, with three endings, read by five calls. `ChunksInOrder`, `FollowsFrames`, `FirstErrorIsReported`, `EndIsFinal`. |
| `runner_idle_stuck`, `worker_drain` | Disagreements between code and comments, section 4. |

Bounds. `MaxLog` is the longest history (4 to 6 events): a use, a confirmation or
an interrupt, a status that waits, a result and an end_turn fit in it. `MaxFaults`
(1 to 4, by run) counts every fault together, so that pairs and triples of
different faults meet, which is where such code fails; single faults are
unbounded in kind, not in number. Two calls are needed for the queue, for
references that match one call only and for interrupts of one thread; one call is
enough for crashes between record, execution and send. `SendRetries` is 1 or 2
and `ConflictRetries` 2 in place of the code's constants: what differs is the
first attempt, an attempt in between and the last. Two workers are enough for a
race; one more would only repeat the second's part, since a worker knows another
only through the work record. `TTL` is 2 (a heartbeat interval of 1): the shortest
lease whose half is not clamped. Two results of a tool would not be told apart;
`unknown`, `done` and the results of a timeout, a cancellation and a refusal are.

For bash, a third call under way would need a second one that was abandoned; its
part would repeat the first's. `MaxCalls` 2 of three calls gives every pair: two
commands, a command and a restart in either order. For the client, three requests
are the least for a swap in the middle of the queue, and with two resources one
meets the lock of another's refresh; `Life` 4, `Advisory` 3 and `Mandatory` 2 are
the least with a state in each band, `OpenAfter` 3 the least in which the slow
start holds back the third waiter and then lets it pass; delays are counted in half
seconds, so that the sleep of 0.5 to 1.5 s is 1 or 3. For the skills, the third
session meets what the first left while the second failed. For streams, four lines
hold a line that spoils the accumulator, an error, the line thrown away after it
and one that must not be; the limit of 2 is exceeded by them, and the frames, with their empty
lines, pass it only if the count begins anew with each call. The streams that begin with
three empty lines exceed the limit first and have their error in a later call.

Symmetry is used only of calls in `store`: the other runs name their
tasks, or check liveness.

Deadlock is checked in the runs of `store` and of the worker. The others
say `CHECK_DEADLOCK FALSE`. A runner's history is full after `MaxLog` events, and a
runner that waits in its select with nothing to come is the normal end of a run;
a bash session is closed, requests are done, sessions and streams come to their end.

Fairness. For the runner: weak fairness of the event loop's own steps (a goroutine
that can go on does), of the tool's return and of a restart (the environment
worker starts a runner again while the session's work is open); strong fairness
of taking a finished execution, because Go's `select` picks at random among the
ready cases and does not starve the completion channel while events keep coming.
None of arrivals, faults, users or the agent. For the workers: weak fairness of
each goroutine, of time, of the control plane's expiry of a stop, and of
restarts. The sessions are assumed to end (`RunnerEnds` is part of `Item`).
Faults are bounded in number, hence not for ever. For bash: each goroutine goes
on and bash executes what it is given; a deadline has to pass only for a call whose
command may hang (`Hanging`), or whose process a restart has replaced. The second
is not an excuse of the model but what the code does: `Restart` makes `dead` false
again before the call that waited has seen it true; nothing else will wake that call, and its
`closeLocked` then ends the new process. For the client: a request's goroutine goes
on, calls return, and time passes; a refresh takes less than the mandatory time.

## 4. Where the code and its comments disagree

Two runs are expected to violate their property.

- `runner_idle_stuck`: a queued call that is already answered when an interrupt
  drops it from the queue stays in `scheduledToolUses`; `hasIdleBlockers` is then
  true for ever and `MaxIdle` has no effect. With a single call, where none can
  wait in the queue behind another, the property holds (`RunnerFaults.cfg`).
- `worker_drain`: `workCtx` ends the heartbeats at a shutdown while the runner may
  drain for as long as the lease lasts. Another worker may own the work when the
  deferred, forced stop is sent (`StopsOnlyOwnWork`).

These were met too, and have no run of their own; each can be reproduced by the
property or the change of a configuration it names.

- A result is discarded and its tool executed again. The comment at line 48 of the
  runner says that the store keeps a restart from executing tools with side effects
  again. `reconcileRecoveredResults` discards a recovered result and its record when
  the session's last status is running or rescheduled; if the session then waits for
  that call, it is executed again (`NeverExecutedAgain` in `RunnerFaults.cfg`). What
  holds of every session is *never again while the record stands*
  (`NeverExecutedTwice`); under the assumptions of section 5, of which a session that
  is not rescheduled is one, never again at all (`NeverExecutedAgain` in
  `runner_calls`, and the theorem `NeverAgain`).
- On a stream, a `requires_action` whose ids are none the runner knows may leave the
  session waiting for ever. `reconcileUnmatchedRequiresAction` is called at the end of a
  listing only (line 646); for an event of the stream `handleStreamEvent` goes straight to
  `reconcileRecoveredResults` (line 717), which discards a result recovered after a crash as
  one the session does not wait for (`AwaitedIsResolved` in `RunnerLiveness.cfg`, with
  one allowed call, `Opaque = {"o1"}`, `Modes = {"stream"}` and a crash; 23 steps). With
  more than one candidate the runner does not guess, by design (the test
  `TestSessionToolRunnerDoesNotGuessAmongMultipleUnmatchedRequiresAction`), and the session
  waits too. This is why `AwaitedIsResolved` is checked with known ids.
- When polling, the runner handles the pages it got when a later page fails (lines
  546-566), although the comment at line 573 rests on reading the complete history
  each round. An interrupt withdraws an executed call and its record is discarded; the
  worker restarts; the page with the interrupt fails, and the call is executed again
  (`NeverExecutedAgain` in `RunnerFaults.cfg`, with `Modes = {"list"}` and the faults
  network, crash and interrupt; 18 steps).
- Two heartbeats that time out outlast the lease before the staleness check can see
  it (`heartbeat.go`, lines 38-77 and 113-124); an item that ends in that window is
  stopped by force although its owner may have changed (`StopsOnlyOwnWork` in
  `Worker.cfg`). The run `worker` shows how far that goes: `StopsOthersOnlyAfterLease`,
  never before a whole lease without a heartbeat.
- A bash command's result may lack its output: the report comes on a pipe of its own,
  and `Run` takes what `readOutputLoop` has stored by then (`OkHasItsOutput` in
  `BashSession.cfg`, eight steps). The test of `echo alive`
  (`toolset/toolset_test.go`, line 492) expects the output, and has it as long as
  the scheduler is kind.
- An abandoned call that enters `Run` or `Restart` only after `Close` starts a bash
  that nobody closes; `AtMostOneProcess` names exactly this exception.
- The comment on slow start (`utils/breaker.go`, line 80) says that one request
  passes at first; `Query` is less than `2^elapsed` for the first two, and 0 for an
  unknown one. A shorter Retry-After opens the breaker before a longer one is over,
  and `getRetryAfter` reads the header of an earlier attempt after a transport error.
- "We ignore the `event:` line" (`utils/stream_reader.go`, line 184): the line is
  written to the error accumulator. An error that comes after it no longer unmarshals,
  and `Recv` returns neither a response nor an error (outcome "nothing"). Framed chunks
  are not harmed (`ChunksInOrder`).
- An error is counted as one of the empty lines. Behind as many of them as the limit
  admits, `Recv` returns `ErrTooManyEmptyStreamMessages` in the error's place
  (`utils/stream_reader.go`, lines 137-139); as nothing empties the accumulator, a later
  call may still report it at the end of the body, but not if the end mark is read first. `FirstErrorIsReported` is about all other first errors
  (`WithinLimit`); without that conjunct it is violated by an error behind two empty lines.
- `StreamDecoder.Err` returns "nil at clean EOF" (`session_stream_shim.go`, line 549),
  and also when the connection broke, as `io.ErrUnexpectedEOF` contains "EOF"; nothing
  ever wraps `ErrNonEOF`.
- A worker that dies while it replaces a skill leaves it away, and its backup for good:
  the next `Initializer` knows neither. A skill that was there before is removed by the
  session that replaced it (both are in `SkillSlots`: `Die`, `Remove`).

`ScheduledIsQueued` and `runner_idle_stuck` are two sides of one thing: a call that
is scheduled and *unanswered* is bound to be executed (proved), so that what keeps
the idle timer from being set for ever can only be a call that was answered while
it stood in the queue.

Two properties hold only under assumptions that the code does not enforce:
`OneResultPerCall` and `NeverExecutedAgain`. Section 5 names them (`Reliable`) and
says what happens without each; with a failing `SaveResult`, a lost reply *and* a
crash, say, a call is answered `unknown` after its first result was sent.

## 5. Proofs

TLAPS proves every safety invariant and action property that a passing run
checks, and both refinements, for every value of the
constants that the named assumptions admit: any number of calls, threads,
workers, requests or skills, any bound on faults, any length of history or
stream. Each proofs module has an inductive invariant `IInv` with named parts,
the lemmas that `Init` establishes it and that `[Next]_vars` keeps it (one step
per action or group of actions), and the theorems that follow from it.

| Module | Theorems | Assumptions on constants beyond their types |
|---|---|---|
| `FileToolResultStoreProofs` | `TypeOK`, `NoTornRecord`, `GrantedIsRecorded`, `AckedSurvives`, `GrantsOnce` (the refinement of `ExecutionGrant`) | the distinguished values are not results, `NoCall` is no call |
| `EnvironmentWorkerProofs` | `TypeOK`, `StaleLeaseIsGivenUp`, `QuietBeforeStop`, `CompletedMeansDone`, `StopsOthersOnlyAfterLease` | the lease is even or 1, whose half is clamped; for the last theorem, no drain |
| `ToolRunnerProofs`, on `RunnerStateProofs` | `TypeOK`, `ExecutedIsRecorded`, `SentIsDelivered`, `AnsweredIsResolved`, `InterruptIsFinal`, `ScheduledIsQueued`, `NeverExecutedTwice`, `NoExecutionWithoutConsent`, `IdleLeavesNothingOpen`, `OneResultPerCall`, `NeverExecutedAgain` | at least one attempt to send; `NeverExecutedTwice`: there is a ledger; the last two: `Reliable` |
| `BashSessionProofs` | `OkMeansDone`, `BufferIsOfCurrentProcess`, `OnlyAbandonedCallsDisturb`, `AtMostOneProcess` | finitely many calls |
| `ClientProofs` | `TypeOK`, `WaitersHavePlaces`, `OneBreaker`, `SentTokenIsValid`, `RefreshesOnlyWhenDue` | 1 < mandatory < advisory <= life of a token, as in the code; there is a longest Retry-After |
| `SkillInstallProofs` | `NoStaleSkill`, `NothingLeftBehind`, `InstallsAtomically` (the refinement of `SkillSlots`) | `NoSkill` and `Torn` are no sessions' skills |
| `StreamReaderProofs` | `ChunksInOrder`, `FollowsFrames`, `FirstErrorIsReported`, `EndIsFinal` | the streams are sequences of the kinds of line |

No theorem has a hypothesis about the faults except `StopsAfterLease`, `OneResult`
and `NeverAgain`; the others hold for any set of them. What each invariant adds to the properties, and why it
is needed:

**The ledger.** The shape of `op` (`OpShape`: which file a method writes, which
steps it is at); that a `Begin` under way found no record (`FreshBegin`, without
which a second grant could not be excluded); that a renamed file is the visible
one until the directory is synced (`RenamedRecord`, `RenamedInPlace`). For
`AckedSurvives`, that a write under way never has a lower rank than what was
acknowledged (`NotBehindAck`): a rename that failed half way may then leave either
file, and both satisfy the acknowledgement. The refinement maps `granted` to
itself: a step of `SyncDir` for a fresh `Begin` is `Grant`, `Remove` is `Release`,
every other step stutters.

**The worker.** `Sound` says of each worker that its record is typed, that its
clocks are punctual (`Punctual`: how old the last success may be at each place of
the heartbeat loop, from which the bound `MaxStale = TTL + 2 * Interval` follows),
and that the places of the two goroutines fit (`Guarded`). `BlameInv` says who
cancelled a context that is over: a shutdown, or a heartbeat loop that is done
and has left its cause; this is what makes "cancelled without a shutdown" mean
"stopped by request" in `stopReasonForExit`. `LeaseInv` says of an item in hand
that its lease is this worker's and no older than the last success (`LeaseHeld`),
or that a whole lease has passed since (`LeaseOver`). With a drain this fails,
as the heartbeats stop before the item does: hence the hypothesis
`"drain" \notin Faults`, and the run `worker_drain`.

**The runner.** `CallsInv`: every call is in one place: queued, executing,
answered, with a result to send, or being sent (`Orderly`, `SendInv`, `ExecInv`).
`ReadInv`: what has been read is a prefix of the history. `LedgerInv`: what is
queued is recorded and has not been executed since, which gives
`NeverExecutedTwice`. `DeliveredInv`: a record that says sent, and a send that
ended well, have their result in the history. `ConsentInv`: what is queued may
run. `InterruptInv`: the loop has in hand what it has seen used and nothing it has
seen settled, in a replay of the history as in the stream (`ReplayInv`); it gives
both `InterruptIsFinal` and `AnsweredIsResolved`, with conflicts and refusals,
which the run `runner_shared` leaves out. `IdleInv`: the timer is set only while
nothing seen is open, except between an event that touched the session and the end
of its listing, when it is taken back; it rests on `TurnsEnd`, that an agent ends
its turn only without open calls. `OutcomeInv`: a runner has no outcome before
its end. `RunnerStateProofs` says of each method of `toolRunnerState` what it does to
these fields; a step of the event loop is then quiet (nothing that matters
changes), an end of the runner, or one of some dozen steps with a proof each.

**The runner's results.** `OneResult` (of `OneResultPerCall`) and `NeverAgain` (of
`NeverExecutedAgain`) assume `Reliable`, whose clauses were found with TLC. Each
is needed: the columns say which property TLC refutes, in a session of one call
that is owned by the runner, when the clause is dropped.

| Clause of `Reliable` | `OneResultPerCall` | `NeverExecutedAgain` |
|---|---|---|
| there is a store (`HasStore`) | refuted: a crash, executed again, times out | refuted: a crash |
| the store does not fail (`"store"`) | refuted: save lost, reply lost, crash | not refuted |
| the status names the open calls (`Opaque = {}`) | refuted | refuted: what is recovered looks stale |
| the session is not rescheduled while calls are open (`"reschedule"`) | refuted | refuted: what is recovered looks stale |
| a session that is polled is listed to its end (`"network"` with `"list"`) | refuted | refuted: the page with an interrupt is missing (section 4) |

The first two are the operator's to provide; the rest is what the runner is told. All
other faults are allowed: crashes, cancellations, lost replies, requests that
arrive late, refusals, time-outs, interrupts, a terminated session, and on a stream
failed connections and listings. Where `NeverExecutedAgain` needs no store that
works, the theorem assumes it all the same: its proof shares the invariant with
`OneResult`.

`IInv` is not enough: that the record of a call has the result it was given is true
only as long as no record is discarded that is still needed, and that depends on what
the session waits for. `ResultsInv` is inductive on top of `IInv` and has these parts.
`HistoryInv`, `ConfirmInv` and `GrantInv`: what the log's status events and
confirmations mean (an end_turn comes with nothing open; a status that waits names
all that is open). `ListingInv`: a listing covers what has been seen. `RecInv` and
`AwaitInv`: the use of a recovered call is in the log, the loop comes by it before it
judges the call, and then waits for every call it has seen used and not answered or
denied; hence nothing recovered is stale (`NothingStale`), and a record is discarded
only for an interrupt (`LedgerStep`). `HeldInv`: what the runner holds or sends is on
record, what is scheduled is recorded as started, what is queued has never been
executed. `GivenInv`: the results of a call in the log and in requests under way are
equal and the record has the same result, or says sent; a call without a record was
withdrawn by an interrupt that the loop meets before it handles the call again, or has
no result and was never executed. The argument is then: what is sent was saved
before (`SaveStep`); each later runner sends what is saved; where no record is
left, the use was withdrawn and stays so (`WithdrawnStays`, `BegunIsNew`).

**The shell.** `RoomInv` (a call that enters has a process number left to start),
`CallInv` and `AloneInv` (of two calls under way one is abandoned), `ProcInv` (only
the current process runs), `TraceInv` (the bytes in pipes, readers and buffers
belong to calls of the process they are read from, and a report in them means
that its command has ended), `DisturbInv` (a process that is gone was killed for
nobody, or for an abandoned call). `TraceInv` is what makes a report in the current
buffer a report of the call's own command.

**The client.** `LockInv` (who refreshes holds the lock, alone), `TokenInv` (a token
about to be used is alive, and stays so while a refresh goes on that the request
does not wait for: what is left and what the call has taken are at least the
mandatory time), `BreakerInv`, and `WaitInv`, in which `Consistent` ties the slice
of `querySet` to its index; `AddEffect` and `RemoveEffect` (the
swap-removal) show that both keep it.

**The skills.** `PlaceInv` (what has been moved away at each step), `FailedInv` (how
many calls have failed by then: a single one never leaves anything behind),
`OwnInv` (what a directory holds is from before or the session's own, and then on
the list of what `Cleanup` removes). The refinement holds for any faults: the move
of the new skill into place is the abstract `Install`, a rollback that fails is
`Lose`, each removal of the cleanup is `Remove`, the worker's death is `Die`; all
other calls of the file system leave the abstract state as it is.

**The readers.** `OrderInv` and `FramedInv` (which lines have been returned, and
that the decoder holds at most the last), `ErrorInv` (the accumulator is empty up
to the first error, which is then in hand; `CountInv`, what a call has counted is what it
read last, is why that error is not one line too many), `EndInv` (why an end stays one), and
`BareInv`, which compares each reader's place after *n* chunks with the reference
`ExpectedAt`.

Proving found three places where a module said more or less than it meant. The reason
of a stop was a CASE with overlapping guards, which leaves the choice open; it is
now the code's order (`StopReason`). The longest Retry-After needs to exist for the
saturating clock of the breaker. `ScheduledIsQueued` is false of calls that are
answered, which is the finding `runner_idle_stuck`; it speaks of unanswered ones.

Only model-checked:

- Liveness (`EveryWorkEnds`, `EveryCallReturns`, `EveryRequestEnds`,
  `AwaitedIsResolved`): fairness and ENABLED are beyond this prover.
- The counterexamples: the properties of the two runs that expect a violation, and
  that each clause of `Reliable` is needed (the table above).

## 6. Not modelled, and the plan

Not modelled: wording and layout of messages and JSON, logging, the translation
of wire types, the tools' own work (a tool is a step that returns a result, times
out or is cancelled), lengths of back-offs (a back-off is a wait that ends),
the drain of a cancelled runner as steps of its own (`Cancel` ends the runner with
its execution cancelled; `EnvironmentWorker` has its duration), the delay of
requests that do not time out; the private directory of the bash session and the
state its commands hand on; the entries of an archive; a negative number of retries. What a tool
that timed out returns late goes to a channel that nobody reads, and is no step of the model.

Left out as components:

- `WorkPoller` with `AutoStop`, and `HandleItem`: entries of the library that
  `EnvironmentWorker.Run` does not use.
- The file and search tools: each call reads or writes files and keeps nothing. Two
  calls meet only when one timed out and goes on (a lost update between an abandoned
  edit and the next one is possible, no code or comment forbids it).
- MCP tools: conversion of schemas and of one result.
- The worker pool of `batch.go` and the endpoint wrappers: one request each.
- The generated models (`oas_*_gen.go`: encoders, validators and accessors, nine
  tenths of the repository's lines), the encoders of `pkg` and the helpers. They
  have no state and no control flow but that of the schema. The share of all lines
  that the modules cover is small for this reason; of the files with behaviour of
  their own, listed as modelled or partly modelled in `PROJECT.json`, it is most.

Plan: `NeverAgain` without the assumption that the store works; that the runner uses
its ledger as `ExecutionGrant` permits; that the idle timer is set after an end_turn
when there is but one call.
