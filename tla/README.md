# Rjest in TLA+

Rjest runs Jest test suites with a native coordinator written in Rust and Node
processes that execute the test files. This directory holds TLA+ models of the
coordinator and of the protocols it speaks with Node, the TLC runs that check
them on small instances, and proofs, checked by TLAPS, of what must hold for any
number of files and threads. Paths below are relative to the repository.

## Inventory

| Component | State | Operations | What is hard | Correct when |
|---|---|---|---|---|
| Runner pool, `crates/rjest-runner/src/lib.rs` (`run_internal`, `run_files_with_cancellation`, `run_file`) | place of each file, `BailState`, the bail `AtomicBool`, the caller's `CancellationToken`, snapshot files | take, announce, load, execute, persist, report, admit, cancel | flags are read without a lock by threads at different places of the closure; a result may be ready when the run stops | the bail boundary is exact, lost work is bounded, snapshots and reports agree with the aggregate, the run returns |
| Worker host, same file (`WorkerHost`) and `runtime/host.mjs` | routes, channels, `alive`, two pipes, the workers map, isolates | execute, send, await, kill, read frames, start, terminate, exit, drop | host crash against a registration, exit against the last output, cancel against start, one stuck isolate among others | nobody waits on a dead host, no result is lost, slots bound isolates, every call and the drop end |
| Single-file worker, same file (`execute_worker`) | one child, two reader threads | spawn, poll, kill, join | deadline against exit, events against errors | outcome matches the cause |
| Project orchestration, `crates/rjest-cli/src/main.rs` (`execute_project_runs`, `execute_selected_runs`, `run_test_cycle`) | remaining threshold, merged aggregate, child sessions | run each project, merge, finish sessions | early returns between set-up and tear-down, thresholds across projects | one bail threshold for all projects, every started session is finished |
| Sharding and sequencing, `main.rs` (`shard_bounds`, `sequence_with_native`, `NativeSequencerCache`), `runtime/test-sequencer.mjs` | timing cache | shard, order, record, save | rounding, missing cache entries, a cache shared by projects | shards partition the files, order is a permutation |
| Watch loop, `main.rs` (`run_watch_mode`, `run_interruptible_watch_cycle`), `crates/rjest-watch/src/lib.rs` | pending action, selection, cancellation token, debounce deadline | wait, settle, key press, cycle | events and keys during a run | a change is never forgotten, the loop settles |
| Reporter and hook sessions, `main.rs`, `runtime/custom-reporters.mjs`, `runtime/global-hooks.mjs` | child process, request and response lines | start, notify, finish, drop | error paths, a session that dies | teardown runs once for each setup |
| Invocation, `main.rs` (`run`, `run_test_cycle` seen from outside watch mode) | configuration, selection, results, coverage, exit code | load, show, clear caches, select, run, merge, report, exit | many ways out, each with files written before it | the exit code tells what happened |
| Snapshot files, `crates/rjest-snapshot/src/lib.rs` | one file per test file, directories that test files share | load, persist, remove | threads that make and remove one directory | a file holds what its test left, whatever the other threads do |
| Worker runtime, `runtime/worker.mjs`: suite runner | current suite and test, hooks, retries | run suite, run test, retry | concurrency limit, failing hooks, timeouts | every test gets one status, hooks pair up |
| Worker runtime: snapshot journal | entries, counters, attempts | match, record, clear attempt | retries of tests and of describe blocks | failed attempts leave no trace |
| Worker runtime: fake timers | virtual now, queue, tick mode | schedule, clear, advance | nested and overlapping advances, two drivers, callbacks that change the clock | no timer is left in the past, one driver at a time, every advance settles |
| Worker runtime: modules and mocks | CommonJS and ES registries, factories, isolation stack | load, mock, reset, isolate | mocks registered around a load in progress, an isolation that ends with an error | an import gets the instance of its registry, the end of an isolation restores the rest |
| Affected-test selection, `crates/rjest-dependency/src/lib.rs`, `main.rs` (`active_related_test_selection`) | changed files, inverse dependency graph | ask Git, build, search | files staged between two questions, cycles, resolvers that cannot be asked | no change is missed, exactly the tests that reach one are run |
| Coverage, `crates/rjest-coverage/src/lib.rs`, `merge_coverage_maps` of the runner | merged counters | merge, thresholds, reports | incompatible maps, groups of thresholds, errors after reports are written | the thresholds hold of what the tests have hit together |
| Configuration, `crates/rjest-config/src/lib.rs` and the overrides of `main.rs` | none across calls | find, load, merge presets and projects, override | precedence of five places, files that lead to files | every option is what the most specific place says |
| Discovery, `crates/rjest-discovery/src/lib.rs` | none | walk, match | roots, ignored paths, exact paths | the tests of the patterns and no other |
| Results processor, core types | none across calls | a module answers for the run; records | nothing of their own | the answer decides the exit code; core types are not modelled: records without behaviour |

How they interact: `run_test_cycle` builds the project runs, opens the reporter
and hook sessions and calls the runner once per project; the runner's pool
threads call the observer (the reporter session) and the worker host; the host
talks to one Node process through two pipes; the watch loop wraps the cycle and
cancels it through the `CancellationToken` that the pool reads. Before a cycle come
the configuration and the selection of tests, and after it coverage and the exit
code; the threads of a pool share the snapshot directories of the project.

## Modules

### `RunnerPool`, `BailRun`: the pool and what it promises

`RunnerPool` is one invocation of `rjest_runner::run`. `pc[f]` is the place of a
file in the closure of `run_files_with_cancellation`; each action is one step
between two places where another thread can interfere:

| Action | Code |
|---|---|
| `Take` | `cancellation.requested()` at the head of the closure |
| `Announce`, `Report` | `notify_file_start`, `notify_file_result` |
| `Prepare` | the head of `run_file`: the flags again, `rjest_snapshot::load` |
| `Complete`, `TimeOut`, `Interrupt`, `WorkerFault` | how `execute` and `run_file` end |
| `Persist` | `rjest_snapshot::persist` |
| `Admit` | the critical section of the `BailState` mutex |
| `Cancel` | `CancellationToken::cancel` by another thread |
| `Return` | the end of `pool.install` and of `run_internal` |

`options.bail = 0` without a token takes the branch without flags (`Plain`), as
in the code. A result is its number of failed tests, whether its snapshot is
dirty and whether it timed out.

`BailRun` is the abstract specification: results are retained one at a time, the
one that reaches the limit is the last, and a run that ends unstopped has
retained all. `ImplementsBailRun` states that the pool refines it, with
`limit <- options.bail`, `kept <- At({"kept"})`, `failed <- failedTests`,
`stopped <- Requested`, `outcome <- returned`.

### `WorkerHost`: the host process and its two pipes

The state falls into the four groups of the module header: the calls of the
pool threads (`call`, `termination`, `eventError`, `hasResult`, `outcome`), the
Rust side they share (`routes`, `inbox`, `alive`, `reading`, `dropped`), the
pipes (`requests`, `frames`, `held`) and the Node side (`hostUp`, `workers`,
`terminating`, `isolate`, `buffered`).

| Action | Code |
|---|---|
| `Register`, `Send`, `Return` | `WorkerHost::execute`: the routes lock, `send`, the removal of the route |
| `Interrupt`, `KillHost`, `Receive` | one turn of the loop of `await_worker` |
| `HostRead`, `Forward`, `HostExit` | the line handler, `forward` and the rest of `start` in `host.mjs` |
| `Isolate...` | the isolate: user code, `worker.terminate()` |
| `ReadFrame`, `ReadEof`, `ReadCorrupt`, `ReaderEnds` | `read_host_stdout` and the closure of the reader thread |
| `DropHost`, `Joined` | `Drop for WorkerHost` |
| `Crash`, `OrphanExits` | the operating system |

`RunnerPool` sees all of this as the one step from `"executing"`; `Outcomes`
lists the same ends (`result`, `timedOut`, `cancelled`, and two that are
errors).

### `SnapshotJournal`, `SuiteRunner`: one test file inside the worker

`SnapshotJournal` has no variables: a journal is a record with the fields of
`snapshotState`, and the operators are the functions that change it
(`MatchSnapshot`, `MarkSnapshotsChecked`, `ClearSnapshotAttempt`,
`RemoveObsolete`). An entry is a name and a number, a counter of 0 stands for one
that is not in the map, and `attempts[t]` is blank for a test outside
`recorded`, the domain of the `WeakMap`. `SuiteRunner` runs the tests of one
describe block on it:

| Action | Code |
|---|---|
| `Load`, `Abort`, `Prune`, `Report` | the main part of the worker: loading, its `catch`, the obsolete entries, the result |
| `BeforeAll`, `Start`, `Skip`, `FailWithHook` | `runSuiteOnce`, `runTestWithContext` |
| `Match`, `LateMatch` | `toMatchSnapshot` in a running test, and in a body that `callAsync` gave up on |
| `Finish`, `TimeOut` | the end of an attempt |
| `Retry` | one turn of `retryTest`, immediate or deferred |
| `DiscardAttempt`, `ClearNext`, `FinishSuite` | `runSuite` around a describe block with retries |

`Turn` is the order of `runSuiteOnce`: the concurrent tests form one group at the
place of the first, at most `MaxConcurrency` of them at once. `ClearNext` is one
turn of a loop that does not await, so nothing else is enabled while `clearing`
is not empty. The `afterEach` hooks of an attempt count as part of its body.

### `Sharding`, `TestCycle`, `WatchLoop`: the coordinator around the pool

`Sharding` is `shard_bounds` and the values of `--shard`; `Positions` are those that
`skip(start).take(size)` retains. `TestCycle` extends it
with the state and the steps of `run_test_cycle`; a unit stands in the list sorted by
hash at its `Place`, the number of selected units up to it, and `TestsOfShard` are those
whose places are the shard's; `WatchLoop` extends `TestCycle`
with the main thread of watch mode, and has the Next of both. `setup` holds the
settings that no key changes, `mode` those that `apply_watch_action` changes.

| Action of a cycle | Code |
|---|---|
| `SelectTests` | `selected_project_run` for the projects, with the related-test selection |
| `OrderTests` | `order_project_runs`: shard, filter by and sort by the cache, or ask the custom sequencer |
| `NothingToRun`, `BeginRun` | the ways past, and into, `execute_selected_runs` |
| `StartHooks`, `StartReporters` | the `start` functions of the two sessions |
| `RunProject`, `PoolReturns`, `ProjectsDone` | one turn, and the end, of the loop of `execute_project_runs` |
| `CloseInterrupted`, `FinishSequencers`, `FinishReporters`, `FinishHooks`, `Report` | the rest of `run_test_cycle` |
| `Fails` | an error of any step, with the sessions that are dropped by it |

The pool is the single step `PoolReturns`, and `PoolResults` is what `BailRun`
lets a run return: all results, or those up to the one that reaches the limit, or
any if it was cancelled. Projects of one group share a call because
`sequence_project_runs_with_native` merges adjacent tests of one project.
`failures` is the count that the code takes of its aggregate before every project.

| Action of watch mode | Code |
|---|---|
| `BeginCycle`, `SelectFails`, `Join` | the body of the loop of `run_watch_mode` |
| `PollKeyRunning`, `PollKeyWaiting` | `poll_action` in `run_interruptible_watch_cycle` and in `wait_for_watch_action` |
| `PollChange`, `AbsorbEvent`, `Settle` | `try_wait_for_change` and `settle_changes` |
| `PollFails`, `Failed` | an error of a poll, and the end of the thread scope it leaves |
| `Apply` | `apply_watch_action` |
| `Cycle`, `CycleFails` | a step of the cycle's thread |
| `Press`, `Change`, `Deliver`, `Noise` | the user, the file system and the watcher's thread |

`PollKeyRunning` cancels through `token`, which the cycle reads at the places
where the code reads it and nowhere else. `disk` counts changes and `begun` is its
value when the latest cycle made its selection, so `begun < disk` says that a
change is not covered by a cycle yet.

### `FakeClock`: the modern fake timers of a worker

The clock of `worker.mjs` is moved by test code, also from within a callback, by
asynchronous advances and by two automatic drivers. JavaScript has one stack, and
`stack` holds the loops of `fakeTimers` that are on it, each with the locals it goes on
with (`target`, the saved flag, its counter), and a `"code"` frame for each callback.
When it is empty the event loop chooses who goes on. `tasks` are the asynchronous
advances, `loops` the counters of the `nextAsync` loops that have not ended.

| Action | Code |
|---|---|
| `Schedule`, `Refresh`, `Clear`, `ClearAll`, `QueueTick` | `scheduleFakeTimer`, a handle's `refresh`, `clearFakeTimer`, `clearAllTimers`, `process.nextTick` |
| `SetSystemTime`, `SetTickMode`, `Install`, `Restore` | `setSystemTime`, `setTimerTickMode`, `installFakeTimers`, `restoreRealTimers` |
| `AdvanceBy`, `AdvanceToNext`, `RunPending`, `RunAll`, `RunTicks` | the synchronous advances up to their loops |
| `UntilFires`, `UntilEnds` | a turn, and the end, of `runTimersUntil` |
| `AllFires`, `AllEnds`, `TickRuns`, `TicksEnd` | the same of `runAllTimers` and `runAllTicks` |
| `Return`, `Throw` | a callback returns, or throws: the loops above the catcher run their `finally` |
| `StartAsync`, `Turn`, `TaskBack` | the asynchronous advances between `withPausedNextAsyncMode` and its `finally`, one native timeout at a time |
| `AutoTick` | the callback of `installAutomaticTimerAdvance` |
| `LoopTurn`, `LoopBack` | a turn of `advanceTimersInNextAsyncMode` |

`Fire` is `runTimer` up to its callback; the callback and its `runAllTicks` are frames.
Order numbers are only compared, so `after` holds the comparisons.

### `SnapshotFiles`: the files that threads share

`disk` is the file of each suite and `folders` the `__snapshots__` directories that
exist; `step` is the place of a suite's thread in `run_file`, and `held` the data it
works with. Each call of `std::fs` is a step, because `create_dir_all`, `write`,
`read_dir` and `remove_dir` of two threads may meet in one directory.

| Action | Code |
|---|---|
| `StartPool` | the pool is given the tests of a project |
| `Load`, `Return` | `load`, and what the worker gives back: other entries, or other values under the same keys |
| `Persist_Begin`, `Open`, `Fill` | `persist` up to its `fs::write`, which truncates before it fills |
| `Unlink`, `ListFolder`, `RemoveFolder` | `fs::remove_file` and the two calls of `remove_empty_parent` |

### `RelatedTests`, `Discovery`, `Configuration`, `Selection`: what is run

`RelatedTests` is `BuildGraph` (`DependencyGraph::build`), `StartSearch` and `Expand`,
one round of `related_tests`. `Discovery` and `Configuration` have operators only: a
path is a sequence of names, a pattern a name for the paths it matches (`Matched`), and
an option stands for its kind (inherited, a list behind the preset's list, a map merged
by key, the pair of test patterns, options of the run). `Effective` is the
configuration of an invocation or the first error on the way to it. `Requests` are the
files and inline objects that can be asked for; `LoadInternal` is a recursive function,
of how far a file may lead on and of the request, so that the operators it is made of
(`LoadOne`, `Normalize`, `LoadAll`) take what each request leads to as the parameter
`load`. `Project` keeps in `from` what it was made of, which only `OptionsPrevail` reads.

`Selection` asks Git and fills the selection of each project:

| Action | Code |
|---|---|
| `AskGit` | one command of `git_changed_files_with_options` |
| `Stage` | the user, between two commands |
| `NoSearch`, `BeginSearch`, `SkipProject`, `SearchProject`, `ExpandSearch`, `FinishProject` | the loop of `active_related_test_selection` over the projects |
| `SelectionFails` | an error of Git, of discovery or of the dependency bridge |

### `Coverage`, `Invocation`: the whole program outside watch mode

`Coverage` has the operators of the merge, of summaries, of thresholds and of reports.
A record is its points and those whose count is not zero; `MergeMaps` adds one map after
the other. `Invocation` extends
`Selection`, `SnapshotFiles` and `Coverage`, and takes an invocation from `given`, all
that it finds and is told, to its exit code:

| Action | Code |
|---|---|
| `LoadConfiguration` | `run` up to its first decision: `load_execution_config`, the overrides, `--showConfig` |
| `ClearCache`, `CachesCleared` | `clear_configured_caches` |
| `Select`, `StageMeanwhile`, `SelectionError` | the steps of `Selection` |
| `Plan` | `selected_project_run` of all projects, `emit_test_list`, `finish_no_test_cycle` |
| `StartProject`, `RunSuite`, `EndProject` | a turn of `execute_project_runs`, with the steps of `SnapshotFiles` for the pool |
| `Merged`, `WriteReports`, `EmitResults` | `merge_coverage_maps`, `coverage_report`, `process_test_results` and `emit_results` |

The order in which files run, the threshold of `--bail` and the bridges are left to
`TestCycle`, whose steps they are. An exit status is the lowest byte of the exit code
(`Status`), as the operating system reports it. A threshold is in hundredths of a percent.

## Runs

| Run | Question | States |
|---|---|---|
| `RunnerPool` | safety, refinement and termination of the pool with all faults | 53,692 |
| `WorkerHost` | safety of the host protocol with all faults | 932,894 |
| `WorkerHostLiveness` | does every call, and the drop, end? | 167,129 |
| `WorkerHostOrphan` | also when a child process holds the host's stdout? No | |
| `SuiteRunner` | safety, fresh attempts and termination under every retry policy and update mode | 613,341 |
| `SuiteRunnerOneName` | are counters restored when tests share a name? No | |
| `SuiteRunnerObsolete` | are only obsolete entries removed? No | |
| `WatchLoop` | safety of cycles and of watch mode; does every change get its run? | 752,452 |
| `WatchLoopInterrupt` | also when a key interrupts the run that noticed it? No | |
| `FakeClock` | safety of the virtual clock under nested, overlapping and failing advances; does every advance settle? | 404,274 |
| `Invocation` | is the configuration, the selection, what is on disk and the exit code right in whole invocations, and do they end? | 60,660 |
| `ClearCache` | does `--clearCache` keep away from projects? No | |

Bounds. Three files on two threads are the least with which a file can be
queued, another in flight and a third at the mutex; thresholds 0, 1 and 2 with
zero or one failed test per file put the boundary before, at and beyond one
file; one file hangs. For the host, two concurrent calls are enough for one to
suffer from what happens to the other; one isolate of the two cannot be
terminated. Each isolate writes one event and its result. The liveness run
leaves out the corrupt frame, the rejected event and the failing spawn, which
the safety run has, to keep the graph small; the crash stays.

For a test file, a sequential test, two concurrent ones (one of them
`test.failing`) and a skipped one give every overlap the scheduler allows; one
match and one retry per attempt, one match of a late body, and two values make
entries match, differ and be added, and put a foreign write between two writes
of one test, which is what the dirty flag depends on.

For watch mode, two files in two projects are the least with a threshold that is
handed on from one project to the next. A failed file has one or two failed tests,
so that a file can pass the threshold by one. Four setups divide the features among
them: hooks with a user at the terminal; a threshold and reporters; two shards with
any selection of related tests; a custom sequencer, which may return a test twice,
with hooks and a threshold. One key is pressed (`UpdateSnapshots`, `ToggleFailures`,
`WatchAll`, `Quit` or one without a meaning), one change is made, and noise is added
whenever the channel is empty, so a change can stand behind noise. These are enough
for each race of a key, of a change and of an error with each step of a cycle. The
violation run needs one file and two keys.

For the clock, a timeout and an interval, both without a delay, which makes two timers
due at one time and, within a tick, at the next; two advances that may overlap; four
calls of test code anywhere between or inside callbacks, enough for a callback of a
nested advance to change the clock under both. `MaxTime` stops the drivers, which would
go on for ever.

For an invocation, two projects below one root; the first has two tests of one
directory, which is what threads can disturb each other about, and a source of its own,
which the source of the second imports. `MCScenarios` is a union of families, each of
which varies one part of a common base: options in every combination of project, preset
and command line; every class of error in a file; a cache directory that cannot be
removed; a project whose graph cannot be built, and ignored modules; changes of a source
or of a snapshot file with another change, and imports with and without a cycle; every
way to name files; the histories that Git can be asked about; the snapshot files of the
two tests (missing, current, legacy, of another version, broken) with
`--updateSnapshot`, with `--ci` and with neither; groups of thresholds on statements,
branches, functions and lines, as shares, as one that cannot be met and as numbers;
reporters; tests that instrument one file alike and differently; and the ways a run can
end. `MaxLoads` = 4 files and objects lead to one another, one more than the deepest
chain that ends (a configuration, the `package.json` of its project and the file that
one names); `MaxStaged` = 1 file is staged between the questions to Git, of which there
are two at most on the working tree. The two threads are those of the pool.

Fairness. Pool threads, the reader thread and the main thread are operating
system threads, and the host's event loop handles what is in its queues, so
each is weakly fair; a file's wall-clock limit always elapses, so the interrupt
is fair as part of its thread, and so is the grace period that leads to the
kill. Nothing is assumed of tests, of crashes, of cancellations or of child
processes. `IsolateTerminated` is fair because `worker.terminate()` stops
JavaScript; isolates in `Stuck` are the exception that `await_worker` names.

In the worker the event loop takes up what is ready and every test has a
timeout, so `TimeOut` is fair; `Match`, `Finish` and `Abort` are not. A test that
blocks the event loop is outside this module: the file's limit in the pool ends
it.

In watch mode the main thread and the cycle's thread run, and the calls they make
return: hooks, reporters and the pool answer (the pool does: `Termination` of
`RunnerPool`), the user answers a prompt that is open, and the debounce deadline
passes even if events keep coming, because repeated paths do not move it. The
watcher's thread delivers what it has seen. Nothing is assumed of keys, of changes
and of errors.

In the fake clock callbacks return (one that does not return is ended by the file's
limit), and the event loop comes to every native timeout: strongly fair, because a
callback on the stack disables it meanwhile. The drivers and test code are not fair.

An invocation goes on: `Step`, every action of its own, is weakly fair, since Git, the
file system and the pool answer (the pool does: `Termination`). `LoadConfiguration` is
not, because a `package.json` can refer to itself and the program follows it until the
stack is full, and neither is `StageMeanwhile`, a choice of the user.

Deadlock is checked in every run but `Invocation` and `ClearCache`, where an invocation
with its exit code has nothing left to do (`InvocationEnds` says that it gets there);
elsewhere `Over` is the stuttering step of a run that has returned.

## Properties

Of the pool: `BoundaryIsTight` (the flag is up exactly at the threshold, and one
retained result made the difference), `OvershootBounded` (a stop wastes at most
one file per thread, one less for bail), `SnapshotsFollowResults`,
`ImplementsBailRun`, `Termination`. `ReporterSeesRetained` is proved only.

Of the host: `DeathReachesEveryCall` (registration against the end of the
reader), `SlotHeldWhileRunning` (no isolate without its waiting thread),
`ResultNotLost` (exit does not overtake output), `CancelReachesIsolate`,
`OutcomeHasCause` (a verdict has its cause, and an observer's error is never reported as
anything but an error or no result), `DeadlineEnforced`, `DropCompletes`.

Of a test file: `NoTraceWithoutRecord` (a discarded attempt is as if it had never
run), `FreshAttempt` (no attempt begins with the record of another),
`SummaryMatchesRecords` (the totals are those of the kept attempts),
`DirtyWhenNeeded` (clearing never lowers the dirty flag of changed data, as long as no
two tests share a name), `UsedEntriesSurvive`, `FileEntriesUntouched` (without `--updateSnapshot`),
`Termination`.

Of cycles and watch mode: `BailAcrossProjects` (no project is started past the
threshold or with the limit 0, which would mean no limit), `SetupIsTornDown` (also on
the early ways out), `EveryTestInOneShard`, `ChangeNotLost`, `ChangeGetsRun` (a change made at any time is followed by
a run, unless a key interrupted the cycle that had noticed it),
`HistoryFromCompleteRuns` (the cache does not learn from partial aggregates).
`UpdateOnlyAsked` (an update by key lasts one cycle) is proved only.

Of the fake clock: `NothingOverdue` (no pending timer is in the past, although every
advance assigns its own target to the clock), `OneDriver` (ADR 0051), `AdvancesSettle` (an
advance ends although intervals and callbacks refill the map). Proved only:
`OnlyOwnTimers` (handles of an earlier clock, ADR 0059) and `FlagWhileAdvancing` (the
flag that puts off timers without a delay, saved and put back by loops that nest).

Of invocations: `SnapshotsOnDisk` (a settled file holds what its test left, no file is
outside a directory, no empty directory stays, and `persist` fails only where two suites
of one directory meet), `RelatedIsExact` (the search selects the tests that lead to a
change, against the least closed set), `ChangesAreSeen` (no file that differs from HEAD
is missed, unless it was staged between two questions), `OptionsPrevail` (`Prevails`:
who goes before whom, of the run and of each project, whatever led to it), `InvocationEnds`
and `ExitTellsTheTruth`, in three parts: `ResultsAreWhole` (the results given out are those
of every test the run was asked for, with a selection by changes of every test a change can
affect), `ThresholdsAreJudged` (a threshold is reported as failed exactly if what the tests
have hit together is less, computed from what each test has hit, by no merge and by no
percentage) and `SuccessIsTold`: an exit code of success is never that of an error. Nothing
that the invocation had to do has failed: its configuration, the commands of Git, the
discovery and the graphs of the selection (`SelectionHasWorked`), the directories of
`--clearCache` (`CachesAreGone`), the snapshot files, the merge of coverage
(`CoverageAgrees`), the reporters and the thresholds as they are written
(`ReportsAreWritten`) and the output file. Every unit has a result; and unless a results
processor decides, or the status of `testFailureExitCode` is 0, all of them passed and
`ThresholdsMet`. Each of these is said of what was given and of what is on disk, not of the
errors the actions met.

The collisions that `SnapshotsOnDisk` allows are real: of two tests of one directory, one
that removes its last entry can end the run of the other with an error, because the
directory is gone between `create_dir_all` and `write`, or between `remove_file` and
`read_dir`. No document rules it out, so it is no finding; `FailureIsCollision` says that
nothing else makes `persist` fail and what it costs.

Each property of a passing run is accompanied by a mutant: an operator beside
the action it changes, such as `Admit_WithoutRecheck`, with which TLC finds the
property violated. `ExitTellsTheTruth` has several, one for each way in which an exit code
could lie: missed thresholds that nobody reads (`BaseSuccess_ThresholdsIgnored`), a reporter
that does not exist and is passed over (`WriteReports_Lenient`), a merge whose error is
swallowed (`Merged_Swallowing`) and counters that replace one another instead of being added
(`MergeFile_Latest`).

## Findings

1. Killing the host is not enough to end an interrupted call: `await_worker`
   waits for the end of the stdout pipe, and a child process that a test spawned
   with inherited stdout keeps it open
   (`crates/rjest-runner/src/lib.rs:1016`). The comment there promises an
   enforceable deadline. Run `WorkerHostOrphan`. `Drop` (line 1062) waits for the
   same pipe.
2. The journals of a discarded describe block are cleared in the order in which
   they were written (`crates/rjest-runner/runtime/worker.mjs:8255`). With two
   tests of one name the counter that the second one found is put back last, so
   the retry numbers its snapshots from 2. ADR 0014 says that counters are
   restored before a retry. Run `SuiteRunnerOneName`. In the same order the dirty
   flag of two writers is not put back either, which only costs a rewrite of the
   file.
3. With `--updateSnapshot` the entries that no matcher reached are deleted
   (`worker.mjs:8573`), also those of tests that failed before their matcher,
   whose `beforeAll` failed, or that an aborted run never reached. The option is
   to "remove obsolete snapshots" (`crates/rjest-cli/src/main.rs:761`). Run
   `SuiteRunnerObsolete`.
4. An actionable key during a run sets `action = None`
   (`crates/rjest-cli/src/main.rs:2226`), also when the same run has already taken a
   change from the watcher's channel. No run follows that change until something
   else starts one. ADR 0049 says "Filesystem events are remembered". Run
   `WatchLoopInterrupt`; `ChangeNotLost` shows that this is the only way to lose one.
5. `--clearCache` compares the names of directories for equality
   (`main.rs:3155`). A cache directory that contains a project, such as `..` in a
   project's configuration, passes and is removed with the project. ADR 0039 says
   "without exposing repository-wide recursive deletion". Run `ClearCache`.

Seen while modelling and without a run: `run_file` persists a snapshot file without
looking at the flags again (`crates/rjest-runner/src/lib.rs:803`), so that a file can be
written after the run was stopped, against ADR 0018 ("Cancellation prevents later
snapshot persistence"). `native_context_key` hashes `only_changed` (`main.rs:946`), so a
failure recorded while all files are watched is not found after the key for changed
files, against ADR 0038. A `package.json` whose `jest` names itself overflows the stack
(`crates/rjest-config/src/lib.rs:494`); the model ends in 134. A `testFailureExitCode` that
is a multiple of 256 passes validation, and failed tests then end with status 0, which
`SuccessIsTold` has to except.

In the model of the clock, also without a run: an advance assigns the
target it computed when it began, so the clock turns back when an outer or an
overlapping advance ends after one that went farther (`worker.mjs:6974`, `6991`);
ADR 0056 says "Modern clocks reject backwards advances instead of mutating time
silently", of negative durations. Of two overlapping asynchronous advances the first to
settle resumes `nextAsync` while the other still moves the clock (`worker.mjs:7251`,
against ADR 0051), and if they end in the order in which they began the flag
`duringTick` stays up. An advance in progress survives `useRealTimers` and
`useFakeTimers` and moves the new clock.

## Proofs

`RunnerPoolProofs` proves, for every set of files, number of threads, threshold
and fault set: `TypeCorrect`, `BoundaryTight`, `SnapshotsFollow`,
`ReporterComplete`, `OvershootIsBounded` and `KeepsPromise`. The only
assumption is `PoolAssumption` (a finite set of files, at least one thread,
naturals for counts). The invariants build on one another: types; the flag and
the count; `SnapshotProgress` and `ReportProgress`, which say of every place of
`pc` what has been written and reported there (the stated invariants speak of
settled files only and are not inductive); `PoolBound` and `Quiet`, which count
busy threads together with the dropped files, since a thread that drops a file
stops being busy in the same step. `KeepsPromise` maps every step to a step of
`BailRun` or to a stutter.

`WorkerHostProofs` proves the type invariant, by the four groups of variables, and all
safety properties of `WorkerHost`, from `HostAssumption`. Each rests on an invariant that
says of one file where its lines and frames may be, in terms of the sequences themselves
(`Has`, `Once`, `Before`; `AfterAppend` and `AfterTail` say what a pipe's two ends do to
them):

- `DeathIsAnnounced`: `DeathInv` adds that `alive` and `reading` change together, so that
  no frame can follow the word that the host is dead.
- `CancelArrives`: in the request pipe a cancel line never comes before its run line
  (`RequestInv`).
- `SlotIsHeld`: an isolate that lives, or whose run line is still in the pipe, has a
  waiting call, and an exit frame stands for an isolate that has ended (`SlotInv`);
  `CountInv` counts the calls under way.
- `ResultIsDelivered` and `OutcomesHaveCauses`: the result of an isolate that wrote one is
  collected, or lies in the channel, in the pipe or in the buffer of its stdout with no
  exit frame ahead of it (`ResultComes` in `EndInv`), and every verdict has its cause from
  the moment it is taken, not only when the call returns.

`FiniteSums` has the sums of the community modules' `MapThenSumSet`, which takes away the
chosen element first: that the recursive function exists and has its equation
(`SumsExist`), that any element could have been taken away first (`SumOfRest`), and that a
sum of cardinalities is the size of a disjoint union (`SumOfSizes`). Its induction over
numbers is `NumbersFrom0`, which speaks of a set of numbers where the library's theorem
would take an operator.

`SuiteRunnerProofs` proves, for every set of tests, naming, snapshot file and
retry setting, the type invariant, all safety properties of `SuiteRunner` and the action
property `FreshAttempt`, from `JournalAssumption` and `SuiteAssumption`. Every step
changes the journal by one of its operators (`StepOnJournal`), so it is enough
that each of them keeps the inductive invariants:

- `DiscardedLeavesNoTrace`: `Restorable`, records speak of entries of their own test's
  name only, and a record, or the state where there is none, holds what the file held.
  Names shared by tests break exactly this, which is why the property is about tests with
  a name of their own.
- `UsedEntriesStay`: `Holding`, the entries that a record notes are in the data and no
  longer unchecked.
- `ChangesAreWritten`: `Clean`. Its core is a `Ledger`: writers have begun at different
  write counts, and between the count where a writer began and the present one there is
  room for its own writes and for those of all that began after it. So the count that a
  clear compares with can only be reached when nobody else has written since, and the flag
  it puts down is owed to nobody (`FlagKnown`). The proof failed for tests that share a
  name, for a reason: a test that matched the entry another one had just written notes
  that entry and, when its clear comes after the writer's, puts it back with the flag
  down. `DirtyWhenNeeded` therefore has the hypothesis that no names are shared.
- `TotalsAreTrue`: the totals are sums over the tests that have a record (`SummaryTrue`),
  with `FiniteSums` for one summand that changes, comes or goes.

`WatchLoopProofs` begins with the shards: for every number of tests and of shards,
consecutive shards are adjacent, the last one ends with the last test, no position is
in two shards and each is in one. `ShardsInOrder` is the lemma behind it: with
q tests per shard and r left over, a shard that comes later starts no earlier than
this one ends. The division is given to the provers once, in `Division`. As the places of
the selected tests are numbered without gaps and without doubles (`PlaceInList`,
`PlacesDiffer`), `ShardsPartition` follows for the tests, and `ShardHasItsSize` says that
each shard gets as many as `shard_bounds` grants it.

It goes on with the type invariant and all safety properties of `WatchLoop`,
from `CycleAssumption` and `WatchAssumption`.
`StepOnCycle` divides the steps of watch mode into those that leave the cycle alone,
start or end it, or are its own. On it rest: `NoCycle` (no cycle between two cycles);
`UpdateOnce` for `UpdateIsAskedFor`; `ChangeKnown` with `WaitsForAction` for
`ChangeIsKept`, which say of every place of the main thread where a change that is
not pending is remembered (`ChangeNotLost` itself speaks of the waiting loop only and
is not inductive); `SessionsSoFar` for `TeardownIsReached`, which sessions may be open
at which phase; `ResultsSoFar` with `BailKept` for `OneThreshold` and
`CacheIsComplete`, that the positions before `next` have results unless the run was
stopped, and the others have none. `GroupIsInterval` is the lemma that makes the
group of a project an interval of positions.

`FakeClockProofs` proves, for every set of timers, durations and asynchronous
advances, the type invariant and all safety properties of `FakeClock`, from
`ClockAssumption`. The conjuncts of `ClockInv` need each other: a target is a natural
number because no timer is overdue, and no timer becomes overdue because the loops on
the stack go on only with targets up to which nothing is left. `TimerSteps` and
`DriverSteps` divide the steps by what they do to the timers and to the drivers. `Sound`
is the inductive form of `FlagWhileAdvancing`: every loop upon another one has saved
TRUE, and an asynchronous advance, which may put back any flag, is at the bottom of the
stack, so nothing is left below it when it does. `OneDriverOwnsClock` rests on counters
that only grow.

`SnapshotFilesProofs` proves `FilesTypeCorrect` and `SnapshotsSurviveSharing`, for every
number of suites, threads and directories and all files of other programs, from
`SnapshotAssumption`. `SnapshotsOnDisk` is not inductive: it speaks of settled files.
`FilesInv` adds what each thread knows of its own file at each place (`OwnFiles`); that
an empty directory has a thread that will fill it or look at it again
(`EmptyIsWatched`), which is what leaves none behind; and that a thread which does not
find the directory as it left it has a suite beside it that added its file or removed
the last entry (`SurpriseIsCollision`), for which `WithinThreads` counts the threads: with
one there is no other.

`InvocationProofs` proves, for every set of files, every tree of configuration files,
every answer of Git, every finite graph, cyclic or not, and all scenarios that
`ScenarioAssumption` admits, the type invariant and all safety properties of an invocation
(`InvocationTypeCorrect`, `OptionsAlwaysPrevail`, `ChangesAreAlwaysSeen`,
`RelatedAreExact`, `SnapshotsAreOnDisk`, `ExitAlwaysTellsTheTruth`; its parts are
`ResultsAreAlwaysWhole`, `ThresholdsAreAlwaysJudged` and `SuccessIsAlwaysTold`). It also
uses `ConfigurationAssumption`, `RelatedAssumption` and `SnapshotAssumption`.
`ScenarioAssumption` says what the values of a scenario are (that a path is a sequence of
names, an exit code and a threshold are numbers, the points of a file are finitely many)
and nothing about how they fit together. The inductive invariant `InvocationInv` has a part
for each of the phases:

- `LoadedInv`: the configuration. Recursive functions exist, by induction with
  `NumbersFrom0` (`LevelsTo`, `ListsTo`, `WalkTo`), and what one file leads to is well made
  if what its requests lead to is (`GoodLoad`): each project carries the two objects it was
  made of, and by `MergesTo` each of its options is the one the more specific of them gives.
  That the bound `MaxLoads` is reached adds an error and no configuration.
- `GitInv`: of the commands asked so far, everything that differs is among the changes,
  but for what was staged meanwhile.
- `ChosenInv` and `TiedInv`: the projects before the one in turn have the tests that a
  change can affect, and the search is that of the project in turn. `SearchIsSound` has no
  recursion: what is visited is in every set closed under dependents, and only members of
  the frontier can have dependents which are not visited, so that with an empty round what
  is visited is the least such set. Forwards and backwards are one: a test reaches a change
  along imports exactly if the change reaches it along dependents (`Closed` sets are each
  other's complements).
- `PoolsInv`: `FilesInv` of `SnapshotFilesProofs`, whatever pools there were before.
- `ResultsInv`: every unit is to be run, with the pool or has a result.
- `WorkedInv`: what has not failed, by the place the invocation has reached: the commands
  asked so far were answered, the projects before the one in turn have their graphs, the
  directories before the one in turn are gone, the results so far have one way of
  instrumenting each file, the reports asked for are written. `SuccessIsTold` needs it,
  because the end of an invocation knows its exit code and no longer how it came about.
- `CoverInv`: the merged map `Joins` the maps of the tests, whatever the order in which
  they are added and whether or not coverage is collected; maps that `Joins` relates agree
  on the points of each file (`JoinsAgree`), so that a merge without an error is a fact
  about the tests; a part of the files `Meets` its rules exactly if no failure is reported
  of it. In between lie the sums of the files' numbers, which are the sizes of disjoint
  unions (`SumOfSizes`), and the percentage, rounded down to hundredths: the code compares
  a rounded percentage with a threshold of that grain, and `RoundedDown` is why the result
  is that of the exact comparison. Planning this proof showed that the
  property had been too strong: a part of the files without any points counts as hit in
  full, so that a rule beyond 100 % fails there; `ThresholdsMet` says so now.
- `EndInv`: the exit status. An end with 0 comes from few places (`EndStep`), and what
  `WorkedInv` and `CoverInv` say there is what the property asks for.

Left to TLC: liveness (`Termination`, `DeadlineEnforced`, `DropCompletes`, `ChangeGetsRun`,
`AdvancesSettle`, `InvocationEnds`), since the prover cannot reason about fairness and
ENABLED, and the violation runs. Every invariant and every action property that a run
checks is stated by a theorem.

## Not modelled

In the worker: inline snapshots, hints, the legacy serialization, nested blocks,
random order, assertion counting. In the host: bytes, chunks and JSON of the frames; stderr; the temporary files of worker
sources; a stdin pipe so full that a write blocks; two calls for the same path
in one run (only a custom sequencer that returns a test twice makes them); an error of the
host's own streams after the start of an isolate, whose `catch` does not take the isolate
out of `workers`. In the pool: errors before it starts (no workers, the worker sources, the
host's start, the threads, `crates/rjest-runner/src/lib.rs:350`), which return without a result.

In an invocation: the values of options that no other part reads, which are one option
of their kind; the text of reports, of lists and of `--showConfig`; the conversion of V8
ranges to counters; what an import resolves to (given, as what the resolver answers) and
globs and regular expressions (the paths they match); a process that dies while it
writes a file; thresholds finer than a hundredth of a percent; `cache = false`; staged
renames and roots that lie in several Git repositories; snapshot files that exist and
cannot be read or written; a cache directory of which `remove_dir_all` removes a part
before it fails (`locked` directories stay whole). A directory of
`modulePathIgnorePatterns` stands for every path below it.

Of the fake timers: the legacy clock, monotonic time and animation frames, several steps
of `advanceTimersToNextTimer`, the loop limit of ticks, `doNotFake`, clearing a timer of
another type, another delta for the interval driver, a system time before 1970, and the `TypeError`
with which a `now` that is no time ends the installation half way.

In a cycle: test-name patterns (they select tests inside files), `cache = false`,
durations and file sizes in the native order (any order within a rank is allowed). In
watch mode: the text of a prompt, the filter's path rules, rescans apart from other
relevant events. The keys `Rerun`, `WatchChanged`, `ClearFilters` and the two prompts
are in `Apply` but not pressed in the passing run, to keep it small.

The components with status `not_modelled` in `PROJECT.json` give their reasons there.

## Plan

The modules above are written. Next, in this order:

1. `FakeClock`: runs for what the findings say of overlapping advances, with the
   property that the clock never turns back as a candidate against ADR 0056; the several
   steps of `advanceTimersToNextTimer`; the legacy clock.
2. `SuiteRunner`: nested describe blocks with retries of their own, and what is left of the
   ledger of write counts when an outer block clears an inner one.
3. `SessionLines`: the request and response lines of the reporter, hook and sequencer
   processes, as the refinement of the sessions of `TestCycle`; `SingleWorker`
   (`execute_worker`).
4. `ModuleRegistry`: the CommonJS and ES module registries of `worker.mjs`, with mocks
   registered before, during and after a load, `resetModules` and `isolateModules`:
   which instance does an import get, and what does the end of an isolation restore?
5. Proofs: that the pool of `RunnerPool` and the threads of `SnapshotFiles` are two views
   of one run, and that a cycle of `TestCycle` makes of its results what `Invocation`
   makes of them.
