# Testenix, specified and checked

Testenix is a Python test framework that runs every batch of tests in a child
process of its own. This directory holds TLA+ models of its core, the TLC
configurations that check them on small instances, and TLAPS proofs of the
properties that matter most for every instance. Paths below are relative to the
package, `src/src/testenix/`; documents are named with their path in the repository.

    tlc -workers 2 -config MCSupervisor.cfg MCSupervisor
    tlapm SupervisorProofs.tla

## 1. The system

| component | source | state it keeps | operations |
|---|---|---|---|
| process supervisor | `worker.py` | `_cancelled`, `_active_processes`; per `execute()`: pipe, deadline, snapshot of ready handles, envelope, `timed_out` | `execute`, `execute_shards`, `cancel_all`; in the child `_child_entry` |
| run coordinator | `runner.py` (`_run`) | attempts per test, two retry budgets, pending round, event log | collect, run a round, absorb results, decide retries, finalize, reduce, record |
| verdicts | `contracts.py`, `aggregate.py`, `runner.py:900` | none (pure) | `finalize_status`, `exit_code`, `_should_retry` |
| batch executor and batch results | `executor.py`, `runner.py:718` | the worker's results, what it streamed | `execute_tests_async`, `_append_scope_teardown`, `_results_from_batch_execution` |
| fixture runtime | `fixtures.py` | caches, finalizers and last users per scope | resolve, finish a test, close a module, close the session |
| event stream, reducer | `events.py`, `aggregate.py` | the log | emit, canonicalise, reduce |
| history | `history.py` | three SQLite tables | `record_run`, `durations` |
| scheduler | `scheduler.py`, `runner.py:480`, `tuning.py:408` | none (pure) | `schedule_lpt`, `_execution_units`, `_initial_work_plan`, `resolve_adaptive_workers` |
| tuning | `tuning.py` | samples, source snapshot; per command: identities of its descendants | `run_tuning`, `_run_bounded_process` |
| configuration | `config.py` | `pyproject.toml` | load, `write_worker_recommendation` |
| trusted manifest, sharding analysis | `sharding.py` | digests of sources and dependencies | build, verify, classify a module |
| discovery, decorators | `discovery.py`, `api.py` | registries per module | import, collect, expand cases |
| built-in fixtures | `builtin_fixtures.py` | MonkeyPatch's undo log | patch, undo |
| migration transaction | `migration_fs.py`, `migration_service.py` | snapshot, staging directory, lock file, output | plan, validate, stage, verify, publish, clean up |
| migration validation | `migration_service.py:879`, `_unittest_probe.py` | mappings, outcomes per test, three summaries | sort out sources, run originals and candidate, match, compare |
| migration translators | `migration_pytest*.py`, `migration_unittest.py`, `migration_runtime.py`, probes | none to speak of | translate syntax trees, compare outcomes |
| reporters, command line | `reporters/`, `cli.py` | none | format, dispatch |

How they interact. The coordinator (one thread) hands work items to
`execute_shards`, which runs one thread per shard; each thread starts one child
process at a time and talks to it over a one-way pipe. The child runs the batch
executor over the fixture runtime and *streams* every attempt as soon as it is
known. The supervisor returns what it received and how the item ended; the
coordinator makes one result per test of it, publishes events, decides retries,
and at the end reduces its own event log to the `RunResult`. `run_async` runs all
this in a thread and calls `cancel_all()` from the event loop when its task is
cancelled: the two share `_cancelled` and `_active_processes`. Before the first round the coordinator
asks the history for durations and the scheduler for a plan; it may take its tests from a trusted
manifest, whose digests the workers check again before they import anything. `tune` runs the whole
program as a subprocess, again and again, and writes into the configuration the next run loads.
`migrate` runs it too, on what it generated, and compares the reports.

Hard behaviours. Cancellation races with the start and registration of children;
`wait()` returns a snapshot of two handles that change independently; `recv()` has
no timeout; processes crash, hang, survive SIGTERM, exit right after they wrote, or
leave descendants that hold the pipe open; a worker may die after it has streamed
everything and before it acknowledged; results are published again when a scope's
teardown changes them; two retry budgets share one loop; the caller's sink may raise
anywhere. Sources and configuration are edited between two looks at them; process numbers are
given again; two tests of one module that run in different processes no longer share what the module
holds; outcomes are matched with tests by parts of names. `PROJECT.json` lists these hazards at their
lines.

What makes each component correct.

- *Supervisor*: a cancellation reaches every child; no child is leaked; nothing a
  child delivered is lost; no thread blocks for ever but for two causes that can be named; one
  verdict per item.
- *Coordinator*: every attempt is paid for; a pass never hides a failure; a green run
  is complete; the event log reproduces the result; the run ends.
- *Batch*: a lost batch is not green; an acknowledged one is reported as it ended.
- *Fixtures*: every finalizer runs once, dependants first, and a failure is charged to
  the last test that used the fixture.
- *Reducer and history*: the result does not depend on duplication or order; recording
  twice is recording once.
- *Scheduler*: every test once, within the list-scheduling bound, by the very model the
  number of workers was chosen with.
- *Migration*: what is published was validated, from sources that did not change,
  by one publisher, or nothing is published.
- *Migration validation*: equal verdicts mean equal outcomes, test by test.
- *Manifest*: nothing is imported that the manifest does not vouch for, and dividing a module
  changes no result.
- *Tuning, configuration*: measurements are of the same sources, no two of them run at once, and
  what they recommend is written only into the file they were made for.

## 2. Modules

`Supervisor` is `ProcessSupervisor`. State is per work item: `pc[i]` is the place of the
shard thread in `execute(i)` (`waiting`, `scanning`, `draining`, `drained` are the
`while` loop; `closing` to `reaping` the `finally` block), `child[i]` the process,
`sent[i]`/`taken[i]` the pipe, `writing[i]` the message of which only the beginning is in it,
`saw[i]` the snapshot `wait()` returned, `clock[i]` the
deadline, `signal[i]` the strongest signal sent, `active` is `_active_processes`,
`canceller` and `targets` the thread in `cancel_all()`. One action per piece of code
between two points another actor can observe: the poll of the pipe and the poll of the
sentinel are two (`ScanPipe`, `ScanSentinel`), and so are setting the flag and taking the
snapshot (`CancelSetsFlag`, `CancelSnapshots`). The child's actions are `_child_entry`'s
plus what a process can do to itself: crash, exit, hang, or die of a signal.
A message of an item that is `Large` may enter the pipe by parts (`ChildBegins`, `ChildCompletes`): `poll()`
is true of its first bytes, `recv()` waits for the rest (`DrainWaits`), and if the child hangs in between,
or dies while a descendant holds the pipe, it waits for ever (`BrokenOff`, `Held`).
Abstracted: payloads; the number of seconds; descendants, except that one may keep the
pipe open (`Leaky`); the identity of process groups. An `exception` envelope is an
`INFRA_ERROR`, the default of `WorkItem.exception_status`, which no caller in the
repository's package changes.

`Pool` says what callers of `execute_shards` rely on: one verdict per item, in shard
order, timeouts only where there is a deadline, nothing but `CANCELLED` (or a failed
start) after a cancellation. `Supervisor` implements it (`ImplementsPool`).

`Outcome` holds the pure decisions. `Coordinator` is `_run`: its stages follow the
function from collection to history, `round`/`pending`/`waiting` are its loops,
`retriesLeft`/`recoveryUsed` its dictionaries, `log` the in-memory sink. A round is
what `Pool` promises, seen through the results made of it: every test handed out comes
back with one status, `CANCELLED` for all of them if the supervisor was cancelled before
the round. `TestRun` is what a run promises of each test, with the budget stated from the
history of attempts instead of counters; `Coordinator` implements it. Collection events
(start, issues, discovered tests) are one step, since they carry no attempt.

`BatchWorker` composes the worker's loop over a batch, its loss at any moment, what the
supervisor kept, and the coordinator's results. Its link to `Supervisor` is the property
`EveryMessageIsReceived`: what arrives is everything the worker wrote, or a prefix if the
item was cancelled or timed out. Which tests own a failed finalizer is chosen freely
among those that shared the scope; `FixtureRuntime` says which ones it is.

`FixtureRuntime` is the class of that name, driven by one batch of `execute_tests_async`.
The recursion of `_resolve` is `stack`: one frame for the test and one for each fixture being
resolved, with the parameters still to be supplied. `cache` and `finalizers` are the
dictionaries of the three scopes, indexed by context ("test", "session", or a module);
`users` holds the last users of modules and session; `dependencies` is `_dependency_keys`, which
grows as resolutions find out what needs what, failed ones included. A provider, a test and a
finalizer may each succeed, raise, or let a `CancelledError` out, which leaves the batch where it
is (`Aborts`). `charges` records which test each failed finalizer is charged to. What a parameter
resolves to (name, type, module, autouse order) is input: "absent" stands for a parameter
that gets no fixture, be it unknown, ambiguous or positional-only. `_fixture_scopes` repeats the
constant `Scope`. In a batch every module is closed with its last test, so that
`close_session` finds none open.

`Lifetimes` is what fixtures may rely on: acquired after what they rest on, released before
it, at most one of each in a context. `FixtureRuntime` implements it, each scope's own stack of
finalizers notwithstanding.

`EventLog` is the event stream for those who embed `ProcessSupervisor` with an event factory of
their own, as its public interface allows (`_run` publishes attempts itself, in one thread, and
`Coordinator!ReplayAgrees` covers that). `Emit` is `EventFactory.create` and the sink, one fact of
`_emit` at a time by each shard thread; `byId`, `ordered` are the locals of `_canonical_events`
(`canonical` the events reduced once all have arrived), whose loop is `Deliver` and `DeliverAgain`; the reduction is operators (`Observed`, `PhasesOf`,
`StatusIn`, `IncludedTests`, `Verdict`) over the canonical events, ending in `Outcome`'s
`FinalizeStatus`. Of a log that ends early the complete lines are read. Left out: times, test
specifications, and the forms of `WORKER_LOST` and `TEST_FINALIZED` that nothing in the package
writes (several tests in one fact; a whole result).

`Migration` is `migrate()` with the command that calls it, by several processes over one
filesystem, each operation of which is an action. `pc[m]` is the place of a migration; `read[m]` grows
by one file per step in each of the scans (`snapshot_source_files`, first, in the verifications,
and in the copies the validation runs are given); `ran[m]` is what those runs were given. Versions stand
for contents, whose hashes are all that is compared: an edit makes a new one or brings an earlier one
back (`Versions`). `atomic_publish` is `Publish`, `Lock`, `Note`, `Rename`,
`Sync`, `Unlock`, and its `finally` blocks are the places to which a failure or an interrupt goes
(`Interrupt`); `Note`, the writing and syncing of the lock, comes before the `try` whose `finally` removes it.
`spoiled` says who was stopped at what (`Doings`). `lock`, `output`, `reports` name who made the file. Converted suites are named by their
migration and are whole or not. Left out: what makes a path acceptable, the removal of shadow
copies, the anchoring of operations to open directories, and Windows.

`Parity` computes the verdict `Migration` takes for granted. A suite is a sequence of files with what
they declare; `ConvertedBy` is the choice of a converter (`_convert_sources`), `mappings` what the
converters mapped. Each run (`RunSource`, `RunCandidate`) lets every test do anything and makes the
entries its report would hold; `MatchPytest`, `MatchUnittest` and `MatchNative` find the mapping of each,
`Summary`, `BaselineHolds` and `CandidateHolds` come to the verdict. A path is a sequence of parts and the
dotted name a runner reports is that sequence without its first parts, which is what the matching is
about. `surprises` are the tests of which converters and runners disagree, and generated tests
missing or added.

`History` is `HistoryStore`: one transaction at a time, whose tables are `draft` until it commits; a
recorder may fail or be killed at any statement. `Scheduling` has the pure functions: `ScheduleLpt`,
`ExecutionUnits`, `WorkPlan`, `RetryPlan`, and the model of `tuning.py` that resolves `workers = "auto"`.
Time is counted in quarters of a millisecond, so that medians are whole; a mean is a fraction. `MCPlanning` puts
the two together: a plan is made of what a history of any interleaving estimates.

`ProcessTree` is `_run_bounded_process` on POSIX: the command, what it starts (which may detach itself
with `setsid`, exit early, or ignore SIGTERM), strangers, and a table of numbers that are given
again. A process is what the code calls an identity, its number and creation time; `known` is the
tracker's dictionary, `targets` what is about to be signalled. `Tuning` is the session around it: one
process tree per measurement, the fingerprint compared after each, the recommendation, and the
looks at the configuration file on the way to `os.replace`. Of a file three things matter: the
profile, the number of workers, the rest. An exception may come at any step of a cleanup that has
started, which is then not taken up again (`CleanupInterrupted`).

`ShardingAnalysis` has the statements the static analysis tells apart, its rules (`_source_blockers` and
the visitors below it), and next to them what importing such a module and running its tests does
(external: Python). `TrustedRun` is a manifest from the discovery it is made from to the run that
believes it: `Discover`, `ReadImports` (of one file after the other), `Fingerprint` (of one digest after
the other) and `Assess` each read the sources anew, `Start` verifies,
`Check` and `Import` are the worker's, per source. A digest stands for the contents. A run has as many
workers as units, each unit in a process of its own: the extreme case of sharding. Two test files, of which
one may import the other, a helper both import, and a file beside the tests that is found
before the helper.

The `MC*` modules hold the instances, and eight `*Proofs` modules the proofs: of `Supervisor`,
`Coordinator`, `BatchWorker`, `FixtureRuntime`, `History` and `EventLog` (`RecordProofs`), `Tuning` (with
`ProcessTree`), `TrustedRun` (with `ShardingAnalysis`) and `Migration`.

## 3. What TLC checks

| run | instance | shows |
|---|---|---|
| `supervisor` | one shard: an untimed item, then a timed, streaming one that announces readiness and whose descendant may keep the pipe; both may hang, survive SIGTERM and write messages by parts; a cancellation | it reaches every child, children are owned, callers see `Pool`; nothing delivered is lost, only broken messages hold `recv()`; timed items and cancelled runs end, but for what is named |
| `coordinator` | three tests, one retry, tags that match two, a raising sink, one status per way the policy treats one | budgets, honest passes, complete greens, replay, termination, `TestRun` |
| `coordinator_recovery` | the same | finding: a test that passes after a crash is flaky |
| `fixtures` | seven tests of two modules in turn, one skipped; eight fixtures of three scopes with a cycle, a broken scope and a missing one | tests run with live fixtures, failed finalizers are charged to the last user, `Lifetimes` |
| `batch` | up to three tests, two of one module around one of another, one expected to fail, one skipped | lost batches, acknowledged batches, publication order |
| `event_log` | two shards: a lost worker and a second attempt; a test whose two finalizers fail alike; a test finalized without having been selected; a foreign event with a number already used | a reader's result depends on the facts alone, reproduces every complete execution, counts equal failures, and believes no controller over the attempts |
| `migration` | two migrations of two files to one output, one of them in any mode and with a report; two troubles | what is published was validated, reports are true, nothing is replaced or waited for, and only what is named is left behind |
| `parity` | thirteen suites of one to three files, both frameworks; up to two surprises | what is accepted agrees test by test, and what agrees is accepted |
| `planning` | two recorders, three runs of six tests in three files, one failing recording | estimates are means of the distinct runs; every plan made of them is sound |
| `tuning` | one warmup and two rounds of two worker counts and pytest, two profiles; two workers, one deaf to SIGTERM, two strangers, three process numbers; two troubles | recommendations are earned, written as measured; what a finished cleanup saw is gone, strangers are spared |
| `manifest` | 560 modules left alone, three that are edited; two edits, one lost worker | changed code is refused; a trusted run is an ordinary run |
| `manifest_stale` | as `manifest` | finding: a stale selection is executed |

Bounds. Two items of one shard suffice for every race in the supervisor: threads share only the
flag and `active`, of each thread's entry in which `cancel_all()` takes its snapshot and its looks
independently, and items of different shards never read each other's state; two of one shard have an
order, and could overlap. The proofs cover any number of shards. A pipe of two envelopes and a drain limit of two, for a child
that writes three, reach a full pipe and a drain that ends at its limit with more to read
(64 in the code). Deadlock is checked everywhere but in
`manifest` and `manifest_stale`, whose run ends. Three tests cover a test that is filtered out, one that ends in a
round, and one that goes on; with one retry and the recovery a test is attempted up to
three times. Three tests in interleaved modules are the least in which a module closes in
the middle of a batch. For fixtures, a chain through all three scopes with two finalizers in
one of them is the least that distinguishes the orders of teardown, and a cached fixture of a
module asked for again, through another and alone, the least that distinguishes users. `MaxSent` bounds partial results, the only unbounded counter. A reader's events arrive at most
one place early (`Window` 2), several of them in one stream, since the code compares neighbours only. One repetition (`MaxRepeats`) may come at any moment, of any earlier event.
`MaxTroubles` (edits, files created by others, faults) is two: two edits make a torn snapshot of
two files, or are an edit and its undoing, and a kill under the lock leaves one trouble for the next publisher. Two publishers
suffice, since they meet only in the lock and the output.

`parity` takes two surprises because one cannot make up for another; its suites are the least that
have modules of one name in two packages, in a package and beside one, and below each other.
The two `MaxTroubles` of a tuning session suffice to edit and undo an edit, or to fork a process and
give its number away. In `manifest` two edits can change a source while the manifest is made and once
again during the run, and one lost worker makes one retry; the modules that are left alone make no
edits, which keeps the analysis apart from the race. In `planning` the last of three runs meets a row
with a mean of two, and three workers on up to six units leave the LPT bound something to say (it is
compared with the optimum up to five units).

Each property of a passing run has a mutant in `PROJECT.json`: a plausible bug in one
definition (the operators marked "Mutant"), with which TLC finds the property violated.

Fairness. `Supervisor!Fairness` is weak fairness of each shard thread (the operating
system runs threads, and each wait has a deadline or a handle), of a child that is neither
hung nor dead, of the death of a signalled process (not of one that may survive SIGTERM,
until SIGKILL), of time reaching an armed deadline, and of a cancellation once begun. Nothing
obliges a child to finish by itself if it may hang, nor anybody to cancel.
`Coordinator!FairSpec` lets the coordinator thread run and every round return. That rounds return is
what `TimedItemsFinish` and `CancellationEndsRun` are about, with their exceptions: an item with a deadline ends
unless its process stops in the middle of a message (`BrokenOff`), a cancelled run unless that happens or a process
without a deadline survives SIGTERM (`Survives`). Both exceptions are reached by the run, and each is stated as
holding for good: a thread that gets out of one must go on to the end.

### Where code and documents disagree

Two runs show one each (`PROJECT.json` has the quotations). `manifest_stale`: a file added beside the tests,
where it is found before the helper the manifest has a digest of, leaves the manifest valid; the selection is run
with another helper. `coordinator_recovery`: the docstring of `finalize_status` (`aggregate.py:223`) calls
`CRASH -> PASS` a plain pass; the code makes it `FLAKY`, as `docs/architecture.md`, `docs/guides/parallelism.md` and
a test (`tests/test_runtime_core.py:231`) say, and `PassedTestsNeverFailed` with them. The others were met while
modelling and are not runs:

- `ERROR_SETUP`, retried into `XFAIL`, is finalized `XFAIL`
  with exit code 0, although `docs/guides/writing-tests.md:102` says the initial failure is never hidden.
- The deadline of an item, which `ProcessSupervisor` is said to enforce (`worker.py:365`), is not looked at inside
  `recv()` (`worker.py:518`): a process that stops in the middle of a message of more than `PIPE_BUF` bytes holds the
  thread there for as long as somebody has its pipe open, and a cancellation does not reach the thread either.
  `TimedItemsFinish` and `CancellationEndsRun` except it.
- `cancel_all()` never escalates beyond SIGTERM: a process without a timeout that survives it keeps the
  cancelled run waiting for ever (`worker.py:390`, `docs/guides/parallelism.md:175`).
- The fixture graph is not validated before execution, as `docs/guides/fixtures.md:62` says it is: cycles and
  missing fixtures are setup errors of the tests that ask for them, after others have run.
- If `stat()` of the lock fails after the rename (`_unlink_owned_lock_at`, `migration_fs.py:1366`), its `OSError`
  takes the place of the success, and an output that is there is reported as not published; the README (lines 109-110) has it
  that only a report with `status: published` means that the output was created. `ReportsAreTrue` excepts it.
- If the path of a migration's report is taken meanwhile, `_migrate_command` ends in a traceback (exit 1)
  after it has published, although `docs/guides/migration.md:68` promises a warning and success.
- A child forked in the command's own session between the last capture and the exit of the leader
  survives the measurement: `_posix_signal_tree` is called with `root_group_owned=False`, although the
  comment above (`tuning.py:1178`) says that the remembered group catches it.
- The verdict of a migration may depend on the names of directories. `migrate unittest p/a q`, where `q/a`
  is a package and `p/a` is not, takes the outcomes of two modules of the same name for each other's
  and refuses suites that agree; called `z`, the same directory passes. `docs/guides/migration.md:179` speaks of
  "the outcome of every source test against its exact generated target mapping". Two modules of one name and the
  same functions, one below the other, are refused as ambiguous. `Distinguishable` names the suites for
  which this cannot happen, and the last way out: pytest's rows without identifiers are matched by order.
- A test file imported by another test file is not among the sources a worker checks
  (`runner.py:332` against the comment at 377), nor is what only that file imports. `ChangedCodeIsRefused`
  excepts both; the second came to light when its proof failed for a source without a digest.
- `build_trusted_collection_manifest` reads each test file for its imports and reads it again for its digest
  (`sharding.py:833-841`). A file that is edited and edited back meanwhile gets a manifest that verifies and has no digest of
  what the file imports. `disturbed` is what was edited while the manifest was made; `ChangedCodeIsRefused`
  excepts a file without a digest that is in it, or whose importer is, and `TrustedRunsAreOrdinaryRuns` such a manifest.

What else the models except, of what no document speaks: `from testenix import fixture as fx` escapes
`_fixture_scope_blockers`; writes to attributes of plain classes and functions, and through aliases, escape the
analysis (`Undetected` and `RenamedFixtureDecorator` of `ShardingAnalysis` name these); an edit of
the configuration between loading it and reading its bytes; the number of a measured command that is
given again after it was waited for and before `ps` is asked about it once more. What the new owner has started
then becomes a target (`Heirs`) and is signalled and, since signals go to process groups, so is whoever shares a
group with one of these: the proof of `OthersAreSpared` fails without the groups.

An exception in a cleanup that has started (a second Ctrl-C in the time of grace, `tuning.py:1343`, say) ends
`_run_bounded_process` with observed processes alive, since the handler at `tuning.py:1192` does not take a started cleanup
up again. `ObservedAreCleanedUp` excepts it. No measurement follows, so that what a session measures is not affected.

What `Migration` shows without any document saying otherwise: a migration that is interrupted, or fails, while it
writes its lock leaves the lock behind, as does one whose removal of it fails and one that is killed, and every later
publication to that output fails until someone removes it (`NothingIsLeftBehind` lists the cases). And a
file that is edited during a validation run and edited back before the last look is published although that
run saw something else: `verify_source_snapshot` compares hashes of contents, and the copies that are run are
compared with nothing. `PublishedWasValidated` speaks of the files that never came back to earlier contents (`Settled`).

## 4. What is proved

For any set of work items, any assignment to shards, any bounds (`SupervisorProofs`):

- `TypeCorrect`; every variable keeps its type.
- `CancellationReaches` and `ChildrenAreOwned`, from `CancelInv`. Neither is inductive: it
  takes `Ownership` (`active` is exactly the set of threads between registration and
  reaping, and the places of a thread say whether its child exists) and `Reach` (what
  `cancel_all()` has yet to signal is in its snapshot, since the flag is set before the
  snapshot is taken and a later registration looks at the flag again).
- `MessagesAreReceived`, from `DeliveryInv`: the final envelope is the last message of a
  child that writes no more, a sentinel once seen is a dead child, and a thread that is past
  the loop undisturbed has received everything.
- `ReceivesWhatIsThere` (`OnlyBrokenMessagesBlock`), from `BlockingInv`: a thread goes to `recv()` only from a look
  that found the pipe readable, no one else reads from it, and what made it so is still there: a message, the
  beginning of one, or the end of the file.
- `SupervisorImplementsPool`, from `PoolInv` (a recorded timeout belongs to a deadline): each
  step is a verdict of the pool, the cancellation, or a stutter.

For any set of tests, number of retries, tag filter and statuses (`CoordinatorProofs`), from
one invariant `Inv`:

- `BudgetsAreRespected` (`Account`: attempts made and due are paid for, and every attempt but
  the last was one that is retried), `EventsReproduceTheRun` (`Replay`: the log says what
  `attempts_by_test` says, an attempt being identified by its place), `PassesAreHonest`
  (`Verdicts`: a verdict is `finalize_status` of all attempts and the reducer repeats it),
  `GreenIsComplete` (`Rounds`: a selected test is due or attempted, and an empty selection is
  an issue), and `TypeCorrect`.

For any set of processes, number of files, report paths, and number of edits and faults
(`MigrationProofs`):

- `TypeCorrect` (this `TypeOK` is proved and in no run), from `TypeInv`, which adds to the types what the place of a migration says
  of its verdict, its report and the runs it has made (`Shape`).
- `PublishedIsValidated`, from `TimeInv`. What a scan reads can be ordered in time although the scan is not
  atomic: each version it has was the present one at some moment between its beginning and its end
  (`Within`). `Timed` says of each place when m read what it has: the snapshot no later than some moment of
  the history, the copies of the validation runs no earlier than it, and the present scan no earlier than
  the copies (`Bracket`). A last scan that sees the snapshot again therefore encloses everything between
  (`Between`): a settled file, to which no earlier version ever comes back, was of the snapshot all the time, at that
  moment and in all three runs. Later edits settle nothing that was not (`SettledShrinks`).
- `ReportsTrue`, from the same invariant and `Told`, which ties place, verdict, report and
  output to each other; a scan that differs from the snapshot shows a version that came after the snapshot's
  (`Stale`), or a call failed.
- `NothingReplaced`, and `NothingLeft` from `Left`: what m has created is there only at the
  places between its creation and its removal, or m could not remove it.

For any number of tests, any grouping into modules, any owners of failures, and a worker lost at
any point (`BatchWorkerProofs`), from one `Inv`:

- `LostIsNeverGreen`, `AcknowledgedIsFinal` and `PublishedSurvives`. The heart of it is `NothingForgotten`: the
  last word published of an executed test is its present result (`LastWord`), or the test is in the
  outbox and will be published again. A closed scope changes results of its owners only, forgives
  nothing, and names every owner it changes (`Revised`, `TurnOrders`), whatever the order of the names. With
  an empty outbox at the acknowledgement (`InPhase`) and nothing lost on the way (`Received`, which is
  `EveryMessageIsReceived` seen from here), what the coordinator reads is what the executor returned.
- `NotRevised`, the action property, by the same lemmas; `TypeCorrect` (in no run, like those below).

For any registry of fixtures, scopes and parameters, cycles included, any tests and any failures
(`FixtureRuntimeProofs`), from one `Inv`:

- `FixturesAreThere`. `CacheInv`: what is cached has everything it declares cached where it may use it,
  and what a wider scope holds is not closed before its last test. `StackInv`: a frame was given what it was
  asked for, except what is still to do and, of all but the last frame, what the next one makes. What is
  reached through others is a least set, so that a closed set that holds the beginning holds it all.
- `ChargesAreJust`. `UsersInv`: whoever was called last with a fixture is its recorded user, or comes before
  it; `ChargesInv`: whoever is charged has no successor that is still to be called, because the module or
  the session is over.
- `LifetimesImplemented`: every step of the runtime starts or ends one fixture, or is a stutter.
  `FinalizersInv` (nothing in a list comes after what rests on it) and `CacheInv` (between lists) make the
  order of the four separate lists the order of `Lifetimes`.
- `TypeCorrect`.

For any recorders, runs, results and failures (`RecordProofs`), from one `Inv`: the tables hold what the
entries of recorded runs say (`CommittedHolds`), and the draft holds these and the results its transaction has
inserted so far (`DraftHolds`); there is only one transaction (`OneWriter`).

- `RecordedAsAWhole` and `CountedOnce`; and `TypeCorrect`, from `TypeInv`.
- `EstimatesAreExact`: `EstimatesAreMeans`, whole. Each row of the table is the mean of the results recorded so
  far (`IsMeanOf`): the code's update, (mean * n + time) / (n + 1), takes the mean of a set to that of the set with one
  more, which rests on lemmas on sums over finite sets.

For any executions, streams, repetitions and foreign events (same module), from `LogInv`:

- `ArrivalIsIrrelevant` (`DeliveryIsIrrelevant`). The reader has read what the streams have delivered
  (`ReaderHas`), has skipped the sort only if that was in order, and what it reduces is therefore the set
  of events in the order of their numbers (`ReducedIs`). That sorting gives the same sequence whatever the order of
  arrival is proved by counting how many elements come before each.
- `PassesAreEarned` (`FinalizedIsNotBelieved`), from what the log says of attempts (`LogIs`).

For any processes, numbers, groups, files, edits and measurements (`TuningProofs`), from one `Inv`:

- `CleanedUp` and `TreeTypeCorrect`, from `RootAt` and `Tracked`: no target outlives the last signal of a
  cleanup that comes to its end (`Done`), and what was ever known is among the targets.
- `OthersAreSpared`, from `Sides` (children and groups stay on one side) and `RootAt`: a stranger becomes a
  target with the last listing only, when the command is dead and the stranger is an heir of its number.
- `FileWrittenAsMeasured`, the action property, from `FileInv`: what the session knows of the file at each place,
  given where it was edited.
- `RecommendationsAreEarned` (`RecommendationIsEarned`), in four steps. The sources a measurement ran on lie
  between the fingerprints taken before and after it, which are the same, and no edit restores an identity
  (`SourcesInv`, `MeasuredInv`). Every sample is the one the plan has at its place (`PlannedInv`, theorem
  `MeasuredAsPlanned`), so that a finished session has a sample of every candidate in every round. The order of
  candidates in a round is balanced by arithmetic on the plan. Which number is recommended is what the
  folds over the candidates compute; that the median of the one chosen is within the tolerance of the best
  is proved from the order in which it goes through them, the median by counting.
- `TypeCorrect`, of the session and of the tree.

For any modules, any edits and any number of lost workers (`TrustedRunProofs`):

- `ChangedCodeRefused`, from `Inv`: whatever a test file imports that was read for its imports is listed or has
  its digest, unless one of the two was edited since (`ListingIsSound`), so that the manifest that is made of the
  list, and the plan that is a manifest, have a digest of it (`Closed`, `ManifestIsSound`, `PlanIsSound`); and each source
  a worker has looked at is as the plan has it or was edited since (`Checks`).
- `DivisionIsUnobservable`, of the static analysis alone. Statement by statement (`LoadsQuietly`): a module in which
  nothing speaks against dividing it binds its names to what its statements say, calls nothing from elsewhere, and
  makes fixtures of single tests only. Operation by operation (`RunsAlike`, `ChangesNothing`): its tests leave
  the memory of the process as it was. Test by test (`ResultsAgree`): what a test observes does not depend on the others.
- `TrustedRunsOrdinary` (`TrustedRunsAreOrdinaryRuns`), from `CalmInv`: while nothing is edited, what is
  loaded and fingerprinted is what the sources say (`LoadedIsFresh`, `DigestsAreFresh`), a manifest is true of the contents
  its digests stand for (`Describes`), and so the plan has the tests a discovery would find now (`PlanIsTrue`), although a
  scope may have turned meanwhile (`TestsStay`); each test is given to a worker, and what a worker has found is what an
  ordinary run finds (`JobIsTrue`), by `ResultsAgree` if the file is divided and because there is only one worker of it if it is not.

And of the coordinator, from `BudgetInv`, which adds to `Inv` how the two counters and the history of attempts
determine each other (`Balances`, with one attempt more once one is due) and that a test that is not due
was given up (`GivenUp`):

- `RunImplemented`: the coordinator implements `TestRun`, the abstract budget, step by step.

The proofs assume only the named `ASSUME`s of the modules, which TLC evaluates on every run: the shapes of the
constants, that attempts do not themselves end `NOT_RUN` or `FLAKY` (no worker reports either), that tests are
numbered in collection order, that foreign events have numbers, that there is a file to migrate, that a test has
one result in a run (`reduce_events` sees to that), that durations are whole numbers and there is a time for every
candidate and round, that nobody is both a worker and a stranger, and that a module is one Python would import
(`WellFormed`: a decorator is a name bound before, an attribute is set on what has attributes) and asks the helper
nothing it has not imported.

Only model-checked, and why:

- `TimedItemsFinish`, `CancellationEndsRun`, `RunEnds` (liveness) and `NobodyIsWaitedFor` (`ENABLED`) are out of
  TLAPS's reach.
- `PlansAreSound`, `ExecutionsAreReproduced` and the two of `Parity` are about what folds, filters and matchings
  make of sequences of any length, several of them at a time.
- `StaleSelectionsAreNotRun` is violated: `manifest_stale` shows how.

## 5. Plan, and what is not modelled

What would come next: induction over the filtered log, for `ExecutionsAreReproduced`, with the means
that `ShardingAnalysis` is proved with (recursive functions, and a least counterexample in place of
the library's induction); then `BatchWorker` over `FixtureRuntime`, so that owners are no longer free.

Not modelled, and why. The translators (`migration_pytest.py`, `migration_unittest.py`) rewrite syntax trees: they
keep no state, and whether what they write means the same is a question about Python, which the program
itself answers by running both. The generator protocol of fixtures, parameters, marks and
autouse order are data. `MonkeyPatch` is a list undone backwards. Reporters and option parsing are
formatting. Windows branches (job objects, `MoveFileEx`), the anchoring of operations to open
directories, the rules on paths and links, and the scripts that draw pictures for the documentation are
platform code or no part of the program. Discovery is modelled as far as a trusted run depends on
it; the identifiers of cases and the decorators are reflection.
