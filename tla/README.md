# Haiku Gitea runner: TLA+ verification

This directory holds a TLA+ model of `act_runner`, a Gitea Actions runner for
Haiku written in C++ (`src/src/`): modules for its concurrent core, TLC
configurations that check them on small instances, and TLAPS proofs of the
properties that matter most for every size of the instance. Line references
below are into the repository.

Each definition that models code is listed in `PROJECT.json` under `map` with
the lines it translates.

## 1. The system

`act_runner daemon` polls a Gitea server for tasks, executes each task (one
job of a workflow) step by step as child processes, streams the log back and
reports results. `act_runner run` executes a whole workflow locally. Around
this core are an HTTP cache and artifact server for the jobs, a watchdog that
restarts the daemon, registration, and the pure parts: workflow parsing, the
`${{ }}` expression language, matrix expansion and the protobuf wire format.

| Component | State it keeps | Operations | Talks to |
|---|---|---|---|
| Log forwarder (`runner/LogForwarder`) | line queue, `done_`, `next_index_`, `total_sent_` | append, worker loop, `sendBatch`, `finish` | executor thread appends; `UpdateLog` RPC |
| Poller (`runner/Poller`) | work queue, semaphore, `active_tasks_`, `tasks_version_`, `shutdown_` | `start`, poll loop, ping loop, worker loops, `stop`, `join` | `FetchTask`, `Ping` RPCs; runs executors |
| Task executor (`runner/TaskExecutor`) | step results, post-script queue, workspace, `cancelled_` | `execute`, `cancel`, `reportStart`, `reportEnd` | `UpdateTask` RPC, step runner, log forwarder |
| Step runner (`runner/StepRunner`) | its spawner | `run`, `runScript`, `runAction`, `cancel` | spawner, action runner, environment files |
| Process spawner (`process/ProcessSpawner`) | `child_pid_` | `run` (with two drain threads and a timeout thread), `kill` | child processes |
| Environment files (`process/EnvManager`) | `$GITHUB_OUTPUT`, `_ENV`, `_PATH`, `_STATE`, `_STEP_SUMMARY` files | parse, apply, reset between steps | steps write, executor reads |
| Action runner (`action/ActionRunner`) | shared cache of cloned actions | fetch, run JavaScript and composite actions, queue post scripts | git, spawner |
| Orchestrator (`runner/WorkflowOrchestrator`) | `cancelled_`, registered executors, results | `run`, `cancel` | one executor thread per job |
| Job graph (`runner/JobGraph`) | none | topological order, waves | orchestrator |
| Command line (`main.cpp`) | `g_shutdown`, watchdog child | register, daemon, run, unregister, watchdog | everything |
| Cache server (`cache/CacheServer`) | entries, uploads, artifacts, index files, blobs | lookup, reserve, patch, commit, artifact calls, purge | jobs, over HTTP; disk |
| Configuration, runner state (`config/`) | `config.yaml`, `.runner` | load, save | command line |
| Runner client (`client/RunnerClient`) | token, uuid | RPCs over protobuf | server |
| Workflow parser, expressions, contexts, matrix (`workflow/`) | none | pure functions | executor, step runner |
| Gitea REST client, local client, logger | none of interest | – | – |

### What is hard in it

* **Interleavings.** The poll thread, the workers, and the main thread share a
  queue, a semaphore and several atomics that are not under one lock; the
  forwarder loads `done_` outside its lock; `cancel()` runs against a child
  that is just being started; job threads register while the orchestrator is
  being cancelled.
* **Unreliable delivery.** Every RPC can fail before or after the server acted.
  `UpdateLog` is a re-delivery protocol; `FetchTask` is not.
* **A shared directory.** Jobs that run at the same time fetch actions into one
  cache, through one `tmp_action.zip`, without a lock; what a crash leaves there
  is taken for cached by the next run.
* **Processes.** A child may ignore `SIGTERM`, leave processes behind that hold
  its pipes, or leave its process group; `waitpid` may fail.
* **Shutdown.** `join()` gives up waiting after 60 s, the watchdog after 10 s,
  and both go on with what is still running.
* **Crash and restart.** The cache index, the upload ids, the configuration and
  the runner state survive, or do not survive, a restart between two writes.
* **Results.** Tolerated failures, skipped jobs, timeouts, cancellation and
  retries are combined into one result or one exit code.

`PROJECT.json` lists these hazards line by line, each with the properties that
would catch it going wrong.

### What makes each part correct

* Log forwarder: the server's log is in order, without duplicates, without a
  hole unless attempts were exhausted, closed after its last row; `finish`
  returns.
* Poller: slots, wakeups and tasks are neither lost nor duplicated, also around
  a shutdown; `join` ends and leaves nothing running.
* Actions: what is fetched is the whole of the action that was asked for;
  outputs, variables and failures get through every level of nesting; the step
  ends, also when actions call each other in a circle.
* Executor, steps, processes: all output is delivered, reports follow the
  protocol and tell the truth, post scripts run in reverse, outputs belong to
  their step, the job ends.
* Orchestrator: jobs run in an order that respects `needs`, within
  `max-parallel`; cancellation reaches every job; the result is true.
* Cache server: a hit can be downloaded, across crashes and restarts; an upload
  ends in the entry it was reserved for.
* Expressions, wire format, environment files: they compute what their
  reference definition says, and end on every input.
* Lifecycle: a registered runner stays registered; a crashed daemon is
  restarted; a stopped one is not.

## 2. Modules

| Module | Models | Extends or instantiates |
|---|---|---|
| `LogStream` | abstract: a log that only grows, in order, until it is closed | – |
| `LogForwarder` | the forwarder, its caller, and the server's `UpdateLog` | instantiates `LogStream` |
| `LogForwarderProofs` | theorems | `LogForwarder` |
| `TaskDispatch` | abstract: tasks that are given out are started in order, each once | – |
| `Poller` | `Poller.cpp` with the server's `FetchTask` | instantiates `TaskDispatch` |
| `PollerProofs` | theorems | `Poller` |
| `ProcessSpawner` | `ProcessSpawner::run` and `kill`, and the processes | – |
| `TaskExecutor` | a job: `execute`, `StepRunner`, `$GITHUB_OUTPUT`, `cancel` | `ProcessSpawner` |
| `TaskExecutorProofs` | theorems, about `ProcessSpawner` too | `TaskExecutor` |
| `Orchestrator` | `cmdRun`'s loop, `WorkflowOrchestrator`, `JobGraph` | – |
| `OrchestratorProofs` | theorems | `Orchestrator` |
| `CacheStore` | abstract: a cache that saves at once and keeps what it saved | – |
| `CacheServer` | the cache: handlers, index, blobs, purge, crashes | instantiates `CacheStore` |
| `CacheServerProofs` | theorems | `CacheServer` |
| `ArtifactServer` | the artifact handlers of the same server | – |
| `ArtifactServerProofs` | theorems | `ArtifactServer` |
| `ActionCache` | `fetchAction` of several jobs over one directory, crashes | – |
| `ActionRunner` | `uses:` steps: checkout, JavaScript, composite and nested actions | `ActionCache` |
| `ActionRunnerProofs` | theorems, about `ActionCache` too | `ActionRunner` |
| `ExprEvaluator` | values, comparison, the parser of expressions (pure) | – |
| `EnvFiles` | `$GITHUB_OUTPUT`, `_ENV`, `_PATH` and their formats (pure) | – |
| `RunnerClient` | protobuf encoders and decoders, `doRPC`, the six RPCs (pure) | – |
| `Conversions` | the inputs of the three, and their reference definitions | the three |
| `Lifecycle` | register, unregister, their files, the watchdog, the daemon's start and end | – |
| `LifecycleProofs` | theorems | `Lifecycle` |
| `MCLogForwarder`, `MCPoller`, `MCTaskExecutor`, `MCOrchestrator`, `MCCacheServer`, `MCArtifactServer`, `MCLifecycle`, `MCActionRunner`, `MCConversions` | constants for TLC | the above |

Definitions marked "Faulty variant" are what a plausible bug would make of the
definition below them. No specification uses them; each shows that some
property would notice.

### LogForwarder

A line is its number in append order. `AppendLine`, `Finish` and `Join` are the
executor thread; `Drain`, `LoadDone`, `Answered`, `Thrown`, `GiveUp` and
`AfterSend` are `workerLoop` and `sendBatch`. `appendWithTime` and the drain
are critical sections of `mutex_`, the load of `done_` is a step of its own,
because the code makes it outside the lock. Each `UpdateLog` call is one step
that changes the server's log as well: `Faults` says which of a partial store,
a refused call, a lost answer and a timeout may happen. The server (external)
stores rows from the first it does not have, refuses a gap, and answers with
the number of rows it holds; `WireAck` models what `RunnerClient::updateLog`
makes of an empty response body. Masking of secrets is a text substitution and
is left out. `unconfirmed` and `closed` are history: whether attempts were ever
exhausted, and whether the server has seen `no_more` with all rows before it.

### Poller

The poll thread's steps are the places between which another thread can
intervene: the check of `shutdown_`, the fetch, the store of `tasks_version_`,
the timed acquire of the semaphore, the last check and the dispatch. A worker
enters the wait holding `work_mutex_`, and between its evaluation of the
predicate and its sleep (`Block`) it still holds the mutex, which
`dispatchTask` needs and `stop()` does not. `JoinStep` is `join()`, whose wait
for active tasks may time out. The ping thread only matters for `join()`. The
server keeps pending tasks and a version, and looks for a task only when the
request's version differs from its own: this is how the code uses it. A fetch
may fail before or after a task was assigned.

`TaskDispatch` has none of this: tasks that were given out wait in a list, each
place takes the first, and only after a stop may the last ones be given up. What
waits is the queue followed by the task the poll thread holds (`Waiting`); the
dispatch, the semaphore, the version, the mutex and the wakeups are stuttering
steps.

### ProcessSpawner and TaskExecutor

`ProcessSpawner` has no `Init` or `Next`: `TaskExecutor` calls `run` and
`kill`. Its processes are the child, those it leaves in its group (`stray`) and
those that left the group (`detached`); a pipe ends when nobody holds its write
end. `run()` is `CallRun`, `Spawn`, `CloseWriteEnds`, `StorePid`, `JoinDrains`,
`WaitPid`, `SetDone`, `Return`, with the drain threads and the timeout thread
as separate actors.

`TaskExecutor` is one job. `ExecuteStep` has one action per stretch of
`execute()` between two points at which the cancelling thread, a process or an
exception can intervene: parsing, setup, the job's condition, the top of the
step loop (timeout, cancellation), the step's dispatch (skipped, empty, script,
JavaScript action, exception), its return, collection of its outputs, the
record of its result, the post scripts in reverse, the job's outcome, the end
of the log, the reset of `active_step_runner_` and the final report.
Conditions, parse results and the job's clock are nondeterministic, because
`execute()` reads them and never decides them. `SetCancelled`, `LoadRunner`,
`LoadPid`, `SignalGroup` are `cancel()`, one step per load of shared state.
`EvaluationHangs` is an expression whose evaluation never returns, at each place
where `execute()`, `StepRunner` or an action's inputs evaluate one; `CallAction`
and `FetchEnds` are the fetch of an action, which takes as long as git, curl and
unzip do. A step may leave a process in the background that does not hold the
pipes (`LeaveBehind`): `run()` does not wait for it, and it goes on writing to
the one `$GITHUB_OUTPUT` file (`WriteOutput`), whose content, whoever wrote it,
`Collect` adds to the outputs of the step that is collected next.

### Orchestrator

A job is a number and 0 a name no job has. `StartSort`, `Visit` and `EndSort`
are Kahn's algorithm with the iteration order of the unordered map left open
(the dependents of one job come in the order of the map of jobs, `InMapOrder`);
`AssignWave` is `waveSchedule`, which fills the lists `waves` as well.
`WaveTop`, `Launch`, `JoinBatch` and `Collect` are the loop over waves and
batches, `Register`, `Execute` and `Unregister` the thread of a job,
`SetCancelled` and `CancelAll` the cancel thread of `cmdRun`, `NextAttempt`,
`RunReturned`, `StopCancelThread`, `JoinCancelThread` the retry loop.
`execute()` returns true or false, or throws; `TaskExecutor` shows that it can
do each.

### CacheServer and ArtifactServer

The server (`cache/CacheServer.cpp`) has one thread that runs all handlers;
its two halves share nothing else, and are two modules. In `CacheServer` a
handler is one step, except `handleCacheCommit`, whose effects on the disk are
separate (`CommitFind`, `CommitRename`, `CommitRecord`, `CommitCleanup`), and
`purgeOlderThan` on the main thread (`PurgeStart`, `PurgeOne`, `PurgeSave`),
which holds the mutex. `Start` is the constructor, `loadIndex` and `start()`.
The clients are the jobs' cache actions, as the server's protocol has them:
look up, download, reserve, send chunks, commit; any answer may be lost and is
then asked for again. A crash ends the process at any point; the disk keeps
what was written, in its order. A write of a chunk may fail; the disk is not
full when an index is written. A file is the writer of each of its chunks, so
that mixtures and holes can be told apart. `stale` is history: an upload id was
used after a restart of its server, which the server cannot notice, because
`next_upload_id_` starts from 1 again; the contents are then not claimed to be
whole. `Server` is a set because `act_runner run` and the daemon use one
directory by default; the run has one server (see the hazards).

`CacheStore` is what jobs may rely on: a save is one step, the answer to it
comes later or never, what is saved stays until it is replaced or evicted, and a
download returns what the lookup found. An entry of the index on the disk with
its blob is what is saved (`Saved`), not what the server has in memory, so a
crash between the steps of a commit is seen as the answer that is lost, and the
restart with the load of the index stutters. What is stale ends the promise.

In `ArtifactServer` a request is one step. A write of a blob may fail unnoticed
(`full`) or be cut by a crash; two runs may use one name (`clash` if they do at
the same time). `ArtifactWhole` excepts exactly these two.

### ActionCache and ActionRunner

`ActionCache` is the class of that name: `Lookup` is `cachedPath`, `Clone...`
the `git clone`, `Curl...`, `Unzip...`, `UnlinkZip`, `Flatten...` are
`downloadViaZip`, `ClearPartial` the `remove_all` after each failure with the
choice of what is tried next. git, curl and unzip are external and may fail at
any point; curl runs without `-f`, so an error page is a download as well
(`Junk`). A repository is its `action.yml` and the rest of it, written one after
the other. `remove_all` may fail, which the code ignores: any of the files in
`Stuck` may then stay. A rename of `Flatten` may throw (`FlattenThrows`), as it
does for an archive whose top directory holds an entry of its own name, and
leaves the directory half flattened. `suspect` is history: actions whose
directory two jobs have touched at the same time, or that a crash, a throwing
rename or a failed removal has left half written.

`ActionRunner` runs one `uses:` step per job. `runComposite` and
`ActionRunner::runRecursive` call each other, so a job has a stack of frames,
one per action under way, with the depth that is compared to
`kMaxRecursionDepth`. `Start`, `CheckGit` and `CheckoutEnds` are the built-in
`checkout`; `Resolve`, `FetchEnds` and `Load` find the definition;
`StartComposite`, `Refuse`, `JavaScriptMissing` and `StartJavaScript` dispatch
on it; `SkipSub`, `RunSub`, `CallSub`, `SubEnds`, `Returned` and `LoopEnds` are
the loop over sub-steps; `CollectStep` is the end of `StepRunner::run`. Of the
protocol files one output and one variable are kept, as the number of the
process that wrote them, so that an older value can be told from a newer one.
`first` and `recent` say which of these values should survive: `map::insert`
keeps the older of two. `EvaluationHangs` is an expression (an input, an `if:`,
a `run:`) whose evaluation never returns. `SpawnThrows` is a process that cannot
be started: the exception leaves all calls at once. A `Crash` starts all jobs anew over the cache as it is.

`TaskExecutor` has the same step as one process with a post script, because
there only its return matters; `ActionRunner` has the inside of it and no
cancellation (`cancel()` reaches the step's spawner only, as in
`TaskExecutor`).

### ExprEvaluator, EnvFiles, RunnerClient, Conversions

These are translations of pure functions, and `Conversions` compares each with
a definition that does not follow the code. A behaviour of `Conversions` picks
one input.

* `ExprEvaluator`: the recursive descent over a list of tokens. Where the code
  never returns (the loop of `parseCall` at a token that no argument can start
  with) the result says `loops`. The reference is `Meaning`, the value of an
  expression tree, and `Written`, the tree as tokens with the fewest
  parentheses that keep it.
* `EnvFiles`: a file is a sequence of pieces (`<<`, `=`, `CR`, `LF`, words), so
  that a last line that is not ended runs into what is appended after it. The
  reference is a list of entries with `EntryText`, how a step writes one in
  either format, `LastWrites`, the value that should count, and `Sound`, the
  entries before the first that the format cannot carry.
* `RunnerClient`: bytes. Integers are taken modulo `Word`, 2^64 in the code and
  2^28 in the run, since TLC's integers have 32 bits: the wrap-around of a
  negative number and a varint that is cut off are the same. The reference is
  `WireMessage`, the encoding of a list of fields. Its numbers, types and results
  are those of `actions-proto-go`, the server's schema, as the comments of
  `RunnerClient.cpp` quote it message by message (131, 160-166, 185-190, 211,
  227, 242, 321-329 and on); that schema is not in the repository, and
  `proto/runner.proto`, which is, differs from it (see below). Lengths so large
  that a pointer wraps around (`RunnerClient.cpp:113`, `123`) are left out.

### Lifecycle

`RegisterLoad`, `RegisterCall`, `RegisterSaveState`, `OpenConfig`,
`WriteConfig` are `cmdRegister` with `saveRunnerState` and `saveConfig`;
`UnregisterLoad`, `UnregisterRemoveState` and again `OpenConfig`, `WriteConfig`
are `cmdUnregister`. Each step may fail as the code allows, and the command may
be killed between any two. Neither file's write is checked, so both may be left
torn; a torn file does not parse (the files are shorter than a block of the
disk, so that a failed write leaves them empty). Commands run one at a time. `Check`, `Delay`,
`Spawn`, `SpawnFails`, `StorePid`, `Reaped`, `Grace`, `GraceEnds` are
`runWatchdog`; the delays only have to end, so `restart_delay_s` is whether it
is positive. `DaemonLoadConfig`, `DaemonIdentify`, `DaemonRun`, `DaemonStop`
are `cmdDaemon`, whose poller is the subject of `Poller`. A signal reaches the
watchdog at any time, also between the fork and the store of the pid, and
before the daemon has its handlers, where the daemon dies of it or, between
`fork` and `execv`, runs the watchdog's handler and makes nothing of it. A watchdog that is itself killed is not
modelled: its daemon would go on alone.

## 3. Runs

| Run | Instance | Shows |
|---|---|---|
| `log_forwarder` | 5 lines, batches of 2, all faults | prefix, closing; implements `LogStream`, and so keeps the order; `finish` returns |
| `poller` | 3 tasks, 1 slot, all faults | slots, wakeups, quiet after `join`; implements `TaskDispatch`; `stop` leads to the end of `join`; no fetched task stays for ever |
| `job` | 4 jobs of 2 steps, one line per pipe, `waitpid` failing or not | complete output, report protocol, true result, post scripts, outputs (also of processes left behind), the job ends |
| `workflow` | 3 jobs, 2 attempts, every `needs` graph up to renaming and those with cycles | schedule, starts allowed by `needs` and `max-parallel`, true result, cancellation, the command ends |
| `actions` | 2 jobs, 8 pairs of steps, 1 base URL, depth limit 2, 1 crash, 1 file that cannot be removed | whole actions, outputs and variables through the nesting, true result, the step ends |
| `cache` | 2 jobs with the same or different keys, 2 chunks, 2 crashes, a purge at each start | whole contents, hits can be served; implements `CacheStore` |
| `artifacts` | 3 runs, 2 names, 2 crashes | whole artifacts, which last once finalized and are not changed any more |
| `lifecycle` | 4 commands, any number of crashes, signals and starts | one identity, commands take effect, a signal ends everything, a crash leads to a restart |
| `conversions` | trees of depth 3, any text of 6 tokens, 2 steps of 1 and 2 entries, answers of up to 3 fields, of up to 2 cut at each byte | the parser follows the grammar and ends, variables and outputs survive, both sides understand each other |
| `log_finish_flushes` | 3 lines, no fault | violated: `finish()` leaves lines on the queue |
| `poller_pending` | 2 tasks, 1 slot, no fault | violated: a pending task is never fetched |
| `job_cancel_kills` | one script | violated: `cancel()` kills nothing |

Each module has a type invariant, `TypeOK`. It is proved for every module with a
state but `Conversions`, in whose instance it holds, and is not listed with the
runs. The inductive invariants of section 4 were checked on the instances above
before they were proved, and so were three properties that are proved and not
listed with the runs: `ServerOrder` and `OneOwner`, on which `StreamSpec` and
`DispatchSpec` rest, and `CommitIsDurable`, which says of confirmed commits what
`StoreSpec` says of all that was saved.

**Bounds.** `MaxLines` = 5 with `BatchSize` = 2 gives a full batch, a partial
batch and lines left over when `finish()` is called, and a batch whose rows are
acknowledged in part. `Capacity` = 1 and three tasks let the poll thread hold a
task while the only worker is busy and the next is pending, which is where the
semaphore, the queue and a shutdown meet; the safety properties of the poller
are proved for every capacity. Two steps are the least with an earlier and a
later output, result and post script; one line per pipe is enough to lose one.
The four jobs of `job` have between them every kind of step, a
tolerated and a fatal failure, two post scripts, and a process left behind
whose writes the next step finds when it is an action, which reads the file
itself, and when it runs no process at all (the job with the two post scripts
leaves none: it is the largest of the four).
Three jobs give every shape of `needs` that matters to the schedule (chain,
fork, join, cycles of length 1, 2 and 3) and batches of 2 and 1; two attempts
let an executor of the first be used in the second. Workflows that are renamings
of one another are left out for graphs without a cycle, as the sort's starting
order is left open anyway. `sversion`, `pid` and `attempt` are bounded by the
tasks, the steps and the attempts. In the cache, two clients and two keys give a
replaced entry and a restore by prefix; two crashes let one hit a commit and the
next a purge. In `actions`, the pairs of steps are two jobs that fetch the same
action, two that fetch different ones through the one archive file, a composite
action that uses a JavaScript action, one that uses itself twice (its second
call is made after the first was refused at the depth limit), and one reference
of every other kind; a second base URL repeats the first. In `conversions`,
depth 3 has `&&`, `||`, `!`, `==` and a call below each of `&&`, `||`, `!`, `<`
and a call, on either side and without parentheses where the grammar needs none,
and depth 2 has all comparisons over all kinds of values; six tokens
are the least for two calls inside one another with something after them; two
steps are the least with an earlier and a later value. Polls, registrations,
declarations, pings and acknowledgements are cut at every byte, with a field of
more than 127 bytes among them, so that a cut also falls inside a length.
`Stuck` is the `action.yml` of one action, at the top or below: the file that
makes `cachedPath` take a broken directory for whole. Three artifact runs give
a name that is replaced while another is read. Four commands are one more than the least
after which `config.yaml` holds the uuid of one registration and `.runner` the
identity of another. No run uses symmetry; the liveness runs would not admit it.

**Deadlock** is checked in every run but `cache` and `artifacts`, where all
clients may be done and the bounds on crashes used up (a server that nobody
calls rightly does nothing), and `conversions`, where a behaviour ends with its
input. The other modules have an explicit action for the
state in which everything is over.

**Fairness.** `LogForwarder`: weak fairness of the worker thread and of the
join: RPCs end by curl's timeout, sleeps are finite. `Poller`: weak fairness of
every thread, and strong fairness of the steps that take `work_mutex_`, since a
thread that keeps asking for it gets it in time although others take it in
between; tasks are assumed to end, which is `JobEnds` of `TaskExecutor` with its
exceptions. Nothing is assumed of the server, of spurious wakeups, or of when
`stop()` is called. `TaskExecutor`: weak fairness of the executor's thread and
of each thread of `run()`, none of the processes. `Orchestrator`: weak fairness
of each thread. `ActionRunner`: weak fairness of each job's thread, none of the
commands and processes it waits for. `Lifecycle`: weak fairness of the watchdog
and of the daemon's start, and strong fairness of `Spawn`: a fork that is tried
again and again succeeds; nothing is assumed of how the daemon stops. No
fairness is assumed of signals. `CacheServer`, `Conversions` and
`ArtifactServer` have safety properties only.

### Disagreements between code and documentation

Each of these has a run that shows it:

1. `LogForwarder.h:66` promises that `finish()` flushes all queued lines. The
   worker sends one batch after the drain that saw `done_`, so lines beyond
   `batch_size_`, or appended between the drain and the load of `done_`, stay
   on the queue (`log_finish_flushes`).
2. `Poller.cpp:178`: dependent jobs "are picked up immediately". The answer of
   a fetch under way overwrites the reset of `tasks_version_`
   (`poller_pending`).
3. `TaskExecutor.h:51`: `cancel()` "Also kills the currently-running step's
   child process". Before the pid is stored it kills nothing
   (`job_cancel_kills`).

These are behaviours of the models, visible where a property has to except
them:

* An `UpdateLog` ack of 0 is an empty body in proto3, which
  `RunnerClient.cpp:778` takes for a full ack, and so does it take a timeout:
  `unconfirmed` in `ConfirmedPrefix`, `silent` in `AckUnderstood`.
* A task fetched around a shutdown is dropped without a report, although
  `Poller.h:46` says "all in-flight tasks complete": the outcome `dropped`.
* A JavaScript action without a timeout of its own is not limited by the job's
  (`README.md:26`), the commands that fetch an action have no limit at all
  (`ActionRunner.cpp:60`, `64`, `114`), and the evaluation of an expression may
  loop, for ever or until memory is used up: the exceptions in `JobEnds` and
  `ActionEnds`.
* What a process that a step left in the background writes to `$GITHUB_OUTPUT`
  counts as an output of the step that is running by then
  (`StepRunner.cpp:130`): `lingering` in `OutputsAttributed`. What a process
  writes after the file is read and before it is emptied
  (`ActionRunner.cpp:900-901`, `StepRunner.cpp:130-140`) is lost.
* Of two values of one output, the one a nested JavaScript action wrote later
  loses, since results are merged by `map::insert` (`ActionRunner.cpp:770`,
  `781`, `808`), although `test_action_runner.cpp:394` is called "later step
  output wins"; its two sub-steps write different keys. Values written to the
  file after the last JavaScript action do win. `OutputsKept` states exactly
  this (`first`, `recent`).
* An action of a kind that is not supported fails the step
  (`ActionRunner.cpp:619`, `693`), unless it is a docker action under
  `continue-on-error`. `README.md:354` says that docker actions are "logged as
  an error and skipped", `ActionRunner.h:15` "emit warning, skip".
  `ActionResultIsTrue` counts it as the failure the code makes of it.
* `WorkflowOrchestrator.h:6-7` and `16` promise that no more jobs run at once
  than the runner's capacity; `run()` launches a whole wave or batches of
  `max-parallel`, and nothing in it looks at the capacity. `StartsAllowed` is
  about `max-parallel` only.
* A signal before the first attempt of `act_runner run` gives exit code 0
  without a job (`README.md:196`): `attempt > 0` in `SuccessIsTrue`.
* An upload that outlives a restart of the cache server can mix with another:
  `stale`. A failed write of an artifact is answered with 200: `full`.
* An `unregister` killed half way cannot be completed by running it again:
  `settled` in `CommandSettles`.
* `saveRunnerState` renames what it wrote into place without a look at errors
  (`RunnerState.cpp:72-76`), although the comment calls it atomic: a full disk
  leaves `.runner` torn. The daemon then needs `config.yaml`, and `unregister`
  finds "Nothing to unregister" and leaves the token there: `CommandSettles`
  claims nothing of such an `unregister`.
* `register` does not write its labels to `config.yaml`, from which the daemon
  takes and declares them (`main.cpp:567`), although `README.md:371` speaks of
  "whatever label you registered with". `Lifecycle` has no labels.
* A text such as `contains(github.event.labels[0].name, 'x')` or
  `contains(fromJSON(x).y, 'z')` is never evaluated to an end
  (`ExprEvaluator.cpp:427`; `README.md:277`: "Full GitHub Actions expression
  syntax is supported"): the exception in `EvaluationEnds`. `!a == b` is read as
  `!(a == b)`, which `Written` takes into account.
* Jobs that fetch one action at the same time, or a crash during a fetch, can
  leave an incomplete directory that every later job takes for cached. So can
  one job alone: when a rename throws while its archive is flattened
  (`ActionRunner.cpp:74`), or when `remove_all` fails (`121`, `131`, `140`). A
  repository without an `action.yml` at its root is fetched again each time,
  under the jobs that use it: `suspect` in `FetchedWhole`.
* `checkout` with a `path` that does not exist runs `git --version` there and is
  skipped as a success; a nested `uses: actions/checkout` is not the built-in
  one; nested JavaScript actions never have a post script; the limit of 10
  nested actions (`README.md:351`) allows 11 levels.
* `EnvManager.h:75` says that the reset between steps clears the files of
  `$GITHUB_OUTPUT`, `_ENV` and `_PATH`; `resetBetweenSteps` empties the first
  (and the summary) only. So a pair in `$GITHUB_ENV` whose value holds `<<`
  (`Carried`), or a last line that is not ended, takes in what later steps write
  (`Sound`), and each step adds the entries of `$GITHUB_PATH` again
  (`FirstSeen`).
* `EnvManager.h:7` and `69` say that a step prepends to `PATH`; the directories
  are searched in the order they were written in, a later step's behind an
  earlier one's. `EnvSurvives` states what the code does.
* `proto/runner.proto` is another schema than the one the client speaks: `Task`
  has `vars = 5`, `needs = 7` (7 and 6 in `RunnerClient.cpp:321-329`), the result
  4 is a timeout (skipped), `RegisterRequest` is `token = 1`, `name = 2`,
  `labels = 3` (name 1, token 2, labels 6), `FetchTaskRequest` has
  `tasks_version = 2` (1), `UpdateTaskRequest` is `task_id`, `state`, `steps` (a
  `TaskState` and outputs), and there is no `Declare`. By its own header it is
  reconstructed, and it is used only where generated stubs are built
  (`CMakeLists.txt:81-92`), while `RunnerClient.cpp:131-132` says that its numbers
  were verified against `actions-proto-go`. `ResponseUnderstood` and
  `RequestUnderstood` are about the latter; a build against `runner.proto` would
  satisfy neither.
* A registration answer that is cut to its first byte decodes to a runner with
  neither uuid nor token instead of an error; `cmdRegister` refuses it
  (`main.cpp:317`): `RegisterUnderstood`.

## 4. Proofs

Proved with TLAPS: every safety property that the runs check on a module with a
concurrent state, and with it the implementation of the three abstract
specifications (`StreamSpec`, `DispatchSpec`, `StoreSpec`), for every value of
the constants that satisfies the named `ASSUME`s of the modules. Of these, most
only give the types of constants. The others:

* `TaskAssumption`, `RunAssumption`, `KeyAssumption`, `ClientAssumption`: markers ("nothing", "torn", "no file") differ from the
  values they stand beside; there is a name, a client.
* `StreamAssumption`, `ChunkAssumption`: a process has a pipe, a cache a chunk.
  `run()` opens two pipes. A commit without a chunk before it finds no file and
  is answered with an error; clients send at least one.
* `RunnerAssumption`: a `uses:` sub-step has a reference, the others have none.
  `runComposite` looks at `run:` first and at `uses:` only where there is none.
* `OneServer`, a hypothesis of the theorems about the cache: one process uses
  the cache directory. With two, each writes the index from its own memory and
  the properties do not hold (`main.cpp:846`, in the hazards).

* `LogForwarderProofs`: `TypeCorrect`, `InductiveInvariant`, `OrderPreserved`,
  `PrefixConfirmed`, `FinishClosesLog`, `ImplementsLogStream`. None of the
  properties is inductive. Order on the server says nothing about the rows that
  will be sent, so `OrderInv` orders server, rows, batch and queue at once, with
  the condition that of the rows being sent the server lacks those beyond
  `Len(slog) - index`: this is what makes resending from `ack_index`
  idempotent. `CountInv` numbers the lines without a hole across the three
  places as long as nothing is unconfirmed; `ClosedInv` says that after closing
  only rows the server has can still be sent. The refinement follows step by
  step: every action is `Produce`, `Deliver` or a stuttering step.
* `PollerProofs`: `InductiveInvariant`, `TypeCorrect`, `SlotsBalance`,
  `WakeupsSuffice`, `JoinLeavesNothing`, `TaskHasOneOwner`,
  `ImplementsTaskDispatch`, for every capacity and set of tasks.
  The proof counts workers by place: a move of one worker changes each count by
  what `MoveCount` says. `NoLostWakeup` needs the slot accounting (a dispatch
  holds a slot, so not all workers are busy), `SlotInv` (the poll thread has a
  slot exactly when it dispatches) and `ShutdownInv`; `JoinedIsQuiet` needs
  `ShutdownInv` and `WorkInv` (`active_tasks_` counts the workers it should).
  `OneOwner` needs `OwnerInv`: the places a task can be in (pending at the
  server, held by the poll thread, queued, with a worker, settled) exclude each
  other, and the queue holds no task twice; a step moves at most one task, and
  from a place it has left nobody else can take it. The refinement of
  `TaskDispatch` rests on it: tasks thrown away after a stop are told from the
  others by their place in the list, since none is in it twice or with a worker
  as well. `Fetch` and `FetchFails` are `GiveOut`, `Lose` or nothing, `Enter` is
  `Start`, `Execute` is `End`, `Recheck` and `DrainQueue` are `Drop`.
* `LifecycleProofs`: `InductiveInvariant`, `TypeCorrect`, `IdentityNeverMixed`,
  `CommandTakesEffect`, for every number of commands. The daemon reads the
  configuration at one moment and `.runner` at another, so `IdentityWhole` needs
  `PairInv`: both files, the command's copy and the daemon's copy hold, at every
  moment, the token and the uuid of one registration, or no token at all (a
  uuid may stay behind, which is harmless because it is used only together with
  a token), torn files included. `CommandSettles` needs `CommandInv`: what a command is about to
  write has the token it means to leave, and when that is none `.runner` is
  already gone.

* `TaskExecutorProofs`: `ExecutorInvariant`, `TypeCorrect`, `RunsReturnClean`,
  `ReportsInOrder`, `ResultsTrue`, `PostsInReverse`, `OutputsBelong`, for jobs
  of any number of steps. `RunReturnsClean` needs `Drained` (a drain thread
  ends only when nobody holds the pipe, and then nobody can get hold of it) and
  `RunStages`, what is over at each place of `run()`: the drains are joined
  before `waitpid`, the timeout thread last. `ResultIsTrue` needs `Counted`: in
  the loop at step `i` there are `i - 1` results, all tolerated, and once it is
  left `overall_success` says whether that holds of the whole job. `Attributed`
  adds that the file holds nothing of a later step than the one under way, and
  of earlier ones only what those that left a process behind can have written. `Queued` orders the queue, the post scripts run, and
  one against the other. `Reported` and `Cleared` fix what has been reported
  and released at each place of `execute()`; an exception leaves from any of
  them.
* `OrchestratorProofs`: `OrchestratorInvariant`, `TypeCorrect`,
  `SchedulesCorrectly`, `StartsOnlyAllowed`, `SuccessAlwaysTrue`,
  `CancelReachesEvery`, for every number of jobs, of attempts and every set of
  workflows. `Kahn` says that the in-degree of a job counts its needs that are
  not in the order yet, and that exactly the jobs without such a need are in the
  order or ready. When nothing is ready the jobs left over therefore form a set
  each of which needs another, a cycle; conversely, in a set of ordered jobs the
  one with the least position needs none of the others, so a complete order
  means that there is no cycle. `Waved` gives the jobs their waves in that
  order; `Listed` ties the lists to the waves. `Progress` says which threads are
  alive: none outside the batches of a wave, and inside only those of the last
  `BatchSize` jobs launched, which bounds what runs at once. `Results` carries
  failures that did not end the run; `Registered` says that the registered
  executors are those alive or thrown out of `execute()`.
* `CacheServerProofs`: `CacheInvariant`, `TypeCorrect`, `RestoresWhole`,
  `HitsServable`, `CommitsDurable`, `ImplementsCacheStore`, for every number of
  clients, keys, chunks, uploads, blobs and crashes, and one server. `Numbered`:
  blobs are numbered as they are committed, and a missing one was purged and is
  older than the cutoff. `Fresh`: a purge between the rename and the record of a
  commit cannot touch its blob. `Owned`: an upload id that was given out since
  the server's start belongs to one client, so its file has that client's chunks
  only (`Kept`), and the commit that waits (`Handling`) makes a whole blob of it
  (`AllWhole`). `Durable`: the server's entries cover the index, so writing them
  back loses nothing; a crash drops the entries and the next start reads them
  from the index. For `CacheStore` these are not enough: a lookup is answered
  from memory, a save is seen on the disk. `Mirrored` says that the two differ
  only during a purge, in entries whose blob is already gone. `CommitRecord` is
  then `Save`, and by `Kept` what it saves is the whole upload of the client;
  `PurgeOne` is `Evict`, before the index on the disk says so; the crash of a
  server that has recorded a commit and not answered it is `Lose`.
* `ArtifactServerProofs`: `ArtifactInvariant`, `TypeCorrect`,
  `ArtifactsStayWhole`, `FinalizedStaysFixed`, for every number of runs, names,
  ids and crashes. `Synced`: the memory of a running server is its index.
  `Owned`: unless two runs clash, a run that uploads owns the entry of its name,
  which is not finalized before its blob is sent. Ids grow also across restarts
  (`NextIsAbove`), so one that was given out is either still there or replaced
  by a later one. The action property follows from the same facts: only the
  owner of a name writes its blob, and not after the entry is finalized;
  `Finalize` asked again computes the entry that is there.
* `ActionRunnerProofs`: `RunnerInvariant`, `TypeCorrect`, `FetchesWhole`,
  `OutputsAreKept`, `EnvAlwaysVisible`, `ActionResultsTrue`, for every number of
  jobs, actions, base URLs and crashes, all definitions and every depth limit.
  `Alone`: a job busy with an action that is not suspect is alone with it, and
  alone with the one archive file. Then `Stages` can say what its directory
  holds at each place of `fetchAction`, and `Left` that nobody leaves half of an
  action behind that is not suspect. `Shaped` describes the stack of calls: below the innermost one
  there are composite actions only, and its height is at most the limit and
  two, which bounds actions that use each other in a circle. `Kept`: the
  value that should survive, the first one or the one written since the last
  JavaScript action, is in the file, in a frame or in what was returned
  (`Carried`), and no step loses it from the last of these places or puts
  another in its place. `Judged`: a
  failure is fatal exactly if none of the calls still on the stack tolerates it,
  which is what decides the result once the stack is empty. `Informed`: what
  `EnvManager` applies is what the file says whenever a process starts.

Only model-checked: liveness (`FinishReturns`, `ShutdownEnds`,
`FetchedIsSettled`, `JobEnds`, `CommandEnds`, `ActionEnds`, `SignalEndsAll`,
`CrashIsRestarted`), which is outside the prover's reach; and all of
`Conversions` (`ParserFollowsGrammar`, `EvaluationEnds`, `EnvSurvives`,
`ResponseUnderstood`, `RequestUnderstood`), whose parser and decoders are
recursive operators over data of any length, outside its reach as well.

## 5. Plan

Done: the log forwarder, the poller, the job with its processes, and the
workflow, in this order, because a fault there loses a job or its log; then the
cache and artifact server and the lifecycle, whose files outlive a crash; then
the actions with their shared cache, and the expressions, protocol files and
messages against reference definitions; last the abstract dispatch and the
abstract cache, and that the poller and the cache server implement them.

Left, in this order:

1. A cancel that uses a step runner after `execute()` has destroyed it
   (`TaskExecutor.h:56`).
2. Two servers over one cache directory (`main.cpp:846`): what they still
   promise, which is less than `CacheStore`.

## 6. Not modelled, and why

* The workflow parser: a translation of YAML into records; its results are the
  constants `Job` and `Workflow`.
* Of the expressions, the characters of a token, `format`, `fromJSON`, `toJSON`
  and `hashFiles`, and the search for `${{ }}` in a text: text processing over
  which the parser's properties are the same. `failure()` and `cancelled()` are
  constant in the program, since nobody calls their setters.
* The matrix expander: only tests call it; the daemon gets expanded jobs from
  the server and `act_runner run` does not expand.
* The context builder: it copies fields of a task into the map that
  `ExprEvaluator` takes as `Context`.
* HTTP headers and curl's options; of a reply the outcome, the status and the
  body matter.
* `$GITHUB_STATE` and `$GITHUB_STEP_SUMMARY`: written by steps, read by nobody.
* Option parsing, the text of logs and summaries, the logger: no property
  depends on them.
* The local client, which confirms every call, is the instance of the forwarder
  without faults.
* Recovery from `SIGSEGV` by `siglongjmp` in a worker appears in `Poller` as the
  outcome `aborted` of a task; what it leaves behind in the executor is not
  modelled.
* The static mutex around `load_image` in `ProcessSpawner` orders the starts of
  children of different jobs; each job is modelled alone.
* Disk space: blobs of replaced entries and directories of abandoned uploads are
  in no index, so `purgeOlderThan` never removes them; an index file written to
  a full disk is renamed into place torn (`CacheServer.cpp:149`).
* When the watchdog should give up: with a configuration that has no token it
  restarts the daemon for ever, since `runWatchdog` only looks whether the file
  exists. The lengths of its delays are not modelled.
* `kill()` of a pid whose process has been reaped in between
  (`ProcessSpawner.cpp:359`): what it then hits depends on the system's choice
  of pids.
* Everything listed under section 5 as left.
