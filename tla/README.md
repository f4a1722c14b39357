# TLA+ models of gsd-test-runner

`gsd-test` runs a project's test suite on several operating systems at once. It
plans one *cell* per target OS and Node.js major version, schedules the cells
onto *benches* (Docker hosts or macOS machines with Tart VMs), drives each
through eight *legs*, streams what happens to a renderer, and ends with one line of JSON:
the verdict. `gsd-test run` and `gsd-test submit` run one spec on one bench
instead, the second in the background if asked to. Paths below are relative to the repository's root, which the
project sees as `src/`.

Everything in a module is translated from the code; where a comment, a document
or a test of the repository says something else, a run of kind *violation*
shows the difference, or section 6 names it.

## 1. Inventory

| Part | State it keeps | Operations | Talks to |
|---|---|---|---|
| `internal/schedule` | one channel per OS, worker goroutines, results slice under a mutex | `Run` | the runner's `work` callback |
| `internal/pipeline/queue.go` | list, high-water mark, dropped count, closed flag, one condition variable | `push`, `pop`, `close`, `emit`, `closeEvents`, `pump` | pipeline goroutines, renderer |
| `internal/pipeline` | container id, running result, event queue, stage list | `RunAll` and the eight legs | docker through dockerexec, the event queue |
| `internal/dockerexec` | two pipes, two scanners, buffers | `Run`, `Stream` | one child process |
| `internal/runner` | bench capacities (cached), event channels, pipelines, scheduler results | `Run`, `Aggregate`, the verdict's input | config, plan, worktree, images, schedule, renderer, digest |
| `internal/renderer` | one goroutine per subscribed channel, results under a mutex | `Subscribe`, `AddResult`, `Wait`, `Summary` | the events, stdout |
| `internal/digest` | none | severity of a set of reports, grouping, truncation | runner |
| `cmd/gsd-test` | none of its own: it works on runstate's files | synchronous run, `dispatchRun` under `run` and `submit --execute`, `wait`, `status`, the detached worker | runstate, dispatch, the OS's processes |
| `internal/runstate` | state file and log of a run, spec dir | `Save`, `Load`, `Release`, `Prune` | file system |
| `src/reporter/watchdog.mjs` | tests in flight, deadline and kill timers, kill record | `onData`, deadline, `killGroup`, exit handler | the test process group, a report envelope |
| `internal/dispatch` | none | `Exec` (create, cp, start), `reportFromEnvelope` | docker, the watchdog's envelope |
| `internal/report` | a result under construction | `Finalize`, `MarkReaped` | everybody who reports |
| `internal/reaper` | none: labels on containers | `List`, `Sweep`, `Kill` | docker of a bench |
| `internal/tartpipeline` | VM name and address, whether the VM was started, running result; a state file on the Mac | `RunAll` with its legs, `Cleanup`, the liveness goroutine | tartexec, the event queue |
| `internal/tartreaper` | none: VM list and state files on the Mac | `List`, `Probe`, `Sweep` | tartexec |
| `internal/tartexec` | none | a command over one ssh hop, or over two into the VM | a Mac, a VM |
| `internal/images` | none: the tag on the bench, its label | `EnsurePresent`, `VerifyImageVersion`, `EnsurePresentTart` | docker, tart |
| `internal/worktree`, `internal/refs` | a git worktree, or a clone in a temporary directory | `Prepare`, `Construct`, `Close`, `Resolve` | git |
| `internal/bench`, `internal/plan`, `internal/runspec`, `internal/config` | none | selection of benches, cells and skips, validation and deadlines | pure |
| `internal/telemetry` | an append-only log | `Append`, `Load`, median, leaderboard | file system |
| `internal/installhooks`, `src/agent-integration` | settings files of coding agents | merge and removal of a hook | file system |
| `src/INSTALL_GSD_TEST.sh`, `src/dockerfiles` | none | provisioning | machines |

**How they interact.** `runner.Run` prepares a worktree, plans the cells, makes
one events channel per cell, subscribes the renderer to all of them and hands the
cells to `schedule.Run`. A scheduler worker makes the image present, builds a
pipeline and runs its legs. The legs `emit` into the pipeline's queue, whose
pump goroutine sends to the cell's channel; a macOS cell's legs work on a VM over
ssh, and a state file beside the VM says whose it is and when it is due. When all cells are done, the runner
waits for the renderer's goroutines, prints the verdict and computes the
exit code. An *asynchronous* run is another program path: one process writes a
state file and spawns a detached worker, others wait on that file, and every
invocation prunes old ones. It and `gsd-test run` share `dispatchRun`: make the
image present, sweep, check the image's version, read the telemetry log, merge
the branch in a clone if the spec says so, create a container, copy into it,
start it, append a record, print a verdict. In a bench's container the watchdog supervises the
test process and reports through an envelope that `dispatch` reads. Every run,
of either path, begins by sweeping its bench of containers past the deadline on
their label, or of VMs past the one in their state file; `gsd-test sweep` does
nothing else.

**What is hard.** Goroutines that share a queue or a channel and must close it
exactly once (schedule, queue, runner, renderer); loss by design (the queue's
high-water mark) next to events that must not be lost; a child process whose
pipes are closed while they are read; processes that read a file, judge it and
act on what may have changed since; timers that race with exits; remote commands
whose client fails though the server has acted; and several early returns each of
which must leave the others able to end.

The complete list of these hazards, each at its line and with the properties
that cover it, is in `PROJECT.json`.

**What makes each part correct.**

- *schedule*: every unit is answered once, by a bench of its OS if it has one;
  no bench over its capacity; cancellation ends the rest quickly but loses
  nothing; `Run` returns.
- *event queue*: order per stream; only child output is ever dropped; what was
  dropped is announced, once; the stream ends.
- *pipeline*: one start and one end per leg, none after a failure; live test
  results only inside the tests' leg; a pass needs evidence; the container that
  is known is removed; a cancelled run gets out of its legs, and returns unless
  that removal hangs.
- *dockerexec*: the callbacks see the streams in order, line by line and up to a
  last one that may be cut, and never after the return; the call ends with the
  process.
- *runner*: the verdict is the last line, it agrees with the exit code and with
  what happened; the worktree outlives its readers.
- *asynchronous runs*: no result is overwritten or invented; a run in flight is
  never released as long as its state file can be read; a wait ends, and tells
  the truth.
- *watchdog*: a run that overran is reported as reaped and no other is; of each
  file it blames as many tests as were running; a report is always written.
- *plan*: every target and major that was asked for is run, or skipped with a
  reason, or the run is refused; the exit code tells which.
- *dispatch*: one true verdict on every way out; no container of an image known
  to be wrong; the clone lives as long as it is read and no longer; records of
  concurrent runs do not harm each other; an interrupt ends it.
- *Tart runs*: what the renderer is shown has the shape of a Docker run's; the
  liveness goroutine is joined before its leg ends; a cancelled run gets out of
  its legs, and returns unless its cleanup hangs; a VM is out of the reaper's
  sight only where a command has failed.
- *reaper*: a container past its deadline goes away if sweeps keep coming; one
  within its deadline, and one of another branch within the grace time, is let
  alone; what a sweep does not report as failed is gone. Nothing of this needs a
  lock between sweepers. The *Tart reaper* promises the same for VMs, and never
  to touch one whose state file it could not read.

## 2. Modules

| Module | Models | State and actions |
|---|---|---|
| `Schedule` | `schedule.go` | the channels as `queue`, `pc` and `hold` per worker, `launched`, `results`; one action per step of a worker (`Pull`, `Skip`, `Begin`, `Finish`, `Exit`), of the main loop over the OSes (`Surface` for an OS without a bench, `Launch`), `Cancel` and `Return` |
| `ScheduleAbs` | what `schedule.Run` promises: a unit is begun, if at all, before its one answer, then all is done | refined by `Schedule` |
| `EventQueue` | `queue.go`, `emit`/`closeEvents`/`pump`, the consumer's end | `EmitEvent` holds the whole of `push` (eviction, marker); the pump's `Pop` and `Send` are separate actions, as the lock is released between them |
| `LossyFifo` | a FIFO that may lose child output | refined by `EventQueue` |
| `Tally` | the total weight of a sequence, and a sequence without some of its members | used by `EventQueue` and `LossyFifo` |
| `LegStream` | what every run shows its consumers: legs in order, each with one start and one end, nothing after a failure | refined by `Pipeline` and by every run in `TartFleet` |
| `MultiRun` | `runner.Run` with config, plan, renderer and verdict | `flags` and `cfg` as they come, `runs` and `skipped` as planned, `main` (the phase of `Run`), `cell` and `value` per cell, the streams (`pending`, `flushing`, `closes`, `consumer`), the worktree, the last line on stdout, verdict and exit code |
| `AsyncRun` | `runAsync`, worker, `waitRun`, `Prune` on one run's files | where submitter, worker, every wait and every prune are, what each has loaded, and the three things on disk; every load, save, probe and removal is an action of its own |
| `RunRecord` | a run's record: created, finished once, forgotten; lost without a result only to somebody who could not read it | refined by `AsyncRun` |
| `LineStream` | `dockerexec.Stream` | the child, two pipes, two scanners, `cmd.Wait`, the context |
| `Watchdog` | `watchdog.mjs`, `reportFromEnvelope` | the tests in flight as they are and as the tracker has them, the process group, the pipe, the two timers; one action per callback of the event loop |
| `Pipeline` | `pipeline.go`, `parse.go` | the leg and where in it `RunAll` is, the request at the daemon and the container, the tail goroutine, the results file, the trace of events, the result |
| `TartPipeline` | `tartpipeline.go` | per run the leg and where in it, the VM and its state file on the Mac, orders that have been given and not yet carried out, the liveness goroutine |
| `TartFleet` | `tartreaper.go`, `sweepTart` and the runs of `TartPipeline` (which it EXTENDS) on one Mac | per invocation its sweep's time, scope, `tart list`, state files read, and the VM in hand; one action per ssh command; crashes and time |
| `Dispatch` | `dispatchRun`, `Exec`, `EnsurePresent`, `VerifyImageVersion`, `worktree.Construct`, `telemetry` | per invocation its place, medians and deadlines, what it has printed, its clone and container; the image behind the shared tag; the log |
| `DockerReaper` | `reaper.go`, `sweep.go`, `exec.go`, `StartContainer` and the deferred removal in `pipeline.go`, the callers of `Sweep` | per invocation where it is, its sweep's time, scope, list and what is left of it, its container's label and state at the daemon; one action per docker command, whose error may come before or after its effect |
| `MC*` | instances for TLC | constants and bounds |
| `ScheduleProofs`, `AsyncRunProofs`, `MultiRunProofs`, `PipelineProofs`, `WatchdogProofs`, `DispatchProofs`, `DockerReaperProofs`, `TartFleetProofs` | theorems | inductive invariants and refinements |

The modules are composed by interface. `MultiRun` takes the scheduler as what
`ScheduleAbs` promises and the event stream as what `LossyFifo` promises (a
stream that ends after its owner closed it); `Pipeline` takes `Stream` as a
command that answers, fails or is cancelled; `AsyncRun` takes the dispatch
as a call with some outcome, which `Watchdog` details up to the report;
`DockerReaper` takes the legs and the watchdog as something that ends a
container's use. `Dispatch` takes a sweep as one step (`DockerReaper` has its steps)
and the watchdog as something that ends the tests, at the deadline or before.
`TartFleet` EXTENDS `TartPipeline`: there the legs of a run and the sweeps of
others do interleave step by step. Both pipelines show the renderer the same
`LegStream`.

`PROJECT.json` maps every definition to the lines it stands for. Names follow
the source.

### Abstractions

- **Schedule.** A unit is a number in plan order; what `work` does is opaque, but
  its begin and its end are separate steps. A channel is filled before a worker
  of its OS exists, so its content is the set of units not yet received.
- **EventQueue.** An event is a producer, a number and a kind; the queue, the
  marker and its count keep their arithmetic. The eviction is the code's loop: one
  output nearest the front per turn. `accepted`, `seen`, `told` and
  `emitted` are history variables that count what went in and what came out; a
  producer's count also numbers its events, so that no two are the same.
- **MultiRun.** A command line and a config file are records of what `Run`
  reads of them: benches, targets, pin, exclusions, majors, versions. `Load`
  refuses a file whose benches or `[node]` table are not valid; what else it
  may refuse (the syntax, `[storage]`, the test command, a negative capacity) is
  the step `LoadFails`. `DefaultNodeLTS` is a
  constant, where the source has 22 and 24. The plan is computed from both and
  from the benches that answered the probe, as the source does; the benches' OS and
  name tell them apart, and image references are left out. `MaxCells` bounds
  what a plan may ask for, in `Plan`. A cell is a position in
  `p.Runs`, so that a target named twice has two. A pipeline emits up to
  `MaxEvents` events and ends passed, failed or with a leg's error; the image
  step has both its ways out.
- **AsyncRun.** One run id. `Save` goes through a temporary file and a rename in
  the code and is one step; `Release` removes three things in three steps. Any
  process may be slow or die between two steps. A load of a file that is there may
  fail, for a wait as for a prune: the file cannot be read, or not decoded. What
  made it so is left out, and the next load may succeed. `unread` is a history
  variable: a prune's load has failed so while the file said running. A PID that the system has given
  to another process is modelled. Time is one flag: the backstop has passed. Which
  runs a prune picks by age and rank is a free choice among final ones. A run id
  that is submitted a second time is not modelled.
- **LineStream.** A line is short or beyond the scanner's buffer; a pipe holds
  `PipeCap` lines. A scanner may end with a line that is cut short, once the
  process has ended: `cmd.Wait` closed the pipe, or a kill came in the middle of it.
- **Watchdog.** The suite is a set of nested tests in files; the process group
  also has helpers, some of which survive a SIGTERM. Names, durations and handle
  samples are left out, and so are Windows' `taskkill` and the test seam
  `readyToken`. The envelope reaches the dispatcher.
- **Pipeline.** A line of the results file is a passed test, a failed one,
  another event or unusable. A command succeeds, fails or is killed by the
  context; `docker run` is split into the daemon's and the client's half. Typed
  errors are one error. Child output is left to `LineStream` and `EventQueue`.
  `docker rm -f` takes as long as it likes: it has `context.Background()` and no
  deadline.
- **TartPipeline, TartFleet.** One VM per invocation, with the invocation's name.
  Of the state file there is whether it is there and readable; its branch and
  deadline are those of its run. A command over ssh may fail at the client after
  the Mac has carried it out, and a clone or a boot that was ordered may take
  effect when its run has long given up (`order`). The output of `npm ci` and of
  the build (`tartpipeline.go:606-645`) is left out; that of the tests is there, and
  `LegStream` allows all three. `fault` is a history
  variable: the VMs that got out of the reaper's sight, and it grows only where a
  clone, a state file, a stop or a delete fails or is cut off by a death. The
  results file is empty, good or unusable. The bench may start with what runs that
  died have left.
- **Dispatch.** The image behind the tag is absent, stale, the wanted one or
  somebody's fallback build; anybody may push the wanted one to the registry at
  some time. A container is set up (`npm ci`) before its watchdog's clock runs.
  A log line is somebody's record or torn. The git commands of
  `worktree.Construct` are one place at which the construction may fail or be
  cancelled. Only the sweeps of the invocations themselves are there.
- **DockerReaper.** One bench, and one container per invocation, so that a
  container has its invocation's name. `TTL` stands for `DefaultContainerTTL`
  and for a dispatch's effective deadline; `MaxStart` bounds the time at which a
  deadline is minted. All workstations have the same clock. A sweep kills in any
  order (the code: that of the list). Before `Sweep` an invocation touches no
  container, after its container's end neither. A container's image, limits and
  files are left out.

## 3. Runs

Twelve runs: ten that pass and two that show a disagreement.

| Run | Instance | States | Shows |
|---|---|---|---|
| `MCSchedule` | 5 units; two linux benches of capacity 2 and 0; one unit for windows, which has no bench | 108 951 | conservation of units, capacity, right answers, return, and the refinement of `ScheduleAbs` |
| `MCEventQueue` | 2 producers of 3 events, high-water mark 2, channel of 1 | 85 966 | every loss is accounted for once, output is bounded, refinement of `LossyFifo`, the consumer sees its end |
| `MCMultiRun` | 5 command lines, 7 config files of which `Load` must refuse 3, at most 2 cells, 2 events per cell | 165 374 | everything asked for is accounted for by the exit code, verdict last, streams closed once, no cell twice, `Run` ends if every image is made present |
| `MCAsyncRun` | 2 waits, 1 pruning invocation, any load failing | 347 101 | waits tell the truth and return, a run in flight is kept unless a prune could not read its file, refinement of `RunRecord` |
| `MCLineStream` | 3 lines per stream, pipes of 1 line | 1 913 | `Stream` ends without overlong lines and when cancelled, and is quiet after its return; lines are handed over in order and without a gap, whole but for a last one |
| `MCWatchdog` | a test with a subtest, a test in another file, an obedient and a stubborn helper | 20 785 | reaped runs are reported as such and no others, the telemetry lists the tests that have ended and, per file, as many killed ones as were running, always a report |
| `MCPipeline` | results file of at most 3 lines | 38 118 | refinement of `LegStream`, a pass needs evidence, the known container is removed, cancellation returns unless the removal hangs |
| `MCTartFleet` | a run and a recurring sweep of another branch, or two sweeps and what a run has left; `TTL` and `Grace` 1 | 317 872 | a lost VM is lost by a failed command, a sweep's answer is true, nobody is stopped before his time, refinement of `LegStream`, cancellation returns unless a command of the cleanup hangs, what has a state file is reaped if sweeps keep coming |
| `MCDispatch` | a `gsd-test run` and a merged `submit --execute`; deadlines and times to 2, `Grace` 1; the image absent or stale at first | 873 960 | one true verdict, records kept, no container of a wrong image, no clone left, interrupts return |
| `MCDockerReaper` | a pipeline run and a dispatch of one branch, a recurring `gsd-test sweep` of another; `TTL`, `Grace` and `MaxStart` 1 | 251 967 | a sweep's answer is true, nobody is killed before his time, what leaks is reaped if sweeps keep coming |
| `MCWatchdogCrash` | as `MCWatchdog` | | violated: `PassedMeansClean` |
| `MCDispatchBudget` | two times `gsd-test run` with the same estimate; times to 3 | | violated: `BudgetKept` |

An invariant called `Inv` (`QueueInv` in `EventQueue`, `LineInv` in `LineStream`)
is the conjunction of a module's type invariant and of the parts its comment
names. The names of these two modules carry a prefix as `PipelineProofs` extends
them together with `Pipeline`.

**Why the bounds are enough.** Each is the least at which everything the
component distinguishes can happen. Schedule: two workers of one bench and one of
another compete for four units, so a bench can be full while units wait, a floor of
one is needed, and one OS has no worker at all; beyond that, units and workers are
interchangeable, and the theorems of section 5 hold for every number of them.
EventQueue: six events against a mark of two overflow while the marker is in the
queue, in the pump's hand, in the channel and delivered, and a second episode
follows a first. MultiRun: cells do not interact except through `Run`; two of them
give every mixture of outcomes that `ExitCode` and `Outcome` distinguish, and the
order of two collections; the command lines and config files make every branch of
`Build` and `ResolveEffective` happen (a pin, an unknown pin, an exclusion, an
unregistered OS, a version that is missing, a probe, a target named twice, a
major from the flag, from the config and by default), and those of `Load` (a bench
named twice, an OS that `[node]` does not know, a major named twice). AsyncRun: two waits can release what the other reads while
a prune does; a third adds no new pair, and the theorems need no bound. LineStream:
the second of three lines finds the pipe full with a line still to come. Watchdog:
two tests of one file are the least that can be confused. Pipeline: two lines give
a failed test after a passed one and an unusable line after a good one, a third
one follows either.
TartFleet: a run and one sweeper are the least that can race for a VM, and two
sweepers the least that can race for the same delete; with `TTL` and `Grace` 1 a
VM is within its time, past it, and past the grace time. Dispatch: two
invocations share each of the things there are to share; the branches differ, so
that one can sweep the other only after the grace time, and a merged spec
has a clone while the other has none; the times reach a deadline and the grace
time after it. The wanted image is not among the first ones of `MCDispatch`, as
a push and a pull lead to it. `MCDispatchBudget` has it at first and one unit of
time more, which the counterexample needs.
DockerReaper: each of the three kinds of invocation sweeps, two of them can be
swept, by one of their own branch, one of another and one of all; times run to
3, so that a deadline, a grace time and a sweep that began before either
fall apart; its safety theorems need no bound.

**Deadlock** is checked except in `MCMultiRun`, `MCLineStream`, `MCTartFleet`,
`MCDispatch*` and `MCDockerReaper`, where the system may really stop: after an
image failure, after an overlong line, when every invocation is over or dead, or
when one waits for an answer that does not come. The other `MC` modules add a
stuttering step to the states in which the program has ended.

**Mutants.** Beside a definition stands, where a property needs it, a variant with
an error, the way a plausible change of the code would bring it in: a look at the
context in one place too many, a kept counter, a join left out. `PROJECT.json`
pairs each property with the variant that breaks it.

## 4. Fairness

Liveness is checked under weak fairness of what the program itself schedules, and
of nothing a user, a test or a network may or may not do.

| Module | Fair | Justified by | Not fair |
|---|---|---|---|
| `Schedule` | main loop, each worker, `Return` | goroutines are scheduled; `work` returns: an assumption on the caller's callback | `Cancel` |
| `EventQueue` | `CloseEvents`, pump, consumer | deferred in `RunAll`; the renderer receives until the channel is closed | emissions |
| `MultiRun` | `Run`'s steps, workers, pumps, consumers | goroutines are scheduled; every pull, build and leg ends somehow, by assumption | `Cancel`, failures |
| `AsyncRun` | time, each wait | a wait is a loop with a sleep and a backstop | submitter, worker and prunes: each may die anywhere |
| `LineStream` | scanners, `cmd.Wait`, kill, a process that can write | the process makes progress unless it is blocked on a pipe | `EndContext` |
| `Watchdog` | deadline, kill timer, exit handler, the report | timers of a live event loop; SIGKILL works | tests, the runner's obedience to SIGTERM, reading of the pipe |
| `DockerReaper` | the step from a sweep that has returned to what follows it | the invocation is up | every docker command, coming by, the end of the legs or of a run, giving up, crashes, time |
| `TartFleet` | a run's own steps, the step after a sweep, the liveness goroutine, a failure or an answer of what a cancelled run or its sweep waits for, time | goroutines are scheduled; a done context kills the ssh client | a command's answer otherwise, the commands of `Cleanup`, coming by, crashes, `Cancel` |
| `Dispatch` | the steps that ask nobody; once the context is done, a failure of the command, or the sweep's end | goroutines are scheduled; all commands, `VerifyImageVersion`'s among them (`main.go:984`), have `dispatchRun`'s context, and a done one kills the client | every answer otherwise, the tests, interrupts, crashes, time |
| `Pipeline` | `RunAll`'s own steps, the end of the tail and of a command's client once their context is done | a done context kills the client | every docker command: no leg has a deadline, and `docker rm -f` has no context that ends either |

So `Pipeline`, `TartFleet` and `Dispatch` promise a return only when cancelled
(the engine has no timer of its own, see section 6). The cleanup of the first two
runs on `context.Background()` (`pipeline.go:610`, `tartpipeline.go:909`), which no
interrupt reaches: `CancelReturns` and `TartCancelReturns` say that a
cancelled run comes as far as its cleanup, with its error, and returns if that
does not hang. What of this `Schedule` and `MultiRun` need is an
assumption there: their liveness is conditional on `work` returning, and an
unreachable bench keeps both waiting, in the code as in the models. `LeakIsReaped` is
conditional on what the reaper needs: that sweeps which begin after the grace
time, of whatever branch, return again and again without an error for the
container, and so is `OrphanIsReaped` for a VM with a state file. ADR-0029
promises no more ("from any invocation that touches the
Bench"): with nobody coming by, the container stays.

## 5. Proofs

TLAPS proves, with no bound on the constants:

| Theorem | Module | States |
|---|---|---|
| `Inductive` | `ScheduleProofs` | the inductive invariant below |
| `UnitsConserved` (`Inv`), `ReturnsAll`, `CapacityBound`, `RoutingCorrect` | `ScheduleProofs` | the invariants, for any units, OSes, benches and capacities |
| `ResultsOnlyGrow` | `ScheduleProofs` | an action property: results are only appended, nothing moves after the return |
| `ImplementsPromise` | `ScheduleProofs` | `Schedule` implements `ScheduleAbs`, so that whatever was begun has its own answer at the end |
| `Inductive` | `AsyncRunProofs` | the inductive invariant below |
| `WaitTruthful`, `RunningKept` (`Inv`), `GoneTruthful` | `AsyncRunProofs` | the invariants, for any number of waits and prunes |
| `RecordImplemented` | `AsyncRunProofs` | `AsyncRun` implements `RunRecord` |
| `Inductive` | `MultiRunProofs` | the inductive invariant below |
| `RunCorrect`, `ExitIsTrue` | `MultiRunProofs` | the invariants, for any command lines, config files and number of cells |
| `Inductive` | `PipelineProofs` | the inductive invariant below |
| `RunCorrect` | `PipelineProofs` | the invariant, for a results file of any length |
| `CancelledNeverPasses` | `PipelineProofs` | a run that is cancelled before its last leg returns an error if it returns |
| `RefinesLegStream` | `PipelineProofs` | `Pipeline` implements `LegStream` |
| `QueueInductive` | `PipelineProofs` | the inductive invariant of `EventQueue`, below |
| `QueueCorrect` | `PipelineProofs` | `QueueInv`, for any number of producers and events, any mark and any channel |
| `QueueRefinesFifo` | `PipelineProofs` | `EventQueue` implements `LossyFifo` |
| `LinesInductive` | `PipelineProofs` | the inductive invariant of `LineStream`, below |
| `LinesCorrect` | `PipelineProofs` | `LineInv`, for any number of lines and any size of the pipes |
| `QuietReturn` | `PipelineProofs` | an action property: no callback after the return |
| `Inductive` | `WatchdogProofs` | the inductive invariant below |
| `TrackerCorrect`, `ReapIsTold` | `WatchdogProofs` | the invariants, for any suite of nested tests and any helpers |
| `Inductive` | `DispatchProofs` | the inductive invariant below |
| `ScratchCorrect`, `VerdictIsTrue` | `DispatchProofs` | the invariants, for any number of invocations, estimates and times |
| `LogIsKept`, `ImageIsVerified` | `DispatchProofs` | action properties: what is written to the log, and of which image a container is made |
| `HistorySetsNothing` | `DispatchProofs` | the median is always none, and a run without an estimate has the hard cap (section 6) |
| `Inductive` | `DockerReaperProofs` | the inductive invariant below |
| `TypeCorrect`, `SweepTruthful` | `DockerReaperProofs` | the invariants, for any number of invocations, branches and times |
| `SparesForeign` | `DockerReaperProofs` | an action property: whom a kill may hit |
| `Inductive` | `TartFleetProofs` | the inductive invariant below |
| `TypeCorrect`, `FleetCorrect`, `SweepTruthful` | `TartFleetProofs` | the invariants, for any number of runs, sweeps, branches and times |
| `SparesForeign` | `TartFleetProofs` | an action property: whom a stop or delete may hit |
| `RefinesLegStream` | `TartFleetProofs` | every run in `TartFleet` implements `LegStream` |

**Assumptions.** `Schedule`: the number of units is a natural number
(`NAssumption`); benches are finitely many and the caller's tables are functions
of the right types (`BenchAssumption`); a bench has one OS (`OneOSPerBench`, which
`bench.Bench`'s field `OS` makes true, and without which a bench could get
two sets of workers). `AsyncRun` needs none. `DockerReaper`: an invocation is a
pipeline run, a dispatch or a `gsd-test sweep` (`KindAssumption`); it has a branch,
which is never the empty slug (`BranchAssumption`: it stands for `--all`, and
`Sweep` takes it so); times are natural numbers and the time to live is not 0
(`TimeAssumption`). `TartFleet`: the same three, with pipeline runs and
`gsd-test sweep` as the kinds. `MultiRun`: the default majors are a sequence
without repetition, which is not empty (`LTSAssumption`: the source has 22 and
24), flags and config files have the types that flag parsing and TOML decoding give
them (`InputAssumption`), the bounds are numbers. `Pipeline`: the bound on the
results file is a number. `EventQueue`: the mark and the channel's capacity are at
least 1 (`push` falls back to the default for a mark of 0, the channel is made
with a constant), and the bound on emissions is a number (`SizesAssumption`).
`LineStream`: a pipe holds at least one line, the bound on lines is a number
(`PipeAssumption`). `Watchdog`: the suite is finite, a test's parent is a test of the same
file, helpers are processes of their own. `Dispatch`: estimates, the floor, the
cap, the grace time and the bound are natural numbers, a merged spec has a branch
with a slug (`SpecAssumption`, `TimeAssumption`), and an invocation's name is no
word that the model has for an image or a torn line (`NameAssumption`).

**Argument for `Schedule`.** `Conservation` is not inductive: that a unit just
answered leaves no second worker with it, or that a worker's unit is of the
worker's OS, does not follow from it. `IInv` adds *WorkerInv* (a worker holds a unit
exactly between its receive and its answer, and one of its own OS; it has started
exactly if its OS is launched and has its bench; it leaves only an empty queue),
*QueueInv* (a queue holds units of its OS) and *ReturnedInv* (after the return
every OS with units has been handled and no worker is at work). Capacity is a
counting argument: the workers of a bench that have started are of the one OS
that has the bench, and their slots are in `1..Slots(b)`.

**Argument for `AsyncRun`.** `WaitTellsTruth` compares what a wait printed with
what the worker's dispatch answered, though the file may have been removed in
between. The invariant says who may still write the file: nobody but the
submitter before the spawn, nobody but the worker until its final save, and nobody
at all once the run is *Over*. *FileInv* and *WorkerInv* say this of the file and
of what the worker has in memory; *WaitInv* says that a wait that has
seen a final state, printed it or begun to remove it has met a run that was over,
and holds what the dispatch answered or the error of a failed spawn; *PruneInv*
says the same of a prune that removes, unless one could not read the file of
a running run (`unread`): then the file may be missing while the worker is at
work, and come back with its next save. As nothing
writes an over run's file again, what was loaded stays true. In `RunRecord` the
same exception is the step `Lose`, for which somebody must have misread the record
before.

**Argument for `DockerReaper`.** `SweepTellsTruth` speaks of a list that other
sweepers, removals and ends have overtaken. It holds because a container that has
started never starts again and keeps its label. *StartInv* says that whose
container has started is past its own sweep, and with it past the steps that
mint a deadline or start a container; *ListInv*, that a sweep's list names only
containers that had started, and that those it will kill were due when it began;
*KillInv*, that a listed and due container that is neither still to be killed, nor
being looked at after a failed kill, nor in the error, does not run. `SparesForeign`
follows from the first two: what is still to be killed was due at `at`, which is
not later than now, and the sweeper itself, being in its sweep, has no container
that runs.

**Argument for `TartFleet`.** A VM differs from a container in that it appears
late: a clone is ordered, and carried out at a time when its run may have given up
or died. *LifeInv* ties a run's place to what it has on the bench: nothing before
the second leg, one order of a clone per run and none while there is a VM, a
deadline from before there is either. So a VM that is gone stays gone, a deadline
no longer changes once somebody can list the VM, and what *SweepInv* says each sweep
knows (what is still to be reaped was due at `at`; what was due and has been
handled is in hand, in the error or not registered) is not disturbed by any step
of another sweep or run. *OrphanInv* follows the state files: a VM, or the order of
one, without a state file is either being set up by its run or in `fault`, and
who removes a state file, be it `Cleanup` or a sweep, has removed the VM or it is in
`fault`. This needs *LifeInv* and *SweepInv*, as two sweeps and a run may be taking
down the same VM. *ReportInv* and *StreamInv* say what a run has told and shown at
each place; the latter gives the refinement, where the liveness goroutine's events
stay within the tests' leg because the leg ends only after it.

**Argument for `MultiRun`.** *CellInv* ties a cell's consumer to the phase of
`Run`: no consumer before the fan-out, none that still ranges when the verdict is
written, and none that is done with a stream not yet empty and closed.
*StreamInv* is the life of a cell: an answer and its value come together, a pump
closes the streams of those that have run and `Collect` of those that have not, so
that there is one close, and none before the answer. *InputsInv* says that
`Aggregate` has been handed the values of the cells that are shown, *VerdictInv* that
there is one verdict and what it is computed from. *PlanInv* says that `runs` and
`skipped` are what `Build` made of the request: every target is planned with all of
its majors or skipped, which gives `ExitTellsTruth`. For this, and for
`CellsDistinct`, `FlattenSeq` has to be reasoned about: its least counterexample
(`Least`, from the well-foundedness of the naturals) takes the place of an
induction, which the provers cannot instantiate.

**Argument for `Pipeline`.** *ShownInv* says what was emitted last at each place
of `RunAll`, which gives the refinement of `LegStream`; the tail's events stay
within the tests' leg by *TailInv*. *EvidenceInv* says which legs have passed
what: nobody is past the tests without an exit code of 0 or 1, nobody in the
last leg without the file as the tests have left it. *RemovalInv* follows the
container whose id is known.

**Argument for `EventQueue`.** The invariant counts members of three sequences
(channel, the pump's hand, queue), and the eviction is a loop. `Tally` has both
counting and thinning as recursive functions, about which the proofs first show
that they exist and what they make of an end, a concatenation and a sequence
without one member; an induction over the naturals is one over a set of naturals
here (`Upward`). Every count is then a total of weights: of outputs, of markers, of
what a marker announces, of markers with a stale count, of one event. One turn of
the eviction loop lowers the first by one and touches no other but the last
(`Evicts`, `EvictAll`); `MarkedIs` adds the marker's part. *MarkInv* says that the
one marker in the queue has the current count, *LedgerInv* that what was accepted is
seen, on its way, told, or announced. *OnceInv* is what the refinement needs: an
event is on its way once, and only if it was emitted, so that the outputs evicted
from the queue can be named as members of the abstract stream without taking
others out of the channel. *EndInv* says that a closed channel has nothing to
come: the stream's end is its last step.

**Argument for `Watchdog`.** What the tracker holds lags behind the tests by what
is in the pipe. *FileInv* counts this per file and for every prefix of the pipe: no
prefix has more ends than the tracker holds tests and the prefix starts, so that a
completion always finds one to take out, and with the whole pipe read it holds as many
as run. *TotalInv* does the same for all tests that have begun, and *SeenInv* says that
what the tracker has in flight has begun, and that the completed tests and
those whose end is in the pipe are the ones that have ended. From these follows
what the telemetry of a reaped run lists; which tests of a file it names as killed
does not (section 6). *ReapInv* says that the deadline,
the snapshot, the SIGTERM and the kill timer are one event, and that the result,
which no longer changes, repeats it.

**Argument for `Dispatch`.** Everything follows the places of an invocation. An
outcome other than an error is written in one step only, from a container that the
watchdog has ended, and nobody touches an ended container: so it is still what the
container says when the record is appended and when the verdict is printed
(*OutcomeInv*, *PrintedInv*), though others may sweep, pull and build in between.
*ImageInv* says that from the check to `docker create` the tag stands for the
wanted image or for the build of another invocation. *DeadlineInv* is the one about
data: the median of any log is 0, as each passing record has the duration 0.

**Argument for `LineStream`.** `LineInv` is almost inductive: a line is numbered
when it is written, so that what is handed over and what is in the pipe are the
numbers from 1 on, and a scanner that stops leaves both alone. *ScannersDone* (a
`Stream` that has returned has no scanner left) makes the rest: a scanner that is
done, with a cut line or without, never scans again.

The refinements are step by step: every action of the detailed module is one
step of the abstract one or leaves the mapped variables alone.

**Model-checked only.** Liveness (`Terminates`, `WaitReturns`, `CancelReturns`,
`AlwaysReported`, `TerminatesWithImages`, `InterruptReturns`, `LeakIsReaped`,
`TartCancelReturns`, `OrphanIsReaped`, `StreamEnds`, `Returns`), which is out of the prover's reach.
Every safety invariant and every action property of a passing run is a theorem.

## 6. What the code does otherwise than it says

Two have a run whose counterexample shows them, and an entry under `findings`.

1. **A suite killed by a signal counts as passed** (`watchdog.mjs:313`,
   `MCWatchdogCrash`). `code ?? 0` turns the null of a signal's victim into 0.
2. **A slow `npm ci` is charged against the estimate** (`main.go:1008`,
   `MCDispatchBudget`). The deadline on a container's label is minted before
   `docker create`, the watchdog's clock starts with the tests, and the next
   invocation's sweep goes by the label: it kills a container in the middle of
   tests that are within their budget.

Met while modelling, and not given a run of their own. A hang or a loss first:

- `runstate.go:330`: **a running run can be pruned**. A run whose state file is
  there and cannot be read or decoded ("missing or corrupt", `runstate.go:338`)
  counts as not running, and goes by its files' times and its rank like one that is
  over, while `Prune`'s comment (`runstate.go:259`) says that one whose status is
  running "is NEVER pruned". `RunningNeverReleased` with its exception `unread` is
  what holds, and the edge from *running* to *forgotten* of `RunRecord`; without
  the exception `MCAsyncRun` shows the release.
- `runner.go:170`: if an image cannot be made present, `work` returns before a
  pipeline exists, the loop over the results closes only the streams of cells
  without a `pipelineResult`, and the renderer's goroutine for this cell never
  ends: `gsd-test` hangs. `TerminatesWithImages` is what holds; with
  `<>(main = "exited")` in its place `MCMultiRun` shows the hang.
- `pipeline.go:610`, `tartpipeline.go:909`: the deferred cleanup has neither a
  deadline nor a context that ends, so that a cancelled run stays for ever in
  `docker rm -f`, `tart stop`, `tart delete` or `rm -f` on a bench that does not
  answer. `CancelReturns` and `TartCancelReturns` are what holds.
- `stream.go:48`: `cmd.Wait` is called before the scanners are done, and closes
  the pipes: the last lines of a command may be lost, and the last one that is
  handed over may be cut. `HandledInOrder` is what holds.
- `stream.go:69`: after a line beyond 1 MB nobody reads that pipe, and an
  uncancelled call may never return. `Returns` is what holds.
- `exec.go:51`: ADR-0021:28 has the engine arm a timer and kill the container
  itself, and `main.go:926` speaks of "never a silent hang"; the code waits in
  `docker start -a` until somebody else's sweep kills the container.
- `exec.go:42`: a dispatch that fails between create and start leaves its container
  *created*. `docker ps` does not list it, so no sweep removes it, while `exec.go:22`
  says that no orphan survives.
- `tartreaper.go:17-27` has a VM without a state file be somebody else's. A clone
  that fails at the client, a state file that fails to be written, a death between
  the two, and a stop or delete that fails (the state file is removed all the
  same) leave one of ours. `OrphanIsKnown` is what holds.
- `pipeline.go:609`: if `docker run`'s client fails after the daemon has served it,
  the container's id is unknown and it is not removed. That the *known* one is
  (part of `Pipeline`'s `Inv`) and `LeakIsReaped` are what holds.
- `telemetry.go`: one torn line, or one beyond the scanner's 64 KB, makes `Load`
  fail for the whole log ever after; the dispatch then goes on without a
  history. `Append` starts no new line after a torn one, so that the next record is
  lost with it.

About verdicts, exit codes and blame:

- `watchdog.mjs:51`: **the kill record may name a test that has ended**. A
  completion takes the *oldest* test of its file out of flight. With a subtest that
  is the parent: after start(parent), start(sub), end(sub) the record lacks the
  parent, and the telemetry lists the subtest twice, as passed and as killed, though
  `watchdog.mjs:33-34` calls the attribution precise under process isolation. The
  numbers per file stay right, and that is what holds (`TrackerCounts`,
  `ReapedCounts`); with `Listed("killed") \cap Listed("ended") = {}` in addition
  `MCWatchdog` shows the confusion.
- `runner/policy.go:74`: with a skipped OS the exit code is 2 and the verdict says
  `passed` or `failed`, while `docs/failure-first-output-reference.md:69` has the
  outcome match the exit code. The last conjunct of `ExitTellsTruth` is what holds.
- `plan.go:125`: `AddUnreachable` is to be called before `Build`, and is called
  after it: the bench is out of the registry by then, so that `bench_unreachable` is
  never a reason that is shown. `SkipReasonPinNotInRegistry` is never used.
- `--targets linux,linux` gives two cells with one stream key and one container
  name; the second fails at the bench.
- `main.go:541, 553, 561`: three ways out of `wait`'s loop print no verdict, nor
  do those before it, while
  `main.go:567` has one "on EVERY outcome"; the early errors of `gsd-test run`
  (no repository, no spec, no run id) print none either. From the image on,
  `VerdictTellsTruth` is what holds.
- `main.go:559`: `wait` says "worker for run-id … is gone (no result written)",
  though the worker may have saved and exited between the reload and the look at
  its PID. `GoneIsTrue` is what holds: the worker is dead.
- `main.go:138` catches SIGINT and SIGTERM for every subcommand, though `wait` never
  looks at that context: it cannot be interrupted, and a signal before
  `dispatchRun` has its own context is lost.
- `pipeline.go:429`: an exit code of 1 is always taken for failed tests; a runner
  that dies with 1 after a passed test gives a passing run. `ReportTruth` says
  what evidence a pass does have.
- `sweep.go:178`: `Sweep` returns the containers it chose, those whose kill failed
  among them, and `runSweep` prints each as "reaped" before it prints the error.

About deadlines and images:

- `main.go:989-993` has the median of earlier passing runs take the place of an
  estimate. `endTime` (`dispatch/run.go:162`) answers the start for a run that has
  not been killed, so that the duration on record, and with it the median, is
  0, which means none: a spec without an estimate always gets the hard cap, however
  many runs have passed before. `HistorySetsNothing` proves it.
- `EffectiveDeadlineMs` multiplies without a check (a huge estimate overflows),
  applies the floor before the cap, and nobody validates the cap.
- `identity.go:21`, `runner.go:117`: the time to live is counted from before the
  fan-out, the waiting for a bench included. `ForeignSpared` compares with the label,
  so a cell that started late may be killed by a sweep of its own branch in the
  middle of its legs.
- `gsd-test run` has no branch, so all of its containers are of the slug
  `unknown`, and each sweeps all others without a grace time, against ADR-0029.
- An image from the fallback build has the label `dev`, so that every later run of
  a versioned config on this bench is inconclusive. And `VerifyImageVersion` looks
  at the tag before `docker create` does: another's fallback build may end between
  the two. `ImageIsChecked` is what holds.

About processes and files:

- `watchdog.mjs:302`: when the runner obeys SIGTERM and another process of the
  group does not, the kill timer is cleared and that process lives until the
  container ends.
- `tartpipeline.go:996` speaks of one goroutine that emits; the liveness goroutine
  is a second. A consumer that stalls blocks it and the leg.
- `pipeline.go:703` and `src/CONTEXT.md:67` call the queue unbounded; its child
  output is bounded (`OutputBounded`, a part of `EventQueue`'s `QueueInv`).
- `worktree.go`: `Close` removes the clone and leaves the empty directory that
  `MkdirTemp` has made for it.

## 7. What is not modelled, and the plan

| Next | What | Why |
|---|---|---|
| 1 | the choice of a prune among several runs (`runstate`), the bench's capacity cache | several steps on shared state, so far a free choice or left out |

Left out for good:

- flag parsing, reading and validating TOML and specs: input handling;
- what a line on the terminal looks like, JUnit and markdown, the digest's
  grouping and truncation, telemetry's leaderboard: layout of one process's data;
- `bench`'s cursor over several benches (`Pick`): every invocation picks once, with
  a selector of its own;
- what git, docker and tart do inside: they are answers, failures and effects here;
- the installer and the Dockerfiles: sequences of shell commands;
- `src/agent-integration`: it rewrites one command line into another, without state;
- `internal/installhooks`: one user's command that edits settings files one after
  the other, with nobody at the same time. Read, not modelled: an `Install` that
  fails midway leaves files without a manifest; a merged manifest keeps the first
  `SettingsPath` and `HookCommand`, so that an uninstall leaves a hook that was
  changed since; and `RemoveHook` removes an identical hook that was there before.

Each is listed in `PROJECT.json` with its reason.

## 8. Running

    tlc -workers 2 -config MCSchedule.cfg MCSchedule
    tlapm ScheduleProofs.tla

Every run ends in about three minutes at most, and each of the eight proof modules
in five.
