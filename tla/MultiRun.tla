------------------------------ MODULE MultiRun ------------------------------
(***************************************************************************)
(* runner.Run: plan the cells (OS x Node major), subscribe the renderer to *)
(* one event stream per cell, fan the cells out with schedule.Run, collect *)
(* the results, wait for the renderer, and end with exit code and verdict. *)
(*                                                                         *)
(* The scheduler and the pipelines' event queues appear by what they       *)
(* promise: schedule.Run answers every cell once (module Schedule), and a  *)
(* queue delivers in order and ends after its last event (EventQueue).     *)
(***************************************************************************)
EXTENDS Integers, FiniteSets, Sequences, SequencesExt

CONSTANTS
  OS,            \* names of operating systems that a user may write
  NodeOS,        \* those that a [node] table may name
  Major,         \* Node majors
  Flags,         \* command lines: [targets, pin, exclude, node, probe]
  Config,        \* config files: [benches, targets, pin, exclude, node, versions]
  DefaultNodeLTS,\* the majors of an OS whose config names none
  MaxCells,      \* bound on the cells these can ask for
  MaxEvents      \* bound on the events of one cell

ASSUME BoundAssumption == MaxCells \in Nat /\ MaxEvents \in Nat
ASSUME LTSAssumption ==
  DefaultNodeLTS \in Seq(Major) /\ DefaultNodeLTS # <<>> /\ IsInjective(DefaultNodeLTS)
ASSUME InputAssumption ==
  /\ \A f \in Flags : f.targets \in Seq(OS) /\ f.node \in Seq(Major)
  /\ \A f \in Config :
       /\ f.targets \in Seq(OS)
       /\ DOMAIN f.node \subseteq OS /\ \A os \in DOMAIN f.node : f.node[os] \in Seq(Major)

(* A cell is a position in p.Runs: a target named twice has two of them. *)
Cell == 1..MaxCells
None == "none"
Running == -1  \* no exit code yet
(* What a cell's work function or the scheduler's cancellation answers: a  *)
(* finalized report, a pipelineResult with an error, or no pipelineResult. *)
ReportValue == {"passed", "failed"}
Value == ReportValue \cup {"legErr", "ensureErr", "notRun"}

VARIABLES
  main,      \* where Run is
  flags,     \* Options: the flags of this invocation
  cfg,       \* the config file it meets
  runs,      \* p.Runs: a sequence of [os, node]
  skipped,   \* p.Skipped: a set of [os, reason]
  worktree,  \* "none", "live", "removed"
  cancelled, \* SIGINT or SIGTERM: signal.NotifyContext
  cell,      \* [Cell -> ...]: where the scheduler's work on it is
  value,     \* [Cell -> Value or None]: its schedule.Result
  pending,   \* [Cell -> Nat]: events emitted and not yet rendered
  emitted,   \* [Cell -> Nat]: events emitted
  flushing,  \* cells whose RunAll has called closeEvents
  closes,    \* [Cell -> Nat]: calls of close(jp.events)
  consumer,  \* [Cell -> ...]: the renderer's goroutine for the stream
  shown,     \* [Cell -> ReportValue, "error" or None]: r.AddResult
  inputs,    \* policyInputs: the values handed to Aggregate, in order
  lastLine,  \* the kind of the last line written to stdout
  verdicts,  \* number of verdict lines written
  outcome,   \* the verdict's outcome
  exit       \* the exit code

planVars == <<flags, cfg, runs, skipped>>
schedVars == <<cell, value>>
streamVars == <<pending, emitted, flushing, closes, consumer>>
resultVars == <<shown, inputs>>
outVars == <<lastLine, verdicts, outcome, exit>>
vars == <<main, planVars, worktree, cancelled, schedVars, streamVars, resultVars, outVars>>

-----------------------------------------------------------------------------
planned == DOMAIN runs

Init ==
  /\ main = "loading"
  /\ flags \in Flags /\ cfg \in Config
  /\ runs = <<>> /\ skipped = {}
  /\ worktree = "none"
  /\ cancelled = FALSE
  /\ cell = [c \in Cell |-> "queued"]
  /\ value = [c \in Cell |-> None]
  /\ pending = [c \in Cell |-> 0]
  /\ emitted = [c \in Cell |-> 0]
  /\ flushing = {}
  /\ closes = [c \in Cell |-> 0]
  /\ consumer = [c \in Cell |-> "none"]
  /\ shown = [c \in Cell |-> None]
  /\ inputs = <<>>
  /\ lastLine = None /\ verdicts = 0 /\ outcome = None /\ exit = Running

(* Run returns: the deferred wt.Close() runs if there is a worktree. *)
Leave(code) ==
  /\ main' = "exited"
  /\ exit' = code
  /\ worktree' = IF worktree = "live" THEN "removed" ELSE worktree

WriteVerdict(o) ==
  /\ outcome' = o
  /\ lastLine' = "verdict"
  /\ verdicts' = verdicts + 1

(* worktree.Prepare or NewRunID fails: an inconclusive verdict, exit code 2. *)
SetupFails ==
  /\ main \in {"preparing", "minting"}
  /\ WriteVerdict("infra_error")
  /\ Leave(2)
  /\ UNCHANGED <<planVars, cancelled, schedVars, streamVars, resultVars>>

-----------------------------------------------------------------------------
(* validateAndTransform: every bench has a name of its own and an OS. *)
ValidBenches(file) ==
  /\ \A i \in DOMAIN file.benches : None \notin {file.benches[i].name, file.benches[i].os}
  /\ \A i, j \in DOMAIN file.benches : file.benches[i].name = file.benches[j].name => i = j

(* validateNode: a known OS, no major twice. *)
ValidNode(file) == DOMAIN file.node \subseteq NodeOS /\ \A os \in DOMAIN file.node : IsInjective(file.node[os])

Valid(file) == ValidBenches(file) /\ ValidNode(file)

(* Load refuses the file; it may also be unreadable or malformed. *)
LoadFails ==
  /\ main = "loading"
  /\ WriteVerdict("infra_error")
  /\ Leave(2)
  /\ UNCHANGED <<planVars, cancelled, schedVars, streamVars, resultVars>>

(* ResolveEffective: a flag that is given wins over the config's default. *)
Targets == IF flags.targets # <<>> THEN flags.targets ELSE cfg.targets
Pin == IF flags.pin # None THEN flags.pin ELSE cfg.pin
Exclude == IF flags.exclude # {} THEN flags.exclude ELSE cfg.exclude

(* --node holds for every OS; else the config's majors, else the default. *)
Majors(os) ==
  IF flags.node # <<>> THEN flags.node
  ELSE IF os \in DOMAIN cfg.node /\ cfg.node[os] # <<>> THEN cfg.node[os] ELSE DefaultNodeLTS

Registry == ToSet(cfg.benches)

(* Load with --probe-benches drops every bench that does not answer. *)
Reachable == {Registry \ gone : gone \in IF flags.probe THEN SUBSET Registry ELSE {{}}}

(* Nothing to run, a pin that is excluded too, or one that names no bench. *)
Refused(registry) ==
  \/ Targets = <<>>
  \/ Pin # None /\ (Pin \in Exclude \/ \A b \in registry : b.name # Pin)

Selectable(registry) == {b \in registry : Pin \in {None, b.name} /\ b.name \notin Exclude}
BenchesForOS(registry, os) == {b \in Selectable(registry) : b.os = os}

Unplannable(registry, os) ==
  IF os \notin cfg.versions THEN "no_image_version"
  ELSE IF BenchesForOS(registry, os) = {} THEN "no_bench_for_os" ELSE None

(* Build: one run per target and major, in order. *)
RunsOf(registry, os) ==
  IF Unplannable(registry, os) # None THEN <<>>
  ELSE [j \in DOMAIN Majors(os) |-> [os |-> os, node |-> Majors(os)[j]]]
BuildRuns(registry) == FlattenSeq([i \in DOMAIN Targets |-> RunsOf(registry, Targets[i])])

(* Variant with an error: only what has no image version counts as skipped. *)
BuildSkipsUnversioned(registry) ==
  {[os |-> os, reason |-> Unplannable(registry, os)] :
     os \in {t \in ToSet(Targets) : t \notin cfg.versions}}

(* Build: the targets it cannot plan. *)
BuildSkips(registry) ==
  {[os |-> os, reason |-> Unplannable(registry, os)] :
     os \in {t \in ToSet(Targets) : Unplannable(registry, t) # None}}

(* The targets that Build has neither planned nor skipped, if only an       *)
(* unreachable bench serves them (there are none: Build does one of both).  *)
AddUnreachable(registry) ==
  {[os |-> os, reason |-> "bench_unreachable"] :
     os \in {t \in ToSet(Targets) :
                /\ \A r \in ToSet(BuildRuns(registry)) : r.os # t
                /\ \A k \in BuildSkips(registry) : k.os # t
                /\ \E b \in Registry \ registry : b.os = t}}

PlanRefused ==
  /\ main = "loading"
  /\ Valid(cfg)
  /\ \E registry \in Reachable : Refused(registry)
  /\ WriteVerdict("infra_error")
  /\ Leave(2)
  /\ UNCHANGED <<planVars, cancelled, schedVars, streamVars, resultVars>>

Plan ==
  /\ main = "loading"
  /\ Valid(cfg)
  /\ \E registry \in Reachable :
       /\ ~Refused(registry)
       /\ Len(BuildRuns(registry)) <= MaxCells  \* bound
       /\ runs' = BuildRuns(registry)
       /\ skipped' = BuildSkips(registry) \cup AddUnreachable(registry)
  /\ main' = "preparing"
  /\ UNCHANGED <<flags, cfg, worktree, cancelled, schedVars, streamVars, resultVars, outVars>>

PrepareWorktree ==
  /\ main = "preparing"
  /\ worktree' = "live"
  /\ main' = "minting"
  /\ UNCHANGED <<planVars, cancelled, schedVars, streamVars, resultVars, outVars>>

(* The run id is minted; r.Subscribe starts a consumer per cell, and the    *)
(* stale containers and VMs are swept, before the fan-out.                  *)
FanOut ==
  /\ main = "minting"
  /\ consumer' = [c \in Cell |-> IF c \in planned THEN "ranging" ELSE "none"]
  /\ main' = "scheduling"
  /\ UNCHANGED <<planVars, worktree, cancelled, schedVars, pending, emitted, flushing, closes,
                 resultVars, outVars>>

Cancel ==
  /\ ~cancelled
  /\ main # "exited"
  /\ cancelled' = TRUE
  /\ UNCHANGED <<main, planVars, worktree, schedVars, streamVars, resultVars, outVars>>

-----------------------------------------------------------------------------
Scheduled(c, at) == main = "scheduling" /\ c \in planned /\ cell[c] = at

Answer(c, v) ==
  /\ cell' = [cell EXCEPT ![c] = "answered"]
  /\ value' = [value EXCEPT ![c] = v]

(* The scheduler skips the cell: its context is done. *)
NotRun(c) ==
  /\ Scheduled(c, "queued")
  /\ cancelled
  /\ Answer(c, "notRun")
  /\ UNCHANGED <<main, planVars, worktree, cancelled, streamVars, resultVars, outVars>>

(* A worker calls work on the cell. *)
Begin(c) ==
  /\ Scheduled(c, "queued")
  /\ ~cancelled
  /\ cell' = [cell EXCEPT ![c] = "ensuring"]
  /\ UNCHANGED <<main, planVars, worktree, cancelled, value, streamVars, resultVars, outVars>>

(* The image is absent and cannot be pulled or built, or the pull was       *)
(* interrupted: work returns before a pipeline exists, and nobody closes    *)
(* the cell's stream.                                                       *)
EnsureFails(c) ==
  /\ Scheduled(c, "ensuring")
  /\ Answer(c, "ensureErr")
  /\ UNCHANGED <<main, planVars, worktree, cancelled, streamVars, resultVars, outVars>>

EnsureOk(c) ==
  /\ Scheduled(c, "ensuring")
  /\ cell' = [cell EXCEPT ![c] = "running"]
  /\ UNCHANGED <<main, planVars, worktree, cancelled, value, streamVars, resultVars, outVars>>

(* A leg emits an event. *)
Emit(c) ==
  /\ Scheduled(c, "running")
  /\ emitted[c] < MaxEvents
  /\ emitted' = [emitted EXCEPT ![c] = @ + 1]
  /\ pending' = [pending EXCEPT ![c] = @ + 1]
  /\ UNCHANGED <<main, planVars, worktree, cancelled, schedVars, flushing, closes, consumer,
                 resultVars, outVars>>

(* RunAll returns, its deferred closeEvents done: a finalized report or the *)
(* error of a leg.                                                          *)
PipelineReturns(c) ==
  /\ Scheduled(c, "running")
  /\ \E v \in ReportValue \cup {"legErr"} : Answer(c, v)
  /\ flushing' = flushing \cup {c}
  /\ UNCHANGED <<main, planVars, worktree, cancelled, pending, emitted, closes, consumer,
                 resultVars, outVars>>

(* The pump has handed the last event over and closes the stream. *)
PumpCloses(c) ==
  /\ c \in flushing
  /\ flushing' = flushing \ {c}
  /\ closes' = [closes EXCEPT ![c] = @ + 1]
  /\ UNCHANGED <<main, planVars, worktree, cancelled, schedVars, pending, emitted, consumer,
                 resultVars, outVars>>

(* The renderer's goroutine writes the line of one event. *)
Render(c) ==
  /\ consumer[c] = "ranging"
  /\ pending[c] > 0
  /\ pending' = [pending EXCEPT ![c] = @ - 1]
  /\ lastLine' = "event"
  /\ UNCHANGED <<main, planVars, worktree, cancelled, schedVars, emitted, flushing, closes,
                 consumer, resultVars, verdicts, outcome, exit>>

StreamEnds(c) ==
  /\ consumer[c] = "ranging"
  /\ pending[c] = 0
  /\ closes[c] > 0
  /\ consumer' = [consumer EXCEPT ![c] = "done"]
  /\ UNCHANGED <<main, planVars, worktree, cancelled, schedVars, pending, emitted, flushing,
                 closes, resultVars, outVars>>

-----------------------------------------------------------------------------
ScheduleReturns ==
  /\ main = "scheduling"
  /\ \A c \in planned : cell[c] = "answered"
  /\ main' = "collecting"
  /\ UNCHANGED <<planVars, worktree, cancelled, schedVars, streamVars, resultVars, outVars>>

(* Variant with an error: Run leaves the stream of a cell that never ran open. *)
CollectClosingNone(c) ==
  /\ main = "collecting"
  /\ c \in planned /\ shown[c] = None
  /\ shown' = [shown EXCEPT ![c] = IF value[c] \in ReportValue THEN value[c] ELSE "error"]
  /\ inputs' = Append(inputs, value[c])
  /\ UNCHANGED <<main, planVars, worktree, cancelled, schedVars, streamVars, outVars>>

(* One turn of the loop over schedResults.  A value that is not a           *)
(* pipelineResult never reached a pipeline: Run closes the stream itself.   *)
Collect(c) ==
  /\ main = "collecting"
  /\ c \in planned /\ shown[c] = None
  /\ closes' = IF value[c] = "notRun" THEN [closes EXCEPT ![c] = @ + 1] ELSE closes
  /\ shown' = [shown EXCEPT ![c] = IF value[c] \in ReportValue THEN value[c] ELSE "error"]
  /\ inputs' = Append(inputs, value[c])
  /\ UNCHANGED <<main, planVars, worktree, cancelled, schedVars, pending, emitted, flushing,
                 consumer, outVars>>

(* Variant with an error: the summary does not wait for the consumers. *)
RendererNoWait ==
  /\ main = "collecting"
  /\ \A c \in planned : shown[c] # None
  /\ lastLine' = "summary"
  /\ main' = "reporting"
  /\ UNCHANGED <<planVars, worktree, cancelled, schedVars, streamVars, resultVars,
                 verdicts, outcome, exit>>

(* r.Wait(): every consumer has returned; then the summary is printed. *)
RendererWait ==
  /\ main = "collecting"
  /\ \A c \in planned : shown[c] # None /\ consumer[c] = "done"
  /\ lastLine' = "summary"
  /\ main' = "reporting"
  /\ UNCHANGED <<planVars, worktree, cancelled, schedVars, streamVars, resultVars,
                 verdicts, outcome, exit>>

Received(S) == \E i \in DOMAIN inputs : inputs[i] \in S

(* Aggregate: an error or a skipped OS is inconclusive, whatever failed. *)
ExitCode ==
  IF Received({"legErr", "ensureErr", "notRun"}) \/ skipped # {} THEN 2
  ELSE IF Received({"failed"}) THEN 1 ELSE 0

(* digest.Summarize: the worst outcome of the reports, "passed" if none;    *)
(* Aggregate has marked the reports of errors as infra_error.               *)
Outcome ==
  IF Received({"legErr", "ensureErr", "notRun"}) THEN "infra_error"
  ELSE IF Received({"failed"}) THEN "failed" ELSE "passed"

(* emitRunArtifacts (best effort, no influence on what follows), verdict. *)
Report ==
  /\ main = "reporting"
  /\ WriteVerdict(Outcome)
  /\ Leave(ExitCode)
  /\ UNCHANGED <<planVars, cancelled, schedVars, streamVars, resultVars>>

-----------------------------------------------------------------------------
Next ==
  \/ SetupFails
  \/ LoadFails
  \/ PlanRefused
  \/ Plan
  \/ PrepareWorktree
  \/ FanOut
  \/ Cancel
  \/ \E c \in Cell : NotRun(c)
  \/ \E c \in Cell : Begin(c)
  \/ \E c \in Cell : EnsureFails(c)
  \/ \E c \in Cell : EnsureOk(c)
  \/ \E c \in Cell : Emit(c)
  \/ \E c \in Cell : PipelineReturns(c)
  \/ \E c \in Cell : PumpCloses(c)
  \/ \E c \in Cell : Render(c)
  \/ \E c \in Cell : StreamEnds(c)
  \/ ScheduleReturns
  \/ \E c \in Cell : Collect(c)
  \/ RendererWait
  \/ Report

(* Every call returns (subprocesses end, pulls and builds succeed or fail), *)
(* and every goroutine is scheduled.  Nothing obliges a user to interrupt.  *)
Fairness ==
  /\ WF_vars(LoadFails \/ PlanRefused \/ Plan \/ PrepareWorktree \/ FanOut \/ ScheduleReturns \/ RendererWait \/ Report)
  /\ \A c \in Cell :
       /\ WF_vars(Collect(c))
       /\ WF_vars(NotRun(c) \/ Begin(c) \/ EnsureOk(c) \/ PipelineReturns(c))
       /\ WF_vars(PumpCloses(c))
       /\ WF_vars(Render(c) \/ StreamEnds(c))

Spec == Init /\ [][Next]_vars /\ Fairness

-----------------------------------------------------------------------------
(* Types of the variables. *)
PlanTypes ==
  /\ flags \in Flags /\ cfg \in Config
  /\ runs \in Seq([os : OS, node : Major]) /\ planned \subseteq Cell
  /\ \A k \in skipped : k.os \in ToSet(Targets)

TypeOK ==
  /\ PlanTypes
  /\ main \in {"loading", "preparing", "minting", "scheduling", "collecting", "reporting", "exited"}
  /\ worktree \in {"none", "live", "removed"}
  /\ cancelled \in BOOLEAN
  /\ cell \in [Cell -> {"queued", "ensuring", "running", "answered"}]
  /\ value \in [Cell -> Value \cup {None}]
  /\ pending \in [Cell -> Nat] /\ emitted \in [Cell -> 0..MaxEvents]
  /\ flushing \subseteq Cell
  /\ closes \in [Cell -> Nat]
  /\ consumer \in [Cell -> {"none", "ranging", "done"}]
  /\ shown \in [Cell -> ReportValue \cup {"error", None}]
  /\ inputs \in Seq(Value)
  /\ lastLine \in {None, "event", "summary", "verdict"}
  /\ verdicts \in Nat
  /\ outcome \in {None, "passed", "failed", "infra_error"}
  /\ exit \in {Running, 0, 1, 2}

(* When Run has returned, the last line of stdout is the verdict, the only  *)
(* one, and every event and every result has been rendered before: no       *)
(* renderer goroutine is left that could still write a line, and no         *)
(* pipeline that reads the worktree, which is removed by then.              *)
VerdictIsLast ==
  main = "exited" =>
    /\ lastLine = "verdict" /\ verdicts = 1
    /\ \A c \in planned : pending[c] = 0 /\ cell[c] \notin {"ensuring", "running"}
    /\ worktree # "live"

(* A stream is closed at most once (a second close panics the program), by  *)
(* the pump of its pipeline or by Run, and never while a leg may emit.      *)
ClosedOnce ==
  \A c \in Cell : /\ closes[c] + (IF c \in flushing THEN 1 ELSE 0) <= 1
                  /\ closes[c] > 0 => cell[c] = "answered"

(* No cell is planned twice, and the renderer's results, whose key is the   *)
(* cell's, do not overwrite each other, unless the request itself names a   *)
(* target or, with --node, a major twice: Load has refused such a [node].   *)
CellsDistinct ==
  \A c, d \in planned :
    runs[c] = runs[d] /\ c # d => ~IsInjective(Targets) \/ ~IsInjective(flags.node)

(* The invariant of the plan, of the streams and of what is on stdout. *)
Inv == TypeOK /\ VerdictIsLast /\ ClosedOnce /\ CellsDistinct

(* What was asked for: every target with every one of its majors. *)
Wanted == UNION {{[os |-> t, node |-> m] : m \in ToSet(Majors(t))} : t \in ToSet(Targets)}
Verified(S) == \A w \in Wanted : \E c \in planned : runs[c] = w /\ value[c] \in S

(* The exit code tells the truth about the request, whatever flags, config  *)
(* and unreachable benches have made of it: 0 only if every target ran on   *)
(* every one of its Node majors and passed; 1 only if all of them ran to a  *)
(* report and one failed; and a run whose cells have all been verified is   *)
(* never called inconclusive.  Without a skipped OS the verdict's outcome   *)
(* says the same.                                                           *)
ExitTellsTruth ==
  main = "exited" =>
    /\ exit = 0 => /\ Verified({"passed"})
                   /\ \A c \in planned : value[c] = "passed"
    /\ exit = 1 => Verified(ReportValue) /\ \E c \in planned : value[c] = "failed"
    /\ exit = 2 /\ runs # <<>> /\ (\A c \in planned : shown[c] # None) =>
         ~Verified(ReportValue) \/ \E c \in planned : value[c] \notin ReportValue
    /\ skipped = {} => exit = CASE outcome = "passed" -> 0 [] outcome = "failed" -> 1 [] OTHER -> 2

(* Run ends, whatever the cells do and whenever the user interrupts, unless *)
(* an image could not be made present.                                      *)
TerminatesWithImages == <>(main = "exited" \/ \E c \in Cell : value[c] = "ensureErr")
=============================================================================
