------------------------------ MODULE Dispatch ------------------------------
(***************************************************************************)
(* main.dispatchRun and its front doors `gsd-test run` and `gsd-test       *)
(* submit --execute`: several invocations of one repository and target     *)
(* that share a bench with its Tester Image, the workstation's telemetry   *)
(* log and nothing else.  The steps of a sweep are DockerReaper's and the  *)
(* watchdog's are Watchdog's; here a sweep is one step, and a container    *)
(* has a phase of setting up before the watchdog's clock starts.           *)
(***************************************************************************)
EXTENDS Integers, SequencesExt

CONSTANTS
  Run,         \* the invocations; a container has the name of its invocation
  Estimate,    \* [Run -> Nat]: budget.estimateMs, 0 for none
  Merged,      \* [Run -> BOOLEAN]: the spec has base and prBranch
  Branch,      \* [Run -> slugs]: the slug of prBranch
  Unknown,     \* runspec.BranchSlugUnknown, the slug of a spec without a branch
  FirstImages, \* what the tag may stand for before: "absent", "stale", "wanted"
  Versioned,   \* whether the config has a version for the target
  MinDeadline, \* minDeadlineMs
  HardCap,     \* budget.hardCapMs
  Grace,       \* reaper.SafetyNetGrace
  MaxTime      \* bound on the time

ASSUME SpecAssumption ==
  /\ Estimate \in [Run -> Nat]
  /\ Merged \in [Run -> BOOLEAN] /\ DOMAIN Branch = Run /\ \A r \in Run : Branch[r] # Unknown
ASSUME ImageAssumption == FirstImages \subseteq {"absent", "stale", "wanted"}
ASSUME NameAssumption == Run \cap {"absent", "stale", "wanted", "bad"} = {}
ASSUME TimeAssumption == {MinDeadline, HardCap, Grace, MaxTime} \subseteq Nat

None == "none"

VARIABLES
  \* an invocation
  pc,        \* [Run -> ...]: where it is
  cancelled, \* [Run -> BOOLEAN]: dispatchRun's ctx is done
  median,    \* [Run -> Nat]: of the history it has loaded
  eff,       \* [Run -> Nat]: the effective deadline, a duration
  outcome,   \* [Run -> ...]: of its Report, or infra_error without one
  out,       \* [Run -> Seq(...)]: what is on stdout, reports and verdicts
  code,      \* [Run -> 0..2]: the exit code, or -1
  scratch,   \* [Run -> ...]: the directory made by worktree.Construct
  \* the workstation
  log,       \* the telemetry log: whose record each line is, or "bad"
  unended,   \* its last line has no end
  \* the bench
  image,     \* what the tag stands for: "absent", "stale", "wanted", or who has built it
  published, \* the registry has the wanted image
  label,     \* [Run -> Nat]: sh.gsd-test.deadline of its container
  cont,      \* [Run -> ...]: its container
  since,     \* [Run -> Nat]: when its watchdog was armed, while it is
  now

runVars == <<pc, cancelled, median, eff, outcome, out, code, scratch>>
logVars == <<log, unended>>
imageVars == <<image, published>>
contVars == <<label, cont, since>>
vars == <<runVars, logVars, imageVars, contVars, now>>

-----------------------------------------------------------------------------
(* The log is as earlier runs have left it, and so is the image. *)
Init ==
  /\ pc = [r \in Run |-> "inspect"]
  /\ cancelled = [r \in Run |-> FALSE]
  /\ median = [r \in Run |-> 0] /\ eff = [r \in Run |-> 0]
  /\ outcome = [r \in Run |-> None] /\ out = [r \in Run |-> <<>>]
  /\ code = [r \in Run |-> -1] /\ scratch = [r \in Run |-> None]
  /\ log = <<>> /\ unended \in BOOLEAN
  /\ image \in FirstImages /\ published = FALSE
  /\ label = [r \in Run |-> 0] /\ cont = [r \in Run |-> None]
  /\ since = [r \in Run |-> 0] /\ now = 0

Goto(r, place) == pc' = [pc EXCEPT ![r] = place]
Step(r, from, to) == pc[r] = from /\ Goto(r, to)
InfraError(r, place) == outcome' = [outcome EXCEPT ![r] = "infra_error"] /\ Goto(r, place)
SetCont(r, phase) == cont' = [cont EXCEPT ![r] = phase]

(* Config and bench are found; EnsurePresent: an image that is there is     *)
(* good enough here, ...                                                    *)
Inspect(r) ==
  /\ ~cancelled[r]
  /\ Step(r, "inspect", IF image = "absent" THEN "pull" ELSE "sweep")
  /\ UNCHANGED <<cancelled, median, eff, outcome, out, code, scratch, logVars, imageVars,
                 contVars, now>>

(* ... or is pulled, if the registry has it, ... *)
Pull(r) ==
  /\ ~cancelled[r]
  /\ Step(r, "pull", IF published THEN "sweep" ELSE "build")
  /\ image' = IF published THEN "wanted" ELSE image
  /\ UNCHANGED <<cancelled, median, eff, outcome, out, code, scratch, logVars, published,
                 contVars, now>>

(* ... or built from the Dockerfile here, whose version label is not the    *)
(* registry's.                                                              *)
Build(r) ==
  /\ ~cancelled[r]
  /\ Step(r, "build", "sweep")
  /\ image' = r
  /\ UNCHANGED <<cancelled, median, eff, outcome, out, code, scratch, logVars, published,
                 contVars, now>>

(* One of these fails, or is cancelled; the daemon may have done its part. *)
SetupFails(r) ==
  /\ pc[r] \in {"inspect", "pull", "build"}
  /\ InfraError(r, "verdict")
  /\ image' \in {image} \cup (IF pc[r] = "build" THEN {r} ELSE {})
                        \cup (IF pc[r] = "pull" /\ published THEN {"wanted"} ELSE {})
  /\ UNCHANGED <<cancelled, median, eff, out, code, scratch, logVars, published, contVars, now>>

Slug(r) == IF Merged[r] THEN Branch[r] ELSE Unknown
Running(c) == cont[c] \in {"setting_up", "testing"}
Overdue(r) ==
  {c \in Run : Running(c) /\ \/ Slug(c) = Slug(r) /\ label[c] <= now
                             \/ label[c] + Grace <= now}
(* Best effort: any of the kills may fail, and so may all of them. *)
Sweep(r) ==
  /\ Step(r, "sweep", "verify")
  /\ \E killed \in SUBSET Overdue(r) :
       cont' = [c \in Run |-> IF c \in killed THEN "killed" ELSE cont[c]]
  /\ UNCHANGED <<cancelled, median, eff, outcome, out, code, scratch, logVars, imageVars,
                 label, since, now>>

(* Variant with an error: the tag in the image's name is taken for its      *)
(* version.                                                                 *)
VerifyTag(r) ==
  /\ Step(r, "verify", "history")
  /\ UNCHANGED <<cancelled, median, eff, outcome, out, code, scratch, logVars, imageVars,
                 contVars, now>>

(* VerifyImageVersion, if a version is configured. *)
Verify(r) ==
  /\ Versioned => ~cancelled[r] /\ image = "wanted"
  /\ Step(r, "verify", "history")
  /\ UNCHANGED <<cancelled, median, eff, outcome, out, code, scratch, logVars, imageVars,
                 contVars, now>>

VerifyFails(r) ==
  /\ Versioned
  /\ pc[r] = "verify"
  /\ InfraError(r, "verdict")
  /\ UNCHANGED <<cancelled, median, eff, out, code, scratch, logVars, imageVars, contVars, now>>

(* endTime: a completed run has no kill record, and so it ends when it      *)
(* starts.                                                                  *)
Duration(r) == IF outcome[r] = "reaped" THEN eff[r] ELSE 0

(* telemetry.MedianDurationMs: of the records that passed, the duration in  *)
(* the middle, or halfway between two; 0 is no median.                      *)
Passing(records) == {i \in DOMAIN records : outcome[records[i]] = "passed"}
Shortest(records, k) ==
  CHOOSE d \in 0..HardCap :
    /\ Cardinality({i \in Passing(records) : Duration(records[i]) < d}) < k
    /\ Cardinality({i \in Passing(records) : Duration(records[i]) <= d}) >= k
Median(records) ==
  LET n == Cardinality(Passing(records)) IN
  IF n = 0 THEN 0
  ELSE IF n % 2 = 1 THEN Shortest(records, n \div 2 + 1)
  ELSE (Shortest(records, n \div 2) + Shortest(records, n \div 2 + 1)) \div 2

(* telemetry.Load: one line that cannot be read makes the whole log an      *)
(* error, which is dropped.                                                 *)
LoadHistory(r) ==
  /\ Step(r, "history", IF Merged[r] THEN "resolve" ELSE "deadline")
  /\ median' = [median EXCEPT ![r] = IF unended \/ "bad" \in ToSet(log) THEN 0 ELSE Median(log)]
  /\ UNCHANGED <<cancelled, eff, outcome, out, code, scratch, logVars, imageVars, contVars, now>>

-----------------------------------------------------------------------------
(* worktree.Prepare with a base: refs.Resolve for both refs, and Construct. *)
Resolve(r) ==
  /\ ~cancelled[r]
  /\ Step(r, "resolve", "mkdir")
  /\ UNCHANGED <<cancelled, median, eff, outcome, out, code, scratch, logVars, imageVars,
                 contVars, now>>

MakeScratch(r) ==
  /\ Step(r, "mkdir", "git")
  /\ scratch' = [scratch EXCEPT ![r] = "parent"]
  /\ UNCHANGED <<cancelled, median, eff, outcome, out, code, logVars, imageVars, contVars, now>>

(* git clone, checkout and merge, one after the other. *)
Git(r) ==
  /\ ~cancelled[r]
  /\ Step(r, "git", "git") \/ Step(r, "git", "deadline")
  /\ scratch' = [scratch EXCEPT ![r] = "clone"]
  /\ UNCHANGED <<cancelled, median, eff, outcome, out, code, logVars, imageVars, contVars, now>>

PrepareFails(r) ==
  /\ pc[r] \in {"resolve", "mkdir"}
  /\ InfraError(r, "verdict")
  /\ UNCHANGED <<cancelled, median, eff, out, code, scratch, logVars, imageVars, contVars, now>>

(* Variant with an error: what the failed step has made stays. *)
GitFailsUncleaned(r) ==
  /\ pc[r] = "git"
  /\ InfraError(r, "verdict")
  /\ UNCHANGED <<cancelled, median, eff, out, code, scratch, logVars, imageVars, contVars, now>>

(* A git command fails, a conflict of the merge included: cleanup removes   *)
(* the directory, or cannot.                                                *)
GitFails(r) ==
  /\ pc[r] = "git"
  /\ InfraError(r, "verdict")
  /\ \E left \in {None, "stuck"} : scratch' = [scratch EXCEPT ![r] = left]
  /\ UNCHANGED <<cancelled, median, eff, out, code, logVars, imageVars, contVars, now>>

-----------------------------------------------------------------------------
(* Budget.EffectiveDeadlineMs, with the default overrun factor: the floor   *)
(* comes before the cap.                                                    *)
EffectiveDeadline(estimate, typical) ==
  LET base == IF estimate > 0 THEN estimate ELSE typical
      floored == IF (3 * base) \div 2 < MinDeadline THEN MinDeadline ELSE (3 * base) \div 2
  IN IF base = 0 \/ floored > HardCap THEN HardCap ELSE floored

(* The label's deadline counts from here, before the container is made. *)
MintDeadline(r) ==
  /\ Step(r, "deadline", "create")
  /\ eff' = [eff EXCEPT ![r] = EffectiveDeadline(Estimate[r], median[r])]
  /\ label' = [label EXCEPT ![r] = now + eff'[r]]
  /\ UNCHANGED <<cancelled, median, outcome, out, code, scratch, logVars, imageVars, cont,
                 since, now>>

(* dispatch.Exec: docker create resolves the tag, ... *)
Create(r) ==
  /\ ~cancelled[r]
  /\ Step(r, "create", "copy")
  /\ SetCont(r, "created")
  /\ UNCHANGED <<cancelled, median, eff, outcome, out, code, scratch, logVars, imageVars,
                 label, since, now>>

(* ... docker cp reads the worktree, ... *)
Copy(r) ==
  /\ ~cancelled[r]
  /\ Step(r, "copy", "start")
  /\ UNCHANGED <<cancelled, median, eff, outcome, out, code, scratch, logVars, imageVars,
                 contVars, now>>

(* ... and docker start -a begins. *)
Start(r) ==
  /\ ~cancelled[r]
  /\ Step(r, "start", "attached")
  /\ SetCont(r, "setting_up")
  /\ UNCHANGED <<cancelled, median, eff, outcome, out, code, scratch, logVars, imageVars,
                 label, since, now>>

(* Variant with an error: no output is a run of no tests. *)
StartReturnsLenient(r) ==
  /\ ~cancelled[r]
  /\ cont[r] \in {"passed", "failed", "reaped", "killed", "aborted"}
  /\ Step(r, "attached", "append")
  /\ outcome' = [outcome EXCEPT ![r] = IF cont[r] \in {"failed", "reaped"} THEN cont[r] ELSE "passed"]
  /\ UNCHANGED <<cancelled, median, eff, out, code, scratch, logVars, imageVars, contVars, now>>

(* It returns with the envelope, whatever its own error. *)
StartReturns(r) ==
  /\ ~cancelled[r]
  /\ cont[r] \in {"passed", "failed", "reaped"}
  /\ Step(r, "attached", "append")
  /\ outcome' = [outcome EXCEPT ![r] = cont[r]]
  /\ UNCHANGED <<cancelled, median, eff, out, code, scratch, logVars, imageVars, contVars, now>>

(* Variant with an error: the docker commands do without the context. *)
ExecFailsDetached(r) ==
  /\ ~cancelled[r]
  /\ pc[r] \in {"create", "copy", "start", "attached"}
  /\ InfraError(r, "close")
  /\ UNCHANGED <<cancelled, median, eff, out, code, scratch, logVars, imageVars, contVars, now>>

(* A docker command fails at the client, is cancelled, or returns no whole  *)
(* envelope: the container, if there is one, stays as it is.                *)
ExecFails(r) ==
  /\ pc[r] \in {"create", "copy", "start", "attached"}
  /\ InfraError(r, "close")
  /\ \/ UNCHANGED cont
     \/ pc[r] = "create" /\ SetCont(r, "created")
     \/ pc[r] = "start" /\ SetCont(r, "setting_up")
  /\ UNCHANGED <<cancelled, median, eff, out, code, scratch, logVars, imageVars, label, since,
                 now>>

-----------------------------------------------------------------------------
(* Variant with an error: the log is truncated as it is opened. *)
AppendRecordAnew(r) ==
  /\ Step(r, "append", "close")
  /\ log' = <<r>> /\ UNCHANGED unended
  /\ UNCHANGED <<cancelled, median, eff, outcome, out, code, scratch, imageVars, contVars, now>>

(* telemetry.Append, one write at the end of the file; after half a line it *)
(* makes that line whole, and wrong.                                        *)
AppendRecord(r) ==
  /\ Step(r, "append", "close")
  /\ log' = Append(log, IF unended THEN "bad" ELSE r)
  /\ unended' = FALSE
  /\ UNCHANGED <<cancelled, median, eff, outcome, out, code, scratch, imageVars, contVars, now>>

(* The disk is full: nothing or a part of it is written, and the error is   *)
(* only a warning.                                                          *)
AppendFails(r) ==
  /\ Step(r, "append", "close")
  /\ unended' \in {unended, TRUE}
  /\ UNCHANGED <<cancelled, median, eff, outcome, out, code, scratch, log, imageVars, contVars,
                 now>>

(* The deferred wt.Close removes the clone, not the directory around it; a  *)
(* worktree that is the repository itself it leaves alone.                  *)
CloseWorktree(r) ==
  /\ Step(r, "close", "verdict")
  /\ IF Merged[r] THEN \E left \in {"parent", "stuck"} : scratch' = [scratch EXCEPT ![r] = left]
                  ELSE UNCHANGED scratch
  /\ UNCHANGED <<cancelled, median, eff, outcome, out, code, logVars, imageVars, contVars, now>>

(* Render's exit code, and executeSpec's. *)
ExitCode(r) ==
  CASE outcome[r] = "infra_error" -> 2
    [] outcome[r] = "passed" -> 0
    [] OTHER -> 1

(* The front door: the report, if there is one, and the verdict. *)
Verdict(r) ==
  /\ Step(r, "verdict", "returned")
  /\ out' = [out EXCEPT ![r] =
               (IF outcome[r] = "infra_error" THEN @ ELSE Append(@, "report")) \o <<outcome[r]>>]
  /\ code' = [code EXCEPT ![r] = ExitCode(r)]
  /\ UNCHANGED <<cancelled, median, eff, outcome, scratch, logVars, imageVars, contVars, now>>

-----------------------------------------------------------------------------
(* run-and-die.sh: npm ci and the build, then the watchdog with its clock. *)
SetUp(r) ==
  /\ cont[r] = "setting_up"
  /\ \/ SetCont(r, "testing") /\ since' = [since EXCEPT ![r] = now]
     \/ SetCont(r, "aborted") /\ UNCHANGED since
  /\ UNCHANGED <<runVars, logVars, imageVars, label, now>>

(* The watchdog ends the run, at the deadline or before. *)
TestsEnd(r) ==
  /\ cont[r] = "testing"
  /\ \/ SetCont(r, "passed")
     \/ SetCont(r, "failed")
     \/ now >= since[r] + eff[r] /\ SetCont(r, "reaped")
  /\ since' = [since EXCEPT ![r] = 0]
  /\ UNCHANGED <<runVars, logVars, imageVars, label, now>>

(* Somebody pushes the image. *)
Publish ==
  /\ ~published
  /\ published' = TRUE
  /\ UNCHANGED <<runVars, logVars, image, contVars, now>>

Tick ==
  /\ now < MaxTime
  /\ now' = now + 1
  /\ UNCHANGED <<runVars, logVars, imageVars, contVars>>

(* SIGINT or SIGTERM; outside of dispatchRun nobody looks at the context of *)
(* main.run that catches it.                                                *)
InDispatch(r) == pc[r] \notin {"verdict", "returned", "dead"}
Interrupt(r) ==
  /\ InDispatch(r) /\ ~cancelled[r]
  /\ cancelled' = [cancelled EXCEPT ![r] = TRUE]
  /\ UNCHANGED <<pc, median, eff, outcome, out, code, scratch, logVars, imageVars, contVars, now>>

(* The process dies, in the middle of a write perhaps. *)
Crash(r) ==
  /\ pc[r] \notin {"returned", "dead"}
  /\ Goto(r, "dead")
  /\ unended' \in {unended, unended \/ pc[r] = "append"}
  /\ cancelled' = [cancelled EXCEPT ![r] = FALSE] /\ median' = [median EXCEPT ![r] = 0]
  /\ UNCHANGED <<eff, outcome, out, code, scratch, log, imageVars, contVars,
                 now>>

-----------------------------------------------------------------------------
(* What needs no answer of anybody, what does, and the ways to fail. *)
OwnStep(r) ==
  \/ LoadHistory(r) \/ MakeScratch(r) \/ MintDeadline(r)
  \/ AppendRecord(r) \/ CloseWorktree(r) \/ Verdict(r)
Answer(r) ==
  \/ Inspect(r) \/ Pull(r) \/ Build(r) \/ Sweep(r) \/ Verify(r) \/ Resolve(r) \/ Git(r)
  \/ Create(r) \/ Copy(r) \/ Start(r) \/ StartReturns(r)
Failure(r) ==
  SetupFails(r) \/ VerifyFails(r) \/ PrepareFails(r) \/ GitFails(r) \/ ExecFails(r) \/ AppendFails(r)

Next ==
  \/ \E r \in Run :
       \/ OwnStep(r) \/ Answer(r) \/ Failure(r)
       \/ SetUp(r) \/ TestsEnd(r) \/ Interrupt(r) \/ Crash(r)
  \/ Publish \/ Tick

(* A process that is up goes on, and a done context, the same for all of    *)
(* them, ends the command it waits for, in which case a sweep answers with  *)
(* an error that stops nobody.  No command has to answer otherwise, and no  *)
(* test to end.                                                             *)
Fairness ==
  \A r \in Run :
    /\ WF_vars(OwnStep(r)) /\ WF_vars(~Versioned /\ Verify(r))
    /\ WF_vars(cancelled[r] /\ (Sweep(r) \/ Failure(r)))

Spec == Init /\ [][Next]_vars /\ Fairness

-----------------------------------------------------------------------------
Place == {"inspect", "pull", "build", "sweep", "verify", "history", "resolve", "mkdir",
          "git", "deadline", "create", "copy", "start", "attached", "append",
          "close", "verdict", "returned", "dead"}
Outcome == {"passed", "failed", "reaped", "infra_error"}

TypeOK ==
  /\ pc \in [Run -> Place] /\ cancelled \in [Run -> BOOLEAN]
  /\ median \in [Run -> 0..HardCap] /\ eff \in [Run -> 0..HardCap]
  /\ outcome \in [Run -> Outcome \cup {None}]
  /\ out \in [Run -> Seq(Outcome \cup {"report"})] /\ code \in [Run -> -1..2]
  /\ scratch \in [Run -> {None, "parent", "clone", "stuck"}]
  /\ log \in Seq(Run \cup {"bad"}) /\ unended \in BOOLEAN
  /\ image \in {"absent", "stale", "wanted"} \cup Run /\ published \in BOOLEAN
  /\ label \in [Run -> 0..(MaxTime + HardCap)] /\ since \in [Run -> 0..MaxTime] /\ now \in 0..MaxTime
  /\ cont \in [Run -> {None, "created", "setting_up", "testing", "passed", "failed", "reaped",
                       "aborted", "killed"}]

(* Types; the clone is there as long as docker cp may read it, and gone     *)
(* when the invocation returns, by whatever path, unless its removal has    *)
(* failed; its empty parent may stay.                                       *)
ScratchKept ==
  /\ TypeOK
  /\ \A r \in Run :
       /\ pc[r] \in {"create", "copy"} /\ Merged[r] => scratch[r] = "clone"
       /\ pc[r] = "returned" => scratch[r] # "clone"

(* "ADR-0023 Decision 2 requires a verdict on EVERY outcome": an invocation *)
(* that returns has written one verdict, as its last line, with the exit    *)
(* code that belongs to it; and a verdict on tests is what the watchdog has *)
(* said, not what a sweep, an interrupt or a lost connection looks like.    *)
VerdictTellsTruth ==
  \A r \in Run : pc[r] = "returned" =>
    LET said == Last(out[r]) IN
    /\ {i \in DOMAIN out[r] : out[r][i] # "report"} = {Len(out[r])}
    /\ said # "infra_error" => said = cont[r]
    /\ code[r] = CASE said = "passed" -> 0 [] said = "infra_error" -> 2 [] OTHER -> 1

(* The records of concurrent runs do not overwrite each other, whatever was *)
(* torn before, and a record says of its run what the watchdog said.        *)
RecordsKept ==
  [][/\ IsPrefix(log, log')
     /\ \A i \in DOMAIN log' \ DOMAIN log :
          log'[i] \in Run => outcome[log'[i]] = cont[log'[i]]]_vars

(* "A stale image can't silently produce wrong results": with a version     *)
(* configured no container is made of an image that was there before with   *)
(* another version, nor of the invocation's own fallback build.  Another's  *)
(* build that ends between the check and docker create can still slip in.   *)
ImageIsChecked ==
  [][\A r \in Run : Versioned /\ cont[r] = None /\ cont'[r] = "created" =>
       image \notin {"absent", "stale", r}]_vars

(* An interrupted invocation returns, at whatever point it was and whatever *)
(* it was waiting for.                                                      *)
InterruptReturns == \A r \in Run : cancelled[r] ~> pc[r] \in {"returned", "dead"}

(* docs/run-and-die.md:27: "The clock starts when the *tests* start, not    *)
(* when the container starts, so a slow `npm ci` is never charged against   *)
(* the estimate."                                                           *)
BudgetKept ==
  [][\A r \in Run : cont[r] = "testing" /\ cont'[r] = "killed" => now - since[r] >= eff[r]]_vars
=============================================================================
