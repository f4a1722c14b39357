------------------------------ MODULE AsyncRun ------------------------------
(***************************************************************************)
(* `gsd-test run --async`: one run, recorded in a state file that separate *)
(* processes read and write without a lock: the submitter (runAsync), the  *)
(* detached worker (runWorker), any number of `gsd-test wait` (waitRun),   *)
(* and the Prune at the start of other runs.                               *)
(* runstate.Save writes a temporary file and renames it, so a save or a    *)
(* load is one step; Release removes three things in three steps.  A load  *)
(* of a file that exists may fail all the same (it cannot be read, or what *)
(* is in it cannot be decoded), for one process and not for the next.      *)
(***************************************************************************)
CONSTANTS
  Waiter, \* processes of `gsd-test wait` on this run
  Pruner  \* other invocations of `gsd-test run` that prune the store

None == "none"
Absent == [status |-> "absent", pid |-> FALSE, result |-> None]
Report == {"passed", "failed"}
(* State.Report, or State.Err after a failed spawn or dispatch. *)
Result == Report \cup {"error"}
State == [status : {"running"}, pid : BOOLEAN, result : {None}]
           \cup [status : {"done"}, pid : BOOLEAN, result : Result]

VARIABLES
  submit,  \* "start", "refused", "saved", "spawnFailed", "ended"
  file,    \* <run-id>.json: a State or Absent; pid says State.PID > 0
  dir,     \* <run-id>/ exists
  log,     \* <run-id>.worker.log exists
  worker,  \* where the worker process is; "off" before, "dead" after its end
  st,      \* the worker's copy of the state
  answer,  \* what dispatchRun really answered
  late,    \* 90 minutes have passed since StartedAt
  wait,    \* [Waiter -> ...]: where waitRun is
  seen,    \* [Waiter -> State or Absent]: the state it loaded last
  said,    \* [Waiter -> ...]: what it reported when it was done
  prune,   \* [Pruner -> ...]: where Prune is
  unread   \* history: a prune could not read the file while it said running

diskVars == <<file, dir, log>>
workerVars == <<worker, st, answer>>
waitVars == <<wait, seen, said>>
vars == <<submit, diskVars, workerVars, late, waitVars, prune, unread>>

-----------------------------------------------------------------------------
Init ==
  /\ submit = "start"
  /\ file = Absent /\ dir = FALSE /\ log = FALSE
  /\ worker = "off" /\ st = Absent /\ answer = None
  /\ late = FALSE
  /\ wait = [w \in Waiter |-> "off"]
  /\ seen = [w \in Waiter |-> Absent]
  /\ said = [w \in Waiter |-> None]
  /\ prune = [p \in Pruner |-> "off"]
  /\ unread = FALSE

Initial == [status |-> "running", pid |-> FALSE, result |-> None]
Claimed(s) == [status |-> s.status, pid |-> TRUE, result |-> s.result]
Final(s, r) == [status |-> "done", pid |-> s.pid, result |-> r]

(* Save either replaces the file or fails and leaves it. *)
Save(s) == file' \in {s, file}

-----------------------------------------------------------------------------
(* runAsync: save the running state with no PID; without it, no run. *)
Submit ==
  /\ submit = "start"
  /\ \/ file' = Initial /\ submit' = "saved"
     \/ UNCHANGED file /\ submit' = "refused"
  /\ UNCHANGED <<dir, log, workerVars, late, waitVars, prune, unread>>

(* realSpawn: open the log (or do without), start the detached worker.      *)
(* The submitter writes nothing more.                                       *)
Spawn ==
  /\ submit = "saved"
  /\ log' \in BOOLEAN
  /\ worker' = "loading"
  /\ submit' = "ended"
  /\ UNCHANGED <<file, dir, st, answer, late, waitVars, prune, unread>>

(* Variant with an error: a failure is reported after the worker's start. *)
SpawnFailsLate ==
  /\ submit = "saved"
  /\ log' \in BOOLEAN
  /\ worker' = "loading"
  /\ submit' = "spawnFailed"
  /\ UNCHANGED <<file, dir, st, answer, late, waitVars, prune, unread>>

SpawnFails ==
  /\ submit = "saved"
  /\ log' \in BOOLEAN
  /\ submit' = "spawnFailed"
  /\ UNCHANGED <<file, dir, workerVars, late, waitVars, prune, unread>>

(* "Mark the state as done/failed so status/wait don't hang", best effort. *)
MarkFailed ==
  /\ submit = "spawnFailed"
  /\ Save(Final(Initial, "error"))
  /\ submit' = "ended"
  /\ UNCHANGED <<dir, log, workerVars, late, waitVars, prune, unread>>

(* Variant with an error (issue #70): the submitter saves the PID itself. *)
SubmitterSavesPid ==
  /\ submit = "ended" /\ worker # "off"
  /\ Save(Claimed(Initial))
  /\ UNCHANGED <<submit, dir, log, workerVars, late, waitVars, prune, unread>>

(* The submitter is killed before the spawn. *)
SubmitterDies ==
  /\ submit = "saved"
  /\ submit' = "ended"
  /\ UNCHANGED <<diskVars, workerVars, late, waitVars, prune, unread>>

-----------------------------------------------------------------------------
WorkerLoad ==
  /\ worker = "loading"
  /\ file # Absent
  /\ st' = file
  /\ worker' = "claiming"
  /\ UNCHANGED <<submit, diskVars, answer, late, waitVars, prune, unread>>

(* Save the loaded state with the own PID; a failure is not fatal. *)
Claim ==
  /\ worker = "claiming"
  /\ st' = Claimed(st)
  /\ Save(st')
  /\ worker' = "dispatching"
  /\ UNCHANGED <<submit, dir, log, answer, late, waitVars, prune, unread>>

Dispatch ==
  /\ worker = "dispatching"
  /\ answer' \in Result
  /\ worker' = "writing"
  /\ UNCHANGED <<submit, diskVars, st, late, waitVars, prune, unread>>

(* WriteRunArtifacts, for a failed dispatch too; errors are ignored. *)
WriteArtifacts ==
  /\ worker = "writing"
  /\ dir' \in {TRUE, dir}
  /\ worker' = "saving"
  /\ UNCHANGED <<submit, file, log, st, answer, late, waitVars, prune, unread>>

(* Save report or error; on a failure the file stays as it is. *)
SaveFinal ==
  /\ worker = "saving"
  /\ st' = Final(st, answer)
  /\ Save(st')
  /\ worker' = "exiting"
  /\ UNCHANGED <<submit, dir, log, answer, late, waitVars, prune, unread>>

(* The worker returns, cannot load its state, or is killed at any moment. *)
WorkerEnds ==
  /\ worker \notin {"off", "dead"}
  /\ worker' = "dead"
  /\ UNCHANGED <<submit, diskVars, st, answer, late, waitVars, prune, unread>>

TimePasses ==
  /\ submit # "start"
  /\ ~late
  /\ late' = TRUE
  /\ UNCHANGED <<submit, diskVars, workerVars, waitVars, prune, unread>>

-----------------------------------------------------------------------------
At(w, pc) == wait[w] = pc
Goto(w, pc) == wait' = [wait EXCEPT ![w] = pc]
End(w, what) == Goto(w, "ended") /\ said' = [said EXCEPT ![w] = what]

(* Load: no file, or one that cannot be read, ends the wait; the loop is    *)
(* entered, and stayed in, only for a running state.                        *)
LoadNothing(w, missing, failed) ==
  /\ seen' = [seen EXCEPT ![w] = Absent]
  /\ End(w, IF file = Absent THEN missing ELSE failed)

(* Variant with an error: the liveness guard is used without a PID. *)
LoadForGuarding(w, missing, failed) ==
  \/ LoadNothing(w, missing, failed)
  \/ /\ file # Absent
     /\ seen' = [seen EXCEPT ![w] = file]
     /\ Goto(w, CASE file.status = "done" -> "read"
                  [] At(w, "asleep") -> "guard"
                  [] OTHER -> "loop")
     /\ UNCHANGED said

LoadFor(w, missing, failed) ==
  \/ LoadNothing(w, missing, failed)
  \/ /\ file # Absent
     /\ seen' = [seen EXCEPT ![w] = file]
     /\ Goto(w, CASE file.status = "done" -> "read"
                  [] file.pid /\ At(w, "asleep") -> "guard"
                  [] OTHER -> "loop")
     /\ UNCHANGED said

WaitStart(w) ==
  /\ At(w, "off")
  /\ submit # "start"
  /\ LoadFor(w, "unknown", "loadError")
  /\ UNCHANGED <<submit, diskVars, workerVars, late, prune, unread>>

(* Variant with an error: no backstop. *)
WaitNoCeiling(w) ==
  /\ At(w, "loop")
  /\ Goto(w, "asleep")
  /\ UNCHANGED <<submit, diskVars, workerVars, late, seen, said, prune, unread>>

(* The wall-clock backstop is looked at before each sleep. *)
WaitCeiling(w) ==
  /\ At(w, "loop")
  /\ IF late THEN End(w, "ceiling") ELSE Goto(w, "asleep") /\ UNCHANGED said
  /\ UNCHANGED <<submit, diskVars, workerVars, late, seen, prune, unread>>

WaitReload(w) ==
  /\ At(w, "asleep")
  /\ LoadFor(w, "reloadError", "reloadError")
  /\ UNCHANGED <<submit, diskVars, workerVars, late, prune, unread>>

(* workerPIDAlive: no PID is not alive; a PID is found while its process    *)
(* lives, and after its death if it has been given to another process.      *)
PidAlive(s) == IF ~s.pid THEN {FALSE} ELSE IF worker = "dead" THEN BOOLEAN ELSE {TRUE}

(* The liveness guard, on the state reloaded in the step before. *)
WaitGuard(w) ==
  /\ At(w, "guard")
  /\ \E alive \in PidAlive(seen[w]) :
       IF alive THEN Goto(w, "loop") /\ UNCHANGED said ELSE End(w, "gone")
  /\ UNCHANGED <<submit, diskVars, workerVars, late, seen, prune, unread>>

(* The state read is done: State.Err gives the inconclusive verdict. *)
WaitInconclusive(w) ==
  /\ At(w, "read")
  /\ seen[w].result = "error"
  /\ End(w, "inconclusive")
  /\ UNCHANGED <<submit, diskVars, workerVars, late, seen, prune, unread>>

(* Render the report; a run kept by --keep or by the configuration of this  *)
(* moment gets its artifacts (again), best effort, any other is released.   *)
WaitRender(w) ==
  /\ At(w, "read")
  /\ seen[w].result \in Report
  /\ said' = [said EXCEPT ![w] = seen[w].result]
  /\ \/ Goto(w, "ended") /\ dir' \in {TRUE, dir}
     \/ Goto(w, "json") /\ UNCHANGED dir
  /\ UNCHANGED <<submit, file, log, workerVars, late, seen, prune, unread>>

-----------------------------------------------------------------------------
(* runstate.Release, the json first; an error is collected and the rest is  *)
(* removed all the same.                                                    *)
Remove(at) ==
  CASE at = "json" -> file' \in {Absent, file} /\ UNCHANGED <<dir, log>>
    [] at = "dir" -> dir' \in {FALSE, dir} /\ UNCHANGED <<file, log>>
    [] at = "log" -> log' \in {FALSE, log} /\ UNCHANGED <<file, dir>>
After(at, end) == CASE at = "json" -> "dir" [] at = "dir" -> "log" [] at = "log" -> end

WaitRelease(w) ==
  /\ wait[w] \in {"json", "dir", "log"}
  /\ Remove(wait[w])
  /\ Goto(w, After(wait[w], "ended"))
  /\ UNCHANGED <<submit, workerVars, late, seen, said, prune, unread>>

(* Prune lists the store ... *)
PruneList(p) ==
  /\ prune[p] = "off"
  /\ file # Absent \/ dir \/ log
  /\ prune' = [prune EXCEPT ![p] = "listed"]
  /\ UNCHANGED <<submit, diskVars, workerVars, late, waitVars, unread>>

(* Variant with an error: the state is loaded and not looked at. *)
PruneUnchecked(p) ==
  /\ prune[p] = "listed"
  /\ \/ prune' = [prune EXCEPT ![p] = "json"]
     \/ prune' = [prune EXCEPT ![p] = "off"]
  /\ UNCHANGED <<submit, diskVars, workerVars, late, waitVars, unread>>

(* ... loads each listed run.  One that it does not find running, be it     *)
(* finished, without a state file or with one that it cannot read, may be   *)
(* over the TTL or beyond the newest KeepLastRuns.                          *)
PruneLoad(p) ==
  /\ prune[p] = "listed"
  /\ \/ \E loaded \in {file, Absent} :
           /\ loaded.status # "running"
           /\ prune' = [prune EXCEPT ![p] = "json"]
           /\ unread' = (unread \/ file.status = "running")
     \/ prune' = [prune EXCEPT ![p] = "off"] /\ UNCHANGED unread
  /\ UNCHANGED <<submit, diskVars, workerVars, late, waitVars>>

PruneRelease(p) ==
  /\ prune[p] \in {"json", "dir", "log"}
  /\ Remove(prune[p])
  /\ prune' = [prune EXCEPT ![p] = After(@, "off")]
  /\ UNCHANGED <<submit, workerVars, late, waitVars, unread>>

-----------------------------------------------------------------------------
WaitStep(w) ==
  \/ WaitCeiling(w) \/ WaitReload(w) \/ WaitGuard(w)
  \/ WaitInconclusive(w) \/ WaitRender(w) \/ WaitRelease(w)

Next ==
  \/ Submit
  \/ Spawn
  \/ SpawnFails
  \/ MarkFailed
  \/ SubmitterDies
  \/ WorkerLoad
  \/ Claim
  \/ Dispatch
  \/ WriteArtifacts
  \/ SaveFinal
  \/ WorkerEnds
  \/ TimePasses
  \/ \E w \in Waiter : WaitStart(w)
  \/ \E w \in Waiter : WaitCeiling(w)
  \/ \E w \in Waiter : WaitReload(w)
  \/ \E w \in Waiter : WaitGuard(w)
  \/ \E w \in Waiter : WaitInconclusive(w)
  \/ \E w \in Waiter : WaitRender(w)
  \/ \E w \in Waiter : WaitRelease(w)
  \/ \E p \in Pruner : PruneList(p)
  \/ \E p \in Pruner : PruneLoad(p)
  \/ \E p \in Pruner : PruneRelease(p)

(* Time passes and a waiting process is scheduled.  Nothing is assumed of   *)
(* the submitter, the worker or the pruners: each may die or be slow.       *)
Fairness == WF_vars(TimePasses) /\ \A w \in Waiter : WF_vars(WaitStep(w))

Spec == Init /\ [][Next]_vars /\ Fairness

-----------------------------------------------------------------------------
(* Types; a waiter past its loop holds a finished state. *)
Releasing == {"json", "dir", "log"}
Active == {"loading", "claiming", "dispatching", "writing", "saving"}
TypeOK ==
  /\ submit \in {"start", "refused", "saved", "spawnFailed", "ended"}
  /\ file \in State \cup {Absent}
  /\ dir \in BOOLEAN /\ log \in BOOLEAN /\ late \in BOOLEAN /\ unread \in BOOLEAN
  /\ worker \in {"off", "loading", "claiming", "dispatching", "writing", "saving", "exiting", "dead"}
  /\ st \in State \cup {Absent}
  /\ answer \in Result \cup {None}
  /\ wait \in [Waiter -> {"off", "loop", "asleep", "guard", "read", "ended"} \cup Releasing]
  /\ seen \in [Waiter -> State \cup {Absent}]
  /\ said \in [Waiter -> Result \cup
                 {None, "unknown", "loadError", "ceiling", "reloadError", "gone", "inconclusive"}]
  /\ prune \in [Pruner -> {"off", "listed"} \cup Releasing]

(* wait never renders a partial or a false result: the outcome it prints is *)
(* the one the worker's dispatch answered, and it calls a run inconclusive  *)
(* only when spawn or dispatch really failed.  (waitRun: "never renders a   *)
(* partial result".)                                                        *)
WaitTellsTruth ==
  \A w \in Waiter :
    /\ said[w] \in Report => said[w] = answer
    /\ said[w] = "inconclusive" => answer = "error" \/ worker = "off"

(* Nothing of a run in flight is removed as long as its file can be read:   *)
(* while the worker has its result still to write, no wait is removing the  *)
(* run's files, and no prune either unless one could not load the state.    *)
(* Prune's comment has no such exception (a run whose state file says       *)
(* running "is NEVER pruned"); a Load that fails says nothing of the run,   *)
(* and Prune goes on as if it were not running.                             *)
RunningNeverReleased ==
  worker \in Active =>
    /\ \A w \in Waiter : wait[w] \notin Releasing
    /\ ~unread => /\ file.status = "running"
                  /\ \A p \in Pruner : prune[p] \notin Releasing

(* The invariant of a run's three things on disk. *)
Inv == TypeOK /\ RunningNeverReleased

(* wait says that the worker is gone only when it is: not before the worker *)
(* has claimed its PID, not while it dispatches.                            *)
GoneIsTrue == \A w \in Waiter : said[w] = "gone" => worker = "dead"

(* Every wait returns, also when the worker died before or after claiming   *)
(* its PID, could not save, or another process now has its PID.             *)
WaitReturns == \A w \in Waiter : At(w, "loop") ~> At(w, "ended")

(* The state file is a RunRecord: no process overwrites a result (the lost  *)
(* update of issue #70) or brings back a finished run that was released,    *)
(* and a running run is forgotten only where a prune could not read it.     *)
Record == INSTANCE RunRecord WITH
  phase <- IF file # Absent THEN file.status
           ELSE IF submit \in {"start", "refused"} THEN "none"
           ELSE IF submit = "ended" /\ worker \notin Active THEN "gone" ELSE "lost",
  result <- file.result
ImplementsRecord == Record!Spec
=============================================================================
