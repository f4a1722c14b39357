---------------------------- MODULE TartPipeline ----------------------------
(***************************************************************************)
(* tartpipeline.RunAll: the eight legs of a run in a Tart VM of a macOS    *)
(* bench.  Every command goes over ssh and may fail at the client after    *)
(* the bench has carried it out; a clone or a boot once ordered may take   *)
(* effect when its run has long given up.  TartFleet adds the other        *)
(* invocations that come by the bench.                                     *)
(***************************************************************************)
EXTENDS Integers, Sequences

CONSTANT Engine \* the invocations; a VM has the name of its invocation

(* The order in RunAll, which is not Docker's. *)
Legs == <<"copy_worktree", "start_container", "check_image_version", "npm_ci",
          "build", "run_tests", "drain", "parse">>
None == "none"

VARIABLES
  \* the bench
  vm,        \* [Engine -> ...]: its VM
  state,     \* [Engine -> BOOLEAN]: its state file is there and readable
  order,     \* [Engine -> {None, "clone", "boot"}]: ordered and not yet done
  \* the run
  pc,        \* [Engine -> ...]: where the invocation is
  leg,       \* [Engine -> index in Legs]
  last,      \* [Engine -> <<kind, leg>>]: the last event emitted
  cancelled, \* [Engine -> BOOLEAN]: ctx is done
  started,   \* [Engine -> BOOLEAN]: p.vmStarted
  prober,    \* [Engine -> ...]: the liveness goroutine of RunTests
  code,      \* [Engine -> ...]: how the test command ended
  file,      \* [Engine -> ...]: the results file, under the shared directory
  result,    \* [Engine -> ...]: what RunAll will return
  \* history
  fault      \* SUBSET Engine: VMs out of the reaper's sight by a failure

benchVars == <<vm, state, order, fault>>
testVars == <<prober, code, file>>
runVars == <<pc, leg, last, cancelled, started, testVars, result>>

-----------------------------------------------------------------------------
Registered(c) == vm[c] \in {"stopped", "running"}
Goto(e, place) == pc' = [pc EXCEPT ![e] = place]
Emit(e, kind) == last' = [last EXCEPT ![e] = <<kind, Legs[leg[e]]>>]
Working(e, l) == pc[e] = "work" /\ Legs[leg[e]] = l

(* runLeg's ways out: RunAll goes on to the next leg, finalizes after the   *)
(* last one, or returns the error.                                          *)
LegOver(e, kind) ==
  /\ Emit(e, kind)
  /\ IF leg[e] < Len(Legs) THEN leg' = [leg EXCEPT ![e] = @ + 1] /\ Goto(e, "begin")
                           ELSE Goto(e, "unwinding") /\ UNCHANGED leg
LegFails(e) ==
  /\ Emit(e, "failure")
  /\ Goto(e, "unwinding")
  /\ result' = [result EXCEPT ![e] = "error"]
  /\ UNCHANGED leg

(* runLeg emits the start, ... *)
BeginLeg(e) ==
  /\ pc[e] = "begin"
  /\ Emit(e, "start")
  /\ Goto(e, "check")
  /\ UNCHANGED <<benchVars, leg, cancelled, started, testVars, result>>

(* ... and looks at the context. *)
CheckContext(e) ==
  /\ pc[e] = "check"
  /\ IF cancelled[e] THEN LegFails(e) ELSE Goto(e, "work") /\ UNCHANGED <<leg, last, result>>
  /\ UNCHANGED <<benchVars, cancelled, started, testVars>>

(* copyToBench: scp of the worktree to the directory the VM will share. *)
CopyWorktree(e) ==
  /\ Working(e, "copy_worktree") /\ ~cancelled[e]
  /\ LegOver(e, "success")
  /\ UNCHANGED <<benchVars, cancelled, started, testVars, result>>

(* A command in the guest answers well, so that there is a guest.  What     *)
(* npm ci and the build have printed is emitted before their leg's end and  *)
(* left out here; Output has the one of the tests.                          *)
GuestCommand(e) ==
  /\ pc[e] = "work" /\ ~cancelled[e]
  /\ Legs[leg[e]] \in {"check_image_version", "npm_ci", "build"}
  /\ vm[e] = "running"
  /\ LegOver(e, "success")
  /\ UNCHANGED <<benchVars, cancelled, started, testVars, result>>

(* hasBuildScript: exit code 1 means "no build script", whoever sends it,   *)
(* the probe in the guest or `tart ip` that has found no guest.             *)
SkipBuild(e) ==
  /\ Working(e, "build") /\ ~cancelled[e]
  /\ LegOver(e, "skipped")
  /\ UNCHANGED <<benchVars, cancelled, started, testVars, result>>

(* The command of a leg answers with an error or its transport breaks; a    *)
(* done context kills its client, and the answer does not count any more.   *)
CommandFails(e) ==
  /\ pc[e] = "work" /\ Legs[leg[e]] \notin {"run_tests", "parse"}
  /\ LegFails(e)
  /\ UNCHANGED <<benchVars, cancelled, started, testVars>>

-----------------------------------------------------------------------------
(* StartContainer orders the clone, ... *)
SendClone(e) ==
  /\ Working(e, "start_container")
  /\ order' = [order EXCEPT ![e] = "clone"]
  /\ Goto(e, "cloning")
  /\ UNCHANGED <<vm, state, fault, leg, last, cancelled, started, testVars, result>>

(* ... which the bench carries out, ... *)
ServeClone(e) ==
  /\ order[e] = "clone"
  /\ vm' = [vm EXCEPT ![e] = "stopped"]
  /\ order' = [order EXCEPT ![e] = None]
  /\ UNCHANGED <<state, fault, runVars>>

(* ... or not: it has an error, or the order does not get through. *)
DropOrder(e) ==
  /\ order[e] # None
  /\ order' = [order EXCEPT ![e] = None]
  /\ UNCHANGED <<vm, state, fault, runVars>>

(* The run hears of its clone; Cleanup has something to do from here. *)
CloneAnswered(e) ==
  /\ pc[e] = "cloning" /\ ~cancelled[e]
  /\ vm[e] # None
  /\ started' = [started EXCEPT ![e] = TRUE]
  /\ Goto(e, "write_state")
  /\ UNCHANGED <<benchVars, leg, last, cancelled, testVars, result>>

(* It hears of an error: its own client's death, or the bench's word.       *)
(* The clone may be there, or come.                                         *)
CloneFails(e) ==
  /\ pc[e] = "cloning"
  /\ LegFails(e)
  /\ fault' = fault \cup {e}
  /\ UNCHANGED <<vm, state, order, cancelled, started, testVars>>

(* writeReaperState: the side-channel of the reaper. *)
WriteState(e) ==
  /\ pc[e] = "write_state" /\ ~cancelled[e]
  /\ state' = [state EXCEPT ![e] = TRUE]
  /\ Goto(e, "set_memory")
  /\ UNCHANGED <<vm, order, fault, leg, last, cancelled, started, testVars, result>>

SetMemory(e) ==
  /\ pc[e] = "set_memory" /\ ~cancelled[e]
  /\ Registered(e)
  /\ Goto(e, "boot")
  /\ UNCHANGED <<benchVars, leg, last, cancelled, started, testVars, result>>

(* bootDetached: the remote shell has accepted `tart run ... & disown`. *)
Boot(e) ==
  /\ pc[e] = "boot" /\ ~cancelled[e]
  /\ order' = [order EXCEPT ![e] = "boot"]
  /\ Goto(e, "wait_ip")
  /\ UNCHANGED <<vm, state, fault, leg, last, cancelled, started, testVars, result>>

ServeBoot(e) ==
  /\ order[e] = "boot" /\ vm[e] = "stopped"
  /\ vm' = [vm EXCEPT ![e] = "running"]
  /\ order' = [order EXCEPT ![e] = None]
  /\ UNCHANGED <<state, fault, runVars>>

(* `tart ip --wait` prints an address. *)
WaitIP(e) ==
  /\ pc[e] = "wait_ip" /\ ~cancelled[e]
  /\ vm[e] = "running"
  /\ LegOver(e, "success")
  /\ UNCHANGED <<benchVars, cancelled, started, testVars, result>>

(* A later sub-step fails at the client, whether or not the bench has       *)
(* carried it out.                                                          *)
SubStepFails(e) ==
  /\ pc[e] \in {"write_state", "set_memory", "boot", "wait_ip"}
  /\ state' \in {state, [state EXCEPT ![e] = @ \/ pc[e] = "write_state"]}
  /\ order' \in {order, [order EXCEPT ![e] = IF pc[e] = "boot" THEN "boot" ELSE @]}
  /\ fault' = fault \cup (IF pc[e] = "write_state" /\ ~state'[e] THEN {e} ELSE {})
  /\ LegFails(e)
  /\ UNCHANGED <<vm, cancelled, started, testVars>>

-----------------------------------------------------------------------------
(* RunTests starts the liveness goroutine, then the test command. *)
StartTests(e) ==
  /\ Working(e, "run_tests")
  /\ prober' = [prober EXCEPT ![e] = "waiting"]
  /\ Goto(e, "testing")
  /\ UNCHANGED <<benchVars, leg, last, cancelled, started, code, file, result>>

(* The command ends by itself with 0 or 1.  Without a guest it has run no   *)
(* test, but `tart ip` may end with 1 like a failed test.                   *)
TestsExit(e) ==
  /\ pc[e] = "testing" /\ ~cancelled[e]
  /\ \/ vm[e] = "running" /\ file' = [file EXCEPT ![e] = "written"]
     \/ vm[e] # "running" /\ UNCHANGED file
  /\ code' = [code EXCEPT ![e] = "zero_or_one"]
  /\ Goto(e, "output")
  /\ UNCHANGED <<benchVars, leg, last, cancelled, started, prober, result>>

(* It ends with another code, its client is killed by the context or loses  *)
(* the bench or the guest.                                                  *)
TestsFail(e) ==
  /\ pc[e] = "testing"
  /\ code' = [code EXCEPT ![e] = "other"]
  /\ Goto(e, "output")
  /\ UNCHANGED <<benchVars, leg, last, cancelled, started, prober, file, result>>

(* execAndCapture emits what the command has printed, all at once; the      *)
(* liveness goroutine is told to stop after that.                           *)
Output(e) ==
  /\ pc[e] = "output"
  /\ Emit(e, "output") \/ UNCHANGED last
  /\ Goto(e, "joining")
  /\ UNCHANGED <<benchVars, leg, cancelled, started, testVars, result>>

(* A tick, unless stop is closed. *)
ProbeBegins(e) ==
  /\ prober[e] = "waiting" /\ pc[e] \in {"testing", "output"}
  /\ prober' = [prober EXCEPT ![e] = "probing"]
  /\ UNCHANGED <<benchVars, pc, leg, last, cancelled, started, code, file, result>>

(* Variant with an error: the probe's command does without the context. *)
ProbeAnswersDetached(e) ==
  /\ prober[e] = "probing" /\ ~cancelled[e]
  /\ prober' = [prober EXCEPT ![e] = "emitting"]
  /\ UNCHANGED <<benchVars, pc, leg, last, cancelled, started, code, file, result>>

(* tartreaper.Probe answers, with an error too: running, registered, gone,  *)
(* or nothing known are four texts of one event.                            *)
ProbeAnswers(e) ==
  /\ prober[e] = "probing"
  /\ prober' = [prober EXCEPT ![e] = "emitting"]
  /\ UNCHANGED <<benchVars, pc, leg, last, cancelled, started, code, file, result>>

ProbeEmits(e) ==
  /\ prober[e] = "emitting"
  /\ last' = [last EXCEPT ![e] = <<"liveness", "run_tests">>]
  /\ prober' = [prober EXCEPT ![e] = "waiting"]
  /\ UNCHANGED <<benchVars, pc, leg, cancelled, started, code, file, result>>

ProberStops(e) ==
  /\ prober[e] = "waiting" /\ pc[e] = "joining"
  /\ prober' = [prober EXCEPT ![e] = "ended"]
  /\ UNCHANGED <<benchVars, pc, leg, last, cancelled, started, code, file, result>>

(* Variant with an error: stop is closed, but nobody waits. *)
JoinUnwaited(e) ==
  /\ pc[e] = "joining"
  /\ IF code[e] = "zero_or_one" THEN LegOver(e, "success") /\ UNCHANGED result ELSE LegFails(e)
  /\ UNCHANGED <<benchVars, cancelled, started, testVars>>

(* wg.Wait(); exit code 1 is not a leg error. *)
Join(e) ==
  /\ pc[e] = "joining" /\ prober[e] = "ended"
  /\ IF code[e] = "zero_or_one" THEN LegOver(e, "success") /\ UNCHANGED result ELSE LegFails(e)
  /\ UNCHANGED <<benchVars, cancelled, started, testVars>>

(* scp of the results file, from the bench: the VM need not be there.  What *)
(* the reporter has written matters from here.                              *)
Drain(e) ==
  /\ Working(e, "drain") /\ ~cancelled[e]
  /\ file[e] = "written"
  /\ file' \in {[file EXCEPT ![e] = f] : f \in {"empty", "passes", "fails", "bad"}}
  /\ LegOver(e, "success")
  /\ UNCHANGED <<benchVars, cancelled, started, prober, code, result>>

(* parseJSONL: a bad line or no test event at all is an error of the leg,   *)
(* as is a copy that cannot be read.                                        *)
Parse(e) ==
  /\ Working(e, "parse")
  /\ \/ LegFails(e)
     \/ /\ file[e] \in {"passes", "fails"}
        /\ result' = [result EXCEPT ![e] = IF file[e] = "fails" THEN "failed" ELSE "passed"]
        /\ LegOver(e, "success")
  /\ UNCHANGED <<benchVars, cancelled, started, testVars>>

-----------------------------------------------------------------------------
(* Variant with an error: the state file goes first. *)
UnwindStateFirst(e) ==
  /\ pc[e] = "unwinding"
  /\ Goto(e, IF started[e] THEN "cleanup_stop" ELSE "closing")
  /\ state' = [state EXCEPT ![e] = FALSE]
  /\ code' = [code EXCEPT ![e] = None] /\ file' = [file EXCEPT ![e] = "missing"]
  /\ UNCHANGED <<vm, order, fault, leg, last, cancelled, started, prober, result>>

(* The deferred Cleanup has something to do once the clone is known.        *)
(* Nobody asks for the tests' end any more.                                 *)
Unwind(e) ==
  /\ pc[e] = "unwinding"
  /\ Goto(e, IF started[e] THEN "cleanup_stop" ELSE "closing")
  /\ code' = [code EXCEPT ![e] = None] /\ file' = [file EXCEPT ![e] = "missing"]
  /\ UNCHANGED <<benchVars, leg, last, cancelled, started, prober, result>>

(* tart stop.  The commands of Cleanup have context.Background(), so that a *)
(* cancellation does not reach them, and no deadline: a bench that does not *)
(* answer keeps RunAll here.  Its error is dropped.                         *)
CleanupStop(e) ==
  /\ pc[e] = "cleanup_stop"
  /\ vm' \in {vm, [vm EXCEPT ![e] = IF @ = "running" THEN "stopped" ELSE @]}
  /\ Goto(e, "cleanup_delete")
  /\ UNCHANGED <<state, order, fault, leg, last, cancelled, started, testVars, result>>

(* tart delete: so is its error, and the VM may stay. *)
CleanupDelete(e) ==
  /\ pc[e] = "cleanup_delete"
  /\ \/ vm' = [vm EXCEPT ![e] = IF @ = "reaped" THEN @ ELSE "deleted"] /\ UNCHANGED fault
     \/ Registered(e) /\ fault' = fault \cup {e} /\ UNCHANGED vm
  /\ Goto(e, "cleanup_state")
  /\ UNCHANGED <<state, order, leg, last, cancelled, started, testVars, result>>

(* rm -f of the state file, or its error. *)
CleanupState(e) ==
  /\ pc[e] = "cleanup_state"
  /\ state' \in {state, [state EXCEPT ![e] = FALSE]}
  /\ Goto(e, "closing")
  /\ UNCHANGED <<vm, order, fault, leg, last, cancelled, started, testVars, result>>

(* The deferred closeEvents, and the return. *)
Close(e) ==
  /\ pc[e] = "closing"
  /\ Goto(e, "returned")
  /\ UNCHANGED <<benchVars, leg, last, cancelled, started, testVars, result>>

-----------------------------------------------------------------------------
(* SIGINT or SIGTERM at the workstation. *)
Cancel(e) ==
  /\ ~cancelled[e]
  /\ cancelled' = [cancelled EXCEPT ![e] = TRUE]
  /\ UNCHANGED <<benchVars, pc, leg, last, started, testVars, result>>

(* The guest shuts down or its `tart run` dies. *)
GuestDies(e) ==
  /\ vm[e] = "running"
  /\ vm' = [vm EXCEPT ![e] = "stopped"]
  /\ UNCHANGED <<state, order, fault, runVars>>

(* RunAll's own steps, ... *)
MainStep(e) ==
  \/ BeginLeg(e) \/ CheckContext(e) \/ SendClone(e) \/ StartTests(e) \/ Output(e) \/ Join(e)
  \/ Parse(e) \/ Unwind(e) \/ Close(e)
CleanupStep(e) == CleanupStop(e) \/ CleanupDelete(e) \/ CleanupState(e)
ProberStep(e) == ProbeEmits(e) \/ ProberStops(e)
(* ... the answers it waits for, ... *)
Answer(e) ==
  \/ CopyWorktree(e) \/ GuestCommand(e) \/ SkipBuild(e) \/ CloneAnswered(e)
  \/ WriteState(e) \/ SetMemory(e) \/ Boot(e) \/ WaitIP(e) \/ TestsExit(e) \/ Drain(e)
Failure(e) == CommandFails(e) \/ CloneFails(e) \/ SubStepFails(e) \/ TestsFail(e)
(* ... and the bench. *)
BenchStep(e) == ServeClone(e) \/ DropOrder(e) \/ ServeBoot(e) \/ GuestDies(e)
=============================================================================
