------------------------------ MODULE TartFleet ------------------------------
(***************************************************************************)
(* One macOS bench and the invocations that come by: runs, each of which   *)
(* sweeps its branch (tartreaper.Sweep) before its own VM exists, and      *)
(* `gsd-test sweep`.  A VM has no label: the sweep knows whose it is and   *)
(* when it is due from a state file next to it, and leaves alone whatever  *)
(* has none.  Invocations die at any point, and any command of a sweep may *)
(* fail at the client after the bench has carried it out.                  *)
(***************************************************************************)
EXTENDS TartPipeline, FiniteSets

CONSTANTS
  Kind,     \* [Engine -> {"run", "sweep"}]
  Branch,   \* [Engine -> slugs]
  Unscoped, \* the empty slug of `sweep --all`
  TTL,      \* runner.DefaultContainerTTL
  Grace,    \* reaper.SafetyNetGrace
  MaxStart  \* bound on the time at which a deadline is minted

ASSUME KindAssumption == Kind \in [Engine -> {"run", "sweep"}]
ASSUME BranchAssumption == DOMAIN Branch = Engine /\ \A e \in Engine : Branch[e] # Unscoped
ASSUME TimeAssumption == TTL \in Nat \ {0} /\ Grace \in Nat /\ MaxStart \in Nat

MaxTime == MaxStart + TTL + Grace

VARIABLES
  now,      \* time, the same on all workstations
  deadline, \* [Engine -> Nat]: the deadline of its VM, in its state file
  at,       \* [Engine -> Nat]: its Sweep's nowMs
  scope,    \* [Engine -> slugs, or Unscoped]: its Sweep's branchSlug
  listed,   \* [Engine -> SUBSET Engine]: what `tart list` has printed
  found,    \* [Engine -> SUBSET Engine]: those with HasState
  todo,     \* [Engine -> SUBSET Engine]: state files to be read, then VMs to be reaped
  hand,     \* [Engine -> SUBSET Engine]: the VM between stop and rm -f, if any
  failed    \* [Engine -> SUBSET Engine]: the VMs in errs

timeVars == <<now, deadline>>
sweepVars == <<at, scope, listed, found, todo, hand, failed>>
outsideVars == <<timeVars, sweepVars>>
\* what a step of a sweep leaves alone in its own invocation
ownVars == <<leg, last, cancelled, started, testVars, result>>
vars == <<benchVars, runVars, outsideVars>>

-----------------------------------------------------------------------------
(* A bench as it is found: some invocations have died before, and a run     *)
(* that has may have left a VM behind, with a state file or without.        *)
Init ==
  /\ pc \in [Engine -> {"idle", "dead"}]
  /\ vm \in [Engine -> {None, "stopped", "running"}]
  /\ state \in [Engine -> BOOLEAN]
  /\ \A e \in Engine : /\ vm[e] # None => pc[e] = "dead" /\ Kind[e] = "run"
                       /\ state[e] => vm[e] # None
  /\ fault = {e \in Engine : Registered(e) /\ ~state[e]}
  /\ order = [e \in Engine |-> None]
  /\ leg = [e \in Engine |-> 1] /\ last = [e \in Engine |-> <<"nothing", None>>]
  /\ cancelled = [e \in Engine |-> FALSE] /\ started = [e \in Engine |-> FALSE]
  /\ prober = [e \in Engine |-> "off"]
  /\ code = [e \in Engine |-> None] /\ file = [e \in Engine |-> "missing"]
  /\ result = [e \in Engine |-> None]
  /\ now = 0 /\ deadline = [e \in Engine |-> IF Registered(e) THEN TTL ELSE 0]
  /\ at = [e \in Engine |-> 0] /\ scope = [e \in Engine |-> Unscoped]
  /\ listed = [e \in Engine |-> {}] /\ found = [e \in Engine |-> {}]
  /\ todo = [e \in Engine |-> {}] /\ hand = [e \in Engine |-> {}]
  /\ failed = [e \in Engine |-> {}]

(* The invocation comes to its sweep.  A run has minted the deadline of its *)
(* VMs before, and sweeps its own branch; `gsd-test sweep` sweeps the one   *)
(* it is in or, with --all, every one.                                      *)
Scopes(e) == {Branch[e]} \cup (IF Kind[e] = "sweep" THEN {Unscoped} ELSE {})
Begin(e) ==
  /\ pc[e] = "idle"
  /\ IF Kind[e] = "run"
       THEN now <= MaxStart /\ deadline' = [deadline EXCEPT ![e] = now + TTL]
       ELSE UNCHANGED deadline
  /\ at' = [at EXCEPT ![e] = now]
  /\ \E branch \in Scopes(e) : scope' = [scope EXCEPT ![e] = branch]
  /\ Goto(e, "listing")
  /\ UNCHANGED <<benchVars, ownVars, now, listed, found, todo, hand, failed>>

(* tart list, with no look at the state files yet. *)
List(e) ==
  /\ pc[e] = "listing"
  /\ listed' = [listed EXCEPT ![e] = {c \in Engine : Registered(c)}]
  /\ todo' = [todo EXCEPT ![e] = {c \in Engine : Registered(c)}]
  /\ Goto(e, "reading")
  /\ UNCHANGED <<benchVars, ownVars, timeVars, at, scope, found, hand, failed>>

ListFails(e) ==
  /\ pc[e] = "listing"
  /\ Goto(e, "unswept")
  /\ UNCHANGED <<benchVars, ownVars, outsideVars>>

(* readState: cat of one state file.  A missing file, a torn one and a      *)
(* command that fails are all the same: HasState is false.                  *)
ReadState(e, c) ==
  /\ pc[e] = "reading" /\ c \in todo[e]
  /\ \/ state[c] /\ found' = [found EXCEPT ![e] = @ \cup {c}]
     \/ UNCHANGED found
  /\ todo' = [todo EXCEPT ![e] = @ \ {c}]
  /\ UNCHANGED <<benchVars, pc, ownVars, timeVars, at, scope, listed, hand, failed>>

Overdue(C, t) == {c \in C : deadline[c] # 0 /\ deadline[c] <= t}
OwnedBy(C, branch) == IF branch = Unscoped THEN C ELSE {c \in C : Branch[c] = branch}
(* Variants with an error: the grace time is given to the sweep instead of  *)
(* the VM; a sweep looks at its own branch alone.                           *)
ReapableGraceless(C, t, branch) == Overdue(OwnedBy(C, branch), t) \cup Overdue(C, t + Grace)
ReapableOwn(C, t, branch) == Overdue(OwnedBy(C, branch), t)
(* The union of the two tiers: overdue in the branch, long overdue in any. *)
Reapable(C, t, branch) == Overdue(OwnedBy(C, branch), t) \cup Overdue(C, t - Grace)

Select(e) ==
  /\ pc[e] = "reading" /\ todo[e] = {}
  /\ todo' = [todo EXCEPT ![e] = Reapable(found[e], at[e], scope[e])]
  /\ Goto(e, "reaping")
  /\ UNCHANGED <<benchVars, ownVars, timeVars, at, scope, listed, found, hand, failed>>

(* stopAndDelete, first half.  Exit code 2, "already gone", is no error;    *)
(* any other error skips the second half.                                   *)
SweepStop(e, c) ==
  /\ pc[e] = "reaping" /\ c \in todo[e]
  /\ todo' = [todo EXCEPT ![e] = @ \ {c}]
  /\ hand' = [hand EXCEPT ![e] = {c}]
  /\ \/ vm' \in {[vm EXCEPT ![c] = IF @ = "running" THEN "stopped" ELSE @]}
        /\ Goto(e, "deleting") /\ UNCHANGED <<failed, fault>>
     \/ vm' \in {vm, [vm EXCEPT ![c] = IF @ = "running" THEN "stopped" ELSE @]}
        /\ Goto(e, "forgetting") /\ failed' = [failed EXCEPT ![e] = @ \cup {c}]
        /\ fault' = fault \cup {c}
  /\ UNCHANGED <<state, order, ownVars, timeVars, at, scope, listed, found>>

(* Variant with an error: the second half is best effort. *)
SweepDeleteSilent(e) ==
  /\ pc[e] = "deleting"
  /\ \E c \in hand[e] :
       /\ vm' \in {vm, [vm EXCEPT ![c] = IF Registered(c) THEN "reaped" ELSE @]}
       /\ fault' = fault \cup {c}
  /\ Goto(e, "forgetting")
  /\ UNCHANGED <<state, order, ownVars, timeVars, at, scope, listed, found, todo, hand, failed>>

(* The second half: the VM is gone, or the error counts and it may stay. *)
SweepDelete(e) ==
  /\ pc[e] = "deleting"
  /\ \E c \in hand[e] :
       LET gone == [vm EXCEPT ![c] = IF Registered(c) THEN "reaped" ELSE @] IN
       \/ vm' = gone /\ UNCHANGED <<failed, fault>>
       \/ /\ vm' \in {vm, gone}
          /\ failed' = [failed EXCEPT ![e] = @ \cup {c}]
          /\ fault' = fault \cup {c}
  /\ Goto(e, "forgetting")
  /\ UNCHANGED <<state, order, ownVars, timeVars, at, scope, listed, found, todo, hand>>

(* rm -f of the state file, whatever has become of the VM; it may fail. *)
SweepForget(e) ==
  /\ pc[e] = "forgetting"
  /\ \E c \in hand[e] : state' \in {state, [state EXCEPT ![c] = FALSE]}
  /\ hand' = [hand EXCEPT ![e] = {}]
  /\ Goto(e, "reaping")
  /\ UNCHANGED <<vm, order, fault, ownVars, timeVars, at, scope, listed, found, todo, failed>>

SweepReturns(e) ==
  /\ pc[e] = "reaping" /\ todo[e] = {}
  /\ Goto(e, "swept")
  /\ UNCHANGED <<benchVars, ownVars, outsideVars>>

(* Sweep's variables end with the call, or with the process. *)
ForgetSweep(e) ==
  /\ at' = [at EXCEPT ![e] = 0] /\ scope' = [scope EXCEPT ![e] = Unscoped]
  /\ listed' = [listed EXCEPT ![e] = {}] /\ found' = [found EXCEPT ![e] = {}]
  /\ todo' = [todo EXCEPT ![e] = {}] /\ hand' = [hand EXCEPT ![e] = {}]
  /\ failed' = [failed EXCEPT ![e] = {}]

(* A sweep's error stops nobody: a run goes on to its first leg, and a      *)
(* `gsd-test sweep` ends, to be called again some time.                     *)
Proceed(e) ==
  /\ pc[e] \in {"swept", "unswept"}
  /\ ForgetSweep(e)
  /\ Goto(e, IF Kind[e] = "sweep" THEN "idle" ELSE "begin")
  /\ UNCHANGED <<benchVars, ownVars, timeVars>>

ForgetRun(e) ==
  /\ leg' = [leg EXCEPT ![e] = 1] /\ result' = [result EXCEPT ![e] = None]
  /\ last' = [last EXCEPT ![e] = <<"nothing", None>>]
  /\ cancelled' = [cancelled EXCEPT ![e] = FALSE] /\ started' = [started EXCEPT ![e] = FALSE]
  /\ prober' = [prober EXCEPT ![e] = "off"]
  /\ code' = [code EXCEPT ![e] = None] /\ file' = [file EXCEPT ![e] = "missing"]

(* The workstation or the process dies; nothing of it is undone.  Until the *)
(* state file is there, nobody will know the VM that is, or will be.        *)
Crash(e) ==
  /\ pc[e] \notin {"idle", "returned", "dead"}
  /\ ForgetSweep(e)
  /\ ForgetRun(e)
  /\ Goto(e, "dead")
  /\ fault' = IF pc[e] \in {"cloning", "write_state"} THEN fault \cup {e} ELSE fault
  /\ UNCHANGED <<vm, state, order, timeVars>>

Tick ==
  /\ now < MaxTime
  /\ now' = now + 1
  /\ UNCHANGED <<benchVars, runVars, deadline, sweepVars>>

-----------------------------------------------------------------------------
SweepStep(e) ==
  \/ List(e) \/ ListFails(e) \/ Select(e)
  \/ \E c \in Engine : ReadState(e, c) \/ SweepStop(e, c)
  \/ SweepDelete(e) \/ SweepForget(e) \/ SweepReturns(e) \/ Proceed(e)
Interrupted(e) == Kind[e] = "run" /\ pc[e] \notin {"idle", "returned", "dead"} /\ Cancel(e)
RunStep(e) ==
  /\ \/ MainStep(e) \/ CleanupStep(e) \/ ProberStep(e) \/ Answer(e) \/ Failure(e)
     \/ BenchStep(e) \/ ProbeBegins(e) \/ ProbeAnswers(e) \/ Interrupted(e)
  /\ UNCHANGED outsideVars

Next ==
  \/ \E e \in Engine : Begin(e) \/ SweepStep(e) \/ RunStep(e) \/ Crash(e)
  \/ Tick

(* An invocation that is up goes on, a done context kills the client of a   *)
(* command, a sweep's included, and time passes.  No command has to answer  *)
(* otherwise, and those of Cleanup not even then, as no context of theirs   *)
(* is ever done; nobody has to come by.                                     *)
Runs == {e \in Engine : Kind[e] = "run"}
Fairness ==
  /\ \A e \in Engine : WF_vars(Proceed(e))
  /\ \A e \in Runs :
       /\ WF_vars(cancelled[e] /\ SweepStep(e))
       /\ WF_vars(MainStep(e) /\ UNCHANGED outsideVars)
       /\ WF_vars(ProberStep(e) /\ UNCHANGED outsideVars)
       /\ WF_vars(cancelled[e] /\ Failure(e) /\ UNCHANGED outsideVars)
       /\ WF_vars(cancelled[e] /\ ProbeAnswers(e) /\ UNCHANGED outsideVars)
  /\ WF_vars(Tick)

Spec == Init /\ [][Next]_vars /\ Fairness

-----------------------------------------------------------------------------
SweepPlace == {"idle", "listing", "reading", "reaping", "deleting", "forgetting", "swept", "unswept"}
LegPlace == {"begin", "check", "work", "cloning", "write_state", "set_memory", "boot",
             "wait_ip", "testing", "output", "joining"}
EndPlace == {"unwinding", "cleanup_stop", "cleanup_delete", "cleanup_state", "closing", "returned"}

BenchTypes ==
  /\ vm \in [Engine -> {None, "stopped", "running", "deleted", "reaped"}]
  /\ state \in [Engine -> BOOLEAN]
  /\ order \in [Engine -> {None, "clone", "boot"}]
  /\ fault \in SUBSET Engine
  /\ \A e \in Engine : state[e] => vm[e] # None
RunTypes ==
  /\ pc \in [Engine -> SweepPlace \cup LegPlace \cup EndPlace \cup {"dead"}]
  /\ leg \in [Engine -> DOMAIN Legs] /\ DOMAIN last = Engine
  /\ started \in [Engine -> BOOLEAN] /\ cancelled \in [Engine -> BOOLEAN]
  /\ prober \in [Engine -> {"off", "waiting", "probing", "emitting", "ended"}]
  /\ code \in [Engine -> {None, "zero_or_one", "other"}]
  /\ file \in [Engine -> {"missing", "written", "empty", "passes", "fails", "bad"}]
  /\ result \in [Engine -> {None, "passed", "failed", "error"}]
  /\ \A e \in Engine : pc[e] \in LegPlace \cup EndPlace => Kind[e] = "run"
SweepTypes ==
  /\ now \in 0..MaxTime
  /\ deadline \in [Engine -> 0..MaxTime] /\ at \in [Engine -> 0..MaxTime]
  /\ DOMAIN scope = Engine
  /\ listed \in [Engine -> SUBSET Engine] /\ found \in [Engine -> SUBSET Engine]
  /\ todo \in [Engine -> SUBSET Engine] /\ hand \in [Engine -> SUBSET Engine]
  /\ failed \in [Engine -> SUBSET Engine]
  /\ \A e \in Engine : /\ found[e] \cup todo[e] \subseteq listed[e]
                       /\ hand[e] \cup failed[e] \subseteq found[e]

(* Types of the variables; what a sweep has in hand is of its list, only a  *)
(* run has legs, and only whoever has had a clone has a state file.         *)
TypeOK == BenchTypes /\ RunTypes /\ SweepTypes

(* Whether VM c was due when sweep e began: in its branch after the         *)
(* deadline, in any branch after the grace time.                            *)
Due(e, c) ==
  \/ deadline[c] <= at[e] /\ scope[e] \in {Branch[c], Unscoped}
  \/ deadline[c] + Grace <= at[e]

(* A sweep that returns has done its work, whoever else swept, booted or    *)
(* cleaned up meanwhile: each VM whose state file it could read and that    *)
(* was due is gone, not just stopped, unless its error is reported.         *)
SweepTellsTruth ==
  \A e \in Engine : pc[e] = "swept" =>
    \A c \in found[e] \ failed[e] : Due(e, c) => ~Registered(c)

(* However old the list, a sweep stops or deletes no VM whose time is not   *)
(* over, within the grace time none of another branch unless the user says  *)
(* --all, and none whose state file was not readable (tartreaper.go: "Sweep *)
(* therefore NEVER touches such a VM automatically").                       *)
ForeignSpared ==
  [][\A e, c \in Engine : hand'[e] = {c} /\ hand[e] # {c} =>
       /\ c \in found[e]
       /\ deadline[c] \in 1..now
       /\ scope[e] \in {Branch[c], Unscoped} \/ deadline[c] + Grace <= now]_vars

(* What remains of the package's invariant: a VM whose run is over and that *)
(* no sweep will ever see got out of sight by a clone or a state file that  *)
(* failed, by a death before the one was answered and the other written, or *)
(* by a stop or delete that failed; a death at any other point, of the run  *)
(* or of a sweep, leaves what the next sweep can see.                       *)
OrphanIsKnown ==
  \A e \in Engine :
    Registered(e) /\ pc[e] \in {"returned", "dead"} /\ e \notin fault => state[e]

(* A Tart run passes, or is failed, only on evidence: the test command      *)
(* ended by itself with 0 or 1, and the results file says so.               *)
TartReportTruth ==
  \A e \in Engine : pc[e] = "unwinding" /\ result[e] \in {"passed", "failed"} =>
    code[e] = "zero_or_one" /\ file[e] = IF result[e] = "passed" THEN "passes" ELSE "fails"

(* The invariant of one invocation and its VM. *)
Inv == TypeOK /\ OrphanIsKnown /\ TartReportTruth

(* "The event sequence/shape a Tart run produces is indistinguishable ...   *)
(* from a Docker run's" but for the order of the legs, and the liveness     *)
(* goroutine emits nothing outside of the tests' leg.                       *)
Shown(event) == IF event[1] \in {"output", "liveness"} THEN <<"inner", event[2]>> ELSE event
Stream(e) == INSTANCE LegStream WITH last <- Shown(last[e]), closed <- pc[e] \in {"returned", "dead"}
ImplementsLegStream ==
  /\ \A e \in Engine : pc[e] = "idle" => Stream(e)!Init
  /\ [][\A e \in Engine :
         [Stream(e)!Next]_<<Shown(last[e]), pc[e] \in {"returned", "dead"}>>]_vars

(* A command of the cleanup hangs, or may yet: a bench that has gone silent *)
(* keeps a cancelled run there.                                             *)
CleanupPends(e) == pc[e] \in {"cleanup_stop", "cleanup_delete", "cleanup_state"}

(* A cancelled run gets out of any point of any leg, the liveness probe     *)
(* that does not answer included, with an error if the cancellation came    *)
(* before the last leg, and returns, unless a command of its cleanup hangs. *)
TartCancelReturns ==
  \A e \in Runs :
    LET out == pc[e] = "returned" \/ CleanupPends(e) IN
    /\ cancelled[e] ~> out \/ pc[e] = "dead"
    /\ cancelled[e] /\ leg[e] < Len(Legs) ~> (out /\ result[e] = "error") \/ pc[e] = "dead"
    /\ []<>~CleanupPends(e) => (cancelled[e] ~> pc[e] \in {"returned", "dead"})

(* "Reap on next contact": if sweeps that began after c's grace time and    *)
(* had no failure with c come to an end again and again, a VM with a state  *)
(* file does not stay for ever.                                             *)
CleanVisit(c) ==
  \E e \in Engine : pc[e] = "swept" /\ deadline[c] + Grace <= at[e]
                    /\ c \notin failed[e] \cup (listed[e] \ found[e])
OrphanIsReaped ==
  \A c \in Runs : []<>CleanVisit(c) => (Registered(c) /\ state[c] ~> ~Registered(c))
=============================================================================
