---------------------------- MODULE DockerReaper ----------------------------
(***************************************************************************)
(* One Bench's Docker daemon and the invocations of gsd-test that come by: *)
(* pipeline runs (runner.Run), run-and-die dispatches (dispatch.Exec) and  *)
(* `gsd-test sweep`.  Each sweeps before anything else (reaper.Sweep), in  *)
(* two tiers and without a lock, so that every sweep works from a list     *)
(* that other sweeps, ends and removals have overtaken.  Any invocation    *)
(* may die, and any docker command may fail at the client after the daemon *)
(* has carried it out.                                                     *)
(***************************************************************************)
EXTENDS Integers, FiniteSets

CONSTANTS
  Engine,   \* the invocations; a container has the name of its invocation
  Kind,     \* [Engine -> {"pipeline", "dispatch", "sweep"}]
  Branch,   \* [Engine -> slugs]: the branch it works on
  Unscoped, \* the empty slug of `sweep --all`
  TTL,      \* DefaultContainerTTL, and the effective deadline of a dispatch
  Grace,    \* SafetyNetGrace
  MaxStart  \* bound on the time at which a deadline is minted

ASSUME KindAssumption == Kind \in [Engine -> {"pipeline", "dispatch", "sweep"}]
ASSUME BranchAssumption == DOMAIN Branch = Engine /\ \A e \in Engine : Branch[e] # Unscoped
ASSUME TimeAssumption == TTL \in Nat \ {0} /\ Grace \in Nat /\ MaxStart \in Nat

MaxTime == MaxStart + TTL + Grace

VARIABLES
  now,    \* time, the same for all workstations
  pc,     \* [Engine -> ...]: where the invocation is
  at,     \* [Engine -> Nat]: its Sweep's nowMs
  scope,  \* [Engine -> slugs, or Unscoped]: its Sweep's branchSlug
  found,  \* [Engine -> SUBSET Engine]: what List has returned
  todo,   \* [Engine -> SUBSET Engine]: what is still to be killed
  asked,  \* [Engine -> SUBSET Engine]: the container whose kill has failed, if any
  failed, \* [Engine -> SUBSET Engine]: the containers in errs
  label,  \* [Engine -> Nat]: sh.gsd-test.deadline of its container
  cont,   \* [Engine -> ...]: its container at the daemon
  wedged  \* dispatches whose in-container watchdog will not end the run

callVars == <<at, scope, found>>
killVars == <<todo, asked, failed>>
sweepVars == <<callVars, killVars>>
vars == <<now, pc, sweepVars, label, cont, wedged>>

-----------------------------------------------------------------------------
Init ==
  /\ now = 0
  /\ pc = [e \in Engine |-> "idle"]
  /\ at = [e \in Engine |-> 0] /\ scope = [e \in Engine |-> Unscoped]
  /\ found = [e \in Engine |-> {}] /\ todo = [e \in Engine |-> {}]
  /\ asked = [e \in Engine |-> {}] /\ failed = [e \in Engine |-> {}]
  /\ label = [e \in Engine |-> 0]
  /\ cont = [e \in Engine |-> "none"]
  /\ wedged = {}

Goto(e, place) == pc' = [pc EXCEPT ![e] = place]

(* The invocation comes to its sweep; a pipeline run has minted the         *)
(* deadline of all its containers before.  Runs sweep their own branch,     *)
(* `gsd-test sweep` the one it is in or, with --all, every one.             *)
Scopes(e) == {Branch[e]} \cup (IF Kind[e] = "sweep" THEN {Unscoped} ELSE {})
Begin(e) ==
  /\ pc[e] = "idle"
  /\ IF Kind[e] = "pipeline"
       THEN now <= MaxStart /\ label' = [label EXCEPT ![e] = now + TTL]
       ELSE UNCHANGED label
  /\ at' = [at EXCEPT ![e] = now]
  /\ \E branch \in Scopes(e) : scope' = [scope EXCEPT ![e] = branch]
  /\ Goto(e, "listing")
  /\ UNCHANGED <<now, found, killVars, cont, wedged>>

(* Variant with an error: the containers of pipelines carry no labels, as   *)
(* before the amendment of ADR-0029.                                        *)
ListedDispatched == {c \in Engine : cont[c] = "running" /\ Kind[c] = "dispatch"}

(* docker ps with a filter on the run-id label: what has never been started *)
(* is not in it.                                                            *)
Listed == {c \in Engine : cont[c] = "running"}

Overdue(C, t) == {c \in C : label[c] <= t}
OwnedBy(C, branch) == IF branch = Unscoped THEN C ELSE {c \in C : Branch[c] = branch}
(* Variant with an error: the first tier forgets the branch. *)
ReapableUnscoped(C, t, branch) == Overdue(C, t)
(* The union of the two tiers: overdue in the branch, long overdue in any. *)
Reapable(C, t, branch) == Overdue(OwnedBy(C, branch), t) \cup Overdue(C, t - Grace)

List(e) ==
  /\ pc[e] = "listing"
  /\ found' = [found EXCEPT ![e] = Listed]
  /\ todo' = [todo EXCEPT ![e] = Reapable(Listed, at[e], scope[e])]
  /\ Goto(e, "killing")
  /\ UNCHANGED <<now, at, scope, asked, failed, label, cont, wedged>>

ListFails(e) ==
  /\ pc[e] = "listing"
  /\ Goto(e, "unswept")
  /\ UNCHANGED <<now, sweepVars, label, cont, wedged>>

(* docker kill succeeds; --rm removes the container. *)
Kill(e, c) ==
  /\ pc[e] = "killing" /\ c \in todo[e]
  /\ cont[c] = "running"
  /\ cont' = [cont EXCEPT ![c] = "killed"]
  /\ todo' = [todo EXCEPT ![e] = @ \ {c}]
  /\ UNCHANGED <<now, pc, callVars, asked, failed, label, wedged>>

(* docker kill answers with an error: the container is not running any      *)
(* more, or the connection has failed, before or after the kill.            *)
KillErrs(e, c) ==
  /\ pc[e] = "killing" /\ c \in todo[e]
  /\ \/ UNCHANGED cont
     \/ cont[c] = "running" /\ cont' = [cont EXCEPT ![c] = "killed"]
  /\ todo' = [todo EXCEPT ![e] = @ \ {c}]
  /\ asked' = [asked EXCEPT ![e] = {c}]
  /\ Goto(e, "checking")
  /\ UNCHANGED <<now, callVars, failed, label, wedged>>

(* Variant with an error: a look that fails counts as "not running". *)
CheckGoneLenient(e) ==
  /\ pc[e] = "checking"
  /\ asked' = [asked EXCEPT ![e] = {}]
  /\ Goto(e, "killing")
  /\ UNCHANGED <<now, callVars, todo, failed, label, cont, wedged>>

(* isRunning, for the container whose kill has failed, answers "no". *)
CheckGone(e) ==
  /\ pc[e] = "checking"
  /\ \A c \in asked[e] : cont[c] # "running"
  /\ asked' = [asked EXCEPT ![e] = {}]
  /\ Goto(e, "killing")
  /\ UNCHANGED <<now, callVars, todo, failed, label, cont, wedged>>

(* It answers "yes", or fails itself: the kill's error counts. *)
CheckRunning(e) ==
  /\ pc[e] = "checking"
  /\ failed' = [failed EXCEPT ![e] = @ \cup asked[e]]
  /\ asked' = [asked EXCEPT ![e] = {}]
  /\ Goto(e, "killing")
  /\ UNCHANGED <<now, callVars, todo, label, cont, wedged>>

SweepReturns(e) ==
  /\ pc[e] = "killing" /\ todo[e] = {}
  /\ Goto(e, "swept")
  /\ UNCHANGED <<now, sweepVars, label, cont, wedged>>

(* Sweep's variables end with the call, or with the process. *)
ForgetSweep(e) ==
  /\ at' = [at EXCEPT ![e] = 0] /\ scope' = [scope EXCEPT ![e] = Unscoped]
  /\ found' = [found EXCEPT ![e] = {}] /\ todo' = [todo EXCEPT ![e] = {}]
  /\ asked' = [asked EXCEPT ![e] = {}] /\ failed' = [failed EXCEPT ![e] = {}]

(* Variant with an error: `gsd-test sweep` goes on to a run. *)
ProceedAll(e) ==
  /\ pc[e] \in {"swept", "unswept"}
  /\ ForgetSweep(e)
  /\ Goto(e, "ready")
  /\ UNCHANGED <<now, label, cont, wedged>>

(* A sweep's error stops nobody: a run goes on to its container, and a      *)
(* `gsd-test sweep` ends, to be called again some time.                     *)
Proceed(e) ==
  /\ pc[e] \in {"swept", "unswept"}
  /\ ForgetSweep(e)
  /\ Goto(e, IF Kind[e] = "sweep" THEN "idle" ELSE "ready")
  /\ UNCHANGED <<now, label, cont, wedged>>

-----------------------------------------------------------------------------
(* docker run -d of the pipeline's idle container, after any time of        *)
(* waiting for the bench.  The client may not hear of it.                   *)
RunIdle(e) ==
  /\ pc[e] = "ready" /\ Kind[e] = "pipeline"
  /\ cont' = [cont EXCEPT ![e] = "running"]
  /\ \E next \in {"legs", "done"} : Goto(e, next)
  /\ UNCHANGED <<now, sweepVars, label, wedged>>

(* RunAll ends, with or without success, and its deferred docker rm -f,     *)
(* whose error is dropped, removes the container or does not get through.   *)
LegsEnd(e) ==
  /\ pc[e] = "legs"
  /\ \/ UNCHANGED cont
     \/ cont[e] = "running" /\ cont' = [cont EXCEPT ![e] = "removed"]
  /\ Goto(e, "done")
  /\ UNCHANGED <<now, sweepVars, label, wedged>>

(* docker create of the dispatch, whose deadline is minted here. *)
Create(e) ==
  /\ pc[e] = "ready" /\ Kind[e] = "dispatch"
  /\ now <= MaxStart
  /\ label' = [label EXCEPT ![e] = now + TTL]
  /\ cont' = [cont EXCEPT ![e] = "created"]
  /\ \E next \in {"created", "done"} : Goto(e, next)
  /\ UNCHANGED <<now, sweepVars, wedged>>

(* docker cp of the worktree. *)
Copy(e) ==
  /\ pc[e] = "created"
  /\ Goto(e, "copied")
  /\ UNCHANGED <<now, sweepVars, label, cont, wedged>>

(* docker start -a: the watchdog is on its own from here. *)
Start(e) ==
  /\ pc[e] = "copied"
  /\ cont' = [cont EXCEPT ![e] = "running"]
  /\ wedged' \in {wedged, wedged \cup {e}}
  /\ Goto(e, "attached")
  /\ UNCHANGED <<now, sweepVars, label>>

(* docker start -a returns when the container is gone: with the watchdog's  *)
(* envelope, or without output, which is inconclusive.                      *)
StartReturns(e) ==
  /\ pc[e] = "attached" /\ cont[e] # "running"
  /\ Goto(e, "done")
  /\ UNCHANGED <<now, sweepVars, label, cont, wedged>>

(* A docker command fails without effect at the daemon, or the user         *)
(* interrupts it: Exec and StartContainer return and remove nothing.        *)
GiveUp(e) ==
  /\ pc[e] \in {"ready", "created", "copied", "attached"}
  /\ Goto(e, "done")
  /\ UNCHANGED <<now, sweepVars, label, cont, wedged>>

(* The watchdog ends the run of a dispatch, and with it the container. *)
ContainerEnds(e) ==
  /\ Kind[e] = "dispatch" /\ cont[e] = "running" /\ e \notin wedged
  /\ cont' = [cont EXCEPT ![e] = "ended"]
  /\ UNCHANGED <<now, pc, sweepVars, label, wedged>>

(* The workstation or the process dies; nothing of it is undone. *)
Crash(e) ==
  /\ pc[e] \notin {"idle", "done", "dead"}
  /\ ForgetSweep(e)
  /\ Goto(e, "dead")
  /\ UNCHANGED <<now, label, cont, wedged>>

Tick ==
  /\ now < MaxTime
  /\ now' = now + 1
  /\ UNCHANGED <<pc, sweepVars, label, cont, wedged>>

-----------------------------------------------------------------------------
SweepStep(e) ==
  \/ List(e) \/ ListFails(e)
  \/ \E c \in Engine : Kill(e, c) \/ KillErrs(e, c)
  \/ CheckGone(e) \/ CheckRunning(e) \/ SweepReturns(e) \/ Proceed(e)
RunStep(e) ==
  RunIdle(e) \/ Create(e) \/ Copy(e) \/ Start(e) \/ StartReturns(e)

Next ==
  \/ \E e \in Engine :
       \/ Begin(e) \/ SweepStep(e) \/ RunStep(e)
       \/ LegsEnd(e) \/ GiveUp(e) \/ ContainerEnds(e) \/ Crash(e)
  \/ Tick

(* An invocation whose sweep has returned goes on.  No command has to       *)
(* answer, and nobody has to come by, to end or to interrupt.               *)
Fairness == \A e \in Engine : WF_vars(Proceed(e))

Spec == Init /\ [][Next]_vars /\ Fairness

-----------------------------------------------------------------------------
Scope == {Branch[e] : e \in Engine} \cup {Unscoped}
SweepPlace == {"idle", "listing", "killing", "checking", "swept", "unswept"}
Place == SweepPlace \cup {"ready", "legs", "created", "copied", "attached", "done", "dead"}

(* Types of the variables; what a sweep still has to do is of its list, and *)
(* `gsd-test sweep` has no container.                                       *)
TypeOK ==
  /\ now \in 0..MaxTime
  /\ pc \in [Engine -> Place]
  /\ at \in [Engine -> 0..MaxTime] /\ scope \in [Engine -> Scope]
  /\ {found, todo, asked, failed} \subseteq [Engine -> SUBSET Engine]
  /\ label \in [Engine -> 0..MaxTime]
  /\ cont \in [Engine -> {"none", "created", "running", "ended", "killed", "removed"}]
  /\ wedged \in SUBSET Engine
  /\ \A e \in Engine :
       /\ todo[e] \cup asked[e] \cup failed[e] \subseteq found[e]
       /\ Kind[e] = "sweep" => cont[e] = "none" /\ pc[e] \in SweepPlace \cup {"dead"}

(* Whether container c was due when sweep e began: in its branch after the  *)
(* deadline, in any branch after the grace time (sweep.go: "the union of    *)
(* two tiers").                                                             *)
Due(e, c) ==
  \/ label[c] <= at[e] /\ scope[e] \in {Branch[c], Unscoped}
  \/ label[c] + Grace <= at[e]

(* A sweep that returns has done its work, whoever else swept, removed or   *)
(* ended containers meanwhile: each one that it saw and that was due runs   *)
(* no longer, unless its error is reported.                                 *)
SweepTellsTruth ==
  \A e \in Engine : pc[e] = "swept" =>
    \A c \in found[e] \ failed[e] : Due(e, c) => cont[c] # "running"

(* However old the list, a kill hits nobody whose label's time is not over, *)
(* within the grace time nobody of another branch, unless the user says     *)
(* --all, and never the sweeper's own container.                            *)
ForeignSpared ==
  [][\A c \in Engine : cont[c] = "running" /\ cont'[c] = "killed" =>
       /\ label[c] <= now
       /\ \E e \in Engine \ {c} :
            /\ pc[e] = "killing"
            /\ scope[e] \in {Branch[c], Unscoped} \/ label[c] + Grace <= now]_vars

(* "Guaranteed eventual cleanup ... from any invocation that touches the    *)
(* Bench": if sweeps that began after c's grace time and could kill c       *)
(* return again and again, of whatever branch, c does not run for ever.     *)
CleanVisit(c) ==
  \E e \in Engine : pc[e] = "swept" /\ label[c] + Grace <= at[e] /\ c \notin failed[e]
LeakIsReaped ==
  \A c \in Engine : []<>CleanVisit(c) => (cont[c] = "running" ~> cont[c] # "running")
=============================================================================
