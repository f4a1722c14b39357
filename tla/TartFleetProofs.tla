-------------------------- MODULE TartFleetProofs --------------------------
(***************************************************************************)
(* Concurrent sweeps of one Mac and the runs on it are safe without a      *)
(* lock, for any number of invocations, branches and times.  Unlike a      *)
(* container a VM appears late, as an order that is carried out when its   *)
(* run has given up perhaps; but each run orders one clone, so that a VM   *)
(* that is gone stays gone, and a deadline, once a VM has it, is fixed.    *)
(***************************************************************************)
EXTENDS TartFleet, TLAPS

SubSteps == {"cloning", "write_state", "set_memory", "boot", "wait_ip"}
Testing == {"testing", "output", "joining"}
Sweeping == {"reading", "reaping", "deleting", "forgetting", "swept"}
Reaping == Sweeping \ {"reading"}

(* Before its clone is ordered, an invocation has nothing on the bench. *)
Before(e) ==
  \/ pc[e] \in SweepPlace
  \/ pc[e] # "dead" /\ leg[e] = 1
  \/ pc[e] \in {"begin", "check", "work"} /\ leg[e] = 2

(* Where a run is and what it has on the bench: one clone at most, and a    *)
(* deadline from before there is any.                                       *)
Life(e) ==
  /\ Before(e) => vm[e] = None /\ order[e] = None
  /\ order[e] = "clone" => vm[e] = None
  /\ started[e] \/ pc[e] \in {"write_state", "cleanup_stop", "cleanup_delete", "cleanup_state"}
       => vm[e] # None
  /\ pc[e] \in SubSteps => leg[e] = 2
  /\ pc[e] \in Testing => leg[e] = 6
  /\ vm[e] # None \/ order[e] # None \/ (Kind[e] = "run" /\ pc[e] \notin {"idle", "dead"})
       => deadline[e] # 0
LifeInv == \A e \in Engine : Life(e)

(* What a sweep knows: only VMs that have been there, and of those that it  *)
(* has begun to reap, that they were due; each of them is still to come, in *)
(* hand, in the error or gone.                                              *)
Knows(e) ==
  /\ at[e] <= now
  /\ pc[e] \notin Sweeping => listed[e] = {} /\ hand[e] = {}
  /\ \A c \in listed[e] : vm[c] # None
  /\ pc[e] = "reading" => hand[e] = {} /\ failed[e] = {}
  /\ pc[e] \in Reaping => todo[e] \subseteq found[e] /\ \A c \in todo[e] : Due(e, c)
  /\ pc[e] \in {"reaping", "swept"} => hand[e] = {}
  /\ pc[e] = "swept" => todo[e] = {}
  /\ pc[e] \in {"deleting", "forgetting"} => \E c \in Engine : hand[e] = {c}
  /\ pc[e] \in Reaping =>
       \A c \in found[e] \ (todo[e] \cup failed[e]) :
         Due(e, c) /\ Registered(c) => pc[e] = "deleting" /\ c \in hand[e]
SweepInv == \A e \in Engine : Knows(e)

(* A VM without a state file is new, or known to be out of sight; only a    *)
(* VM that is gone or known loses its state file.                           *)
Tracked(e) ==
  /\ Registered(e) \/ order[e] = "clone" =>
       state[e] \/ e \in fault \/ pc[e] \in {"cloning", "write_state"}
  /\ pc[e] = "cleanup_state" /\ Registered(e) => e \in fault
Settled(e) ==
  pc[e] = "forgetting" => \A c \in hand[e] : Registered(c) => c \in fault
OrphanInv == \A e \in Engine : Tracked(e) /\ Settled(e)

(* There is no result before the last leg, and no last leg without the      *)
(* tests' end.                                                              *)
Told(e) ==
  /\ pc[e] \in SweepPlace => leg[e] = 1
  /\ pc[e] \in SweepPlace \cup LegPlace \cup {"dead"} => result[e] = None
  /\ pc[e] \in {"begin", "check", "work"} /\ leg[e] > 6 => code[e] = "zero_or_one"
  /\ pc[e] = "unwinding" /\ result[e] \in {"passed", "failed"} =>
       code[e] = "zero_or_one" /\ file[e] = IF result[e] = "passed" THEN "passes" ELSE "fails"
ReportInv == \A e \in Engine : Told(e)

(* Where a run is and what it has shown last; the liveness goroutine has an *)
(* end before the tests' leg has one.                                       *)
Over == {"returned", "dead"}
Streamed(e) ==
  /\ pc[e] \in SweepPlace => last[e] = <<"nothing", None>>
  /\ pc[e] = "begin" /\ leg[e] = 1 => last[e] = <<"nothing", None>>
  /\ pc[e] = "begin" /\ leg[e] > 1 =>
       \E kind \in {"success", "skipped"} : last[e] = <<kind, Legs[leg[e] - 1]>>
  /\ pc[e] \in LegPlace \ {"begin"} =>
       \E kind \in {"start", "output", "liveness"} : last[e] = <<kind, Legs[leg[e]]>>
  /\ pc[e] \in EndPlace =>
       \E kind \in {"success", "skipped", "failure"} : last[e] = <<kind, Legs[leg[e]]>>
  /\ prober[e] \notin {"off", "ended"} => pc[e] \in Testing
StreamInv == \A e \in Engine : Streamed(e)

IInv == TypeOK /\ LifeInv /\ SweepInv /\ OrphanInv /\ ReportInv /\ StreamInv

-----------------------------------------------------------------------------
(* The bound on time leaves room for every deadline. *)
LEMMA MaxTimeNat ==
  /\ MaxTime \in Nat
  /\ \A t \in 0..MaxTime : t <= MaxStart => t + TTL \in 1..MaxTime
  BY TimeAssumption DEF MaxTime

(* The eight legs, in RunAll's order. *)
LEMMA LegsAre ==
  /\ Len(Legs) = 8 /\ DOMAIN Legs = 1..8
  /\ Legs[1] = "copy_worktree" /\ Legs[2] = "start_container"
  /\ Legs[3] = "check_image_version" /\ Legs[4] = "npm_ci" /\ Legs[5] = "build"
  /\ Legs[6] = "run_tests" /\ Legs[7] = "drain" /\ Legs[8] = "parse"
  BY DEF Legs

(* A run begins with a leg. *)
LEMMA FirstLeg == 1 \in DOMAIN Legs
  BY LegsAre

(* LegOver goes on to the next leg, or ends after the last one. *)
LEMMA LegOverMoves ==
  ASSUME RunTypes, NEW e \in Engine, NEW kind, LegOver(e, kind)
  PROVE  /\ leg' \in [Engine -> DOMAIN Legs]
         /\ \/ leg[e] < 8 /\ leg' = [leg EXCEPT ![e] = leg[e] + 1] /\ pc' = [pc EXCEPT ![e] = "begin"]
            \/ leg[e] = 8 /\ leg' = leg /\ pc' = [pc EXCEPT ![e] = "unwinding"]
<1>1. leg \in [Engine -> 1..8] /\ leg[e] \in 1..8
  BY LegsAre DEF RunTypes
<1>2. CASE leg[e] < 8
  <2>1. leg' = [leg EXCEPT ![e] = leg[e] + 1] /\ pc' = [pc EXCEPT ![e] = "begin"]
    BY <1>1, <1>2, LegsAre DEF LegOver, Goto
  <2>2. leg' \in [Engine -> 1..8]
    BY <1>1, <1>2, <2>1
  <2> QED
    BY <1>2, <2>1, <2>2, LegsAre
<1>3. CASE leg[e] = 8
  BY <1>1, <1>3, LegsAre DEF LegOver, Goto
<1> QED
  BY <1>1, <1>2, <1>3

(* The end of a leg keeps the types. *)
LEMMA LegOverTypes ==
  ASSUME RunTypes, NEW e \in Engine, NEW kind, LegOver(e, kind), pc[e] \in LegPlace,
         UNCHANGED <<started, cancelled, prober, code>>,
         file' \in [Engine -> {"missing", "written", "empty", "passes", "fails", "bad"}],
         result' \in [Engine -> {None, "passed", "failed", "error"}]
  PROVE  RunTypes'
<1>1. /\ leg' \in [Engine -> DOMAIN Legs]
      /\ pc' = [pc EXCEPT ![e] = "begin"] \/ pc' = [pc EXCEPT ![e] = "unwinding"]
  BY LegOverMoves
<1>2. Kind[e] = "run" /\ pc \in [Engine -> SweepPlace \cup LegPlace \cup EndPlace \cup {"dead"}]
  BY DEF RunTypes
<1>3. pc' \in [Engine -> SweepPlace \cup LegPlace \cup EndPlace \cup {"dead"}]
  BY <1>1, <1>2 DEF LegPlace, EndPlace
<1>4. \A x \in Engine : pc'[x] \in LegPlace \cup EndPlace => Kind[x] = "run"
  BY <1>1, <1>2 DEF RunTypes
<1> QED
  BY <1>1, <1>3, <1>4 DEF RunTypes, LegOver, Emit

(* So does its failure. *)
LEMMA LegFailsTypes ==
  ASSUME RunTypes, NEW e \in Engine, LegFails(e), pc[e] \in LegPlace,
         UNCHANGED <<started, cancelled, testVars>>
  PROVE  RunTypes'
<1>1. Kind[e] = "run" /\ pc' = [pc EXCEPT ![e] = "unwinding"] /\ UNCHANGED leg
  BY DEF RunTypes, LegFails, Goto
<1>2. result' \in [Engine -> {None, "passed", "failed", "error"}] /\ DOMAIN last' = Engine
  BY DEF RunTypes, LegFails, Emit
<1> QED
  BY <1>1, <1>2 DEF RunTypes, LegPlace, EndPlace, testVars

(* A run's step keeps the types of the bench, ... *)
LEMMA BenchTypesKeptByRun ==
  ASSUME BenchTypes, NEW e \in Engine, RunStep(e), pc[e] = "write_state" => vm[e] # None
  PROVE  BenchTypes'
<1> USE DEF BenchTypes, benchVars, LegFails, None, Registered
<1>1. ASSUME BeginLeg(e) PROVE BenchTypes'
  BY <1>1 DEF BeginLeg
<1>2. ASSUME CheckContext(e) PROVE BenchTypes'
  BY <1>2 DEF CheckContext
<1>3. ASSUME SendClone(e) PROVE BenchTypes'
  BY <1>3 DEF SendClone
<1>4. ASSUME StartTests(e) PROVE BenchTypes'
  BY <1>4 DEF StartTests
<1>5. ASSUME Output(e) PROVE BenchTypes'
  BY <1>5 DEF Output
<1>6. ASSUME Join(e) PROVE BenchTypes'
  BY <1>6 DEF Join
<1>7. ASSUME Parse(e) PROVE BenchTypes'
  BY <1>7 DEF Parse
<1>8. ASSUME Unwind(e) PROVE BenchTypes'
  BY <1>8 DEF Unwind
<1>9. ASSUME CleanupStop(e) PROVE BenchTypes'
  BY <1>9 DEF CleanupStop
<1>10. ASSUME CleanupDelete(e) PROVE BenchTypes'
  BY <1>10 DEF CleanupDelete
<1>11. ASSUME CleanupState(e) PROVE BenchTypes'
  BY <1>11 DEF CleanupState
<1>12. ASSUME Close(e) PROVE BenchTypes'
  BY <1>12 DEF Close
<1>13. ASSUME ProbeEmits(e) PROVE BenchTypes'
  BY <1>13 DEF ProbeEmits
<1>14. ASSUME ProberStops(e) PROVE BenchTypes'
  BY <1>14 DEF ProberStops
<1>15. ASSUME CopyWorktree(e) PROVE BenchTypes'
  BY <1>15 DEF CopyWorktree
<1>16. ASSUME GuestCommand(e) PROVE BenchTypes'
  BY <1>16 DEF GuestCommand
<1>17. ASSUME SkipBuild(e) PROVE BenchTypes'
  BY <1>17 DEF SkipBuild
<1>18. ASSUME CloneAnswered(e) PROVE BenchTypes'
  BY <1>18 DEF CloneAnswered
<1>19. ASSUME WriteState(e) PROVE BenchTypes'
  BY <1>19 DEF WriteState
<1>20. ASSUME SetMemory(e) PROVE BenchTypes'
  BY <1>20 DEF SetMemory
<1>21. ASSUME Boot(e) PROVE BenchTypes'
  BY <1>21 DEF Boot
<1>22. ASSUME WaitIP(e) PROVE BenchTypes'
  BY <1>22 DEF WaitIP
<1>23. ASSUME TestsExit(e) PROVE BenchTypes'
  BY <1>23 DEF TestsExit
<1>24. ASSUME Drain(e) PROVE BenchTypes'
  BY <1>24 DEF Drain
<1>25. ASSUME CommandFails(e) PROVE BenchTypes'
  BY <1>25 DEF CommandFails
<1>26. ASSUME CloneFails(e) PROVE BenchTypes'
  BY <1>26 DEF CloneFails
<1>27. ASSUME SubStepFails(e) PROVE BenchTypes'
  BY <1>27 DEF SubStepFails
<1>28. ASSUME TestsFail(e) PROVE BenchTypes'
  BY <1>28 DEF TestsFail
<1>29. ASSUME ServeClone(e) PROVE BenchTypes'
  BY <1>29 DEF ServeClone
<1>30. ASSUME DropOrder(e) PROVE BenchTypes'
  BY <1>30 DEF DropOrder
<1>31. ASSUME ServeBoot(e) PROVE BenchTypes'
  BY <1>31 DEF ServeBoot
<1>32. ASSUME GuestDies(e) PROVE BenchTypes'
  BY <1>32 DEF GuestDies
<1>33. ASSUME ProbeBegins(e) PROVE BenchTypes'
  BY <1>33 DEF ProbeBegins
<1>34. ASSUME ProbeAnswers(e) PROVE BenchTypes'
  BY <1>34 DEF ProbeAnswers
<1>35. ASSUME Interrupted(e) PROVE BenchTypes'
  BY <1>35 DEF Interrupted, Cancel
<1> QED
  BY <1>1, <1>2, <1>3, <1>4, <1>5, <1>6, <1>7, <1>8, <1>9, <1>10, <1>11, <1>12, <1>13, <1>14,
     <1>15, <1>16, <1>17, <1>18, <1>19, <1>20, <1>21, <1>22, <1>23, <1>24, <1>25, <1>26, <1>27,
     <1>28, <1>29, <1>30, <1>31, <1>32, <1>33, <1>34, <1>35 DEF RunStep, MainStep, CleanupStep, ProberStep,
     Answer, Failure, BenchStep

(* ... and those of the run. *)
LEMMA RunTypesKeptByRun ==
  ASSUME RunTypes, NEW e \in Engine, RunStep(e)
  PROVE  RunTypes'
<1> USE DEF RunTypes, Goto, Emit, Working, runVars, LegFails, SweepPlace, LegPlace, EndPlace,
        testVars
<1>1. ASSUME BeginLeg(e) PROVE RunTypes'
  BY <1>1 DEF BeginLeg
<1>2. ASSUME CheckContext(e) PROVE RunTypes'
  <2>1. CASE cancelled[e]
    BY <1>2, <2>1, LegFailsTypes DEF CheckContext
  <2>2. CASE ~cancelled[e]
    BY <1>2, <2>2 DEF CheckContext
  <2> QED
    BY <2>1, <2>2
<1>3. ASSUME SendClone(e) PROVE RunTypes'
  BY <1>3 DEF SendClone
<1>4. ASSUME StartTests(e) PROVE RunTypes'
  BY <1>4 DEF StartTests
<1>5. ASSUME Output(e) PROVE RunTypes'
  BY <1>5 DEF Output
<1>6. ASSUME Join(e) PROVE RunTypes'
  <2>1. pc[e] \in LegPlace /\ UNCHANGED <<started, cancelled, code>>
    BY <1>6 DEF Join
  <2> QED
    BY <1>6, <2>1, LegOverTypes DEF Join
<1>7. ASSUME Parse(e) PROVE RunTypes'
  <2>1. pc[e] \in LegPlace /\ UNCHANGED <<started, cancelled, testVars>>
    BY <1>7 DEF Parse
  <2>2. CASE LegFails(e)
    BY <2>1, <2>2
  <2>3. CASE LegOver(e, "success") /\ \E r \in {"passed", "failed"} : result' = [result EXCEPT ![e] = r]
    <3>1. result' \in [Engine -> {None, "passed", "failed", "error"}]
      BY <2>3
    <3> QED
      BY <2>1, <2>3, <3>1, LegOverTypes
  <2> QED
    BY <1>7, <2>2, <2>3 DEF Parse
<1>8. ASSUME Unwind(e) PROVE RunTypes'
  BY <1>8 DEF Unwind
<1>9. ASSUME CleanupStop(e) PROVE RunTypes'
  BY <1>9 DEF CleanupStop
<1>10. ASSUME CleanupDelete(e) PROVE RunTypes'
  BY <1>10 DEF CleanupDelete
<1>11. ASSUME CleanupState(e) PROVE RunTypes'
  BY <1>11 DEF CleanupState
<1>12. ASSUME Close(e) PROVE RunTypes'
  BY <1>12 DEF Close
<1>13. ASSUME ProbeEmits(e) PROVE RunTypes'
  BY <1>13 DEF ProbeEmits
<1>14. ASSUME ProberStops(e) PROVE RunTypes'
  BY <1>14 DEF ProberStops
<1>15. ASSUME CopyWorktree(e) PROVE RunTypes'
  <2>1. pc[e] \in LegPlace /\ UNCHANGED <<started, cancelled, code>>
    BY <1>15 DEF CopyWorktree
  <2> QED
    BY <1>15, <2>1, LegOverTypes DEF CopyWorktree
<1>16. ASSUME GuestCommand(e) PROVE RunTypes'
  <2>1. pc[e] \in LegPlace /\ UNCHANGED <<started, cancelled, code>>
    BY <1>16 DEF GuestCommand
  <2> QED
    BY <1>16, <2>1, LegOverTypes DEF GuestCommand
<1>17. ASSUME SkipBuild(e) PROVE RunTypes'
  <2>1. pc[e] \in LegPlace /\ UNCHANGED <<started, cancelled, code>>
    BY <1>17 DEF SkipBuild
  <2> QED
    BY <1>17, <2>1, LegOverTypes DEF SkipBuild
<1>18. ASSUME CloneAnswered(e) PROVE RunTypes'
  BY <1>18 DEF CloneAnswered
<1>19. ASSUME WriteState(e) PROVE RunTypes'
  BY <1>19 DEF WriteState
<1>20. ASSUME SetMemory(e) PROVE RunTypes'
  BY <1>20 DEF SetMemory
<1>21. ASSUME Boot(e) PROVE RunTypes'
  BY <1>21 DEF Boot
<1>22. ASSUME WaitIP(e) PROVE RunTypes'
  <2>1. pc[e] \in LegPlace /\ UNCHANGED <<started, cancelled, code>>
    BY <1>22 DEF WaitIP
  <2> QED
    BY <1>22, <2>1, LegOverTypes DEF WaitIP
<1>23. ASSUME TestsExit(e) PROVE RunTypes'
  <2>1. file' = file \/ file' = [file EXCEPT ![e] = "written"]
    BY <1>23 DEF TestsExit
  <2>2. file' \in [Engine -> {"missing", "written", "empty", "passes", "fails", "bad"}]
    BY <2>1
  <2>3. code' \in [Engine -> {None, "zero_or_one", "other"}]
    BY <1>23 DEF TestsExit
  <2>4. UNCHANGED <<leg, last, cancelled, started, prober, result>>
    BY <1>23 DEF TestsExit
  <2>5. pc[e] = "testing" /\ pc' = [pc EXCEPT ![e] = "output"]
    BY <1>23 DEF TestsExit
  <2> QED
    BY <2>2, <2>3, <2>4, <2>5
<1>24. ASSUME Drain(e) PROVE RunTypes'
  <2>1. pc[e] \in LegPlace /\ UNCHANGED <<started, cancelled, code>>
    BY <1>24 DEF Drain
  <2>2. PICK f \in {"empty", "passes", "fails", "bad"} : file' = [file EXCEPT ![e] = f]
    BY <1>24 DEF Drain
  <2>3. file' \in [Engine -> {"missing", "written", "empty", "passes", "fails", "bad"}]
    BY <2>2
  <2> QED
    BY <1>24, <2>1, <2>3, LegOverTypes DEF Drain
<1>25. ASSUME CommandFails(e) PROVE RunTypes'
  BY <1>25 DEF CommandFails
<1>26. ASSUME CloneFails(e) PROVE RunTypes'
  BY <1>26 DEF CloneFails
<1>27. ASSUME SubStepFails(e) PROVE RunTypes'
  BY <1>27 DEF SubStepFails
<1>28. ASSUME TestsFail(e) PROVE RunTypes'
  BY <1>28 DEF TestsFail
<1>29. ASSUME ServeClone(e) PROVE RunTypes'
  BY <1>29 DEF ServeClone
<1>30. ASSUME DropOrder(e) PROVE RunTypes'
  BY <1>30 DEF DropOrder
<1>31. ASSUME ServeBoot(e) PROVE RunTypes'
  BY <1>31 DEF ServeBoot
<1>32. ASSUME GuestDies(e) PROVE RunTypes'
  BY <1>32 DEF GuestDies
<1>33. ASSUME ProbeBegins(e) PROVE RunTypes'
  BY <1>33 DEF ProbeBegins
<1>34. ASSUME ProbeAnswers(e) PROVE RunTypes'
  BY <1>34 DEF ProbeAnswers
<1>35. ASSUME Interrupted(e) PROVE RunTypes'
  BY <1>35 DEF Interrupted, Cancel
<1> QED
  BY <1>1, <1>2, <1>3, <1>4, <1>5, <1>6, <1>7, <1>8, <1>9, <1>10, <1>11, <1>12, <1>13, <1>14,
     <1>15, <1>16, <1>17, <1>18, <1>19, <1>20, <1>21, <1>22, <1>23, <1>24, <1>25, <1>26, <1>27,
     <1>28, <1>29, <1>30, <1>31, <1>32, <1>33, <1>34, <1>35 DEF RunStep, MainStep, CleanupStep, ProberStep,
     Answer, Failure, BenchStep

(* The two tiers of a list are what was due of it when the sweep began. *)
LEMMA ReapableIsDue ==
  ASSUME SweepTypes, NEW e \in Engine, NEW C \in SUBSET Engine, \A c \in C : deadline[c] # 0
  PROVE  Reapable(C, at[e], scope[e]) = {c \in C : Due(e, c)}
<1>1. at[e] \in Int /\ Grace \in Int /\ \A c \in Engine : deadline[c] \in Int
  BY TimeAssumption, MaxTimeNat DEF SweepTypes
<1>2. OwnedBy(C, scope[e]) = {c \in C : scope[e] \in {Branch[c], Unscoped}}
  BY DEF OwnedBy
<1>3. Overdue(OwnedBy(C, scope[e]), at[e])
        = {c \in C : deadline[c] <= at[e] /\ scope[e] \in {Branch[c], Unscoped}}
  BY <1>2 DEF Overdue
<1>4. Overdue(C, at[e] - Grace) = {c \in C : deadline[c] + Grace <= at[e]}
  BY <1>1 DEF Overdue
<1> QED
  BY <1>3, <1>4 DEF Reapable, Due

(* The bench's types are kept by every step. *)
LEMMA BenchTypesKept ==
  ASSUME TypeOK, LifeInv, SweepInv, [Next]_vars
  PROVE  BenchTypes'
<1> USE DEF TypeOK, BenchTypes, SweepTypes, benchVars, Registered, None
<1>1. ASSUME NEW e \in Engine, Begin(e) PROVE BenchTypes'
  BY <1>1 DEF Begin
<1>2. ASSUME NEW e \in Engine, List(e) PROVE BenchTypes'
  BY <1>2 DEF List
<1>3. ASSUME NEW e \in Engine, ListFails(e) PROVE BenchTypes'
  BY <1>3 DEF ListFails
<1>4. ASSUME NEW e \in Engine, NEW c \in Engine, ReadState(e, c) PROVE BenchTypes'
  BY <1>4 DEF ReadState
<1>5. ASSUME NEW e \in Engine, Select(e) PROVE BenchTypes'
  BY <1>5 DEF Select
<1>6. ASSUME NEW e \in Engine, NEW c \in Engine, SweepStop(e, c) PROVE BenchTypes'
  BY <1>6 DEF SweepStop
<1>7. ASSUME NEW e \in Engine, SweepDelete(e) PROVE BenchTypes'
  BY <1>7 DEF SweepDelete
<1>8. ASSUME NEW e \in Engine, SweepForget(e) PROVE BenchTypes'
  BY <1>8 DEF SweepForget
<1>9. ASSUME NEW e \in Engine, SweepReturns(e) PROVE BenchTypes'
  BY <1>9 DEF SweepReturns
<1>10. ASSUME NEW e \in Engine, Proceed(e) PROVE BenchTypes'
  BY <1>10 DEF Proceed
<1>11. ASSUME NEW e \in Engine, Crash(e) PROVE BenchTypes'
  BY <1>11 DEF Crash
<1>12. ASSUME NEW e \in Engine, RunStep(e) PROVE BenchTypes'
  BY <1>12, BenchTypesKeptByRun DEF LifeInv, Life
<1>13. CASE Tick
  BY <1>13 DEF Tick
<1>14. CASE UNCHANGED vars
  BY <1>14 DEF vars
<1> QED
  BY <1>1, <1>2, <1>3, <1>4, <1>5, <1>6, <1>7, <1>8, <1>9, <1>10, <1>11, <1>12, <1>13, <1>14
     DEF Next, SweepStep

(* Nor does a sweep or a death break the types of a run, ... *)
LEMMA RunTypesKept ==
  ASSUME TypeOK, LifeInv, SweepInv, [Next]_vars
  PROVE  RunTypes'
<1> USE DEF TypeOK, RunTypes, ownVars, runVars, testVars, Goto, SweepPlace, LegPlace, EndPlace
<1>1. ASSUME NEW e \in Engine, Begin(e) PROVE RunTypes'
  BY <1>1 DEF Begin
<1>2. ASSUME NEW e \in Engine, List(e) PROVE RunTypes'
  BY <1>2 DEF List
<1>3. ASSUME NEW e \in Engine, ListFails(e) PROVE RunTypes'
  BY <1>3 DEF ListFails
<1>4. ASSUME NEW e \in Engine, NEW c \in Engine, ReadState(e, c) PROVE RunTypes'
  BY <1>4 DEF ReadState
<1>5. ASSUME NEW e \in Engine, Select(e) PROVE RunTypes'
  BY <1>5 DEF Select
<1>6. ASSUME NEW e \in Engine, NEW c \in Engine, SweepStop(e, c) PROVE RunTypes'
  <2>1. UNCHANGED ownVars /\ (Goto(e, "deleting") \/ Goto(e, "forgetting"))
    BY <1>6 DEF SweepStop
  <2>2. CASE Goto(e, "deleting")
    BY <2>1, <2>2
  <2>3. CASE Goto(e, "forgetting")
    BY <2>1, <2>3
  <2> QED
    BY <2>1, <2>2, <2>3
<1>7. ASSUME NEW e \in Engine, SweepDelete(e) PROVE RunTypes'
  BY <1>7 DEF SweepDelete
<1>8. ASSUME NEW e \in Engine, SweepForget(e) PROVE RunTypes'
  BY <1>8 DEF SweepForget
<1>9. ASSUME NEW e \in Engine, SweepReturns(e) PROVE RunTypes'
  BY <1>9 DEF SweepReturns
<1>10. ASSUME NEW e \in Engine, Proceed(e) PROVE RunTypes'
  BY <1>10, KindAssumption DEF Proceed
<1>11. ASSUME NEW e \in Engine, Crash(e) PROVE RunTypes'
  BY <1>11, FirstLeg DEF Crash, ForgetRun
<1>12. ASSUME NEW e \in Engine, RunStep(e) PROVE RunTypes'
  BY <1>12, RunTypesKeptByRun
<1>13. CASE Tick
  BY <1>13 DEF Tick
<1>14. CASE UNCHANGED vars
  BY <1>14 DEF vars
<1> QED
  BY <1>1, <1>2, <1>3, <1>4, <1>5, <1>6, <1>7, <1>8, <1>9, <1>10, <1>11, <1>12, <1>13, <1>14
     DEF Next, SweepStep

(* ... or any step those of a sweep. *)
LEMMA SweepTypesKept ==
  ASSUME TypeOK, LifeInv, SweepInv, [Next]_vars
  PROVE  SweepTypes'
<1> USE DEF TypeOK, SweepTypes, outsideVars, timeVars, sweepVars
<1>1. ASSUME NEW e \in Engine, Begin(e) PROVE SweepTypes'
  BY <1>1, MaxTimeNat DEF Begin
<1>2. ASSUME NEW e \in Engine, List(e) PROVE SweepTypes'
  <2>1. {c \in Engine : Registered(c)} \in SUBSET Engine
    OBVIOUS
  <2>2. found[e] = {} /\ todo[e] = {} /\ hand[e] = {} /\ failed[e] = {}
    BY <1>2 DEF List, SweepInv, Knows, Sweeping
  <2> QED
    BY <1>2, <2>1, <2>2 DEF List
<1>3. ASSUME NEW e \in Engine, ListFails(e) PROVE SweepTypes'
  BY <1>3 DEF ListFails
<1>4. ASSUME NEW e \in Engine, NEW c \in Engine, ReadState(e, c) PROVE SweepTypes'
  BY <1>4 DEF ReadState
<1>5. ASSUME NEW e \in Engine, Select(e) PROVE SweepTypes'
  <2>1. found[e] \subseteq Engine /\ \A c \in found[e] : deadline[c] # 0
    BY <1>5 DEF Select, LifeInv, Life, SweepInv, Knows
  <2>2. todo' = [todo EXCEPT ![e] = {c \in found[e] : Due(e, c)}]
    BY <1>5, <2>1, ReapableIsDue DEF Select, TypeOK
  <2> QED
    BY <1>5, <2>1, <2>2 DEF Select
<1>6. ASSUME NEW e \in Engine, NEW c \in Engine, SweepStop(e, c) PROVE SweepTypes'
  <2>1. c \in todo[e] /\ c \in found[e]
    BY <1>6 DEF SweepStop, SweepInv, Knows, Reaping, Sweeping
  <2>2. todo' = [todo EXCEPT ![e] = @ \ {c}] /\ hand' = [hand EXCEPT ![e] = {c}]
    BY <1>6 DEF SweepStop
  <2>3. failed' = failed \/ failed' = [failed EXCEPT ![e] = @ \cup {c}]
    BY <1>6 DEF SweepStop
  <2>4. UNCHANGED <<now, deadline, at, scope, listed, found>>
    BY <1>6 DEF SweepStop
  <2> QED
    BY <2>1, <2>2, <2>3, <2>4
<1>7. ASSUME NEW e \in Engine, SweepDelete(e) PROVE SweepTypes'
  BY <1>7 DEF SweepDelete
<1>8. ASSUME NEW e \in Engine, SweepForget(e) PROVE SweepTypes'
  BY <1>8 DEF SweepForget
<1>9. ASSUME NEW e \in Engine, SweepReturns(e) PROVE SweepTypes'
  BY <1>9 DEF SweepReturns
<1>10. ASSUME NEW e \in Engine, Proceed(e) PROVE SweepTypes'
  BY <1>10, MaxTimeNat DEF Proceed, ForgetSweep
<1>11. ASSUME NEW e \in Engine, Crash(e) PROVE SweepTypes'
  BY <1>11, MaxTimeNat DEF Crash, ForgetSweep
<1>12. ASSUME NEW e \in Engine, RunStep(e) PROVE SweepTypes'
  BY <1>12 DEF RunStep
<1>13. CASE Tick
  BY <1>13, MaxTimeNat DEF Tick
<1>14. CASE UNCHANGED vars
  BY <1>14 DEF vars
<1> QED
  BY <1>1, <1>2, <1>3, <1>4, <1>5, <1>6, <1>7, <1>8, <1>9, <1>10, <1>11, <1>12, <1>13, <1>14
     DEF Next, SweepStep

(* The number of a leg. *)
LegIs(e) ==
  /\ leg[e] \in 1..8
  /\ Legs[leg[e]] = "copy_worktree" => leg[e] = 1
  /\ Legs[leg[e]] = "start_container" => leg[e] = 2
  /\ Legs[leg[e]] \in {"check_image_version", "npm_ci", "build"} => leg[e] \in 3..5
  /\ Legs[leg[e]] = "run_tests" => leg[e] = 6
  /\ Legs[leg[e]] = "drain" => leg[e] = 7
  /\ Legs[leg[e]] = "parse" => leg[e] = 8

(* Each leg has its place in RunAll. *)
LEMMA WhichLeg == ASSUME RunTypes, NEW e \in Engine PROVE LegIs(e)
<1>1. leg[e] \in 1..8
  BY LegsAre DEF RunTypes
<1> QED
  BY <1>1, LegsAre DEF LegIs

(* The variables of the runs and the bench are functions on Engine. *)
Functions ==
  /\ DOMAIN vm = Engine /\ DOMAIN state = Engine /\ DOMAIN order = Engine
  /\ DOMAIN pc = Engine /\ DOMAIN leg = Engine /\ DOMAIN last = Engine
  /\ DOMAIN cancelled = Engine /\ DOMAIN started = Engine /\ DOMAIN prober = Engine
  /\ DOMAIN code = Engine /\ DOMAIN file = Engine /\ DOMAIN result = Engine

(* They are in every well-typed state. *)
LEMMA TypesAreFunctions == TypeOK => Functions
  BY DEF TypeOK, BenchTypes, RunTypes, Functions

(* What a run's step leaves alone of another invocation. *)
Alike(x) ==
  /\ vm'[x] = vm[x] /\ state'[x] = state[x] /\ order'[x] = order[x]
  /\ pc'[x] = pc[x] /\ leg'[x] = leg[x] /\ last'[x] = last[x]
  /\ cancelled'[x] = cancelled[x] /\ started'[x] = started[x] /\ prober'[x] = prober[x]
  /\ code'[x] = code[x] /\ file'[x] = file[x] /\ result'[x] = result[x]

(* A step of a run and its VM is nobody else's. *)
LEMMA OthersAlike ==
  ASSUME Functions, NEW e \in Engine, RunStep(e), NEW x \in Engine \ {e}
  PROVE  Alike(x)
<1> USE DEF Functions, Alike, Goto, Emit, Working, benchVars, runVars, testVars, LegOver,
        LegFails
<1>1. ASSUME BeginLeg(e) PROVE Alike(x)
  BY <1>1 DEF BeginLeg
<1>2. ASSUME CheckContext(e) PROVE Alike(x)
  BY <1>2 DEF CheckContext
<1>3. ASSUME SendClone(e) PROVE Alike(x)
  BY <1>3 DEF SendClone
<1>4. ASSUME StartTests(e) PROVE Alike(x)
  BY <1>4 DEF StartTests
<1>5. ASSUME Output(e) PROVE Alike(x)
  BY <1>5 DEF Output
<1>6. ASSUME Join(e) PROVE Alike(x)
  BY <1>6 DEF Join
<1>7. ASSUME Parse(e) PROVE Alike(x)
  BY <1>7 DEF Parse
<1>8. ASSUME Unwind(e) PROVE Alike(x)
  BY <1>8 DEF Unwind
<1>9. ASSUME CleanupStop(e) PROVE Alike(x)
  BY <1>9 DEF CleanupStop
<1>10. ASSUME CleanupDelete(e) PROVE Alike(x)
  BY <1>10 DEF CleanupDelete
<1>11. ASSUME CleanupState(e) PROVE Alike(x)
  BY <1>11 DEF CleanupState
<1>12. ASSUME Close(e) PROVE Alike(x)
  BY <1>12 DEF Close
<1>13. ASSUME ProbeEmits(e) PROVE Alike(x)
  BY <1>13 DEF ProbeEmits
<1>14. ASSUME ProberStops(e) PROVE Alike(x)
  BY <1>14 DEF ProberStops
<1>15. ASSUME CopyWorktree(e) PROVE Alike(x)
  BY <1>15 DEF CopyWorktree
<1>16. ASSUME GuestCommand(e) PROVE Alike(x)
  BY <1>16 DEF GuestCommand
<1>17. ASSUME SkipBuild(e) PROVE Alike(x)
  BY <1>17 DEF SkipBuild
<1>18. ASSUME CloneAnswered(e) PROVE Alike(x)
  BY <1>18 DEF CloneAnswered
<1>19. ASSUME WriteState(e) PROVE Alike(x)
  BY <1>19 DEF WriteState
<1>20. ASSUME SetMemory(e) PROVE Alike(x)
  BY <1>20 DEF SetMemory
<1>21. ASSUME Boot(e) PROVE Alike(x)
  BY <1>21 DEF Boot
<1>22. ASSUME WaitIP(e) PROVE Alike(x)
  BY <1>22 DEF WaitIP
<1>23. ASSUME TestsExit(e) PROVE Alike(x)
  BY <1>23 DEF TestsExit
<1>24. ASSUME Drain(e) PROVE Alike(x)
  BY <1>24 DEF Drain
<1>25. ASSUME CommandFails(e) PROVE Alike(x)
  BY <1>25 DEF CommandFails
<1>26. ASSUME CloneFails(e) PROVE Alike(x)
  BY <1>26 DEF CloneFails
<1>27. ASSUME SubStepFails(e) PROVE Alike(x)
  BY <1>27 DEF SubStepFails
<1>28. ASSUME TestsFail(e) PROVE Alike(x)
  BY <1>28 DEF TestsFail
<1>29. ASSUME ServeClone(e) PROVE Alike(x)
  BY <1>29 DEF ServeClone
<1>30. ASSUME DropOrder(e) PROVE Alike(x)
  BY <1>30 DEF DropOrder
<1>31. ASSUME ServeBoot(e) PROVE Alike(x)
  BY <1>31 DEF ServeBoot
<1>32. ASSUME GuestDies(e) PROVE Alike(x)
  BY <1>32 DEF GuestDies
<1>33. ASSUME ProbeBegins(e) PROVE Alike(x)
  BY <1>33 DEF ProbeBegins
<1>34. ASSUME ProbeAnswers(e) PROVE Alike(x)
  BY <1>34 DEF ProbeAnswers
<1>35. ASSUME Interrupted(e) PROVE Alike(x)
  BY <1>35 DEF Interrupted, Cancel
<1> QED
  BY <1>1, <1>2, <1>3, <1>4, <1>5, <1>6, <1>7, <1>8, <1>9, <1>10, <1>11, <1>12, <1>13, <1>14,
     <1>15, <1>16, <1>17, <1>18, <1>19, <1>20, <1>21, <1>22, <1>23, <1>24, <1>25, <1>26, <1>27,
     <1>28, <1>29, <1>30, <1>31, <1>32, <1>33, <1>34, <1>35 DEF RunStep, MainStep, CleanupStep, ProberStep,
     Answer, Failure, BenchStep

(* A run's step goes on in its life. *)
LEMMA LifeKeptByRun ==
  ASSUME Functions, RunTypes, NEW e \in Engine, Life(e), RunStep(e)
  PROVE  Life(e)'
<1>a. UNCHANGED deadline
  BY DEF RunStep, outsideVars, timeVars
<1>b. LegIs(e) /\ (pc[e] \in LegPlace \cup EndPlace => Kind[e] = "run")
  BY WhichLeg DEF RunTypes
<1> USE <1>a, <1>b DEF Functions, Life, Before, Goto, benchVars, runVars, LegFails, SweepPlace,
        LegPlace, EndPlace, testVars, SubSteps, Testing, None, Working, LegIs
<1>1. ASSUME BeginLeg(e) PROVE Life(e)'
  BY <1>1 DEF BeginLeg
<1>2. ASSUME CheckContext(e) PROVE Life(e)'
  BY <1>2 DEF CheckContext
<1>3. ASSUME SendClone(e) PROVE Life(e)'
  BY <1>3 DEF SendClone
<1>4. ASSUME StartTests(e) PROVE Life(e)'
  BY <1>4 DEF StartTests
<1>5. ASSUME Output(e) PROVE Life(e)'
  BY <1>5 DEF Output
<1>6. ASSUME Join(e) PROVE Life(e)'
  <2>1. UNCHANGED <<benchVars, started>> /\ (LegOver(e, "success") \/ LegFails(e)) /\ pc[e] \in LegPlace
    BY <1>6 DEF Join
  <2>2. CASE LegFails(e)
    BY <2>1, <2>2 DEF Join
  <2>3. CASE LegOver(e, "success")
    <3>1. leg[e] \in {6, 8}
      BY <1>6 DEF Join, Parse
    <3>2. \/ leg[e] = 6 /\ leg' = [leg EXCEPT ![e] = leg[e] + 1] /\ pc' = [pc EXCEPT ![e] = "begin"]
          \/ leg[e] = 8 /\ leg' = leg /\ pc' = [pc EXCEPT ![e] = "unwinding"]
      BY <2>3, <3>1, LegOverMoves
    <3> QED
      BY <2>1, <3>2
  <2> QED
    BY <2>1, <2>2, <2>3
<1>7. ASSUME Parse(e) PROVE Life(e)'
  <2>1. UNCHANGED <<benchVars, started>> /\ (LegOver(e, "success") \/ LegFails(e)) /\ pc[e] \in LegPlace
    BY <1>7 DEF Parse
  <2>2. CASE LegFails(e)
    BY <2>1, <2>2 DEF Parse
  <2>3. CASE LegOver(e, "success")
    <3>1. leg[e] \in {6, 8}
      BY <1>7 DEF Join, Parse
    <3>2. \/ leg[e] = 6 /\ leg' = [leg EXCEPT ![e] = leg[e] + 1] /\ pc' = [pc EXCEPT ![e] = "begin"]
          \/ leg[e] = 8 /\ leg' = leg /\ pc' = [pc EXCEPT ![e] = "unwinding"]
      BY <2>3, <3>1, LegOverMoves
    <3> QED
      BY <2>1, <3>2
  <2> QED
    BY <2>1, <2>2, <2>3
<1>8. ASSUME Unwind(e) PROVE Life(e)'
  BY <1>8 DEF Unwind
<1>9. ASSUME CleanupStop(e) PROVE Life(e)'
  BY <1>9 DEF CleanupStop
<1>10. ASSUME CleanupDelete(e) PROVE Life(e)'
  BY <1>10 DEF CleanupDelete
<1>11. ASSUME CleanupState(e) PROVE Life(e)'
  BY <1>11 DEF CleanupState
<1>12. ASSUME Close(e) PROVE Life(e)'
  BY <1>12 DEF Close
<1>13. ASSUME ProbeEmits(e) PROVE Life(e)'
  BY <1>13 DEF ProbeEmits
<1>14. ASSUME ProberStops(e) PROVE Life(e)'
  BY <1>14 DEF ProberStops
<1>15. ASSUME CopyWorktree(e) PROVE Life(e)'
  <2>1. LegOver(e, "success") \/ LegOver(e, "skipped")
    BY <1>15 DEF CopyWorktree
  <2>2. \/ leg[e] < 8 /\ leg' = [leg EXCEPT ![e] = leg[e] + 1] /\ pc' = [pc EXCEPT ![e] = "begin"]
        \/ leg[e] = 8 /\ leg' = leg /\ pc' = [pc EXCEPT ![e] = "unwinding"]
    BY <2>1, LegOverMoves
  <2> QED
    BY <1>15, <2>2 DEF CopyWorktree
<1>16. ASSUME GuestCommand(e) PROVE Life(e)'
  <2>1. LegOver(e, "success") \/ LegOver(e, "skipped")
    BY <1>16 DEF GuestCommand
  <2>2. \/ leg[e] < 8 /\ leg' = [leg EXCEPT ![e] = leg[e] + 1] /\ pc' = [pc EXCEPT ![e] = "begin"]
        \/ leg[e] = 8 /\ leg' = leg /\ pc' = [pc EXCEPT ![e] = "unwinding"]
    BY <2>1, LegOverMoves
  <2> QED
    BY <1>16, <2>2 DEF GuestCommand
<1>17. ASSUME SkipBuild(e) PROVE Life(e)'
  <2>1. LegOver(e, "success") \/ LegOver(e, "skipped")
    BY <1>17 DEF SkipBuild
  <2>2. \/ leg[e] < 8 /\ leg' = [leg EXCEPT ![e] = leg[e] + 1] /\ pc' = [pc EXCEPT ![e] = "begin"]
        \/ leg[e] = 8 /\ leg' = leg /\ pc' = [pc EXCEPT ![e] = "unwinding"]
    BY <2>1, LegOverMoves
  <2> QED
    BY <1>17, <2>2 DEF SkipBuild
<1>18. ASSUME CloneAnswered(e) PROVE Life(e)'
  BY <1>18 DEF CloneAnswered
<1>19. ASSUME WriteState(e) PROVE Life(e)'
  BY <1>19 DEF WriteState
<1>20. ASSUME SetMemory(e) PROVE Life(e)'
  BY <1>20 DEF SetMemory
<1>21. ASSUME Boot(e) PROVE Life(e)'
  BY <1>21 DEF Boot
<1>22. ASSUME WaitIP(e) PROVE Life(e)'
  <2>1. LegOver(e, "success") \/ LegOver(e, "skipped")
    BY <1>22 DEF WaitIP
  <2>2. \/ leg[e] < 8 /\ leg' = [leg EXCEPT ![e] = leg[e] + 1] /\ pc' = [pc EXCEPT ![e] = "begin"]
        \/ leg[e] = 8 /\ leg' = leg /\ pc' = [pc EXCEPT ![e] = "unwinding"]
    BY <2>1, LegOverMoves
  <2> QED
    BY <1>22, <2>2 DEF WaitIP
<1>23. ASSUME TestsExit(e) PROVE Life(e)'
  BY <1>23 DEF TestsExit
<1>24. ASSUME Drain(e) PROVE Life(e)'
  <2>1. LegOver(e, "success") \/ LegOver(e, "skipped")
    BY <1>24 DEF Drain
  <2>2. \/ leg[e] < 8 /\ leg' = [leg EXCEPT ![e] = leg[e] + 1] /\ pc' = [pc EXCEPT ![e] = "begin"]
        \/ leg[e] = 8 /\ leg' = leg /\ pc' = [pc EXCEPT ![e] = "unwinding"]
    BY <2>1, LegOverMoves
  <2> QED
    BY <1>24, <2>2 DEF Drain
<1>25. ASSUME CommandFails(e) PROVE Life(e)'
  BY <1>25 DEF CommandFails
<1>26. ASSUME CloneFails(e) PROVE Life(e)'
  BY <1>26 DEF CloneFails
<1>27. ASSUME SubStepFails(e) PROVE Life(e)'
  BY <1>27 DEF SubStepFails
<1>28. ASSUME TestsFail(e) PROVE Life(e)'
  BY <1>28 DEF TestsFail
<1>29. ASSUME ServeClone(e) PROVE Life(e)'
  BY <1>29 DEF ServeClone
<1>30. ASSUME DropOrder(e) PROVE Life(e)'
  BY <1>30 DEF DropOrder
<1>31. ASSUME ServeBoot(e) PROVE Life(e)'
  BY <1>31 DEF ServeBoot
<1>32. ASSUME GuestDies(e) PROVE Life(e)'
  BY <1>32 DEF GuestDies
<1>33. ASSUME ProbeBegins(e) PROVE Life(e)'
  BY <1>33 DEF ProbeBegins
<1>34. ASSUME ProbeAnswers(e) PROVE Life(e)'
  BY <1>34 DEF ProbeAnswers
<1>35. ASSUME Interrupted(e) PROVE Life(e)'
  BY <1>35 DEF Interrupted, Cancel
<1> QED
  BY <1>1, <1>2, <1>3, <1>4, <1>5, <1>6, <1>7, <1>8, <1>9, <1>10, <1>11, <1>12, <1>13, <1>14,
     <1>15, <1>16, <1>17, <1>18, <1>19, <1>20, <1>21, <1>22, <1>23, <1>24, <1>25, <1>26, <1>27,
     <1>28, <1>29, <1>30, <1>31, <1>32, <1>33, <1>34, <1>35 DEF RunStep, MainStep, CleanupStep, ProberStep,
     Answer, Failure, BenchStep

(* So does every step; a sweep does nothing to a VM that is not there. *)
LEMMA LifeKept ==
  ASSUME TypeOK, LifeInv, [Next]_vars
  PROVE  LifeInv'
<1> USE DEF Functions, LifeInv, Life, Before, Goto, benchVars, ownVars, runVars, SweepPlace,
        SubSteps, Testing, Registered, None, outsideVars, timeVars, sweepVars
<1>0. Functions
  BY TypesAreFunctions
<1> USE <1>0
<1>1. ASSUME NEW e \in Engine, Begin(e) PROVE LifeInv'
  <2>1. DOMAIN deadline = Engine /\ now \in 0..MaxTime
    BY DEF TypeOK, SweepTypes
  <2>2. \A x \in Engine : deadline'[x] = deadline[x] \/ deadline'[x] \in 1..MaxTime
    <3>1. CASE Kind[e] = "run"
      <4>1. deadline' = [deadline EXCEPT ![e] = now + TTL] /\ now + TTL \in 1..MaxTime
        BY <1>1, <2>1, <3>1, MaxTimeNat DEF Begin
      <4> QED
        BY <2>1, <4>1
    <3>2. CASE Kind[e] # "run"
      BY <1>1, <3>2 DEF Begin
    <3> QED
      BY <3>1, <3>2
  <2>3. Kind[e] = "run" => deadline'[e] \in 1..MaxTime
    BY <1>1, <2>1, MaxTimeNat DEF Begin
  <2>4. UNCHANGED <<vm, order, leg, started>> /\ pc[e] = "idle" /\ pc' = [pc EXCEPT ![e] = "listing"]
    BY <1>1 DEF Begin
  <2> QED
    BY <2>2, <2>3, <2>4, MaxTimeNat
<1>2. ASSUME NEW e \in Engine, List(e) PROVE LifeInv'
  BY <1>2 DEF List
<1>3. ASSUME NEW e \in Engine, ListFails(e) PROVE LifeInv'
  BY <1>3 DEF ListFails
<1>4. ASSUME NEW e \in Engine, NEW c \in Engine, ReadState(e, c) PROVE LifeInv'
  BY <1>4 DEF ReadState
<1>5. ASSUME NEW e \in Engine, Select(e) PROVE LifeInv'
  BY <1>5 DEF Select
<1>6. ASSUME NEW e \in Engine, NEW c \in Engine, SweepStop(e, c) PROVE LifeInv'
  BY <1>6 DEF SweepStop
<1>7. ASSUME NEW e \in Engine, SweepDelete(e) PROVE LifeInv'
  BY <1>7 DEF SweepDelete
<1>8. ASSUME NEW e \in Engine, SweepForget(e) PROVE LifeInv'
  BY <1>8 DEF SweepForget
<1>9. ASSUME NEW e \in Engine, SweepReturns(e) PROVE LifeInv'
  BY <1>9 DEF SweepReturns
<1>10. ASSUME NEW e \in Engine, Proceed(e) PROVE LifeInv'
  BY <1>10 DEF Proceed
<1>11. ASSUME NEW e \in Engine, Crash(e) PROVE LifeInv'
  BY <1>11 DEF Crash, ForgetRun
<1>12. ASSUME NEW e \in Engine, RunStep(e) PROVE LifeInv'
  <2>1. Life(e)'
    BY <1>12, LifeKeptByRun DEF TypeOK
  <2>2. ASSUME NEW x \in Engine \ {e} PROVE Life(x)'
    <3>1. Alike(x) /\ UNCHANGED deadline
      BY <1>12, OthersAlike DEF RunStep
    <3> QED
      BY <3>1 DEF Alike
  <2> QED
    BY <2>1, <2>2
<1>13. CASE Tick
  BY <1>13 DEF Tick, runVars
<1>14. CASE UNCHANGED vars
  BY <1>14 DEF vars
<1> QED
  BY <1>1, <1>2, <1>3, <1>4, <1>5, <1>6, <1>7, <1>8, <1>9, <1>10, <1>11, <1>12, <1>13, <1>14
     DEF Next, SweepStep

(* A run's step neither begins nor ends a sweep. *)
LEMMA RunPlaces ==
  ASSUME Functions, NEW e \in Engine, RunStep(e)
  PROVE  pc[e] \in SweepPlace \/ pc'[e] \in SweepPlace => pc'[e] = pc[e]
<1> USE DEF Functions, Goto, Working, benchVars, runVars, LegOver, LegFails, SweepPlace
<1>1. ASSUME BeginLeg(e) PROVE pc[e] \in SweepPlace \/ pc'[e] \in SweepPlace => pc'[e] = pc[e]
  BY <1>1 DEF BeginLeg
<1>2. ASSUME CheckContext(e) PROVE pc[e] \in SweepPlace \/ pc'[e] \in SweepPlace => pc'[e] = pc[e]
  BY <1>2 DEF CheckContext
<1>3. ASSUME SendClone(e) PROVE pc[e] \in SweepPlace \/ pc'[e] \in SweepPlace => pc'[e] = pc[e]
  BY <1>3 DEF SendClone
<1>4. ASSUME StartTests(e) PROVE pc[e] \in SweepPlace \/ pc'[e] \in SweepPlace => pc'[e] = pc[e]
  BY <1>4 DEF StartTests
<1>5. ASSUME Output(e) PROVE pc[e] \in SweepPlace \/ pc'[e] \in SweepPlace => pc'[e] = pc[e]
  BY <1>5 DEF Output
<1>6. ASSUME Join(e) PROVE pc[e] \in SweepPlace \/ pc'[e] \in SweepPlace => pc'[e] = pc[e]
  BY <1>6 DEF Join
<1>7. ASSUME Parse(e) PROVE pc[e] \in SweepPlace \/ pc'[e] \in SweepPlace => pc'[e] = pc[e]
  BY <1>7 DEF Parse
<1>8. ASSUME Unwind(e) PROVE pc[e] \in SweepPlace \/ pc'[e] \in SweepPlace => pc'[e] = pc[e]
  BY <1>8 DEF Unwind
<1>9. ASSUME CleanupStop(e) PROVE pc[e] \in SweepPlace \/ pc'[e] \in SweepPlace => pc'[e] = pc[e]
  BY <1>9 DEF CleanupStop
<1>10. ASSUME CleanupDelete(e) PROVE pc[e] \in SweepPlace \/ pc'[e] \in SweepPlace => pc'[e] = pc[e]
  BY <1>10 DEF CleanupDelete
<1>11. ASSUME CleanupState(e) PROVE pc[e] \in SweepPlace \/ pc'[e] \in SweepPlace => pc'[e] = pc[e]
  BY <1>11 DEF CleanupState
<1>12. ASSUME Close(e) PROVE pc[e] \in SweepPlace \/ pc'[e] \in SweepPlace => pc'[e] = pc[e]
  BY <1>12 DEF Close
<1>13. ASSUME ProbeEmits(e) PROVE pc[e] \in SweepPlace \/ pc'[e] \in SweepPlace => pc'[e] = pc[e]
  BY <1>13 DEF ProbeEmits
<1>14. ASSUME ProberStops(e) PROVE pc[e] \in SweepPlace \/ pc'[e] \in SweepPlace => pc'[e] = pc[e]
  BY <1>14 DEF ProberStops
<1>15. ASSUME CopyWorktree(e) PROVE pc[e] \in SweepPlace \/ pc'[e] \in SweepPlace => pc'[e] = pc[e]
  BY <1>15 DEF CopyWorktree
<1>16. ASSUME GuestCommand(e) PROVE pc[e] \in SweepPlace \/ pc'[e] \in SweepPlace => pc'[e] = pc[e]
  BY <1>16 DEF GuestCommand
<1>17. ASSUME SkipBuild(e) PROVE pc[e] \in SweepPlace \/ pc'[e] \in SweepPlace => pc'[e] = pc[e]
  BY <1>17 DEF SkipBuild
<1>18. ASSUME CloneAnswered(e) PROVE pc[e] \in SweepPlace \/ pc'[e] \in SweepPlace => pc'[e] = pc[e]
  BY <1>18 DEF CloneAnswered
<1>19. ASSUME WriteState(e) PROVE pc[e] \in SweepPlace \/ pc'[e] \in SweepPlace => pc'[e] = pc[e]
  BY <1>19 DEF WriteState
<1>20. ASSUME SetMemory(e) PROVE pc[e] \in SweepPlace \/ pc'[e] \in SweepPlace => pc'[e] = pc[e]
  BY <1>20 DEF SetMemory
<1>21. ASSUME Boot(e) PROVE pc[e] \in SweepPlace \/ pc'[e] \in SweepPlace => pc'[e] = pc[e]
  BY <1>21 DEF Boot
<1>22. ASSUME WaitIP(e) PROVE pc[e] \in SweepPlace \/ pc'[e] \in SweepPlace => pc'[e] = pc[e]
  BY <1>22 DEF WaitIP
<1>23. ASSUME TestsExit(e) PROVE pc[e] \in SweepPlace \/ pc'[e] \in SweepPlace => pc'[e] = pc[e]
  BY <1>23 DEF TestsExit
<1>24. ASSUME Drain(e) PROVE pc[e] \in SweepPlace \/ pc'[e] \in SweepPlace => pc'[e] = pc[e]
  BY <1>24 DEF Drain
<1>25. ASSUME CommandFails(e) PROVE pc[e] \in SweepPlace \/ pc'[e] \in SweepPlace => pc'[e] = pc[e]
  BY <1>25 DEF CommandFails
<1>26. ASSUME CloneFails(e) PROVE pc[e] \in SweepPlace \/ pc'[e] \in SweepPlace => pc'[e] = pc[e]
  BY <1>26 DEF CloneFails
<1>27. ASSUME SubStepFails(e) PROVE pc[e] \in SweepPlace \/ pc'[e] \in SweepPlace => pc'[e] = pc[e]
  BY <1>27 DEF SubStepFails
<1>28. ASSUME TestsFail(e) PROVE pc[e] \in SweepPlace \/ pc'[e] \in SweepPlace => pc'[e] = pc[e]
  BY <1>28 DEF TestsFail
<1>29. ASSUME ServeClone(e) PROVE pc[e] \in SweepPlace \/ pc'[e] \in SweepPlace => pc'[e] = pc[e]
  BY <1>29 DEF ServeClone
<1>30. ASSUME DropOrder(e) PROVE pc[e] \in SweepPlace \/ pc'[e] \in SweepPlace => pc'[e] = pc[e]
  BY <1>30 DEF DropOrder
<1>31. ASSUME ServeBoot(e) PROVE pc[e] \in SweepPlace \/ pc'[e] \in SweepPlace => pc'[e] = pc[e]
  BY <1>31 DEF ServeBoot
<1>32. ASSUME GuestDies(e) PROVE pc[e] \in SweepPlace \/ pc'[e] \in SweepPlace => pc'[e] = pc[e]
  BY <1>32 DEF GuestDies
<1>33. ASSUME ProbeBegins(e) PROVE pc[e] \in SweepPlace \/ pc'[e] \in SweepPlace => pc'[e] = pc[e]
  BY <1>33 DEF ProbeBegins
<1>34. ASSUME ProbeAnswers(e) PROVE pc[e] \in SweepPlace \/ pc'[e] \in SweepPlace => pc'[e] = pc[e]
  BY <1>34 DEF ProbeAnswers
<1>35. ASSUME Interrupted(e) PROVE pc[e] \in SweepPlace \/ pc'[e] \in SweepPlace => pc'[e] = pc[e]
  BY <1>35 DEF Interrupted, Cancel
<1> QED
  BY <1>1, <1>2, <1>3, <1>4, <1>5, <1>6, <1>7, <1>8, <1>9, <1>10, <1>11, <1>12, <1>13, <1>14,
     <1>15, <1>16, <1>17, <1>18, <1>19, <1>20, <1>21, <1>22, <1>23, <1>24, <1>25, <1>26, <1>27,
     <1>28, <1>29, <1>30, <1>31, <1>32, <1>33, <1>34, <1>35 DEF RunStep, MainStep, CleanupStep, ProberStep,
     Answer, Failure, BenchStep

(* A VM that is gone stays gone. *)
LEMMA VmsGo ==
  ASSUME Functions, NEW e \in Engine, Life(e), vm[e] # None, RunStep(e)
  PROVE  vm'[e] # None /\ (Registered(e)' => Registered(e))
<1> USE DEF Functions, Life, Registered, benchVars, None
<1>1. ASSUME BeginLeg(e) PROVE vm'[e] # None /\ (Registered(e)' => Registered(e))
  BY <1>1 DEF BeginLeg
<1>2. ASSUME CheckContext(e) PROVE vm'[e] # None /\ (Registered(e)' => Registered(e))
  BY <1>2 DEF CheckContext
<1>3. ASSUME SendClone(e) PROVE vm'[e] # None /\ (Registered(e)' => Registered(e))
  BY <1>3 DEF SendClone
<1>4. ASSUME StartTests(e) PROVE vm'[e] # None /\ (Registered(e)' => Registered(e))
  BY <1>4 DEF StartTests
<1>5. ASSUME Output(e) PROVE vm'[e] # None /\ (Registered(e)' => Registered(e))
  BY <1>5 DEF Output
<1>6. ASSUME Join(e) PROVE vm'[e] # None /\ (Registered(e)' => Registered(e))
  BY <1>6 DEF Join
<1>7. ASSUME Parse(e) PROVE vm'[e] # None /\ (Registered(e)' => Registered(e))
  BY <1>7 DEF Parse
<1>8. ASSUME Unwind(e) PROVE vm'[e] # None /\ (Registered(e)' => Registered(e))
  BY <1>8 DEF Unwind
<1>9. ASSUME CleanupStop(e) PROVE vm'[e] # None /\ (Registered(e)' => Registered(e))
  BY <1>9 DEF CleanupStop
<1>10. ASSUME CleanupDelete(e) PROVE vm'[e] # None /\ (Registered(e)' => Registered(e))
  BY <1>10 DEF CleanupDelete
<1>11. ASSUME CleanupState(e) PROVE vm'[e] # None /\ (Registered(e)' => Registered(e))
  BY <1>11 DEF CleanupState
<1>12. ASSUME Close(e) PROVE vm'[e] # None /\ (Registered(e)' => Registered(e))
  BY <1>12 DEF Close
<1>13. ASSUME ProbeEmits(e) PROVE vm'[e] # None /\ (Registered(e)' => Registered(e))
  BY <1>13 DEF ProbeEmits
<1>14. ASSUME ProberStops(e) PROVE vm'[e] # None /\ (Registered(e)' => Registered(e))
  BY <1>14 DEF ProberStops
<1>15. ASSUME CopyWorktree(e) PROVE vm'[e] # None /\ (Registered(e)' => Registered(e))
  BY <1>15 DEF CopyWorktree
<1>16. ASSUME GuestCommand(e) PROVE vm'[e] # None /\ (Registered(e)' => Registered(e))
  BY <1>16 DEF GuestCommand
<1>17. ASSUME SkipBuild(e) PROVE vm'[e] # None /\ (Registered(e)' => Registered(e))
  BY <1>17 DEF SkipBuild
<1>18. ASSUME CloneAnswered(e) PROVE vm'[e] # None /\ (Registered(e)' => Registered(e))
  BY <1>18 DEF CloneAnswered
<1>19. ASSUME WriteState(e) PROVE vm'[e] # None /\ (Registered(e)' => Registered(e))
  BY <1>19 DEF WriteState
<1>20. ASSUME SetMemory(e) PROVE vm'[e] # None /\ (Registered(e)' => Registered(e))
  BY <1>20 DEF SetMemory
<1>21. ASSUME Boot(e) PROVE vm'[e] # None /\ (Registered(e)' => Registered(e))
  BY <1>21 DEF Boot
<1>22. ASSUME WaitIP(e) PROVE vm'[e] # None /\ (Registered(e)' => Registered(e))
  BY <1>22 DEF WaitIP
<1>23. ASSUME TestsExit(e) PROVE vm'[e] # None /\ (Registered(e)' => Registered(e))
  BY <1>23 DEF TestsExit
<1>24. ASSUME Drain(e) PROVE vm'[e] # None /\ (Registered(e)' => Registered(e))
  BY <1>24 DEF Drain
<1>25. ASSUME CommandFails(e) PROVE vm'[e] # None /\ (Registered(e)' => Registered(e))
  BY <1>25 DEF CommandFails
<1>26. ASSUME CloneFails(e) PROVE vm'[e] # None /\ (Registered(e)' => Registered(e))
  BY <1>26 DEF CloneFails
<1>27. ASSUME SubStepFails(e) PROVE vm'[e] # None /\ (Registered(e)' => Registered(e))
  BY <1>27 DEF SubStepFails
<1>28. ASSUME TestsFail(e) PROVE vm'[e] # None /\ (Registered(e)' => Registered(e))
  BY <1>28 DEF TestsFail
<1>29. ASSUME ServeClone(e) PROVE vm'[e] # None /\ (Registered(e)' => Registered(e))
  BY <1>29 DEF ServeClone
<1>30. ASSUME DropOrder(e) PROVE vm'[e] # None /\ (Registered(e)' => Registered(e))
  BY <1>30 DEF DropOrder
<1>31. ASSUME ServeBoot(e) PROVE vm'[e] # None /\ (Registered(e)' => Registered(e))
  BY <1>31 DEF ServeBoot
<1>32. ASSUME GuestDies(e) PROVE vm'[e] # None /\ (Registered(e)' => Registered(e))
  BY <1>32 DEF GuestDies
<1>33. ASSUME ProbeBegins(e) PROVE vm'[e] # None /\ (Registered(e)' => Registered(e))
  BY <1>33 DEF ProbeBegins
<1>34. ASSUME ProbeAnswers(e) PROVE vm'[e] # None /\ (Registered(e)' => Registered(e))
  BY <1>34 DEF ProbeAnswers
<1>35. ASSUME Interrupted(e) PROVE vm'[e] # None /\ (Registered(e)' => Registered(e))
  BY <1>35 DEF Interrupted, Cancel
<1> QED
  BY <1>1, <1>2, <1>3, <1>4, <1>5, <1>6, <1>7, <1>8, <1>9, <1>10, <1>11, <1>12, <1>13, <1>14,
     <1>15, <1>16, <1>17, <1>18, <1>19, <1>20, <1>21, <1>22, <1>23, <1>24, <1>25, <1>26, <1>27,
     <1>28, <1>29, <1>30, <1>31, <1>32, <1>33, <1>34, <1>35 DEF RunStep, MainStep, CleanupStep, ProberStep,
     Answer, Failure, BenchStep

(* What others do meanwhile: VMs only go, and a deadline is fixed once      *)
(* there is a VM.                                                           *)
Ages ==
  /\ now' \in Int /\ now <= now'
  /\ \A c \in Engine : vm[c] # None =>
       vm'[c] # None /\ deadline'[c] = deadline[c] /\ (Registered(c)' => Registered(c))
Undisturbed(x) ==
  /\ at'[x] = at[x] /\ scope'[x] = scope[x] /\ listed'[x] = listed[x] /\ found'[x] = found[x]
  /\ todo'[x] = todo[x] /\ hand'[x] = hand[x] /\ failed'[x] = failed[x]

(* What a sweep knows stays true while others sweep, boot and clean up. *)
LEMMA KnowsStill ==
  ASSUME TypeOK, NEW x \in Engine, Knows(x), Ages, pc'[x] = pc[x], Undisturbed(x)
  PROVE  Knows(x)'
<1>1. at[x] \in Int /\ now \in Int
  BY MaxTimeNat DEF TypeOK, SweepTypes
<1>2. at'[x] <= now'
  BY <1>1 DEF Knows, Ages, Undisturbed
<1>3. found[x] \subseteq listed[x] /\ todo[x] \subseteq listed[x] /\ listed[x] \subseteq Engine
  BY DEF TypeOK, SweepTypes
<1>4. \A c \in listed[x] : /\ vm'[c] # None /\ (Due(x, c)' <=> Due(x, c))
                           /\ Registered(c)' => Registered(c)
  BY <1>3 DEF Knows, Ages, Undisturbed, Due
<1> QED
  BY <1>2, <1>3, <1>4 DEF Knows, Undisturbed

(* Every step is such a one. *)
LEMMA VmsAge ==
  ASSUME TypeOK, LifeInv, [Next]_vars
  PROVE  Ages
<1> USE DEF TypeOK, BenchTypes, SweepTypes, Ages, benchVars, ownVars, runVars, Registered, None,
        outsideVars, timeVars, sweepVars
<1>1. ASSUME NEW e \in Engine, Begin(e) PROVE Ages
  <2>1. UNCHANGED <<vm, now>> /\ vm[e] = None
    BY <1>1 DEF Begin, LifeInv, Life, Before, SweepPlace
  <2>2. \A x \in Engine \ {e} : deadline'[x] = deadline[x]
    BY <1>1 DEF Begin
  <2> QED
    BY <2>1, <2>2, MaxTimeNat
<1>2. ASSUME NEW e \in Engine, List(e) PROVE Ages
  BY <1>2, MaxTimeNat DEF List
<1>3. ASSUME NEW e \in Engine, ListFails(e) PROVE Ages
  BY <1>3, MaxTimeNat DEF ListFails
<1>4. ASSUME NEW e \in Engine, NEW c \in Engine, ReadState(e, c) PROVE Ages
  BY <1>4, MaxTimeNat DEF ReadState
<1>5. ASSUME NEW e \in Engine, Select(e) PROVE Ages
  BY <1>5, MaxTimeNat DEF Select
<1>6. ASSUME NEW e \in Engine, NEW c \in Engine, SweepStop(e, c) PROVE Ages
  BY <1>6, MaxTimeNat DEF SweepStop
<1>7. ASSUME NEW e \in Engine, SweepDelete(e) PROVE Ages
  BY <1>7, MaxTimeNat DEF SweepDelete
<1>8. ASSUME NEW e \in Engine, SweepForget(e) PROVE Ages
  BY <1>8, MaxTimeNat DEF SweepForget
<1>9. ASSUME NEW e \in Engine, SweepReturns(e) PROVE Ages
  BY <1>9, MaxTimeNat DEF SweepReturns
<1>10. ASSUME NEW e \in Engine, Proceed(e) PROVE Ages
  BY <1>10, MaxTimeNat DEF Proceed
<1>11. ASSUME NEW e \in Engine, Crash(e) PROVE Ages
  BY <1>11, MaxTimeNat DEF Crash
<1>12. ASSUME NEW e \in Engine, RunStep(e) PROVE Ages
  <2>1. Functions /\ Life(e) /\ UNCHANGED <<now, deadline>>
    BY <1>12, TypesAreFunctions DEF RunStep, LifeInv
  <2>2. \A x \in Engine \ {e} : vm'[x] = vm[x]
    BY <1>12, <2>1, OthersAlike DEF Alike
  <2>3. vm[e] # None => vm'[e] # None /\ (Registered(e)' => Registered(e))
    BY <1>12, <2>1, VmsGo
  <2> QED
    BY <2>1, <2>2, <2>3, MaxTimeNat
<1>13. CASE Tick
  BY <1>13, MaxTimeNat DEF Tick
<1>14. CASE UNCHANGED vars
  BY <1>14 DEF vars
<1> QED
  BY <1>1, <1>2, <1>3, <1>4, <1>5, <1>6, <1>7, <1>8, <1>9, <1>10, <1>11, <1>12, <1>13, <1>14
     DEF Next, SweepStep

(* A step of a sweep is no other's. *)
LEMMA SweepsUndisturbed ==
  ASSUME TypeOK, NEW e \in Engine, NEW x \in Engine \ {e}, Begin(e) \/ SweepStep(e) \/ Crash(e)
  PROVE  pc'[x] = pc[x] /\ Undisturbed(x)
<1> USE DEF TypeOK, RunTypes, SweepTypes, Undisturbed, Goto, ownVars, outsideVars, timeVars,
        sweepVars
<1>1. ASSUME Begin(e) PROVE pc'[x] = pc[x] /\ Undisturbed(x)
  BY <1>1 DEF Begin
<1>2. ASSUME List(e) PROVE pc'[x] = pc[x] /\ Undisturbed(x)
  BY <1>2 DEF List
<1>3. ASSUME ListFails(e) PROVE pc'[x] = pc[x] /\ Undisturbed(x)
  BY <1>3 DEF ListFails
<1>4. ASSUME NEW c \in Engine, ReadState(e, c) PROVE pc'[x] = pc[x] /\ Undisturbed(x)
  BY <1>4 DEF ReadState
<1>5. ASSUME Select(e) PROVE pc'[x] = pc[x] /\ Undisturbed(x)
  BY <1>5 DEF Select
<1>6. ASSUME NEW c \in Engine, SweepStop(e, c) PROVE pc'[x] = pc[x] /\ Undisturbed(x)
  BY <1>6 DEF SweepStop
<1>7. ASSUME SweepDelete(e) PROVE pc'[x] = pc[x] /\ Undisturbed(x)
  BY <1>7 DEF SweepDelete
<1>8. ASSUME SweepForget(e) PROVE pc'[x] = pc[x] /\ Undisturbed(x)
  BY <1>8 DEF SweepForget
<1>9. ASSUME SweepReturns(e) PROVE pc'[x] = pc[x] /\ Undisturbed(x)
  BY <1>9 DEF SweepReturns
<1>10. ASSUME Proceed(e) PROVE pc'[x] = pc[x] /\ Undisturbed(x)
  BY <1>10 DEF Proceed, ForgetSweep
<1>11. ASSUME Crash(e) PROVE pc'[x] = pc[x] /\ Undisturbed(x)
  BY <1>11 DEF Crash, ForgetSweep
<1> QED
  BY <1>1, <1>2, <1>3, <1>4, <1>5, <1>6, <1>7, <1>8, <1>9, <1>10, <1>11 DEF SweepStep

(* What a sweep's step tells it. *)
LEMMA KnowsOwn ==
  ASSUME TypeOK, LifeInv, NEW e \in Engine, Knows(e), Ages, Begin(e) \/ SweepStep(e) \/ Crash(e)
  PROVE  Knows(e)'
<1>a. /\ DOMAIN pc = Engine /\ DOMAIN at = Engine /\ DOMAIN listed = Engine /\ DOMAIN found = Engine
      /\ DOMAIN todo = Engine /\ DOMAIN hand = Engine /\ DOMAIN failed = Engine
  BY DEF TypeOK, RunTypes, SweepTypes
<1>b. /\ listed[e] \subseteq Engine /\ found[e] \cup todo[e] \subseteq listed[e]
      /\ hand[e] \cup failed[e] \subseteq found[e]
  BY DEF TypeOK, SweepTypes
<1>c. now \in Nat /\ at[e] \in Nat
  BY MaxTimeNat DEF TypeOK, SweepTypes
<1> USE <1>a, <1>b, <1>c DEF Knows, Goto, Sweeping, Reaping
<1>1. ASSUME Begin(e) PROVE Knows(e)'
  BY <1>1 DEF Begin, benchVars
<1>2. ASSUME List(e) PROVE Knows(e)'
  <2>1. listed[e] = {} /\ found[e] = {} /\ todo[e] = {} /\ hand[e] = {} /\ failed[e] = {}
    BY <1>2 DEF List
  <2>2. \A x \in {x \in Engine : Registered(x)} : vm[x] # None
    BY DEF Registered, None
  <2> QED
    BY <1>2, <2>1, <2>2 DEF List, timeVars, benchVars
<1>3. ASSUME ListFails(e) PROVE Knows(e)'
  BY <1>3 DEF ListFails, outsideVars, timeVars, sweepVars
<1>4. ASSUME NEW c \in Engine, ReadState(e, c) PROVE Knows(e)'
  <2>1. UNCHANGED <<pc, vm, now, at, listed, hand, failed>>
    BY <1>4 DEF ReadState, benchVars, timeVars
  <2> QED
    BY <1>4, <2>1 DEF ReadState
<1>5. ASSUME Select(e) PROVE Knows(e)'
  <2>1. now' = now /\ \A x \in Engine : Due(e, x)' <=> Due(e, x)
    BY <1>5 DEF Select, Due, timeVars, outsideVars, sweepVars
  <2>2. found[e] \subseteq Engine /\ \A c \in found[e] : deadline[c] # 0
    BY <1>5 DEF Select, LifeInv, Life, Knows
  <2>3. todo' = [todo EXCEPT ![e] = {c \in found[e] : Due(e, c)}]
    BY <1>5, <2>2, ReapableIsDue DEF Select, TypeOK
  <2>4. /\ UNCHANGED <<at, vm, listed, found, hand, failed>> /\ pc[e] = "reading"
        /\ pc' = [pc EXCEPT ![e] = "reaping"]
    BY <1>5 DEF Select, benchVars
  <2>5. todo'[e] = {c \in found[e] : Due(e, c)}
    BY <2>3
  <2>6. \A c \in found[e] \ todo'[e] : ~Due(e, c)
    BY <2>5
  <2> QED
    BY <2>1, <2>2, <2>4, <2>5, <2>6
<1>6. ASSUME NEW c \in Engine, SweepStop(e, c) PROVE Knows(e)'
  <2>1. now' = now /\ \A x \in Engine : Due(e, x)' <=> Due(e, x)
    BY <1>6 DEF SweepStop, Due, timeVars, outsideVars, sweepVars
  <2>2. /\ c \in todo[e] /\ todo' = [todo EXCEPT ![e] = @ \ {c}]
        /\ hand' = [hand EXCEPT ![e] = {c}] /\ UNCHANGED <<at, listed, found>>
    BY <1>6 DEF SweepStop
  <2>3. \/ Goto(e, "deleting") /\ UNCHANGED failed
        \/ Goto(e, "forgetting") /\ failed' = [failed EXCEPT ![e] = @ \cup {c}]
    BY <1>6 DEF SweepStop
  <2>4. pc[e] = "reaping"
    BY <1>6 DEF SweepStop
  <2>5. \A x \in listed'[e] : vm'[x] # None
    BY <2>2 DEF Ages
  <2>6. \A x \in found'[e] \ (todo'[e] \cup failed'[e]) :
          Due(e, x)' /\ Registered(x)' => pc'[e] = "deleting" /\ x \in hand'[e]
    BY <2>1, <2>2, <2>3, <2>4 DEF Ages
  <2> QED
    BY <2>1, <2>2, <2>3, <2>4, <2>5, <2>6
<1>7. ASSUME SweepDelete(e) PROVE Knows(e)'
  <2>1. now' = now /\ \A x \in Engine : Due(e, x)' <=> Due(e, x)
    BY <1>7 DEF SweepDelete, Due, timeVars, outsideVars, sweepVars
  <2>2. UNCHANGED <<at, listed, found, todo, hand>> /\ pc[e] = "deleting" /\ pc' = [pc EXCEPT ![e] = "forgetting"]
    BY <1>7 DEF SweepDelete
  <2>3. PICK c \in Engine : hand[e] = {c}
    BY <2>2
  <2>a. DOMAIN vm = Engine
    BY DEF TypeOK, BenchTypes
  <2>4. (~Registered(c)' /\ UNCHANGED failed) \/ failed' = [failed EXCEPT ![e] = @ \cup {c}]
    BY <1>7, <2>3, <2>a DEF SweepDelete, Registered
  <2>5. \A x \in listed'[e] : vm'[x] # None
    BY <2>2 DEF Ages
  <2>6. \A x \in found'[e] \ (todo'[e] \cup failed'[e]) : Due(e, x)' => ~Registered(x)'
    BY <2>1, <2>2, <2>3, <2>4 DEF Ages
  <2> QED
    BY <2>1, <2>2, <2>5, <2>6
<1>8. ASSUME SweepForget(e) PROVE Knows(e)'
  <2>1. now' = now /\ \A x \in Engine : Due(e, x)' <=> Due(e, x)
    BY <1>8 DEF SweepForget, Due, timeVars, outsideVars, sweepVars
  <2> QED
    BY <1>8, <2>1 DEF SweepForget, Registered
<1>9. ASSUME SweepReturns(e) PROVE Knows(e)'
  <2>1. UNCHANGED <<outsideVars, vm>>
    BY <1>9 DEF SweepReturns, benchVars
  <2>2. \A x \in Engine : Due(e, x)' <=> Due(e, x)
    BY <2>1 DEF Due, outsideVars, timeVars, sweepVars
  <2> QED
    BY <1>9, <2>1, <2>2 DEF SweepReturns, outsideVars, timeVars, sweepVars, Registered
<1>10. ASSUME Proceed(e) PROVE Knows(e)'
  BY <1>10 DEF Proceed, ForgetSweep, timeVars
<1>11. ASSUME Crash(e) PROVE Knows(e)'
  BY <1>11 DEF Crash, ForgetSweep, timeVars
<1> QED
  BY <1>1, <1>2, <1>3, <1>4, <1>5, <1>6, <1>7, <1>8, <1>9, <1>10, <1>11 DEF SweepStep

(* A sweep loses sight of nothing that is due. *)
LEMMA SweepKept == TypeOK /\ LifeInv /\ SweepInv /\ [Next]_vars => SweepInv'
<1> SUFFICES ASSUME TypeOK, LifeInv, SweepInv, [Next]_vars PROVE SweepInv'
  OBVIOUS
<1>1. Ages /\ Functions
  BY VmsAge, TypesAreFunctions
<1>2. ASSUME NEW e \in Engine, Begin(e) \/ SweepStep(e) \/ Crash(e) PROVE SweepInv'
  BY <1>1, <1>2, KnowsOwn, KnowsStill, SweepsUndisturbed DEF SweepInv
<1>3. ASSUME NEW e \in Engine, RunStep(e) PROVE SweepInv'
  <2>1. \A x \in Engine \ {e} : pc'[x] = pc[x]
    BY <1>1, <1>3, OthersAlike DEF Alike
  <2>2. \A x \in Engine : Undisturbed(x)
    BY <1>3 DEF RunStep, Undisturbed, outsideVars, sweepVars
  <2>3. CASE pc'[e] = pc[e]
    BY <2>1, <2>2, <2>3, <1>1, KnowsStill DEF SweepInv
  <2>4. CASE pc'[e] # pc[e]
    <3>1. pc[e] \notin SweepPlace /\ pc'[e] \notin SweepPlace
      BY <1>1, <1>3, <2>4, RunPlaces
    <3>2. Knows(e) /\ UNCHANGED <<at, now, listed, hand>>
      BY <1>3 DEF SweepInv, RunStep, outsideVars, timeVars, sweepVars
    <3>3. \A c \in listed'[e] : vm'[c] # None
      BY <3>1, <3>2 DEF Knows, Sweeping, SweepPlace
    <3>4. Knows(e)'
      BY <3>1, <3>2, <3>3 DEF Knows, SweepPlace, Sweeping, Reaping
    <3> QED
      BY <2>1, <2>2, <3>4, <1>1, KnowsStill DEF SweepInv
  <2> QED
    BY <2>3, <2>4
<1>4. CASE Tick \/ UNCHANGED vars
  BY <1>1, <1>4, KnowsStill DEF Tick, vars, outsideVars, timeVars, sweepVars, runVars,
     Undisturbed, SweepInv
<1> QED
  BY <1>2, <1>3, <1>4 DEF Next

(* A run's VM gets out of sight only to be known. *)
LEMMA TrackedByRun ==
  ASSUME Functions, RunTypes, NEW e \in Engine, Life(e), Tracked(e), RunStep(e)
  PROVE  Tracked(e)' /\ fault \subseteq fault'
<1> USE DEF Functions, Life, Tracked, Registered, Goto, benchVars, runVars, LegFails, testVars,
        None, Working, EndPlace
<1>1. ASSUME BeginLeg(e) PROVE Tracked(e)' /\ fault \subseteq fault'
  BY <1>1 DEF BeginLeg
<1>2. ASSUME CheckContext(e) PROVE Tracked(e)' /\ fault \subseteq fault'
  BY <1>2 DEF CheckContext
<1>3. ASSUME SendClone(e) PROVE Tracked(e)' /\ fault \subseteq fault'
  BY <1>3 DEF SendClone
<1>4. ASSUME StartTests(e) PROVE Tracked(e)' /\ fault \subseteq fault'
  BY <1>4 DEF StartTests
<1>5. ASSUME Output(e) PROVE Tracked(e)' /\ fault \subseteq fault'
  BY <1>5 DEF Output
<1>6. ASSUME Join(e) PROVE Tracked(e)' /\ fault \subseteq fault'
  <2>1. UNCHANGED benchVars /\ pc[e] \in {"joining", "work"}
    BY <1>6 DEF Join
  <2>2. pc' = [pc EXCEPT ![e] = "begin"] \/ pc' = [pc EXCEPT ![e] = "unwinding"]
    <3>1. CASE LegFails(e)
      BY <3>1
    <3>2. CASE LegOver(e, "success")
      BY <3>2, LegOverMoves
    <3> QED
      BY <1>6, <3>1, <3>2 DEF Join
  <2> QED
    BY <2>1, <2>2
<1>7. ASSUME Parse(e) PROVE Tracked(e)' /\ fault \subseteq fault'
  <2>1. UNCHANGED benchVars /\ pc[e] \in {"joining", "work"}
    BY <1>7 DEF Parse
  <2>2. pc' = [pc EXCEPT ![e] = "begin"] \/ pc' = [pc EXCEPT ![e] = "unwinding"]
    <3>1. CASE LegFails(e)
      BY <3>1
    <3>2. CASE LegOver(e, "success")
      BY <3>2, LegOverMoves
    <3> QED
      BY <1>7, <3>1, <3>2 DEF Parse
  <2> QED
    BY <2>1, <2>2
<1>8. ASSUME Unwind(e) PROVE Tracked(e)' /\ fault \subseteq fault'
  BY <1>8 DEF Unwind
<1>9. ASSUME CleanupStop(e) PROVE Tracked(e)' /\ fault \subseteq fault'
  BY <1>9 DEF CleanupStop
<1>10. ASSUME CleanupDelete(e) PROVE Tracked(e)' /\ fault \subseteq fault'
  BY <1>10 DEF CleanupDelete
<1>11. ASSUME CleanupState(e) PROVE Tracked(e)' /\ fault \subseteq fault'
  BY <1>11 DEF CleanupState
<1>12. ASSUME Close(e) PROVE Tracked(e)' /\ fault \subseteq fault'
  BY <1>12 DEF Close
<1>13. ASSUME ProbeEmits(e) PROVE Tracked(e)' /\ fault \subseteq fault'
  BY <1>13 DEF ProbeEmits
<1>14. ASSUME ProberStops(e) PROVE Tracked(e)' /\ fault \subseteq fault'
  BY <1>14 DEF ProberStops
<1>15. ASSUME CopyWorktree(e) PROVE Tracked(e)' /\ fault \subseteq fault'
  <2>1. PICK kind : LegOver(e, kind)
    BY <1>15 DEF CopyWorktree
  <2>2. \/ leg' = [leg EXCEPT ![e] = leg[e] + 1] /\ pc' = [pc EXCEPT ![e] = "begin"]
        \/ leg' = leg /\ pc' = [pc EXCEPT ![e] = "unwinding"]
    BY <2>1, LegOverMoves
  <2> QED
    BY <1>15, <2>2 DEF CopyWorktree
<1>16. ASSUME GuestCommand(e) PROVE Tracked(e)' /\ fault \subseteq fault'
  <2>1. PICK kind : LegOver(e, kind)
    BY <1>16 DEF GuestCommand
  <2>2. \/ leg' = [leg EXCEPT ![e] = leg[e] + 1] /\ pc' = [pc EXCEPT ![e] = "begin"]
        \/ leg' = leg /\ pc' = [pc EXCEPT ![e] = "unwinding"]
    BY <2>1, LegOverMoves
  <2> QED
    BY <1>16, <2>2 DEF GuestCommand
<1>17. ASSUME SkipBuild(e) PROVE Tracked(e)' /\ fault \subseteq fault'
  <2>1. PICK kind : LegOver(e, kind)
    BY <1>17 DEF SkipBuild
  <2>2. \/ leg' = [leg EXCEPT ![e] = leg[e] + 1] /\ pc' = [pc EXCEPT ![e] = "begin"]
        \/ leg' = leg /\ pc' = [pc EXCEPT ![e] = "unwinding"]
    BY <2>1, LegOverMoves
  <2> QED
    BY <1>17, <2>2 DEF SkipBuild
<1>18. ASSUME CloneAnswered(e) PROVE Tracked(e)' /\ fault \subseteq fault'
  BY <1>18 DEF CloneAnswered
<1>19. ASSUME WriteState(e) PROVE Tracked(e)' /\ fault \subseteq fault'
  BY <1>19 DEF WriteState
<1>20. ASSUME SetMemory(e) PROVE Tracked(e)' /\ fault \subseteq fault'
  BY <1>20 DEF SetMemory
<1>21. ASSUME Boot(e) PROVE Tracked(e)' /\ fault \subseteq fault'
  BY <1>21 DEF Boot
<1>22. ASSUME WaitIP(e) PROVE Tracked(e)' /\ fault \subseteq fault'
  <2>1. PICK kind : LegOver(e, kind)
    BY <1>22 DEF WaitIP
  <2>2. \/ leg' = [leg EXCEPT ![e] = leg[e] + 1] /\ pc' = [pc EXCEPT ![e] = "begin"]
        \/ leg' = leg /\ pc' = [pc EXCEPT ![e] = "unwinding"]
    BY <2>1, LegOverMoves
  <2> QED
    BY <1>22, <2>2 DEF WaitIP
<1>23. ASSUME TestsExit(e) PROVE Tracked(e)' /\ fault \subseteq fault'
  BY <1>23 DEF TestsExit
<1>24. ASSUME Drain(e) PROVE Tracked(e)' /\ fault \subseteq fault'
  <2>1. PICK kind : LegOver(e, kind)
    BY <1>24 DEF Drain
  <2>2. \/ leg' = [leg EXCEPT ![e] = leg[e] + 1] /\ pc' = [pc EXCEPT ![e] = "begin"]
        \/ leg' = leg /\ pc' = [pc EXCEPT ![e] = "unwinding"]
    BY <2>1, LegOverMoves
  <2> QED
    BY <1>24, <2>2 DEF Drain
<1>25. ASSUME CommandFails(e) PROVE Tracked(e)' /\ fault \subseteq fault'
  BY <1>25 DEF CommandFails
<1>26. ASSUME CloneFails(e) PROVE Tracked(e)' /\ fault \subseteq fault'
  BY <1>26 DEF CloneFails
<1>27. ASSUME SubStepFails(e) PROVE Tracked(e)' /\ fault \subseteq fault'
  BY <1>27 DEF SubStepFails
<1>28. ASSUME TestsFail(e) PROVE Tracked(e)' /\ fault \subseteq fault'
  BY <1>28 DEF TestsFail
<1>29. ASSUME ServeClone(e) PROVE Tracked(e)' /\ fault \subseteq fault'
  BY <1>29 DEF ServeClone
<1>30. ASSUME DropOrder(e) PROVE Tracked(e)' /\ fault \subseteq fault'
  BY <1>30 DEF DropOrder
<1>31. ASSUME ServeBoot(e) PROVE Tracked(e)' /\ fault \subseteq fault'
  BY <1>31 DEF ServeBoot
<1>32. ASSUME GuestDies(e) PROVE Tracked(e)' /\ fault \subseteq fault'
  BY <1>32 DEF GuestDies
<1>33. ASSUME ProbeBegins(e) PROVE Tracked(e)' /\ fault \subseteq fault'
  BY <1>33 DEF ProbeBegins
<1>34. ASSUME ProbeAnswers(e) PROVE Tracked(e)' /\ fault \subseteq fault'
  BY <1>34 DEF ProbeAnswers
<1>35. ASSUME Interrupted(e) PROVE Tracked(e)' /\ fault \subseteq fault'
  BY <1>35 DEF Interrupted, Cancel
<1> QED
  BY <1>1, <1>2, <1>3, <1>4, <1>5, <1>6, <1>7, <1>8, <1>9, <1>10, <1>11, <1>12, <1>13, <1>14,
     <1>15, <1>16, <1>17, <1>18, <1>19, <1>20, <1>21, <1>22, <1>23, <1>24, <1>25, <1>26, <1>27,
     <1>28, <1>29, <1>30, <1>31, <1>32, <1>33, <1>34, <1>35 DEF RunStep, MainStep, CleanupStep, ProberStep,
     Answer, Failure, BenchStep

(* No step of a sweep lets a VM out of sight unknown. *)
LEMMA TrackedKept ==
  ASSUME TypeOK, LifeInv, SweepInv, OrphanInv, [Next]_vars
  PROVE  fault \subseteq fault' /\ \A x \in Engine : Tracked(x)'
<1> USE DEF OrphanInv, Tracked, Registered, Functions, Goto, benchVars, ownVars, runVars, None,
        SweepPlace
<1>0. Functions
  BY TypesAreFunctions
<1> USE <1>0
<1>1. ASSUME NEW e \in Engine, Begin(e) PROVE fault \subseteq fault' /\ \A x \in Engine : Tracked(x)'
  BY <1>1 DEF Begin
<1>2. ASSUME NEW e \in Engine, List(e) PROVE fault \subseteq fault' /\ \A x \in Engine : Tracked(x)'
  BY <1>2 DEF List
<1>3. ASSUME NEW e \in Engine, ListFails(e) PROVE fault \subseteq fault' /\ \A x \in Engine : Tracked(x)'
  BY <1>3 DEF ListFails
<1>4. ASSUME NEW e \in Engine, NEW c \in Engine, ReadState(e, c) PROVE fault \subseteq fault' /\ \A x \in Engine : Tracked(x)'
  BY <1>4 DEF ReadState
<1>5. ASSUME NEW e \in Engine, Select(e) PROVE fault \subseteq fault' /\ \A x \in Engine : Tracked(x)'
  BY <1>5 DEF Select
<1>6. ASSUME NEW e \in Engine, NEW c \in Engine, SweepStop(e, c) PROVE fault \subseteq fault' /\ \A x \in Engine : Tracked(x)'
  <2>1. fault \subseteq fault' /\ UNCHANGED <<state, order>> /\ pc[e] = "reaping"
    BY <1>6 DEF SweepStop
  <2>2. pc' = [pc EXCEPT ![e] = "deleting"] \/ pc' = [pc EXCEPT ![e] = "forgetting"]
    BY <1>6 DEF SweepStop
  <2>3. \A x \in Engine : vm'[x] = vm[x] \/ (Registered(x) /\ Registered(x)')
    BY <1>6 DEF SweepStop
  <2> QED
    BY <2>1, <2>2, <2>3
<1>7. ASSUME NEW e \in Engine, SweepDelete(e) PROVE fault \subseteq fault' /\ \A x \in Engine : Tracked(x)'
  <2>1. fault \subseteq fault' /\ UNCHANGED <<state, order>> /\ pc[e] = "deleting"
    BY <1>7 DEF SweepDelete
  <2>2. pc' = [pc EXCEPT ![e] = "forgetting"]
    BY <1>7 DEF SweepDelete
  <2>3. \A x \in Engine : vm'[x] = vm[x] \/ vm'[x] = "reaped"
    BY <1>7 DEF SweepDelete
  <2>4. vm[e] = None /\ order[e] = None
    BY <2>1 DEF LifeInv, Life, Before
  <2> QED
    BY <2>1, <2>2, <2>3, <2>4
<1>8. ASSUME NEW e \in Engine, SweepForget(e) PROVE fault \subseteq fault' /\ \A x \in Engine : Tracked(x)'
  <2>1. UNCHANGED <<fault, vm, order>> /\ pc[e] = "forgetting" /\ pc' = [pc EXCEPT ![e] = "reaping"]
    BY <1>8 DEF SweepForget
  <2>2. PICK c \in hand[e] : state' \in {state, [state EXCEPT ![c] = FALSE]}
    BY <1>8 DEF SweepForget
  <2>3. c \in Engine /\ vm[c] # None
    BY <2>1 DEF SweepInv, Knows, TypeOK, SweepTypes
  <2>4. order[c] # "clone" /\ (Registered(c) => c \in fault)
    BY <2>1, <2>2, <2>3 DEF LifeInv, Life, Settled
  <2> QED
    BY <2>1, <2>2, <2>4
<1>9. ASSUME NEW e \in Engine, SweepReturns(e) PROVE fault \subseteq fault' /\ \A x \in Engine : Tracked(x)'
  BY <1>9 DEF SweepReturns
<1>10. ASSUME NEW e \in Engine, Proceed(e) PROVE fault \subseteq fault' /\ \A x \in Engine : Tracked(x)'
  <2>1. pc[e] \in SweepPlace /\ vm[e] = None /\ order[e] = None /\ Functions
    BY <1>10, TypesAreFunctions DEF Proceed, LifeInv, Life, Before, SweepPlace
  <2> QED
    BY <1>10, <2>1 DEF Proceed
<1>11. ASSUME NEW e \in Engine, Crash(e) PROVE fault \subseteq fault' /\ \A x \in Engine : Tracked(x)'
  BY <1>11 DEF Crash, ForgetRun
<1>12. ASSUME NEW e \in Engine, RunStep(e) PROVE fault \subseteq fault' /\ \A x \in Engine : Tracked(x)'
  <2>1. Tracked(e)' /\ fault \subseteq fault'
    BY <1>12, TrackedByRun DEF TypeOK, LifeInv
  <2>2. ASSUME NEW x \in Engine \ {e} PROVE Tracked(x)'
    BY <1>12, <2>1, OthersAlike DEF Alike
  <2> QED
    BY <2>1, <2>2
<1>13. CASE Tick
  BY <1>13 DEF Tick
<1>14. CASE UNCHANGED vars
  BY <1>14 DEF vars
<1> QED
  BY <1>1, <1>2, <1>3, <1>4, <1>5, <1>6, <1>7, <1>8, <1>9, <1>10, <1>11, <1>12, <1>13, <1>14
     DEF Next, SweepStep

(* A sweep that forgets a VM has reaped it, or it is known. *)
LEMMA SettledStill ==
  ASSUME TypeOK, NEW x \in Engine, Knows(x), Settled(x), Ages, fault \subseteq fault',
         pc'[x] = pc[x], hand'[x] = hand[x]
  PROVE  Settled(x)'
<1>1. \A c \in hand[x] : c \in Engine /\ vm[c] # None
  BY DEF TypeOK, SweepTypes, Knows
<1> QED
  BY <1>1 DEF Settled, Ages

(* The sweep's own steps see to it. *)
LEMMA SettledOwn ==
  ASSUME TypeOK, NEW e \in Engine, Knows(e), Settled(e), Begin(e) \/ SweepStep(e) \/ Crash(e)
  PROVE  Settled(e)'
<1>a. DOMAIN pc = Engine /\ DOMAIN vm = Engine /\ DOMAIN hand = Engine
  BY DEF TypeOK, BenchTypes, RunTypes, SweepTypes
<1> USE <1>a DEF Settled, Goto, outsideVars, sweepVars
<1>1. ASSUME Begin(e) PROVE Settled(e)'
  BY <1>1 DEF Begin
<1>2. ASSUME List(e) PROVE Settled(e)'
  BY <1>2 DEF List
<1>3. ASSUME ListFails(e) PROVE Settled(e)'
  BY <1>3 DEF ListFails
<1>4. ASSUME NEW c \in Engine, ReadState(e, c) PROVE Settled(e)'
  BY <1>4 DEF ReadState
<1>5. ASSUME Select(e) PROVE Settled(e)'
  BY <1>5 DEF Select
<1>6. ASSUME NEW c \in Engine, SweepStop(e, c) PROVE Settled(e)'
  BY <1>6 DEF SweepStop
<1>7. ASSUME SweepDelete(e) PROVE Settled(e)'
  <2>1. PICK c \in hand[e] : \/ vm' = [vm EXCEPT ![c] = IF Registered(c) THEN "reaped" ELSE @]
                              \/ fault' = fault \cup {c}
    BY <1>7 DEF SweepDelete
  <2>2. hand[e] = {c} /\ c \in Engine /\ hand' = hand
    BY <1>7, <2>1 DEF SweepDelete, TypeOK, SweepTypes, Knows
  <2>3. ~Registered(c)' \/ c \in fault'
    BY <2>1, <2>2 DEF Registered
  <2> QED
    BY <2>2, <2>3
<1>8. ASSUME SweepForget(e) PROVE Settled(e)'
  BY <1>8 DEF SweepForget
<1>9. ASSUME SweepReturns(e) PROVE Settled(e)'
  BY <1>9 DEF SweepReturns
<1>10. ASSUME Proceed(e) PROVE Settled(e)'
  BY <1>10 DEF Proceed, ForgetSweep
<1>11. ASSUME Crash(e) PROVE Settled(e)'
  BY <1>11 DEF Crash, ForgetSweep
<1> QED
  BY <1>1, <1>2, <1>3, <1>4, <1>5, <1>6, <1>7, <1>8, <1>9, <1>10, <1>11 DEF SweepStep

(* No VM gets out of sight unknown. *)
LEMMA OrphanKept ==
  ASSUME TypeOK, LifeInv, SweepInv, OrphanInv, [Next]_vars
  PROVE  OrphanInv'
<1>1. Ages /\ Functions /\ fault \subseteq fault' /\ \A x \in Engine : Tracked(x)'
  BY VmsAge, TypesAreFunctions, TrackedKept
<1>2. ASSUME NEW e \in Engine, Begin(e) \/ SweepStep(e) \/ Crash(e), NEW x \in Engine PROVE Settled(x)'
  <2>1. CASE x = e
    BY <1>2, <2>1, SettledOwn DEF SweepInv, OrphanInv
  <2>2. CASE x # e
    BY <1>1, <1>2, <2>2, SettledStill, SweepsUndisturbed DEF Undisturbed, SweepInv, OrphanInv
  <2> QED
    BY <2>1, <2>2
<1>3. ASSUME NEW e \in Engine, RunStep(e), NEW x \in Engine PROVE Settled(x)'
  <2>1. hand' = hand
    BY <1>3 DEF RunStep, outsideVars, sweepVars
  <2>2. CASE pc'[x] = pc[x]
    BY <1>1, <2>1, <2>2, SettledStill DEF SweepInv, OrphanInv
  <2>3. CASE pc'[x] # pc[x]
    <3>1. x = e
      BY <1>1, <1>3, <2>3, OthersAlike DEF Alike
    <3> QED
      BY <1>1, <1>3, <2>3, <3>1, RunPlaces DEF Settled, SweepPlace
  <2> QED
    BY <2>2, <2>3
<1>4. ASSUME Tick \/ UNCHANGED vars, NEW x \in Engine PROVE Settled(x)'
  BY <1>1, <1>4, SettledStill DEF Tick, vars, sweepVars, outsideVars, runVars, SweepInv,
     OrphanInv
<1> QED
  BY <1>1, <1>2, <1>3, <1>4 DEF Next, OrphanInv

(* Going on to the next leg is no result yet. *)
LEMMA ToldLegOver ==
  ASSUME Functions, RunTypes, NEW e \in Engine, NEW kind, LegOver(e, kind),
         leg[e] \in 1..7, pc[e] \in LegPlace, Told(e), UNCHANGED <<result, code>>,
         leg[e] \in 6..7 => code[e] = "zero_or_one"
  PROVE  Told(e)'
<1>1. leg' = [leg EXCEPT ![e] = leg[e] + 1] /\ pc' = [pc EXCEPT ![e] = "begin"]
  BY LegOverMoves
<1>2. leg'[e] = leg[e] + 1 /\ pc'[e] = "begin" /\ result[e] = None
  BY <1>1 DEF Functions, Told
<1> QED
  BY <1>2 DEF Told, SweepPlace

(* A leg's failure is an error. *)
LEMMA ToldLegFails ==
  ASSUME Functions, NEW e \in Engine, LegFails(e)
  PROVE  Told(e)'
<1>1. pc'[e] = "unwinding" /\ result'[e] = "error"
  BY DEF Functions, LegFails, Goto
<1> QED
  BY <1>1 DEF Told, SweepPlace, LegPlace

(* A result is told on evidence. *)
LEMMA ToldByRun ==
  ASSUME Functions, RunTypes, NEW e \in Engine, Life(e), Told(e), RunStep(e)
  PROVE  Told(e)'
<1>b. LegIs(e)
  BY WhichLeg
<1> USE <1>b DEF Functions, Life, Told, Goto, benchVars, runVars, LegFails, testVars, None,
        Working, SweepPlace, LegPlace, EndPlace, LegIs, SubSteps, Testing
<1>1. ASSUME BeginLeg(e) PROVE Told(e)'
  BY <1>1 DEF BeginLeg
<1>2. ASSUME CheckContext(e) PROVE Told(e)'
  <2>1. CASE cancelled[e]
    BY <1>2, <2>1, ToldLegFails DEF CheckContext
  <2>2. CASE ~cancelled[e]
    BY <1>2, <2>2 DEF CheckContext
  <2> QED
    BY <2>1, <2>2
<1>3. ASSUME SendClone(e) PROVE Told(e)'
  BY <1>3 DEF SendClone
<1>4. ASSUME StartTests(e) PROVE Told(e)'
  BY <1>4 DEF StartTests
<1>5. ASSUME Output(e) PROVE Told(e)'
  BY <1>5 DEF Output
<1>6. ASSUME Join(e) PROVE Told(e)'
  <2>1. CASE code[e] # "zero_or_one"
    BY <1>6, <2>1, ToldLegFails DEF Join
  <2>2. CASE code[e] = "zero_or_one"
    <3>1. LegOver(e, "success") /\ leg[e] = 6 /\ UNCHANGED <<code, result>> /\ pc[e] = "joining"
      BY <1>6, <2>2 DEF Join
    <3>2. leg[e] \in 1..7 /\ pc[e] \in LegPlace
      BY <3>1
    <3> QED
      BY <2>2, <3>1, <3>2, ToldLegOver
  <2> QED
    BY <2>1, <2>2
<1>7. ASSUME Parse(e) PROVE Told(e)'
  <2>1. leg[e] = 8 /\ pc[e] = "work" /\ UNCHANGED <<code, file>> /\ code[e] = "zero_or_one"
    BY <1>7 DEF Parse
  <2>2. CASE LegFails(e)
    BY <2>2, ToldLegFails
  <2>3. CASE /\ file[e] \in {"passes", "fails"}
             /\ result' = [result EXCEPT ![e] = IF file[e] = "fails" THEN "failed" ELSE "passed"]
             /\ LegOver(e, "success")
    <3>1. pc' = [pc EXCEPT ![e] = "unwinding"]
      BY <2>1, <2>3, LegsAre DEF LegOver
    <3>2. pc'[e] = "unwinding" /\ result'[e] = IF file[e] = "fails" THEN "failed" ELSE "passed"
      BY <2>3, <3>1
    <3> QED
      BY <2>1, <2>3, <3>2
  <2> QED
    BY <1>7, <2>2, <2>3 DEF Parse
<1>8. ASSUME Unwind(e) PROVE Told(e)'
  BY <1>8 DEF Unwind
<1>9. ASSUME CleanupStop(e) PROVE Told(e)'
  BY <1>9 DEF CleanupStop
<1>10. ASSUME CleanupDelete(e) PROVE Told(e)'
  BY <1>10 DEF CleanupDelete
<1>11. ASSUME CleanupState(e) PROVE Told(e)'
  BY <1>11 DEF CleanupState
<1>12. ASSUME Close(e) PROVE Told(e)'
  BY <1>12 DEF Close
<1>13. ASSUME ProbeEmits(e) PROVE Told(e)'
  BY <1>13 DEF ProbeEmits
<1>14. ASSUME ProberStops(e) PROVE Told(e)'
  BY <1>14 DEF ProberStops
<1>15. ASSUME CopyWorktree(e) PROVE Told(e)'
  <2>1. PICK kind : LegOver(e, kind)
    BY <1>15 DEF CopyWorktree
  <2>2. leg[e] \in {1} /\ pc[e] \in {"work", "wait_ip"} /\ UNCHANGED <<result, code>>
    BY <1>15 DEF CopyWorktree
  <2>3. leg[e] \in 1..7 /\ (leg[e] \in 6..7 => code[e] = "zero_or_one")
    BY <2>2
  <2> QED
    BY <2>1, <2>2, <2>3, ToldLegOver
<1>16. ASSUME GuestCommand(e) PROVE Told(e)'
  <2>1. PICK kind : LegOver(e, kind)
    BY <1>16 DEF GuestCommand
  <2>2. leg[e] \in 3..5 /\ pc[e] \in {"work", "wait_ip"} /\ UNCHANGED <<result, code>>
    BY <1>16 DEF GuestCommand
  <2>3. leg[e] \in 1..7 /\ (leg[e] \in 6..7 => code[e] = "zero_or_one")
    BY <2>2
  <2> QED
    BY <2>1, <2>2, <2>3, ToldLegOver
<1>17. ASSUME SkipBuild(e) PROVE Told(e)'
  <2>1. PICK kind : LegOver(e, kind)
    BY <1>17 DEF SkipBuild
  <2>2. leg[e] \in 3..5 /\ pc[e] \in {"work", "wait_ip"} /\ UNCHANGED <<result, code>>
    BY <1>17 DEF SkipBuild
  <2>3. leg[e] \in 1..7 /\ (leg[e] \in 6..7 => code[e] = "zero_or_one")
    BY <2>2
  <2> QED
    BY <2>1, <2>2, <2>3, ToldLegOver
<1>18. ASSUME CloneAnswered(e) PROVE Told(e)'
  BY <1>18 DEF CloneAnswered
<1>19. ASSUME WriteState(e) PROVE Told(e)'
  BY <1>19 DEF WriteState
<1>20. ASSUME SetMemory(e) PROVE Told(e)'
  BY <1>20 DEF SetMemory
<1>21. ASSUME Boot(e) PROVE Told(e)'
  BY <1>21 DEF Boot
<1>22. ASSUME WaitIP(e) PROVE Told(e)'
  <2>1. PICK kind : LegOver(e, kind)
    BY <1>22 DEF WaitIP
  <2>2. leg[e] \in {2} /\ pc[e] \in {"work", "wait_ip"} /\ UNCHANGED <<result, code>>
    BY <1>22 DEF WaitIP
  <2>3. leg[e] \in 1..7 /\ (leg[e] \in 6..7 => code[e] = "zero_or_one")
    BY <2>2
  <2> QED
    BY <2>1, <2>2, <2>3, ToldLegOver
<1>23. ASSUME TestsExit(e) PROVE Told(e)'
  BY <1>23 DEF TestsExit
<1>24. ASSUME Drain(e) PROVE Told(e)'
  <2>1. PICK kind : LegOver(e, kind)
    BY <1>24 DEF Drain
  <2>2. leg[e] \in {7} /\ pc[e] \in {"work", "wait_ip"} /\ UNCHANGED <<result, code>>
    BY <1>24 DEF Drain
  <2>3. leg[e] \in 1..7 /\ (leg[e] \in 6..7 => code[e] = "zero_or_one")
    BY <2>2
  <2> QED
    BY <2>1, <2>2, <2>3, ToldLegOver
<1>25. ASSUME CommandFails(e) PROVE Told(e)'
  BY <1>25, ToldLegFails DEF CommandFails
<1>26. ASSUME CloneFails(e) PROVE Told(e)'
  BY <1>26, ToldLegFails DEF CloneFails
<1>27. ASSUME SubStepFails(e) PROVE Told(e)'
  BY <1>27, ToldLegFails DEF SubStepFails
<1>28. ASSUME TestsFail(e) PROVE Told(e)'
  BY <1>28 DEF TestsFail
<1>29. ASSUME ServeClone(e) PROVE Told(e)'
  BY <1>29 DEF ServeClone
<1>30. ASSUME DropOrder(e) PROVE Told(e)'
  BY <1>30 DEF DropOrder
<1>31. ASSUME ServeBoot(e) PROVE Told(e)'
  BY <1>31 DEF ServeBoot
<1>32. ASSUME GuestDies(e) PROVE Told(e)'
  BY <1>32 DEF GuestDies
<1>33. ASSUME ProbeBegins(e) PROVE Told(e)'
  BY <1>33 DEF ProbeBegins
<1>34. ASSUME ProbeAnswers(e) PROVE Told(e)'
  BY <1>34 DEF ProbeAnswers
<1>35. ASSUME Interrupted(e) PROVE Told(e)'
  BY <1>35 DEF Interrupted, Cancel
<1> QED
  BY <1>1, <1>2, <1>3, <1>4, <1>5, <1>6, <1>7, <1>8, <1>9, <1>10, <1>11, <1>12, <1>13, <1>14,
     <1>15, <1>16, <1>17, <1>18, <1>19, <1>20, <1>21, <1>22, <1>23, <1>24, <1>25, <1>26, <1>27,
     <1>28, <1>29, <1>30, <1>31, <1>32, <1>33, <1>34, <1>35 DEF RunStep, MainStep, CleanupStep, ProberStep,
     Answer, Failure, BenchStep

(* A sweep or a death tells nothing. *)
LEMMA ReportKept ==
  ASSUME TypeOK, ReportInv, LifeInv, [Next]_vars
  PROVE  ReportInv'
<1> USE DEF ReportInv, Told, Functions, Goto, benchVars, ownVars, runVars, testVars, None,
        SweepPlace, LegPlace, EndPlace
<1>0. Functions
  BY TypesAreFunctions
<1> USE <1>0
<1>1. ASSUME NEW e \in Engine, Begin(e) PROVE ReportInv'
  BY <1>1 DEF Begin
<1>2. ASSUME NEW e \in Engine, List(e) PROVE ReportInv'
  BY <1>2 DEF List
<1>3. ASSUME NEW e \in Engine, ListFails(e) PROVE ReportInv'
  BY <1>3 DEF ListFails
<1>4. ASSUME NEW e \in Engine, NEW c \in Engine, ReadState(e, c) PROVE ReportInv'
  BY <1>4 DEF ReadState
<1>5. ASSUME NEW e \in Engine, Select(e) PROVE ReportInv'
  BY <1>5 DEF Select
<1>6. ASSUME NEW e \in Engine, NEW c \in Engine, SweepStop(e, c) PROVE ReportInv'
  BY <1>6 DEF SweepStop
<1>7. ASSUME NEW e \in Engine, SweepDelete(e) PROVE ReportInv'
  BY <1>7 DEF SweepDelete
<1>8. ASSUME NEW e \in Engine, SweepForget(e) PROVE ReportInv'
  BY <1>8 DEF SweepForget
<1>9. ASSUME NEW e \in Engine, SweepReturns(e) PROVE ReportInv'
  BY <1>9 DEF SweepReturns
<1>10. ASSUME NEW e \in Engine, Proceed(e) PROVE ReportInv'
  <2>1. UNCHANGED ownVars /\ pc[e] \in {"swept", "unswept"}
    BY <1>10 DEF Proceed
  <2>2. \A x \in Engine \ {e} : pc'[x] = pc[x]
    BY <1>10 DEF Proceed
  <2>3. pc'[e] \in {"idle", "begin"}
    BY <1>10 DEF Proceed
  <2>4. leg[e] = 1 /\ result[e] = None
    BY <2>1
  <2> QED
    BY <2>1, <2>2, <2>3, <2>4
<1>11. ASSUME NEW e \in Engine, Crash(e) PROVE ReportInv'
  BY <1>11 DEF Crash, ForgetRun
<1>12. ASSUME NEW e \in Engine, RunStep(e) PROVE ReportInv'
  <2>1. Told(e)'
    BY <1>12, ToldByRun DEF TypeOK, LifeInv
  <2>2. ASSUME NEW x \in Engine \ {e} PROVE Told(x)'
    BY <1>12, OthersAlike DEF Alike
  <2> QED
    BY <2>1, <2>2
<1>13. CASE Tick
  BY <1>13 DEF Tick
<1>14. CASE UNCHANGED vars
  BY <1>14 DEF vars
<1> QED
  BY <1>1, <1>2, <1>3, <1>4, <1>5, <1>6, <1>7, <1>8, <1>9, <1>10, <1>11, <1>12, <1>13, <1>14
     DEF Next, SweepStep

(* What a step shows: nothing, the start of a leg, something within a leg   *)
(* or its end, the close of the stream, or the end of the process.          *)
Shows(e) ==
  \/ last'[e] = last[e] /\ (pc'[e] \in Over <=> pc[e] \in Over)
  \/ pc[e] = "begin" /\ pc'[e] = "check" /\ last'[e] = <<"start", Legs[leg[e]]>>
  \/ /\ pc[e] \in LegPlace \ {"begin"} /\ pc'[e] \notin Over
     /\ \E kind \in {"output", "liveness", "success", "skipped", "failure"} :
          last'[e] = <<kind, Legs[leg[e]]>>
  \/ pc[e] = "closing" /\ pc'[e] = "returned" /\ last'[e] = last[e]
  \/ pc[e] \notin Over /\ pc'[e] = "dead" /\ last'[e] = <<"nothing", None>>

(* All of that is a step of the stream that the consumers rely on. *)
LEMMA ShowsAStream ==
  ASSUME RunTypes, NEW e \in Engine, Streamed(e), Shows(e)
  PROVE  [Stream(e)!Next]_<<Shown(last[e]), pc[e] \in {"returned", "dead"}>>
<1> DEFINE s == Shown(last[e])
           t == Shown(last'[e])
<1>1. leg[e] \in 1..8 /\ Len(Legs) = 8
  BY LegsAre DEF RunTypes
<1>2. CASE last'[e] = last[e] /\ (pc'[e] \in Over <=> pc[e] \in Over)
  BY <1>2 DEF Shown, Over
<1>3. CASE pc[e] = "begin" /\ pc'[e] = "check" /\ last'[e] = <<"start", Legs[leg[e]]>>
  <2>1. t = <<"start", Legs[leg[e]]>>
    BY <1>3 DEF Shown
  <2>2. CASE leg[e] = 1
    <3>1. s = <<"nothing", None>>
      BY <1>3, <2>2 DEF Streamed, Shown
    <3>2. Stream(e)!Start
      BY <1>3, <2>1, <2>2, <3>1 DEF Stream!Start, Stream!Nothing, None
    <3> QED
      BY <3>2 DEF Stream!Next
  <2>3. CASE leg[e] > 1
    <3>1. PICK kind \in {"success", "skipped"} : last[e] = <<kind, Legs[leg[e] - 1]>>
      BY <1>3, <2>3 DEF Streamed
    <3>2. s[1] \in {"success", "skipped"} /\ s[2] = Legs[leg[e] - 1]
      BY <3>1 DEF Shown
    <3> DEFINE i == leg[e] - 1
    <3>3. i \in 1..(Len(Legs) - 1) /\ i + 1 = leg[e]
      BY <1>1, <2>3
    <3> HIDE DEF i
    <3>4. s[2] = Legs[i] /\ t = <<"start", Legs[i + 1]>>
      BY <2>1, <3>2, <3>3 DEF i
    <3>5. Stream(e)!Start
      BY <1>3, <3>2, <3>3, <3>4 DEF Stream!Start
    <3> QED
      BY <3>5 DEF Stream!Next
  <2> QED
    BY <1>1, <2>2, <2>3
<1>4. CASE /\ pc[e] \in LegPlace \ {"begin"} /\ pc'[e] \notin Over
           /\ \E kind \in {"output", "liveness", "success", "skipped", "failure"} :
                last'[e] = <<kind, Legs[leg[e]]>>
  <2>1. PICK kind \in {"start", "output", "liveness"} : last[e] = <<kind, Legs[leg[e]]>>
    BY <1>4 DEF Streamed
  <2>2. s[1] \in {"start", "inner"} /\ s[2] = Legs[leg[e]]
    BY <2>1 DEF Shown
  <2>3. pc[e] \notin Over
    BY <1>4 DEF Over, LegPlace
  <2>4. PICK next \in {"output", "liveness", "success", "skipped", "failure"} :
          last'[e] = <<next, Legs[leg[e]]>>
    BY <1>4
  <2>5. CASE next \in {"output", "liveness"}
    <3>1. t = <<"inner", s[2]>>
      BY <2>2, <2>4, <2>5 DEF Shown
    <3>2. Stream(e)!Inner
      BY <1>4, <2>2, <2>3, <3>1 DEF Stream!Inner, Stream!Open, Over
    <3> QED
      BY <3>2 DEF Stream!Next
  <2>6. CASE next \in {"success", "skipped", "failure"}
    <3>1. t = <<next, s[2]>>
      BY <2>2, <2>4, <2>6 DEF Shown
    <3>2. Stream(e)!End
      BY <1>4, <2>2, <2>3, <2>6, <3>1 DEF Stream!End, Stream!Ends, Stream!Open, Over
    <3> QED
      BY <3>2 DEF Stream!Next
  <2> QED
    BY <2>4, <2>5, <2>6
<1>5. CASE pc[e] = "closing" /\ pc'[e] = "returned" /\ last'[e] = last[e]
  <2>1. PICK kind \in {"success", "skipped", "failure"} : last[e] = <<kind, Legs[leg[e]]>>
    BY <1>5 DEF Streamed, EndPlace
  <2>2. s[1] \in {"success", "skipped", "failure"}
    BY <2>1 DEF Shown
  <2>3. Stream(e)!Close
    BY <1>5, <2>2 DEF Stream!Close, Stream!Open, Stream!Nothing, Shown
  <2> QED
    BY <2>3 DEF Stream!Next
<1>6. CASE pc[e] \notin Over /\ pc'[e] = "dead" /\ last'[e] = <<"nothing", None>>
  <2>1. t = <<"nothing", None>>
    BY <1>6 DEF Shown
  <2>2. Stream(e)!Die
    BY <1>6, <2>1 DEF Stream!Die, Stream!Nothing, None, Over
  <2> QED
    BY <2>2 DEF Stream!Next
<1> QED
  BY <1>2, <1>3, <1>4, <1>5, <1>6 DEF Shows

(* The end of a leg is shown before the start of the next. *)
LEMMA LegOverShows ==
  ASSUME Functions, RunTypes, NEW e \in Engine, Streamed(e),
         NEW kind \in {"success", "skipped"}, LegOver(e, kind),
         pc[e] \in LegPlace \ {"begin"}, prober[e] \in {"off", "ended"}, UNCHANGED prober
  PROVE  Shows(e) /\ Streamed(e)'
<1>1. last'[e] = <<kind, Legs[leg[e]]>>
  BY DEF LegOver, Emit, Functions
<1>2. leg[e] \in 1..8
  BY LegsAre DEF RunTypes
<1>3. \/ leg[e] < 8 /\ leg'[e] = leg[e] + 1 /\ pc'[e] = "begin"
      \/ leg'[e] = leg[e] /\ pc'[e] = "unwinding"
  BY LegOverMoves DEF Functions
<1>4. Shows(e)
  BY <1>1, <1>3 DEF Shows, Over
<1>5. CASE leg'[e] = leg[e] + 1 /\ pc'[e] = "begin"
  <2>1. leg'[e] - 1 = leg[e] /\ leg'[e] # 1
    BY <1>2, <1>5
  <2> QED
    BY <1>1, <1>4, <1>5, <2>1 DEF Streamed, SweepPlace, LegPlace, EndPlace
<1>6. CASE leg'[e] = leg[e] /\ pc'[e] = "unwinding"
  BY <1>1, <1>4, <1>6 DEF Streamed, SweepPlace, LegPlace, EndPlace
<1> QED
  BY <1>3, <1>5, <1>6

(* A failure is the last that is shown. *)
LEMMA LegFailsShows ==
  ASSUME Functions, NEW e \in Engine, Streamed(e), LegFails(e),
         pc[e] \in LegPlace \ {"begin"}, prober[e] \in {"off", "ended"}, UNCHANGED prober
  PROVE  Shows(e) /\ Streamed(e)'
<1>1. last'[e] = <<"failure", Legs[leg[e]]>> /\ leg'[e] = leg[e] /\ pc'[e] = "unwinding"
  BY DEF LegFails, Emit, Goto, Functions
<1> QED
  BY <1>1 DEF Shows, Streamed, Over, SweepPlace, LegPlace, EndPlace

(* A run's steps show a stream. *)
LEMMA ShowsByRun ==
  ASSUME Functions, RunTypes, NEW e \in Engine, Life(e), Streamed(e), RunStep(e)
  PROVE  Shows(e) /\ Streamed(e)'
<1>b. LegIs(e)
  BY WhichLeg
<1> USE <1>b DEF Functions, Life, Streamed, Shows, Over, Emit, Goto, benchVars, runVars,
        testVars, None, Working, SweepPlace, LegPlace, EndPlace, LegIs, SubSteps, Testing
<1>1. ASSUME BeginLeg(e) PROVE Shows(e) /\ Streamed(e)'
  BY <1>1 DEF BeginLeg
<1>2. ASSUME CheckContext(e) PROVE Shows(e) /\ Streamed(e)'
  <2>1. CASE cancelled[e]
    <3>1. LegFails(e) /\ pc[e] = "check" /\ UNCHANGED prober
      BY <1>2, <2>1 DEF CheckContext
    <3> QED
      BY <3>1, LegFailsShows
  <2>2. CASE ~cancelled[e]
    BY <1>2, <2>2 DEF CheckContext
  <2> QED
    BY <2>1, <2>2
<1>3. ASSUME SendClone(e) PROVE Shows(e) /\ Streamed(e)'
  BY <1>3 DEF SendClone
<1>4. ASSUME StartTests(e) PROVE Shows(e) /\ Streamed(e)'
  BY <1>4 DEF StartTests
<1>5. ASSUME Output(e) PROVE Shows(e) /\ Streamed(e)'
  BY <1>5 DEF Output
<1>6. ASSUME Join(e) PROVE Shows(e) /\ Streamed(e)'
  <2>1. (LegOver(e, "success") \/ LegFails(e)) /\ pc[e] = "joining" /\ prober[e] = "ended" /\ UNCHANGED prober
    BY <1>6 DEF Join
  <2> QED
    BY <2>1, LegOverShows, LegFailsShows
<1>7. ASSUME Parse(e) PROVE Shows(e) /\ Streamed(e)'
  <2>1. (LegOver(e, "success") \/ LegFails(e)) /\ pc[e] = "work" /\ UNCHANGED prober
    BY <1>7 DEF Parse
  <2> QED
    BY <2>1, LegOverShows, LegFailsShows
<1>8. ASSUME Unwind(e) PROVE Shows(e) /\ Streamed(e)'
  BY <1>8 DEF Unwind
<1>9. ASSUME CleanupStop(e) PROVE Shows(e) /\ Streamed(e)'
  BY <1>9 DEF CleanupStop
<1>10. ASSUME CleanupDelete(e) PROVE Shows(e) /\ Streamed(e)'
  BY <1>10 DEF CleanupDelete
<1>11. ASSUME CleanupState(e) PROVE Shows(e) /\ Streamed(e)'
  BY <1>11 DEF CleanupState
<1>12. ASSUME Close(e) PROVE Shows(e) /\ Streamed(e)'
  BY <1>12 DEF Close
<1>13. ASSUME ProbeEmits(e) PROVE Shows(e) /\ Streamed(e)'
  <2>1. prober[e] = "emitting" /\ UNCHANGED <<pc, leg>> /\ last'[e] = <<"liveness", "run_tests">>
        /\ prober' = [prober EXCEPT ![e] = "waiting"]
    BY <1>13 DEF ProbeEmits
  <2>2. pc[e] \in Testing /\ Legs[leg[e]] = "run_tests"
    BY <2>1, LegsAre
  <2> QED
    BY <2>1, <2>2
<1>14. ASSUME ProberStops(e) PROVE Shows(e) /\ Streamed(e)'
  BY <1>14 DEF ProberStops
<1>15. ASSUME CopyWorktree(e) PROVE Shows(e) /\ Streamed(e)'
  <2>1. LegOver(e, "success") /\ pc[e] \in {"work", "wait_ip"} /\ UNCHANGED prober
    BY <1>15 DEF CopyWorktree
  <2> QED
    BY <2>1, LegOverShows
<1>16. ASSUME GuestCommand(e) PROVE Shows(e) /\ Streamed(e)'
  <2>1. LegOver(e, "success") /\ pc[e] \in {"work", "wait_ip"} /\ UNCHANGED prober
    BY <1>16 DEF GuestCommand
  <2> QED
    BY <2>1, LegOverShows
<1>17. ASSUME SkipBuild(e) PROVE Shows(e) /\ Streamed(e)'
  <2>1. LegOver(e, "skipped") /\ pc[e] \in {"work", "wait_ip"} /\ UNCHANGED prober
    BY <1>17 DEF SkipBuild
  <2> QED
    BY <2>1, LegOverShows
<1>18. ASSUME CloneAnswered(e) PROVE Shows(e) /\ Streamed(e)'
  BY <1>18 DEF CloneAnswered
<1>19. ASSUME WriteState(e) PROVE Shows(e) /\ Streamed(e)'
  BY <1>19 DEF WriteState
<1>20. ASSUME SetMemory(e) PROVE Shows(e) /\ Streamed(e)'
  BY <1>20 DEF SetMemory
<1>21. ASSUME Boot(e) PROVE Shows(e) /\ Streamed(e)'
  BY <1>21 DEF Boot
<1>22. ASSUME WaitIP(e) PROVE Shows(e) /\ Streamed(e)'
  <2>1. LegOver(e, "success") /\ pc[e] \in {"work", "wait_ip"} /\ UNCHANGED prober
    BY <1>22 DEF WaitIP
  <2> QED
    BY <2>1, LegOverShows
<1>23. ASSUME TestsExit(e) PROVE Shows(e) /\ Streamed(e)'
  BY <1>23 DEF TestsExit
<1>24. ASSUME Drain(e) PROVE Shows(e) /\ Streamed(e)'
  <2>1. LegOver(e, "success") /\ pc[e] \in {"work", "wait_ip"} /\ UNCHANGED prober
    BY <1>24 DEF Drain
  <2> QED
    BY <2>1, LegOverShows
<1>25. ASSUME CommandFails(e) PROVE Shows(e) /\ Streamed(e)'
  <2>1. LegFails(e) /\ pc[e] \in LegPlace \ ({"begin"} \cup Testing) /\ UNCHANGED prober
    BY <1>25 DEF CommandFails
  <2>2. prober[e] \in {"off", "ended"}
    BY <2>1
  <2> QED
    BY <2>1, <2>2, LegFailsShows
<1>26. ASSUME CloneFails(e) PROVE Shows(e) /\ Streamed(e)'
  <2>1. LegFails(e) /\ pc[e] \in LegPlace \ ({"begin"} \cup Testing) /\ UNCHANGED prober
    BY <1>26 DEF CloneFails
  <2>2. prober[e] \in {"off", "ended"}
    BY <2>1
  <2> QED
    BY <2>1, <2>2, LegFailsShows
<1>27. ASSUME SubStepFails(e) PROVE Shows(e) /\ Streamed(e)'
  <2>1. LegFails(e) /\ pc[e] \in LegPlace \ ({"begin"} \cup Testing) /\ UNCHANGED prober
    BY <1>27 DEF SubStepFails
  <2>2. prober[e] \in {"off", "ended"}
    BY <2>1
  <2> QED
    BY <2>1, <2>2, LegFailsShows
<1>28. ASSUME TestsFail(e) PROVE Shows(e) /\ Streamed(e)'
  BY <1>28 DEF TestsFail
<1>29. ASSUME ServeClone(e) PROVE Shows(e) /\ Streamed(e)'
  BY <1>29 DEF ServeClone
<1>30. ASSUME DropOrder(e) PROVE Shows(e) /\ Streamed(e)'
  BY <1>30 DEF DropOrder
<1>31. ASSUME ServeBoot(e) PROVE Shows(e) /\ Streamed(e)'
  BY <1>31 DEF ServeBoot
<1>32. ASSUME GuestDies(e) PROVE Shows(e) /\ Streamed(e)'
  BY <1>32 DEF GuestDies
<1>33. ASSUME ProbeBegins(e) PROVE Shows(e) /\ Streamed(e)'
  BY <1>33 DEF ProbeBegins
<1>34. ASSUME ProbeAnswers(e) PROVE Shows(e) /\ Streamed(e)'
  BY <1>34 DEF ProbeAnswers
<1>35. ASSUME Interrupted(e) PROVE Shows(e) /\ Streamed(e)'
  BY <1>35 DEF Interrupted, Cancel
<1> QED
  BY <1>1, <1>2, <1>3, <1>4, <1>5, <1>6, <1>7, <1>8, <1>9, <1>10, <1>11, <1>12, <1>13, <1>14,
     <1>15, <1>16, <1>17, <1>18, <1>19, <1>20, <1>21, <1>22, <1>23, <1>24, <1>25, <1>26, <1>27,
     <1>28, <1>29, <1>30, <1>31, <1>32, <1>33, <1>34, <1>35 DEF RunStep, MainStep, CleanupStep, ProberStep,
     Answer, Failure, BenchStep

(* So do all steps. *)
LEMMA StreamKept ==
  ASSUME TypeOK, LifeInv, ReportInv, StreamInv, [Next]_vars
  PROVE  \A x \in Engine : Shows(x) /\ Streamed(x)'
<1> USE DEF StreamInv, Streamed, Shows, Over, Functions, Goto, benchVars, ownVars, runVars,
        testVars, None, SweepPlace, LegPlace, EndPlace, Testing
<1>0. Functions
  BY TypesAreFunctions
<1> USE <1>0
<1>1. ASSUME NEW e \in Engine, Begin(e) PROVE \A x \in Engine : Shows(x) /\ Streamed(x)'
  BY <1>1 DEF Begin
<1>2. ASSUME NEW e \in Engine, List(e) PROVE \A x \in Engine : Shows(x) /\ Streamed(x)'
  BY <1>2 DEF List
<1>3. ASSUME NEW e \in Engine, ListFails(e) PROVE \A x \in Engine : Shows(x) /\ Streamed(x)'
  BY <1>3 DEF ListFails
<1>4. ASSUME NEW e \in Engine, NEW c \in Engine, ReadState(e, c) PROVE \A x \in Engine : Shows(x) /\ Streamed(x)'
  BY <1>4 DEF ReadState
<1>5. ASSUME NEW e \in Engine, Select(e) PROVE \A x \in Engine : Shows(x) /\ Streamed(x)'
  BY <1>5 DEF Select
<1>6. ASSUME NEW e \in Engine, NEW c \in Engine, SweepStop(e, c) PROVE \A x \in Engine : Shows(x) /\ Streamed(x)'
  BY <1>6 DEF SweepStop
<1>7. ASSUME NEW e \in Engine, SweepDelete(e) PROVE \A x \in Engine : Shows(x) /\ Streamed(x)'
  BY <1>7 DEF SweepDelete
<1>8. ASSUME NEW e \in Engine, SweepForget(e) PROVE \A x \in Engine : Shows(x) /\ Streamed(x)'
  BY <1>8 DEF SweepForget
<1>9. ASSUME NEW e \in Engine, SweepReturns(e) PROVE \A x \in Engine : Shows(x) /\ Streamed(x)'
  BY <1>9 DEF SweepReturns
<1>10. ASSUME NEW e \in Engine, Proceed(e) PROVE \A x \in Engine : Shows(x) /\ Streamed(x)'
  BY <1>10 DEF Proceed, ReportInv, Told
<1>11. ASSUME NEW e \in Engine, Crash(e) PROVE \A x \in Engine : Shows(x) /\ Streamed(x)'
  BY <1>11 DEF Crash, ForgetRun
<1>12. ASSUME NEW e \in Engine, RunStep(e) PROVE \A x \in Engine : Shows(x) /\ Streamed(x)'
  <2>1. Shows(e) /\ Streamed(e)'
    BY <1>12, ShowsByRun DEF TypeOK, LifeInv
  <2>2. ASSUME NEW x \in Engine \ {e} PROVE Shows(x) /\ Streamed(x)'
    BY <1>12, OthersAlike DEF Alike
  <2> QED
    BY <2>1, <2>2
<1>13. CASE Tick
  BY <1>13 DEF Tick
<1>14. CASE UNCHANGED vars
  BY <1>14 DEF vars
<1> QED
  BY <1>1, <1>2, <1>3, <1>4, <1>5, <1>6, <1>7, <1>8, <1>9, <1>10, <1>11, <1>12, <1>13, <1>14
     DEF Next, SweepStep

(* Each part of the invariant holds of a bench as it is found: types, ... *)
LEMMA InitTypes == Init => TypeOK
<1> SUFFICES ASSUME Init PROVE TypeOK
  OBVIOUS
<1>1. BenchTypes
  BY DEF Init, BenchTypes, None
<1>2. RunTypes
  BY FirstLeg DEF Init, RunTypes, SweepPlace, LegPlace, EndPlace
<1>3. TTL \in 0..MaxTime /\ 0 \in 0..MaxTime
  BY TimeAssumption, MaxTimeNat DEF MaxTime
<1>4. SweepTypes
  BY <1>3 DEF Init, SweepTypes
<1> QED
  BY <1>1, <1>2, <1>4 DEF TypeOK

(* ... lives, ... *)
LEMMA InitLife == Init => LifeInv
<1> SUFFICES ASSUME Init, NEW e \in Engine PROVE Life(e)
  BY DEF LifeInv
<1>1. /\ pc[e] \in {"idle", "dead"} /\ (vm[e] # None => pc[e] = "dead")
      /\ order[e] = None /\ ~started[e] /\ vm[e] \in {None, "stopped", "running"}
      /\ deadline[e] = IF Registered(e) THEN TTL ELSE 0
  BY DEF Init
<1>2. vm[e] # None => deadline[e] # 0
  BY <1>1, TimeAssumption DEF Registered, None
<1>3. Before(e) => vm[e] = None /\ order[e] = None
  BY <1>1 DEF Before, SweepPlace
<1> QED
  BY <1>1, <1>2, <1>3 DEF Life, SubSteps, Testing, None

(* ... sweeps, which nobody is in, ... *)
LEMMA InitSweep == Init => SweepInv
<1> SUFFICES ASSUME Init, NEW e \in Engine PROVE Knows(e)
  BY DEF SweepInv
<1>1. /\ pc[e] \in {"idle", "dead"} /\ at[e] = 0 /\ now = 0
      /\ listed[e] = {} /\ hand[e] = {}
  BY DEF Init
<1> QED
  BY <1>1 DEF Knows, Sweeping, Reaping

(* ... orphans, which are known if they have no state file, ... *)
LEMMA InitOrphan == Init => OrphanInv
<1> SUFFICES ASSUME Init, NEW e \in Engine PROVE Tracked(e) /\ Settled(e)
  BY DEF OrphanInv
<1>1. /\ pc[e] \in {"idle", "dead"} /\ order[e] = None
      /\ Registered(e) /\ ~state[e] => e \in fault
  BY DEF Init
<1> QED
  BY <1>1 DEF Tracked, Settled, None

(* ... results, which nobody has, ... *)
LEMMA InitReport == Init => ReportInv
<1> SUFFICES ASSUME Init, NEW e \in Engine PROVE Told(e)
  BY DEF ReportInv
<1>1. pc[e] \in {"idle", "dead"} /\ leg[e] = 1 /\ result[e] = None
  BY DEF Init
<1> QED
  BY <1>1 DEF Told

(* ... and streams, which are empty. *)
LEMMA InitStream == Init => StreamInv
<1> SUFFICES ASSUME Init, NEW e \in Engine PROVE Streamed(e)
  BY DEF StreamInv
<1>1. pc[e] \in {"idle", "dead"} /\ last[e] = <<"nothing", None>> /\ prober[e] = "off"
  BY DEF Init
<1> QED
  BY <1>1 DEF Streamed, LegPlace, EndPlace

(* The inductive invariant: types, the lives of the runs and their VMs,     *)
(* what the sweeps know, and what the runs tell and show.                   *)
THEOREM Inductive == Spec => []IInv
<1>1. Init => IInv
  BY InitTypes, InitLife, InitSweep, InitOrphan, InitReport, InitStream DEF IInv
<1>2. IInv /\ [Next]_vars => IInv'
  BY BenchTypesKept, RunTypesKept, SweepTypesKept, LifeKept, SweepKept,
     OrphanKept, ReportKept, StreamKept DEF IInv, StreamInv, TypeOK
<1> QED
  BY <1>1, <1>2, PTL DEF Spec

(* Every state is well typed, a sweep only works on what it has listed, and *)
(* `gsd-test sweep` has no legs.                                            *)
THEOREM TypeCorrect == Spec => []TypeOK
<1>1. IInv => TypeOK
  BY DEF IInv
<1> QED
  BY <1>1, Inductive, PTL

(* A run's VM that no sweep will ever see got out of sight by a failure or  *)
(* by a death around the clone and the state file, and a run tells nothing  *)
(* but what the test command and the results file have said.                *)
THEOREM FleetCorrect == Spec => []Inv
<1>1. IInv => OrphanIsKnown
  BY DEF IInv, OrphanInv, Tracked, OrphanIsKnown
<1>2. IInv => TartReportTruth
  BY DEF IInv, ReportInv, Told, TartReportTruth
<1>3. IInv => Inv
  BY <1>1, <1>2 DEF IInv, Inv
<1> QED
  BY <1>3, Inductive, PTL

(* tartreaper.Sweep: when it returns, each VM whose state file it could     *)
(* read and that was due is gone or in its error, whoever else sweeps,      *)
(* boots or cleans up.                                                      *)
THEOREM SweepTruthful == Spec => []SweepTellsTruth
<1>1. IInv => SweepTellsTruth
  BY DEF IInv, SweepInv, Knows, Sweeping, Reaping, SweepTellsTruth
<1> QED
  BY <1>1, Inductive, PTL

(* tartreaper.Sweep without a lock stops and deletes nobody before its      *)
(* time, nobody of another branch before its grace time, and no VM without  *)
(* a state file.                                                            *)
THEOREM SparesForeign == Spec => ForeignSpared
<1> DEFINE Spared ==
      \A e, c \in Engine : hand'[e] = {c} /\ hand[e] # {c} =>
        /\ c \in found[e]
        /\ deadline[c] \in 1..now
        /\ scope[e] \in {Branch[c], Unscoped} \/ deadline[c] + Grace <= now
<1>1. ASSUME IInv, [Next]_vars, NEW e \in Engine, NEW c \in Engine, hand'[e] = {c}, hand[e] # {c}
      PROVE  SweepStop(e, c)
  <2>a. DOMAIN hand = Engine
    BY <1>1 DEF IInv, TypeOK, SweepTypes
  <2>1. \A x \in Engine : ~ (Begin(x) \/ List(x) \/ ListFails(x) \/ Select(x) \/ SweepReturns(x) \/ SweepDelete(x))
    BY <1>1 DEF Begin, List, ListFails, Select, SweepReturns, SweepDelete, outsideVars,
       sweepVars
  <2>2. \A x \in Engine, b \in Engine : ~ ReadState(x, b)
    BY <1>1 DEF ReadState
  <2>3. \A x \in Engine : ~ (SweepForget(x) \/ Proceed(x) \/ Crash(x))
    BY <1>1, <2>a DEF SweepForget, Proceed, Crash, ForgetSweep
  <2>4. \A x \in Engine : ~ RunStep(x)
    BY <1>1 DEF RunStep, outsideVars, sweepVars
  <2>5. ~ (Tick \/ UNCHANGED vars)
    BY <1>1 DEF Tick, vars, outsideVars, sweepVars
  <2>6. \A x \in Engine, b \in Engine : SweepStop(x, b) => x = e /\ b = c
    BY <1>1, <2>a DEF SweepStop
  <2> QED
    BY <1>1, <2>1, <2>2, <2>3, <2>4, <2>5, <2>6 DEF Next, SweepStep
<1>2. ASSUME IInv, NEW e \in Engine, NEW c \in Engine, SweepStop(e, c)
      PROVE  /\ c \in found[e]
             /\ deadline[c] \in 1..now
             /\ scope[e] \in {Branch[c], Unscoped} \/ deadline[c] + Grace <= now
  <2>1. at[e] <= now /\ at[e] \in Int /\ now \in Int /\ deadline[c] \in Nat /\ Grace \in Nat
    BY <1>2, MaxTimeNat, TimeAssumption DEF IInv, TypeOK, SweepTypes, SweepInv, Knows
  <2>2. c \in found[e] /\ Due(e, c)
    BY <1>2 DEF SweepStop, IInv, SweepInv, Knows, Reaping, Sweeping
  <2>3. vm[c] # None
    BY <1>2, <2>2 DEF IInv, TypeOK, SweepTypes, SweepInv, Knows
  <2>4. deadline[c] # 0
    BY <2>3, <1>2 DEF IInv, LifeInv, Life
  <2> QED
    BY <2>1, <2>2, <2>4 DEF Due
<1>3. IInv /\ [Next]_vars => [Spared]_vars
  BY <1>1, <1>2
<1> QED
  BY <1>3, Inductive, PTL DEF Spec, ForeignSpared

(* What a Tart run shows its consumers is what a Docker run does: legs in   *)
(* their order, each with one start and one end, everything else within     *)
(* them, nothing after a failure, and the close at the end.                 *)
THEOREM RefinesLegStream == Spec => ImplementsLegStream
<1> DEFINE I == \A e \in Engine : pc[e] = "idle" => Stream(e)!Init
           A == \A e \in Engine :
                  [Stream(e)!Next]_<<Shown(last[e]), pc[e] \in {"returned", "dead"}>>
<1>1. Init => I
  BY DEF Init, Stream!Init, Stream!Nothing, Shown, None
<1>2. IInv /\ [Next]_vars => [A]_vars
  BY StreamKept, ShowsAStream DEF IInv, TypeOK, StreamInv
<1> HIDE DEF I, A
<1>3. Spec => I /\ [][A]_vars
  BY <1>1, <1>2, Inductive, PTL DEF Spec
<1> QED
  BY <1>3 DEF ImplementsLegStream, I, A
=============================================================================
