------------------------- MODULE DockerReaperProofs -------------------------
(***************************************************************************)
(* Concurrent sweeps are safe without a lock, for any number of            *)
(* invocations, branches and times.  What makes them so is that a          *)
(* container, once it has started, never starts again and keeps its label: *)
(* a list that grows old can only name containers that have ended since.   *)
(***************************************************************************)
EXTENDS DockerReaper, TLAPS

Started == {"running", "ended", "killed", "removed"}

(* Whose container has started is past its own sweep. *)
StartInv ==
  \A c \in Engine : cont[c] \in Started => pc[c] \in {"legs", "attached", "done", "dead"}

(* A sweep has only seen containers that had started, and will only kill    *)
(* those that were due.                                                     *)
ListInv ==
  \A e \in Engine :
    /\ at[e] <= now
    /\ found[e] # {} => pc[e] \in {"killing", "checking", "swept"}
    /\ \A c \in found[e] : cont[c] \in Started
    /\ \A c \in todo[e] : Due(e, c)

(* Which of them are left: those to come, the one being checked, and those  *)
(* that the error names.                                                    *)
KillInv ==
  \A e \in Engine :
    /\ pc[e] = "swept" => todo[e] = {}
    /\ asked[e] # {} => pc[e] = "checking"
    /\ \A c \in found[e] \ (todo[e] \cup asked[e] \cup failed[e]) :
         Due(e, c) => cont[c] # "running"

IInv == TypeOK /\ StartInv /\ ListInv /\ KillInv

-----------------------------------------------------------------------------
(* The bound on time leaves room for every deadline. *)
LEMMA MaxTimeNat ==
  /\ MaxTime \in Nat
  /\ \A t \in 0..MaxTime : t <= MaxStart => t + TTL \in 0..MaxTime
  BY TimeAssumption DEF MaxTime

(* The two tiers of a list are what was due of it when the sweep began. *)
LEMMA ReapableIsDue ==
  ASSUME TypeOK, NEW e \in Engine
  PROVE  Reapable(Listed, at[e], scope[e]) = {c \in Listed : Due(e, c)}
<1>1. Listed \subseteq Engine
  BY DEF Listed
<1>2. at[e] \in Int /\ Grace \in Int /\ \A c \in Engine : label[c] \in Int
  BY TimeAssumption, MaxTimeNat DEF TypeOK
<1>3. OwnedBy(Listed, scope[e]) = {c \in Listed : scope[e] \in {Branch[c], Unscoped}}
  BY <1>1 DEF OwnedBy
<1>4. Overdue(OwnedBy(Listed, scope[e]), at[e])
        = {c \in Listed : label[c] <= at[e] /\ scope[e] \in {Branch[c], Unscoped}}
  BY <1>3 DEF Overdue
<1>5. Overdue(Listed, at[e] - Grace) = {c \in Listed : label[c] + Grace <= at[e]}
  BY <1>1, <1>2 DEF Overdue
<1> QED
  BY <1>4, <1>5 DEF Reapable, Due

(* Types are kept by every step. *)
LEMMA TypeKept == TypeOK /\ ListInv /\ [Next]_vars => TypeOK'
<1> SUFFICES ASSUME TypeOK, ListInv, [Next]_vars PROVE TypeOK'
  OBVIOUS
<1> USE DEF TypeOK, Goto, Place, SweepPlace, sweepVars, callVars, killVars
<1>1. ASSUME NEW e \in Engine, Begin(e) PROVE TypeOK'
  BY <1>1, MaxTimeNat, KindAssumption DEF Begin, Scopes, Scope
<1>2. ASSUME NEW e \in Engine, List(e) PROVE TypeOK'
  <2>1. Listed \in SUBSET Engine
    BY DEF Listed
  <2>2. /\ found' = [found EXCEPT ![e] = Listed]
        /\ todo' = [todo EXCEPT ![e] = {c \in Listed : Due(e, c)}]
    BY <1>2, ReapableIsDue DEF List
  <2>3. /\ pc' = [pc EXCEPT ![e] = "killing"]
        /\ UNCHANGED <<now, at, scope, asked, failed, label, cont, wedged>>
    BY <1>2 DEF List
  <2>4. asked[e] = {} /\ failed[e] = {}
    BY <1>2 DEF List, ListInv
  <2> QED
    BY <2>1, <2>2, <2>3, <2>4
<1>3. ASSUME NEW e \in Engine, ListFails(e) PROVE TypeOK'
  BY <1>3 DEF ListFails
<1>4. ASSUME NEW e \in Engine, NEW c \in Engine, Kill(e, c) PROVE TypeOK'
  BY <1>4 DEF Kill
<1>5. ASSUME NEW e \in Engine, NEW c \in Engine, KillErrs(e, c) PROVE TypeOK'
  BY <1>5 DEF KillErrs
<1>6. ASSUME NEW e \in Engine, CheckGone(e) PROVE TypeOK'
  BY <1>6 DEF CheckGone
<1>7. ASSUME NEW e \in Engine, CheckRunning(e) PROVE TypeOK'
  BY <1>7 DEF CheckRunning
<1>8. ASSUME NEW e \in Engine, SweepReturns(e) PROVE TypeOK'
  BY <1>8 DEF SweepReturns
<1>9. ASSUME NEW e \in Engine, Proceed(e) PROVE TypeOK'
  BY <1>9, MaxTimeNat DEF Proceed, ForgetSweep, Scope
<1>10. ASSUME NEW e \in Engine, RunIdle(e) PROVE TypeOK'
  BY <1>10 DEF RunIdle
<1>11. ASSUME NEW e \in Engine, Create(e) PROVE TypeOK'
  BY <1>11, MaxTimeNat DEF Create
<1>12. ASSUME NEW e \in Engine, Copy(e) PROVE TypeOK'
  BY <1>12 DEF Copy
<1>13. ASSUME NEW e \in Engine, Start(e) PROVE TypeOK'
  BY <1>13 DEF Start
<1>14. ASSUME NEW e \in Engine, StartReturns(e) PROVE TypeOK'
  BY <1>14 DEF StartReturns
<1>15. ASSUME NEW e \in Engine, LegsEnd(e) PROVE TypeOK'
  BY <1>15 DEF LegsEnd
<1>16. ASSUME NEW e \in Engine, GiveUp(e) PROVE TypeOK'
  BY <1>16 DEF GiveUp
<1>17. ASSUME NEW e \in Engine, ContainerEnds(e) PROVE TypeOK'
  BY <1>17 DEF ContainerEnds
<1>18. ASSUME NEW e \in Engine, Crash(e) PROVE TypeOK'
  BY <1>18, MaxTimeNat DEF Crash, ForgetSweep, Scope
<1>19. CASE Tick
  BY <1>19, MaxTimeNat DEF Tick
<1>20. CASE UNCHANGED vars
  BY <1>20 DEF vars, sweepVars, callVars, killVars
<1> QED
  BY <1>1, <1>2, <1>3, <1>4, <1>5, <1>6, <1>7, <1>8, <1>9, <1>10, <1>11, <1>12, <1>13, <1>14, <1>15, <1>16, <1>17, <1>18, <1>19, <1>20 DEF Next, SweepStep, RunStep

(* A container starts once, after its invocation's sweep. *)
LEMMA StartKept == TypeOK /\ StartInv /\ [Next]_vars => StartInv'
<1> SUFFICES ASSUME TypeOK, StartInv, [Next]_vars PROVE StartInv'
  OBVIOUS
<1> USE DEF TypeOK, StartInv, Started, Goto, sweepVars, callVars, killVars, SweepPlace
<1>1. ASSUME NEW e \in Engine, Begin(e) PROVE StartInv'
  BY <1>1 DEF Begin
<1>2. ASSUME NEW e \in Engine, List(e) PROVE StartInv'
  BY <1>2 DEF List
<1>3. ASSUME NEW e \in Engine, ListFails(e) PROVE StartInv'
  BY <1>3 DEF ListFails
<1>4. ASSUME NEW e \in Engine, NEW c \in Engine, Kill(e, c) PROVE StartInv'
  BY <1>4 DEF Kill
<1>5. ASSUME NEW e \in Engine, NEW c \in Engine, KillErrs(e, c) PROVE StartInv'
  BY <1>5 DEF KillErrs
<1>6. ASSUME NEW e \in Engine, CheckGone(e) PROVE StartInv'
  BY <1>6 DEF CheckGone
<1>7. ASSUME NEW e \in Engine, CheckRunning(e) PROVE StartInv'
  BY <1>7 DEF CheckRunning
<1>8. ASSUME NEW e \in Engine, SweepReturns(e) PROVE StartInv'
  BY <1>8 DEF SweepReturns
<1>9. ASSUME NEW e \in Engine, Proceed(e) PROVE StartInv'
  BY <1>9 DEF Proceed, ForgetSweep
<1>10. ASSUME NEW e \in Engine, RunIdle(e) PROVE StartInv'
  BY <1>10 DEF RunIdle
<1>11. ASSUME NEW e \in Engine, Create(e) PROVE StartInv'
  BY <1>11 DEF Create
<1>12. ASSUME NEW e \in Engine, Copy(e) PROVE StartInv'
  BY <1>12 DEF Copy
<1>13. ASSUME NEW e \in Engine, Start(e) PROVE StartInv'
  BY <1>13 DEF Start
<1>14. ASSUME NEW e \in Engine, StartReturns(e) PROVE StartInv'
  BY <1>14 DEF StartReturns
<1>15. ASSUME NEW e \in Engine, LegsEnd(e) PROVE StartInv'
  BY <1>15 DEF LegsEnd
<1>16. ASSUME NEW e \in Engine, GiveUp(e) PROVE StartInv'
  BY <1>16 DEF GiveUp
<1>17. ASSUME NEW e \in Engine, ContainerEnds(e) PROVE StartInv'
  BY <1>17 DEF ContainerEnds
<1>18. ASSUME NEW e \in Engine, Crash(e) PROVE StartInv'
  BY <1>18 DEF Crash, ForgetSweep
<1>19. CASE Tick
  BY <1>19 DEF Tick
<1>20. CASE UNCHANGED vars
  BY <1>20 DEF vars
<1> QED
  BY <1>1, <1>2, <1>3, <1>4, <1>5, <1>6, <1>7, <1>8, <1>9, <1>10, <1>11, <1>12, <1>13, <1>14, <1>15, <1>16, <1>17, <1>18, <1>19, <1>20 DEF Next, SweepStep, RunStep

(* What a sweep knows stays true while others start, end and remove. *)
LEMMA ListKept == TypeOK /\ StartInv /\ ListInv /\ [Next]_vars => ListInv'
<1> SUFFICES ASSUME TypeOK, StartInv, ListInv, [Next]_vars PROVE ListInv'
  OBVIOUS
<1> USE DEF TypeOK, StartInv, ListInv, Due, Started, Goto, sweepVars, callVars, killVars
<1>1. ASSUME NEW e \in Engine, Begin(e) PROVE ListInv'
  BY <1>1 DEF Begin
<1>2. ASSUME NEW e \in Engine, List(e) PROVE ListInv'
  <2>1. /\ found' = [found EXCEPT ![e] = Listed]
        /\ todo' = [todo EXCEPT ![e] = {c \in Listed : Due(e, c)}]
    BY <1>2, ReapableIsDue DEF List
  <2>2. \A c \in Listed : c \in Engine /\ cont[c] = "running"
    BY DEF Listed
  <2> QED
    BY <1>2, <2>1, <2>2 DEF List
<1>3. ASSUME NEW e \in Engine, ListFails(e) PROVE ListInv'
  BY <1>3 DEF ListFails
<1>4. ASSUME NEW e \in Engine, NEW c \in Engine, Kill(e, c) PROVE ListInv'
  BY <1>4 DEF Kill
<1>5. ASSUME NEW e \in Engine, NEW c \in Engine, KillErrs(e, c) PROVE ListInv'
  BY <1>5 DEF KillErrs
<1>6. ASSUME NEW e \in Engine, CheckGone(e) PROVE ListInv'
  BY <1>6 DEF CheckGone
<1>7. ASSUME NEW e \in Engine, CheckRunning(e) PROVE ListInv'
  BY <1>7 DEF CheckRunning
<1>8. ASSUME NEW e \in Engine, SweepReturns(e) PROVE ListInv'
  BY <1>8 DEF SweepReturns
<1>9. ASSUME NEW e \in Engine, Proceed(e) PROVE ListInv'
  BY <1>9 DEF Proceed, ForgetSweep
<1>10. ASSUME NEW e \in Engine, RunIdle(e) PROVE ListInv'
  BY <1>10 DEF RunIdle
<1>11. ASSUME NEW e \in Engine, Create(e) PROVE ListInv'
  BY <1>11 DEF Create
<1>12. ASSUME NEW e \in Engine, Copy(e) PROVE ListInv'
  BY <1>12 DEF Copy
<1>13. ASSUME NEW e \in Engine, Start(e) PROVE ListInv'
  BY <1>13 DEF Start
<1>14. ASSUME NEW e \in Engine, StartReturns(e) PROVE ListInv'
  BY <1>14 DEF StartReturns
<1>15. ASSUME NEW e \in Engine, LegsEnd(e) PROVE ListInv'
  BY <1>15 DEF LegsEnd
<1>16. ASSUME NEW e \in Engine, GiveUp(e) PROVE ListInv'
  BY <1>16 DEF GiveUp
<1>17. ASSUME NEW e \in Engine, ContainerEnds(e) PROVE ListInv'
  BY <1>17 DEF ContainerEnds
<1>18. ASSUME NEW e \in Engine, Crash(e) PROVE ListInv'
  BY <1>18 DEF Crash, ForgetSweep
<1>19. CASE Tick
  BY <1>19, MaxTimeNat DEF Tick
<1>20. CASE UNCHANGED vars
  BY <1>20 DEF vars
<1> QED
  BY <1>1, <1>2, <1>3, <1>4, <1>5, <1>6, <1>7, <1>8, <1>9, <1>10, <1>11, <1>12, <1>13, <1>14, <1>15, <1>16, <1>17, <1>18, <1>19, <1>20 DEF Next, SweepStep, RunStep

(* A sweep loses sight of nothing that is due. *)
LEMMA KillKept == TypeOK /\ StartInv /\ ListInv /\ KillInv /\ [Next]_vars => KillInv'
<1> SUFFICES ASSUME TypeOK, StartInv, ListInv, KillInv, [Next]_vars PROVE KillInv'
  OBVIOUS
<1> USE DEF TypeOK, StartInv, ListInv, KillInv, Due, Started, Goto, sweepVars, callVars, killVars
<1>1. ASSUME NEW e \in Engine, Begin(e) PROVE KillInv'
  BY <1>1 DEF Begin
<1>2. ASSUME NEW e \in Engine, List(e) PROVE KillInv'
  <2>1. /\ found' = [found EXCEPT ![e] = Listed]
        /\ todo' = [todo EXCEPT ![e] = {c \in Listed : Due(e, c)}]
    BY <1>2, ReapableIsDue DEF List
  <2>2. Listed \subseteq Engine
    BY DEF Listed
  <2> QED
    BY <1>2, <2>1, <2>2 DEF List
<1>3. ASSUME NEW e \in Engine, ListFails(e) PROVE KillInv'
  BY <1>3 DEF ListFails
<1>4. ASSUME NEW e \in Engine, NEW c \in Engine, Kill(e, c) PROVE KillInv'
  BY <1>4 DEF Kill
<1>5. ASSUME NEW e \in Engine, NEW c \in Engine, KillErrs(e, c) PROVE KillInv'
  BY <1>5 DEF KillErrs
<1>6. ASSUME NEW e \in Engine, CheckGone(e) PROVE KillInv'
  BY <1>6 DEF CheckGone
<1>7. ASSUME NEW e \in Engine, CheckRunning(e) PROVE KillInv'
  BY <1>7 DEF CheckRunning
<1>8. ASSUME NEW e \in Engine, SweepReturns(e) PROVE KillInv'
  BY <1>8 DEF SweepReturns
<1>9. ASSUME NEW e \in Engine, Proceed(e) PROVE KillInv'
  BY <1>9 DEF Proceed, ForgetSweep
<1>10. ASSUME NEW e \in Engine, RunIdle(e) PROVE KillInv'
  BY <1>10 DEF RunIdle
<1>11. ASSUME NEW e \in Engine, Create(e) PROVE KillInv'
  BY <1>11 DEF Create
<1>12. ASSUME NEW e \in Engine, Copy(e) PROVE KillInv'
  BY <1>12 DEF Copy
<1>13. ASSUME NEW e \in Engine, Start(e) PROVE KillInv'
  BY <1>13 DEF Start
<1>14. ASSUME NEW e \in Engine, StartReturns(e) PROVE KillInv'
  BY <1>14 DEF StartReturns
<1>15. ASSUME NEW e \in Engine, LegsEnd(e) PROVE KillInv'
  BY <1>15 DEF LegsEnd
<1>16. ASSUME NEW e \in Engine, GiveUp(e) PROVE KillInv'
  BY <1>16 DEF GiveUp
<1>17. ASSUME NEW e \in Engine, ContainerEnds(e) PROVE KillInv'
  BY <1>17 DEF ContainerEnds
<1>18. ASSUME NEW e \in Engine, Crash(e) PROVE KillInv'
  BY <1>18 DEF Crash, ForgetSweep
<1>19. CASE Tick
  BY <1>19 DEF Tick
<1>20. CASE UNCHANGED vars
  BY <1>20 DEF vars
<1> QED
  BY <1>1, <1>2, <1>3, <1>4, <1>5, <1>6, <1>7, <1>8, <1>9, <1>10, <1>11, <1>12, <1>13, <1>14, <1>15, <1>16, <1>17, <1>18, <1>19, <1>20 DEF Next, SweepStep, RunStep

(* The initial states satisfy the invariant. *)
LEMMA InitIInv == Init => IInv
  BY TimeAssumption, MaxTimeNat, KindAssumption
     DEF Init, IInv, TypeOK, Scope, Place, SweepPlace, StartInv, ListInv, KillInv, Started

(* The inductive invariant: types, and what a sweep knows and has done.     *)
THEOREM Inductive == Spec => []IInv
<1>1. IInv /\ [Next]_vars => IInv'
  BY TypeKept, StartKept, ListKept, KillKept DEF IInv
<1> QED
  BY <1>1, InitIInv, PTL DEF Spec

(* Every state is well typed, a sweep only works on what it has listed, and *)
(* `gsd-test sweep` has no container.                                       *)
THEOREM TypeCorrect == Spec => []TypeOK
<1>1. IInv => TypeOK
  BY DEF IInv
<1> QED
  BY <1>1, Inductive, PTL

(* reaper.Sweep: when it returns, all that it saw and that was due is gone  *)
(* or in its error, however many sweeps run at the same time.               *)
THEOREM SweepTruthful == Spec => []SweepTellsTruth
<1>1. IInv => SweepTellsTruth
  BY DEF IInv, KillInv, SweepTellsTruth
<1> QED
  BY <1>1, Inductive, PTL

(* reaper.Sweep without a lock kills nobody before its time, nobody of      *)
(* another branch before its grace time, and not the invocation's own.      *)
THEOREM SparesForeign == Spec => ForeignSpared
<1> DEFINE Spared ==
      \A c \in Engine : cont[c] = "running" /\ cont'[c] = "killed" =>
        /\ label[c] <= now
        /\ \E e \in Engine \ {c} :
             /\ pc[e] = "killing"
             /\ scope[e] \in {Branch[c], Unscoped} \/ label[c] + Grace <= now
<1>1. ASSUME IInv, NEW e \in Engine, NEW c \in Engine, c \in todo[e],
             cont[c] = "running", pc[e] = "killing"
      PROVE  /\ label[c] <= now /\ e # c
             /\ scope[e] \in {Branch[c], Unscoped} \/ label[c] + Grace <= now
  <2>1. at[e] <= now /\ at[e] \in Int /\ now \in Int /\ label[c] \in Int /\ Grace \in Nat
    BY <1>1, MaxTimeNat, TimeAssumption DEF IInv, TypeOK, ListInv
  <2>2. Due(e, c)
    BY <1>1 DEF IInv, ListInv
  <2>3. pc[c] \in {"legs", "attached", "done", "dead"}
    BY <1>1 DEF IInv, StartInv, Started
  <2> QED
    BY <1>1, <2>1, <2>2, <2>3 DEF Due
<1>2. ASSUME IInv, [Next]_vars, NEW c \in Engine, cont[c] = "running", cont'[c] = "killed"
      PROVE  \E e \in Engine : pc[e] = "killing" /\ c \in todo[e]
  <2> USE DEF IInv, TypeOK
  <2>1. \A e, b \in Engine : Kill(e, b) \/ KillErrs(e, b) => b = c /\ pc[e] = "killing" /\ c \in todo[e]
    BY <1>2 DEF Kill, KillErrs
  <2>2. \A e \in Engine : ~ (\/ Begin(e) \/ List(e) \/ ListFails(e) \/ CheckGone(e) \/ CheckRunning(e)
                            \/ SweepReturns(e) \/ Proceed(e) \/ Copy(e) \/ StartReturns(e)
                            \/ GiveUp(e) \/ Crash(e) \/ Tick \/ UNCHANGED vars)
    BY <1>2 DEF Begin, List, ListFails, CheckGone, CheckRunning, SweepReturns, Proceed, Copy,
       StartReturns, GiveUp, Crash, Tick, vars
  <2>3. \A e \in Engine : ~ (RunIdle(e) \/ Create(e) \/ Start(e) \/ LegsEnd(e) \/ ContainerEnds(e))
    BY <1>2 DEF RunIdle, Create, Start, LegsEnd, ContainerEnds
  <2> QED
    BY <1>2, <2>1, <2>2, <2>3 DEF Next, SweepStep, RunStep
<1>3. IInv /\ [Next]_vars => [Spared]_vars
  BY <1>1, <1>2
<1> QED
  BY <1>3, Inductive, PTL DEF Spec, ForeignSpared
=============================================================================
