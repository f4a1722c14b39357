--------------------------- MODULE AsyncRunProofs ---------------------------
(***************************************************************************)
(* The safety of an asynchronous run, for any number of waits and prunes.  *)
(* The inductive invariant says who may still write the state file: nobody *)
(* but the submitter before the spawn, nobody but the worker until it has  *)
(* saved its result, and nobody at all once a reader saw the run finished. *)
(* A prune that could not read the file of a running run (unread) may have *)
(* removed it; what a wait says and what is on record stay true with it.   *)
(***************************************************************************)
EXTENDS AsyncRun, TLAPS

(* The run is over: its file will never again say running. *)
Over ==
  /\ submit = "ended"
  /\ worker \notin Active
  /\ file.status # "running"

(* s carries what the dispatch answered, or the error of a failed spawn. *)
Settled(s) == s.result = answer \/ (worker = "off" /\ s.result = "error")

FileInv ==
  /\ submit \in {"start", "refused"} => file = Absent /\ worker = "off" /\ ~dir /\ ~log
  /\ submit \in {"saved", "spawnFailed"} => file \in {Initial, Absent} /\ worker = "off"
  /\ worker \in Active => submit = "ended" /\ file.status # "done"
  /\ submit \in {"saved", "spawnFailed"} \/ worker \in Active =>
       file.status = "running" \/ unread
  /\ file.status = "done" => Over /\ Settled(file)

WorkerInv ==
  /\ worker \in Active \ {"loading"} => st.status = "running"
  /\ worker \in {"writing", "saving"} => answer \in Result
  /\ worker = "off" => answer = None

WaitInv ==
  \A w \in Waiter :
    /\ seen[w].status = "done" => Over /\ Settled(seen[w])
    /\ wait[w] \in {"read"} \cup Releasing => seen[w].status = "done"
    /\ said[w] \in Report \cup {"inconclusive"} => Over
    /\ said[w] = "gone" => worker = "dead"
    /\ wait[w] = "guard" => seen[w].pid

PruneInv ==
  \A p \in Pruner :
    /\ prune[p] # "off" => submit \notin {"start", "refused"}
    /\ prune[p] \in Releasing => Over \/ unread

IInv == TypeOK /\ FileInv /\ WorkerInv /\ WaitInv /\ PruneInv /\ WaitTellsTruth

-----------------------------------------------------------------------------
(* What the two shapes of a state file and its updates have in common. *)
LEMMA StateFields ==
  ASSUME NEW s \in State \cup {Absent}
  PROVE  /\ s.status = "absent" <=> s = Absent
         /\ s.status \in {"absent", "running", "done"}
         /\ s.status = "running" => s.result = None
         /\ s.status = "done" => s.result \in Result
  BY DEF State, Absent

(* The submitter's state is running, without PID or result. *)
LEMMA InitialFields ==
  /\ Initial \in State
  /\ Initial.status = "running" /\ Initial.result = None
  BY DEF Initial, State

(* A missing file has neither status nor result. *)
LEMMA AbsentFields == Absent.status = "absent" /\ Absent.result = None
  BY DEF Absent

(* A final save turns a running state into a finished one. *)
LEMMA FinalFields ==
  ASSUME NEW s \in State \cup {Absent}, s.status = "running", NEW r \in Result
  PROVE  /\ Final(s, r) \in State
         /\ Final(s, r).status = "done" /\ Final(s, r).result = r
  BY DEF State, Absent, Final

(* The PID claim leaves a running state running. *)
LEMMA ClaimedFields ==
  ASSUME NEW s \in State \cup {Absent}, s.status = "running"
  PROVE  /\ Claimed(s) \in State
         /\ Claimed(s).status = "running" /\ Claimed(s).result = None
  BY DEF State, Absent, Claimed

-----------------------------------------------------------------------------
(* Initially nothing exists. *)
LEMMA Initially == Init => IInv
<1> SUFFICES ASSUME Init PROVE IInv
  OBVIOUS
<1> USE AbsentFields DEF Init
<1>1. TypeOK
  BY DEF TypeOK
<1>2. FileInv
  BY DEF FileInv, Active
<1>3. WorkerInv /\ PruneInv
  BY DEF WorkerInv, PruneInv, Active, Releasing
<1>4. WaitInv /\ WaitTellsTruth
  BY DEF WaitInv, WaitTellsTruth, Releasing, Report, None
<1> QED
  BY <1>1, <1>2, <1>3, <1>4 DEF IInv

(* Types are kept. *)
LEMMA TypeKept ==
  ASSUME IInv, [Next]_vars
  PROVE  TypeOK'
<1> USE DEF IInv, TypeOK, diskVars, workerVars, waitVars
<1>1. CASE Submit
  BY <1>1, InitialFields DEF Submit
<1>2. CASE Spawn
  BY <1>2 DEF Spawn
<1>3. CASE SpawnFails
  BY <1>3 DEF SpawnFails
<1>4. CASE MarkFailed
  BY <1>4, InitialFields, FinalFields DEF MarkFailed, Save, Result
<1>5. CASE SubmitterDies
  BY <1>5 DEF SubmitterDies
<1>6. CASE WorkerLoad
  BY <1>6 DEF WorkerLoad
<1>7. CASE Claim
  BY <1>7, ClaimedFields DEF Claim, Save, WorkerInv, Active
<1>8. CASE Dispatch
  BY <1>8 DEF Dispatch
<1>9. CASE WriteArtifacts
  BY <1>9 DEF WriteArtifacts
<1>10. CASE SaveFinal
  BY <1>10, FinalFields DEF SaveFinal, Save, WorkerInv, Active
<1>11. CASE WorkerEnds
  BY <1>11 DEF WorkerEnds
<1>12. CASE TimePasses
  BY <1>12 DEF TimePasses
<1>13. ASSUME NEW w \in Waiter, WaitStart(w) PROVE TypeOK'
  BY <1>13 DEF WaitStart, LoadFor, LoadNothing, At, Goto, End
<1>14. ASSUME NEW w \in Waiter, WaitCeiling(w) PROVE TypeOK'
  BY <1>14 DEF WaitCeiling, At, Goto, End
<1>15. ASSUME NEW w \in Waiter, WaitReload(w) PROVE TypeOK'
  BY <1>15 DEF WaitReload, LoadFor, LoadNothing, At, Goto, End
<1>16. ASSUME NEW w \in Waiter, WaitGuard(w) PROVE TypeOK'
  BY <1>16 DEF WaitGuard, At, Goto, End, PidAlive
<1>17. ASSUME NEW w \in Waiter, WaitInconclusive(w) PROVE TypeOK'
  BY <1>17 DEF WaitInconclusive, At, Goto, End
<1>18. ASSUME NEW w \in Waiter, WaitRender(w) PROVE TypeOK'
  <2>1. said' \in [Waiter -> Result \cup
                     {None, "unknown", "loadError", "ceiling", "reloadError", "gone", "inconclusive"}]
    BY <1>18 DEF WaitRender, Result
  <2>2. /\ wait' \in [Waiter -> {"off", "loop", "asleep", "guard", "read", "ended"} \cup Releasing]
        /\ dir' \in BOOLEAN
    BY <1>18 DEF WaitRender, Goto, Releasing
  <2> QED
    BY <1>18, <2>1, <2>2 DEF WaitRender
<1>19. ASSUME NEW w \in Waiter, WaitRelease(w) PROVE TypeOK'
  <2>1. wait[w] \in Releasing
    BY <1>19 DEF WaitRelease, Releasing
  <2>2. /\ file' \in State \cup {Absent}
        /\ dir' \in BOOLEAN /\ log' \in BOOLEAN
    BY <1>19, <2>1 DEF WaitRelease, Remove, Releasing
  <2>3. wait' \in [Waiter -> {"off", "loop", "asleep", "guard", "read", "ended"} \cup Releasing]
    BY <1>19, <2>1 DEF WaitRelease, After, Goto, Releasing
  <2> QED
    BY <1>19, <2>2, <2>3 DEF WaitRelease
<1>20. ASSUME NEW p \in Pruner, PruneList(p) PROVE TypeOK'
  BY <1>20 DEF PruneList
<1>21. ASSUME NEW p \in Pruner, PruneLoad(p) PROVE TypeOK'
  <2>1. unread' \in BOOLEAN
    BY <1>21 DEF PruneLoad
  <2>2. prune' \in [Pruner -> {"off", "listed"} \cup Releasing]
    BY <1>21 DEF PruneLoad, Releasing
  <2> QED
    BY <1>21, <2>1, <2>2 DEF PruneLoad
<1>22. ASSUME NEW p \in Pruner, PruneRelease(p) PROVE TypeOK'
  <2>1. prune[p] \in Releasing
    BY <1>22 DEF PruneRelease, Releasing
  <2>2. /\ file' \in State \cup {Absent}
        /\ dir' \in BOOLEAN /\ log' \in BOOLEAN
    BY <1>22, <2>1 DEF PruneRelease, Remove, Releasing
  <2>3. prune' \in [Pruner -> {"off", "listed"} \cup Releasing]
    BY <1>22, <2>1 DEF PruneRelease, After, Releasing
  <2> QED
    BY <1>22, <2>2, <2>3 DEF PruneRelease
<1>23. CASE UNCHANGED vars
  BY <1>23 DEF vars, diskVars, workerVars, waitVars
<1> QED
  BY <1>1, <1>2, <1>3, <1>4, <1>5, <1>6, <1>7, <1>8, <1>9, <1>10, <1>11, <1>12,
     <1>13, <1>14, <1>15, <1>16, <1>17, <1>18, <1>19, <1>20, <1>21, <1>22, <1>23 DEF Next

(* A file that once could not be read stays on the books as such. *)
LEMMA UnreadStays ==
  ASSUME [Next]_vars, unread
  PROVE  unread'
<1>1. ASSUME NEW p \in Pruner, PruneLoad(p) PROVE unread'
  BY <1>1, unread DEF PruneLoad
<1>2. CASE UNCHANGED unread
  BY <1>2
<1> QED
  BY <1>1, <1>2
     DEF Next, vars, Submit, Spawn, SpawnFails, MarkFailed, SubmitterDies, WorkerLoad, Claim,
         Dispatch, WriteArtifacts, SaveFinal, WorkerEnds, TimePasses, WaitStart, WaitCeiling,
         WaitReload, WaitGuard, WaitInconclusive, WaitRender, WaitRelease, PruneList,
         PruneRelease

(* Once over, always over: the steps that write running need a submitter or *)
(* a worker that is not at its end.                                         *)
LEMMA OverStays ==
  ASSUME IInv, [Next]_vars, Over
  PROVE  Over' /\ answer' = answer /\ (worker = "off" <=> worker' = "off")
<1> USE AbsentFields DEF IInv, Over, Active, diskVars, workerVars, waitVars
<1>1. ASSUME NEW w \in Waiter,
             \/ WaitStart(w) \/ WaitCeiling(w) \/ WaitReload(w) \/ WaitGuard(w)
             \/ WaitInconclusive(w) \/ WaitRender(w)
      PROVE  UNCHANGED <<submit, file, worker, answer>>
  BY <1>1 DEF WaitStart, WaitCeiling, WaitReload, WaitGuard, WaitInconclusive, WaitRender
<1>2. ASSUME NEW w \in Waiter, WaitRelease(w) PROVE Over' /\ UNCHANGED <<worker, answer>>
  BY <1>2 DEF WaitRelease, Remove
<1>3. ASSUME NEW p \in Pruner, PruneRelease(p) PROVE Over' /\ UNCHANGED <<worker, answer>>
  BY <1>3 DEF PruneRelease, Remove
<1> QED
  BY <1>1, <1>2, <1>3
     DEF Next, vars, Submit, Spawn, SpawnFails, MarkFailed, SubmitterDies, WorkerLoad, Claim,
         Dispatch, WriteArtifacts, SaveFinal, WorkerEnds, TimePasses, PruneList, PruneLoad

(* The state file keeps its place in the run's life, whoever steps. *)
LEMMA FileKept ==
  ASSUME IInv, [Next]_vars
  PROVE  FileInv'
<1> USE DEF IInv, FileInv, Over, Settled, Active, diskVars, workerVars, waitVars
<1>1. CASE Submit
  BY <1>1, InitialFields DEF Submit
<1>2. CASE Spawn \/ SpawnFails \/ SubmitterDies
  BY <1>2, InitialFields DEF Spawn, SpawnFails, SubmitterDies
<1>3. CASE MarkFailed
  <2>1. Final(Initial, "error").status = "done" /\ Final(Initial, "error").result = "error"
    BY DEF Final
  <2> QED
    BY <1>3, <2>1, InitialFields DEF MarkFailed, Save
<1>4. CASE WorkerLoad \/ Dispatch \/ WriteArtifacts \/ WorkerEnds
  BY <1>4 DEF WorkerLoad, Dispatch, WriteArtifacts, WorkerEnds
<1>5. CASE Claim
  BY <1>5, ClaimedFields DEF Claim, Save, TypeOK, WorkerInv
<1>6. CASE SaveFinal
  BY <1>6, FinalFields DEF SaveFinal, Save, TypeOK, WorkerInv
<1>7. ASSUME NEW w \in Waiter, WaitRender(w) PROVE FileInv'
  <2>1. Over
    BY <1>7 DEF WaitRender, At, WaitInv
  <2> QED
    BY <1>7, <2>1 DEF WaitRender
<1>8. ASSUME NEW w \in Waiter, WaitRelease(w) PROVE FileInv'
  <2>1. Over
    BY <1>8 DEF WaitRelease, WaitInv, Releasing
  <2> QED
    BY <1>8, <2>1, AbsentFields DEF WaitRelease, Remove
<1>9. ASSUME NEW p \in Pruner, PruneRelease(p) PROVE FileInv'
  <2>1. /\ Over \/ unread
        /\ submit \notin {"start", "refused"}
    BY <1>9 DEF PruneRelease, PruneInv, Releasing
  <2>2. /\ file' \in {Absent, file}
        /\ UNCHANGED <<submit, worker, answer, unread>>
    BY <1>9 DEF PruneRelease, Remove
  <2> QED
    BY <2>1, <2>2, AbsentFields
<1>10. CASE UNCHANGED <<submit, diskVars, worker, answer>>
  BY <1>10, UnreadStays
<1> QED
  BY <1>1, <1>2, <1>3, <1>4, <1>5, <1>6, <1>7, <1>8, <1>9, <1>10
     DEF Next, vars, TimePasses, WaitStart, WaitCeiling, WaitReload, WaitGuard,
         WaitInconclusive, PruneList, PruneLoad

(* The worker's copy is a running state until its final save. *)
LEMMA WorkerKept ==
  ASSUME IInv, [Next]_vars
  PROVE  WorkerInv'
<1> USE DEF IInv, WorkerInv, Active, diskVars, workerVars, waitVars
<1>1. CASE Spawn \/ WorkerLoad \/ WriteArtifacts \/ WorkerEnds
  BY <1>1, StateFields DEF Spawn, WorkerLoad, WriteArtifacts, WorkerEnds, FileInv, TypeOK
<1>2. CASE Claim
  BY <1>2, ClaimedFields DEF Claim, TypeOK
<1>3. CASE Dispatch \/ SaveFinal
  BY <1>3 DEF Dispatch, SaveFinal
<1>4. CASE UNCHANGED workerVars
  BY <1>4
<1> QED
  BY <1>1, <1>2, <1>3, <1>4
     DEF Next, vars, Submit, SpawnFails, MarkFailed, SubmitterDies, TimePasses, WaitStart,
         WaitCeiling, WaitReload, WaitGuard, WaitInconclusive, WaitRender, WaitRelease,
         PruneList, PruneLoad, PruneRelease

(* What IInv says of one wait. *)
WaitOK(w) ==
  /\ seen[w].status = "done" => Over /\ Settled(seen[w])
  /\ wait[w] \in {"read"} \cup Releasing => seen[w].status = "done"
  /\ said[w] \in Report \cup {"inconclusive"} => Over
  /\ said[w] = "gone" => worker = "dead"
  /\ wait[w] = "guard" => seen[w].pid
  /\ said[w] \in Report => said[w] = answer
  /\ said[w] = "inconclusive" => answer = "error" \/ worker = "off"

(* WaitOK, for all waits, is the part of IInv about waits. *)
LEMMA WaitOKMeans == WaitInv /\ WaitTellsTruth <=> \A w \in Waiter : WaitOK(w)
  BY DEF WaitInv, WaitTellsTruth, WaitOK

(* A step of somebody else does not disturb what a wait knows. *)
LEMMA WaitStays ==
  ASSUME IInv, [Next]_vars, NEW w \in Waiter,
         wait'[w] = wait[w], seen'[w] = seen[w], said'[w] = said[w]
  PROVE  WaitOK(w)'
<1>1. WaitOK(w)
  BY WaitOKMeans DEF IInv
<1>2. worker = "dead" => worker' = "dead"
  BY DEF Next, vars, diskVars, workerVars, waitVars, Submit, Spawn, SpawnFails, MarkFailed,
         SubmitterDies, WorkerLoad, Claim, Dispatch, WriteArtifacts, SaveFinal, WorkerEnds,
         TimePasses, WaitStart, WaitCeiling, WaitReload, WaitGuard, WaitInconclusive,
         WaitRender, WaitRelease, PruneList, PruneLoad, PruneRelease, IInv, FileInv
<1> QED
  BY <1>1, <1>2, OverStays DEF WaitOK, Settled

(* What Load returns is the truth about a finished run. *)
LEMMA LoadOK ==
  ASSUME IInv, [Next]_vars, NEW w \in Waiter, NEW missing \in {"unknown", "reloadError"},
         NEW failed \in {"loadError", "reloadError"}, LoadFor(w, missing, failed), UNCHANGED <<submit, diskVars, workerVars>>
  PROVE  WaitOK(w)'
<1> USE DEF IInv, TypeOK
<1>1. seen'[w] \in {file, Absent} /\ said'[w] \in {said[w], missing, failed}
  BY DEF LoadFor, LoadNothing, End
<1>2. seen'[w].status = "done" => Over' /\ Settled(seen[w])'
  BY <1>1, AbsentFields DEF FileInv, Over, Settled, diskVars, workerVars
<1>3. /\ wait'[w] \in {"read"} \cup Releasing => seen'[w].status = "done"
      /\ wait'[w] = "guard" => seen'[w].pid
  <2>1. CASE LoadNothing(w, missing, failed)
    BY <2>1 DEF LoadNothing, End, Goto, Releasing
  <2>2. CASE ~LoadNothing(w, missing, failed)
    BY <2>2 DEF LoadFor, Goto, Releasing
  <2> QED
    BY <2>1, <2>2
<1>4. WaitOK(w)
  BY WaitOKMeans
<1> QED
  BY <1>1, <1>2, <1>3, <1>4, OverStays DEF WaitOK, Report, Over, diskVars, workerVars

(* The waits' part of the invariant, one case per step of the wait itself. *)
LEMMA WaitKept ==
  ASSUME IInv, [Next]_vars
  PROVE  WaitInv' /\ WaitTellsTruth'
<1>1. ASSUME NEW w \in Waiter PROVE WaitOK(w)'
  <2> USE DEF IInv, TypeOK
  <2>0. WaitOK(w)
    BY WaitOKMeans
  <2>1. CASE wait'[w] = wait[w] /\ seen'[w] = seen[w] /\ said'[w] = said[w]
    BY <2>1, WaitStays
  <2>2. CASE WaitStart(w)
    BY <2>2, LoadOK DEF WaitStart
  <2>3. CASE WaitReload(w)
    BY <2>3, LoadOK DEF WaitReload
  <2>4. CASE WaitCeiling(w)
    BY <2>0, <2>4, OverStays
       DEF WaitCeiling, End, Goto, At, WaitOK, Settled, Releasing, Report, diskVars, workerVars
  <2>5. CASE WaitGuard(w)
    BY <2>0, <2>5, OverStays
       DEF WaitGuard, PidAlive, End, Goto, At, WaitOK, Settled, Releasing, Report,
           diskVars, workerVars
  <2>6. CASE WaitInconclusive(w)
    BY <2>0, <2>6, OverStays
       DEF WaitInconclusive, End, Goto, At, WaitOK, Settled, Releasing, Report,
           diskVars, workerVars
  <2>7. CASE WaitRender(w)
    BY <2>0, <2>7, OverStays
       DEF WaitRender, Goto, At, WaitOK, Settled, Releasing, Report, diskVars, workerVars
  <2>8. CASE WaitRelease(w)
    BY <2>0, <2>8, OverStays
       DEF WaitRelease, Goto, After, WaitOK, Settled, Releasing, Report, workerVars
  <2>9. ASSUME NEW v \in Waiter, v # w,
               \/ WaitStart(v) \/ WaitCeiling(v) \/ WaitReload(v) \/ WaitGuard(v)
               \/ WaitInconclusive(v) \/ WaitRender(v) \/ WaitRelease(v)
        PROVE  wait'[w] = wait[w] /\ seen'[w] = seen[w] /\ said'[w] = said[w]
    BY <2>9 DEF WaitStart, WaitCeiling, WaitReload, WaitGuard, WaitInconclusive, WaitRender,
                WaitRelease, LoadFor, LoadNothing, End, Goto
  <2> QED
    BY <2>1, <2>2, <2>3, <2>4, <2>5, <2>6, <2>7, <2>8, <2>9
       DEF Next, vars, waitVars, Submit, Spawn, SpawnFails, MarkFailed, SubmitterDies,
           WorkerLoad, Claim, Dispatch, WriteArtifacts, SaveFinal, WorkerEnds, TimePasses,
           PruneList, PruneLoad, PruneRelease
<1> QED
  BY <1>1 DEF WaitOK, WaitInv, WaitTellsTruth

(* A prune releases only what it loaded as not running, and that is over    *)
(* unless it could not be read: a listed run has been submitted, and until  *)
(* it is over its file says so.                                             *)
LEMMA PruneKept ==
  ASSUME IInv, [Next]_vars
  PROVE  PruneInv'
<1> SUFFICES ASSUME NEW p \in Pruner
             PROVE  /\ prune'[p] # "off" => submit' \notin {"start", "refused"}
                    /\ prune'[p] \in Releasing => Over' \/ unread'
  BY DEF PruneInv
<1> USE DEF IInv, TypeOK, PruneInv
<1>1. submit \notin {"start", "refused"} => submit' \notin {"start", "refused"}
  BY DEF Next, vars, Submit, Spawn, SpawnFails, MarkFailed, SubmitterDies, WorkerLoad, Claim,
         Dispatch, WriteArtifacts, SaveFinal, WorkerEnds, TimePasses, WaitStart, WaitCeiling,
         WaitReload, WaitGuard, WaitInconclusive, WaitRender, WaitRelease, PruneList,
         PruneLoad, PruneRelease
<1>2. CASE prune'[p] = prune[p]
  BY <1>1, <1>2, OverStays, UnreadStays
<1>3. CASE PruneList(p)
  BY <1>3 DEF PruneList, FileInv, Releasing
<1>4. CASE PruneLoad(p)
  <2>1. submit \notin {"start", "refused"}
    BY <1>4 DEF PruneLoad
  <2>2. file.status # "running" => Over \/ unread
    BY <2>1 DEF FileInv, Over
  <2>3. prune'[p] \in Releasing => unread' \/ file.status # "running"
    BY <1>4 DEF PruneLoad, Releasing
  <2> QED
    BY <1>1, <2>1, <2>2, <2>3, OverStays, UnreadStays
<1>5. CASE PruneRelease(p)
  <2>1. prune[p] \in Releasing
    BY <1>5 DEF PruneRelease, Releasing
  <2> QED
    BY <1>1, <2>1, OverStays, UnreadStays DEF Releasing
<1>6. ASSUME NEW q \in Pruner, q # p, PruneList(q) \/ PruneLoad(q) \/ PruneRelease(q)
      PROVE  prune'[p] = prune[p]
  BY <1>6 DEF PruneList, PruneLoad, PruneRelease
<1> QED
  BY <1>2, <1>3, <1>4, <1>5, <1>6
     DEF Next, vars, Submit, Spawn, SpawnFails, MarkFailed, SubmitterDies, WorkerLoad, Claim,
         Dispatch, WriteArtifacts, SaveFinal, WorkerEnds, TimePasses, WaitStart, WaitCeiling,
         WaitReload, WaitGuard, WaitInconclusive, WaitRender, WaitRelease

-----------------------------------------------------------------------------
(* The invariant holds in every reachable state. *)
THEOREM Inductive == Spec => []IInv
<1>1. IInv /\ [Next]_vars => IInv'
  <2> SUFFICES ASSUME IInv, [Next]_vars PROVE IInv'
    OBVIOUS
  <2>1. TypeOK' /\ FileInv' /\ WorkerInv' /\ WaitInv' /\ PruneInv' /\ WaitTellsTruth'
    BY TypeKept, FileKept, WorkerKept, WaitKept, PruneKept
  <2> QED
    BY <2>1 DEF IInv
<1> QED
  BY Initially, <1>1, PTL DEF Spec

(* What a wait prints is what the worker's dispatch answered. *)
THEOREM WaitTruthful == Spec => []WaitTellsTruth
<1>1. IInv => WaitTellsTruth
  BY DEF IInv
<1> QED
  BY <1>1, Inductive, PTL

(* No wait removes anything of a run whose worker is still at work, and no  *)
(* prune does as long as its file could be read; every variable keeps its   *)
(* type.                                                                    *)
THEOREM RunningKept == Spec => []Inv
<1>1. IInv => RunningNeverReleased
  BY DEF IInv, FileInv, WaitInv, PruneInv, Over, Active, RunningNeverReleased
<1>2. IInv => Inv
  BY <1>1 DEF IInv, Inv
<1> QED
  BY <1>2, Inductive, PTL

(* The liveness guard never fires on a worker that is alive. *)
THEOREM GoneTruthful == Spec => []GoneIsTrue
<1>1. IInv => GoneIsTrue
  BY DEF IInv, WaitInv, GoneIsTrue
<1> QED
  BY <1>1, Inductive, PTL

(* What the state file is as a record. *)
Phase == IF file # Absent THEN file.status
         ELSE IF submit \in {"start", "refused"} THEN "none"
         ELSE IF submit = "ended" /\ worker \notin Active THEN "gone" ELSE "lost"

(* The record's steps, on Phase; ImplementsRecord is stated with it. *)
LEMMA RecordStep ==
  ASSUME \/ Phase = "none" /\ Phase' = "running" /\ file'.result = file.result
         \/ Phase \in {"running", "lost"} /\ Phase' = "done" /\ file'.result \in Result
         \/ Phase = "done" /\ Phase' = "gone" /\ file'.result = None
         \/ unread /\ Phase = "running" /\ Phase' \in {"lost", "gone"}
              /\ file'.result = file.result
         \/ Phase = "lost" /\ Phase' \in {"running", "gone"} /\ file'.result = file.result
         \/ Phase' = Phase /\ file'.result = file.result,
         unread' = unread
  PROVE  [Record!Next]_(Record!vars)
  BY DEF Phase, Record!vars, Record!Next, Record!Submit, Record!Finish, Record!Forget,
         Record!Lose, Record!Rewrite

(* The state file behaves as a RunRecord: a result is written once, is      *)
(* never overwritten, a run that has one is forgotten for good, and one     *)
(* that has none only where a prune could not read it.                      *)
THEOREM RecordImplemented == Spec => ImplementsRecord
<1>1. Init => Record!Init
  BY AbsentFields DEF Init, Record!Init
<1>2. IInv /\ [Next]_vars => [Record!Next]_(Record!vars)
  <2> SUFFICES ASSUME IInv, [Next]_vars PROVE [Record!Next]_(Record!vars)
    OBVIOUS
  <2> USE AbsentFields DEF IInv, Phase
  <2>0. /\ file \in State \cup {Absent} /\ st \in State \cup {Absent}
        /\ file'.status = "absent" <=> file' = Absent
    BY TypeKept, StateFields DEF TypeOK
  <2>1. CASE Submit
    <3>1. Phase = "none" /\ file.result = None /\ unread' = unread
      BY <2>1 DEF Submit, FileInv
    <3>2. Phase' \in {"none", "running"} /\ file'.result = None
      BY <2>1, <3>1, InitialFields DEF Submit, FileInv
    <3> QED
      BY <3>1, <3>2, RecordStep
  <2>2. CASE Spawn \/ SpawnFails
    <3>1. Phase' = Phase /\ file' = file /\ unread' = unread
      BY <2>2 DEF Spawn, SpawnFails, FileInv, Active
    <3> QED
      BY <3>1, RecordStep
  <2>3. CASE SubmitterDies \/ WorkerEnds
    <3>1. file' = file /\ unread' = unread
      BY <2>3 DEF SubmitterDies, WorkerEnds, diskVars
    <3>2. Phase' = Phase \/ (Phase = "lost" /\ Phase' = "gone")
      BY <2>3, <3>1 DEF SubmitterDies, WorkerEnds, FileInv, Active
    <3> QED
      BY <3>1, <3>2, RecordStep
  <2>4. CASE MarkFailed
    <3>1. /\ submit = "spawnFailed" /\ submit' = "ended" /\ worker = "off" /\ worker' = "off"
          /\ unread' = unread
          /\ file \in {Initial, Absent}
          /\ file' \in {Final(Initial, "error"), file}
      BY <2>4 DEF MarkFailed, Save, FileInv, workerVars
    <3>2. Phase \in {"running", "lost"}
      BY <3>1, InitialFields
    <3>3. CASE file' = Final(Initial, "error")
      <4>1. Phase' = "done" /\ file'.result \in Result
        BY <3>3 DEF Final, Result
      <4> QED
        BY <3>1, <3>2, <4>1, RecordStep
    <3>4. CASE file' = file
      <4>1. Phase' = Phase \/ (Phase = "lost" /\ Phase' = "gone")
        BY <3>1, <3>4, InitialFields DEF Active
      <4> QED
        BY <3>1, <3>4, <4>1, RecordStep
    <3> QED
      BY <3>1, <3>3, <3>4
  <2>5. CASE Claim
    <3>1. /\ submit = "ended" /\ submit' = "ended" /\ worker \in Active /\ worker' \in Active
          /\ unread' = unread
          /\ file.status # "done" /\ st.status = "running"
          /\ file' \in {Claimed(st), file}
      BY <2>5 DEF Claim, Save, FileInv, WorkerInv, Active
    <3>2. Phase \in {"running", "lost"} /\ file.result = None
      BY <2>0, <3>1, StateFields
    <3>3. CASE file' = Claimed(st)
      <4>1. Phase' = "running" /\ file'.result = None
        BY <2>0, <3>1, <3>3, ClaimedFields
      <4> QED
        BY <3>1, <3>2, <4>1, RecordStep
    <3>4. CASE file' = file
      <4>1. Phase' = Phase
        BY <3>1, <3>4
      <4> QED
        BY <3>1, <3>4, <4>1, RecordStep
    <3> QED
      BY <3>1, <3>3, <3>4
  <2>6. CASE SaveFinal
    <3>1. /\ submit = "ended" /\ submit' = "ended"
          /\ worker \in Active /\ worker' \notin Active
          /\ unread' = unread
          /\ file.status # "done" /\ st.status = "running" /\ answer \in Result
          /\ file' \in {Final(st, answer), file}
      BY <2>6 DEF SaveFinal, Save, FileInv, WorkerInv, Active
    <3>2. Phase \in {"running", "lost"}
      BY <2>0, <3>1, StateFields
    <3>3. CASE file' = Final(st, answer)
      <4>1. Phase' = "done" /\ file'.result \in Result
        BY <2>0, <3>1, <3>3, FinalFields
      <4> QED
        BY <3>1, <3>2, <4>1, RecordStep
    <3>4. CASE file' = file
      <4>1. Phase' = Phase \/ (Phase = "lost" /\ Phase' = "gone")
        BY <3>1, <3>4
      <4> QED
        BY <3>1, <3>4, <4>1, RecordStep
    <3> QED
      BY <3>1, <3>3, <3>4
  <2>7. ASSUME Over \/ unread, submit \notin {"start", "refused"},
               UNCHANGED <<submit, worker, unread>>, file' \in {Absent, file}
        PROVE  [Record!Next]_(Record!vars)
    <3>1. CASE file' = file
      BY <2>7, <3>1, RecordStep
    <3>2. CASE file' = Absent /\ file # Absent
      <4>1. Phase = file.status /\ Phase' \in {"lost", "gone"} /\ file'.result = None
        BY <2>7, <3>2
      <4>2. CASE file.status = "done"
        <5>1. submit = "ended" /\ worker \notin Active
          BY <4>2 DEF FileInv, Over
        <5>2. Phase' = "gone"
          BY <2>7, <3>2, <5>1
        <5> QED
          BY <2>7, <4>1, <4>2, <5>2, RecordStep
      <4>3. CASE file.status = "running"
        BY <2>0, <2>7, <4>1, <4>3, StateFields, RecordStep DEF Over
      <4> QED
        BY <2>0, <3>2, <4>2, <4>3, StateFields
    <3> QED
      BY <2>7, <3>1, <3>2
  <2>8. ASSUME NEW w \in Waiter, WaitRelease(w) PROVE [Record!Next]_(Record!vars)
    <3>1. Over
      BY <2>8 DEF WaitRelease, WaitInv, Releasing
    <3>2. UNCHANGED <<submit, worker, unread>> /\ file' \in {Absent, file}
      BY <2>8 DEF WaitRelease, Remove, workerVars
    <3> QED
      BY <2>7, <3>1, <3>2 DEF Over
  <2>9. ASSUME NEW p \in Pruner, PruneRelease(p) PROVE [Record!Next]_(Record!vars)
    <3>1. (Over \/ unread) /\ submit \notin {"start", "refused"}
      BY <2>9 DEF PruneRelease, PruneInv, Releasing
    <3>2. UNCHANGED <<submit, worker, unread>> /\ file' \in {Absent, file}
      BY <2>9 DEF PruneRelease, Remove, workerVars
    <3> QED
      BY <2>7, <3>1, <3>2
  <2>10. ASSUME NEW p \in Pruner, PruneLoad(p) PROVE [Record!Next]_(Record!vars)
    <3>1. UNCHANGED <<submit, file, worker>>
      BY <2>10 DEF PruneLoad, diskVars, workerVars
    <3>2. Phase' = Phase
      BY <3>1
    <3>3. CASE unread' = unread
      BY <3>1, <3>2, <3>3, RecordStep
    <3>4. CASE file.status = "running" /\ unread'
      BY <3>1, <3>2, <3>4 DEF Record!vars, Record!Next, Record!Misread
    <3> QED
      BY <2>10, <3>3, <3>4 DEF PruneLoad, TypeOK
  <2>11. CASE WorkerLoad \/ Dispatch \/ WriteArtifacts
    <3>1. Phase' = Phase /\ file' = file /\ unread' = unread
      BY <2>11 DEF WorkerLoad, Dispatch, WriteArtifacts, diskVars, Active
    <3> QED
      BY <3>1, RecordStep
  <2>12. CASE UNCHANGED <<submit, file, worker, unread>>
    <3>1. Phase' = Phase
      BY <2>12
    <3> QED
      BY <2>12, <3>1, RecordStep
  <2> QED
    BY <2>1, <2>2, <2>3, <2>4, <2>5, <2>6, <2>8, <2>9, <2>10, <2>11, <2>12
       DEF Next, vars, diskVars, workerVars, TimePasses, WaitStart, WaitCeiling, WaitReload,
           WaitGuard, WaitInconclusive, WaitRender, PruneList
<1> QED
  BY <1>1, <1>2, Inductive, PTL DEF Spec, ImplementsRecord, Record!Spec
=============================================================================
