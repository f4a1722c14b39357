--------------------------- MODULE DispatchProofs ---------------------------
(***************************************************************************)
(* dispatchRun, whatever fails, is interrupted or dies: one true verdict,  *)
(* no clone left behind, no record lost, no container of a wrong image;    *)
(* and the history of earlier runs sets no deadline.                       *)
(***************************************************************************)
EXTENDS Dispatch, FiniteSetTheorems, SequenceTheorems, TLAPS

(* Before there is an answer of the tests or an error. *)
Underway == {"inspect", "pull", "build", "sweep", "verify", "history", "resolve", "mkdir",
             "git", "deadline", "create", "copy", "start", "attached"}
(* With the worktree that the container is to have, and before it. *)
Prepared == {"deadline", "create", "copy", "start", "attached", "append", "close"}
Unprepared == {"inspect", "pull", "build", "sweep", "verify", "history", "resolve", "mkdir"}
Verified == {"history", "resolve", "mkdir", "git", "deadline", "create"}
Told == {"passed", "failed", "reaped"}

(* No median of past durations is ever different from none. *)
DeadlineInv ==
  \A r \in Run : /\ median[r] = 0
                 /\ eff[r] \in {0, EffectiveDeadline(Estimate[r], 0)}

(* The clone is made by those that merge, and goes before the verdict. *)
ScratchInv ==
  \A r \in Run :
    /\ pc[r] \in Unprepared => scratch[r] = None
    /\ pc[r] \in {"resolve", "mkdir", "git"} => Merged[r]
    /\ pc[r] \in Prepared => scratch[r] = IF Merged[r] THEN "clone" ELSE None
    /\ pc[r] \in {"verdict", "returned"} => scratch[r] # "clone"

(* What the watchdog said is the outcome, nothing else is but an error. *)
OutcomeInv ==
  \A r \in Run :
    /\ pc[r] \in Underway => outcome[r] = None
    /\ pc[r] = "append" => outcome[r] \in Told
    /\ pc[r] \in {"append", "close", "verdict", "returned"} =>
         /\ outcome[r] \in Outcome
         /\ outcome[r] # "infra_error" => outcome[r] = cont[r]

(* Nothing is printed before the verdict, and nothing after it. *)
PrintedInv ==
  \A r \in Run :
    /\ pc[r] # "returned" => out[r] = <<>>
    /\ pc[r] = "returned" => /\ code[r] = ExitCode(r)
                             /\ out[r] = IF outcome[r] = "infra_error" THEN <<outcome[r]>>
                                         ELSE <<"report", outcome[r]>>

(* What has been verified may be replaced by another's build, not by one's *)
(* own, and not by what was there before.                                   *)
ImageInv ==
  \A r \in Run : Versioned /\ pc[r] \in Verified => image \notin {"absent", "stale", r}

IInv == TypeOK /\ DeadlineInv /\ ScratchInv /\ OutcomeInv /\ PrintedInv /\ ImageInv

-----------------------------------------------------------------------------
(* MedianDurationMs of any log: passing runs have no duration on record. *)
LEMMA MedianIsZero ==
  ASSUME HardCap \in Nat, NEW S, NEW records \in Seq(S)
  PROVE  Median(records) = 0
<1> DEFINE P == Passing(records)
<1>1. IsFiniteSet(P)
  <2>1. P \subseteq 1..Len(records)
    BY DEF Passing
  <2>2. IsFiniteSet(1..Len(records))
    BY FS_Interval
  <2> QED
    BY <2>1, <2>2, FS_Subset
<1>2. Cardinality(P) \in Nat
  BY <1>1, FS_CardinalityType
<1>3. \A i \in P : Duration(records[i]) = 0
  BY DEF Passing, Duration
<1>4. ASSUME NEW k \in 1..Cardinality(P)
      PROVE  Shortest(records, k) = 0
  <2> DEFINE Below(d) == {i \in P : Duration(records[i]) < d}
             UpTo(d) == {i \in P : Duration(records[i]) <= d}
             Is(d) == Cardinality(Below(d)) < k /\ Cardinality(UpTo(d)) >= k
  <2>1. Below(0) = {} /\ UpTo(0) = P
    BY <1>3
  <2>2. Is(0)
    <3>1. Cardinality(Below(0)) = 0 /\ Cardinality(UpTo(0)) = Cardinality(P)
      BY <2>1, FS_EmptySet
    <3> HIDE DEF Below, UpTo, P
    <3> QED
      BY <3>1, <1>2
  <2>3. ASSUME NEW d \in 0..HardCap, d # 0 PROVE ~Is(d)
    <3>1. Below(d) = P
      BY <1>3, <2>3
    <3>2. Cardinality(Below(d)) = Cardinality(P)
      BY <3>1
    <3> HIDE DEF Below, UpTo, P
    <3> QED
      BY <3>2, <1>2
  <2>4. Shortest(records, k) = CHOOSE d \in 0..HardCap : Is(d)
    BY DEF Shortest
  <2> HIDE DEF Is
  <2> QED
    BY <2>2, <2>3, <2>4
<1>5. CASE Cardinality(P) = 0
  BY <1>5 DEF Median
<1>6. CASE Cardinality(P) # 0 /\ Cardinality(P) % 2 = 1
  <2>1. Cardinality(P) \div 2 + 1 \in 1..Cardinality(P)
    BY <1>6, <1>2
  <2> QED
    BY <2>1, <1>4, <1>6 DEF Median
<1>7. CASE Cardinality(P) # 0 /\ Cardinality(P) % 2 # 1
  <2>1. Cardinality(P) \div 2 \in 1..Cardinality(P) /\ Cardinality(P) \div 2 + 1 \in 1..Cardinality(P)
    BY <1>7, <1>2
  <2>2. Shortest(records, Cardinality(P) \div 2) = 0 /\ Shortest(records, Cardinality(P) \div 2 + 1) = 0
    BY <2>1, <1>4
  <2>3. Median(records) = (0 + 0) \div 2
    BY <2>2, <1>7 DEF Median
  <2> QED
    BY <2>3
<1> QED
  BY <1>5, <1>6, <1>7

(* Budget.EffectiveDeadlineMs is within the hard cap. *)
LEMMA DeadlineBound ==
  ASSUME NEW estimate \in Nat, NEW typical \in Nat
  PROVE  EffectiveDeadline(estimate, typical) \in 0..HardCap
  BY TimeAssumption DEF EffectiveDeadline

(* One line after another. *)
LEMMA TwoLines ==
  ASSUME NEW S, NEW s \in Seq(S), Len(s) = 1, NEW x \in S
  PROVE  Append(s, x) = <<s[1], x>>
<1> DEFINE two == <<s[1], x>>
           all == Append(s, x)
<1>1. all \in Seq(S)
  BY AppendProperties
<1>2. Len(all) = Len(s) + 1
  BY AppendProperties
<1>3. all[1] = s[1]
  BY AppendProperties
<1>4. all[2] = x
  BY AppendProperties
<1>5. s[1] \in S
  BY ElementOfSeq
<1>6. two \in Seq(S) /\ Len(two) = 2 /\ two[1] = s[1] /\ two[2] = x
  BY <1>5
<1> HIDE DEF two, all
<1>7. all = two
  BY <1>1, <1>2, <1>3, <1>4, <1>6, SeqEqual
<1> QED
  BY <1>7 DEF two, all

(* What an invocation prints at its end is one line or two. *)
LEMMA Lines ==
  ASSUME NEW S, "report" \in S, NEW x \in S
  PROVE  <<>> \o <<x>> = <<x>> /\ Append(<<>>, "report") \o <<x>> = <<"report", x>>
<1>1. <<x>> \in Seq(S) /\ Append(<<>>, "report") = <<"report">>
  OBVIOUS
<1>2. <<>> \o <<x>> = <<x>>
  BY <1>1, ConcatEmptySeq
<1>3. <<"report">> \o <<x>> = Append(<<"report">>, x)
  BY AppendIsConcat
<1> DEFINE one == <<"report">>
<1>4. one \in Seq(S) /\ Len(one) = 1 /\ one[1] = "report"
  OBVIOUS
<1> HIDE DEF one
<1>5. Append(one, x) = <<"report", x>>
  BY <1>4, TwoLines
<1> QED
  BY <1>1, <1>2, <1>3, <1>5 DEF one

(* The variables keep their types. *)
LEMMA TypesKept ==
  ASSUME TypeOK, DeadlineInv, OutcomeInv, [Next]_vars
  PROVE  TypeOK'
<1> USE DEF TypeOK, Place, Outcome, None, runVars, logVars, imageVars,
           contVars, Step, Goto, InfraError, SetCont
<1>1. ASSUME NEW r \in Run, Sweep(r) PROVE TypeOK'
  BY <1>1 DEF Sweep
<1>2. ASSUME NEW r \in Run, LoadHistory(r) PROVE TypeOK'
  BY <1>2, MedianIsZero, TimeAssumption DEF LoadHistory
<1>3. ASSUME NEW r \in Run, MakeScratch(r) PROVE TypeOK'
  BY <1>3 DEF MakeScratch
<1>4. ASSUME NEW r \in Run, MintDeadline(r) PROVE TypeOK'
  <2>0. EffectiveDeadline(Estimate[r], median[r]) \in 0..HardCap
    <3>1. Estimate[r] \in Nat /\ median[r] \in Nat
      BY SpecAssumption, TimeAssumption
    <3> QED
      BY <3>1, DeadlineBound
  <2>1. eff'[r] \in 0..HardCap /\ eff' = [eff EXCEPT ![r] = eff'[r]]
    BY <1>4, <2>0 DEF MintDeadline
  <2>2. now + eff'[r] \in 0..(MaxTime + HardCap)
    BY <2>1, TimeAssumption
  <2> QED
    BY <1>4, <2>1, <2>2 DEF MintDeadline
<1>5. ASSUME NEW r \in Run, AppendRecord(r) PROVE TypeOK'
  <2>1. (IF unended THEN "bad" ELSE r) \in Run \cup {"bad"}
    OBVIOUS
  <2>2. log' \in Seq(Run \cup {"bad"})
    BY <1>5, <2>1, AppendProperties DEF AppendRecord
  <2> QED
    BY <1>5, <2>2 DEF AppendRecord
<1>6. ASSUME NEW r \in Run, CloseWorktree(r) PROVE TypeOK'
  BY <1>6 DEF CloseWorktree
<1>7. ASSUME NEW r \in Run, Verdict(r) PROVE TypeOK'
  <2>1. outcome[r] \in Outcome /\ out \in [Run -> Seq(Outcome \cup {"report"})]
    BY <1>7 DEF Verdict, OutcomeInv
  <2>2. out'[r] \in Seq(Outcome \cup {"report"}) /\ out' = [out EXCEPT ![r] = out'[r]]
    BY <1>7, <2>1 DEF Verdict
  <2>3. ExitCode(r) \in -1..2
    BY DEF ExitCode
  <2> QED
    BY <1>7, <2>2, <2>3 DEF Verdict
<1>8. ASSUME NEW r \in Run, Inspect(r) PROVE TypeOK'
  BY <1>8 DEF Inspect
<1>9. ASSUME NEW r \in Run, Pull(r) PROVE TypeOK'
  BY <1>9 DEF Pull
<1>10. ASSUME NEW r \in Run, Build(r) PROVE TypeOK'
  BY <1>10 DEF Build
<1>11. ASSUME NEW r \in Run, Verify(r) PROVE TypeOK'
  BY <1>11 DEF Verify
<1>12. ASSUME NEW r \in Run, Resolve(r) PROVE TypeOK'
  BY <1>12 DEF Resolve
<1>13. ASSUME NEW r \in Run, Git(r) PROVE TypeOK'
  BY <1>13 DEF Git
<1>14. ASSUME NEW r \in Run, Create(r) PROVE TypeOK'
  BY <1>14 DEF Create
<1>15. ASSUME NEW r \in Run, Copy(r) PROVE TypeOK'
  BY <1>15 DEF Copy
<1>16. ASSUME NEW r \in Run, Start(r) PROVE TypeOK'
  BY <1>16 DEF Start
<1>17. ASSUME NEW r \in Run, StartReturns(r) PROVE TypeOK'
  BY <1>17 DEF StartReturns
<1>18. ASSUME NEW r \in Run, SetupFails(r) PROVE TypeOK'
  BY <1>18 DEF SetupFails
<1>19. ASSUME NEW r \in Run, VerifyFails(r) PROVE TypeOK'
  BY <1>19 DEF VerifyFails
<1>20. ASSUME NEW r \in Run, PrepareFails(r) PROVE TypeOK'
  BY <1>20 DEF PrepareFails
<1>21. ASSUME NEW r \in Run, GitFails(r) PROVE TypeOK'
  BY <1>21 DEF GitFails
<1>22. ASSUME NEW r \in Run, ExecFails(r) PROVE TypeOK'
  BY <1>22 DEF ExecFails
<1>23. ASSUME NEW r \in Run, AppendFails(r) PROVE TypeOK'
  BY <1>23 DEF AppendFails
<1>24. ASSUME NEW r \in Run, SetUp(r) PROVE TypeOK'
  <2>1. CASE SetCont(r, "testing") /\ since' = [since EXCEPT ![r] = now]
    BY <1>24, <2>1 DEF SetUp
  <2>2. CASE SetCont(r, "aborted") /\ UNCHANGED since
    BY <1>24, <2>2 DEF SetUp
  <2> QED
    BY <1>24, <2>1, <2>2 DEF SetUp
<1>25. ASSUME NEW r \in Run, TestsEnd(r) PROVE TypeOK'
  <2>1. CASE SetCont(r, "passed")
    BY <1>25, <2>1, TimeAssumption DEF TestsEnd
  <2>2. CASE SetCont(r, "failed")
    BY <1>25, <2>2, TimeAssumption DEF TestsEnd
  <2>3. CASE SetCont(r, "reaped")
    BY <1>25, <2>3, TimeAssumption DEF TestsEnd
  <2> QED
    BY <1>25, <2>1, <2>2, <2>3 DEF TestsEnd
<1>26. ASSUME NEW r \in Run, Interrupt(r) PROVE TypeOK'
  BY <1>26 DEF Interrupt
<1>27. ASSUME NEW r \in Run, Crash(r) PROVE TypeOK'
  <2>1. unended' \in BOOLEAN
    BY <1>27 DEF Crash
  <2>2. median' \in [Run -> 0..HardCap]
    BY <1>27, TimeAssumption DEF Crash
  <2> QED
    BY <1>27, <2>1, <2>2 DEF Crash
<1>28. ASSUME Publish PROVE TypeOK'
  BY <1>28 DEF Publish
<1>29. ASSUME Tick PROVE TypeOK'
  BY <1>29, TimeAssumption DEF Tick
<1>30. ASSUME UNCHANGED vars PROVE TypeOK'
  BY <1>30 DEF vars
<1> QED
  BY <1>1, <1>2, <1>3, <1>4, <1>5, <1>6, <1>7, <1>8, <1>9, <1>10, <1>11,
     <1>12, <1>13, <1>14, <1>15, <1>16, <1>17, <1>18, <1>19, <1>20, <1>21,
     <1>22, <1>23, <1>24, <1>25, <1>26, <1>27, <1>28, <1>29, <1>30
     DEF Next, OwnStep, Answer, Failure

(* dispatchRun's history is no median, and its deadline that of an empty one. *)
LEMMA DeadlineKept ==
  ASSUME TypeOK, DeadlineInv, [Next]_vars
  PROVE  DeadlineInv'
<1> USE DEF TypeOK, DeadlineInv, runVars, logVars, imageVars, contVars, Step,
           Goto, InfraError, SetCont
<1>1. ASSUME NEW r \in Run, LoadHistory(r) PROVE DeadlineInv'
  BY <1>1, MedianIsZero, TimeAssumption DEF LoadHistory
<1>2. ASSUME NEW r \in Run, MintDeadline(r) PROVE DeadlineInv'
  BY <1>2 DEF MintDeadline
<1>3. ASSUME NEW r \in Run, Crash(r) PROVE DeadlineInv'
  BY <1>3 DEF Crash
<1>4. ASSUME NEW r \in Run,
              \/ Sweep(r) \/ MakeScratch(r) \/ AppendRecord(r)
              \/ CloseWorktree(r) \/ Verdict(r) \/ Inspect(r) \/ Pull(r)
              \/ Build(r) \/ Verify(r) \/ Resolve(r) \/ Git(r) \/ Create(r)
              \/ Copy(r) \/ Start(r) \/ StartReturns(r) \/ SetupFails(r)
              \/ VerifyFails(r) \/ PrepareFails(r) \/ GitFails(r)
              \/ ExecFails(r) \/ AppendFails(r) \/ SetUp(r) \/ TestsEnd(r)
              \/ Interrupt(r)
      PROVE  UNCHANGED <<median, eff>>
  BY <1>4 DEF Sweep, MakeScratch, AppendRecord, CloseWorktree, Verdict,
     Inspect, Pull, Build, Verify, Resolve, Git, Create, Copy, Start,
     StartReturns, SetupFails, VerifyFails, PrepareFails, GitFails, ExecFails,
     AppendFails, SetUp, TestsEnd, Interrupt
<1>5. ASSUME Publish \/ Tick \/ UNCHANGED vars PROVE UNCHANGED <<median, eff>>
  BY <1>5 DEF Publish, Tick, vars
<1>6. ASSUME UNCHANGED <<median, eff>> PROVE DeadlineInv'
  BY <1>6
<1> QED
  BY <1>1, <1>2, <1>3, <1>4, <1>5, <1>6
     DEF Next, OwnStep, Answer, Failure

(* What a step does to the clone is what its place says. *)
LEMMA ScratchIsKept ==
  ASSUME TypeOK, ScratchInv, [Next]_vars
  PROVE  ScratchInv'
<1> USE DEF TypeOK, ScratchInv, Unprepared, Prepared, None, runVars, logVars,
           imageVars, contVars, Step, Goto, InfraError, SetCont
<1>1. ASSUME NEW r \in Run, Sweep(r) PROVE ScratchInv'
  BY <1>1 DEF Sweep
<1>2. ASSUME NEW r \in Run, LoadHistory(r) PROVE ScratchInv'
  BY <1>2 DEF LoadHistory
<1>3. ASSUME NEW r \in Run, MakeScratch(r) PROVE ScratchInv'
  BY <1>3 DEF MakeScratch
<1>4. ASSUME NEW r \in Run, MintDeadline(r) PROVE ScratchInv'
  BY <1>4 DEF MintDeadline
<1>5. ASSUME NEW r \in Run, AppendRecord(r) PROVE ScratchInv'
  BY <1>5 DEF AppendRecord
<1>6. ASSUME NEW r \in Run, CloseWorktree(r) PROVE ScratchInv'
  BY <1>6 DEF CloseWorktree
<1>7. ASSUME NEW r \in Run, Verdict(r) PROVE ScratchInv'
  BY <1>7 DEF Verdict
<1>8. ASSUME NEW r \in Run, Inspect(r) PROVE ScratchInv'
  BY <1>8 DEF Inspect
<1>9. ASSUME NEW r \in Run, Pull(r) PROVE ScratchInv'
  BY <1>9 DEF Pull
<1>10. ASSUME NEW r \in Run, Build(r) PROVE ScratchInv'
  BY <1>10 DEF Build
<1>11. ASSUME NEW r \in Run, Verify(r) PROVE ScratchInv'
  BY <1>11 DEF Verify
<1>12. ASSUME NEW r \in Run, Resolve(r) PROVE ScratchInv'
  BY <1>12 DEF Resolve
<1>13. ASSUME NEW r \in Run, Git(r) PROVE ScratchInv'
  BY <1>13 DEF Git
<1>14. ASSUME NEW r \in Run, Create(r) PROVE ScratchInv'
  BY <1>14 DEF Create
<1>15. ASSUME NEW r \in Run, Copy(r) PROVE ScratchInv'
  BY <1>15 DEF Copy
<1>16. ASSUME NEW r \in Run, Start(r) PROVE ScratchInv'
  BY <1>16 DEF Start
<1>17. ASSUME NEW r \in Run, StartReturns(r) PROVE ScratchInv'
  BY <1>17 DEF StartReturns
<1>18. ASSUME NEW r \in Run, SetupFails(r) PROVE ScratchInv'
  BY <1>18 DEF SetupFails
<1>19. ASSUME NEW r \in Run, VerifyFails(r) PROVE ScratchInv'
  BY <1>19 DEF VerifyFails
<1>20. ASSUME NEW r \in Run, PrepareFails(r) PROVE ScratchInv'
  BY <1>20 DEF PrepareFails
<1>21. ASSUME NEW r \in Run, GitFails(r) PROVE ScratchInv'
  BY <1>21 DEF GitFails
<1>22. ASSUME NEW r \in Run, ExecFails(r) PROVE ScratchInv'
  BY <1>22 DEF ExecFails
<1>23. ASSUME NEW r \in Run, AppendFails(r) PROVE ScratchInv'
  BY <1>23 DEF AppendFails
<1>24. ASSUME NEW r \in Run, SetUp(r) PROVE ScratchInv'
  BY <1>24 DEF SetUp
<1>25. ASSUME NEW r \in Run, TestsEnd(r) PROVE ScratchInv'
  BY <1>25 DEF TestsEnd
<1>26. ASSUME NEW r \in Run, Interrupt(r) PROVE ScratchInv'
  BY <1>26 DEF Interrupt
<1>27. ASSUME NEW r \in Run, Crash(r) PROVE ScratchInv'
  BY <1>27 DEF Crash
<1>28. ASSUME Publish PROVE ScratchInv'
  BY <1>28 DEF Publish
<1>29. ASSUME Tick PROVE ScratchInv'
  BY <1>29 DEF Tick
<1>30. ASSUME UNCHANGED vars PROVE ScratchInv'
  BY <1>30 DEF vars
<1> QED
  BY <1>1, <1>2, <1>3, <1>4, <1>5, <1>6, <1>7, <1>8, <1>9, <1>10, <1>11,
     <1>12, <1>13, <1>14, <1>15, <1>16, <1>17, <1>18, <1>19, <1>20, <1>21,
     <1>22, <1>23, <1>24, <1>25, <1>26, <1>27, <1>28, <1>29, <1>30
     DEF Next, OwnStep, Answer, Failure

(* Whose tests have ended has said so for good. *)
LEMMA OutcomeKept ==
  ASSUME TypeOK, OutcomeInv, [Next]_vars
  PROVE  OutcomeInv'
<1> USE DEF TypeOK, OutcomeInv, Underway, Outcome, Told, None, runVars,
           logVars, imageVars, contVars, Step, Goto, InfraError, SetCont
<1>1. ASSUME NEW r \in Run, Sweep(r) PROVE OutcomeInv'
  BY <1>1 DEF Sweep, Overdue, Running
<1>2. ASSUME NEW r \in Run, LoadHistory(r) PROVE OutcomeInv'
  BY <1>2 DEF LoadHistory
<1>3. ASSUME NEW r \in Run, MakeScratch(r) PROVE OutcomeInv'
  BY <1>3 DEF MakeScratch
<1>4. ASSUME NEW r \in Run, MintDeadline(r) PROVE OutcomeInv'
  BY <1>4 DEF MintDeadline
<1>5. ASSUME NEW r \in Run, AppendRecord(r) PROVE OutcomeInv'
  BY <1>5 DEF AppendRecord
<1>6. ASSUME NEW r \in Run, CloseWorktree(r) PROVE OutcomeInv'
  BY <1>6 DEF CloseWorktree
<1>7. ASSUME NEW r \in Run, Verdict(r) PROVE OutcomeInv'
  BY <1>7 DEF Verdict
<1>8. ASSUME NEW r \in Run, Inspect(r) PROVE OutcomeInv'
  BY <1>8 DEF Inspect
<1>9. ASSUME NEW r \in Run, Pull(r) PROVE OutcomeInv'
  BY <1>9 DEF Pull
<1>10. ASSUME NEW r \in Run, Build(r) PROVE OutcomeInv'
  BY <1>10 DEF Build
<1>11. ASSUME NEW r \in Run, Verify(r) PROVE OutcomeInv'
  BY <1>11 DEF Verify
<1>12. ASSUME NEW r \in Run, Resolve(r) PROVE OutcomeInv'
  BY <1>12 DEF Resolve
<1>13. ASSUME NEW r \in Run, Git(r) PROVE OutcomeInv'
  BY <1>13 DEF Git
<1>14. ASSUME NEW r \in Run, Create(r) PROVE OutcomeInv'
  BY <1>14 DEF Create
<1>15. ASSUME NEW r \in Run, Copy(r) PROVE OutcomeInv'
  BY <1>15 DEF Copy
<1>16. ASSUME NEW r \in Run, Start(r) PROVE OutcomeInv'
  BY <1>16 DEF Start
<1>17. ASSUME NEW r \in Run, StartReturns(r) PROVE OutcomeInv'
  BY <1>17 DEF StartReturns
<1>18. ASSUME NEW r \in Run, SetupFails(r) PROVE OutcomeInv'
  BY <1>18 DEF SetupFails
<1>19. ASSUME NEW r \in Run, VerifyFails(r) PROVE OutcomeInv'
  BY <1>19 DEF VerifyFails
<1>20. ASSUME NEW r \in Run, PrepareFails(r) PROVE OutcomeInv'
  BY <1>20 DEF PrepareFails
<1>21. ASSUME NEW r \in Run, GitFails(r) PROVE OutcomeInv'
  BY <1>21 DEF GitFails
<1>22. ASSUME NEW r \in Run, ExecFails(r) PROVE OutcomeInv'
  BY <1>22 DEF ExecFails
<1>23. ASSUME NEW r \in Run, AppendFails(r) PROVE OutcomeInv'
  BY <1>23 DEF AppendFails
<1>24. ASSUME NEW r \in Run, SetUp(r) PROVE OutcomeInv'
  BY <1>24 DEF SetUp
<1>25. ASSUME NEW r \in Run, TestsEnd(r) PROVE OutcomeInv'
  BY <1>25 DEF TestsEnd
<1>26. ASSUME NEW r \in Run, Interrupt(r) PROVE OutcomeInv'
  BY <1>26 DEF Interrupt
<1>27. ASSUME NEW r \in Run, Crash(r) PROVE OutcomeInv'
  BY <1>27 DEF Crash
<1>28. ASSUME Publish PROVE OutcomeInv'
  BY <1>28 DEF Publish
<1>29. ASSUME Tick PROVE OutcomeInv'
  BY <1>29 DEF Tick
<1>30. ASSUME UNCHANGED vars PROVE OutcomeInv'
  BY <1>30 DEF vars
<1> QED
  BY <1>1, <1>2, <1>3, <1>4, <1>5, <1>6, <1>7, <1>8, <1>9, <1>10, <1>11,
     <1>12, <1>13, <1>14, <1>15, <1>16, <1>17, <1>18, <1>19, <1>20, <1>21,
     <1>22, <1>23, <1>24, <1>25, <1>26, <1>27, <1>28, <1>29, <1>30
     DEF Next, OwnStep, Answer, Failure

(* One report if there is one, one verdict, then nothing. *)
LEMMA PrintedKept ==
  ASSUME TypeOK, OutcomeInv, PrintedInv, [Next]_vars
  PROVE  PrintedInv'
<1> USE DEF TypeOK, PrintedInv, OutcomeInv, ExitCode, Outcome, None, runVars,
           logVars, imageVars, contVars, Step, Goto, InfraError, SetCont
<1>1. ASSUME NEW r \in Run, Sweep(r) PROVE PrintedInv'
  BY <1>1 DEF Sweep
<1>2. ASSUME NEW r \in Run, LoadHistory(r) PROVE PrintedInv'
  BY <1>2 DEF LoadHistory
<1>3. ASSUME NEW r \in Run, MakeScratch(r) PROVE PrintedInv'
  BY <1>3 DEF MakeScratch
<1>4. ASSUME NEW r \in Run, MintDeadline(r) PROVE PrintedInv'
  BY <1>4 DEF MintDeadline
<1>5. ASSUME NEW r \in Run, AppendRecord(r) PROVE PrintedInv'
  BY <1>5 DEF AppendRecord
<1>6. ASSUME NEW r \in Run, CloseWorktree(r) PROVE PrintedInv'
  BY <1>6 DEF CloseWorktree
<1>7. ASSUME NEW r \in Run, Verdict(r) PROVE PrintedInv'
  <2> DEFINE o == outcome[r]
             S == Outcome \cup {"report"}
  <2>1. out[r] = <<>> /\ o \in Outcome /\ "report" \in S /\ o \in S
    BY <1>7 DEF Verdict
  <2>2. <<>> \o <<o>> = <<o>> /\ Append(<<>>, "report") \o <<o>> = <<"report", o>>
    BY <2>1, Lines
  <2>3. (IF o = "infra_error" THEN out[r] ELSE Append(out[r], "report")) \o <<o>>
          = IF o = "infra_error" THEN <<o>> ELSE <<"report", o>>
    BY <2>1, <2>2
  <2>4. out' = [out EXCEPT ![r] = IF o = "infra_error" THEN <<o>> ELSE <<"report", o>>]
    BY <1>7, <2>3 DEF Verdict
  <2>5. code' = [code EXCEPT ![r] = ExitCode(r)] /\ pc' = [pc EXCEPT ![r] = "returned"]
    BY <1>7 DEF Verdict
  <2>6. UNCHANGED outcome
    BY <1>7 DEF Verdict
  <2> QED
    BY <2>4, <2>5, <2>6
<1>8. ASSUME NEW r \in Run, Inspect(r) PROVE PrintedInv'
  BY <1>8 DEF Inspect
<1>9. ASSUME NEW r \in Run, Pull(r) PROVE PrintedInv'
  BY <1>9 DEF Pull
<1>10. ASSUME NEW r \in Run, Build(r) PROVE PrintedInv'
  BY <1>10 DEF Build
<1>11. ASSUME NEW r \in Run, Verify(r) PROVE PrintedInv'
  BY <1>11 DEF Verify
<1>12. ASSUME NEW r \in Run, Resolve(r) PROVE PrintedInv'
  BY <1>12 DEF Resolve
<1>13. ASSUME NEW r \in Run, Git(r) PROVE PrintedInv'
  BY <1>13 DEF Git
<1>14. ASSUME NEW r \in Run, Create(r) PROVE PrintedInv'
  BY <1>14 DEF Create
<1>15. ASSUME NEW r \in Run, Copy(r) PROVE PrintedInv'
  BY <1>15 DEF Copy
<1>16. ASSUME NEW r \in Run, Start(r) PROVE PrintedInv'
  BY <1>16 DEF Start
<1>17. ASSUME NEW r \in Run, StartReturns(r) PROVE PrintedInv'
  BY <1>17 DEF StartReturns
<1>18. ASSUME NEW r \in Run, SetupFails(r) PROVE PrintedInv'
  BY <1>18 DEF SetupFails
<1>19. ASSUME NEW r \in Run, VerifyFails(r) PROVE PrintedInv'
  BY <1>19 DEF VerifyFails
<1>20. ASSUME NEW r \in Run, PrepareFails(r) PROVE PrintedInv'
  BY <1>20 DEF PrepareFails
<1>21. ASSUME NEW r \in Run, GitFails(r) PROVE PrintedInv'
  BY <1>21 DEF GitFails
<1>22. ASSUME NEW r \in Run, ExecFails(r) PROVE PrintedInv'
  BY <1>22 DEF ExecFails
<1>23. ASSUME NEW r \in Run, AppendFails(r) PROVE PrintedInv'
  BY <1>23 DEF AppendFails
<1>24. ASSUME NEW r \in Run, SetUp(r) PROVE PrintedInv'
  BY <1>24 DEF SetUp
<1>25. ASSUME NEW r \in Run, TestsEnd(r) PROVE PrintedInv'
  BY <1>25 DEF TestsEnd
<1>26. ASSUME NEW r \in Run, Interrupt(r) PROVE PrintedInv'
  BY <1>26 DEF Interrupt
<1>27. ASSUME NEW r \in Run, Crash(r) PROVE PrintedInv'
  BY <1>27 DEF Crash
<1>28. ASSUME Publish PROVE PrintedInv'
  BY <1>28 DEF Publish
<1>29. ASSUME Tick PROVE PrintedInv'
  BY <1>29 DEF Tick
<1>30. ASSUME UNCHANGED vars PROVE PrintedInv'
  BY <1>30 DEF vars
<1> QED
  BY <1>1, <1>2, <1>3, <1>4, <1>5, <1>6, <1>7, <1>8, <1>9, <1>10, <1>11,
     <1>12, <1>13, <1>14, <1>15, <1>16, <1>17, <1>18, <1>19, <1>20, <1>21,
     <1>22, <1>23, <1>24, <1>25, <1>26, <1>27, <1>28, <1>29, <1>30
     DEF Next, OwnStep, Answer, Failure

(* Only others touch the image after the check. *)
LEMMA ImageKept ==
  ASSUME TypeOK, ImageInv, [Next]_vars
  PROVE  ImageInv'
<1> USE DEF TypeOK, ImageInv, Verified, runVars, logVars, imageVars, contVars,
           Step, Goto, InfraError, SetCont
<1>1. ASSUME NEW r \in Run, Sweep(r) PROVE ImageInv'
  BY <1>1 DEF Sweep
<1>2. ASSUME NEW r \in Run, LoadHistory(r) PROVE ImageInv'
  BY <1>2 DEF LoadHistory
<1>3. ASSUME NEW r \in Run, MakeScratch(r) PROVE ImageInv'
  BY <1>3 DEF MakeScratch
<1>4. ASSUME NEW r \in Run, MintDeadline(r) PROVE ImageInv'
  BY <1>4 DEF MintDeadline
<1>5. ASSUME NEW r \in Run, AppendRecord(r) PROVE ImageInv'
  BY <1>5 DEF AppendRecord
<1>6. ASSUME NEW r \in Run, CloseWorktree(r) PROVE ImageInv'
  BY <1>6 DEF CloseWorktree
<1>7. ASSUME NEW r \in Run, Verdict(r) PROVE ImageInv'
  BY <1>7 DEF Verdict
<1>8. ASSUME NEW r \in Run, Inspect(r) PROVE ImageInv'
  BY <1>8 DEF Inspect
<1>9. ASSUME NEW r \in Run, Pull(r) PROVE ImageInv'
  BY <1>9, NameAssumption DEF Pull
<1>10. ASSUME NEW r \in Run, Build(r) PROVE ImageInv'
  BY <1>10, NameAssumption DEF Build
<1>11. ASSUME NEW r \in Run, Verify(r) PROVE ImageInv'
  BY <1>11, NameAssumption DEF Verify
<1>12. ASSUME NEW r \in Run, Resolve(r) PROVE ImageInv'
  BY <1>12 DEF Resolve
<1>13. ASSUME NEW r \in Run, Git(r) PROVE ImageInv'
  BY <1>13 DEF Git
<1>14. ASSUME NEW r \in Run, Create(r) PROVE ImageInv'
  BY <1>14 DEF Create
<1>15. ASSUME NEW r \in Run, Copy(r) PROVE ImageInv'
  BY <1>15 DEF Copy
<1>16. ASSUME NEW r \in Run, Start(r) PROVE ImageInv'
  BY <1>16 DEF Start
<1>17. ASSUME NEW r \in Run, StartReturns(r) PROVE ImageInv'
  BY <1>17 DEF StartReturns
<1>18. ASSUME NEW r \in Run, SetupFails(r) PROVE ImageInv'
  BY <1>18, NameAssumption DEF SetupFails
<1>19. ASSUME NEW r \in Run, VerifyFails(r) PROVE ImageInv'
  BY <1>19 DEF VerifyFails
<1>20. ASSUME NEW r \in Run, PrepareFails(r) PROVE ImageInv'
  BY <1>20 DEF PrepareFails
<1>21. ASSUME NEW r \in Run, GitFails(r) PROVE ImageInv'
  BY <1>21 DEF GitFails
<1>22. ASSUME NEW r \in Run, ExecFails(r) PROVE ImageInv'
  BY <1>22 DEF ExecFails
<1>23. ASSUME NEW r \in Run, AppendFails(r) PROVE ImageInv'
  BY <1>23 DEF AppendFails
<1>24. ASSUME NEW r \in Run, SetUp(r) PROVE ImageInv'
  BY <1>24 DEF SetUp
<1>25. ASSUME NEW r \in Run, TestsEnd(r) PROVE ImageInv'
  BY <1>25 DEF TestsEnd
<1>26. ASSUME NEW r \in Run, Interrupt(r) PROVE ImageInv'
  BY <1>26 DEF Interrupt
<1>27. ASSUME NEW r \in Run, Crash(r) PROVE ImageInv'
  BY <1>27 DEF Crash
<1>28. ASSUME Publish PROVE ImageInv'
  BY <1>28 DEF Publish
<1>29. ASSUME Tick PROVE ImageInv'
  BY <1>29 DEF Tick
<1>30. ASSUME UNCHANGED vars PROVE ImageInv'
  BY <1>30 DEF vars
<1> QED
  BY <1>1, <1>2, <1>3, <1>4, <1>5, <1>6, <1>7, <1>8, <1>9, <1>10, <1>11,
     <1>12, <1>13, <1>14, <1>15, <1>16, <1>17, <1>18, <1>19, <1>20, <1>21,
     <1>22, <1>23, <1>24, <1>25, <1>26, <1>27, <1>28, <1>29, <1>30
     DEF Next, OwnStep, Answer, Failure

-----------------------------------------------------------------------------
(* The inductive invariant: types, what each place of an invocation says of *)
(* its clone, outcome and output, and what the image is after the check.    *)
THEOREM Inductive == Spec => []IInv
<1>1. Init => IInv
  <2>1. ASSUME Init PROVE TypeOK
    <3> USE <2>1 DEF Init
    <3>1. /\ pc \in [Run -> Place] /\ cancelled \in [Run -> BOOLEAN]
          /\ outcome \in [Run -> Outcome \cup {None}] /\ code \in [Run -> -1..2]
          /\ scratch \in [Run -> {None, "parent", "clone", "stuck"}]
          /\ cont \in [Run -> {None, "created", "setting_up", "testing", "passed", "failed",
                               "reaped", "aborted", "killed"}]
      BY DEF Place
    <3>2. out \in [Run -> Seq(Outcome \cup {"report"})] /\ log \in Seq(Run \cup {"bad"})
      OBVIOUS
    <3>3. /\ median \in [Run -> 0..HardCap] /\ eff \in [Run -> 0..HardCap]
          /\ label \in [Run -> 0..(MaxTime + HardCap)] /\ since \in [Run -> 0..MaxTime]
          /\ now \in 0..MaxTime
      BY TimeAssumption
    <3>4. /\ unended \in BOOLEAN /\ published \in BOOLEAN
          /\ image \in {"absent", "stale", "wanted"} \cup Run
      BY ImageAssumption
    <3> QED
      BY <3>1, <3>2, <3>3, <3>4 DEF TypeOK
  <2>2. Init => DeadlineInv /\ ScratchInv /\ OutcomeInv /\ PrintedInv /\ ImageInv
    BY DEF Init, DeadlineInv, ScratchInv, OutcomeInv, PrintedInv, ImageInv,
           Unprepared, Prepared, Underway, Verified
  <2> QED
    BY <2>1, <2>2 DEF IInv
<1>2. IInv /\ [Next]_vars => IInv'
  BY TypesKept, DeadlineKept, ScratchIsKept, OutcomeKept, PrintedKept, ImageKept DEF IInv
<1> QED
  BY <1>1, <1>2, PTL DEF Spec

(* worktree.Construct and the deferred Close: docker cp reads a clone that  *)
(* is there, and no invocation returns with one.                            *)
THEOREM ScratchCorrect == Spec => []ScratchKept
<1>1. IInv => ScratchKept
  BY DEF IInv, ScratchInv, ScratchKept, Prepared
<1> QED
  BY <1>1, Inductive, PTL

(* The state at the return: one verdict, the last line, the watchdog's.     *)
LEMMA ToldTruly ==
  ASSUME IInv
  PROVE  VerdictTellsTruth
<1> SUFFICES ASSUME NEW r \in Run, pc[r] = "returned"
             PROVE  LET said == Last(out[r]) IN
                    /\ {i \in DOMAIN out[r] : out[r][i] # "report"} = {Len(out[r])}
                    /\ said # "infra_error" => said = cont[r]
                    /\ code[r] = CASE said = "passed" -> 0 [] said = "infra_error" -> 2 [] OTHER -> 1
  BY DEF VerdictTellsTruth
<1>1. /\ outcome[r] \in Outcome
      /\ outcome[r] # "infra_error" => outcome[r] = cont[r]
  BY DEF IInv, OutcomeInv
<1>2. /\ code[r] = ExitCode(r)
      /\ out[r] = IF outcome[r] = "infra_error" THEN <<outcome[r]>> ELSE <<"report", outcome[r]>>
  BY DEF IInv, PrintedInv
<1>3. CASE outcome[r] = "infra_error"
  <2>1. DOMAIN out[r] = {1} /\ Len(out[r]) = 1 /\ out[r][1] = "infra_error"
    BY <1>2, <1>3
  <2> QED
    BY <2>1, <1>2, <1>3 DEF Last, ExitCode
<1>4. CASE outcome[r] # "infra_error"
  <2>1. /\ DOMAIN out[r] = {1, 2} /\ Len(out[r]) = 2
        /\ out[r][1] = "report" /\ out[r][2] = outcome[r]
    BY <1>2, <1>4
  <2>2. outcome[r] # "report"
    BY <1>1 DEF Outcome
  <2>3. Last(out[r]) = outcome[r]
    BY <2>1 DEF Last
  <2>4. {i \in DOMAIN out[r] : out[r][i] # "report"} = {Len(out[r])}
    BY <2>1, <2>2
  <2>5. code[r] = IF outcome[r] = "passed" THEN 0 ELSE 1
    BY <1>2, <1>4 DEF ExitCode
  <2> QED
    BY <2>3, <2>4, <2>5, <1>1, <1>4
<1> QED
  BY <1>3, <1>4

(* runRun and executeSpec: an invocation that returns has printed one       *)
(* verdict, last, and it is the watchdog's or an infra_error, with its      *)
(* exit code.                                                               *)
THEOREM VerdictIsTrue == Spec => []VerdictTellsTruth
<1>1. IInv => VerdictTellsTruth
  BY ToldTruly
<1> QED
  BY <1>1, Inductive, PTL

(* Only AppendRecord writes a line, and with the outcome of the watchdog. *)
LEMMA LogStep ==
  ASSUME IInv, [Next]_vars
  PROVE  \/ UNCHANGED log
         \/ \E r \in Run : outcome[r] = cont[r] /\ log' = Append(log, IF unended THEN "bad" ELSE r)
<1> USE DEF runVars, logVars, imageVars, contVars
<1>1. ASSUME NEW r \in Run, AppendRecord(r)
      PROVE  outcome[r] = cont[r] /\ log' = Append(log, IF unended THEN "bad" ELSE r)
  BY <1>1 DEF AppendRecord, Step, IInv, OutcomeInv, Told
<1>2. ASSUME NEW r \in Run,
              \/ Sweep(r) \/ LoadHistory(r) \/ MakeScratch(r) \/ MintDeadline(r)
              \/ CloseWorktree(r) \/ Verdict(r) \/ Answer(r) \/ Failure(r)
              \/ SetUp(r) \/ TestsEnd(r) \/ Interrupt(r) \/ Crash(r)
      PROVE  UNCHANGED log
  BY <1>2 DEF Sweep, LoadHistory, MakeScratch, MintDeadline, CloseWorktree, Verdict, Answer,
     Inspect, Pull, Build, Verify, Resolve, Git, Create, Copy, Start, StartReturns, Failure,
     SetupFails, VerifyFails, PrepareFails, GitFails, ExecFails, AppendFails, SetUp, TestsEnd,
     Interrupt, Crash
<1>3. ASSUME Publish \/ Tick \/ UNCHANGED vars PROVE UNCHANGED log
  BY <1>3 DEF Publish, Tick, vars
<1> QED
  BY <1>1, <1>2, <1>3 DEF Next, OwnStep

(* What is appended to the log leaves the lines that are there. *)
LEMMA LogGrows ==
  ASSUME IInv, [Next]_vars
  PROVE  /\ IsPrefix(log, log')
         /\ \A i \in DOMAIN log' \ DOMAIN log :
              log'[i] \in Run => outcome[log'[i]] = cont[log'[i]]
<1> DEFINE S == Run \cup {"bad"}
<1>1. log \in Seq(S) /\ Len(log) \in Nat /\ DOMAIN log = 1..Len(log)
  BY LenProperties DEF IInv, TypeOK
<1>2. CASE UNCHANGED log
  <2>1. SubSeq(log, 1, Len(log)) = log
    BY <1>1, SubSeqFull
  <2> QED
    BY <1>1, <1>2, <2>1 DEF IsPrefix
<1>3. ASSUME NEW r \in Run, outcome[r] = cont[r],
             log' = Append(log, IF unended THEN "bad" ELSE r)
      PROVE  /\ IsPrefix(log, log')
             /\ \A i \in DOMAIN log' \ DOMAIN log :
                  log'[i] \in Run => outcome[log'[i]] = cont[log'[i]]
  <2> DEFINE line == IF unended THEN "bad" ELSE r
  <2>1. line \in S
    OBVIOUS
  <2>2. /\ log' \in Seq(S) /\ Len(log') = Len(log) + 1
        /\ \A i \in 1..Len(log) : log'[i] = log[i]
        /\ log'[Len(log) + 1] = line
    BY <1>1, <1>3, <2>1, AppendProperties
  <2>3. SubSeq(log, 1, Len(log)) = SubSeq(log', 1, Len(log))
    BY <1>1, <2>2
  <2>4. DOMAIN log' \ DOMAIN log = {Len(log) + 1}
    BY <1>1, <2>2
  <2>5. line \in Run => line = r
    BY NameAssumption
  <2> QED
    BY <1>1, <1>3, <2>2, <2>3, <2>4, <2>5 DEF IsPrefix
<1> QED
  BY <1>2, <1>3, LogStep

(* telemetry.Append: a record is written after all that is in the log, and  *)
(* says of its run what the watchdog has said.                              *)
THEOREM LogIsKept == Spec => RecordsKept
<1>1. IInv /\ [Next]_vars =>
        [/\ IsPrefix(log, log')
         /\ \A i \in DOMAIN log' \ DOMAIN log :
              log'[i] \in Run => outcome[log'[i]] = cont[log'[i]]]_vars
  BY LogGrows
<1> QED
  BY <1>1, Inductive, PTL DEF Spec, RecordsKept

(* Who makes a container has verified the image. *)
LEMMA ContainerStep ==
  ASSUME IInv, [Next]_vars, NEW r \in Run, Versioned, cont[r] = None, cont'[r] = "created"
  PROVE  image \notin {"absent", "stale", r}
<1> USE DEF runVars, logVars, imageVars, contVars, IInv, TypeOK, ImageInv, Verified, Step, SetCont
<1>1. pc[r] = "create"
  <2>1. ASSUME NEW c \in Run, Create(c) PROVE pc[r] = "create"
    BY <2>1 DEF Create, None
  <2>2. ASSUME NEW c \in Run, ExecFails(c) PROVE pc[r] = "create"
    BY <2>2 DEF ExecFails, None
  <2>3. ASSUME NEW c \in Run, Sweep(c) \/ Start(c) \/ SetUp(c) \/ TestsEnd(c) PROVE FALSE
    BY <2>3 DEF Sweep, Start, SetUp, TestsEnd, None
  <2>4. ASSUME NEW c \in Run,
               \/ LoadHistory(c) \/ MakeScratch(c) \/ MintDeadline(c) \/ AppendRecord(c)
               \/ CloseWorktree(c) \/ Verdict(c)
               \/ Inspect(c) \/ Pull(c) \/ Build(c) \/ Verify(c) \/ Resolve(c) \/ Git(c)
               \/ Copy(c) \/ StartReturns(c)
               \/ SetupFails(c) \/ VerifyFails(c) \/ PrepareFails(c) \/ GitFails(c)
               \/ AppendFails(c) \/ Interrupt(c) \/ Crash(c)
        PROVE  UNCHANGED cont
    BY <2>4 DEF LoadHistory, MakeScratch, MintDeadline, AppendRecord, CloseWorktree, Verdict,
       Inspect, Pull, Build, Verify, Resolve, Git, Copy, StartReturns, SetupFails, VerifyFails,
       PrepareFails, GitFails, AppendFails, Interrupt, Crash
  <2>5. ASSUME Publish \/ Tick \/ UNCHANGED vars PROVE UNCHANGED cont
    BY <2>5 DEF Publish, Tick, vars
  <2>6. cont' # cont
    BY DEF None
  <2> QED
    BY <2>1, <2>2, <2>3, <2>4, <2>5, <2>6 DEF Next, OwnStep, Answer, Failure
<1> QED
  BY <1>1

(* images.VerifyImageVersion: with a version configured, no container is of *)
(* an image that was there before, nor of the invocation's own build.       *)
THEOREM ImageIsVerified == Spec => ImageIsChecked
<1>1. IInv /\ [Next]_vars =>
        [\A r \in Run : Versioned /\ cont[r] = None /\ cont'[r] = "created" =>
           image \notin {"absent", "stale", r}]_vars
  BY ContainerStep
<1> QED
  BY <1>1, Inductive, PTL DEF Spec, ImageIsChecked

(* MedianDurationMs and endTime: as a run that passes has no duration on    *)
(* record, the history never sets a deadline.  A run without an estimate    *)
(* has the hard cap for its deadline, however many have passed before.      *)
THEOREM HistorySetsNothing ==
  Spec => [](\A r \in Run : /\ median[r] = 0
                            /\ Estimate[r] = 0 => eff[r] \in {0, HardCap})
<1>1. IInv => \A r \in Run : /\ median[r] = 0
                             /\ Estimate[r] = 0 => eff[r] \in {0, HardCap}
  BY DEF IInv, DeadlineInv, EffectiveDeadline
<1> QED
  BY <1>1, Inductive, PTL

=============================================================================
