--------------------------- MODULE PipelineProofs ---------------------------
(***************************************************************************)
(* A Docker run tells and shows only what happened: for a results file of  *)
(* any length, whatever the tail goroutine, a cancellation or docker does. *)
(* And the queue its events go through loses nothing unaccounted, for any  *)
(* number of emitters, any mark and any capacity of the channel; and the   *)
(* lines of a docker command reach their callback in order.                *)
(***************************************************************************)
EXTENDS Pipeline, EventQueue, LineStream, SequenceTheorems, FiniteSetTheorems,
        WellFoundedInduction, TLAPS

Open == {"check", "work", "joining"}
Finished == {"unwinding", "closing", "returned"}
Ending == {"success", "skipped", "failure"}

(* Where the run is and what it has shown last. *)
ShownInv ==
  /\ at = "begin" /\ leg = 1 => last = <<"nothing", None>>
  /\ at = "begin" /\ leg > 1 =>
       \E kind \in {"success", "skipped"} : last = <<kind, Legs[leg - 1]>>
  /\ at \in Open =>
       \E kind \in {"start", "pass", "fail", "output"} : last = <<kind, Legs[leg]>>
  /\ at \in Finished => \E kind \in Ending : last = <<kind, Legs[leg]>>

(* The tail and the wait for it are within the tests' leg. *)
TailInv ==
  tail = "streaming" \/ at = "joining" => leg = 6 /\ at \in {"work", "joining"}

(* Nothing past the tests' leg without the tests' end, no last leg without  *)
(* the file, and no verdict but on the file as the tests have left it.      *)
EvidenceInv ==
  /\ leg > 6 => code \in {"zero", "one"}
  /\ leg > 7 => drained
  /\ at \notin Finished => result = None
  /\ result \in {"passed", "failed"} => leg = 8
  /\ result = "passed" => Has("pass") /\ ~Has("fail") /\ ~Has("bad")
  /\ result = "failed" => Has("fail") /\ ~Has("bad")

(* A container whose id is known has nothing to come from the daemon, and   *)
(* the deferred removal is over when the run closes its stream.             *)
RemovalInv ==
  /\ known => request = "served"
  /\ at \in {"closing", "returned"} /\ known => container \in {"removed", "refused"}

IInv == TypeOK /\ ShownInv /\ TailInv /\ EvidenceInv /\ RemovalInv

-----------------------------------------------------------------------------
(* The eight legs, in RunAll's order. *)
LEMMA LegsAre ==
  /\ Len(Legs) = 8 /\ DOMAIN Legs = 1..8
  /\ Legs[1] = "check_image_version" /\ Legs[2] = "start_container"
  /\ Legs[3] = "copy_worktree" /\ Legs[4] = "npm_ci" /\ Legs[5] = "build"
  /\ Legs[6] = "run_tests" /\ Legs[7] = "drain" /\ Legs[8] = "parse"
  BY DEF Legs

(* A leg's name tells which it is. *)
LEMMA WhichLeg ==
  ASSUME leg \in DOMAIN Legs
  PROVE  /\ leg \in 1..8
         /\ Legs[leg] = "start_container" <=> leg = 2
         /\ Legs[leg] = "run_tests" <=> leg = 6
         /\ Legs[leg] = "drain" <=> leg = 7
         /\ Legs[leg] = "parse" <=> leg = 8
<1>1. leg \in {1, 2, 3, 4, 5, 6, 7, 8}
  BY LegsAre
<1> QED
  BY <1>1, LegsAre

(* The end of a leg is shown; then begins the next one, or the run ends     *)
(* with the verdict on its failures.                                        *)
LEMMA LegOverMoves ==
  ASSUME leg \in DOMAIN Legs, NEW kind, LegOver(kind)
  PROVE  /\ last' = <<kind, Legs[leg]>>
         /\ \/ leg < 8 /\ leg' = leg + 1 /\ at' = "begin" /\ result' = result
            \/ /\ leg = 8 /\ leg' = 8 /\ at' = "unwinding"
               /\ result' = IF failures' = "some" THEN "failed" ELSE "passed"
<1>1. leg \in 1..8 /\ Len(Legs) = 8
  BY LegsAre
<1> QED
  BY <1>1 DEF LegOver, Emit

(* A leg after the first is over before the next begins, and what is shown  *)
(* is its end.                                                              *)
LEMMA LegOverShown ==
  ASSUME leg \in DOMAIN Legs, NEW kind \in {"success", "skipped"}, LegOver(kind)
  PROVE  leg' \in DOMAIN Legs /\ ShownInv'
<1>1. leg \in 1..8 /\ DOMAIN Legs = 1..8
  BY LegsAre
<1>2. CASE leg < 8 /\ leg' = leg + 1 /\ at' = "begin"
  <2>1. leg' - 1 = leg /\ leg' # 1 /\ leg' \in 1..8
    BY <1>1, <1>2
  <2> QED
    BY <1>1, <1>2, <2>1, LegOverMoves DEF ShownInv, Open, Finished
<1>3. CASE leg' = leg /\ at' = "unwinding"
  BY <1>1, <1>3, LegOverMoves DEF ShownInv, Open, Finished, Ending
<1> QED
  BY <1>2, <1>3, LegOverMoves

(* Every step keeps the types, ... *)
LEMMA TypesKept ==
  ASSUME TypeOK, [Next]_vars
  PROVE  TypeOK'
<1> USE LegsAre, BoundAssumption DEF TypeOK, runVars, dockerVars, testVars, outVars,
      None, LegFails, Emit, Working, TestsUp
<1>1. ASSUME BeginLeg PROVE TypeOK'
  BY <1>1 DEF BeginLeg
<1>2. ASSUME CheckContext PROVE TypeOK'
  BY <1>2 DEF CheckContext
<1>3. ASSUME Cancel PROVE TypeOK'
  BY <1>3 DEF Cancel
<1>4. ASSUME CommandOk PROVE TypeOK'
  BY <1>4, LegOverMoves DEF CommandOk
<1>5. ASSUME CommandFails PROVE TypeOK'
  BY <1>5 DEF CommandFails
<1>6. ASSUME SendRun PROVE TypeOK'
  BY <1>6 DEF SendRun
<1>7. ASSUME ServeRun PROVE TypeOK'
  BY <1>7 DEF ServeRun
<1>8. ASSUME StartContainer PROVE TypeOK'
  BY <1>8, LegOverMoves DEF StartContainer
<1>9. ASSUME StartTests PROVE TypeOK'
  BY <1>9 DEF StartTests
<1>10. ASSUME WriteLine PROVE TypeOK'
  BY <1>10 DEF WriteLine, Line
<1>11. ASSUME TestsExit PROVE TypeOK'
  BY <1>11 DEF TestsExit
<1>12. ASSUME TestsLost PROVE TypeOK'
  BY <1>12 DEF TestsLost
<1>13. ASSUME TailLine PROVE TypeOK'
  BY <1>13 DEF TailLine
<1>14. ASSUME TailStops PROVE TypeOK'
  BY <1>14 DEF TailStops
<1>15. ASSUME TailFails PROVE TypeOK'
  BY <1>15 DEF TailFails
<1>16. ASSUME JoinTail PROVE TypeOK'
  BY <1>16, LegOverMoves DEF JoinTail
<1>17. ASSUME Drain PROVE TypeOK'
  BY <1>17, LegOverMoves DEF Drain
<1>18. ASSUME Parse PROVE TypeOK'
  BY <1>18, LegOverMoves DEF Parse
<1>19. ASSUME Cleanup PROVE TypeOK'
  BY <1>19 DEF Cleanup
<1>20. ASSUME Close PROVE TypeOK'
  BY <1>20 DEF Close
<1>21. ASSUME UNCHANGED vars PROVE TypeOK'
  BY <1>21 DEF vars
<1> QED
  BY <1>1, <1>2, <1>3, <1>4, <1>5, <1>6, <1>7, <1>8, <1>9, <1>10, <1>11, <1>12,
     <1>13, <1>14, <1>15, <1>16, <1>17, <1>18, <1>19, <1>20, <1>21 DEF Next

(* ... each shows what the run does, ... *)
LEMMA ShownKept ==
  ASSUME TypeOK, ShownInv, TailInv, [Next]_vars
  PROVE  ShownInv'
<1> USE WhichLeg, LegsAre DEF ShownInv, TailInv, TypeOK, runVars, dockerVars,
      testVars, outVars, None, LegFails, Emit, Working, TestsUp, Open, Finished,
      Ending
<1>1. ASSUME BeginLeg PROVE ShownInv'
  BY <1>1 DEF BeginLeg
<1>2. ASSUME CheckContext PROVE ShownInv'
  BY <1>2 DEF CheckContext
<1>3. ASSUME Cancel PROVE ShownInv'
  BY <1>3 DEF Cancel
<1>4. ASSUME CommandOk PROVE ShownInv'
  BY <1>4, LegOverShown DEF CommandOk
<1>5. ASSUME CommandFails PROVE ShownInv'
  BY <1>5 DEF CommandFails
<1>6. ASSUME SendRun PROVE ShownInv'
  BY <1>6 DEF SendRun
<1>7. ASSUME ServeRun PROVE ShownInv'
  BY <1>7 DEF ServeRun
<1>8. ASSUME StartContainer PROVE ShownInv'
  BY <1>8, LegOverShown DEF StartContainer
<1>9. ASSUME StartTests PROVE ShownInv'
  BY <1>9 DEF StartTests
<1>10. ASSUME WriteLine PROVE ShownInv'
  BY <1>10 DEF WriteLine
<1>11. ASSUME TestsExit PROVE ShownInv'
  BY <1>11 DEF TestsExit
<1>12. ASSUME TestsLost PROVE ShownInv'
  BY <1>12 DEF TestsLost
<1>13. ASSUME TailLine PROVE ShownInv'
  BY <1>13 DEF TailLine
<1>14. ASSUME TailStops PROVE ShownInv'
  BY <1>14 DEF TailStops
<1>15. ASSUME TailFails PROVE ShownInv'
  BY <1>15 DEF TailFails
<1>16. ASSUME JoinTail PROVE ShownInv'
  BY <1>16, LegOverShown DEF JoinTail
<1>17. ASSUME Drain PROVE ShownInv'
  BY <1>17, LegOverShown DEF Drain
<1>18. ASSUME Parse PROVE ShownInv'
  BY <1>18, LegOverShown DEF Parse
<1>19. ASSUME Cleanup PROVE ShownInv'
  BY <1>19 DEF Cleanup
<1>20. ASSUME Close PROVE ShownInv'
  BY <1>20 DEF Close
<1>21. ASSUME UNCHANGED vars PROVE ShownInv'
  BY <1>21 DEF vars
<1> QED
  BY <1>1, <1>2, <1>3, <1>4, <1>5, <1>6, <1>7, <1>8, <1>9, <1>10, <1>11, <1>12,
     <1>13, <1>14, <1>15, <1>16, <1>17, <1>18, <1>19, <1>20, <1>21 DEF Next

(* ... keeps the tail within its leg, ... *)
LEMMA TailKept ==
  ASSUME TypeOK, TailInv, [Next]_vars
  PROVE  TailInv'
<1> USE WhichLeg, LegsAre DEF TailInv, TypeOK, runVars, dockerVars, testVars,
      outVars, None, LegFails, Emit, Working, TestsUp
<1>1. ASSUME BeginLeg PROVE TailInv'
  BY <1>1 DEF BeginLeg
<1>2. ASSUME CheckContext PROVE TailInv'
  BY <1>2 DEF CheckContext
<1>3. ASSUME Cancel PROVE TailInv'
  BY <1>3 DEF Cancel
<1>4. ASSUME CommandOk PROVE TailInv'
  BY <1>4, LegOverMoves DEF CommandOk
<1>5. ASSUME CommandFails PROVE TailInv'
  BY <1>5 DEF CommandFails
<1>6. ASSUME SendRun PROVE TailInv'
  BY <1>6 DEF SendRun
<1>7. ASSUME ServeRun PROVE TailInv'
  BY <1>7 DEF ServeRun
<1>8. ASSUME StartContainer PROVE TailInv'
  BY <1>8, LegOverMoves DEF StartContainer
<1>9. ASSUME StartTests PROVE TailInv'
  BY <1>9 DEF StartTests
<1>10. ASSUME WriteLine PROVE TailInv'
  BY <1>10 DEF WriteLine
<1>11. ASSUME TestsExit PROVE TailInv'
  BY <1>11 DEF TestsExit
<1>12. ASSUME TestsLost PROVE TailInv'
  BY <1>12 DEF TestsLost
<1>13. ASSUME TailLine PROVE TailInv'
  BY <1>13 DEF TailLine
<1>14. ASSUME TailStops PROVE TailInv'
  BY <1>14 DEF TailStops
<1>15. ASSUME TailFails PROVE TailInv'
  BY <1>15 DEF TailFails
<1>16. ASSUME JoinTail PROVE TailInv'
  BY <1>16, LegOverMoves DEF JoinTail
<1>17. ASSUME Drain PROVE TailInv'
  BY <1>17, LegOverMoves DEF Drain
<1>18. ASSUME Parse PROVE TailInv'
  BY <1>18, LegOverMoves DEF Parse
<1>19. ASSUME Cleanup PROVE TailInv'
  BY <1>19 DEF Cleanup
<1>20. ASSUME Close PROVE TailInv'
  BY <1>20 DEF Close
<1>21. ASSUME UNCHANGED vars PROVE TailInv'
  BY <1>21 DEF vars
<1> QED
  BY <1>1, <1>2, <1>3, <1>4, <1>5, <1>6, <1>7, <1>8, <1>9, <1>10, <1>11, <1>12,
     <1>13, <1>14, <1>15, <1>16, <1>17, <1>18, <1>19, <1>20, <1>21 DEF Next

(* ... keeps the evidence before the verdict, ... *)
LEMMA EvidenceKept ==
  ASSUME TypeOK, TailInv, EvidenceInv, [Next]_vars
  PROVE  EvidenceInv'
<1> USE WhichLeg, LegsAre DEF EvidenceInv, TailInv, TypeOK, runVars, dockerVars,
      testVars, outVars, None, LegFails, Emit, Working, TestsUp, Has, Finished
<1>1. ASSUME BeginLeg PROVE EvidenceInv'
  BY <1>1 DEF BeginLeg
<1>2. ASSUME CheckContext PROVE EvidenceInv'
  BY <1>2 DEF CheckContext
<1>3. ASSUME Cancel PROVE EvidenceInv'
  BY <1>3 DEF Cancel
<1>4. ASSUME CommandOk PROVE EvidenceInv'
  BY <1>4, LegOverMoves DEF CommandOk
<1>5. ASSUME CommandFails PROVE EvidenceInv'
  BY <1>5 DEF CommandFails
<1>6. ASSUME SendRun PROVE EvidenceInv'
  BY <1>6 DEF SendRun
<1>7. ASSUME ServeRun PROVE EvidenceInv'
  BY <1>7 DEF ServeRun
<1>8. ASSUME StartContainer PROVE EvidenceInv'
  BY <1>8, LegOverMoves DEF StartContainer
<1>9. ASSUME StartTests PROVE EvidenceInv'
  BY <1>9 DEF StartTests
<1>10. ASSUME WriteLine PROVE EvidenceInv'
  BY <1>10 DEF WriteLine
<1>11. ASSUME TestsExit PROVE EvidenceInv'
  BY <1>11 DEF TestsExit
<1>12. ASSUME TestsLost PROVE EvidenceInv'
  BY <1>12 DEF TestsLost
<1>13. ASSUME TailLine PROVE EvidenceInv'
  BY <1>13 DEF TailLine
<1>14. ASSUME TailStops PROVE EvidenceInv'
  BY <1>14 DEF TailStops
<1>15. ASSUME TailFails PROVE EvidenceInv'
  BY <1>15 DEF TailFails
<1>16. ASSUME JoinTail PROVE EvidenceInv'
  BY <1>16, LegOverMoves DEF JoinTail
<1>17. ASSUME Drain PROVE EvidenceInv'
  BY <1>17, LegOverMoves DEF Drain
<1>18. ASSUME Parse PROVE EvidenceInv'
  BY <1>18, LegOverMoves DEF Parse
<1>19. ASSUME Cleanup PROVE EvidenceInv'
  BY <1>19 DEF Cleanup
<1>20. ASSUME Close PROVE EvidenceInv'
  BY <1>20 DEF Close
<1>21. ASSUME UNCHANGED vars PROVE EvidenceInv'
  BY <1>21 DEF vars
<1> QED
  BY <1>1, <1>2, <1>3, <1>4, <1>5, <1>6, <1>7, <1>8, <1>9, <1>10, <1>11, <1>12,
     <1>13, <1>14, <1>15, <1>16, <1>17, <1>18, <1>19, <1>20, <1>21 DEF Next

(* ... and leaves no container behind that the run knows of. *)
LEMMA RemovalKept ==
  ASSUME TypeOK, TailInv, RemovalInv, [Next]_vars
  PROVE  RemovalInv'
<1> USE WhichLeg, LegsAre DEF RemovalInv, TailInv, TypeOK, runVars, dockerVars,
      testVars, outVars, None, LegFails, Emit, Working, TestsUp
<1>1. ASSUME BeginLeg PROVE RemovalInv'
  BY <1>1 DEF BeginLeg
<1>2. ASSUME CheckContext PROVE RemovalInv'
  BY <1>2 DEF CheckContext
<1>3. ASSUME Cancel PROVE RemovalInv'
  BY <1>3 DEF Cancel
<1>4. ASSUME CommandOk PROVE RemovalInv'
  BY <1>4, LegOverMoves DEF CommandOk
<1>5. ASSUME CommandFails PROVE RemovalInv'
  BY <1>5 DEF CommandFails
<1>6. ASSUME SendRun PROVE RemovalInv'
  BY <1>6 DEF SendRun
<1>7. ASSUME ServeRun PROVE RemovalInv'
  BY <1>7 DEF ServeRun
<1>8. ASSUME StartContainer PROVE RemovalInv'
  BY <1>8, LegOverMoves DEF StartContainer
<1>9. ASSUME StartTests PROVE RemovalInv'
  BY <1>9 DEF StartTests
<1>10. ASSUME WriteLine PROVE RemovalInv'
  BY <1>10 DEF WriteLine
<1>11. ASSUME TestsExit PROVE RemovalInv'
  BY <1>11 DEF TestsExit
<1>12. ASSUME TestsLost PROVE RemovalInv'
  BY <1>12 DEF TestsLost
<1>13. ASSUME TailLine PROVE RemovalInv'
  BY <1>13 DEF TailLine
<1>14. ASSUME TailStops PROVE RemovalInv'
  BY <1>14 DEF TailStops
<1>15. ASSUME TailFails PROVE RemovalInv'
  BY <1>15 DEF TailFails
<1>16. ASSUME JoinTail PROVE RemovalInv'
  BY <1>16, LegOverMoves DEF JoinTail
<1>17. ASSUME Drain PROVE RemovalInv'
  BY <1>17, LegOverMoves DEF Drain
<1>18. ASSUME Parse PROVE RemovalInv'
  BY <1>18, LegOverMoves DEF Parse
<1>19. ASSUME Cleanup PROVE RemovalInv'
  BY <1>19 DEF Cleanup
<1>20. ASSUME Close PROVE RemovalInv'
  BY <1>20 DEF Close
<1>21. ASSUME UNCHANGED vars PROVE RemovalInv'
  BY <1>21 DEF vars
<1> QED
  BY <1>1, <1>2, <1>3, <1>4, <1>5, <1>6, <1>7, <1>8, <1>9, <1>10, <1>11, <1>12,
     <1>13, <1>14, <1>15, <1>16, <1>17, <1>18, <1>19, <1>20, <1>21 DEF Next

-----------------------------------------------------------------------------
(* The inductive invariant: types, what is shown and by whom, the evidence  *)
(* of the verdict and the container.                                        *)
THEOREM Inductive == Spec => []IInv
<1>1. Init => IInv
  <2>1. Init => TypeOK
    <3>1. <<>> \in Seq(Line) /\ 0 \in 0..Len(<<>>)
      OBVIOUS
    <3>2. 1 \in DOMAIN Legs
      BY LegsAre
    <3> QED
      BY <3>1, <3>2 DEF Init, TypeOK, None
  <2>2. Init => ShownInv /\ TailInv /\ EvidenceInv /\ RemovalInv
    BY LegsAre DEF Init, ShownInv, TailInv, EvidenceInv, RemovalInv, Open, Finished,
       None
  <2> QED
    BY <2>1, <2>2 DEF IInv
<1>2. IInv /\ [Next]_vars => IInv'
  BY TypesKept, ShownKept, TailKept, EvidenceKept, RemovalKept DEF IInv
<1> QED
  BY <1>1, <1>2, PTL DEF Spec

(* RunAll reports what the test command and the results file have said, and *)
(* removes the container whose id it knows.                                 *)
THEOREM RunCorrect == Spec => []Inv
<1>1. IInv => ReportTruth
  BY DEF IInv, EvidenceInv, ReportTruth
<1>2. IInv => KnownIsRemoved
  BY DEF IInv, RemovalInv, KnownIsRemoved
<1>3. IInv => Inv
  BY <1>1, <1>2 DEF IInv, Inv
<1> QED
  BY <1>3, Inductive, PTL

(* A run that is cancelled before its last leg stays so and does not get    *)
(* there: whatever its tests have said by then, it returns an error if it   *)
(* returns at all.  (That it does return is checked, not proved.)           *)
THEOREM CancelledNeverPasses ==
  Spec => [][cancelled /\ leg < Len(Legs) =>
               cancelled' /\ leg' < Len(Legs) /\ result' \in {None, "error"}]_vars
<1> DEFINE Stays == cancelled /\ leg < Len(Legs) =>
                      cancelled' /\ leg' < Len(Legs) /\ result' \in {None, "error"}
<1>1. ASSUME IInv, [Next]_vars, cancelled, leg < Len(Legs)
      PROVE  cancelled' /\ leg' < Len(Legs)
  <2>1. TypeOK /\ TailInv /\ leg \in 1..7 /\ Len(Legs) = 8
    BY <1>1, LegsAre DEF IInv, TypeOK
  <2>2. cancelled'
    BY <1>1 DEF Next, BeginLeg, CheckContext, Cancel, CommandOk, CommandFails,
       SendRun, ServeRun, StartContainer, StartTests, WriteLine, TestsExit,
       TestsLost, TailLine, TailStops, TailFails, JoinTail, Drain, Parse, Cleanup,
       Close, vars
  <2>3. CASE JoinTail
    <3>1. leg = 6 /\ leg \in DOMAIN Legs /\ (LegOver("success") \/ LegFails)
      BY <2>1, <2>3 DEF JoinTail, TailInv, TypeOK
    <3>2. leg' \in {6, 7}
      BY <3>1, LegOverMoves DEF LegFails
    <3> QED
      BY <2>1, <2>2, <3>2
  <2>a. Legs[leg] # "parse"
    BY <2>1, WhichLeg DEF TypeOK
  <2>4. ~ (CommandOk \/ StartContainer \/ Drain \/ Parse)
    BY <1>1, <2>a DEF CommandOk, StartContainer, Drain, Parse, Working
  <2>5. CASE ~ JoinTail
    <3>1. leg' = leg
      BY <1>1, <2>4, <2>5 DEF Next, BeginLeg, CheckContext, Cancel, CommandFails,
         SendRun, ServeRun, StartTests, WriteLine, TestsExit, TestsLost, TailLine,
         TailStops, TailFails, Cleanup, Close, LegFails, vars, runVars
    <3> QED
      BY <2>1, <2>2, <3>1
  <2> QED
    BY <2>2, <2>3, <2>5
<1>2. ASSUME IInv', leg' < Len(Legs)
      PROVE  result' \in {None, "error"}
  BY <1>2, LegsAre DEF IInv, TypeOK, EvidenceInv
<1>3. IInv /\ IInv' /\ [Next]_vars => [Stays]_vars
  BY <1>1, <1>2
<1> QED
  BY <1>3, Inductive, PTL DEF Spec

(* The stream the run shows: nothing new, the start of a leg, something     *)
(* within it, its end, or the close after the last one.                     *)
Shows ==
  \/ last' = last /\ (at' = "returned" <=> at = "returned")
  \/ at = "begin" /\ at' = "check" /\ last' = <<"start", Legs[leg]>>
  \/ /\ at \in Open /\ at' # "returned"
     /\ \E kind \in {"pass", "fail", "output", "success", "skipped", "failure"} :
          last' = <<kind, Legs[leg]>>
  \/ at = "closing" /\ at' = "returned" /\ last' = last

(* Each step of the run shows one of these. *)
LEMMA StepShows ==
  ASSUME TypeOK, TailInv, [Next]_vars
  PROVE  Shows
<1> USE WhichLeg, LegsAre DEF Shows, TailInv, TypeOK, runVars, LegFails, Emit,
      Working, TestsUp, Open
<1>1. ASSUME BeginLeg PROVE Shows
  BY <1>1 DEF BeginLeg
<1>2. ASSUME CheckContext PROVE Shows
  BY <1>2 DEF CheckContext
<1>3. ASSUME Cancel PROVE Shows
  BY <1>3 DEF Cancel
<1>4. ASSUME CommandOk PROVE Shows
  BY <1>4, LegOverMoves DEF CommandOk
<1>5. ASSUME CommandFails PROVE Shows
  BY <1>5 DEF CommandFails
<1>6. ASSUME SendRun PROVE Shows
  BY <1>6 DEF SendRun
<1>7. ASSUME ServeRun PROVE Shows
  BY <1>7 DEF ServeRun
<1>8. ASSUME StartContainer PROVE Shows
  BY <1>8, LegOverMoves DEF StartContainer
<1>9. ASSUME StartTests PROVE Shows
  BY <1>9 DEF StartTests
<1>10. ASSUME WriteLine PROVE Shows
  BY <1>10 DEF WriteLine
<1>11. ASSUME TestsExit PROVE Shows
  BY <1>11 DEF TestsExit
<1>12. ASSUME TestsLost PROVE Shows
  BY <1>12 DEF TestsLost
<1>13. ASSUME TailLine PROVE Shows
  BY <1>13 DEF TailLine
<1>14. ASSUME TailStops PROVE Shows
  BY <1>14 DEF TailStops
<1>15. ASSUME TailFails PROVE Shows
  BY <1>15 DEF TailFails
<1>16. ASSUME JoinTail PROVE Shows
  BY <1>16, LegOverMoves DEF JoinTail
<1>17. ASSUME Drain PROVE Shows
  BY <1>17, LegOverMoves DEF Drain
<1>18. ASSUME Parse PROVE Shows
  BY <1>18, LegOverMoves DEF Parse
<1>19. ASSUME Cleanup PROVE Shows
  BY <1>19 DEF Cleanup
<1>20. ASSUME Close PROVE Shows
  BY <1>20 DEF Close
<1>21. ASSUME UNCHANGED vars PROVE Shows
  BY <1>21 DEF vars
<1> QED
  BY <1>1, <1>2, <1>3, <1>4, <1>5, <1>6, <1>7, <1>8, <1>9, <1>10, <1>11, <1>12,
     <1>13, <1>14, <1>15, <1>16, <1>17, <1>18, <1>19, <1>20, <1>21 DEF Next

(* All of that is a step of the stream that the consumers rely on. *)
LEMMA ShowsAStream ==
  ASSUME TypeOK, ShownInv, Shows
  PROVE  [Stream!Next]_<<Shown, at = "returned">>
<1>1. leg \in 1..8 /\ Len(Legs) = 8
  BY LegsAre DEF TypeOK
<1>2. CASE last' = last /\ (at' = "returned" <=> at = "returned")
  BY <1>2 DEF Shown
<1>3. CASE at = "begin" /\ at' = "check" /\ last' = <<"start", Legs[leg]>>
  <2>1. Shown' = <<"start", Legs[leg]>>
    BY <1>3 DEF Shown
  <2>2. CASE leg = 1
    <3>1. Shown = <<"nothing", None>>
      BY <1>3, <2>2 DEF ShownInv, Shown
    <3>2. Stream!Start
      BY <1>3, <2>1, <2>2, <3>1 DEF Stream!Start, Stream!Nothing, None
    <3> QED
      BY <3>2 DEF Stream!Next
  <2>3. CASE leg > 1
    <3>1. PICK kind \in {"success", "skipped"} : last = <<kind, Legs[leg - 1]>>
      BY <1>3, <2>3 DEF ShownInv
    <3>2. Shown[1] \in {"success", "skipped"} /\ Shown[2] = Legs[leg - 1]
      BY <3>1 DEF Shown
    <3> DEFINE i == leg - 1
    <3>3. i \in 1..(Len(Legs) - 1) /\ i + 1 = leg
      BY <1>1, <2>3
    <3> HIDE DEF i
    <3>4. Shown[2] = Legs[i] /\ Shown' = <<"start", Legs[i + 1]>>
      BY <2>1, <3>2, <3>3 DEF i
    <3>5. Stream!Start
      BY <1>3, <3>2, <3>3, <3>4 DEF Stream!Start
    <3> QED
      BY <3>5 DEF Stream!Next
  <2> QED
    BY <1>1, <2>2, <2>3
<1>4. CASE /\ at \in Open /\ at' # "returned"
           /\ \E kind \in {"pass", "fail", "output", "success", "skipped", "failure"} :
                last' = <<kind, Legs[leg]>>
  <2>1. PICK kind \in {"start", "pass", "fail", "output"} : last = <<kind, Legs[leg]>>
    BY <1>4 DEF ShownInv
  <2>2. Shown[1] \in {"start", "inner"} /\ Shown[2] = Legs[leg]
    BY <2>1 DEF Shown
  <2>3. PICK next \in {"pass", "fail", "output", "success", "skipped", "failure"} :
          last' = <<next, Legs[leg]>>
    BY <1>4
  <2>4. CASE next \in {"pass", "fail", "output"}
    <3>1. Shown' = <<"inner", Shown[2]>>
      BY <2>2, <2>3, <2>4 DEF Shown
    <3>2. Stream!Inner
      BY <1>4, <2>2, <3>1 DEF Stream!Inner, Stream!Open, Open
    <3> QED
      BY <3>2 DEF Stream!Next
  <2>5. CASE next \in {"success", "skipped", "failure"}
    <3>1. Shown' = <<next, Shown[2]>>
      BY <2>2, <2>3, <2>5 DEF Shown
    <3>2. Stream!End
      BY <1>4, <2>2, <2>5, <3>1 DEF Stream!End, Stream!Ends, Stream!Open, Open
    <3> QED
      BY <3>2 DEF Stream!Next
  <2> QED
    BY <2>3, <2>4, <2>5
<1>5. CASE at = "closing" /\ at' = "returned" /\ last' = last
  <2>1. PICK kind \in Ending : last = <<kind, Legs[leg]>>
    BY <1>5 DEF ShownInv, Finished
  <2>2. Shown[1] \in {"success", "skipped", "failure"}
    BY <2>1 DEF Shown, Ending
  <2>3. Stream!Close
    BY <1>5, <2>2 DEF Stream!Close, Stream!Open, Stream!Nothing, Shown
  <2> QED
    BY <2>3 DEF Stream!Next
<1> QED
  BY <1>2, <1>3, <1>4, <1>5 DEF Shows

(* What a run shows its consumers, whatever the tail does when the tests    *)
(* end or are cancelled: legs in their order, each with one start and one   *)
(* end, everything else within them, nothing after a failure, and the close *)
(* at the end.                                                              *)
THEOREM RefinesLegStream == Spec => ImplementsLegStream
<1>1. Init => Stream!Init
  BY DEF Init, Stream!Init, Stream!Nothing, Shown, None
<1>2. IInv /\ [Next]_vars => [Stream!Next]_<<Shown, at = "returned">>
  BY StepShows, ShowsAStream DEF IInv
<1> QED
  BY <1>1, <1>2, Inductive, PTL DEF Spec, ImplementsLegStream, Stream!Spec

-----------------------------------------------------------------------------
(* The event queue.  First what the prover has to be told about numbers and *)
(* sequences: an induction is one over a set of naturals, and a recursive   *)
(* definition is shown to have a solution before it is used.                *)

(* A set of naturals with a member has a least one. *)
LEMMA Least ==
  ASSUME NEW S \in SUBSET Nat, S # {}
  PROVE  \E m \in S : \A k \in S : m <= k
<1>1. PICK m \in S : \A k \in S : ~ (<<k, m>> \in OpToRel(<, Nat))
  BY NatLessThanWellFounded, WFMin
<1>2. ASSUME NEW k \in S PROVE m <= k
  <2>1. k \in Nat /\ m \in Nat /\ <<k, m>> \in Nat \X Nat
    BY <1>1
  <2>2. ~ (k < m)
    BY <1>1, <2>1 DEF OpToRel
  <2> QED
    BY <2>1, <2>2
<1> QED
  BY <1>1, <1>2

(* Induction: a set of naturals with 0 and every successor is all of them. *)
LEMMA Upward ==
  ASSUME NEW S \in SUBSET Nat, 0 \in S, \A n \in S : n + 1 \in S
  PROVE  \A n \in Nat : n \in S
<1> DEFINE Bad == {n \in Nat : n \notin S}
<1>1. SUFFICES ASSUME Bad # {} PROVE FALSE
  OBVIOUS
<1>2. PICK m \in Bad : \A k \in Bad : m <= k
  BY <1>1, Least
<1>3. m \in Nat /\ m # 0 /\ m - 1 \in Nat
  OBVIOUS
<1>4. m - 1 \in Bad
  BY <1>3
<1> QED
  BY <1>2, <1>3, <1>4

(* g holds the totals of the first members of s, step by step. *)
Sums(g, w, s) ==
  /\ g[0] = 0
  /\ \A i \in 1..Len(s) : g[i] = g[i - 1] + w[s[i]]

IsSum(f, w, s, n) == f = [i \in 0..n |-> IF i = 0 THEN 0 ELSE f[i - 1] + w[s[i]]]

(* The recursive definition of Total has a solution. *)
LEMMA SumExists ==
  ASSUME NEW w, NEW s
  PROVE  \A n \in Nat : \E f : IsSum(f, w, s, n)
<1> DEFINE S == {n \in Nat : \E f : IsSum(f, w, s, n)}
<1>1. 0 \in S
  <2>1. IsSum([i \in {0} |-> 0], w, s, 0)
    BY DEF IsSum
  <2> QED
    BY <2>1
<1>2. ASSUME NEW n \in S PROVE n + 1 \in S
  <2>1. PICK f : IsSum(f, w, s, n)
    OBVIOUS
  <2> DEFINE g == [i \in 0..(n + 1) |-> IF i = 0 THEN 0 ELSE f[i - 1] + w[s[i]]]
  <2>2. ASSUME NEW i \in 0..n PROVE g[i] = f[i]
    <3>1. f[i] = IF i = 0 THEN 0 ELSE f[i - 1] + w[s[i]]
      BY <2>1 DEF IsSum
    <3> QED
      BY <3>1
  <2>3. ASSUME NEW i \in 0..(n + 1)
        PROVE  g[i] = IF i = 0 THEN 0 ELSE g[i - 1] + w[s[i]]
    <3>1. CASE i = 0
      BY <3>1
    <3>2. CASE i # 0
      <4>1. i - 1 \in 0..n
        BY <3>2
      <4>2. g[i - 1] = f[i - 1]
        BY <4>1, <2>2
      <4> QED
        BY <3>2, <4>2
    <3> QED
      BY <3>1, <3>2
  <2> HIDE DEF g
  <2>4. g = [i \in 0..(n + 1) |-> g[i]]
    BY DEF g
  <2>5. IsSum(g, w, s, n + 1)
    BY <2>3, <2>4 DEF IsSum
  <2> QED
    BY <2>5
<1> HIDE DEF S
<1>3. \A n \in Nat : n \in S
  <2>1. S \in SUBSET Nat
    BY DEF S
  <2> QED
    BY <1>1, <1>2, <2>1, Upward
<1> QED
  BY <1>3 DEF S

(* A running sum ends in the total. *)
LEMMA TotalIs ==
  ASSUME NEW w, NEW s, Len(s) \in Nat, NEW g, Sums(g, w, s)
  PROVE  Total(w, s) = g[Len(s)]
<1> DEFINE f == CHOOSE h : h = [i \in 0..Len(s) |-> IF i = 0 THEN 0 ELSE h[i - 1] + w[s[i]]]
<1>1. IsSum(f, w, s, Len(s))
  <2>1. \E h : IsSum(h, w, s, Len(s))
    BY SumExists
  <2> QED
    BY <2>1 DEF IsSum
<1>2. Total(w, s) = f[Len(s)]
  BY DEF Total
<1> HIDE DEF f
<1> DEFINE S == {n \in Nat : n <= Len(s) => f[n] = g[n]}
<1>3. 0 \in S
  BY <1>1 DEF IsSum, Sums
<1>4. ASSUME NEW n \in S PROVE n + 1 \in S
  <2>1. SUFFICES ASSUME n + 1 <= Len(s) PROVE f[n + 1] = g[n + 1]
    OBVIOUS
  <2>2. n + 1 \in 0..Len(s) /\ n + 1 \in 1..Len(s) /\ n + 1 # 0 /\ (n + 1) - 1 = n /\ n <= Len(s)
    BY <2>1
  <2>3. f[n + 1] = f[(n + 1) - 1] + w[s[n + 1]]
    BY <1>1, <2>2 DEF IsSum
  <2>4. g[n + 1] = g[(n + 1) - 1] + w[s[n + 1]]
    BY <2>2 DEF Sums
  <2>5. f[n] = g[n]
    BY <2>2
  <2> QED
    BY <2>2, <2>3, <2>4, <2>5
<1> HIDE DEF S
<1>5. Len(s) \in S
  <2>1. S \in SUBSET Nat
    BY DEF S
  <2> QED
    BY <1>3, <1>4, <2>1, Upward
<1> QED
  BY <1>2, <1>5 DEF S

(* Natural weights have a running sum of naturals. *)
LEMMA RunningSum ==
  ASSUME NEW T, NEW s \in Seq(T), NEW w \in [T -> Nat]
  PROVE  \E g \in [0..Len(s) -> Nat] : Sums(g, w, s) /\ Total(w, s) = g[Len(s)]
<1>2. Len(s) \in Nat /\ \A i \in 1..Len(s) : s[i] \in T
  OBVIOUS
<1>1. PICK f : IsSum(f, w, s, Len(s))
  BY <1>2, SumExists
<1>3. Sums(f, w, s)
  BY <1>1, <1>2 DEF IsSum, Sums
<1> DEFINE S == {n \in Nat : n <= Len(s) => f[n] \in Nat}
<1>4. 0 \in S
  BY <1>3 DEF Sums
<1>5. ASSUME NEW n \in S PROVE n + 1 \in S
  <2>1. SUFFICES ASSUME n + 1 <= Len(s) PROVE f[n + 1] \in Nat
    OBVIOUS
  <2>2. n + 1 \in 1..Len(s) /\ (n + 1) - 1 = n /\ n <= Len(s)
    BY <1>2, <2>1
  <2>3. f[n + 1] = f[n] + w[s[n + 1]]
    BY <1>3, <2>2 DEF Sums
  <2>4. w[s[n + 1]] \in Nat /\ f[n] \in Nat
    BY <1>2, <2>2
  <2> QED
    BY <2>3, <2>4
<1> HIDE DEF S
<1>6. \A n \in Nat : n \in S
  <2>1. S \in SUBSET Nat
    BY DEF S
  <2> QED
    BY <1>4, <1>5, <2>1, Upward
<1>7. f \in [0..Len(s) -> Nat]
  <2>1. f = [i \in 0..Len(s) |-> f[i]]
    BY <1>1 DEF IsSum
  <2>2. \A i \in 0..Len(s) : f[i] \in Nat
    BY <1>6 DEF S
  <2> QED
    BY <2>1, <2>2
<1> QED
  BY <1>2, <1>3, <1>7, TotalIs

LEMMA TotalType ==
  ASSUME NEW T, NEW s \in Seq(T), NEW w \in [T -> Nat]
  PROVE  Total(w, s) \in Nat
<1>1. PICK g \in [0..Len(s) -> Nat] : Total(w, s) = g[Len(s)]
  BY RunningSum
<1>2. Len(s) \in 0..Len(s)
  OBVIOUS
<1> QED
  BY <1>1, <1>2

LEMMA TotalEmpty ==
  ASSUME NEW w
  PROVE  Total(w, <<>>) = 0
<1>1. Sums([i \in {0} |-> 0], w, <<>>)
  BY DEF Sums
<1> QED
  BY <1>1, TotalIs

(* The total of two sequences end to end. *)
LEMMA TotalConcat ==
  ASSUME NEW T, NEW s \in Seq(T), NEW t \in Seq(T), NEW w \in [T -> Nat]
  PROVE  Total(w, s \o t) = Total(w, s) + Total(w, t)
<1>1. PICK f \in [0..Len(s) -> Nat] : Sums(f, w, s) /\ Total(w, s) = f[Len(s)]
  BY RunningSum
<1>2. PICK h \in [0..Len(t) -> Nat] : Sums(h, w, t) /\ Total(w, t) = h[Len(t)]
  BY RunningSum
<1>3. Len(s) \in Nat /\ Len(t) \in Nat /\ Len(s \o t) = Len(s) + Len(t)
  OBVIOUS
<1> DEFINE n == Len(s)
           g == [i \in 0..(n + Len(t)) |-> IF i <= n THEN f[i] ELSE f[n] + h[i - n]]
<1>4. ASSUME NEW i \in 1..(n + Len(t)) PROVE g[i] = g[i - 1] + w[(s \o t)[i]]
  <2>1. CASE i <= n
    <3>1. i \in 1..Len(s) /\ (s \o t)[i] = s[i]
      BY <1>3, <2>1
    <3>2. g[i] = f[i] /\ g[i - 1] = f[i - 1]
      BY <1>3, <2>1
    <3> QED
      BY <1>1, <3>1, <3>2 DEF Sums
  <2>2. CASE i > n
    <3>1. (i - n) \in 1..Len(t) /\ (s \o t)[i] = t[i - n] /\ t[i - n] \in T
      <4>1. (i - n) \in 1..Len(t)
        BY <1>3, <2>2
      <4>2. (s \o t)[i] = t[i - n]
        BY <1>3, <2>2
      <4> QED
        BY <4>1, <4>2
    <3>2. h[i - n] = h[(i - n) - 1] + w[t[i - n]]
      BY <1>2, <3>1 DEF Sums
    <3>3. g[i] = f[n] + h[i - n]
      BY <1>3, <2>2
    <3>4. f[n] \in Nat /\ h[(i - n) - 1] \in Nat /\ w[t[i - n]] \in Nat
      <4>1. n \in 0..Len(s)
        BY <1>3
      <4>2. (i - n) - 1 \in 0..Len(t)
        BY <1>3, <3>1
      <4> QED
        BY <3>1, <4>1, <4>2
    <3>5. CASE i - 1 = n
      <4>1. g[i - 1] = f[n] /\ (i - n) - 1 = 0
        BY <1>3, <3>5
      <4>2. h[0] = 0
        BY <1>2 DEF Sums
      <4> HIDE DEF g, n
      <4> QED
        BY <3>1, <3>2, <3>3, <3>4, <4>1, <4>2
    <3>6. CASE i - 1 > n
      <4>1. g[i - 1] = f[n] + h[(i - n) - 1]
        BY <1>3, <3>6
      <4> HIDE DEF g, n
      <4> QED
        BY <3>1, <3>2, <3>3, <3>4, <4>1
    <3> QED
      BY <1>3, <2>2, <3>5, <3>6
  <2> QED
    BY <1>3, <2>1, <2>2
<1>5. g[0] = 0
  BY <1>1, <1>3 DEF Sums
<1>6. g[n + Len(t)] = f[n] + h[Len(t)]
  <2>1. CASE Len(t) = 0
    <3>1. g[n + Len(t)] = f[n] /\ h[Len(t)] = 0 /\ f[n] \in Nat
      BY <1>2, <1>3, <2>1 DEF Sums
    <3> QED
      BY <3>1
  <2>2. CASE Len(t) # 0
    BY <1>3, <2>2
  <2> QED
    BY <2>1, <2>2
<1> HIDE DEF g
<1>7. Sums(g, w, s \o t)
  BY <1>3, <1>4, <1>5 DEF Sums
<1>8. Total(w, s \o t) = g[Len(s \o t)]
  <2>1. Len(s \o t) \in Nat
    BY <1>3
  <2> QED
    BY <1>7, <2>1, TotalIs
<1> QED
  BY <1>1, <1>2, <1>3, <1>6, <1>8

LEMMA TotalOne ==
  ASSUME NEW w, NEW e, w[e] \in Nat
  PROVE  Total(w, <<e>>) = w[e]
<1> DEFINE g == [i \in 0..1 |-> IF i = 0 THEN 0 ELSE w[e]]
<1>1. Sums(g, w, <<e>>)
  BY DEF Sums
<1>2. g[1] = w[e] /\ Len(<<e>>) = 1
  OBVIOUS
<1> QED
  BY <1>1, <1>2, TotalIs

LEMMA TotalAppend ==
  ASSUME NEW T, NEW s \in Seq(T), NEW e \in T, NEW w \in [T -> Nat]
  PROVE  Total(w, Append(s, e)) = Total(w, s) + w[e]
<1>1. <<e>> \in Seq(T) /\ Append(s, e) = s \o <<e>>
  OBVIOUS
<1> QED
  BY <1>1, TotalConcat, TotalOne

LEMMA TotalHead ==
  ASSUME NEW T, NEW s \in Seq(T), s # <<>>, NEW w \in [T -> Nat]
  PROVE  Total(w, s) = w[Head(s)] + Total(w, Tail(s))
<1>1. Head(s) \in T /\ Tail(s) \in Seq(T) /\ <<Head(s)>> \in Seq(T)
  OBVIOUS
<1>2. s = <<Head(s)>> \o Tail(s)
  BY <1>1, SeqEqual
<1> QED
  BY <1>1, <1>2, TotalConcat, TotalOne

(* Around its i-th member a sequence is what comes before and after.       *)
Before(s, i) == SubSeq(s, 1, i - 1)
After(s, i) == SubSeq(s, i + 1, Len(s))
Put(s, i, x) == [s EXCEPT ![i] = x]

LEMMA Around ==
  ASSUME NEW T, NEW s \in Seq(T), NEW i \in 1..Len(s)
  PROVE  /\ Before(s, i) \in Seq(T) /\ Len(Before(s, i)) = i - 1
         /\ \A j \in 1..(i - 1) : Before(s, i)[j] = s[j]
         /\ After(s, i) \in Seq(T) /\ Len(After(s, i)) = Len(s) - i
         /\ \A j \in 1..(Len(s) - i) : After(s, i)[j] = s[i + j]
<1>1. Len(s) \in Nat /\ i \in Nat /\ i >= 1 /\ \A j \in 1..Len(s) : s[j] \in T
  OBVIOUS
<1>2. \A j \in 1..(i - 1) : s[j] \in T
  BY <1>1
<1>3. \A j \in (i + 1)..Len(s) : s[j] \in T
  BY <1>1
<1>4. /\ SubSeq(s, 1, i - 1) \in Seq(T)
      /\ Len(SubSeq(s, 1, i - 1)) = IF 1 <= i - 1 THEN (i - 1) - 1 + 1 ELSE 0
      /\ \A j \in 1..((i - 1) - 1 + 1) : SubSeq(s, 1, i - 1)[j] = s[1 + j - 1]
  <2>1. 1 \in Int /\ i - 1 \in Int
    BY <1>1
  <2> QED
    BY <1>2, <2>1, SubSeqProperties
<1>5. /\ SubSeq(s, i + 1, Len(s)) \in Seq(T)
      /\ Len(SubSeq(s, i + 1, Len(s))) = IF i + 1 <= Len(s) THEN Len(s) - (i + 1) + 1 ELSE 0
      /\ \A j \in 1..(Len(s) - (i + 1) + 1) : SubSeq(s, i + 1, Len(s))[j] = s[(i + 1) + j - 1]
  <2>1. i + 1 \in Int /\ Len(s) \in Int
    BY <1>1
  <2> QED
    BY <1>3, <2>1, SubSeqProperties
<1>6. Len(Before(s, i)) = i - 1 /\ Len(After(s, i)) = Len(s) - i
  BY <1>1, <1>4, <1>5 DEF Before, After
<1>7. \A j \in 1..(i - 1) : Before(s, i)[j] = s[j]
  <2>1. ASSUME NEW j \in 1..(i - 1) PROVE Before(s, i)[j] = s[j]
    <3>1. j \in 1..((i - 1) - 1 + 1) /\ 1 + j - 1 = j
      BY <1>1
    <3> QED
      BY <1>4, <3>1 DEF Before
  <2> QED
    BY <2>1
<1>8. \A j \in 1..(Len(s) - i) : After(s, i)[j] = s[i + j]
  <2>1. ASSUME NEW j \in 1..(Len(s) - i) PROVE After(s, i)[j] = s[i + j]
    <3>1. j \in 1..(Len(s) - (i + 1) + 1) /\ (i + 1) + j - 1 = i + j
      BY <1>1
    <3> QED
      BY <1>5, <3>1 DEF After
  <2> QED
    BY <2>1
<1> QED
  BY <1>4, <1>5, <1>6, <1>7, <1>8 DEF Before, After

(* With x between them, they are s with x at i. *)
LEMMA Rejoined ==
  ASSUME NEW T, NEW s \in Seq(T), NEW i \in 1..Len(s), NEW x \in T
  PROVE  Put(s, i, x) = (Before(s, i) \o <<x>>) \o After(s, i)
<1> DEFINE p == Before(s, i)
           q == After(s, i)
           a == p \o <<x>>
           t == a \o q
           r == Put(s, i, x)
<1>1. Len(s) \in Nat /\ i \in Nat /\ i >= 1 /\ i <= Len(s)
  OBVIOUS
<1>2. p \in Seq(T) /\ Len(p) = i - 1 /\ q \in Seq(T) /\ Len(q) = Len(s) - i
  BY Around
<1>3. \A j \in 1..(i - 1) : p[j] = s[j]
  BY Around
<1>4. \A j \in 1..(Len(s) - i) : q[j] = s[i + j]
  BY Around
<1>5. r \in Seq(T) /\ Len(r) = Len(s) /\ \A j \in 1..Len(s) : r[j] = IF j = i THEN x ELSE s[j]
  BY ExceptSeq DEF Put
<1> HIDE DEF p, q, r, a, t
<1>6. <<x>> \in Seq(T) /\ Len(<<x>>) = 1 /\ <<x>>[1] = x
  OBVIOUS
<1>7. a \in Seq(T) /\ Len(a) = i
  BY <1>1, <1>2, <1>6, ConcatProperties DEF a
<1>8. ASSUME NEW j \in 1..i PROVE a[j] = IF j < i THEN s[j] ELSE x
  <2>1. j \in 1..(Len(p) + Len(<<x>>))
    BY <1>1, <1>2, <1>6
  <2>2. a[j] = IF j <= Len(p) THEN p[j] ELSE <<x>>[j - Len(p)]
    BY <1>2, <1>6, <2>1, ConcatProperties DEF a
  <2>3. CASE j < i
    BY <1>1, <1>2, <1>3, <2>2, <2>3
  <2>4. CASE j = i
    <3>1. ~ (j <= Len(p)) /\ j - Len(p) = 1
      BY <1>1, <1>2, <2>4
    <3> QED
      BY <1>6, <2>2, <2>4, <3>1
  <2>5. j < i \/ j = i
    BY <1>1
  <2> QED
    BY <2>3, <2>4, <2>5
<1>9. t \in Seq(T) /\ Len(t) = Len(s)
  BY <1>1, <1>2, <1>7, ConcatProperties DEF t
<1>10. ASSUME NEW j \in 1..Len(s) PROVE t[j] = r[j]
  <2>1. t[j] = IF j <= Len(a) THEN a[j] ELSE q[j - Len(a)]
    <3>1. j \in 1..(Len(a) + Len(q))
      BY <1>1, <1>2, <1>7
    <3> QED
      BY <1>2, <1>7, <3>1, ConcatProperties DEF t
  <2>2. CASE j <= i
    <3>1. j \in 1..i /\ t[j] = a[j]
      BY <1>1, <1>7, <2>1, <2>2
    <3>2. a[j] = IF j < i THEN s[j] ELSE x
      BY <1>8, <3>1
    <3>3. r[j] = IF j = i THEN x ELSE s[j]
      BY <1>5
    <3>4. j < i <=> ~ (j = i)
      BY <1>1, <2>2
    <3> QED
      BY <3>1, <3>2, <3>3, <3>4
  <2>3. CASE j > i
    <3>1. t[j] = q[j - i]
      BY <1>1, <1>7, <2>1, <2>3
    <3>2. (j - i) \in 1..(Len(s) - i) /\ i + (j - i) = j
      BY <1>1, <2>3
    <3>3. q[j - i] = s[i + (j - i)]
      BY <1>4, <3>2
    <3>4. r[j] = s[j]
      BY <1>1, <1>5, <2>3
    <3> QED
      BY <3>1, <3>2, <3>3, <3>4
  <2>4. j <= i \/ j > i
    BY <1>1
  <2> QED
    BY <2>2, <2>3, <2>4
<1>11. t = r
  BY <1>5, <1>9, <1>10, SeqEqual
<1> QED
  BY <1>11 DEF p, q, r, t, a

(* What happens to a total when a member is replaced, or goes. *)
LEMMA TotalAround ==
  ASSUME NEW T, NEW s \in Seq(T), NEW i \in 1..Len(s), NEW w \in [T -> Nat]
  PROVE  /\ Total(w, s) = Total(w, Before(s, i) \o After(s, i)) + w[s[i]]
         /\ \A x \in T : Total(w, Put(s, i, x)) =
                         Total(w, Before(s, i) \o After(s, i)) + w[x]
<1> DEFINE p == Before(s, i)
           q == After(s, i)
<1>1. p \in Seq(T) /\ q \in Seq(T)
  BY Around
<1> HIDE DEF p, q
<1>2. Total(w, p) \in Nat /\ Total(w, q) \in Nat /\ Total(w, p \o q) = Total(w, p) + Total(w, q)
  BY <1>1, TotalType, TotalConcat
<1>3. ASSUME NEW x \in T
      PROVE  Total(w, Put(s, i, x)) = Total(w, p \o q) + w[x]
  <2>1. Put(s, i, x) = (p \o <<x>>) \o q
    <3>1. Put(s, i, x) = (Before(s, i) \o <<x>>) \o After(s, i)
      BY Rejoined
    <3> QED
      BY <3>1 DEF p, q
  <2>2. <<x>> \in Seq(T) /\ (p \o <<x>>) \in Seq(T) /\ w[x] \in Nat
    BY <1>1
  <2>3. Total(w, (p \o <<x>>) \o q) = Total(w, p \o <<x>>) + Total(w, q)
    BY <1>1, <2>2, TotalConcat
  <2>4. Total(w, p \o <<x>>) = Total(w, p) + Total(w, <<x>>)
    BY <1>1, <2>2, TotalConcat
  <2>5. Total(w, <<x>>) = w[x]
    BY <2>2, TotalOne
  <2>6. Total(w, Put(s, i, x)) = (Total(w, p) + w[x]) + Total(w, q)
    BY <2>1, <2>3, <2>4, <2>5
  <2> QED
    BY <1>2, <2>2, <2>6
<1>4. s[i] \in T /\ Put(s, i, s[i]) = s
  BY DEF Put
<1>5. Total(w, s) = Total(w, p \o q) + w[s[i]]
  BY <1>3, <1>4
<1> QED
  BY <1>3, <1>5 DEF p, q

(* A member with a weight shows in the total. *)
LEMMA TotalAtLeast ==
  ASSUME NEW T, NEW s \in Seq(T), NEW i \in 1..Len(s), NEW w \in [T -> Nat]
  PROVE  w[s[i]] <= Total(w, s)
<1>1. Before(s, i) \o After(s, i) \in Seq(T) /\ s[i] \in T
  BY Around
<1>2. Total(w, Before(s, i) \o After(s, i)) \in Nat /\ w[s[i]] \in Nat
  BY <1>1, TotalType
<1>3. Total(w, s) = Total(w, Before(s, i) \o After(s, i)) + w[s[i]]
  BY TotalAround
<1> QED
  BY <1>2, <1>3

-----------------------------------------------------------------------------
(* g holds what is left of the first members of s, step by step. *)
Thins(g, gone, s) ==
  /\ g[0] = <<>>
  /\ \A i \in 1..Len(s) : g[i] = IF s[i] \in gone THEN g[i - 1] ELSE Append(g[i - 1], s[i])

IsThin(f, gone, s, n) ==
  f = [i \in 0..n |->
        IF i = 0 THEN <<>> ELSE IF s[i] \in gone THEN f[i - 1] ELSE Append(f[i - 1], s[i])]

(* The recursive definition of Without has a solution. *)
LEMMA ThinExists ==
  ASSUME NEW gone, NEW s
  PROVE  \A n \in Nat : \E f : IsThin(f, gone, s, n)
<1> DEFINE S == {n \in Nat : \E f : IsThin(f, gone, s, n)}
<1>1. 0 \in S
  <2>1. IsThin([i \in {0} |-> <<>>], gone, s, 0)
    BY DEF IsThin
  <2> QED
    BY <2>1
<1>2. ASSUME NEW n \in S PROVE n + 1 \in S
  <2>1. PICK f : IsThin(f, gone, s, n)
    OBVIOUS
  <2> DEFINE g == [i \in 0..(n + 1) |->
        IF i = 0 THEN <<>> ELSE IF s[i] \in gone THEN f[i - 1] ELSE Append(f[i - 1], s[i])]
  <2>2. ASSUME NEW i \in 0..n PROVE g[i] = f[i]
    <3>1. f[i] = IF i = 0 THEN <<>> ELSE IF s[i] \in gone THEN f[i - 1] ELSE Append(f[i - 1], s[i])
      BY <2>1 DEF IsThin
    <3> QED
      BY <3>1
  <2>3. ASSUME NEW i \in 0..(n + 1)
        PROVE  g[i] = IF i = 0 THEN <<>> ELSE IF s[i] \in gone THEN g[i - 1] ELSE Append(g[i - 1], s[i])
    <3>1. CASE i = 0
      BY <3>1
    <3>2. CASE i # 0
      <4>1. i - 1 \in 0..n
        BY <3>2
      <4>2. g[i - 1] = f[i - 1]
        BY <4>1, <2>2
      <4> QED
        BY <3>2, <4>2
    <3> QED
      BY <3>1, <3>2
  <2> HIDE DEF g
  <2>4. g = [i \in 0..(n + 1) |-> g[i]]
    BY DEF g
  <2>5. IsThin(g, gone, s, n + 1)
    BY <2>3, <2>4 DEF IsThin
  <2> QED
    BY <2>5
<1> HIDE DEF S
<1>3. \A n \in Nat : n \in S
  <2>1. S \in SUBSET Nat
    BY DEF S
  <2> QED
    BY <1>1, <1>2, <2>1, Upward
<1> QED
  BY <1>3 DEF S

(* Thinning step by step ends in what is left. *)
LEMMA WithoutIs ==
  ASSUME NEW gone, NEW s, Len(s) \in Nat, NEW g, Thins(g, gone, s)
  PROVE  Without(s, gone) = g[Len(s)]
<1> DEFINE f == CHOOSE h : h = [i \in 0..Len(s) |->
        IF i = 0 THEN <<>> ELSE IF s[i] \in gone THEN h[i - 1] ELSE Append(h[i - 1], s[i])]
<1>1. IsThin(f, gone, s, Len(s))
  <2>1. \E h : IsThin(h, gone, s, Len(s))
    BY ThinExists
  <2> QED
    BY <2>1 DEF IsThin
<1>2. Without(s, gone) = f[Len(s)]
  BY DEF Without
<1> HIDE DEF f
<1> DEFINE S == {n \in Nat : n <= Len(s) => f[n] = g[n]}
<1>3. 0 \in S
  BY <1>1 DEF IsThin, Thins
<1>4. ASSUME NEW n \in S PROVE n + 1 \in S
  <2>1. SUFFICES ASSUME n + 1 <= Len(s) PROVE f[n + 1] = g[n + 1]
    OBVIOUS
  <2>2. n + 1 \in 0..Len(s) /\ n + 1 \in 1..Len(s) /\ n + 1 # 0 /\ (n + 1) - 1 = n /\ n <= Len(s)
    BY <2>1
  <2>3. f[n + 1] = IF s[n + 1] \in gone THEN f[n] ELSE Append(f[n], s[n + 1])
    BY <1>1, <2>2 DEF IsThin
  <2>4. g[n + 1] = IF s[n + 1] \in gone THEN g[n] ELSE Append(g[n], s[n + 1])
    BY <2>2 DEF Thins
  <2>5. f[n] = g[n]
    BY <2>2
  <2> QED
    BY <2>3, <2>4, <2>5
<1> HIDE DEF S
<1>5. Len(s) \in S
  <2>1. S \in SUBSET Nat
    BY DEF S
  <2> QED
    BY <1>3, <1>4, <2>1, Upward
<1> QED
  BY <1>2, <1>5 DEF S

(* The steps are sequences of the members that are not gone. *)
LEMMA Thinning ==
  ASSUME NEW T, NEW s \in Seq(T), NEW gone
  PROVE  \E g \in [0..Len(s) -> Seq(T \ gone)] :
           Thins(g, gone, s) /\ Without(s, gone) = g[Len(s)]
<1>1. Len(s) \in Nat /\ \A i \in 1..Len(s) : s[i] \in T
  OBVIOUS
<1>2. PICK f : IsThin(f, gone, s, Len(s))
  BY <1>1, ThinExists
<1>3. Thins(f, gone, s)
  <2>1. f[0] = <<>>
    <3>1. 0 \in 0..Len(s)
      BY <1>1
    <3> QED
      BY <1>2, <3>1 DEF IsThin
  <2>2. ASSUME NEW i \in 1..Len(s)
        PROVE  f[i] = IF s[i] \in gone THEN f[i - 1] ELSE Append(f[i - 1], s[i])
    <3>1. i \in 0..Len(s) /\ i # 0
      BY <1>1
    <3> QED
      BY <1>2, <3>1 DEF IsThin
  <2> QED
    BY <2>1, <2>2 DEF Thins
<1> DEFINE S == {n \in Nat : n <= Len(s) => f[n] \in Seq(T \ gone)}
<1>4. 0 \in S
  <2>1. f[0] = <<>> /\ <<>> \in Seq(T \ gone)
    BY <1>3 DEF Thins
  <2> QED
    BY <2>1
<1>5. ASSUME NEW n \in S PROVE n + 1 \in S
  <2>1. SUFFICES ASSUME n + 1 <= Len(s) PROVE f[n + 1] \in Seq(T \ gone)
    OBVIOUS
  <2>2. n + 1 \in 1..Len(s) /\ (n + 1) - 1 = n /\ n <= Len(s)
    BY <1>1, <2>1
  <2>3. f[n + 1] = IF s[n + 1] \in gone THEN f[n] ELSE Append(f[n], s[n + 1])
    BY <1>3, <2>2 DEF Thins
  <2>4. s[n + 1] \in T /\ f[n] \in Seq(T \ gone)
    BY <1>1, <2>2
  <2>5. CASE s[n + 1] \in gone
    BY <2>3, <2>4, <2>5
  <2>6. CASE s[n + 1] \notin gone
    <3>1. s[n + 1] \in T \ gone
      BY <2>4, <2>6
    <3>2. Append(f[n], s[n + 1]) \in Seq(T \ gone)
      BY <2>4, <3>1, AppendProperties
    <3> QED
      BY <2>3, <2>6, <3>2
  <2> QED
    BY <2>5, <2>6
<1> HIDE DEF S
<1>6. \A n \in Nat : n \in S
  <2>1. S \in SUBSET Nat
    BY DEF S
  <2> QED
    BY <1>4, <1>5, <2>1, Upward
<1>7. f \in [0..Len(s) -> Seq(T \ gone)]
  <2>1. f = [i \in 0..Len(s) |-> f[i]]
    BY <1>2 DEF IsThin
  <2>2. \A i \in 0..Len(s) : f[i] \in Seq(T \ gone)
    BY <1>6 DEF S
  <2> QED
    BY <2>1, <2>2
<1> QED
  BY <1>1, <1>3, <1>7, WithoutIs

LEMMA WithoutType ==
  ASSUME NEW T, NEW s \in Seq(T), NEW gone
  PROVE  Without(s, gone) \in Seq(T \ gone) /\ Without(s, gone) \in Seq(T)
<1>1. PICK g \in [0..Len(s) -> Seq(T \ gone)] : Without(s, gone) = g[Len(s)]
  BY Thinning
<1>2. Len(s) \in 0..Len(s)
  OBVIOUS
<1>3. Without(s, gone) \in Seq(T \ gone)
  BY <1>1, <1>2
<1> QED
  BY <1>3, SeqMonotonic

LEMMA WithoutEmpty ==
  ASSUME NEW gone
  PROVE  Without(<<>>, gone) = <<>>
<1>1. Thins([i \in {0} |-> <<>>], gone, <<>>)
  BY DEF Thins
<1> QED
  BY <1>1, WithoutIs

LEMMA WithoutOne ==
  ASSUME NEW gone, NEW e
  PROVE  Without(<<e>>, gone) = IF e \in gone THEN <<>> ELSE <<e>>
<1> DEFINE g == [i \in 0..1 |-> IF i = 0 THEN <<>> ELSE IF e \in gone THEN <<>> ELSE <<e>>]
<1>1. g[0] = <<>> /\ g[1] = (IF e \in gone THEN <<>> ELSE <<e>>)
  OBVIOUS
<1> HIDE DEF g
<1>2. Len(<<e>>) = 1 /\ <<e>>[1] = e /\ Append(<<>>, e) = <<e>>
  OBVIOUS
<1>3. \A i \in 1..1 : i = 1 /\ i - 1 = 0
  OBVIOUS
<1>4. Thins(g, gone, <<e>>)
  BY <1>1, <1>2, <1>3 DEF Thins
<1> QED
  BY <1>1, <1>2, <1>4, WithoutIs

(* Thinning one sequence after the other. *)
LEMMA WithoutConcat ==
  ASSUME NEW T, NEW s \in Seq(T), NEW t \in Seq(T), NEW gone
  PROVE  Without(s \o t, gone) = Without(s, gone) \o Without(t, gone)
<1>1. PICK f \in [0..Len(s) -> Seq(T \ gone)] : Thins(f, gone, s) /\ Without(s, gone) = f[Len(s)]
  BY Thinning
<1>2. PICK h \in [0..Len(t) -> Seq(T \ gone)] : Thins(h, gone, t) /\ Without(t, gone) = h[Len(t)]
  BY Thinning
<1>3. Len(s) \in Nat /\ Len(t) \in Nat /\ Len(s \o t) = Len(s) + Len(t)
  OBVIOUS
<1> DEFINE n == Len(s)
           g == [i \in 0..(n + Len(t)) |-> IF i <= n THEN f[i] ELSE f[n] \o h[i - n]]
<1>4. f[n] \in Seq(T \ gone) /\ f[n] \o <<>> = f[n]
  <2>1. n \in 0..Len(s)
    BY <1>3
  <2>2. f[n] \in Seq(T \ gone)
    BY <2>1
  <2> QED
    BY <2>2, ConcatEmptySeq
<1>5. ASSUME NEW i \in 1..(n + Len(t))
      PROVE  g[i] = IF (s \o t)[i] \in gone THEN g[i - 1] ELSE Append(g[i - 1], (s \o t)[i])
  <2>1. CASE i <= n
    <3>1. i \in 1..Len(s) /\ (s \o t)[i] = s[i]
      BY <1>3, <2>1
    <3>2. g[i] = f[i] /\ g[i - 1] = f[i - 1]
      BY <1>3, <2>1
    <3> QED
      BY <1>1, <3>1, <3>2 DEF Thins
  <2>2. CASE i > n
    <3>1. (i - n) \in 1..Len(t)
      BY <1>3, <2>2
    <3>2. (s \o t)[i] = t[i - n] /\ t[i - n] \in T
      BY <1>3, <2>2, <3>1
    <3>3. h[i - n] = IF t[i - n] \in gone THEN h[(i - n) - 1] ELSE Append(h[(i - n) - 1], t[i - n])
      BY <1>2, <3>1 DEF Thins
    <3>4. g[i] = f[n] \o h[i - n]
      BY <1>3, <2>2
    <3>5. h[(i - n) - 1] \in Seq(T \ gone)
      <4>1. (i - n) - 1 \in 0..Len(t)
        BY <1>3, <3>1
      <4> QED
        BY <4>1
    <3>6. g[i - 1] = f[n] \o h[(i - n) - 1]
      <4>1. CASE i - 1 = n
        <5>1. g[i - 1] = f[n] /\ (i - n) - 1 = 0
          BY <1>3, <4>1
        <5>2. h[0] = <<>>
          BY <1>2 DEF Thins
        <5> HIDE DEF g, n
        <5> QED
          BY <1>4, <5>1, <5>2
      <4>2. CASE i - 1 > n
        BY <1>3, <4>2
      <4>3. i - 1 = n \/ i - 1 > n
        BY <1>3, <2>2
      <4> QED
        BY <4>1, <4>2, <4>3
    <3> HIDE DEF g, n
    <3>7. CASE t[i - n] \in gone
      BY <3>2, <3>3, <3>4, <3>6, <3>7
    <3>8. CASE t[i - n] \notin gone
      <4> DEFINE e == t[i - n]
                 a == f[n]
                 b == h[(i - n) - 1]
      <4>1. e \in T \ gone /\ a \in Seq(T \ gone) /\ b \in Seq(T \ gone)
        BY <1>4, <3>2, <3>5, <3>8
      <4>2. h[i - n] = Append(b, e)
        BY <3>3, <3>8
      <4> HIDE DEF e, a, b
      <4>3. <<e>> \in Seq(T \ gone) /\ a \o b \in Seq(T \ gone)
        BY <4>1, ConcatProperties
      <4>4. Append(b, e) = b \o <<e>> /\ Append(a \o b, e) = (a \o b) \o <<e>>
        BY <4>1, <4>3, AppendIsConcat
      <4>5. (a \o b) \o <<e>> = a \o (b \o <<e>>)
        BY <4>1, <4>3, ConcatAssociative
      <4>6. Append(a \o b, e) = a \o Append(b, e)
        BY <4>4, <4>5
      <4> QED
        BY <3>2, <3>4, <3>6, <3>8, <4>2, <4>6 DEF e, a, b
    <3> QED
      BY <3>7, <3>8
  <2> QED
    BY <1>3, <2>1, <2>2
<1>6. g[0] = <<>>
  BY <1>1, <1>3 DEF Thins
<1>7. g[n + Len(t)] = f[n] \o h[Len(t)]
  <2>1. CASE Len(t) = 0
    <3>1. g[n + Len(t)] = f[n] /\ h[Len(t)] = <<>>
      BY <1>2, <1>3, <2>1 DEF Thins
    <3> QED
      BY <1>4, <3>1
  <2>2. CASE Len(t) # 0
    BY <1>3, <2>2
  <2> QED
    BY <2>1, <2>2
<1> HIDE DEF g
<1>8. Thins(g, gone, s \o t)
  BY <1>3, <1>5, <1>6 DEF Thins
<1>9. Without(s \o t, gone) = g[Len(s \o t)]
  <2>1. Len(s \o t) \in Nat
    BY <1>3
  <2> QED
    BY <1>8, <2>1, WithoutIs
<1> QED
  BY <1>1, <1>2, <1>3, <1>7, <1>9

(* What is thinned twice is thinned once, of both. *)
LEMMA WithoutTwice ==
  ASSUME NEW T, NEW s \in Seq(T), NEW A, NEW B
  PROVE  Without(Without(s, A), B) = Without(s, A \cup B)
<1>1. PICK f \in [0..Len(s) -> Seq(T \ A)] : Thins(f, A, s) /\ Without(s, A) = f[Len(s)]
  BY Thinning
<1>2. Len(s) \in Nat
  OBVIOUS
<1> DEFINE g == [i \in 0..Len(s) |-> Without(f[i], B)]
<1>3. g[0] = <<>>
  <2>1. g[0] = Without(<<>>, B)
    BY <1>1, <1>2 DEF Thins
  <2> QED
    BY <2>1, WithoutEmpty
<1>4. ASSUME NEW i \in 1..Len(s)
      PROVE  g[i] = IF s[i] \in A \cup B THEN g[i - 1] ELSE Append(g[i - 1], s[i])
  <2>1. i \in 0..Len(s) /\ i - 1 \in 0..Len(s) /\ s[i] \in T
    BY <1>2
  <2>2. g[i] = Without(f[i], B) /\ g[i - 1] = Without(f[i - 1], B)
    BY <2>1
  <2> HIDE DEF g
  <2>3. f[i] = IF s[i] \in A THEN f[i - 1] ELSE Append(f[i - 1], s[i])
    BY <1>1 DEF Thins
  <2>4. CASE s[i] \in A
    BY <2>2, <2>3, <2>4
  <2>5. CASE s[i] \notin A
    <3> DEFINE e == s[i]
               a == f[i - 1]
    <3>1. e \in T \ A /\ a \in Seq(T \ A)
      BY <2>1, <2>5
    <3>2. f[i] = Append(a, e)
      BY <2>3, <2>5
    <3> HIDE DEF e, a
    <3> DEFINE y == <<e>>
    <3>3. y \in Seq(T \ A) /\ Append(a, e) = a \o y
      BY <3>1, AppendIsConcat
    <3>4. Without(a \o y, B) = Without(a, B) \o Without(y, B)
      <4> HIDE DEF y
      <4> QED
        BY <3>1, <3>3, WithoutConcat
    <3>5. Without(<<e>>, B) = IF e \in B THEN <<>> ELSE <<e>>
      BY WithoutOne
    <3>6. Without(a, B) \in Seq(T \ A)
      BY <3>1, WithoutType
    <3>7. CASE e \in B
      <4>1. Without(a, B) \o <<>> = Without(a, B)
        BY <3>6, ConcatEmptySeq
      <4> QED
        BY <2>2, <3>2, <3>3, <3>4, <3>5, <3>7, <4>1 DEF e, a
    <3>8. CASE e \notin B
      <4>1. Without(a, B) \o <<e>> = Append(Without(a, B), e)
        BY <3>1, <3>6, AppendIsConcat
      <4>2. g[i] = Append(g[i - 1], e)
        BY <2>2, <3>2, <3>3, <3>4, <3>5, <3>8, <4>1 DEF a
      <4> QED
        BY <2>5, <3>8, <4>2 DEF e
    <3> QED
      BY <3>7, <3>8
  <2> QED
    BY <2>4, <2>5
<1>5. g[Len(s)] = Without(Without(s, A), B)
  BY <1>1, <1>2
<1> HIDE DEF g
<1>6. Thins(g, A \cup B, s)
  BY <1>3, <1>4 DEF Thins
<1> QED
  BY <1>2, <1>5, <1>6, WithoutIs

(* Nothing is thinned of a sequence that has no such member. *)
LEMMA WithoutNone ==
  ASSUME NEW T, NEW s \in Seq(T), NEW gone, \A i \in 1..Len(s) : s[i] \notin gone
  PROVE  Without(s, gone) = s
<1>1. Len(s) \in Nat /\ \A i \in 1..Len(s) : s[i] \in T
  OBVIOUS
<1> DEFINE g == [i \in 0..Len(s) |-> SubSeq(s, 1, i)]
<1>2. g[0] = <<>>
  BY <1>1, SubSeqEmpty
<1>3. ASSUME NEW i \in 1..Len(s)
      PROVE  g[i] = IF s[i] \in gone THEN g[i - 1] ELSE Append(g[i - 1], s[i])
  <2>1. i \in 0..Len(s) /\ i - 1 \in 0..Len(s) /\ 1 \in 1..Len(s) /\ i \in 1..Len(s) /\ s[i] \in T
    BY <1>1
  <2>2. g[i] = SubSeq(s, 1, i) /\ g[i - 1] = SubSeq(s, 1, i - 1)
    BY <2>1
  <2> HIDE DEF g
  <2>3. SubSeq(s, 1, i) = SubSeq(s, 1, i - 1) \o <<s[i]>>
    BY <2>1, SubSeqRecursiveSecond
  <2>4. SubSeq(s, 1, i - 1) \in Seq(T)
    BY Around DEF Before
  <2>5. Append(SubSeq(s, 1, i - 1), s[i]) = SubSeq(s, 1, i - 1) \o <<s[i]>>
    BY <2>1, <2>4, AppendIsConcat
  <2> QED
    BY <2>2, <2>3, <2>5
<1>4. g[Len(s)] = s
  BY <1>1, SubSeqFull
<1> HIDE DEF g
<1>5. Thins(g, gone, s)
  BY <1>2, <1>3 DEF Thins
<1> QED
  BY <1>1, <1>4, <1>5, WithoutIs

(* Thinning leaves or takes the i-th member, and thins what is around it. *)
LEMMA WithoutAround ==
  ASSUME NEW T, NEW s \in Seq(T), NEW i \in 1..Len(s), NEW x \in T, NEW gone
  PROVE  Without(Put(s, i, x), gone) =
           (Without(Before(s, i), gone) \o Without(<<x>>, gone)) \o Without(After(s, i), gone)
<1> DEFINE p == Before(s, i)
           q == After(s, i)
           y == <<x>>
<1>1. p \in Seq(T) /\ q \in Seq(T) /\ y \in Seq(T)
  BY Around
<1>2. Put(s, i, x) = (p \o y) \o q
  BY Rejoined
<1> HIDE DEF p, q, y
<1> DEFINE a == p \o y
<1>3. a \in Seq(T)
  BY <1>1, ConcatProperties
<1>4. Without(a \o q, gone) = Without(a, gone) \o Without(q, gone)
  <2>1. a \in Seq(T) /\ q \in Seq(T)
    BY <1>1, <1>3
  <2> HIDE DEF a
  <2> QED
    BY <2>1, WithoutConcat
<1>5. Without(p \o y, gone) = Without(p, gone) \o Without(y, gone)
  BY <1>1, WithoutConcat
<1> QED
  BY <1>2, <1>4, <1>5 DEF p, q, y

(* A member that is not gone is still there. *)
LEMMA WithoutKeeps ==
  ASSUME NEW T, NEW s \in Seq(T), NEW i \in 1..Len(s), NEW gone, s[i] \notin gone
  PROVE  \E j \in DOMAIN Without(s, gone) : Without(s, gone)[j] = s[i]
<1> DEFINE x == s[i]
           p == Without(Before(s, i), gone)
           q == Without(After(s, i), gone)
<1>1. x \in T /\ Put(s, i, x) = s
  BY DEF Put
<1>2. p \in Seq(T) /\ q \in Seq(T) /\ <<x>> \in Seq(T)
  <2>1. Before(s, i) \in Seq(T) /\ After(s, i) \in Seq(T)
    BY Around
  <2>2. p \in Seq(T) /\ q \in Seq(T)
    BY <2>1, WithoutType
  <2> QED
    BY <1>1, <2>2
<1>3. Without(s, gone) = (p \o <<x>>) \o q
  <2>1. Without(<<x>>, gone) = <<x>>
    BY WithoutOne
  <2>2. Without(Put(s, i, x), gone) = (p \o Without(<<x>>, gone)) \o q
    BY <1>1, WithoutAround
  <2> QED
    BY <1>1, <2>1, <2>2
<1> HIDE DEF p, q, x
<1>4. Len(p) \in Nat /\ Len(q) \in Nat /\ Len(<<x>>) = 1 /\ <<x>>[1] = x
  BY <1>2
<1>5. p \o <<x>> \in Seq(T) /\ Len(p \o <<x>>) = Len(p) + 1 /\ (p \o <<x>>)[Len(p) + 1] = x
  <2>1. p \o <<x>> \in Seq(T) /\ Len(p \o <<x>>) = Len(p) + 1
    BY <1>2, <1>4, ConcatProperties
  <2>2. (p \o <<x>>)[Len(p) + 1] = <<x>>[(Len(p) + 1) - Len(p)]
    BY <1>2, <1>4, ConcatProperties
  <2>3. (Len(p) + 1) - Len(p) = 1
    BY <1>4
  <2> QED
    BY <1>4, <2>1, <2>2, <2>3
<1> DEFINE a == p \o <<x>>
<1>6. a \in Seq(T) /\ Len(a) = Len(p) + 1 /\ a[Len(p) + 1] = x
  BY <1>5
<1> HIDE DEF a
<1>7. a \o q \in Seq(T) /\ Len(a \o q) = Len(p) + 1 + Len(q)
  BY <1>2, <1>6, ConcatProperties
<1>8. (a \o q)[Len(p) + 1] = x
  BY <1>2, <1>4, <1>6, ConcatProperties
<1>9. Len(p) + 1 \in DOMAIN (a \o q)
  BY <1>4, <1>7
<1> QED
  BY <1>3, <1>8, <1>9 DEF a, x

-----------------------------------------------------------------------------
(* What the totals of the queue's items count: items of a kind, the losses  *)
(* that markers announce, copies of an event, markers with another count.   *)
Kind(kind) == [e \in Item |-> IF e.kind = kind THEN 1 ELSE 0]
Worth == [e \in Item |-> IF IsMarker(e) THEN e.n ELSE 0]
Same(x) == [e \in Item |-> IF e = x THEN 1 ELSE 0]
Stray(d) == [e \in Item |-> IF e.kind = "dropped" /\ e.n # d THEN 1 ELSE 0]

LEMMA Weights ==
  /\ \A kind : Kind(kind) \in [Item -> Nat]
  /\ Worth \in [Item -> Nat]
  /\ \A x : Same(x) \in [Item -> Nat]
  /\ \A d : Stray(d) \in [Item -> Nat]
<1>1. ASSUME NEW e \in Item, IsMarker(e) PROVE e.n \in Nat
  BY <1>1 DEF Item, Event, Notice, IsMarker
<1>2. Worth \in [Item -> Nat]
  BY <1>1 DEF Worth
<1> QED
  BY <1>2 DEF Kind, Same, Stray

(* What an item is. *)
LEMMA Kinds ==
  ASSUME NEW e \in Item
  PROVE  /\ e.kind \in {"output", "lossless", "dropped"}
         /\ IsOutput(e) <=> e.kind = "output"
         /\ IsMarker(e) <=> e.kind = "dropped"
         /\ e.kind = "output" <=> e \in Output
         /\ e.kind = "dropped" <=> e \in Notice
         /\ e.kind # "dropped" <=> e \in Event
  BY DEF Item, Event, Notice, Output, IsOutput, IsMarker

LEMMA AnnouncedIs == \A s : Announced(s) = Total(Worth, s)
  BY DEF Announced, Total, Worth

LEMMA WithoutSame == \A s, gone : Fifo!Without(s, gone) = Without(s, gone)
  BY DEF Fifo!Without, Without

(* The places of a kind, counted. *)
LEMMA PlacesCount ==
  ASSUME NEW s \in Seq(Item), NEW kind
  PROVE  /\ IsFiniteSet(Places(s, kind))
         /\ Cardinality(Places(s, kind)) = Total(Kind(kind), s)
<1> DEFINE P(i) == {j \in 1..i : s[j].kind = kind}
           g == [i \in 0..Len(s) |-> Cardinality(P(i))]
<1>1. Len(s) \in Nat /\ \A i \in 1..Len(s) : s[i] \in Item
  OBVIOUS
<1>2. ASSUME NEW i \in 0..Len(s) PROVE IsFiniteSet(P(i)) /\ Cardinality(P(i)) \in Nat
  <2>1. IsFiniteSet(1..i)
    BY <1>1, FS_Interval
  <2>2. P(i) \in SUBSET (1..i)
    OBVIOUS
  <2> HIDE DEF P
  <2>3. IsFiniteSet(P(i))
    BY <2>1, <2>2, FS_Subset
  <2> QED
    BY <2>3, FS_CardinalityType
<1>3. ASSUME NEW i \in 1..Len(s) PROVE g[i] = g[i - 1] + Kind(kind)[s[i]]
  <2>1. i - 1 \in 0..Len(s) /\ i \in 0..Len(s) /\ s[i] \in Item
    BY <1>1
  <2>2. g[i] = Cardinality(P(i)) /\ g[i - 1] = Cardinality(P(i - 1))
    BY <2>1
  <2>3. Kind(kind)[s[i]] = IF s[i].kind = kind THEN 1 ELSE 0
    BY <2>1 DEF Kind
  <2>4. i \notin P(i - 1)
    BY <1>1
  <2>5. CASE s[i].kind = kind
    <3>1. P(i) = P(i - 1) \cup {i}
      BY <1>1, <2>5
    <3> HIDE DEF P, g
    <3>2. Cardinality(P(i - 1) \cup {i}) = Cardinality(P(i - 1)) + 1
      BY <1>2, <2>1, <2>4, FS_AddElement
    <3> QED
      BY <2>2, <2>3, <2>5, <3>1, <3>2
  <2>6. CASE s[i].kind # kind
    <3>1. P(i) = P(i - 1)
      BY <1>1, <2>6
    <3>2. Cardinality(P(i - 1)) \in Nat
      BY <1>2, <2>1
    <3> HIDE DEF P, g
    <3> QED
      BY <2>2, <2>3, <2>6, <3>1, <3>2
  <2> QED
    BY <2>5, <2>6
<1>4. g[0] = 0
  <2>1. P(0) = {}
    OBVIOUS
  <2>2. g[0] = Cardinality(P(0))
    BY <1>1
  <2> HIDE DEF g, P
  <2> QED
    BY <2>1, <2>2, FS_EmptySet
<1>5. g[Len(s)] = Cardinality(P(Len(s))) /\ Len(s) \in 0..Len(s)
  BY <1>1
<1>6. Places(s, kind) = P(Len(s))
  BY <1>1 DEF Places
<1> HIDE DEF g, P
<1>7. Total(Kind(kind), s) = g[Len(s)]
  <2>1. Sums(g, Kind(kind), s)
    BY <1>3, <1>4 DEF Sums
  <2> QED
    BY <1>1, <2>1, TotalIs
<1> QED
  BY <1>2, <1>5, <1>6, <1>7

LEMMA OutputsCount ==
  ASSUME NEW s \in Seq(Item)
  PROVE  /\ Cardinality(Outputs(s)) = Total(Kind("output"), s)
         /\ Cardinality(Markers(s)) = Total(Kind("dropped"), s)
         /\ Total(Kind("output"), s) <= Len(s)
         /\ Total(Kind("output"), s) > 0 => Outputs(s) # {}
<1>1. /\ IsFiniteSet(Outputs(s))
      /\ Cardinality(Outputs(s)) = Total(Kind("output"), s)
      /\ Cardinality(Markers(s)) = Total(Kind("dropped"), s)
  BY PlacesCount DEF Outputs, Markers
<1>2. Len(s) \in Nat /\ Outputs(s) \in SUBSET (1..Len(s))
  BY DEF Outputs, Places
<1>3. IsFiniteSet(1..Len(s)) /\ Cardinality(1..Len(s)) = Len(s)
  <2>1. /\ IsFiniteSet(1..Len(s))
        /\ Cardinality(1..Len(s)) = IF 1 > Len(s) THEN 0 ELSE Len(s) - 1 + 1
    <3>1. 1 \in Int /\ Len(s) \in Int
      BY <1>2
    <3> QED
      BY <3>1, FS_Interval
  <2> QED
    BY <1>2, <2>1
<1>4. Cardinality(Outputs(s)) <= Len(s)
  BY <1>2, <1>3, FS_Subset
<1>5. Outputs(s) = {} => Cardinality(Outputs(s)) = 0
  BY FS_EmptySet
<1> QED
  BY <1>1, <1>4, <1>5

(* All members weigh nothing: so does the sequence. *)
LEMMA TotalZero ==
  ASSUME NEW T, NEW s \in Seq(T), NEW w \in [T -> Nat], \A i \in 1..Len(s) : w[s[i]] = 0
  PROVE  Total(w, s) = 0
<1> DEFINE g == [i \in 0..Len(s) |-> 0]
<1>1. Len(s) \in Nat
  OBVIOUS
<1>2. \A i \in 0..Len(s) : g[i] = 0
  OBVIOUS
<1> HIDE DEF g
<1>3. ASSUME NEW i \in 1..Len(s) PROVE g[i] = g[i - 1] + w[s[i]]
  <2>1. i \in 0..Len(s) /\ i - 1 \in 0..Len(s)
    BY <1>1
  <2>2. g[i] = 0 /\ g[i - 1] = 0
    BY <1>2, <2>1
  <2> QED
    BY <2>2
<1>4. g[0] = 0 /\ g[Len(s)] = 0
  BY <1>1, <1>2
<1>5. Sums(g, w, s)
  BY <1>3, <1>4 DEF Sums
<1> QED
  BY <1>1, <1>4, <1>5, TotalIs

(* The markers' counts: all of them d, or one of them strays. *)
LEMMA StrayMarkers ==
  ASSUME NEW s \in Seq(Item), NEW d
  PROVE  (\A i \in Markers(s) : s[i].n = d) <=> Total(Stray(d), s) = 0
<1>1. \A i \in 1..Len(s) : s[i] \in Item
  OBVIOUS
<1>2. Markers(s) = {i \in 1..Len(s) : s[i].kind = "dropped"}
  BY DEF Markers, Places
<1>3. ASSUME \A i \in Markers(s) : s[i].n = d PROVE Total(Stray(d), s) = 0
  <2>1. \A i \in 1..Len(s) : Stray(d)[s[i]] = 0
    BY <1>1, <1>2, <1>3 DEF Stray
  <2> QED
    BY <2>1, Weights, TotalZero
<1>4. ASSUME Total(Stray(d), s) = 0, NEW i \in Markers(s) PROVE s[i].n = d
  <2>1. i \in 1..Len(s) /\ s[i].kind = "dropped" /\ s[i] \in Item
    BY <1>1, <1>2
  <2>2. Stray(d)[s[i]] <= 0 /\ Stray(d)[s[i]] \in Nat
    BY <1>4, <2>1, Weights, TotalAtLeast
  <2>3. Stray(d)[s[i]] = 0
    BY <2>2
  <2> QED
    BY <2>1, <2>3 DEF Stray
<1> QED
  BY <1>3, <1>4

LEMMA NoMarkers ==
  ASSUME NEW s \in Seq(Item), Total(Kind("dropped"), s) = 0, NEW d
  PROVE  Total(Stray(d), s) = 0
<1>1. Cardinality(Markers(s)) = 0 /\ IsFiniteSet(Markers(s))
  BY PlacesCount DEF Markers
<1>2. Markers(s) = {}
  BY <1>1, FS_EmptySet
<1> QED
  BY <1>2, StrayMarkers

-----------------------------------------------------------------------------
(* No event is twice in s. *)
Once(s) == \A x \in Event : Total(Same(x), s) <= 1

(* t is s without k outputs, which leaves alone whatever does not count     *)
(* outputs, and is a loss that the consumer's stream allows.                *)
Evicts(s, t, k) ==
  /\ t \in Seq(Item) /\ Len(t) + k = Len(s)
  /\ Total(Kind("output"), t) + k = Total(Kind("output"), s)
  /\ \A w \in [Item -> Nat] :
       /\ Total(w, t) <= Total(w, s)
       /\ (\A e \in Output : w[e] = 0) => Total(w, t) = Total(w, s)
  /\ Once(s) =>
       \E gone \in SUBSET Output :
         /\ \A e \in gone : \E i \in DOMAIN s : s[i] = e
         /\ Without(t, Notice) = Without(s, Notice \cup gone)

(* One turn of the loop. *)
LEMMA EvictTurn ==
  ASSUME NEW s \in Seq(Item), Outputs(s) # {}
  PROVE  \E i \in 1..Len(s) :
           s[i] \in Output /\ EvictOldest(s) = Before(s, i) \o After(s, i)
<1>1. Outputs(s) \in SUBSET Nat /\ Outputs(s) \subseteq 1..Len(s)
  BY DEF Outputs, Places
<1>2. \E m \in Outputs(s) : \A k \in Outputs(s) : m <= k
  BY <1>1, Least
<1> DEFINE i == Min(Outputs(s))
<1>3. i \in Outputs(s)
  BY <1>2 DEF Min
<1>4. EvictOldest(s) = Before(s, i) \o After(s, i)
  BY DEF EvictOldest, RemoveAt, Before, After
<1> HIDE DEF i
<1>5. i \in 1..Len(s) /\ s[i].kind = "output" /\ s[i] \in Item
  BY <1>1, <1>3 DEF Outputs, Places
<1> QED
  BY <1>4, <1>5, Kinds

LEMMA ItemsConcat ==
  \A s, t \in Seq(Item) : \A gone :
    Without(s \o t, gone) = Without(s, gone) \o Without(t, gone)
<1>1. ASSUME NEW s \in Seq(Item), NEW t \in Seq(Item), NEW gone
      PROVE  Without(s \o t, gone) = Without(s, gone) \o Without(t, gone)
  BY WithoutConcat
<1> QED
  BY <1>1

(* A turn more. *)
LEMMA EvictMore ==
  ASSUME NEW s \in Seq(Item), NEW t, NEW k \in Nat, Evicts(s, t, k),
         Outputs(t) # {}
  PROVE  Evicts(s, EvictOldest(t), k + 1)
<1>1. t \in Seq(Item)
  BY DEF Evicts
<1>2. PICK i \in 1..Len(t) :
        t[i] \in Output /\ EvictOldest(t) = Before(t, i) \o After(t, i)
  BY <1>1, EvictTurn
<1> DEFINE x == t[i]
           p == Before(t, i)
           q == After(t, i)
           u == p \o q
<1>3. /\ p \in Seq(Item) /\ Len(p) = i - 1
      /\ q \in Seq(Item) /\ Len(q) = Len(t) - i
  BY <1>1, Around
<1>4. /\ u \in Seq(Item) /\ Len(u) = Len(p) + Len(q)
      /\ EvictOldest(t) = u
  BY <1>2, <1>3, ConcatProperties
<1>5. x \in Output /\ x \in Item /\ x \in Event /\ x.kind = "output"
  BY <1>2 DEF Item, Output
<1>6. \A w \in [Item -> Nat] : Total(w, t) = Total(w, u) + w[x]
  BY <1>1, TotalAround
<1>7. \A w \in [Item -> Nat] : Total(w, u) \in Nat /\ Total(w, t) \in Nat /\ w[x] \in Nat
  <2>1. ASSUME NEW w \in [Item -> Nat] PROVE Total(w, u) \in Nat /\ Total(w, t) \in Nat
    <3> HIDE DEF u
    <3> QED
      BY <1>1, <1>4, TotalType
  <2> QED
    BY <1>5, <2>1
<1>8. Len(s) \in Nat /\ Len(t) \in Nat /\ i \in Nat /\ i >= 1 /\ i <= Len(t)
  BY <1>1
<1> HIDE DEF u, p, q, x
<1>9. Len(u) + (k + 1) = Len(s)
  <2>1. Len(t) + k = Len(s)
    BY DEF Evicts
  <2>2. Len(p) = i - 1 /\ Len(q) = Len(t) - i /\ Len(u) = Len(p) + Len(q)
    BY <1>3, <1>4
  <2> QED
    BY <1>8, <2>1, <2>2
<1>10. Total(Kind("output"), u) + (k + 1) = Total(Kind("output"), s)
  <2>1. Total(Kind("output"), t) = Total(Kind("output"), u) + Kind("output")[x]
    BY <1>6, Weights
  <2>2. Kind("output")[x] = 1
    BY <1>5 DEF Kind
  <2>3. Total(Kind("output"), u) \in Nat /\ Total(Kind("output"), t) \in Nat
    BY <1>7, Weights
  <2>4. Total(Kind("output"), t) + k = Total(Kind("output"), s)
    BY DEF Evicts
  <2> QED
    BY <2>1, <2>2, <2>3, <2>4
<1>11. ASSUME NEW w \in [Item -> Nat]
       PROVE  /\ Total(w, u) <= Total(w, s)
              /\ (\A e \in Output : w[e] = 0) => Total(w, u) = Total(w, s)
  <2>1. /\ Total(w, t) <= Total(w, s)
        /\ (\A e \in Output : w[e] = 0) => Total(w, t) = Total(w, s)
    BY DEF Evicts
  <2>2. Total(w, t) = Total(w, u) + w[x]
    BY <1>6
  <2>3. Total(w, u) \in Nat /\ Total(w, t) \in Nat /\ w[x] \in Nat /\ Total(w, s) \in Nat
    BY <1>7, TotalType
  <2>4. (\A e \in Output : w[e] = 0) => w[x] = 0
    BY <1>5
  <2> QED
    BY <2>1, <2>2, <2>3, <2>4
<1>12. ASSUME Once(s)
       PROVE  \E gone \in SUBSET Output :
                /\ \A e \in gone : \E j \in DOMAIN s : s[j] = e
                /\ Without(u, Notice) = Without(s, Notice \cup gone)
  <2>1. PICK gone \in SUBSET Output :
          /\ \A e \in gone : \E j \in DOMAIN s : s[j] = e
          /\ Without(t, Notice) = Without(s, Notice \cup gone)
    BY <1>12 DEF Evicts
  <2>2. Total(Same(x), t) <= 1 /\ Total(Same(x), t) \in Nat
    <3>1. Total(Same(x), s) <= 1 /\ Total(Same(x), s) \in Nat
      BY <1>5, <1>12, Weights, TotalType DEF Once
    <3>2. Total(Same(x), t) <= Total(Same(x), s)
      BY Weights DEF Evicts
    <3>3. Total(Same(x), t) \in Nat
      BY <1>1, Weights, TotalType
    <3> QED
      BY <3>1, <3>2, <3>3
  <2>3. Total(Same(x), u) = 0
    <3>1. Total(Same(x), t) = Total(Same(x), u) + Same(x)[x]
      BY <1>6, Weights
    <3>2. Same(x)[x] = 1
      BY <1>5 DEF Same
    <3>3. Total(Same(x), u) \in Nat
      BY <1>7, Weights
    <3> QED
      BY <2>2, <3>1, <3>2, <3>3
  <2>4. \A r \in Seq(Item) : Total(Same(x), r) = 0 => Without(r, {x}) = r
    <3>1. ASSUME NEW r \in Seq(Item), Total(Same(x), r) = 0 PROVE Without(r, {x}) = r
      <4>1. ASSUME NEW j \in 1..Len(r) PROVE r[j] \notin {x}
        <5>1. r[j] \in Item
          OBVIOUS
        <5>2. Same(x)[r[j]] <= 0
          BY <3>1, Weights, TotalAtLeast
        <5> QED
          BY <5>1, <5>2 DEF Same
      <4> QED
        BY <4>1, WithoutNone
    <3> QED
      BY <3>1
  <2>5. Without(u, {x}) = u
    BY <1>4, <2>3, <2>4
  <2>6. Without(t, {x}) = u
    <3>1. Put(t, i, x) = t /\ x \in Item
      BY <1>1, <1>5 DEF Put, x
    <3>2. Without(t, {x}) = (Without(p, {x}) \o Without(<<x>>, {x})) \o Without(q, {x})
      <4>1. t \in Seq(Item)
        BY <1>1
      <4>2. Without(Put(t, i, x), {x})
              = (Without(Before(t, i), {x}) \o Without(<<x>>, {x})) \o Without(After(t, i), {x})
        BY <3>1, <4>1, WithoutAround
      <4> QED
        BY <3>1, <4>2 DEF p, q
    <3>3. Without(<<x>>, {x}) = <<>>
      BY WithoutOne
    <3>4. Without(p, {x}) \in Seq(Item)
      BY <1>3, WithoutType
    <3>5. Without(p, {x}) \o <<>> = Without(p, {x})
      BY <3>4, ConcatEmptySeq
    <3>6. Without(u, {x}) = Without(p, {x}) \o Without(q, {x})
      <4>1. p \in Seq(Item) /\ q \in Seq(Item)
        BY <1>3
      <4>2. Without(p \o q, {x}) = Without(p, {x}) \o Without(q, {x})
        BY <4>1, ItemsConcat
      <4> QED
        BY <4>2 DEF u
    <3> QED
      BY <2>5, <3>2, <3>3, <3>5, <3>6
  <2>7. Without(u, Notice) = Without(t, {x} \cup Notice)
    BY <1>1, <2>6, WithoutTwice
  <2>8. Without(t, Notice \cup {x}) = Without(Without(t, Notice), {x})
    BY <1>1, WithoutTwice
  <2>9. Without(Without(s, Notice \cup gone), {x}) = Without(s, (Notice \cup gone) \cup {x})
    BY WithoutTwice
  <2>10. {x} \cup Notice = Notice \cup {x}
    OBVIOUS
  <2>11. (Notice \cup gone) \cup {x} = Notice \cup (gone \cup {x})
    OBVIOUS
  <2>12. Without(u, Notice) = Without(s, Notice \cup (gone \cup {x}))
    BY <2>1, <2>7, <2>8, <2>9, <2>10, <2>11
  <2>13. gone \cup {x} \in SUBSET Output
    BY <1>5
  <2>14. \E j \in DOMAIN s : s[j] = x
    <3>1. Total(Same(x), t) <= Total(Same(x), s)
      BY Weights DEF Evicts
    <3>2. Same(x)[t[i]] <= Total(Same(x), t)
      BY <1>1, Weights, TotalAtLeast
    <3>3. Same(x)[t[i]] = 1
      BY <1>5 DEF Same, x
    <3>4. Total(Same(x), s) \in Nat /\ Total(Same(x), t) \in Nat
      BY <1>1, Weights, TotalType
    <3>5. Total(Same(x), s) # 0
      BY <3>1, <3>2, <3>3, <3>4
    <3>6. ~ \A j \in 1..Len(s) : Same(x)[s[j]] = 0
      BY <3>5, Weights, TotalZero
    <3>7. PICK j \in 1..Len(s) : Same(x)[s[j]] # 0
      BY <3>6
    <3>8. s[j] \in Item /\ j \in DOMAIN s
      OBVIOUS
    <3>9. s[j] = x
      BY <3>7, <3>8 DEF Same
    <3> QED
      BY <3>8, <3>9
  <2>15. \A e \in gone \cup {x} : \E j \in DOMAIN s : s[j] = e
    BY <2>1, <2>14
  <2> QED
    BY <2>12, <2>13, <2>15
<1>13. Evicts(s, u, k + 1)
  BY <1>4, <1>9, <1>10, <1>11, <1>12 DEF Evicts
<1> QED
  BY <1>4, <1>13

IsLeft(f, s, k) == f = [i \in 0..k |-> IF i = 0 THEN s ELSE EvictOldest(f[i - 1])]

(* The loop's recursive definition has a solution. *)
LEMMA LeftExists ==
  ASSUME NEW s
  PROVE  \A k \in Nat : \E f : IsLeft(f, s, k)
<1> DEFINE S == {k \in Nat : \E f : IsLeft(f, s, k)}
<1>1. 0 \in S
  <2>1. IsLeft([i \in {0} |-> s], s, 0)
    BY DEF IsLeft
  <2> QED
    BY <2>1
<1>2. ASSUME NEW k \in S PROVE k + 1 \in S
  <2>1. PICK f : IsLeft(f, s, k)
    OBVIOUS
  <2> DEFINE g == [i \in 0..(k + 1) |-> IF i = 0 THEN s ELSE EvictOldest(f[i - 1])]
  <2>2. ASSUME NEW i \in 0..k PROVE g[i] = f[i]
    <3>1. f[i] = IF i = 0 THEN s ELSE EvictOldest(f[i - 1])
      BY <2>1 DEF IsLeft
    <3> QED
      BY <3>1
  <2>3. ASSUME NEW i \in 0..(k + 1)
        PROVE  g[i] = IF i = 0 THEN s ELSE EvictOldest(g[i - 1])
    <3>1. CASE i = 0
      BY <3>1
    <3>2. CASE i # 0
      <4>1. i - 1 \in 0..k
        BY <3>2
      <4>2. g[i - 1] = f[i - 1]
        BY <4>1, <2>2
      <4> QED
        BY <3>2, <4>2
    <3> QED
      BY <3>1, <3>2
  <2> HIDE DEF g
  <2>4. g = [i \in 0..(k + 1) |-> g[i]]
    BY DEF g
  <2>5. IsLeft(g, s, k + 1)
    BY <2>3, <2>4 DEF IsLeft
  <2> QED
    BY <2>5
<1> HIDE DEF S
<1>3. \A k \in Nat : k \in S
  <2>1. S \in SUBSET Nat
    BY DEF S
  <2> QED
    BY <1>1, <1>2, <2>1, Upward
<1> QED
  BY <1>3 DEF S

(* As many turns as there are outputs, or fewer, evict as many outputs. *)
LEMMA EvictAll ==
  ASSUME NEW s \in Seq(Item), NEW k \in Nat, k <= Total(Kind("output"), s)
  PROVE  Evicts(s, Evict(s, k), k)
<1> DEFINE f == CHOOSE h : h = [i \in 0..k |-> IF i = 0 THEN s ELSE EvictOldest(h[i - 1])]
<1>1. IsLeft(f, s, k)
  <2>1. \E h : IsLeft(h, s, k)
    BY LeftExists
  <2> QED
    BY <2>1 DEF IsLeft
<1>2. Evict(s, k) = f[k]
  BY DEF Evict
<1> HIDE DEF f
<1> DEFINE S == {i \in Nat : i <= k => Evicts(s, f[i], i)}
<1>3. 0 \in S
  <2>1. f[0] = s
    BY <1>1 DEF IsLeft
  <2>2. /\ Len(s) \in Nat /\ Total(Kind("output"), s) \in Nat
        /\ \A w \in [Item -> Nat] : Total(w, s) \in Nat
    BY Weights, TotalType
  <2>3. {} \in SUBSET Output /\ Notice = Notice \cup {}
    OBVIOUS
  <2>4. Evicts(s, s, 0)
    <3>1. Len(s) + 0 = Len(s) /\ Total(Kind("output"), s) + 0 = Total(Kind("output"), s)
      BY <2>2
    <3>2. \A w \in [Item -> Nat] : Total(w, s) <= Total(w, s)
      BY <2>2
    <3>3. \E gone \in SUBSET Output :
            /\ \A e \in gone : \E i \in DOMAIN s : s[i] = e
            /\ Without(s, Notice) = Without(s, Notice \cup gone)
      BY <2>3
    <3> QED
      BY <3>1, <3>2, <3>3 DEF Evicts
  <2> QED
    BY <2>1, <2>4
<1>4. ASSUME NEW i \in S PROVE i + 1 \in S
  <2>1. SUFFICES ASSUME i + 1 <= k PROVE Evicts(s, f[i + 1], i + 1)
    OBVIOUS
  <2>2. i \in Nat /\ i <= k /\ i + 1 \in 0..k /\ i + 1 # 0 /\ (i + 1) - 1 = i
    BY <2>1
  <2>3. f[i + 1] = EvictOldest(f[i])
    BY <1>1, <2>2 DEF IsLeft
  <2>4. Evicts(s, f[i], i)
    BY <2>2
  <2>5. Outputs(f[i]) # {}
    <3>1. f[i] \in Seq(Item) /\ Total(Kind("output"), f[i]) + i = Total(Kind("output"), s)
      BY <2>4 DEF Evicts
    <3>2. Total(Kind("output"), f[i]) \in Nat /\ Total(Kind("output"), s) \in Nat
      BY <3>1, Weights, TotalType
    <3>3. Total(Kind("output"), f[i]) > 0
      BY <2>1, <2>2, <3>1, <3>2
    <3> QED
      BY <3>1, <3>3, OutputsCount
  <2> QED
    BY <2>2, <2>3, <2>4, <2>5, EvictMore
<1> HIDE DEF S
<1>5. k \in S
  <2>1. S \in SUBSET Nat
    BY DEF S
  <2> QED
    BY <1>3, <1>4, <2>1, Upward
<1> QED
  BY <1>2, <1>5 DEF S

-----------------------------------------------------------------------------
(* The weight of what is on its way to the consumer. *)
Carried(w) == Total(w, chan) + Total(w, inflight) + Total(w, items)

(* The marker's state and the markers in the queue. *)
MarkInv ==
  /\ hasMarker <=> dropped > 0
  /\ Total(Kind("dropped"), items) = IF hasMarker THEN 1 ELSE 0
  /\ Total(Stray(dropped), items) = 0

(* The accounts, and a queue that child output does not fill. *)
LedgerInv ==
  /\ accepted = seen + Carried(Kind("output")) + told + Carried(Worth)
  /\ Total(Kind("output"), items) <= Cap

(* An event is on its way once, and only if it has been emitted. *)
OnceInv ==
  \A x \in Event :
    /\ Carried(Same(x)) <= 1
    /\ x.seq > emitted[x.by] => Carried(Same(x)) = 0

(* The pump closes the channel when there is and will be nothing to send. *)
EndInv ==
  /\ chanClosed <=> pump = "done"
  /\ pump = "done" => closed /\ items = <<>>

QInv == QueueTypeOK /\ MarkInv /\ LedgerInv /\ OnceInv /\ EndInv

LEMMA CarriedType ==
  ASSUME QueueTypeOK
  PROVE  \A w \in [Item -> Nat] :
           /\ Total(w, chan) \in Nat /\ Total(w, inflight) \in Nat /\ Total(w, items) \in Nat
           /\ Carried(w) \in Nat
<1>1. chan \in Seq(Item) /\ inflight \in Seq(Item) /\ items \in Seq(Item)
  BY DEF QueueTypeOK
<1>2. ASSUME NEW w \in [Item -> Nat]
      PROVE  Total(w, chan) \in Nat /\ Total(w, inflight) \in Nat /\ Total(w, items) \in Nat
  BY <1>1, TotalType
<1> QED
  BY <1>2 DEF Carried

LEMMA FlowWeighs ==
  ASSUME QueueTypeOK
  PROVE  /\ Flow \in Seq(Item)
         /\ \A w \in [Item -> Nat] : Total(w, Flow) = Carried(w)
<1>1. chan \in Seq(Item) /\ inflight \in Seq(Item) /\ items \in Seq(Item)
  BY DEF QueueTypeOK
<1> DEFINE a == chan \o inflight
<1>2. a \in Seq(Item) /\ Flow = a \o items
  BY <1>1, ConcatProperties DEF Flow
<1>3. \A w \in [Item -> Nat] : Total(w, a) = Total(w, chan) + Total(w, inflight)
  BY <1>1, TotalConcat
<1> HIDE DEF a
<1>4. \A w \in [Item -> Nat] : Total(w, a \o items) = Total(w, a) + Total(w, items)
  BY <1>1, <1>2, TotalConcat
<1>5. Flow \in Seq(Item)
  BY <1>1, <1>2, ConcatProperties
<1> QED
  BY <1>2, <1>3, <1>4, <1>5 DEF Carried

(* What the totals say is what the queue's invariant says. *)
LEMMA QInvIsQueueInv ==
  ASSUME QInv
  PROVE  QueueInv
<1>0. QueueTypeOK /\ MarkInv /\ LedgerInv
  BY DEF QInv
<1>1. items \in Seq(Item) /\ hasMarker \in BOOLEAN
  BY <1>0 DEF QueueTypeOK
<1>2. Cardinality(Outputs(Flow)) = Carried(Kind("output"))
  BY <1>0, FlowWeighs, OutputsCount, Weights
<1>3. Announced(Flow) = Carried(Worth)
  BY <1>0, FlowWeighs, AnnouncedIs, Weights
<1>4. MarkerTruth
  <2>1. Cardinality(Markers(items)) = Total(Kind("dropped"), items)
    BY <1>1, OutputsCount
  <2>2. \A i \in Markers(items) : items[i].n = dropped
    BY <1>0, <1>1, StrayMarkers DEF MarkInv
  <2>3. (hasMarker <=> dropped > 0) /\ Total(Kind("dropped"), items) = IF hasMarker THEN 1 ELSE 0
    BY <1>0 DEF MarkInv
  <2> QED
    BY <2>1, <2>2, <2>3 DEF MarkerTruth
<1>5. Accounting
  BY <1>0, <1>2, <1>3, <1>4 DEF Accounting, LedgerInv
<1>6. OutputBounded
  <2>1. Cardinality(Outputs(items)) = Total(Kind("output"), items)
    BY <1>1, OutputsCount
  <2> QED
    BY <1>0, <2>1 DEF OutputBounded, LedgerInv
<1> QED
  BY <1>0, <1>5, <1>6 DEF QueueInv

(* The only marker of a queue is its newest: it is the one that is updated. *)
LEMMA OneMarker ==
  ASSUME NEW s \in Seq(Item), Total(Kind("dropped"), s) = 1, NEW m
  PROVE  \E i \in 1..Len(s) :
           /\ s[i].kind = "dropped"
           /\ [j \in DOMAIN s |-> IF IsNewestMarker(s, j) THEN m ELSE s[j]] = Put(s, i, m)
<1>1. /\ IsFiniteSet(Markers(s)) /\ Cardinality(Markers(s)) = 1
  BY PlacesCount DEF Markers
<1>2. PICK i : Markers(s) = {i}
  BY <1>1, FS_Singleton
<1>3. DOMAIN s = 1..Len(s) /\ Len(s) \in Nat
  OBVIOUS
<1>4. \A j \in DOMAIN s : s[j].kind = "dropped" <=> j = i
  BY <1>2 DEF Markers, Places
<1>5. i \in 1..Len(s) /\ i \in Nat
  BY <1>2, <1>3 DEF Markers, Places
<1>6. \A j \in DOMAIN s : IsNewestMarker(s, j) <=> j = i
  BY <1>3, <1>4, <1>5 DEF IsNewestMarker, IsMarker
<1>7. [j \in DOMAIN s |-> IF IsNewestMarker(s, j) THEN m ELSE s[j]] = Put(s, i, m)
  BY <1>3, <1>5, <1>6 DEF Put
<1> QED
  BY <1>3, <1>4, <1>5, <1>7

(* How many outputs an overflow evicts. *)
LEMMA EvictCountIs ==
  ASSUME NEW s \in Seq(Item), Len(s) >= Cap
  PROVE  /\ EvictCount(s) \in Nat
         /\ EvictCount(s) <= Total(Kind("output"), s)
         /\ \/ Len(s) - EvictCount(s) = Cap - 1
            \/ EvictCount(s) = Total(Kind("output"), s)
<1>1. Cardinality(Outputs(s)) = Total(Kind("output"), s) /\ Total(Kind("output"), s) \in Nat
  BY OutputsCount, Weights, TotalType
<1>2. Len(s) \in Nat /\ Cap \in Nat /\ Cap >= 1
  BY SizesAssumption
<1> QED
  <2> DEFINE have == Total(Kind("output"), s)
             need == Len(s) - Cap + 1
  <2>1. EvictCount(s) = IF need <= 0 THEN 0 ELSE IF need <= have THEN need ELSE have
    BY <1>1 DEF EvictCount
  <2>2. need \in Nat /\ need >= 1 /\ Len(s) - need = Cap - 1 /\ have \in Nat
    BY <1>1, <1>2
  <2> HIDE DEF need, have
  <2>3. CASE need <= have
    BY <2>1, <2>2, <2>3 DEF have
  <2>4. CASE ~ (need <= have)
    BY <2>1, <2>2, <2>4 DEF have
  <2> QED
    BY <2>3, <2>4

(* The queue after an eviction, with its marker: nothing is lost that the   *)
(* marker does not count, and the marker is the only one.                   *)
LEMMA MarkedIs ==
  ASSUME QueueTypeOK, MarkInv, NEW k \in Nat, k <= Total(Kind("output"), items),
         NEW t, t = Marked(items, k)
  PROVE  /\ t \in Seq(Item)
         /\ Total(Kind("output"), t) + k = Total(Kind("output"), items)
         /\ Total(Worth, t) = Total(Worth, items) + k
         /\ Total(Kind("dropped"), t) = IF dropped + k > 0 THEN 1 ELSE 0
         /\ Total(Stray(dropped + k), t) = 0
         /\ \A x \in Event : Total(Same(x), t) <= Total(Same(x), items)
         /\ Once(items) =>
              \E gone \in SUBSET Output :
                /\ \A e \in gone : \E i \in DOMAIN items : items[i] = e
                /\ Without(t, Notice) = Without(items, Notice \cup gone)
<1> DEFINE rest == Evict(items, k)
           lost == dropped + k
           m == Marker(lost)
<1>1. items \in Seq(Item) /\ dropped \in Nat /\ hasMarker \in BOOLEAN
  BY DEF QueueTypeOK
<1>2. Evicts(items, rest, k)
  BY <1>1, EvictAll
<1> HIDE DEF rest
<1>3. /\ rest \in Seq(Item)
      /\ Total(Kind("output"), rest) + k = Total(Kind("output"), items)
  BY <1>2 DEF Evicts
<1>4. \A w \in [Item -> Nat] :
        /\ Total(w, rest) \in Nat /\ Total(w, items) \in Nat /\ Total(w, rest) <= Total(w, items)
        /\ (\A e \in Output : w[e] = 0) => Total(w, rest) = Total(w, items)
  <2>1. ASSUME NEW w \in [Item -> Nat] PROVE Total(w, rest) \in Nat /\ Total(w, items) \in Nat
    BY <1>1, <1>3, TotalType
  <2>2. \A w \in [Item -> Nat] :
          /\ Total(w, rest) <= Total(w, items)
          /\ (\A e \in Output : w[e] = 0) => Total(w, rest) = Total(w, items)
    BY <1>2 DEF Evicts
  <2> QED
    BY <2>1, <2>2
<1>5. \A e \in Output : e \in Item /\ e.kind = "output"
  BY DEF Output, Item
<1>6. /\ Total(Kind("dropped"), rest) = Total(Kind("dropped"), items)
      /\ Total(Worth, rest) = Total(Worth, items)
      /\ Total(Stray(dropped), rest) = Total(Stray(dropped), items)
  <2>1. \A e \in Output : Kind("dropped")[e] = 0 /\ Worth[e] = 0 /\ Stray(dropped)[e] = 0
    BY <1>5 DEF Kind, Worth, Stray, IsMarker
  <2> QED
    BY <1>4, <2>1, Weights
<1>7. \A x \in Event : Total(Same(x), rest) <= Total(Same(x), items)
  BY <1>4, Weights
<1>8. Once(items) =>
        \E gone \in SUBSET Output :
          /\ \A e \in gone : \E i \in DOMAIN items : items[i] = e
          /\ Without(rest, Notice) = Without(items, Notice \cup gone)
  BY <1>2 DEF Evicts
<1>9. \A w \in [Item -> Nat] : Total(w, rest) \in Nat
  BY <1>4
<1>10. CASE lost = 0
  <2>1. t = rest /\ dropped = 0 /\ k = 0 /\ ~ hasMarker
    BY <1>1, <1>10 DEF Marked, rest, MarkInv
  <2>2. dropped + k = 0 /\ Total(Worth, items) \in Nat
    BY <1>4, <2>1, Weights
  <2>3. Total(Kind("dropped"), t) = 0 /\ Total(Stray(dropped + k), t) = 0
    BY <1>6, <2>1, <2>2 DEF MarkInv
  <2>4. Total(Worth, t) = Total(Worth, items) + k
    BY <1>6, <2>1, <2>2
  <2>5. t \in Seq(Item) /\ Total(Kind("output"), t) + k = Total(Kind("output"), items)
    BY <1>3, <2>1
  <2>6. (IF dropped + k > 0 THEN 1 ELSE 0) = 0
    BY <2>2
  <2>7. \A x \in Event : Total(Same(x), t) <= Total(Same(x), items)
    BY <1>7, <2>1
  <2> HIDE DEF lost
  <2> QED
    BY <1>8, <2>1, <2>3, <2>4, <2>5, <2>6, <2>7
<1>11. CASE lost # 0
  <2>1. lost \in Nat /\ lost > 0 /\ m \in Item /\ m \in Notice
    BY <1>1, <1>11 DEF Marker, Item, Notice
  <2>2. m.kind = "dropped" /\ m.n = lost
    BY DEF Marker
  <2>3. /\ Kind("output")[m] = 0 /\ Kind("dropped")[m] = 1 /\ Worth[m] = lost
        /\ Stray(lost)[m] = 0 /\ \A x \in Event : Same(x)[m] = 0
    <3>1. \A x \in Event : x # m
      BY <2>2 DEF Event
    <3> HIDE DEF m, lost
    <3> QED
      BY <2>1, <2>2, <3>1 DEF Kind, Worth, Stray, Same, IsMarker
  <2> HIDE DEF m
  <2>4. CASE ~ hasMarker
    <3>1. t = Append(rest, m) /\ dropped = 0 /\ lost = k
      BY <1>1, <1>11, <2>4 DEF Marked, rest, m, MarkInv
    <3> HIDE DEF lost
    <3>2. t \in Seq(Item)
      BY <1>3, <2>1, <3>1
    <3>3. \A w \in [Item -> Nat] : Total(w, t) = Total(w, rest) + w[m]
      BY <1>3, <2>1, <3>1, TotalAppend
    <3>4. Total(Kind("output"), t) + k = Total(Kind("output"), items)
      <4>1. Total(Kind("output"), t) = Total(Kind("output"), rest) + Kind("output")[m]
        BY <3>3, Weights
      <4>2. Total(Kind("output"), rest) \in Nat
        BY <1>9, Weights
      <4> QED
        BY <1>3, <2>3, <4>1, <4>2
    <3>5. Total(Worth, t) = Total(Worth, items) + k
      BY <1>6, <2>3, <3>1, <3>3, Weights
    <3>6. Total(Kind("dropped"), t) = 1
      BY <1>6, <2>3, <2>4, <3>3, Weights DEF MarkInv
    <3>7. Total(Stray(lost), t) = 0
      <4>1. Total(Kind("dropped"), rest) = 0
        BY <1>6, <2>4 DEF MarkInv
      <4>2. Total(Stray(lost), rest) = 0
        BY <1>3, <4>1, NoMarkers
      <4> QED
        BY <2>3, <3>3, <4>2, Weights
    <3>8. \A x \in Event : Total(Same(x), t) <= Total(Same(x), items)
      <4>1. ASSUME NEW x \in Event PROVE Total(Same(x), t) <= Total(Same(x), items)
        <5>1. Total(Same(x), t) = Total(Same(x), rest) + Same(x)[m]
          BY <3>3, Weights
        <5>2. Total(Same(x), rest) \in Nat
          BY <1>9, Weights
        <5> QED
          BY <1>7, <2>3, <5>1, <5>2
      <4> QED
        BY <4>1
    <3>9. Without(t, Notice) = Without(rest, Notice)
      <4> DEFINE y == <<m>>
      <4>1. y \in Seq(Item) /\ Append(rest, m) = rest \o y
        BY <1>3, <2>1, AppendIsConcat
      <4>2. Without(y, Notice) = <<>>
        BY <2>1, WithoutOne
      <4> HIDE DEF y
      <4>3. Without(rest \o y, Notice) = Without(rest, Notice) \o Without(y, Notice)
        BY <1>3, <4>1, ItemsConcat
      <4>4. Without(rest, Notice) \in Seq(Item)
        BY <1>3, WithoutType
      <4>5. Without(rest, Notice) \o <<>> = Without(rest, Notice)
        BY <4>4, ConcatEmptySeq
      <4> QED
        BY <3>1, <4>1, <4>2, <4>3, <4>5
    <3> QED
      BY <1>8, <2>1, <3>2, <3>4, <3>5, <3>6, <3>7, <3>8, <3>9 DEF lost
  <2>5. CASE hasMarker
    <3>1. t = [j \in DOMAIN rest |-> IF IsNewestMarker(rest, j) THEN m ELSE rest[j]]
      BY <1>11, <2>5 DEF Marked, rest, m
    <3>2. Total(Kind("dropped"), rest) = 1
      BY <1>6, <2>5 DEF MarkInv
    <3>3. PICK i \in 1..Len(rest) : rest[i].kind = "dropped" /\ t = Put(rest, i, m)
      BY <1>3, <3>1, <3>2, OneMarker
    <3>4. t \in Seq(Item)
      BY <1>3, <2>1, <3>3, ExceptSeq DEF Put
    <3> DEFINE o == rest[i]
               u == Before(rest, i) \o After(rest, i)
    <3>5. o \in Item /\ o \in Notice /\ o.kind = "dropped"
      BY <1>3, <3>3, Kinds
    <3>6. \A w \in [Item -> Nat] :
            /\ Total(w, rest) = Total(w, u) + w[o] /\ Total(w, t) = Total(w, u) + w[m]
      BY <1>3, <2>1, <3>3, TotalAround
    <3>7. \A w \in [Item -> Nat] : Total(w, u) \in Nat
      <4>1. u \in Seq(Item)
        BY <1>3, Around, ConcatProperties
      <4> HIDE DEF u
      <4> QED
        BY <4>1, TotalType
    <3>8. o.n = dropped
      <4>1. \A j \in Markers(rest) : rest[j].n = dropped
        BY <1>3, <1>6, StrayMarkers DEF MarkInv
      <4>2. i \in Markers(rest)
        BY <1>3, <3>3 DEF Markers, Places
      <4> QED
        BY <4>1, <4>2
    <3>9. /\ Kind("output")[o] = 0 /\ Kind("dropped")[o] = 1 /\ Worth[o] = dropped
          /\ \A x \in Event : Same(x)[o] = 0
      <4>1. \A x \in Event : x # o
        BY <3>5 DEF Event
      <4> HIDE DEF o
      <4> QED
        BY <3>5, <3>8, <4>1 DEF Kind, Worth, Same, IsMarker
    <3> HIDE DEF o, u
    <3>10. Total(Kind("output"), t) + k = Total(Kind("output"), items)
      <4>1. Total(Kind("output"), t) = Total(Kind("output"), rest)
        BY <2>3, <3>6, <3>9, Weights
      <4> QED
        BY <1>3, <4>1
    <3>11. Total(Worth, t) = Total(Worth, items) + k
      <4>1. Total(Worth, rest) = Total(Worth, u) + dropped /\ Total(Worth, t) = Total(Worth, u) + lost
        BY <2>3, <3>6, <3>9, Weights
      <4>2. Total(Worth, u) \in Nat
        BY <3>7, Weights
      <4> QED
        BY <1>1, <1>6, <4>1, <4>2
    <3>12. Total(Kind("dropped"), t) = 1
      <4>1. Total(Kind("dropped"), t) = Total(Kind("dropped"), rest)
        BY <2>3, <3>6, <3>9, Weights
      <4> QED
        BY <3>2, <4>1
    <3>13. Total(Stray(lost), t) = 0
      <4>1. Total(Kind("dropped"), u) = 0
        <5>1. Total(Kind("dropped"), rest) = Total(Kind("dropped"), u) + 1
          BY <3>6, <3>9, Weights
        <5>2. Total(Kind("dropped"), u) \in Nat
          BY <3>7, Weights
        <5> QED
          BY <3>2, <5>1, <5>2
      <4>2. u \in Seq(Item)
        BY <1>3, Around, ConcatProperties DEF u
      <4>3. Total(Stray(lost), u) = 0
        BY <4>1, <4>2, NoMarkers
      <4>4. Total(Stray(lost), t) = Total(Stray(lost), u) + Stray(lost)[m]
        BY <3>6, Weights
      <4> QED
        BY <2>3, <4>3, <4>4
    <3>14. \A x \in Event : Total(Same(x), t) <= Total(Same(x), items)
      <4>1. ASSUME NEW x \in Event PROVE Total(Same(x), t) <= Total(Same(x), items)
        <5>1. Total(Same(x), t) = Total(Same(x), rest)
          BY <2>3, <3>6, <3>9, Weights
        <5> QED
          BY <1>7, <5>1
      <4> QED
        BY <4>1
    <3>15. Without(t, Notice) = Without(rest, Notice)
      <4>1. rest = Put(rest, i, o)
        BY <1>3 DEF Put, o
      <4>2. Without(<<m>>, Notice) = <<>> /\ Without(<<o>>, Notice) = <<>>
        BY <2>1, <3>5, WithoutOne
      <4>3. Without(Put(rest, i, m), Notice) =
              (Without(Before(rest, i), Notice) \o Without(<<m>>, Notice))
                \o Without(After(rest, i), Notice)
        BY <1>3, <2>1, WithoutAround
      <4>4. Without(Put(rest, i, o), Notice) =
              (Without(Before(rest, i), Notice) \o Without(<<o>>, Notice))
                \o Without(After(rest, i), Notice)
        BY <1>3, <3>5, WithoutAround
      <4> QED
        BY <3>3, <4>1, <4>2, <4>3, <4>4
    <3> QED
      BY <1>8, <2>1, <3>4, <3>10, <3>11, <3>12, <3>13, <3>14, <3>15
  <2> QED
    BY <1>1, <2>4, <2>5
<1> QED
  BY <1>10, <1>11

-----------------------------------------------------------------------------
(* What a push does: an eviction of k outputs, which may be none, and the   *)
(* event at the end.                                                        *)
Pushes(e, t, k) ==
  /\ items' = Append(t, e) /\ dropped' = dropped + k
  /\ hasMarker' \in BOOLEAN /\ (hasMarker' <=> dropped + k > 0)
  /\ accepted' = accepted + IF e.kind = "output" THEN 1 ELSE 0
  /\ Total(Kind("output"), t) + k = Total(Kind("output"), items)
  /\ Total(Worth, t) = Total(Worth, items) + k
  /\ Total(Kind("dropped"), t) = IF dropped + k > 0 THEN 1 ELSE 0
  /\ Total(Stray(dropped + k), t) = 0
  /\ \A x \in Event : Total(Same(x), t) <= Total(Same(x), items)
  /\ e.kind = "output" => Total(Kind("output"), t) < Cap
  /\ Once(items) =>
       \E gone \in SUBSET Output :
         /\ \A x \in gone : \E i \in DOMAIN items : items[i] = x
         /\ Without(t, Notice) = Without(items, Notice \cup gone)

LEMMA PushIs ==
  ASSUME QInv, NEW e \in Event, ~ closed, Push(e)
  PROVE  \E t \in Seq(Item), k \in Nat : Pushes(e, t, k)
<1>1. QueueTypeOK /\ MarkInv /\ LedgerInv
  BY DEF QInv
<1>2. /\ items \in Seq(Item) /\ dropped \in Nat /\ hasMarker \in BOOLEAN
      /\ accepted \in Nat /\ Cap \in Nat /\ Cap >= 1 /\ Len(items) \in Nat
  BY <1>1, SizesAssumption DEF QueueTypeOK
<1>3. e \in Item /\ (IsOutput(e) <=> e.kind = "output")
  BY DEF Item, IsOutput
<1>4. accepted' = accepted + IF e.kind = "output" THEN 1 ELSE 0
  BY <1>3 DEF Push
<1>5. CASE Overflow(e)
  <2> DEFINE k == EvictCount(items)
             t == Marked(items, k)
  <2>1. Len(items) >= Cap
    BY <1>5 DEF Overflow
  <2>2. /\ k \in Nat /\ k <= Total(Kind("output"), items)
        /\ Len(items) - k = Cap - 1 \/ k = Total(Kind("output"), items)
    BY <1>2, <2>1, EvictCountIs
  <2>3. /\ items' = Append(t, e) /\ dropped' = dropped + k
        /\ hasMarker' = (hasMarker \/ dropped + k > 0)
    BY <1>5 DEF Push
  <2> HIDE DEF k
  <2>4. Evict(items, k) = Evict(items, k) /\ Evicts(items, Evict(items, k), k)
    BY <1>2, <2>2, EvictAll
  <2>5. /\ t \in Seq(Item)
        /\ Total(Kind("output"), t) + k = Total(Kind("output"), items)
        /\ Total(Worth, t) = Total(Worth, items) + k
        /\ Total(Kind("dropped"), t) = IF dropped + k > 0 THEN 1 ELSE 0
        /\ Total(Stray(dropped + k), t) = 0
        /\ \A x \in Event : Total(Same(x), t) <= Total(Same(x), items)
        /\ Once(items) =>
             \E gone \in SUBSET Output :
               /\ \A x \in gone : \E i \in DOMAIN items : items[i] = x
               /\ Without(t, Notice) = Without(items, Notice \cup gone)
    BY <1>1, <2>2, MarkedIs
  <2>6. hasMarker' \in BOOLEAN /\ (hasMarker' <=> dropped + k > 0)
    <3>1. (hasMarker \/ dropped + k > 0) <=> dropped + k > 0
      BY <1>1, <1>2, <2>2 DEF MarkInv
    <3>2. CASE dropped + k > 0
      <4>1. hasMarker' = TRUE
        BY <2>3, <3>2
      <4> QED
        BY <3>2, <4>1
    <3>3. CASE ~ (dropped + k > 0)
      <4>1. hasMarker = FALSE
        BY <1>2, <3>1, <3>3
      <4>2. hasMarker' = FALSE
        BY <2>3, <3>3, <4>1
      <4> QED
        BY <3>3, <4>2
    <3> QED
      BY <3>2, <3>3
  <2> HIDE DEF t
  <2>7. Total(Kind("output"), t) < Cap
    <3> DEFINE rest == Evict(items, k)
    <3>1. rest \in Seq(Item) /\ Len(rest) + k = Len(items)
      BY <2>4 DEF Evicts
    <3>2. Total(Kind("output"), rest) + k = Total(Kind("output"), items)
      BY <2>4 DEF Evicts
    <3> HIDE DEF rest
    <3>3. Total(Kind("output"), rest) <= Len(rest) /\ Len(rest) \in Nat
      BY <3>1, OutputsCount
    <3>4. /\ Total(Kind("output"), rest) \in Nat /\ Total(Kind("output"), t) \in Nat
          /\ Total(Kind("output"), items) \in Nat
      BY <1>2, <2>5, <3>1, Weights, TotalType
    <3>5. Total(Kind("output"), t) + k = Total(Kind("output"), items)
      BY <2>5
    <3> QED
      BY <1>2, <2>2, <3>1, <3>2, <3>3, <3>4, <3>5
  <2>8. Pushes(e, t, k)
    BY <1>4, <2>3, <2>5, <2>6, <2>7 DEF Pushes
  <2> QED
    BY <2>2, <2>5, <2>8
<1>6. CASE ~ Overflow(e)
  <2>1. /\ items' = Append(items, e) /\ dropped' = dropped + 0 /\ dropped' = dropped
        /\ hasMarker' = hasMarker
    BY <1>2, <1>6 DEF Push
  <2>2. /\ Total(Kind("output"), items) \in Nat /\ Total(Worth, items) \in Nat
        /\ \A x \in Event : Total(Same(x), items) \in Nat
    BY <1>2, Weights, TotalType
  <2>3. e.kind = "output" => Total(Kind("output"), items) < Cap
    <3>1. e.kind = "output" => Len(items) < Cap
      BY <1>2, <1>3, <1>6 DEF Overflow
    <3>2. Total(Kind("output"), items) <= Len(items)
      BY <1>2, OutputsCount
    <3> QED
      BY <1>2, <2>2, <3>1, <3>2
  <2>4. \E gone \in SUBSET Output :
          /\ \A x \in gone : \E i \in DOMAIN items : items[i] = x
          /\ Without(items, Notice) = Without(items, Notice \cup gone)
    <3>1. {} \in SUBSET Output /\ Notice = Notice \cup {}
      OBVIOUS
    <3> QED
      BY <3>1
  <2>5. dropped + 0 = dropped
    BY <1>2
  <2>6. (hasMarker <=> dropped > 0) /\ Total(Stray(dropped), items) = 0
        /\ Total(Kind("dropped"), items) = IF hasMarker THEN 1 ELSE 0
    BY <1>1 DEF MarkInv
  <2>7. /\ Total(Kind("output"), items) + 0 = Total(Kind("output"), items)
        /\ Total(Worth, items) = Total(Worth, items) + 0
        /\ \A x \in Event : Total(Same(x), items) <= Total(Same(x), items)
    BY <2>2
  <2>8. Pushes(e, items, 0)
    BY <1>2, <1>4, <2>1, <2>3, <2>4, <2>5, <2>6, <2>7 DEF Pushes
  <2> QED
    BY <1>2, <2>8
<1> QED
  BY <1>5, <1>6

(* An event is in the queue no oftener than it is on its way. *)
LEMMA OnceInQueue ==
  ASSUME QInv
  PROVE  Once(items)
<1>1. QueueTypeOK /\ OnceInv
  BY DEF QInv
<1>2. ASSUME NEW x \in Event PROVE Total(Same(x), items) <= 1
  <2>1. /\ Total(Same(x), chan) \in Nat /\ Total(Same(x), inflight) \in Nat
        /\ Total(Same(x), items) \in Nat
    BY <1>1, CarriedType, Weights
  <2>2. Carried(Same(x)) <= 1
    BY <1>1 DEF OnceInv
  <2> QED
    BY <2>1, <2>2 DEF Carried
<1> QED
  BY <1>2 DEF Once

LEMMA QInit ==
  ASSUME QueueInit
  PROVE  QInv
<1> USE DEF QueueInit
<1>1. QueueTypeOK
  <2>1. emitted \in [Producer -> 0..MaxEmit]
    BY SizesAssumption
  <2> QED
    <3>1. <<>> \in Seq(Item) /\ Len(<<>>) = 0 /\ 0 \in Nat /\ 0 <= ChanCap
      BY SizesAssumption
    <3>2. (IF pump = "sending" THEN 1 ELSE 0) = 0
      OBVIOUS
    <3> QED
      BY <2>1, <3>1, <3>2 DEF QueueTypeOK
<1>2. \A w : Total(w, items) = 0 /\ Carried(w) = 0
  BY TotalEmpty DEF Carried
<1>3. MarkInv
  BY <1>2 DEF MarkInv
<1>4. LedgerInv
  BY <1>2, SizesAssumption DEF LedgerInv
<1>5. OnceInv
  BY <1>2 DEF OnceInv
<1>6. EndInv
  BY DEF EndInv
<1> QED
  BY <1>1, <1>3, <1>4, <1>5, <1>6 DEF QInv

(* An emission, on the open queue or after its close. *)
LEMMA EmitKeeps ==
  ASSUME QInv, NEW p \in Producer, EmitEvent(p)
  PROVE  QInv'
<1>1. QueueTypeOK /\ MarkInv /\ LedgerInv /\ OnceInv /\ EndInv
  BY DEF QInv
<1>2. PICK kind \in {"output", "lossless"} :
        Push([kind |-> kind, by |-> p, seq |-> emitted[p] + 1])
  BY DEF EmitEvent
<1> DEFINE e == [kind |-> kind, by |-> p, seq |-> emitted[p] + 1]
<1>3. /\ emitted[p] \in 0..MaxEmit /\ emitted[p] < MaxEmit /\ MaxEmit \in Nat
      /\ emitted \in [Producer -> 0..MaxEmit]
      /\ emitted' = [emitted EXCEPT ![p] = emitted[p] + 1]
  BY <1>1, SizesAssumption DEF QueueTypeOK, EmitEvent
<1>4. /\ UNCHANGED <<closed, inflight, chan, chanClosed, ended, seen, told>>
      /\ pump' = IF pump = "off" THEN "popping" ELSE pump
  BY DEF EmitEvent, StartPump, chanVars
<1>5. e \in Event /\ e \in Item /\ e.kind = kind /\ e.by = p /\ e.seq = emitted[p] + 1
  <2>1. emitted[p] + 1 \in 1..MaxEmit
    BY <1>3
  <2> QED
    BY <2>1 DEF Event, Item
<1>6. Push(e)
  BY <1>2
<1> HIDE DEF e
<1>7. emitted' \in [Producer -> 0..MaxEmit]
  BY <1>3
<1>8. /\ pump' \in {"off", "popping", "sending", "done"}
      /\ pump' = "done" <=> pump = "done"
      /\ pump' = "sending" <=> pump = "sending"
  BY <1>1, <1>4 DEF QueueTypeOK
<1>9. CASE closed
  <2>1. UNCHANGED <<items, dropped, hasMarker, accepted>>
    BY <1>6, <1>9 DEF Push
  <2>2. QueueTypeOK'
    BY <1>1, <1>4, <1>7, <1>8, <2>1 DEF QueueTypeOK
  <2>3. \A w : Carried(w)' = Carried(w)
    BY <1>4, <2>1 DEF Carried
  <2>4. MarkInv' /\ LedgerInv' /\ EndInv'
    BY <1>1, <1>4, <1>8, <2>1 DEF MarkInv, LedgerInv, EndInv, Carried
  <2>5. OnceInv'
    <3>1. ASSUME NEW x \in Event
          PROVE  Carried(Same(x))' <= 1 /\ (x.seq > emitted'[x.by] => Carried(Same(x))' = 0)
      <4>1. Carried(Same(x))' = Carried(Same(x))
        BY <1>4, <2>1 DEF Carried
      <4>2. x.by \in Producer /\ x.seq \in Nat
        BY <1>3 DEF Event
      <4>3. x.seq > emitted'[x.by] => x.seq > emitted[x.by]
        BY <1>3, <4>2
      <4> QED
        BY <1>1, <4>1, <4>3 DEF OnceInv
    <3> QED
      BY <3>1 DEF OnceInv
  <2> QED
    BY <2>2, <2>4, <2>5 DEF QInv
<1>10. CASE ~ closed
  <2>1. PICK t \in Seq(Item), k \in Nat : Pushes(e, t, k)
    BY <1>5, <1>6, <1>10, PushIs
  <2>2. /\ items \in Seq(Item) /\ chan \in Seq(Item) /\ inflight \in Seq(Item)
        /\ dropped \in Nat /\ accepted \in Nat /\ seen \in Nat /\ told \in Nat
    BY <1>1 DEF QueueTypeOK
  <2>3. items' = Append(t, e) /\ dropped' = dropped + k /\ hasMarker' \in BOOLEAN
        /\ accepted' = accepted + IF e.kind = "output" THEN 1 ELSE 0
    BY <2>1 DEF Pushes
  <2>4. items' \in Seq(Item)
    BY <1>5, <2>3, AppendProperties
  <2>5. QueueTypeOK'
    <3>1. dropped' \in Nat /\ accepted' \in Nat
      BY <2>2, <2>3
    <3> QED
      BY <1>1, <1>4, <1>7, <1>8, <2>3, <2>4, <3>1 DEF QueueTypeOK
  <2>6. \A w \in [Item -> Nat] :
          /\ Total(w, items') = Total(w, t) + w[e]
          /\ w[e] \in Nat /\ Total(w, t) \in Nat /\ Total(w, items) \in Nat
          /\ Total(w, chan) \in Nat /\ Total(w, inflight) \in Nat
    <3>1. ASSUME NEW w \in [Item -> Nat] PROVE Total(w, Append(t, e)) = Total(w, t) + w[e]
      BY <1>5, TotalAppend
    <3>2. ASSUME NEW w \in [Item -> Nat] PROVE Total(w, t) \in Nat
      BY TotalType
    <3> QED
      BY <1>1, <1>5, <2>3, <3>1, <3>2, CarriedType
  <2>7. ASSUME NEW w \in [Item -> Nat]
        PROVE  Carried(w)' = Total(w, chan) + Total(w, inflight) + Total(w, t) + w[e]
    <3>1. Carried(w)' = Total(w, chan) + Total(w, inflight) + Total(w, items')
      BY <1>4 DEF Carried
    <3>2. /\ Total(w, items') = Total(w, t) + w[e]
          /\ w[e] \in Nat /\ Total(w, t) \in Nat
          /\ Total(w, chan) \in Nat /\ Total(w, inflight) \in Nat
      BY <2>6
    <3> QED
      BY <3>1, <3>2
  <2>8. e.kind # "dropped" /\ ~ IsMarker(e)
    BY <1>5 DEF IsMarker
  <2>9. MarkInv'
    <3>1. hasMarker' <=> dropped' > 0
      BY <2>1 DEF Pushes
    <3>2. Total(Kind("dropped"), items') = IF hasMarker' THEN 1 ELSE 0
      <4>1. Kind("dropped")[e] = 0
        BY <1>5, <2>8 DEF Kind
      <4>2. Total(Kind("dropped"), items') = Total(Kind("dropped"), t) + Kind("dropped")[e]
        BY <2>6, Weights
      <4>3. Total(Kind("dropped"), t) = IF dropped + k > 0 THEN 1 ELSE 0
        BY <2>1 DEF Pushes
      <4> QED
        BY <2>3, <3>1, <4>1, <4>2, <4>3
    <3>3. Total(Stray(dropped + k), items') = 0
      <4>1. Stray(dropped + k)[e] = 0
        BY <1>5, <2>8 DEF Stray
      <4>2. Total(Stray(dropped + k), items') = Total(Stray(dropped + k), t) + Stray(dropped + k)[e]
        BY <2>6, Weights
      <4>3. Total(Stray(dropped + k), t) = 0
        BY <2>1 DEF Pushes
      <4> QED
        BY <4>1, <4>2, <4>3
    <3>4. Total(Stray(dropped'), items') = 0
      BY <2>3, <3>3
    <3> QED
      BY <3>1, <3>2, <3>4 DEF MarkInv
  <2>10. LedgerInv'
    <3> DEFINE out == Kind("output")
    <3>1. out[e] = IF e.kind = "output" THEN 1 ELSE 0
      BY <1>5 DEF Kind
    <3>2. Worth[e] = 0
      BY <1>5, <2>8 DEF Worth
    <3>3. out \in [Item -> Nat] /\ Worth \in [Item -> Nat]
      BY Weights
    <3> HIDE DEF out
    <3>4. /\ Carried(out)' = Total(out, chan) + Total(out, inflight) + Total(out, t) + out[e]
          /\ Carried(Worth)' = Total(Worth, chan) + Total(Worth, inflight) + Total(Worth, t) + Worth[e]
          /\ Total(out, items') = Total(out, t) + out[e]
      BY <2>6, <2>7, <3>3
    <3>5. /\ Total(out, t) + k = Total(out, items) /\ Total(Worth, t) = Total(Worth, items) + k
          /\ e.kind = "output" => Total(out, t) < Cap
      BY <2>1 DEF Pushes, out
    <3>6. /\ Total(out, t) \in Nat /\ Total(out, items) \in Nat
          /\ Total(out, chan) \in Nat /\ Total(out, inflight) \in Nat
          /\ Total(Worth, t) \in Nat /\ Total(Worth, items) \in Nat
          /\ Total(Worth, chan) \in Nat /\ Total(Worth, inflight) \in Nat
      BY <2>6, <3>3
    <3>7. /\ accepted = seen + Carried(out) + told + Carried(Worth)
          /\ Total(out, items) <= Cap
      BY <1>1 DEF LedgerInv, out
    <3>8. /\ Carried(out) = Total(out, chan) + Total(out, inflight) + Total(out, items)
          /\ Carried(Worth) = Total(Worth, chan) + Total(Worth, inflight) + Total(Worth, items)
      BY DEF Carried
    <3>9. accepted' = seen' + Carried(out)' + told' + Carried(Worth)'
      <4>1. out[e] \in Nat /\ accepted' = accepted + out[e] /\ seen' = seen /\ told' = told
        BY <1>4, <2>3, <3>1
      <4>2. /\ Carried(out)' = Total(out, chan) + Total(out, inflight) + Total(out, t) + out[e]
            /\ Carried(Worth)' =
                 Total(Worth, chan) + Total(Worth, inflight) + (Total(Worth, items) + k)
        BY <3>2, <3>4, <3>5, <3>6
      <4>3. accepted = seen + (Total(out, chan) + Total(out, inflight) + Total(out, items)) + told
                         + (Total(Worth, chan) + Total(Worth, inflight) + Total(Worth, items))
        BY <3>7, <3>8
      <4>4. (seen + (Total(out, chan) + Total(out, inflight) + Total(out, items)) + told
                  + (Total(Worth, chan) + Total(Worth, inflight) + Total(Worth, items))) + out[e]
              = seen + (Total(out, chan) + Total(out, inflight) + Total(out, t) + out[e]) + told
                     + (Total(Worth, chan) + Total(Worth, inflight) + (Total(Worth, items) + k))
        <5> DEFINE a == Total(out, chan)
                   b == Total(out, inflight)
                   c == Total(out, items)
                   d == Total(out, t)
                   x == Total(Worth, chan)
                   y == Total(Worth, inflight)
                   z == Total(Worth, items)
                   o == out[e]
        <5>1. d + k = c
          BY <3>5
        <5>2. /\ a \in Nat /\ b \in Nat /\ c \in Nat /\ d \in Nat /\ o \in Nat
              /\ x \in Nat /\ y \in Nat /\ z \in Nat
          BY <3>6, <4>1
        <5> HIDE DEF a, b, c, d, x, y, z, o
        <5>3. (seen + (a + b + c) + told + (x + y + z)) + o
                = seen + (a + b + d + o) + told + (x + y + (z + k))
          BY <2>2, <5>1, <5>2
        <5> QED
          BY <5>3 DEF a, b, c, d, x, y, z, o
      <4> QED
        BY <4>1, <4>2, <4>3, <4>4
    <3>10. Total(out, items') <= Cap
      <4>1. Cap \in Nat
        BY SizesAssumption
      <4> QED
        BY <3>1, <3>4, <3>5, <3>6, <3>7, <4>1
    <3> QED
      BY <3>9, <3>10 DEF LedgerInv, out
  <2>11. OnceInv'
    <3>1. ASSUME NEW x \in Event
          PROVE  Carried(Same(x))' <= 1 /\ (x.seq > emitted'[x.by] => Carried(Same(x))' = 0)
      <4> DEFINE w == Same(x)
      <4>1. w \in [Item -> Nat] /\ w[e] = IF e = x THEN 1 ELSE 0
        BY <1>5, Weights DEF Same
      <4> HIDE DEF w
      <4>2. Carried(w)' = Total(w, chan) + Total(w, inflight) + Total(w, t) + w[e]
        BY <2>7, <4>1
      <4>3. Total(w, t) <= Total(w, items)
        BY <2>1 DEF Pushes, w
      <4>4. Carried(w) = Total(w, chan) + Total(w, inflight) + Total(w, items)
        BY DEF Carried
      <4>5. /\ Total(w, t) \in Nat /\ Total(w, items) \in Nat
            /\ Total(w, chan) \in Nat /\ Total(w, inflight) \in Nat
        BY <2>6, <4>1
      <4>6. Carried(w) <= 1 /\ (x.seq > emitted[x.by] => Carried(w) = 0)
        BY <1>1 DEF OnceInv, w
      <4>7. x.by \in Producer /\ x.seq \in Nat
        BY <1>3 DEF Event
      <4>8. CASE x = e
        <5>1. x.seq > emitted[x.by] /\ ~ (x.seq > emitted'[x.by])
          BY <1>3, <1>5, <4>8
        <5>2. Carried(w)' <= 1
          BY <4>1, <4>2, <4>3, <4>4, <4>5, <4>6, <4>8, <5>1
        <5> QED
          BY <5>1, <5>2 DEF w
      <4>9. CASE x # e
        <5>1. x.seq > emitted'[x.by] => x.seq > emitted[x.by]
          BY <1>3, <4>7
        <5>2. Carried(w)' <= Carried(w) /\ Carried(w)' \in Nat /\ Carried(w) \in Nat
          BY <4>1, <4>2, <4>3, <4>4, <4>5, <4>9
        <5>3. Carried(w)' <= 1 /\ (x.seq > emitted'[x.by] => Carried(w)' = 0)
          BY <4>6, <5>1, <5>2
        <5> QED
          BY <5>3 DEF w
      <4> QED
        BY <4>8, <4>9
    <3> QED
      BY <3>1 DEF OnceInv
  <2>12. EndInv'
    <3>1. pump' # "done"
      BY <1>1, <1>8, <1>10 DEF EndInv
    <3> QED
      BY <1>1, <1>4, <1>8, <3>1 DEF EndInv
  <2> QED
    BY <2>5, <2>9, <2>10, <2>11, <2>12 DEF QInv
<1> QED
  BY <1>9, <1>10

(* A step that only moves items along, or lets one go to the consumer. *)
LEMMA MovesKeep ==
  ASSUME QInv, QueueTypeOK', UNCHANGED <<emitted, accepted>>,
         \A w \in [Item -> Nat] : Carried(w)' <= Carried(w)
  PROVE  OnceInv'
<1>1. QueueTypeOK /\ OnceInv
  BY DEF QInv
<1>2. ASSUME NEW x \in Event
      PROVE  Carried(Same(x))' <= 1 /\ (x.seq > emitted'[x.by] => Carried(Same(x))' = 0)
  <2> DEFINE w == Same(x)
  <2>1. w \in [Item -> Nat]
    BY Weights
  <2> HIDE DEF w
  <2>2. Carried(w) \in Nat
    BY <1>1, <2>1, CarriedType
  <2>3. Carried(w)' \in Nat
    <3>1. chan' \in Seq(Item) /\ inflight' \in Seq(Item) /\ items' \in Seq(Item)
      BY DEF QueueTypeOK
    <3>2. Total(w, chan') \in Nat /\ Total(w, inflight') \in Nat /\ Total(w, items') \in Nat
      BY <2>1, <3>1, TotalType
    <3> QED
      BY <3>2 DEF Carried
  <2>4. Carried(w)' <= Carried(w)
    BY <2>1
  <2>5. Carried(w) <= 1 /\ (x.seq > emitted[x.by] => Carried(w) = 0)
    BY <1>1 DEF OnceInv, w
  <2>6. emitted' = emitted
    OBVIOUS
  <2>7. Carried(w)' <= 1 /\ (x.seq > emitted'[x.by] => Carried(w)' = 0)
    BY <2>2, <2>3, <2>4, <2>5, <2>6
  <2> QED
    BY <2>7 DEF w
<1> QED
  BY <1>2 DEF OnceInv

(* The pump takes an item, which may be the marker. *)
LEMMA PopKeeps ==
  ASSUME QInv, Pop
  PROVE  QInv'
<1>1. QueueTypeOK /\ MarkInv /\ LedgerInv /\ EndInv
  BY DEF QInv
<1> DEFINE h == Head(items)
           rest == Tail(items)
<1>2. /\ pump = "popping" /\ pump' = "sending" /\ items # <<>>
      /\ inflight' = <<h>> /\ items' = rest
      /\ UNCHANGED <<closed, chan, chanClosed, ended, emitted, accepted, seen, told>>
      /\ IF IsMarker(h) THEN dropped' = 0 /\ hasMarker' = FALSE
                              ELSE UNCHANGED <<dropped, hasMarker>>
  BY DEF Pop, chanVars, history
<1>3. /\ items \in Seq(Item) /\ inflight \in Seq(Item) /\ chan \in Seq(Item)
      /\ dropped \in Nat /\ Cap \in Nat
  BY <1>1, SizesAssumption DEF QueueTypeOK
<1>4. inflight = <<>>
  <2>1. Len(inflight) = IF pump = "sending" THEN 1 ELSE 0
    BY <1>1 DEF QueueTypeOK
  <2>2. Len(inflight) = 0
    BY <1>2, <2>1
  <2> QED
    BY <1>3, <2>2, EmptySeq
<1>5. h \in Item /\ rest \in Seq(Item) /\ <<h>> \in Seq(Item) /\ Len(<<h>>) = 1
  BY <1>2, <1>3
<1>6. \A w \in [Item -> Nat] :
        /\ Total(w, items) = w[h] + Total(w, rest)
        /\ w[h] \in Nat /\ Total(w, rest) \in Nat /\ Total(w, chan) \in Nat
        /\ Total(w, <<h>>) = w[h] /\ Total(w, inflight) = 0
  <2>1. ASSUME NEW w \in [Item -> Nat]
        PROVE  /\ Total(w, items) = w[h] + Total(w, rest)
               /\ Total(w, <<h>>) = w[h] /\ w[h] \in Nat
    BY <1>2, <1>3, <1>5, TotalHead, TotalOne
  <2>2. ASSUME NEW w \in [Item -> Nat]
        PROVE  Total(w, rest) \in Nat /\ Total(w, chan) \in Nat
    <3> HIDE DEF rest
    <3> QED
      BY <1>3, <1>5, TotalType
  <2> QED
    BY <1>4, <2>1, <2>2, TotalEmpty
<1> HIDE DEF h, rest
<1>7. \A w \in [Item -> Nat] : Carried(w)' = Carried(w)
  <2>1. ASSUME NEW w \in [Item -> Nat] PROVE Carried(w)' = Carried(w)
    <3>1. Carried(w)' = Total(w, chan) + Total(w, <<h>>) + Total(w, rest)
      BY <1>2 DEF Carried
    <3>2. Carried(w) = Total(w, chan) + Total(w, inflight) + Total(w, items)
      BY DEF Carried
    <3>3. /\ Total(w, items) = w[h] + Total(w, rest)
          /\ w[h] \in Nat /\ Total(w, rest) \in Nat /\ Total(w, chan) \in Nat
          /\ Total(w, <<h>>) = w[h] /\ Total(w, inflight) = 0
      BY <1>6
    <3> QED
      BY <3>1, <3>2, <3>3
  <2> QED
    BY <2>1
<1>8. QueueTypeOK'
  <2>1. dropped' \in Nat /\ hasMarker' \in BOOLEAN
    <3>1. hasMarker \in BOOLEAN
      BY <1>1 DEF QueueTypeOK
    <3>2. CASE IsMarker(h)
      <4>1. dropped' = 0 /\ hasMarker' = FALSE
        BY <1>2, <3>2
      <4> QED
        BY <4>1
    <3>3. CASE ~ IsMarker(h)
      <4>1. dropped' = dropped /\ hasMarker' = hasMarker
        BY <1>2, <3>3
      <4> QED
        BY <1>3, <3>1, <4>1
    <3> QED
      BY <3>2, <3>3
  <2> QED
    BY <1>1, <1>2, <1>5, <2>1 DEF QueueTypeOK
<1>9. MarkInv'
  <2> DEFINE d == Kind("dropped")
  <2>1. d[h] = IF h.kind = "dropped" THEN 1 ELSE 0
    BY <1>5 DEF Kind
  <2>2. d \in [Item -> Nat]
    BY Weights
  <2>3. IsMarker(h) <=> h.kind = "dropped"
    BY DEF IsMarker
  <2>4. Total(d, items) = IF hasMarker THEN 1 ELSE 0
    BY <1>1 DEF MarkInv
  <2> HIDE DEF d
  <2>5. Total(d, items) = d[h] + Total(d, rest) /\ Total(d, rest) \in Nat
    BY <1>6, <2>2
  <2>6. CASE h.kind = "dropped"
    <3>1. dropped' = 0 /\ hasMarker' = FALSE
      BY <1>2, <2>3, <2>6
    <3>2. Total(d, rest) = 0
      BY <2>1, <2>4, <2>5, <2>6
    <3>3. Total(Stray(0), rest) = 0
      BY <1>5, <3>2, NoMarkers DEF d
    <3> QED
      BY <1>2, <3>1, <3>2, <3>3 DEF MarkInv, d
  <2>7. CASE h.kind # "dropped"
    <3>1. dropped' = dropped /\ hasMarker' = hasMarker
      BY <1>2, <2>3, <2>7
    <3>2. Total(d, rest) = Total(d, items)
      BY <2>1, <2>5, <2>7
    <3>3. Total(Stray(dropped), rest) = 0
      <4>1. Stray(dropped)[h] = 0
        BY <1>5, <2>7 DEF Stray
      <4>2. /\ Total(Stray(dropped), items) = Stray(dropped)[h] + Total(Stray(dropped), rest)
            /\ Total(Stray(dropped), rest) \in Nat
        BY <1>6, Weights
      <4>3. Total(Stray(dropped), items) = 0
        BY <1>1 DEF MarkInv
      <4> QED
        BY <4>1, <4>2, <4>3
    <3>4. hasMarker <=> dropped > 0
      BY <1>1 DEF MarkInv
    <3> QED
      BY <1>2, <2>4, <3>1, <3>2, <3>3, <3>4 DEF MarkInv, d
  <2> QED
    BY <2>6, <2>7
<1>10. LedgerInv'
  <2>1. Carried(Kind("output"))' = Carried(Kind("output")) /\ Carried(Worth)' = Carried(Worth)
    BY <1>7, Weights
  <2>2. Total(Kind("output"), items') <= Cap
    <3>1. /\ Total(Kind("output"), items) = Kind("output")[h] + Total(Kind("output"), rest)
          /\ Kind("output")[h] \in Nat /\ Total(Kind("output"), rest) \in Nat
      BY <1>6, Weights
    <3>2. Total(Kind("output"), items) <= Cap
      BY <1>1 DEF LedgerInv
    <3> QED
      BY <1>2, <1>3, <3>1, <3>2
  <2> QED
    BY <1>1, <1>2, <2>1, <2>2 DEF LedgerInv
<1>11. OnceInv'
  <2>1. \A w \in [Item -> Nat] : Carried(w)' <= Carried(w)
    <3>1. \A w \in [Item -> Nat] : Carried(w) \in Nat
      BY <1>1, CarriedType
    <3> QED
      BY <1>7, <3>1
  <2> QED
    BY <1>2, <1>8, <2>1, MovesKeep
<1>12. EndInv'
  BY <1>1, <1>2 DEF EndInv
<1> QED
  BY <1>8, <1>9, <1>10, <1>11, <1>12 DEF QInv

(* It sends what it has taken. *)
LEMMA SendKeeps ==
  ASSUME QInv, Send
  PROVE  QInv'
<1>1. QueueTypeOK /\ MarkInv /\ LedgerInv /\ EndInv
  BY DEF QInv
<1>2. /\ pump = "sending" /\ pump' = "popping" /\ Len(chan) < ChanCap
      /\ chan' = chan \o inflight /\ inflight' = <<>>
      /\ UNCHANGED <<items, closed, dropped, hasMarker, chanClosed, ended, emitted, accepted, seen, told>>
  BY DEF Send, queueVars, history
<1>3. /\ items \in Seq(Item) /\ inflight \in Seq(Item) /\ chan \in Seq(Item)
      /\ Len(inflight) = 1 /\ ChanCap \in Nat
  BY <1>1, <1>2, SizesAssumption DEF QueueTypeOK
<1>4. chan' \in Seq(Item) /\ Len(chan') = Len(chan) + 1
  <2>1. chan \o inflight \in Seq(Item)
    BY <1>3, ConcatProperties
  <2>2. Len(chan \o inflight) = Len(chan) + Len(inflight)
    BY <1>3, ConcatProperties
  <2> QED
    BY <1>2, <1>3, <2>1, <2>2
<1>5. QueueTypeOK'
  <2>1. Len(chan') <= ChanCap
    <3>1. Len(chan) \in Nat
      BY <1>3
    <3> QED
      BY <1>2, <1>3, <1>4, <3>1
  <2>2. Len(<<>>) = 0 /\ <<>> \in Seq(Item)
    OBVIOUS
  <2> QED
    BY <1>1, <1>2, <1>4, <2>1, <2>2 DEF QueueTypeOK
<1>6. \A w \in [Item -> Nat] : Carried(w)' = Carried(w)
  <2>1. ASSUME NEW w \in [Item -> Nat] PROVE Carried(w)' = Carried(w)
    <3>1. Carried(w)' = Total(w, chan \o inflight) + Total(w, <<>>) + Total(w, items)
      BY <1>2 DEF Carried
    <3>2. Total(w, chan \o inflight) = Total(w, chan) + Total(w, inflight)
      BY <1>3, TotalConcat
    <3>3. Total(w, <<>>) = 0
      BY TotalEmpty
    <3>4. Total(w, chan) \in Nat /\ Total(w, inflight) \in Nat /\ Total(w, items) \in Nat
      BY <1>1, CarriedType
    <3> QED
      BY <3>1, <3>2, <3>3, <3>4 DEF Carried
  <2> QED
    BY <2>1
<1>7. MarkInv' /\ EndInv'
  BY <1>1, <1>2 DEF MarkInv, EndInv
<1>8. LedgerInv'
  <2>1. Carried(Kind("output"))' = Carried(Kind("output")) /\ Carried(Worth)' = Carried(Worth)
    BY <1>6, Weights
  <2> QED
    BY <1>1, <1>2, <2>1 DEF LedgerInv
<1>9. OnceInv'
  <2>1. \A w \in [Item -> Nat] : Carried(w)' <= Carried(w)
    <3>1. \A w \in [Item -> Nat] : Carried(w) \in Nat
      BY <1>1, CarriedType
    <3> QED
      BY <1>6, <3>1
  <2> QED
    BY <1>2, <1>5, <2>1, MovesKeep
<1> QED
  BY <1>5, <1>7, <1>8, <1>9 DEF QInv

(* The consumer receives an event, or is told of a loss. *)
LEMMA ReceiveKeeps ==
  ASSUME QInv, Receive
  PROVE  QInv'
<1>1. QueueTypeOK /\ MarkInv /\ LedgerInv /\ EndInv
  BY DEF QInv
<1> DEFINE h == Head(chan)
           rest == Tail(chan)
<1>2. /\ chan # <<>> /\ chan' = rest
      /\ seen' = seen + IF IsOutput(h) THEN 1 ELSE 0
      /\ told' = told + IF IsMarker(h) THEN h.n ELSE 0
      /\ UNCHANGED <<items, closed, dropped, hasMarker, pump, inflight, chanClosed, ended,
                     emitted, accepted>>
  BY DEF Receive, queueVars, pumpVars
<1>3. /\ items \in Seq(Item) /\ inflight \in Seq(Item) /\ chan \in Seq(Item)
      /\ seen \in Nat /\ told \in Nat /\ ChanCap \in Nat /\ Len(chan) \in Nat /\ Len(chan) <= ChanCap
  BY <1>1, SizesAssumption DEF QueueTypeOK
<1>4. h \in Item /\ rest \in Seq(Item) /\ Len(rest) <= ChanCap
  BY <1>2, <1>3, HeadTailProperties
<1>5. \A w \in [Item -> Nat] : Total(w, chan) = w[h] + Total(w, rest) /\ w[h] \in Nat
  BY <1>2, <1>3, <1>4, TotalHead
<1> HIDE DEF h, rest
<1>6. \A w \in [Item -> Nat] :
        Carried(w) = Carried(w)' + w[h] /\ w[h] \in Nat /\ Carried(w)' \in Nat
  <2>1. ASSUME NEW w \in [Item -> Nat]
        PROVE  Carried(w) = Carried(w)' + w[h] /\ w[h] \in Nat /\ Carried(w)' \in Nat
    <3>1. Carried(w)' = Total(w, rest) + Total(w, inflight) + Total(w, items)
      BY <1>2 DEF Carried
    <3>2. Carried(w) = Total(w, chan) + Total(w, inflight) + Total(w, items)
      BY DEF Carried
    <3>3. Total(w, inflight) \in Nat /\ Total(w, items) \in Nat
      BY <1>1, CarriedType
    <3>4. Total(w, rest) \in Nat
      BY <1>4, TotalType
    <3>5. Total(w, chan) = w[h] + Total(w, rest) /\ w[h] \in Nat
      BY <1>5
    <3> QED
      BY <3>1, <3>2, <3>3, <3>4, <3>5
  <2> QED
    BY <2>1
<1>7. /\ Kind("output")[h] = IF IsOutput(h) THEN 1 ELSE 0
      /\ Worth[h] = IF IsMarker(h) THEN h.n ELSE 0
  BY <1>4 DEF Kind, Worth, IsOutput
<1>8. /\ Kind("output")[h] \in Nat /\ Worth[h] \in Nat
      /\ Carried(Kind("output")) = Carried(Kind("output"))' + Kind("output")[h]
      /\ Carried(Worth) = Carried(Worth)' + Worth[h]
      /\ Carried(Kind("output"))' \in Nat /\ Carried(Worth)' \in Nat
  BY <1>6, Weights
<1>9. seen' = seen + Kind("output")[h] /\ told' = told + Worth[h]
  BY <1>2, <1>7
<1>10. QueueTypeOK'
  <2>1. seen' \in Nat /\ told' \in Nat
    <3> DEFINE a == Kind("output")[h]
               b == Worth[h]
    <3>1. a \in Nat /\ b \in Nat /\ seen' = seen + a /\ told' = told + b
      BY <1>8, <1>9
    <3> HIDE DEF a, b
    <3> QED
      BY <1>3, <3>1
  <2> QED
    BY <1>1, <1>2, <1>4, <2>1 DEF QueueTypeOK
<1>11. MarkInv' /\ EndInv'
  BY <1>1, <1>2 DEF MarkInv, EndInv
<1>12. LedgerInv'
  <2>1. accepted = seen + Carried(Kind("output")) + told + Carried(Worth)
    BY <1>1 DEF LedgerInv
  <2>2. accepted' = seen' + Carried(Kind("output"))' + told' + Carried(Worth)'
    <3> DEFINE a == Kind("output")[h]
               b == Worth[h]
               c == Carried(Kind("output"))'
               d == Carried(Worth)'
               x == Carried(Kind("output"))
               y == Carried(Worth)
    <3>1. /\ a \in Nat /\ b \in Nat /\ c \in Nat /\ d \in Nat /\ x = c + a /\ y = d + b
          /\ seen' = seen + a /\ told' = told + b /\ accepted' = accepted
          /\ accepted = seen + x + told + y
      BY <1>2, <1>8, <1>9, <2>1
    <3> HIDE DEF a, b, c, d, x, y
    <3>2. accepted' = seen' + c + told' + d
      BY <1>3, <3>1
    <3> QED
      BY <3>2 DEF c, d
  <2>3. Total(Kind("output"), items) <= Cap
    BY <1>1 DEF LedgerInv
  <2> QED
    BY <1>2, <2>2, <2>3 DEF LedgerInv
<1>13. OnceInv'
  <2>1. \A w \in [Item -> Nat] : Carried(w)' <= Carried(w)
    BY <1>6
  <2> QED
    BY <1>2, <1>10, <2>1, MovesKeep
<1> QED
  BY <1>10, <1>11, <1>12, <1>13 DEF QInv

(* The close of the queue, the end of the pump, the end of the consumer's   *)
(* range, or nothing at all.                                                *)
LEMMA EndsKeep ==
  ASSUME QInv,
         CloseEvents \/ PumpExit \/ ReceiveEnd \/ UNCHANGED streamVars
  PROVE  QInv'
<1>1. QueueTypeOK /\ MarkInv /\ LedgerInv /\ EndInv
  BY DEF QInv
<1> USE DEF streamVars, queueVars, pumpVars, chanVars, history
<1>2. UNCHANGED <<items, dropped, hasMarker, inflight, chan, emitted, accepted, seen, told>>
  BY DEF CloseEvents, PumpExit, ReceiveEnd
<1>3. QueueTypeOK' /\ EndInv'
  <2>1. CASE CloseEvents
    BY <1>1, <2>1 DEF CloseEvents, StartPump, QueueTypeOK, EndInv
  <2>2. CASE PumpExit
    BY <1>1, <2>2 DEF PumpExit, QueueTypeOK, EndInv
  <2>3. CASE ReceiveEnd
    BY <1>1, <2>3 DEF ReceiveEnd, QueueTypeOK, EndInv
  <2>4. CASE UNCHANGED streamVars
    BY <1>1, <2>4 DEF QueueTypeOK, EndInv
  <2> QED
    BY <2>1, <2>2, <2>3, <2>4
<1>4. \A w : Carried(w)' = Carried(w)
  BY <1>2 DEF Carried
<1>5. MarkInv'
  BY <1>1, <1>2 DEF MarkInv
<1>6. LedgerInv'
  BY <1>1, <1>2, <1>4 DEF LedgerInv
<1>7. OnceInv'
  <2>1. \A w \in [Item -> Nat] : Carried(w)' <= Carried(w)
    BY <1>1, <1>4, CarriedType
  <2> QED
    BY <1>2, <1>3, <2>1, MovesKeep
<1> QED
  BY <1>3, <1>5, <1>6, <1>7 DEF QInv

(* Whatever the producers, the pump and the consumer do in whatever order:  *)
(* a lost output is counted by one marker, delivered or to come, an event   *)
(* is on its way at most once, and child output does not fill the queue.    *)
THEOREM QueueInductive == QueueSpec => []QInv
<1>1. QueueInit => QInv
  BY QInit
<1>2. QInv /\ [QueueNext]_streamVars => QInv'
  <2>1. ASSUME QInv, NEW p \in Producer, EmitEvent(p) PROVE QInv'
    BY <2>1, EmitKeeps
  <2> QED
    BY <2>1, PopKeeps, SendKeeps, ReceiveKeeps, EndsKeep DEF QueueNext
<1> QED
  BY <1>1, <1>2, PTL DEF QueueSpec

(* No output disappears unaccounted, and the high-water mark bounds the     *)
(* child output in the queue whatever the mix with lossless events: for any *)
(* producers, any mark and channel, and any number of emissions.            *)
THEOREM QueueCorrect == QueueSpec => []QueueInv
<1>1. QInv => QueueInv
  BY QInvIsQueueInv
<1> QED
  BY <1>1, QueueInductive, PTL

-----------------------------------------------------------------------------
(* What the stream's consumer still has to receive. *)
Waiting == Without(Flow, Notice)

LEMMA WaitingIs ==
  /\ Without(Flow, Notice) = Waiting
  /\ Without(Flow, Notice)' = Waiting'
  BY DEF Waiting

(* What the pump and the channel hold and what the queue holds are thinned  *)
(* one by one.                                                              *)
LEMMA FlowParts ==
  ASSUME NEW s \in Seq(Item), NEW t \in Seq(Item), NEW u \in Seq(Item)
  PROVE  /\ s \o t \in Seq(Item)
         /\ \A gone : /\ Without((s \o t) \o u, gone) = Without(s \o t, gone) \o Without(u, gone)
                      /\ Without(s \o t, gone) \in Seq(Item)
                      /\ Without(u, gone) \in Seq(Item)
<1> DEFINE a == s \o t
<1>1. a \in Seq(Item)
  BY ConcatProperties
<1> HIDE DEF a
<1>2. \A gone : Without(a \o u, gone) = Without(a, gone) \o Without(u, gone)
  BY <1>1, ItemsConcat
<1>3. ASSUME NEW gone
      PROVE  Without(a, gone) \in Seq(Item) /\ Without(u, gone) \in Seq(Item)
  BY <1>1, WithoutType
<1> QED
  BY <1>1, <1>2, <1>3 DEF a

(* An output that is evicted from the queue is not in the channel as well. *)
LEMMA NotSentToo ==
  ASSUME QInv, NEW i \in DOMAIN items, items[i] \in Output
  PROVE  \A j \in 1..Len(chan \o inflight) : (chan \o inflight)[j] # items[i]
<1>1. QueueTypeOK /\ OnceInv
  BY DEF QInv
<1>2. /\ chan \in Seq(Item) /\ inflight \in Seq(Item) /\ items \in Seq(Item)
      /\ i \in 1..Len(items)
  BY <1>1 DEF QueueTypeOK
<1> DEFINE a == chan \o inflight
           x == items[i]
           w == Same(x)
<1>3. a \in Seq(Item)
  BY <1>2, ConcatProperties
<1>4. x \in Event /\ x \in Item
  BY DEF Output, Item
<1>5. w \in [Item -> Nat] /\ w[x] = 1
  BY <1>4, Weights DEF Same
<1>6. Carried(w) <= 1
  BY <1>1, <1>4 DEF OnceInv
<1> HIDE DEF w
<1>7. Total(w, a) = Total(w, chan) + Total(w, inflight)
  BY <1>2, <1>5, TotalConcat
<1>8. Carried(w) = Total(w, chan) + Total(w, inflight) + Total(w, items)
  BY DEF Carried
<1>9. w[items[i]] <= Total(w, items)
  BY <1>2, <1>5, TotalAtLeast
<1>10. Total(w, chan) \in Nat /\ Total(w, inflight) \in Nat /\ Total(w, items) \in Nat
  BY <1>1, <1>5, CarriedType
<1>11. Total(w, a) = 0
  BY <1>5, <1>6, <1>7, <1>8, <1>9, <1>10
<1> HIDE DEF a, x
<1>12. ASSUME NEW j \in 1..Len(a), a[j] = x PROVE FALSE
  <2>1. w[a[j]] <= Total(w, a)
    BY <1>3, <1>5, TotalAtLeast
  <2> QED
    BY <1>5, <1>11, <1>12, <2>1
<1> QED
  BY <1>12 DEF a, x

(* An emission is one of the stream, with the loss it causes, until the     *)
(* queue is closed.                                                         *)
LEMMA EmitRefines ==
  ASSUME QInv, NEW p \in Producer, EmitEvent(p)
  PROVE  Fifo!Emit \/ UNCHANGED Fifo!vars
<1>1. QueueTypeOK
  BY DEF QInv
<1>2. PICK kind \in {"output", "lossless"} :
        Push([kind |-> kind, by |-> p, seq |-> emitted[p] + 1])
  BY DEF EmitEvent
<1> DEFINE e == [kind |-> kind, by |-> p, seq |-> emitted[p] + 1]
<1>3. e \in Event
  <2>1. emitted[p] \in 0..MaxEmit /\ emitted[p] < MaxEmit /\ MaxEmit \in Nat
    BY <1>1, SizesAssumption DEF QueueTypeOK, EmitEvent
  <2>2. emitted[p] + 1 \in 1..MaxEmit
    BY <2>1
  <2> QED
    BY <2>2 DEF Event
<1>4. e \in Item /\ e \notin Notice /\ Push(e)
  BY <1>2, <1>3 DEF Item, Event, Notice
<1> HIDE DEF e
<1>5. UNCHANGED <<closed, inflight, chan, ended>>
  BY DEF EmitEvent, chanVars
<1>6. CASE closed
  <2>1. items' = items
    BY <1>4, <1>6 DEF Push
  <2>2. Flow' = Flow
    BY <1>5, <2>1 DEF Flow
  <2>3. Waiting' = Waiting
    BY <2>2 DEF Waiting
  <2> QED
    BY <1>5, <2>3, WaitingIs DEF Fifo!vars
<1>7. CASE ~ closed
  <2>1. PICK t \in Seq(Item), k \in Nat : Pushes(e, t, k)
    BY <1>3, <1>4, <1>7, PushIs
  <2>2. items' = Append(t, e)
    BY <2>1 DEF Pushes
  <2>3. PICK gone \in SUBSET Output :
          /\ \A x \in gone : \E i \in DOMAIN items : items[i] = x
          /\ Without(t, Notice) = Without(items, Notice \cup gone)
    BY <2>1, OnceInQueue DEF Pushes
  <2> DEFINE N == Notice
             a == chan \o inflight
             y == <<e>>
             A == Without(a, N)
             B == Without(t, N)
  <2>4. chan \in Seq(Item) /\ inflight \in Seq(Item) /\ items \in Seq(Item)
    BY <1>1 DEF QueueTypeOK
  <2>5. y \in Seq(Item) /\ Append(t, e) = t \o y /\ Without(y, N) = y
    BY <1>4, AppendIsConcat, WithoutOne
  <2>6. a \in Seq(Item) /\ Flow = a \o items /\ Flow' = a \o items'
    BY <1>5, <2>4, ConcatProperties DEF Flow
  <2>7. \A i \in 1..Len(a) : a[i] \notin gone
    BY <2>3, NotSentToo
  <2> HIDE DEF a, y
  <2>8. Without(a, N \cup gone) = A
    <3>1. Without(a, gone) = a
      BY <2>6, <2>7, WithoutNone
    <3>2. Without(Without(a, gone), N) = Without(a, gone \cup N)
      BY <2>6, WithoutTwice
    <3>3. gone \cup N = N \cup gone
      OBVIOUS
    <3> QED
      BY <3>1, <3>2, <3>3
  <2>9. A \in Seq(Item) /\ B \in Seq(Item)
    BY <2>6, WithoutType
  <2>10. Without(Waiting, gone) = A \o B
    <3>1. Flow \in Seq(Item)
      BY <1>1, FlowWeighs
    <3>2. Without(Without(Flow, N), gone) = Without(Flow, N \cup gone)
      BY <3>1, WithoutTwice
    <3>3. Without(a \o items, N \cup gone) = Without(a, N \cup gone) \o Without(items, N \cup gone)
      BY <2>4, <2>6, ItemsConcat
    <3> QED
      BY <2>3, <2>6, <2>8, <3>2, <3>3 DEF Waiting
  <2>11. Waiting' = Append(Without(Waiting, gone), e)
    <3>1. Waiting' = Without(a \o (t \o y), N)
      BY <2>2, <2>5, <2>6 DEF Waiting
    <3> DEFINE z == t \o y
    <3>2. z \in Seq(Item) /\ Without(z, N) = B \o y
      <4>1. t \o y \in Seq(Item)
        BY <2>5, ConcatProperties
      <4>2. Without(t \o y, N) = Without(t, N) \o Without(y, N)
        BY <2>5, ItemsConcat
      <4> QED
        BY <2>5, <4>1, <4>2
    <3> HIDE DEF z
    <3>3. Without(a \o z, N) = A \o (B \o y)
      <4>1. Without(a \o z, N) = Without(a, N) \o Without(z, N)
        BY <2>6, <3>2, ItemsConcat
      <4> QED
        BY <3>2, <4>1
    <3> HIDE DEF A, B
    <3>4. (A \o B) \o y = A \o (B \o y)
      BY <2>5, <2>9, ConcatAssociative
    <3>5. Append(A \o B, e) = (A \o B) \o y
      <4>1. A \o B \in Seq(Item)
        BY <2>9, ConcatProperties
      <4> QED
        BY <1>4, <4>1, AppendIsConcat DEF y
    <3> QED
      BY <2>10, <3>1, <3>3, <3>4, <3>5 DEF z
  <2>12. \A x \in gone : \E j \in DOMAIN Waiting : Waiting[j] = x
    <3>1. ASSUME NEW x \in gone PROVE \E j \in DOMAIN Waiting : Waiting[j] = x
      <4>1. PICK i \in DOMAIN items : items[i] = x
        BY <2>3
      <4>2. i \in 1..Len(items) /\ Len(items) \in Nat /\ Len(a) \in Nat
        BY <2>4, <2>6
      <4>3. Len(a) + i \in 1..Len(a \o items) /\ (a \o items)[Len(a) + i] = x /\ a \o items \in Seq(Item)
        <5>1. a \o items \in Seq(Item) /\ Len(a \o items) = Len(a) + Len(items)
          BY <2>4, <2>6, ConcatProperties
        <5>2. Len(a) + i \in 1..(Len(a) + Len(items)) /\ ~ (Len(a) + i <= Len(a)) /\ (Len(a) + i) - Len(a) = i
          BY <4>2
        <5>3. (a \o items)[Len(a) + i] = IF Len(a) + i <= Len(a) THEN a[Len(a) + i] ELSE items[(Len(a) + i) - Len(a)]
          BY <2>4, <2>6, <5>2, ConcatProperties
        <5> QED
          BY <4>1, <5>1, <5>2, <5>3
      <4>4. x \notin N
        BY <2>3 DEF Output, Event, Notice
      <4> DEFINE f == a \o items
                 n == Len(a) + i
      <4>5. f \in Seq(Item) /\ n \in 1..Len(f) /\ f[n] = x
        BY <4>3
      <4> HIDE DEF f, n
      <4>6. \E j \in DOMAIN Without(f, N) : Without(f, N)[j] = f[n]
        BY <4>4, <4>5, WithoutKeeps
      <4> QED
        BY <2>6, <4>5, <4>6 DEF Waiting, f
    <3> QED
      BY <3>1
  <2>13. Fifo!Emit
    <3>1. gone \in SUBSET (Output \cap {Waiting[j] : j \in DOMAIN Waiting})
      BY <2>3, <2>12
    <3>2. \E x \in Event, lost \in SUBSET (Output \cap {Waiting[j] : j \in DOMAIN Waiting}) :
            Waiting' = Append(Without(Waiting, lost), x)
      BY <1>3, <2>11, <3>1
    <3> QED
      BY <1>5, <1>7, <3>2, WaitingIs, WithoutSame DEF Fifo!Emit
  <2> QED
    BY <2>13
<1> QED
  BY <1>6, <1>7

(* The pump only moves what the consumer still has to receive along. *)
LEMMA PumpRefines ==
  ASSUME QInv, Pop \/ Send
  PROVE  UNCHANGED Fifo!vars
<1>1. /\ chan \in Seq(Item) /\ inflight \in Seq(Item) /\ items \in Seq(Item)
      /\ Len(inflight) = IF pump = "sending" THEN 1 ELSE 0
  BY DEF QInv, QueueTypeOK
<1>2. UNCHANGED <<closed, ended>>
  BY DEF Pop, Send, chanVars, queueVars
<1>3. Flow' = Flow
  <2>1. CASE Pop
    <3> DEFINE h == Head(items)
               y == <<h>>
               rest == Tail(items)
    <3>1. items # <<>> /\ inflight' = y /\ items' = rest /\ chan' = chan /\ pump = "popping"
      BY <2>1 DEF Pop, chanVars
    <3>2. Len(inflight) = 0
      BY <1>1, <3>1
    <3>3. inflight = <<>>
      BY <1>1, <3>2, EmptySeq
    <3>4. y \in Seq(Item) /\ rest \in Seq(Item) /\ items = y \o rest
      BY <1>1, <3>1
    <3> HIDE DEF y, rest
    <3>5. chan \o <<>> = chan
      BY <1>1, ConcatEmptySeq
    <3>6. (chan \o y) \o rest = chan \o (y \o rest)
      BY <1>1, <3>4, ConcatAssociative
    <3> QED
      BY <3>1, <3>3, <3>4, <3>5, <3>6 DEF Flow
  <2>2. CASE Send
    <3>1. chan' = chan \o inflight /\ inflight' = <<>> /\ items' = items
      BY <2>2 DEF Send, queueVars
    <3>2. (chan \o inflight) \o <<>> = chan \o inflight
      <4> DEFINE a == chan \o inflight
      <4>1. a \in Seq(Item)
        BY <1>1, ConcatProperties
      <4> HIDE DEF a
      <4>2. a \o <<>> = a
        BY <4>1, ConcatEmptySeq
      <4> QED
        BY <4>2 DEF a
    <3> QED
      BY <3>1, <3>2 DEF Flow
  <2> QED
    BY <2>1, <2>2
<1>4. Waiting' = Waiting
  BY <1>3 DEF Waiting
<1> QED
  BY <1>2, <1>4, WaitingIs DEF Fifo!vars

(* The consumer receives the first event that waits, or a marker, which is  *)
(* no event of the stream.                                                  *)
LEMMA ReceiveRefines ==
  ASSUME QInv, Receive
  PROVE  Fifo!Receive \/ UNCHANGED Fifo!vars
<1>1. chan \in Seq(Item) /\ inflight \in Seq(Item) /\ items \in Seq(Item)
  BY DEF QInv, QueueTypeOK
<1> DEFINE h == Head(chan)
           y == <<h>>
           rest == Tail(chan)
           r == (rest \o inflight) \o items
           N == Notice
<1>2. chan # <<>> /\ chan' = rest /\ UNCHANGED <<inflight, items, closed, ended>>
  BY DEF Receive, queueVars, pumpVars
<1>3. h \in Item /\ y \in Seq(Item) /\ rest \in Seq(Item) /\ chan = y \o rest
  BY <1>1, <1>2
<1>4. Without(y, N) = IF h \in N THEN <<>> ELSE y
  BY WithoutOne
<1> HIDE DEF y, rest
<1>5. Flow = y \o r /\ Flow' = r /\ r \in Seq(Item)
  <2> DEFINE b == rest \o inflight
  <2>1. b \in Seq(Item)
    BY <1>1, <1>3, ConcatProperties
  <2>2. (y \o rest) \o inflight = y \o b
    BY <1>1, <1>3, ConcatAssociative
  <2> HIDE DEF b
  <2>3. (y \o b) \o items = y \o (b \o items)
    <3>1. y \in Seq(Item) /\ b \in Seq(Item) /\ items \in Seq(Item)
      BY <1>1, <1>3, <2>1
    <3> QED
      BY <3>1, ConcatAssociative
  <2>4. b \o items \in Seq(Item)
    BY <1>1, <2>1, ConcatProperties
  <2> QED
    BY <1>2, <1>3, <2>2, <2>3, <2>4 DEF Flow, b
<1> HIDE DEF r
<1>6. Waiting = Without(y, N) \o Waiting' /\ Waiting' \in Seq(Item)
  <2>1. Without(y \o r, N) = Without(y, N) \o Without(r, N)
    BY <1>3, <1>5, ItemsConcat
  <2>2. Without(r, N) \in Seq(Item)
    BY <1>5, WithoutType
  <2> QED
    BY <1>5, <2>1, <2>2 DEF Waiting
<1>7. CASE h \in N
  <2>1. <<>> \o Waiting' = Waiting'
    BY <1>6, ConcatEmptySeq
  <2>2. Waiting' = Waiting
    BY <1>4, <1>6, <1>7, <2>1
  <2> QED
    BY <1>2, <2>2, WaitingIs DEF Fifo!vars
<1>8. CASE h \notin N
  <2> DEFINE u == Waiting'
  <2>1. Waiting = <<h>> \o u /\ u \in Seq(Item)
    BY <1>4, <1>6, <1>8 DEF y
  <2> HIDE DEF u, h
  <2>2. <<h>> \o u # <<>> /\ Tail(<<h>> \o u) = u
    BY <1>3, <2>1
  <2>3. Waiting # <<>> /\ Waiting' = Tail(Waiting)
    BY <2>1, <2>2 DEF u
  <2> QED
    BY <1>2, <2>3, WaitingIs DEF Fifo!Receive
<1> QED
  BY <1>7, <1>8

(* The close of the queue shuts the stream, and the consumer sees its end   *)
(* when nothing waits.                                                      *)
LEMMA EndsRefine ==
  ASSUME QInv, CloseEvents \/ PumpExit \/ ReceiveEnd \/ UNCHANGED streamVars
  PROVE  Fifo!Next \/ UNCHANGED Fifo!vars
<1> USE DEF streamVars, queueVars, pumpVars, chanVars, history
<1>1. UNCHANGED <<items, inflight, chan>>
  BY DEF CloseEvents, PumpExit, ReceiveEnd
<1>2. Waiting' = Waiting
  BY <1>1 DEF Waiting, Flow
<1>3. CASE CloseEvents
  <2>1. Fifo!Shut
    BY <1>2, <1>3, WaitingIs DEF Fifo!Shut, CloseEvents
  <2> QED
    BY <2>1 DEF Fifo!Next
<1>4. CASE PumpExit
  BY <1>2, <1>4, WaitingIs DEF Fifo!vars, PumpExit
<1>5. CASE ReceiveEnd
  <2>1. closed /\ items = <<>> /\ pump = "done" /\ chan = <<>>
    BY <1>5 DEF QInv, EndInv, ReceiveEnd
  <2>2. inflight = <<>>
    <3>1. inflight \in Seq(Item) /\ Len(inflight) = IF pump = "sending" THEN 1 ELSE 0
      BY DEF QInv, QueueTypeOK
    <3>2. Len(inflight) = 0
      BY <2>1, <3>1
    <3> QED
      BY <3>1, <3>2, EmptySeq
  <2>3. Waiting = <<>>
    <3>1. Flow = <<>>
      BY <2>1, <2>2 DEF Flow
    <3> QED
      BY <3>1, WithoutEmpty DEF Waiting
  <2>4. Fifo!End
    BY <1>2, <1>5, <2>1, <2>3, WaitingIs DEF Fifo!End, ReceiveEnd
  <2> QED
    BY <2>4 DEF Fifo!Next
<1>6. CASE UNCHANGED streamVars
  BY <1>2, <1>6, WaitingIs DEF Fifo!vars
<1> QED
  BY <1>3, <1>4, <1>5, <1>6

(* Queue, pump and channel implement the lossy FIFO: the consumer receives  *)
(* the events in the order in which they were emitted, every one that is    *)
(* not child output, and sees the end only after the last.                  *)
THEOREM QueueRefinesFifo == QueueSpec => ImplementsFifo
<1>1. QueueInit => Fifo!Init
  <2>1. ASSUME QueueInit PROVE Fifo!Init
    <3>1. Flow = <<>> /\ closed = FALSE /\ ended = FALSE
      BY <2>1 DEF QueueInit, Flow
    <3>2. Waiting = <<>>
      BY <3>1, WithoutEmpty DEF Waiting
    <3> QED
      BY <3>1, <3>2, WaitingIs DEF Fifo!Init
  <2> QED
    BY <2>1
<1>2. QInv /\ [QueueNext]_streamVars => [Fifo!Next]_Fifo!vars
  <2>1. ASSUME QInv, NEW p \in Producer, EmitEvent(p)
        PROVE  Fifo!Next \/ UNCHANGED Fifo!vars
    BY <2>1, EmitRefines DEF Fifo!Next
  <2>2. ASSUME QInv, Receive PROVE Fifo!Next \/ UNCHANGED Fifo!vars
    BY <2>2, ReceiveRefines DEF Fifo!Next
  <2>3. ASSUME QInv, Pop \/ Send
        PROVE  Fifo!Next \/ UNCHANGED Fifo!vars
    BY <2>3, PumpRefines
  <2> QED
    BY <2>1, <2>2, <2>3, EndsRefine DEF QueueNext
<1>3. QueueSpec => []QInv
  BY QueueInductive
<1> QED
  BY <1>1, <1>2, <1>3, PTL DEF QueueSpec, ImplementsFifo, Fifo!Spec
-----------------------------------------------------------------------------
(* dockerexec.Stream: a Stream that has returned has no scanner left. *)
ScannersDone == returned => \A s \in Source : scanner[s] # "scanning"
LInv == LineTypeOK /\ HandledInOrder /\ ScannersDone

(* What Append, Head and Tail do to the lines of a pipe. *)
LEMMA AppendLine ==
  ASSUME NEW S, NEW q \in Seq(S), NEW e \in S
  PROVE  /\ Append(q, e) \in Seq(S)
         /\ Len(Append(q, e)) = Len(q) + 1
         /\ \A i \in 1..Len(q) : Append(q, e)[i] = q[i]
         /\ Append(q, e)[Len(q) + 1] = e
  OBVIOUS

LEMMA TailLines ==
  ASSUME NEW S, NEW q \in Seq(S), q # <<>>
  PROVE  /\ Head(q) \in S /\ Head(q) = q[1] /\ Len(q) >= 1
         /\ Tail(q) \in Seq(S)
         /\ Len(Tail(q)) = Len(q) - 1
         /\ \A i \in 1..Len(q) - 1 : Tail(q)[i] = q[i + 1]
  OBVIOUS

(* The start of Stream. *)
LEMMA LineInitial == LineInit => LInv
<1> SUFFICES ASSUME LineInit PROVE LInv  OBVIOUS
<1>1. <<>> \in Seq(OutputLine) /\ Len(<<>>) = 0 /\ \A i \in DOMAIN <<>> : FALSE
  OBVIOUS
<1> DEFINE none == <<>>
<1>2. none \in Seq(OutputLine) /\ Len(none) = 0 /\ \A i \in DOMAIN none : FALSE
  BY <1>1
<1>3. pipe = [s \in Source |-> none] /\ handled = [s \in Source |-> none]
  BY DEF LineInit
<1> HIDE DEF none
<1>4. LineTypeOK
  <2>1. pipe \in [Source -> Seq(OutputLine)] /\ handled \in [Source -> Seq(OutputLine)]
    BY <1>2, <1>3
  <2>2. \A s \in Source : Len(pipe[s]) <= PipeCap /\ Len(handled[s]) <= MaxWritten
    BY <1>2, <1>3, PipeAssumption
  <2>3. /\ process \in {"up", "ended"} /\ written \in [Source -> 0..MaxWritten]
        /\ scanner \in [Source -> {"scanning", "done", "torn"}]
        /\ waited \in BOOLEAN /\ ctxDone \in BOOLEAN /\ returned \in BOOLEAN
    <3>1. 0 \in 0..MaxWritten  BY PipeAssumption
    <3>2. written \in [Source -> 0..MaxWritten]  BY <3>1 DEF LineInit
    <3>3. scanner \in [Source -> {"scanning", "done", "torn"}]  BY DEF LineInit
    <3> QED  BY <3>2, <3>3 DEF LineInit
  <2> QED  BY <2>1, <2>2, <2>3 DEF LineTypeOK
<1>5. HandledInOrder  BY <1>2, <1>3 DEF LineInit, HandledInOrder
<1> QED  BY <1>4, <1>5 DEF LineInit, LInv, ScannersDone

(* One line more in a pipe. *)
LEMMA WriteKeeps == ASSUME LInv, NEW s \in Source, Write(s) PROVE LInv'
<1> DEFINE q == pipe[s]
           lineNo == written[s] + 1
<1>1. PICK long \in BOOLEAN :
        pipe' = [pipe EXCEPT ![s] = Append(@, [seq |-> lineNo, long |-> long])]
  BY DEF Write
<1> DEFINE e == [seq |-> lineNo, long |-> long]
           r == Append(q, e)
<1>2. /\ q \in Seq(OutputLine) /\ Len(q) < PipeCap /\ written[s] \in 0..MaxWritten
      /\ written[s] < MaxWritten
  BY DEF LInv, LineTypeOK, Write
<1>3. lineNo \in 1..MaxWritten  BY <1>2, PipeAssumption
<1>4. e \in OutputLine  BY <1>3 DEF OutputLine
<1> HIDE DEF e
<1>5. /\ r \in Seq(OutputLine) /\ Len(r) = Len(q) + 1
      /\ \A i \in 1..Len(q) : r[i] = q[i]
      /\ r[Len(q) + 1] = e
  BY <1>2, <1>4, AppendLine
<1>6. e.seq = lineNo  BY DEF e
<1>7. pipe' = [pipe EXCEPT ![s] = r]  BY <1>1 DEF e
<1> HIDE DEF r
<1>8. LineTypeOK'
  <2>1. pipe' \in [Source -> Seq(OutputLine)]
    BY <1>5, <1>7 DEF LInv, LineTypeOK
  <2>2. \A t \in Source : Len(pipe'[t]) <= PipeCap
    BY <1>2, <1>5, <1>7, PipeAssumption DEF LInv, LineTypeOK
  <2>3. written' \in [Source -> 0..MaxWritten]
    BY <1>3, PipeAssumption DEF LInv, LineTypeOK, Write
  <2> QED  BY <2>1, <2>2, <2>3 DEF LInv, LineTypeOK, Write
<1>9. HandledInOrder'
  <2> SUFFICES ASSUME NEW t \in Source
               PROVE  (/\ Len(handled[t]) + Len(pipe[t]) = written[t]
                       /\ \A i \in DOMAIN handled[t] :
                            handled[t][i].seq = i /\ (handled[t][i].long => Cut(t, i))
                       /\ scanner[t] = "torn" => process = "ended" /\ (waited \/ ctxDone)
                       /\ \A i \in DOMAIN pipe[t] : pipe[t][i].seq = Len(handled[t]) + i)'
    BY DEF HandledInOrder
  <2>1. CASE t # s
    BY <2>1, <1>7 DEF LInv, LineTypeOK, HandledInOrder, Cut, Write
  <2>2. CASE t = s
    <3>1. pipe'[t] = r /\ written'[t] = lineNo /\ handled' = handled
      BY <2>2, <1>7 DEF LInv, LineTypeOK, Write
    <3>0. scanner' = scanner /\ process = "up" /\ scanner[t] # "torn"
      BY DEF LInv, HandledInOrder, Write
    <3>2. /\ Len(handled[t]) + Len(q) = written[s] /\ Len(handled[t]) \in Nat /\ Len(q) \in Nat
          /\ \A i \in DOMAIN handled[t] : handled[t][i].seq = i /\ ~handled[t][i].long
          /\ \A i \in 1..Len(q) : q[i].seq = Len(handled[t]) + i
      BY <2>2, <3>0 DEF LInv, LineTypeOK, HandledInOrder, Cut
    <3> DEFINE n == Len(handled[t])
               k == Len(q)
    <3>3. DOMAIN r = 1..k + 1 /\ Len(r) = k + 1
      BY <1>5
    <3>4. /\ n \in Nat /\ k \in Nat /\ n + k = written[s]
          /\ \A i \in 1..k : r[i].seq = n + i
          /\ r[k + 1].seq = lineNo
      BY <3>2, <1>5, <1>6
    <3>5. /\ \A i \in DOMAIN handled[t] : handled[t][i].seq = i /\ ~handled[t][i].long
          /\ handled'[t] = handled[t] /\ Len(handled[t]) = n
      BY <3>1, <3>2
    <3> HIDE DEF n, k
    <3>6. \A i \in 1..k + 1 : r[i].seq = n + i
      BY <3>4
    <3>7. n + (k + 1) = lineNo
      BY <3>4
    <3> HIDE DEF q, lineNo
    <3> QED  BY <3>0, <3>1, <3>3, <3>5, <3>6, <3>7
  <2> QED  BY <2>1, <2>2
<1>10. ScannersDone'  BY DEF LInv, ScannersDone, Write
<1> QED  BY <1>8, <1>9, <1>10 DEF LInv

(* One line handed over, whole or, if it is the last, cut. *)
LEMMA TakeKeeps ==
  ASSUME LInv, NEW s \in Source, scanner[s] = "scanning", pipe[s] # <<>>,
         handled' = [handled EXCEPT ![s] = Append(@, Head(pipe[s]))],
         pipe' = [pipe EXCEPT ![s] = Tail(@)],
         UNCHANGED <<process, written, waited, ctxDone, returned>>,
         \/ ~Head(pipe[s]).long /\ scanner' = scanner
         \/ /\ process = "ended" /\ (waited \/ ctxDone)
            /\ scanner' = [scanner EXCEPT ![s] = "torn"]
  PROVE  LInv'
<1> DEFINE q == pipe[s]
           h == handled[s]
           e == Head(q)
           r == Tail(q)
           g == Append(h, e)
<1>1. /\ q \in Seq(OutputLine) /\ q # <<>> /\ h \in Seq(OutputLine)
      /\ Len(q) <= PipeCap /\ written[s] \in 0..MaxWritten
  BY DEF LInv, LineTypeOK
<1>2. /\ Len(h) + Len(q) = written[s]
      /\ \A i \in 1..Len(h) : h[i].seq = i /\ ~h[i].long
      /\ \A i \in 1..Len(q) : q[i].seq = Len(h) + i
  <2>1. DOMAIN q = 1..Len(q) /\ DOMAIN h = 1..Len(h)  BY <1>1
  <2> QED  BY <2>1 DEF LInv, HandledInOrder, Cut
<1>3. /\ e \in OutputLine /\ e = q[1] /\ Len(q) >= 1
      /\ r \in Seq(OutputLine) /\ Len(r) = Len(q) - 1
      /\ \A i \in 1..Len(q) - 1 : r[i] = q[i + 1]
  BY <1>1, TailLines
<1>4. Len(q) \in Nat /\ Len(h) \in Nat  BY <1>1
<1>5. e.seq = Len(h) + 1  BY <1>2, <1>3, <1>4
<1>6. pipe' = [pipe EXCEPT ![s] = r] /\ handled' = [handled EXCEPT ![s] = g]
  BY DEF LInv, LineTypeOK
<1>C. ~e.long \/ scanner'[s] = "torn"
  BY DEF LInv, LineTypeOK
<1> HIDE DEF e, r
<1>7. /\ g \in Seq(OutputLine) /\ Len(g) = Len(h) + 1
      /\ \A i \in 1..Len(h) : g[i] = h[i]
      /\ g[Len(h) + 1] = e
  BY <1>1, <1>3, AppendLine
<1> HIDE DEF g
<1>A. /\ Len(g) = Len(h) + 1 /\ Len(r) = Len(q) - 1 /\ Len(h) + Len(q) = written[s]
      /\ written[s] \in 0..MaxWritten /\ Len(q) >= 1
  BY <1>1, <1>2, <1>3, <1>7
<1> HIDE DEF q, h
<1>B. Len(g) + Len(r) = written[s] /\ Len(g) <= MaxWritten
  BY <1>A, <1>4, PipeAssumption
<1> USE DEF q, h
<1>8. LineTypeOK'
  <2>1. pipe' \in [Source -> Seq(OutputLine)] /\ handled' \in [Source -> Seq(OutputLine)]
    BY <1>3, <1>6, <1>7 DEF LInv, LineTypeOK
  <2>2. \A t \in Source : Len(pipe'[t]) <= PipeCap
    BY <1>1, <1>3, <1>4, <1>6, PipeAssumption DEF LInv, LineTypeOK
  <2>3. Len(g) <= MaxWritten
    BY <1>B
  <2>4. \A t \in Source : Len(handled'[t]) <= MaxWritten
    BY <2>3, <1>6 DEF LInv, LineTypeOK
  <2>5. scanner' \in [Source -> {"scanning", "done", "torn"}]
    BY DEF LInv, LineTypeOK
  <2> QED  BY <2>1, <2>2, <2>4, <2>5 DEF LInv, LineTypeOK
<1>9. HandledInOrder'
  <2> SUFFICES ASSUME NEW t \in Source
               PROVE  (/\ Len(handled[t]) + Len(pipe[t]) = written[t]
                       /\ \A i \in DOMAIN handled[t] :
                            handled[t][i].seq = i /\ (handled[t][i].long => Cut(t, i))
                       /\ scanner[t] = "torn" => process = "ended" /\ (waited \/ ctxDone)
                       /\ \A i \in DOMAIN pipe[t] : pipe[t][i].seq = Len(handled[t]) + i)'
    BY DEF HandledInOrder
  <2>1. CASE t # s
    BY <2>1, <1>6 DEF LInv, LineTypeOK, HandledInOrder, Cut
  <2>2. CASE t = s
    <3>1. pipe'[t] = r /\ handled'[t] = g /\ written' = written
      BY <2>2, <1>6 DEF LInv, LineTypeOK
    <3>2. DOMAIN r = 1..Len(q) - 1 /\ DOMAIN g = 1..Len(h) + 1
      BY <1>3, <1>7
    <3>3. Len(g) + Len(r) = written[t]
      BY <2>2, <1>B
    <3>4. ASSUME NEW i \in 1..Len(h) + 1
          PROVE  g[i].seq = i /\ (g[i].long => scanner'[t] = "torn" /\ i = Len(g))
      <4>1. CASE i = Len(h) + 1  BY <4>1, <2>2, <1>5, <1>7, <1>C
      <4>2. CASE i \in 1..Len(h)  BY <4>2, <1>2, <1>7
      <4> QED  BY <4>1, <4>2, <1>4
    <3>5. ASSUME NEW i \in 1..Len(q) - 1 PROVE r[i].seq = Len(g) + i
      <4>1. r[i] = q[i + 1] /\ i + 1 \in 1..Len(q)  BY <1>3, <1>4
      <4> QED  BY <4>1, <1>2, <1>4, <1>7
    <3>6. (scanner[t] = "torn" => process = "ended" /\ (waited \/ ctxDone))'
      BY <2>2 DEF LInv, LineTypeOK
    <3> QED  BY <3>1, <3>2, <3>3, <3>4, <3>5, <3>6 DEF Cut
  <2> QED  BY <2>1, <2>2
<1>10. ScannersDone'  BY DEF LInv, ScannersDone
<1> QED  BY <1>8, <1>9, <1>10 DEF LInv

LEMMA ScanKeeps == ASSUME LInv, NEW s \in Source, Scan(s) \/ ScanTorn(s) PROVE LInv'
<1>1. CASE Scan(s)  BY <1>1, TakeKeeps DEF Scan
<1>2. CASE ScanTorn(s)  BY <1>2, TakeKeeps DEF ScanTorn
<1> QED  BY <1>1, <1>2

(* Every step of the process, of the scanners and of Stream. *)
LEMMA LineStep == LInv /\ [LineNext]_lineVars => LInv'
<1> SUFFICES ASSUME LInv, [LineNext]_lineVars PROVE LInv'  OBVIOUS
<1>1. ASSUME NEW s \in Source, Write(s) PROVE LInv'  BY <1>1, WriteKeeps
<1>2. ASSUME NEW s \in Source, Scan(s) \/ ScanTorn(s) PROVE LInv'  BY <1>2, ScanKeeps
<1> USE DEF LInv, LineTypeOK, HandledInOrder, ScannersDone, Cut
<1>3. CASE ProcessEnds  BY <1>3 DEF ProcessEnds
<1>4. CASE EndContext  BY <1>4 DEF EndContext
<1>5. CASE Kill  BY <1>5 DEF Kill
<1>6. ASSUME NEW s \in Source, ScanEnds(s) PROVE LInv'  BY <1>6 DEF ScanEnds
<1>7. CASE Wait  BY <1>7 DEF Wait
<1>8. CASE Return  BY <1>8 DEF Return
<1>9. CASE UNCHANGED lineVars  BY <1>9 DEF lineVars
<1> QED  BY <1>1, <1>2, <1>3, <1>4, <1>5, <1>6, <1>7, <1>8, <1>9 DEF LineNext

(* dockerexec.Stream: the invariant, inductive. *)
THEOREM LinesInductive == LineSpec => []LInv
<1>1. LineInit => LInv  BY LineInitial
<1>2. LInv /\ [LineNext]_lineVars => LInv'  BY LineStep
<1> QED  BY <1>1, <1>2, PTL DEF LineSpec

(* dockerexec.Stream: the callback is given what the process wrote to a     *)
(* pipe, in order and without a gap, whole but for a last one cut short,    *)
(* however the process, the scanners, a kill and cmd.Wait interleave, for   *)
(* any number of lines and any size of the pipes.                           *)
THEOREM LinesCorrect == LineSpec => []LineInv
<1>1. LInv => LineInv  BY DEF LInv, LineInv
<1> QED  BY <1>1, LinesInductive, PTL

(* dockerexec.Stream: no callback runs after it has returned. *)
THEOREM QuietReturn == LineSpec => QuietAfterReturn
<1>1. LInv /\ [LineNext]_lineVars => [returned => UNCHANGED handled]_lineVars
  <2> SUFFICES ASSUME LInv, LineNext, returned PROVE UNCHANGED handled
    BY DEF lineVars
  <2>1. \A s \in Source : scanner[s] # "scanning"  BY DEF LInv, ScannersDone
  <2> QED
    BY <2>1 DEF LineNext, Write, ProcessEnds, EndContext, Kill, Scan, ScanTorn, ScanEnds, Wait,
       Return
<1> QED  BY <1>1, LinesInductive, PTL DEF LineSpec, QuietAfterReturn
=============================================================================
