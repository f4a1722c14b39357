---------------------------- MODULE ScheduleAbs ----------------------------
(***************************************************************************)
(* What schedule.Run promises, without workers, channels or a results      *)
(* slice: each unit is answered once, a unit whose work has begun with what *)
(* work returns, an answer never changes, and the call is done when every  *)
(* unit has its answer.                                                    *)
(***************************************************************************)
CONSTANTS Unit, Value

VARIABLES answer, done

vars == <<answer, done>>

Init ==
  /\ answer = [u \in Unit |-> "pending"]
  /\ done = FALSE

Begin(u) ==
  /\ ~done
  /\ answer[u] = "pending"
  /\ answer' = [answer EXCEPT ![u] = "begun"]
  /\ UNCHANGED done

Answer(u) ==
  /\ ~done
  /\ \E v \in Value :
       /\ answer[u] = IF v = "worked" THEN "begun" ELSE "pending"
       /\ answer' = [answer EXCEPT ![u] = v]
  /\ UNCHANGED done

Finish ==
  /\ ~done
  /\ \A u \in Unit : answer[u] \in Value
  /\ done' = TRUE
  /\ UNCHANGED answer

Next == Finish \/ \E u \in Unit : Begin(u) \/ Answer(u)

Spec == Init /\ [][Next]_vars
=============================================================================
