------------------------------ MODULE LegStream ------------------------------
(***************************************************************************)
(* What the consumers of a run's events, the renderer first, rely on: the  *)
(* eight legs appear in the order of their runtime, each start is followed *)
(* by exactly one end of the same leg, anything else lies between the two, *)
(* nothing follows a failure, and the stream closes with no leg open.      *)
(***************************************************************************)
EXTENDS Integers, Sequences

CONSTANT Legs \* the legs in order

VARIABLES
  last,  \* the last event, <<kind, leg>>, or Nothing
  closed \* the channel is closed

Nothing == <<"nothing", "none">>
Ends == {"success", "skipped", "failure"}

Init == last = Nothing /\ closed = FALSE

Open == last[1] \in {"start", "inner"}

Start ==
  /\ \/ last = Nothing /\ last' = <<"start", Legs[1]>>
     \/ /\ last[1] \in {"success", "skipped"}
        /\ \E i \in 1..(Len(Legs) - 1) : last[2] = Legs[i] /\ last' = <<"start", Legs[i + 1]>>
  /\ ~closed /\ UNCHANGED closed

(* A line of output, a test's live result, a sign of life. *)
Inner == Open /\ last' = <<"inner", last[2]>> /\ UNCHANGED closed

End ==
  /\ Open
  /\ \E kind \in Ends : last' = <<kind, last[2]>>
  /\ UNCHANGED closed

Close ==
  /\ ~Open /\ last # Nothing
  /\ closed' = TRUE
  /\ UNCHANGED last

(* The process dies, and the consumer with it. *)
Die == ~closed /\ closed' = TRUE /\ last' = Nothing

Next == Start \/ Inner \/ End \/ Close \/ Die

Spec == Init /\ [][Next]_<<last, closed>>
=============================================================================
