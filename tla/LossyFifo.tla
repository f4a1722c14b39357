----------------------------- MODULE LossyFifo -----------------------------
(***************************************************************************)
(* What the consumer of a pipeline's event stream may rely on, without     *)
(* queue, pump, markers or channel: events arrive in the order in which    *)
(* they were emitted; only child output is ever lost, and only while it    *)
(* waits; and the stream ends, after its last event.                       *)
(***************************************************************************)
EXTENDS Sequences, Tally

CONSTANTS Event, Droppable

VARIABLES
  pending, \* emitted and not yet received
  open,    \* further events are accepted
  ended    \* the consumer has seen the end of the stream

vars == <<pending, open, ended>>

Init ==
  /\ pending = <<>>
  /\ open = TRUE
  /\ ended = FALSE

Emit ==
  /\ open
  /\ \E e \in Event, lost \in SUBSET (Droppable \cap {pending[i] : i \in DOMAIN pending}) :
       pending' = Append(Without(pending, lost), e)
  /\ UNCHANGED <<open, ended>>

Receive ==
  /\ pending # <<>>
  /\ pending' = Tail(pending)
  /\ UNCHANGED <<open, ended>>

Shut ==
  /\ open
  /\ open' = FALSE
  /\ UNCHANGED <<pending, ended>>

End ==
  /\ ~open
  /\ pending = <<>>
  /\ ~ended
  /\ ended' = TRUE
  /\ UNCHANGED <<pending, open>>

Next == Emit \/ Receive \/ Shut \/ End

(* Only what is emitted arrives, in order, and all of it but child output. *)
Spec == Init /\ [][Next]_vars

(* The consumer's range ends. *)
Ends == <>ended
=============================================================================
