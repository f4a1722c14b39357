------------------------------- MODULE Tally -------------------------------
(***************************************************************************)
(* A sequence weighed and a sequence thinned: what the event queue's       *)
(* accounts and the stream it promises are stated with.                    *)
(***************************************************************************)
EXTENDS Integers, Sequences

(* The sum of the weights of the members of s. *)
Total(weight, s) ==
  LET sum[i \in 0..Len(s)] == IF i = 0 THEN 0 ELSE sum[i - 1] + weight[s[i]]
  IN  sum[Len(s)]

(* s without the members that are in gone, in the same order. *)
Without(s, gone) ==
  LET left[i \in 0..Len(s)] ==
        IF i = 0 THEN <<>> ELSE IF s[i] \in gone THEN left[i - 1] ELSE Append(left[i - 1], s[i])
  IN  left[Len(s)]
=============================================================================
