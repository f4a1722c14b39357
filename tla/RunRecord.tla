----------------------------- MODULE RunRecord -----------------------------
(***************************************************************************)
(* What the state file of an asynchronous run promises to whoever reads    *)
(* it, without processes: a run is recorded once, gets its result once and *)
(* keeps it until it is forgotten for good.  A run without a result is     *)
(* lost only to somebody who could not read its record; its writer may     *)
(* still bring it back.                                                    *)
(***************************************************************************)
CONSTANTS Result, None

VARIABLES
  phase,   \* "none", "running", "done", "lost" (a writer is left) or "gone"
  result,
  unread   \* somebody could not read the record of a running run

vars == <<phase, result, unread>>

Init == phase = "none" /\ result = None /\ unread = FALSE

Submit ==
  /\ phase = "none"
  /\ phase' = "running"
  /\ UNCHANGED <<result, unread>>

Finish ==
  /\ phase \in {"running", "lost"}
  /\ phase' = "done"
  /\ result' \in Result
  /\ UNCHANGED unread

Forget ==
  /\ phase = "done"
  /\ phase' = "gone"
  /\ result' = None
  /\ UNCHANGED unread

Misread ==
  /\ phase = "running"
  /\ unread' = TRUE
  /\ UNCHANGED <<phase, result>>

Lose ==
  /\ unread
  /\ phase = "running"
  /\ phase' \in {"lost", "gone"}
  /\ UNCHANGED <<result, unread>>

(* A lost run's writer saves its progress again, or will write no more. *)
Rewrite ==
  /\ phase = "lost"
  /\ phase' \in {"running", "gone"}
  /\ UNCHANGED <<result, unread>>

Next == Submit \/ Finish \/ Forget \/ Misread \/ Lose \/ Rewrite

Spec == Init /\ [][Next]_vars
=============================================================================
