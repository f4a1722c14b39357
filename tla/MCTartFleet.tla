----------------------------- MODULE MCTartFleet -----------------------------
(* A run and `gsd-test sweep` for another branch, called as often as one     *)
(* likes; or two such sweeps, one per branch, and what the run has left.     *)
EXTENDS TartFleet

CONSTANTS p, s, t, fix, other
MCEngine == {p, s, t}
MCKind == [e \in MCEngine |-> IF e = p THEN "run" ELSE "sweep"]
MCBranch == [e \in MCEngine |-> IF e = s THEN other ELSE fix]
-----------------------------------------------------------------------------
MCInit == Init /\ pc[s] = "idle" /\ (pc[p] = "dead") # (pc[t] = "dead")
MCSpec == MCInit /\ [][Next]_vars /\ Fairness
=============================================================================
