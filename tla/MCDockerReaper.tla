--------------------------- MODULE MCDockerReaper ---------------------------
(* A pipeline run and a dispatch of one branch, and `gsd-test sweep` for    *)
(* another branch, called as often as one likes.                            *)
EXTENDS DockerReaper

CONSTANTS p, d, s, fix, other
MCEngine == {p, d, s}
MCKind == [e \in MCEngine |-> CASE e = p -> "pipeline" [] e = d -> "dispatch" [] e = s -> "sweep"]
MCBranch == [e \in MCEngine |-> IF e = s THEN other ELSE fix]
=============================================================================
