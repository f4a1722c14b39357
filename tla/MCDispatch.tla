---------------------------- MODULE MCDispatch ----------------------------
(* `gsd-test run` without an estimate and `submit --execute` of a branch    *)
(* merged into its base, with one; or two times `gsd-test run`.             *)
EXTENDS Dispatch

CONSTANTS a, b, fixA, fixB
MCRun == {a, b}
MCEstimate == [r \in MCRun |-> IF r = a THEN 0 ELSE 1]
MCMerged == [r \in MCRun |-> r = b]
MCBranch == [r \in MCRun |-> IF r = a THEN fixA ELSE fixB]
MCBothOne == [r \in MCRun |-> 1]
MCNoneMerged == [r \in MCRun |-> FALSE]
=============================================================================
