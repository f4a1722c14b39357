----------------------------- MODULE MCWatchdog -----------------------------
(* A file with a test and its subtest, a file with one test, a helper that  *)
(* dies of a SIGTERM and one that does not.                                 *)
EXTENDS Watchdog
CONSTANTS t1, t2, t3, fa, fb, h1, h2
MCTest == {t1, t2, t3}
MCFile == {fa, fb}
MCFileOf == [t \in MCTest |-> IF t = t3 THEN fb ELSE fa]
MCParent == [t \in MCTest |-> IF t = t2 THEN t1 ELSE NoTest]
MCHelper == {h1, h2}
MCStubborn == {h2}
-----------------------------------------------------------------------------
(* The run has its report and the container ends. *)
MCNext == Next \/ (report # None /\ UNCHANGED vars)
MCSpec == Init /\ [][MCNext]_vars /\ Fairness
=============================================================================
