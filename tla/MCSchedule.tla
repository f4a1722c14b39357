----------------------------- MODULE MCSchedule -----------------------------
(* Four units for a linux pool of two benches, one with a capacity of two   *)
(* and one that declares 0, and one unit for windows, which has no bench.   *)
EXTENDS Schedule

CONSTANTS l1, l2

MCOS == {"linux", "windows"}
MCBench == {l1, l2}
MCUnitOS == <<"linux", "windows", "linux", "linux", "linux">>
MCBenchesByOS == [o \in MCOS |-> IF o = "linux" THEN {l1, l2} ELSE {}]
MCCapacity == [b \in MCBench |-> IF b = l1 THEN 2 ELSE 0]
-----------------------------------------------------------------------------
(* The call has returned: nothing more can happen, which is no deadlock. *)
MCNext == Next \/ (returned /\ cancelled /\ UNCHANGED vars)
MCSpec == Init /\ [][MCNext]_vars /\ Fairness
=============================================================================
