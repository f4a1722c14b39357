----------------------------- MODULE MCAsyncRun -----------------------------
(* Two waits and one prune on one run. *)
EXTENDS AsyncRun

CONSTANTS w1, w2, p1
MCWaiter == {w1, w2}
MCPruner == {p1}
-----------------------------------------------------------------------------
(* Every wait has ended: nothing has to happen any more.            *)
MCNext == Next \/ (late /\ (\A w \in Waiter : At(w, "ended")) /\ UNCHANGED vars)
MCSpec == Init /\ [][MCNext]_vars /\ Fairness
=============================================================================
