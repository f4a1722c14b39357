----------------------------- MODULE MCPipeline -----------------------------
(* A results file of at most three lines. *)
EXTENDS Pipeline
-----------------------------------------------------------------------------
(* RunAll has returned, and so has the daemon's answer to its request. *)
MCNext == Next \/ (at = "returned" /\ request # "sent" /\ UNCHANGED vars)
MCSpec == Init /\ [][MCNext]_vars /\ Fairness
=============================================================================
