---------------------------- MODULE MCLineStream ----------------------------
(* Three lines per stream, through pipes of one line. *)
EXTENDS LineStream
-----------------------------------------------------------------------------
(* Stream has returned. *)
MCNext == LineNext \/ (returned /\ UNCHANGED lineVars)
MCSpec == LineInit /\ [][MCNext]_lineVars /\ LineFairness
=============================================================================
