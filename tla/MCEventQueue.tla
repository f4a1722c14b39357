---------------------------- MODULE MCEventQueue ----------------------------
(* Two producers of three events each against a high-water mark of two and  *)
(* a channel of one: overflow happens with the marker in the queue, in the  *)
(* pump's hand and already delivered.                                       *)
EXTENDS EventQueue
-----------------------------------------------------------------------------
(* The consumer has seen the end and the producers are done. *)
MCNext == QueueNext \/ (ended /\ (\A p \in Producer : emitted[p] = MaxEmit) /\ UNCHANGED streamVars)
MCSpec == QueueInit /\ [][MCNext]_streamVars /\ QueueFairness
=============================================================================
