---------------------------- MODULE MCLiveUpdates ----------------------------
(* LiveUpdates on small instances. *)
EXTENDS LiveUpdates

CONSTANTS s1, s2, w1, w2
=============================================================================
