----------------------------- MODULE MCOverrides -----------------------------
(* Overrides on small instances. *)
EXTENDS Overrides

CONSTANTS o1, o2, o3, o4, r1, r2
=============================================================================
