---------------------------- MODULE MCEvaluation ----------------------------
(* Evaluation on small instances. *)
EXTENDS Evaluation, TLC

CONSTANTS k1, k2

(* Two sizes of a split, and two conditions that ask for the attribute: one *)
(* as the README documents it, one as the dashboard stores it.              *)
SomeConditions ==
  {[operator |-> "EQUALS", value |-> 1, wrapped |-> w] : w \in BOOLEAN} \cup
  {[operator |-> "PERCENTAGE_SPLIT", value |-> n, wrapped |-> TRUE] : n \in {0, 1}}

SomeWeights == {-1, 0, 1, 2, 3}

(* Rules have two different conditions between them.  One rule at most      *)
(* comes with a flag that is off or forced, and with a table that has a     *)
(* negative or an empty weight.                                             *)
Bound ==
  /\ Cardinality(UNION {rule[k].conditions : k \in DOMAIN rule}) <= 2
  /\ Cardinality(DOMAIN rule) > 1 =>
       /\ flag.is_enabled /\ forced = NotForced
       /\ \A v \in DOMAIN variant : variant[v].weight \in {1, 2}

MCSpec == Init /\ [][Next /\ Bound']_vars

(* Rule ids order nothing.  Those of variants do. *)
Symmetry == Permutations(Rules)
=============================================================================
