---------------------------- MODULE MCVariantSets ----------------------------
(* VariantSets on small instances. *)
EXTENDS VariantSets, TLC

CONSTANTS f1, f2, v1, v2, v3, k1, r1, r2

Weights == {-1, 0, 1, 2}

Sent(id, share, cut, control) == [id |-> id, share |-> share, cut |-> cut, control |-> control]

(* One item, or two of which the first has the control and all the weight,  *)
(* so that a PUT moves both; one set with two controls, refused; one with a *)
(* negative weight; and one of two halves, of which nothing is stored.      *)
ShortSets ==
  LET Ids == Variants \cup {New}
      Pair(first, second, cut, two) == <<Sent(New, first, cut, TRUE), Sent(New, second, cut, two)>>
  IN
  {<<Sent(id, Whole, 0, FALSE)>> : id \in Ids} \cup
  {<<Sent(id, Whole, 0, TRUE), Sent(other, 0, 0, FALSE)>> : id \in Ids, other \in Ids} \cup
  {Pair(Whole, 0, 0, TRUE), Pair(Whole + 1, -1, 0, FALSE), Pair(0, 0, 1, FALSE)}

Symmetry == Permutations(Variants) \cup Permutations(Requests)
=============================================================================
