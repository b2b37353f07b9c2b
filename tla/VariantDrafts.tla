---------------------------- MODULE VariantDrafts ----------------------------
(***************************************************************************)
(* The rows of a variant editor, which the rules page opens on a flag's    *)
(* variants and the flags page on a new flag's: the control's weight is    *)
(* never typed, it is what the other rows leave of the whole.              *)
(***************************************************************************)
EXTENDS Integers, Sequences, FiniteSetsExt

CONSTANT Whole   \* 100 in the code

ASSUME WholeAssumption == Whole \in Nat \ {0}

(* mutant: a typed weight is not cut from above *)
ClampBelow(n, most) == IF n < 0 THEN 0 ELSE n

Clamp(n, most) == IF n < 0 THEN 0 ELSE IF n > most THEN most ELSE n

SharesOf(rows, indices) == SumFunctionOnSet([i \in DOMAIN rows |-> rows[i].share], indices)

Controls(rows) == {i \in DOMAIN rows : rows[i].is_control}

(* mutant: the control is taken to be the first row *)
recalcFirstRow(rows) ==
  IF rows = <<>> THEN rows
  ELSE [rows EXCEPT ![1].share = Clamp(Whole - SharesOf(rows, DOMAIN rows \ {1}), Whole)]

(* The first control takes what the other rows leave; a set without one is  *)
(* left as it is.                                                           *)
recalcControlPercentage(rows) ==
  IF Controls(rows) = {} THEN rows
  ELSE LET control == Min(Controls(rows)) IN
       [rows EXCEPT ![control].share = Clamp(Whole - SharesOf(rows, DOMAIN rows \ {control}), Whole)]

(* What the other rows without control leave for this one. *)
getNonControlHeadroom(rows, index) ==
  LET others == SharesOf(rows, {i \in DOMAIN rows \ {index} : ~rows[i].is_control}) IN
  IF Whole - others < 0 THEN 0 ELSE Whole - others

AddRow(rows, id) ==
  recalcControlPercentage(Append(rows, [id |-> id, name |-> "", share |-> 0, is_control |-> FALSE]))

(* The first row becomes the control of a set that has lost its own. *)
RemoveRow(rows, index) ==
  LET next == SubSeq(rows, 1, index - 1) \o SubSeq(rows, index + 1, Len(rows)) IN
  recalcControlPercentage(
    IF next # <<>> /\ Controls(next) = {} THEN [next EXCEPT ![1].is_control = TRUE] ELSE next)

RenameRow(rows, index, name) == recalcControlPercentage([rows EXCEPT ![index].name = name])

(* A typed weight is cut to what is left for it. *)
WeighRow(rows, index, share) ==
  recalcControlPercentage(
    [rows EXCEPT ![index].share = Clamp(share, getNonControlHeadroom(rows, index))])

(* What the editor asks of a set before it may be saved, *)
NamesGiven(rows) == \A i \in DOMAIN rows : rows[i].name # ""

(* and what the server does (validate_variant_set): a lone row becomes the  *)
(* control, names are told apart, and not asked for.                        *)
ValidSet(rows) ==
  /\ rows # <<>> /\ SharesOf(rows, DOMAIN rows) = Whole
  /\ Len(rows) = 1 \/ Cardinality(Controls(rows)) = 1
  /\ \A i, j \in DOMAIN rows : rows[i].name = rows[j].name => i = j
=============================================================================
