----------------------------- MODULE Admission ------------------------------
(***************************************************************************)
(* What invitation links promise, with no requests, rows or locks: a link  *)
(* admits one person, once, and admits nobody after it was withdrawn.      *)
(* Membership implements it.                                               *)
(***************************************************************************)
CONSTANTS Users, Nobody, Invitations

VARIABLES
  issued,     \* the links that were handed out
  withdrawn,  \* the links an administrator took back
  admitted    \* whom a link let in

vars == <<issued, withdrawn, admitted>>

Init ==
  /\ issued = {}
  /\ withdrawn = {}
  /\ admitted = [i \in Invitations |-> Nobody]

Issue(i) ==
  /\ i \notin issued
  /\ issued' = issued \cup {i}
  /\ UNCHANGED <<withdrawn, admitted>>

(* A link may also be withdrawn after its use; that takes nothing back. *)
Withdraw(i) ==
  /\ i \in issued
  /\ withdrawn' = withdrawn \cup {i}
  /\ UNCHANGED <<issued, admitted>>

Admit(i, u) ==
  /\ i \in issued \ withdrawn
  /\ admitted[i] = Nobody
  /\ admitted' = [admitted EXCEPT ![i] = u]
  /\ UNCHANGED <<issued, withdrawn>>

(* The organization is gone, and its links with it. *)
Close ==
  /\ issued' = {}
  /\ withdrawn' = {}
  /\ admitted' = [i \in Invitations |-> Nobody]

Next ==
  \/ Close
  \/ \E i \in Invitations : Issue(i) \/ Withdraw(i) \/ \E u \in Users : Admit(i, u)

Spec == Init /\ [][Next]_vars
=============================================================================
