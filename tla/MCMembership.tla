---------------------------- MODULE MCMembership ----------------------------
(* Membership on small instances. *)
EXTENDS Membership, TLC

CONSTANTS u1, u2, u3, u4, i1, i2, i3, r1, r2

(* Users, invitations and workers are interchangeable; the founder is any   *)
(* user.  Not used where a run checks liveness.                             *)
Symmetry ==
  Permutations(Users) \cup Permutations(Invitations) \cup Permutations(Requests)

SeatOperations == {"update", "remove", "invite", "accept"}
LastAdmin      == {"update", "invite", "accept"}
=============================================================================
