------------------------- MODULE MCMembershipRequests -------------------------
(* Membership on one instance, with every kind of request one at a time, or  *)
(* with those that take and leave seats overlapping and links that do not    *)
(* expire meanwhile.                                                        *)
EXTENDS MCMembership, MembershipRequests

SeatRequest(q) == q.op \in SeatOperations \cup {"none"} /\ q.role = "USER"

MCNext ==
  /\ RequestsNext
  /\ ~alone => /\ \A r \in Requests : SeatRequest(request'[r])
               /\ \A i \in Invitations : ~invitation'[i].expired

MCSpec == RequestsInit /\ [][MCNext]_<<vars, alone>>
=============================================================================
