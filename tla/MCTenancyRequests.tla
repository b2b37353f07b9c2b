-------------------------- MODULE MCTenancyRequests --------------------------
(* TenancyRequests on one instance: with "grants", where requests overlap,   *)
(* administrators' grants only.                                             *)
EXTENDS TenancyRequests

CONSTANTS u1, u2, u3, p1, e1, r1, r2

OneProject == [e \in {e1} |-> p1]

MCNext ==
  /\ TenancyNext
  /\ topic = "grants" => \A r \in Requests : request'[r].grant # Nothing => request'[r].grant.role = "ADMIN"

MCSpec ==
  /\ TenancyInit /\ [][MCNext]_everything
  /\ \A r \in Requests : SF_everything(AdvanceOne(r))
=============================================================================
