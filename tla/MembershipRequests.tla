-------------------------- MODULE MembershipRequests --------------------------
(***************************************************************************)
(* Membership when its requests come one at a time, and when they overlap. *)
(* alone says which; it never changes.                                     *)
(***************************************************************************)
EXTENDS Membership

VARIABLE alone   \* requests come one at a time

OneAtATime == \A r, q \in Requests : request[r] # Idle /\ request[q] # Idle => r = q

RequestsInit == Init /\ alone \in BOOLEAN

RequestsNext == Next /\ UNCHANGED alone /\ (alone => OneAtATime')

RequestsSpec == RequestsInit /\ [][RequestsNext]_<<vars, alone>>

-----------------------------------------------------------------------------
(* The invariant the proofs are by: what a request read stays true until it *)
(* writes, because nobody else is writing.                                  *)

(* The instance a role change or a removal loaded is the row as it is, and  *)
(* a count that let it pass still leaves another administrator.             *)
LoadedRowCurrent(q) ==
  /\ q.row \in DOMAIN membership
  /\ q.pc \in {"loaded", "allowed"} => q.seen = membership[q.row]
  /\ q.pc = "counted" /\ membership[q.row] = "ADMIN" /\ (q.op = "update" => q.role # "ADMIN")
       => Admins # {q.row}

ReadsStand(q) ==
  /\ q.op \in {"update", "remove"} => LoadedRowCurrent(q)
  /\ q.op = "revoke" => invitation[q.inv].accepted_by = Nobody
  /\ q.op = "accept" /\ q.pc = "seated" => ~IsMember(q.actor)
  /\ q.op = "delete" /\ q.pc = "counted" => Others(q.actor) = {}

AloneInv ==
  alone =>
    /\ OneAtATime
    /\ organization = "none" => \A r \in Requests : request[r] = Idle
    /\ organization # "live" => DOMAIN membership = {}
    /\ revived = {}
    /\ RevokedOrAccepted
    /\ AdminInvariant
    /\ \A r \in Requests : ReadsStand(request[r])

-----------------------------------------------------------------------------
(* What holds while requests come one at a time, and is broken when they     *)
(* overlap.                                                                 *)

(* An organization that exists has an administrator. *)
AdminAlone == alone => AdminInvariant

(* No row is above the plan's ceiling. *)
SeatLimitAlone == alone => SeatLimit

(* An invitation is revoked or accepted, not both. *)
RevokedOrAcceptedAlone == alone => RevokedOrAccepted

(* Rows come from acceptances. *)
RowsAlone == [][alone => RowFromAcceptance]_vars

(* A deletion takes nobody but the deleter. *)
DeletionAlone == [][alone => SparesOthers]_vars
=============================================================================
