--------------------------- MODULE TenancyRequests ---------------------------
(***************************************************************************)
(* Overlapping requests of the tenancy API: those about members and        *)
(* invitations (Membership) and those about grants (Grants), side by side  *)
(* on the same tables.  topic says which a behaviour is about; with        *)
(* "roles", the requests about grants come one at a time.                  *)
(***************************************************************************)
EXTENDS Membership

CONSTANTS
  Holders, Founder,                \* of the behaviours about grants
  Projects, Environments, ParentOf,
  Nothing,
  GivenRoles, JoinRoles,
  MaxGrants

VARIABLES topic, grant, stray

Access == INSTANCE Grants WITH Users <- Holders

ASSUME AccessAssumption == Access!GrantsAssumption

others == <<organization, invitation, revived>>

TenancyInit ==
  \/ /\ topic = "members" /\ Init
     /\ grant = [g \in {} |-> Nothing] /\ stray = {}
  \/ /\ topic \in {"grants", "roles"} /\ Access!Init
     /\ organization = "none" /\ invitation = [i \in Invitations |-> NoInvitation] /\ revived = {}

Busy(r) == request[r].pc # "idle"
GrantsOneByOne == \A r, q \in Requests : Busy(r) /\ Busy(q) => r = q

TenancyNext ==
  \/ topic = "members" /\ Next /\ UNCHANGED <<topic, grant, stray>>
  \/ /\ topic # "members" /\ Access!Next /\ UNCHANGED <<topic, others>>
     /\ topic = "roles" => GrantsOneByOne'

AdvanceOne(r) ==
  \/ topic = "members" /\ Advance(r) /\ UNCHANGED <<topic, grant, stray>>
  \/ topic # "members" /\ Access!Advance(r) /\ UNCHANGED <<topic, others>>

everything == <<vars, topic, grant, stray>>

TenancySpec == TenancyInit /\ [][TenancyNext]_everything

(* Workers run, and the database grants a lock to whoever waits for it.     *)
FairTenancySpec == TenancySpec /\ \A r \in Requests : SF_everything(AdvanceOne(r))

-----------------------------------------------------------------------------
(* A grant outlives its holder's membership only where it was written while  *)
(* the holder was being removed, and a removal takes the grants of somebody  *)
(* who leaves with them.                                                    *)
GrantsFollow == [][topic # "members" => Access!FollowMembers]_<<membership, grant>>

(* Both ways of asking what a user may do agree, orphans included. *)
AccessAgrees == topic # "members" => Access!ScopingAgrees

(* No set of waiting requests blocks itself: a request that has begun is     *)
(* answered.                                                                *)
RequestsAnswered == \A r \in Requests : Busy(r) ~> ~Busy(r)
=============================================================================
