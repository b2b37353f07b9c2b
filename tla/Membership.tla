----------------------------- MODULE Membership -----------------------------
(***************************************************************************)
(* The members of one organization: membership rows and their roles,       *)
(* invitation links, seats, the last-admin guard and the deletion of the   *)
(* organization (tenancy/api/views.py, tenancy/models.py).                 *)
(*                                                                         *)
(* An HTTP request is a process that takes one step per database           *)
(* statement whose result it uses later: it loads a row, checks a          *)
(* permission, opens a transaction, counts, writes.  Between two of its    *)
(* steps every other request may take its own, except where a lock or the  *)
(* database's own isolation forbids it:                                    *)
(*                                                                         *)
(*  - "postgresql" (READ COMMITTED): select_for_update().get() locks the   *)
(*    row until the transaction ends.  select_for_update().count() locks   *)
(*    nothing, because Django drops FOR UPDATE from an aggregate query.    *)
(*  - "sqlite": row locks do not exist, but a transaction that reads and   *)
(*    then writes cannot commit across another writer, so an atomic block  *)
(*    runs alone.                                                          *)
(***************************************************************************)
EXTENDS Capabilities, FiniteSets

CONSTANTS
  Users,        \* people with an account
  Nobody,       \* the null of a user column
  Invitations,  \* identifiers invitation rows may take
  Founding,     \* the origin of the founder's row, which no invitation made
  Requests,     \* the server's workers: each serves one request at a time
  Operations,   \* the kinds of requests clients send
  OfferedRoles, \* the roles those requests ask for
  OrgPlan,      \* the organization's plan
  Database      \* the backend of config/settings.py

AllOperations == {"update", "remove", "invite", "revoke", "accept", "delete"}

ASSUME MembershipAssumption ==
  /\ IsFiniteSet(Users) /\ Nobody \notin Users
  /\ IsFiniteSet(Invitations) /\ Founding \notin Invitations
  /\ Operations \subseteq AllOperations
  /\ OfferedRoles \subseteq OrganizationRole
  /\ OrgPlan \in Plan
  /\ Database \in {"postgresql", "sqlite"}

VARIABLES
  organization,  \* "none" before it is created, then "live", then "deleted"
  membership,    \* the rows of OrganizationMembership: row id -> role
  invitation,    \* the rows of Invitation
  request,       \* what each worker is doing, with the locals of its handler
  revived        \* history: rows a save inserted again after their removal

vars == <<organization, membership, invitation, request, revived>>

(* A row's id.  An invitation makes at most one row, so user and origin     *)
(* name it: a person who leaves and joins again gets a row with a new id.   *)
Row == [user : Users, via : Invitations \cup {Founding}]

InvitationRow ==
  [issued : BOOLEAN, role : OrganizationRole, accepted_by : Users \cup {Nobody},
   revoked : BOOLEAN, expired : BOOLEAN]

NoInvitation ==
  [issued |-> FALSE, role |-> "USER", accepted_by |-> Nobody, revoked |-> FALSE, expired |-> FALSE]

Request ==
  [pc    : {"idle", "loaded", "allowed", "counted", "resolved", "locked", "seated"},
   op    : AllOperations \cup {"none"},
   actor : Users \cup {Nobody},
   row   : [user : Users \cup {Nobody}, via : Invitations \cup {Founding}],
   seen  : OrganizationRole,   \* the role the loaded instance carries
   role  : OrganizationRole,   \* the role the client asked for
   inv   : Invitations \cup {Founding}]

NoRow == [user |-> Nobody, via |-> Founding]

Idle ==
  [pc |-> "idle", op |-> "none", actor |-> Nobody, row |-> NoRow,
   seen |-> "USER", role |-> "USER", inv |-> Founding]

TypeOK ==
  /\ organization \in {"none", "live", "deleted"}
  /\ DOMAIN membership \subseteq Row
  /\ membership \in [DOMAIN membership -> OrganizationRole]
  /\ invitation \in [Invitations -> InvitationRow]
  /\ request \in [Requests -> Request]
  /\ revived \subseteq Row

-----------------------------------------------------------------------------
(* Reads *)

Members      == {m.user : m \in DOMAIN membership}
IsMember(u)  == \E m \in DOMAIN membership : m.user = u

(* orgs_with(user, capability) names this organization *)
Holds(u, capability) ==
  \E m \in DOMAIN membership :
    m.user = u /\ membership[m] \in ORG_ROLES_GRANTING(capability)

Admins == {m \in DOMAIN membership : membership[m] = "ADMIN"}

(* mutant: only other administrators count as members *)
OthersAdminsOnly(u) == {m \in Admins : m.user # u}

Others(u) == {m \in DOMAIN membership : m.user # u}

-----------------------------------------------------------------------------
(* Locks.  They are not state of their own: a request holds them exactly    *)
(* while it is inside its atomic block.                                     *)

(* mutant: the lock ends with the count, before the insert *)
HoldsRowLocksUntilCounted(q) == request[q].pc = "locked"

(* mutant: the lock begins when the token is resolved *)
HoldsRowLocksFromResolve(q) == request[q].pc \in {"resolved", "locked", "seated"}

(* InvitationAcceptView holds its invitation row and the organization row. *)
HoldsRowLocks(q) == request[q].pc \in {"locked", "seated"}

InAtomic(q) ==
  HoldsRowLocks(q) \/ (request[q].pc = "counted" /\ request[q].op \in {"update", "remove"})

(* Nothing another request holds keeps r from locking or referencing the    *)
(* organization row, or, on sqlite, from opening a transaction.             *)
Unblocked(r) ==
  \A q \in Requests \ {r} : IF Database = "sqlite" THEN ~InAtomic(q) ELSE ~HoldsRowLocks(q)

(* The admin count takes no row lock, whatever the code asks for. *)
CountUnblocked(r) == Database = "sqlite" => Unblocked(r)

(* mutant: a revocation does not wait for the row *)
InvitationNeverBlocked(r) == TRUE

InvitationUnblocked(r) ==
  IF Database = "sqlite" THEN Unblocked(r)
  ELSE \A q \in Requests \ {r} : ~(HoldsRowLocks(q) /\ request[q].inv = request[r].inv)

At(r, op, pc) == request[r].op = op /\ request[r].pc = pc

Continue(r, locals) == request' = [request EXCEPT ![r] = locals]
Goto(r, pc)         == Continue(r, [request[r] EXCEPT !.pc = pc])
End(r)              == Continue(r, Idle)

Begin(r, op, locals) ==
  /\ op \in Operations
  /\ request[r] = Idle
  /\ Continue(r, locals)

-----------------------------------------------------------------------------
(* OrganizationViewSet.perform_create: the organization and its founder's   *)
(* ADMIN row in one transaction.                                            *)
CreateOrganization(u) ==
  /\ organization = "none"
  /\ organization' = "live"
  /\ membership' = [m \in {[user |-> u, via |-> Founding]} |-> "ADMIN"]
  /\ UNCHANGED <<invitation, request, revived>>

(* The new role goes along: perform_update's validated_data. A body without *)
(* a role saves the loaded one, which is the choice newRole = seen.         *)
LoadForUpdate(r, a, m, newRole) ==
  /\ Holds(a, "org.view")
  /\ Begin(r, "update", [Idle EXCEPT !.pc = "loaded", !.op = "update", !.actor = a,
                                     !.row = m, !.seen = membership[m], !.role = newRole])
  /\ UNCHANGED <<organization, membership, invitation, revived>>

LoadForRemoval(r, a, m) ==
  /\ Holds(a, "org.view")
  /\ Begin(r, "remove", [Idle EXCEPT !.pc = "loaded", !.op = "remove", !.actor = a,
                                     !.row = m, !.seen = membership[m]])
  /\ UNCHANGED <<organization, membership, invitation, revived>>

(* _require_manage_permission, before the transaction opens.  Nothing after *)
(* it asks who the requester is.                                            *)
RequireManagePermission(r) ==
  /\ At(r, "update", "loaded") \/ At(r, "remove", "loaded")
  /\ IF Holds(request[r].actor, "org.manage_members")
     THEN Continue(r, [request[r] EXCEPT !.pc = "allowed", !.actor = Nobody])
     ELSE End(r)
  /\ UNCHANGED <<organization, membership, invitation, revived>>

(* mutant: off by one *)
WouldDropNoAdmin(r) ==
  /\ request[r].seen = "ADMIN"
  /\ request[r].op = "update" => request[r].role # "ADMIN"
  /\ Cardinality(Admins) < 1

(* The guard compares a fresh count with the role the instance was loaded   *)
(* with, which nothing refreshes.                                           *)
WouldDropLastAdmin(r) ==
  /\ request[r].seen = "ADMIN"
  /\ request[r].op = "update" => request[r].role # "ADMIN"
  /\ Cardinality(Admins) <= 1

CountAdmins(r) ==
  /\ At(r, "update", "allowed") \/ At(r, "remove", "allowed")
  /\ CountUnblocked(r)
  /\ IF WouldDropLastAdmin(r)
     THEN End(r)
     ELSE Continue(r, [request[r] EXCEPT !.pc = "counted", !.seen = "USER"])
  /\ UNCHANGED <<organization, membership, invitation, revived>>

(* serializer.save() is Model.save(): UPDATE by primary key, and INSERT     *)
(* when the UPDATE matched no row.                                          *)
SaveRole(r) ==
  /\ At(r, "update", "counted")
  /\ request[r].row \in DOMAIN membership
  /\ membership' = [membership EXCEPT ![request[r].row] = request[r].role]
  /\ End(r)
  /\ UNCHANGED <<organization, invitation, revived>>

(* The insert needs the organization row (foreign key, which waits for its  *)
(* lock) and no other row of the same user (unique_organization_membership). *)
ReinsertRow(r) ==
  LET row == request[r].row IN
  /\ At(r, "update", "counted")
  /\ row \notin DOMAIN membership
  /\ organization = "live" /\ ~IsMember(row.user)
  /\ Unblocked(r)
  /\ membership' = [m \in DOMAIN membership \cup {row} |->
                      IF m = row THEN request[r].role ELSE membership[m]]
  /\ revived' = revived \cup {row}
  /\ End(r)
  /\ UNCHANGED <<organization, invitation>>

ReinsertRefused(r) ==
  /\ At(r, "update", "counted")
  /\ request[r].row \notin DOMAIN membership
  /\ organization # "live" \/ IsMember(request[r].row.user)
  /\ End(r)
  /\ UNCHANGED <<organization, membership, invitation, revived>>

(* instance.delete(): a row already gone deletes nothing. *)
DeleteRow(r) ==
  /\ At(r, "remove", "counted")
  /\ membership' = [m \in DOMAIN membership \ {request[r].row} |-> membership[m]]
  /\ revived' = revived \ {request[r].row}
  /\ End(r)
  /\ UNCHANGED <<organization, invitation>>

-----------------------------------------------------------------------------
(* InvitationViewSet.create: the serializer's narrowing, then the insert *)
AuthorizeInvitation(r, a, i, role) ==
  /\ Holds(a, "org.manage_members")
  /\ ~invitation[i].issued
  /\ \A q \in Requests : ~(request[q].op = "invite" /\ request[q].inv = i)
  /\ Begin(r, "invite", [Idle EXCEPT !.pc = "allowed", !.op = "invite", !.inv = i, !.role = role])
  /\ UNCHANGED <<organization, membership, invitation, revived>>

IssueInvitation(r) ==
  /\ At(r, "invite", "allowed")
  /\ Unblocked(r)
  /\ invitation' = IF organization = "live"
                   THEN [invitation EXCEPT ![request[r].inv] =
                           [NoInvitation EXCEPT !.issued = TRUE, !.role = request[r].role]]
                   ELSE invitation
  /\ End(r)
  /\ UNCHANGED <<organization, membership, revived>>

(* mutant: accepted_at is not looked at *)
AcceptableTwice(inv) == inv.issued /\ ~inv.revoked /\ ~inv.expired

(* is_revoked, is_accepted, is_expired *)
Acceptable(inv) ==
  /\ inv.issued
  /\ ~inv.revoked
  /\ inv.accepted_by = Nobody
  /\ ~inv.expired

(* expires_at passes.  Nobody asks it of an invitation that is used or      *)
(* revoked: both are answered first.                                        *)
Expire(i) ==
  /\ Acceptable(invitation[i])
  /\ invitation' = [invitation EXCEPT ![i].expired = TRUE]
  /\ UNCHANGED <<organization, membership, request, revived>>

(* mutant: a used link may be revoked *)
LoadUsedForRevocation(r, a, i) ==
  /\ Holds(a, "org.manage_members")
  /\ invitation[i].issued /\ ~invitation[i].revoked
  /\ Begin(r, "revoke", [Idle EXCEPT !.pc = "loaded", !.op = "revoke", !.inv = i])
  /\ UNCHANGED <<organization, membership, invitation, revived>>

(* InvitationViewSet.revoke: an unlocked load; an instance that is already  *)
(* revoked or accepted is answered as it is, without a write.               *)
LoadForRevocation(r, a, i) ==
  /\ Holds(a, "org.manage_members")
  /\ invitation[i].issued
  /\ ~invitation[i].revoked /\ invitation[i].accepted_by = Nobody
  /\ Begin(r, "revoke", [Idle EXCEPT !.pc = "loaded", !.op = "revoke", !.inv = i])
  /\ UNCHANGED <<organization, membership, invitation, revived>>

(* save(update_fields=["revoked_at"]) writes that column and nothing else,  *)
(* and raises when the row is gone.                                         *)
SaveRevoked(r) ==
  LET i == request[r].inv IN
  /\ At(r, "revoke", "loaded")
  /\ InvitationUnblocked(r)
  /\ invitation' = IF invitation[i].issued THEN [invitation EXCEPT ![i].revoked = TRUE] ELSE invitation
  /\ End(r)
  /\ UNCHANGED <<organization, membership, revived>>

-----------------------------------------------------------------------------
(* InvitationAcceptView.post *)
ResolveToken(r, u, i) ==
  /\ invitation[i].issued
  /\ Begin(r, "accept", [Idle EXCEPT !.pc = "resolved", !.op = "accept", !.actor = u, !.inv = i])
  /\ UNCHANGED <<organization, membership, invitation, revived>>

(* select_for_update().select_related("organization").get() locks both rows *)
LockInvitation(r) ==
  /\ At(r, "accept", "resolved")
  /\ Unblocked(r)
  /\ IF Acceptable(invitation[request[r].inv]) THEN Goto(r, "locked") ELSE End(r)
  /\ UNCHANGED <<organization, membership, invitation, revived>>

CountSeats(r) ==
  /\ At(r, "accept", "locked")
  /\ IF ~IsMember(request[r].actor) /\ Fits(Cardinality(DOMAIN membership), max_seats(OrgPlan))
     THEN Goto(r, "seated") ELSE End(r)
  /\ UNCHANGED <<organization, membership, invitation, revived>>

(* mutant: the invitation is recorded as its own acceptor *)
JoinUnnamed(r) ==
  LET i   == request[r].inv
      row == [user |-> request[r].actor, via |-> i]
  IN
  /\ At(r, "accept", "seated")
  /\ membership' = [m \in DOMAIN membership \cup {row} |->
                      IF m = row THEN invitation[i].role ELSE membership[m]]
  /\ invitation' = [invitation EXCEPT ![i].accepted_by = i]
  /\ End(r)
  /\ UNCHANGED <<organization, revived>>

Join(r) ==
  LET i   == request[r].inv
      row == [user |-> request[r].actor, via |-> i]
  IN
  /\ At(r, "accept", "seated")
  /\ membership' = [m \in DOMAIN membership \cup {row} |->
                      IF m = row THEN invitation[i].role ELSE membership[m]]
  /\ invitation' = [invitation EXCEPT ![i].accepted_by = request[r].actor]
  /\ End(r)
  /\ UNCHANGED <<organization, revived>>

-----------------------------------------------------------------------------
(* OrganizationViewSet.perform_destroy; the name in the body matches *)
AuthorizeDeletion(r, a) ==
  /\ Holds(a, "org.delete")
  /\ Begin(r, "delete", [Idle EXCEPT !.pc = "allowed", !.op = "delete", !.actor = a])
  /\ UNCHANGED <<organization, membership, invitation, revived>>

CountOtherMembers(r) ==
  /\ At(r, "delete", "allowed")
  /\ IF Others(request[r].actor) = {} THEN Goto(r, "counted") ELSE End(r)
  /\ UNCHANGED <<organization, membership, invitation, revived>>

(* instance.delete() cascades to memberships and invitations *)
DeleteOrganization(r) ==
  /\ At(r, "delete", "counted")
  /\ Unblocked(r)
  /\ organization' = "deleted"
  /\ membership' = [m \in {} |-> "USER"]
  /\ invitation' = [i \in Invitations |-> NoInvitation]
  /\ revived' = {}
  /\ End(r)

(* A worker dies, or the database aborts its statement: nothing it did in   *)
(* an open transaction remains.                                             *)
Fail(r) ==
  /\ request[r] # Idle
  /\ End(r)
  /\ UNCHANGED <<organization, membership, invitation, revived>>

-----------------------------------------------------------------------------
Init ==
  /\ organization = "none"
  /\ membership = [m \in {} |-> "USER"]
  /\ invitation = [i \in Invitations |-> NoInvitation]
  /\ request = [r \in Requests |-> Idle]
  /\ revived = {}

(* a client's request arrives *)
Arrive(r) ==
  \/ \E a \in Users, m \in DOMAIN membership :
       \/ \E role \in OfferedRoles : LoadForUpdate(r, a, m, role)
       \/ LoadForRemoval(r, a, m)
  \/ \E a \in Users, i \in Invitations :
       \/ \E role \in OfferedRoles : AuthorizeInvitation(r, a, i, role)
       \/ LoadForRevocation(r, a, i)
       \/ ResolveToken(r, a, i)
  \/ \E a \in Users : AuthorizeDeletion(r, a)

(* a request in flight goes on *)
Advance(r) ==
  \/ RequireManagePermission(r) \/ CountAdmins(r)
  \/ SaveRole(r) \/ ReinsertRow(r) \/ ReinsertRefused(r) \/ DeleteRow(r)
  \/ IssueInvitation(r) \/ SaveRevoked(r)
  \/ LockInvitation(r) \/ CountSeats(r) \/ Join(r)
  \/ CountOtherMembers(r) \/ DeleteOrganization(r)

Next ==
  \/ \E u \in Users : CreateOrganization(u)
  \/ \E i \in Invitations : Expire(i)
  \/ \E r \in Requests : Arrive(r) \/ Advance(r) \/ Fail(r)

Spec == Init /\ [][Next]_vars

(* Workers run, and the database grants a lock to whoever waits for it;     *)
(* clients need not send anything and nothing has to fail.                  *)
FairSpec == Spec /\ \A r \in Requests : SF_vars(Advance(r))

-----------------------------------------------------------------------------
(* The invariant the proofs are by: what a request's locals mean while it   *)
(* runs, and what the locks of an acceptance keep true around it.           *)

(* Locals are set where a handler uses them. *)
LocalsSet ==
  \A r \in Requests :
    /\ request[r].op = "update" => request[r].row \in Row
    /\ request[r].op \in {"invite", "revoke", "accept"} => request[r].inv \in Invitations
    /\ request[r].op = "accept" => request[r].actor \in Users
    /\ HoldsRowLocks(r) => request[r].op = "accept"

(* An identifier a request is about to issue is nobody else's. *)
IdentifiersFresh ==
  /\ \A r \in Requests : request[r].op = "invite" => ~invitation[request[r].inv].issued
  /\ \A r, q \in Requests :
       request[r].op = "invite" /\ request[q].op = "invite" /\ request[r].inv = request[q].inv
         => r = q

(* The organization row serializes acceptances. *)
OneAcceptance == \A r, q \in Requests : HoldsRowLocks(r) /\ HoldsRowLocks(q) => r = q

(* A locked invitation stays usable until its holder is done with it. *)
LockedInvitationOpen ==
  \A r \in Requests : HoldsRowLocks(r) =>
    LET inv == invitation[request[r].inv]
    IN  inv.issued /\ ~inv.revoked /\ inv.accepted_by = Nobody

(* The seat that was counted free is still free when it is taken. *)
CountedSeatFree ==
  \A r \in Requests : request[r].pc = "seated" =>
    Fits(Cardinality(DOMAIN membership \ revived), max_seats(OrgPlan))

(* Invitations exist in an organization that exists, and an unused id       *)
(* carries nothing.                                                         *)
InvitationTable ==
  \A i \in Invitations :
    /\ organization # "live" => ~invitation[i].issued
    /\ ~invitation[i].issued => ~invitation[i].revoked /\ invitation[i].accepted_by = Nobody

AcceptanceInv ==
  /\ TypeOK
  /\ LocalsSet
  /\ IdentifiersFresh
  /\ OneAcceptance
  /\ LockedInvitationOpen
  /\ InvitationTable

-----------------------------------------------------------------------------
(* Properties *)

(* An organization that exists has an ADMIN.  The promise of both mutations *)
(* of OrganizationMembershipViewSet; it holds while requests come one by    *)
(* one, and overlapping ones break it.                                      *)
AdminInvariant == organization = "live" => Admins # {}

(* The plan's ceiling, as openspec/specs/organization-management states it: *)
(* no membership row exceeds max_seats.                                     *)
SeatLimit ==
  \A limit \in max_seats(OrgPlan) : Cardinality(DOMAIN membership) <= limit

(* What InvitationAcceptView's locked count guarantees whatever overlaps:   *)
(* acceptances never exceed the ceiling, so that every row above it is one  *)
(* a stale role save inserted again.                                        *)
SeatsTakenWithinPlan ==
  \A limit \in max_seats(OrgPlan) : Cardinality(DOMAIN membership \ revived) <= limit

SeatInv ==
  /\ AcceptanceInv
  /\ IsFiniteSet(DOMAIN membership)
  /\ CountedSeatFree
  /\ SeatsTakenWithinPlan

(* Every row but the founder's traces to an invitation its holder consumed. *)
(* With it, two people never share one link, nor does a half-done           *)
(* acceptance leave a row behind: the insert and the mark commit together.  *)
JoinedThroughInvitation ==
  \A m \in DOMAIN membership : m.via = Founding \/ invitation[m.via].accepted_by = m.user

(* ... and so does every row a role change holds on to, which a stale save  *)
(* may insert again.                                                        *)
Traced(m) ==
  m.via = Founding \/ (invitation[m.via].issued /\ invitation[m.via].accepted_by = m.user)

TraceInv ==
  /\ AcceptanceInv
  /\ \A m \in DOMAIN membership : Traced(m)
  /\ organization # "deleted" =>
       \A r \in Requests : request[r].op = "update" => Traced(request[r].row)

(* revoked_at and accepted_at exclude each other (Invitation's docstring). *)
RevokedOrAccepted ==
  \A i \in Invitations : ~(invitation[i].revoked /\ invitation[i].accepted_by # Nobody)

(* A row appears only with the founding of the organization or with the     *)
(* acceptance of an invitation (OrganizationMembershipViewSet's docstring). *)
RowFromAcceptance ==
  \A m \in DOMAIN membership' \ DOMAIN membership :
     \/ organization = "none"
     \/ m.via # Founding /\ invitation[m.via].accepted_by = Nobody

(* Deleting an organization never takes a member other than its deleter     *)
(* along (OrganizationViewSet.perform_destroy's comment).                   *)
SparesOthers ==
  organization = "live" /\ organization' = "deleted" => Cardinality(Members) <= 1

(* Requests, their locks and their losses implement the promise of links. *)
Links == INSTANCE Admission WITH
  issued    <- {i \in Invitations : invitation[i].issued},
  withdrawn <- {i \in Invitations : invitation[i].revoked},
  admitted  <- [i \in Invitations |-> invitation[i].accepted_by]

LinksAdmitOnce == Links!Spec

(* No set of waiting requests blocks itself: a request that has begun ends. *)
RequestsEnd == \A r \in Requests : request[r] # Idle ~> request[r] = Idle
=============================================================================
