------------------------------- MODULE Grants -------------------------------
(***************************************************************************)
(* Project and environment grants inside one organization: who may make    *)
(* them, the cascade that takes them with a membership, and the two ways    *)
(* the code asks what a user may do (tenancy/models.py, scoping.py,        *)
(* permissions.py, api/serializers.py, api/views.py).                      *)
(*                                                                         *)
(* A request is a process, as in Membership; how somebody joins, and what   *)
(* overlaps do to the last administrator, are that module's matter.  Here   *)
(* the reads of a handler in a row are one step, and each write is one.  No *)
(* handler locks before it decides.  A row that an open removal has deleted *)
(* is still read by others, and whoever writes it waits for the commit; on  *)
(* sqlite a removal also excludes writers, which leaves fewer behaviours.   *)
(***************************************************************************)
EXTENDS Capabilities, FiniteSets, FiniteSetsExt

CONSTANTS
  Users, Founder,
  Projects, Environments,
  ParentOf,       \* the project of an environment
  Nothing,        \* the null of a row
  Requests,       \* the server's workers
  GivenRoles,     \* the roles grants are requested with
  JoinRoles,      \* and invitations
  MaxGrants       \* bound on the grants there are or are asked for

(* What is assumed of them. *)
GrantsAssumption ==
  /\ IsFiniteSet(Users) /\ Founder \in Users
  /\ Projects \cap Environments = {}
  /\ ParentOf \in [Environments -> Projects]
  /\ IsFiniteSet(Requests)
  /\ GivenRoles \subseteq GrantRole /\ JoinRoles \subseteq OrganizationRole
  /\ MaxGrants \in Nat

VARIABLES
  membership,  \* the rows of OrganizationMembership: row id [user, nth] -> role
  grant,       \* the rows of ProjectMembership and EnvironmentMembership: id -> [target, user, role]
  request,     \* what each worker is doing, with the locals of its handler
  stray        \* history: grants written while their holder was being removed

vars == <<membership, grant, request, stray>>

Target == Projects \cup Environments

MemberRow == [user : Users, nth : Nat]
GrantRow  == [target : Target, user : Users, role : GrantRole]

(* Locals: the membership a removal has loaded and the role it carries, the  *)
(* grants it has deleted and not committed, the id of the grant a change or  *)
(* a revocation has loaded, and the row a grant or a change is to write.     *)
(* raced is history: the holder of that grant is being removed meanwhile.   *)
Idle ==
  [pc |-> "idle", op |-> "none", row |-> Nothing, seen |-> "USER",
   id |-> 0, grant |-> Nothing, taken |-> {}, raced |-> FALSE]

-----------------------------------------------------------------------------
(* What a user may do, asked of one object: the roles on each level. *)

IsMember(u) == \E m \in DOMAIN membership : m.user = u

RoleOf(rows) == IF rows = {} THEN NoRole ELSE CHOOSE role \in rows : TRUE
OrgRole(u)   == RoleOf({membership[m] : m \in {n \in DOMAIN membership : n.user = u}})
RoleOn(u, t) == RoleOf({grant[g].role : g \in {h \in DOMAIN grant : grant[h].user = u /\ grant[h].target = t}})

capabilities_for(u, e) == resolve_capabilities(OrgRole(u), RoleOn(u, ParentOf[e]), RoleOn(u, e))

(* ... and asked of all of them: the rows with a role that grants it.  A     *)
(* grant counts only for a member, whatever else is stored.                 *)
orgs_with(u, capability) == OrgRole(u) \in ORG_ROLES_GRANTING(capability)

projects_with(u, capability) ==
  {p \in Projects :
     \/ orgs_with(u, capability)
     \/ IsMember(u) /\ RoleOn(u, p) \in PROJECT_ROLES_GRANTING(capability)
     \/ capability = "project.view" /\ IsMember(u) /\ \E e \in Environments : ParentOf[e] = p /\ RoleOn(u, e) # NoRole}

(* mutant: a grant counts for whoever holds it *)
environments_withStrays(u, capability) ==
  {e \in Environments :
     ParentOf[e] \in projects_with(u, capability) \/ RoleOn(u, e) \in ENV_ROLES_GRANTING(capability)}

environments_with(u, capability) ==
  {e \in Environments :
     \/ ParentOf[e] \in projects_with(u, capability)
     \/ IsMember(u) /\ RoleOn(u, e) \in ENV_ROLES_GRANTING(capability)}

-----------------------------------------------------------------------------
ProjectOf(t) == IF t \in Projects THEN t ELSE ParentOf[t]

(* The grants a user sees: get_queryset of the two viewsets. *)
Visible(a, t) ==
  IF t \in Projects THEN t \in projects_with(a, "project.view") ELSE t \in environments_with(a, "environment.view")

Manages(a, t) == ProjectOf(t) \in projects_with(a, "project.manage_members")

(* Rows an open removal has deleted and not committed. *)
Removing(u) == {r \in Requests : request[r].pc \in {"swept", "cascaded"} /\ request[r].row.user = u}
Gone(r) == UNION {request[q].taken : q \in Requests \ {r}}

(* The unique constraint of a target and a user, for which an insert waits   *)
(* where a transaction that is still open has deleted the other row.        *)
Collides(g, row) == grant[g].target = row.target /\ grant[g].user = row.user
Held(row) == \E g \in DOMAIN grant : Collides(g, row)
Unblocked(r, row) == \A g \in Gone(r) \cap DOMAIN grant : ~Collides(g, row)

At(r, op, pc) == request[r].op = op /\ request[r].pc = pc
Begin(r, locals) == request[r] = Idle /\ request' = [request EXCEPT ![r] = locals]
End(r) == request' = [request EXCEPT ![r] = Idle]

(* A new id is a number that no row and no request has: it is told from      *)
(* every row that somebody still remembers.  Of those it takes the least.   *)
Least(S) == {n \in S : \A k \in S : n <= k}

NewIds ==
  Least(1..(MaxGrants + 2 * Cardinality(Requests)) \ (DOMAIN grant \cup {request[r].id : r \in Requests}))
NewRows(u) ==
  {[user |-> u, nth |-> n] :
     n \in Least({k \in 1..(Cardinality(Requests) + 1) :
                     \A r \in Requests : request[r].row # [user |-> u, nth |-> k]})}

(* InvitationAcceptView: whoever is no member may become one. *)
Join(u) ==
  /\ ~IsMember(u)
  /\ \E role \in JoinRoles, row \in NewRows(u) :
       membership' = [m \in DOMAIN membership \cup {row} |->
                        IF m \in DOMAIN membership THEN membership[m] ELSE role]
  /\ UNCHANGED <<grant, request, stray>>

-----------------------------------------------------------------------------
(* ProjectMembershipViewSet and EnvironmentMembershipViewSet, create: the    *)
(* narrowed field, the validators, the insert.                              *)
Asked == {r \in Requests : request[r].op \in {"grant", "change"}}

Load(r, locals) == Begin(r, locals) /\ UNCHANGED <<membership, grant, stray>>

(* mutant: anybody with an account may be granted *)
ValidateAnyone(r, a, row) ==
  /\ Manages(a, row.target) /\ ~Held(row)
  /\ Cardinality(DOMAIN grant) + Cardinality(Asked) < MaxGrants
  /\ Load(r, [Idle EXCEPT !.pc = "loaded", !.op = "grant", !.grant = row, !.raced = Removing(row.user) # {}])

(* One grant of a target per user, and only for a member. *)
ValidateGrant(r, a, row) ==
  /\ Manages(a, row.target) /\ ~Held(row) /\ IsMember(row.user)
  /\ Cardinality(DOMAIN grant) + Cardinality(Asked) < MaxGrants
  /\ Load(r, [Idle EXCEPT !.pc = "loaded", !.op = "grant", !.grant = row, !.raced = Removing(row.user) # {}])

Put(r, id, row) ==
  /\ grant' = [g \in DOMAIN grant \cup {id} |-> IF g = id THEN row ELSE grant[g]]
  /\ stray' = IF request[r].raced THEN stray \cup {id} ELSE stray \ {id}
  /\ End(r)
  /\ UNCHANGED membership

InsertGrant(r) ==
  LET row == request[r].grant IN
  /\ At(r, "grant", "loaded")
  /\ Unblocked(r, row) /\ ~Held(row)
  /\ \E id \in NewIds : Put(r, id, row)

(* A row that got there first makes the insert fail. *)
InsertRefused(r) ==
  LET row == request[r].grant IN
  /\ At(r, "grant", "loaded")
  /\ Unblocked(r, row) /\ Held(row)
  /\ End(r)
  /\ UNCHANGED <<membership, grant, stray>>

-----------------------------------------------------------------------------
(* Update and destroy: an unlocked load, the permission, the write. *)
LoadForChange(r, a, g, role) ==
  /\ Visible(a, grant[g].target) /\ Manages(a, grant[g].target)
  /\ Load(r, [Idle EXCEPT !.pc = "loaded", !.op = "change", !.id = g, !.grant = [grant[g] EXCEPT !.role = role],
                          !.raced = g \in stray \/ Removing(grant[g].user) # {}])

LoadForRevoke(r, a, g) ==
  /\ Visible(a, grant[g].target) /\ Manages(a, grant[g].target)
  /\ Load(r, [Idle EXCEPT !.pc = "loaded", !.op = "revoke", !.id = g])

(* serializer.save(): an UPDATE by primary key, ... *)
SaveGrant(r) ==
  LET id == request[r].id IN
  /\ At(r, "change", "loaded")
  /\ id \in DOMAIN grant \ Gone(r)
  /\ grant' = [grant EXCEPT ![id] = request[r].grant]
  /\ End(r)
  /\ UNCHANGED <<membership, stray>>

(* ... and an INSERT when that matched nothing, which fails where another    *)
(* row is in the way.                                                       *)
ReinsertGrant(r) ==
  LET row == request[r].grant IN
  /\ At(r, "change", "loaded")
  /\ request[r].id \notin DOMAIN grant
  /\ Unblocked(r, row) /\ ~Held(row)
  /\ Put(r, request[r].id, row)

ReinsertRefused(r) ==
  LET row == request[r].grant IN
  /\ At(r, "change", "loaded")
  /\ request[r].id \notin DOMAIN grant
  /\ Unblocked(r, row) /\ Held(row)
  /\ End(r)
  /\ UNCHANGED <<membership, grant, stray>>

DeleteGrant(r) ==
  LET id == request[r].id IN
  /\ At(r, "revoke", "loaded")
  /\ id \notin Gone(r)
  /\ grant' = [g \in DOMAIN grant \ {id} |-> grant[g]]
  /\ stray' = stray \ {id}
  /\ End(r)
  /\ UNCHANGED membership

-----------------------------------------------------------------------------
(* OrganizationMembershipViewSet.perform_destroy and the cascade that its    *)
(* post_delete signal starts, in one transaction.                           *)
LoadForRemoval(r, a, m) ==
  /\ orgs_with(a, "org.manage_members")
  /\ Load(r, [Idle EXCEPT !.pc = "loaded", !.op = "remove", !.row = m, !.seen = membership[m]])

GrantsOn(u, targets) == {g \in DOMAIN grant : grant[g].user = u /\ grant[g].target \in targets}

(* Who is about to write a grant of this user is overtaken. *)
Overtaken(u, q) == q.op \in {"grant", "change"} /\ q.grant.user = u

LastAdmin(r) ==
  request[r].seen = "ADMIN" /\ Cardinality({m \in DOMAIN membership : membership[m] = "ADMIN"}) <= 1

(* The count, the guard, instance.delete(), and the first statement of the   *)
(* signal's receiver.  A row that is gone deletes nothing, and the signal is *)
(* sent all the same.                                                       *)
DeleteMember(r) ==
  LET u     == request[r].row.user
      found == GrantsOn(u, Projects)
  IN
  /\ At(r, "remove", "loaded") /\ ~LastAdmin(r)
  /\ \A q \in Removing(u) : request[q].row # request[r].row
  /\ found \cap Gone(r) = {}
  /\ request' = [q \in Requests |->
       IF q = r THEN [request[q] EXCEPT !.pc = "swept", !.seen = "USER", !.taken = found]
       ELSE [request[q] EXCEPT !.raced = @ \/ Overtaken(u, request[q])]]
  /\ UNCHANGED <<membership, grant, stray>>

DeleteRefused(r) ==
  /\ At(r, "remove", "loaded") /\ LastAdmin(r)
  /\ End(r)
  /\ UNCHANGED <<membership, grant, stray>>

(* mutant: environment grants stay *)
CascadeNothing(r) ==
  /\ At(r, "remove", "swept")
  /\ request' = [request EXCEPT ![r].pc = "cascaded"]
  /\ UNCHANGED <<membership, grant, stray>>

CascadeEnvironments(r) ==
  LET found == GrantsOn(request[r].row.user, Environments) IN
  /\ At(r, "remove", "swept")
  /\ found \cap Gone(r) = {}
  /\ request' = [request EXCEPT ![r].pc = "cascaded", ![r].taken = @ \cup found]
  /\ UNCHANGED <<membership, grant, stray>>

Commit(r) ==
  /\ At(r, "remove", "cascaded")
  /\ membership' = [m \in DOMAIN membership \ {request[r].row} |-> membership[m]]
  /\ grant' = [g \in DOMAIN grant \ request[r].taken |-> grant[g]]
  /\ stray' = stray \ request[r].taken
  /\ End(r)

Fail(r) ==
  /\ request[r] # Idle
  /\ End(r)
  /\ UNCHANGED <<membership, grant, stray>>

-----------------------------------------------------------------------------
Init ==
  /\ membership = [m \in {[user |-> Founder, nth |-> 1]} |-> "ADMIN"]
  /\ grant = [g \in {} |-> Nothing]
  /\ request = [r \in Requests |-> Idle]
  /\ stray = {}

Arrive(r) ==
  \E a \in Users :
    \/ \E row \in [target : Target, user : Users, role : GivenRoles] : ValidateGrant(r, a, row)
    \/ \E g \in DOMAIN grant :
         \/ \E role \in GivenRoles : LoadForChange(r, a, g, role)
         \/ LoadForRevoke(r, a, g)
    \/ \E m \in DOMAIN membership : LoadForRemoval(r, a, m)

Advance(r) ==
  \/ InsertGrant(r) \/ InsertRefused(r)
  \/ SaveGrant(r) \/ ReinsertGrant(r) \/ ReinsertRefused(r) \/ DeleteGrant(r)
  \/ DeleteMember(r) \/ DeleteRefused(r) \/ CascadeEnvironments(r) \/ Commit(r)

Next ==
  \/ \E u \in Users : Join(u)
  \/ \E r \in Requests : Arrive(r) \/ Advance(r) \/ Fail(r)

Spec == Init /\ [][Next]_vars

-----------------------------------------------------------------------------
(* The invariant the proofs are by: what the locals of a request mean, and   *)
(* what an open removal has deleted or left to be written meanwhile.        *)

Request ==
  [pc    : {"idle", "loaded", "swept", "cascaded"},
   op    : {"none", "grant", "change", "revoke", "remove"},
   row   : MemberRow \cup {Nothing},
   seen  : OrganizationRole,
   id    : Nat,
   grant : GrantRow \cup {Nothing},
   taken : SUBSET Nat,
   raced : BOOLEAN]

TypeOK ==
  /\ DOMAIN membership \subseteq MemberRow
  /\ membership \in [DOMAIN membership -> OrganizationRole]
  /\ DOMAIN grant \subseteq Nat
  /\ grant \in [DOMAIN grant -> GrantRow]
  /\ request \in [Requests -> Request]
  /\ \A r \in Asked : request[r].grant \in GrantRow
  /\ \A r \in Requests : request[r].op = "remove" => request[r].row \in MemberRow
  /\ \A r \in Requests : request[r].pc \in {"swept", "cascaded"} => request[r].op = "remove"

OneRowEach == \A m, n \in DOMAIN membership : m.user = n.user => m = n

(* An id stands for one target and one holder as long as a change has it. *)
SameGrant(row, other) == row.user = other.user /\ row.target = other.target

IdsStable ==
  \A r \in Requests : request[r].op = "change" =>
    /\ request[r].id \in DOMAIN grant => SameGrant(grant[request[r].id], request[r].grant)
    /\ \A q \in Requests : request[q].op = "change" /\ request[q].id = request[r].id =>
         SameGrant(request[q].grant, request[r].grant)

(* A grant that is about to be written is a member's, unless its holder was  *)
(* being removed meanwhile; and while one is, whoever writes is marked.     *)
WritersMarked ==
  \A r \in Asked : ~request[r].raced =>
    IsMember(request[r].grant.user) /\ Removing(request[r].grant.user) = {}

(* What an open removal has deleted is its holder's, waits for its commit    *)
(* and belongs to no other removal; ...                                     *)
TakenHeld ==
  \A r \in Requests :
    /\ request[r].pc \notin {"swept", "cascaded"} => request[r].taken = {}
    /\ request[r].taken \subseteq DOMAIN grant \ Gone(r)
    /\ \A g \in request[r].taken : grant[g].user = request[r].row.user

(* ... and what it has not deleted was written by somebody marked.          *)
SweptLeavesStrays ==
  \A r \in Requests : request[r].pc \in {"swept", "cascaded"} =>
    \A g \in DOMAIN grant \ (request[r].taken \cup stray) :
      grant[g].user = request[r].row.user =>
        request[r].pc = "swept" /\ grant[g].target \notin Projects

-----------------------------------------------------------------------------
(* Properties *)

(* A grant of somebody who is no member was written while its holder was     *)
(* being removed: nothing but that overlap lets a grant outlive the          *)
(* membership that justified it (the docstring of the cascade).             *)
OrphansOvertaken == \A g \in DOMAIN grant : ~IsMember(grant[g].user) => g \in stray

GrantsInv ==
  TypeOK /\ OneRowEach /\ IdsStable /\ WritersMarked /\ TakenHeld /\ SweptLeavesStrays /\ OrphansOvertaken

(* A removal takes the grants of somebody who leaves with them, unless the   *)
(* row it was asked to remove was gone already.                             *)
TakesTheLeaving ==
  \A g \in DOMAIN grant \ DOMAIN grant' :
    \/ \A m \in DOMAIN membership' : m.user # grant[g].user
    \/ \E r \in Requests :
         \/ At(r, "revoke", "loaded") /\ request[r].id = g
         \/ At(r, "remove", "cascaded") /\ request[r].row \notin DOMAIN membership

(* Grants come and go with the membership of their holder. *)
FollowMembers == OrphansOvertaken' /\ TakesTheLeaving

(* The code asks two questions of the same tables: which environments a      *)
(* user may act on, and whether a user may act on one.  They have one        *)
(* answer, orphans included: what a view finds in its queryset and then      *)
(* permits is what the queryset of the capability has.  project.view, which  *)
(* no view asks of an environment, is left out: the grant on one environment *)
(* shows its siblings in the queryset and not in capabilities_for.          *)
ScopingAgrees ==
  \A u \in Users :
    /\ \A c \in ALL_CAPABILITIES \ {"project.view"} :
         environments_with(u, c) = {e \in Environments : IsMember(u) /\ c \in capabilities_for(u, e)}
    /\ \A c \in EnvironmentCapabilities \cup {"environment.delete"} :
         environments_with(u, c) = {e \in environments_with(u, "environment.view") : c \in capabilities_for(u, e)}
=============================================================================
