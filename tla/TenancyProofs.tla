---------------------------- MODULE TenancyProofs ----------------------------
(***************************************************************************)
(* What the tenancy API guarantees for any number of users, invitations,   *)
(* projects, environments and workers, on either database.                 *)
(*                                                                         *)
(* Whatever requests overlap, seats taken by acceptance stay within the    *)
(* plan, every row traces to the invitation its holder consumed, and links *)
(* admit one person at most.  While requests come one at a time, the       *)
(* guards are right.  A grant outlives the membership of its holder only   *)
(* where it was written while the holder was being removed, and the two    *)
(* ways of asking what a user may do agree.                                *)
(***************************************************************************)
EXTENDS MembershipRequests, TenancyRequests, FiniteSetTheorems, TLAPS

-----------------------------------------------------------------------------
(***************************************************************************)
(* Types.  A step replaces one worker's record by Idle, by a fresh set of  *)
(* locals, or moves its program counter.                                   *)
(***************************************************************************)
LEMMA IdleType == Idle \in Request
BY MembershipAssumption DEF Idle, Request, NoRow, AllOperations, OrganizationRole

LEMMA EndType ==
  ASSUME NEW r \in Requests, request \in [Requests -> Request], End(r)
  PROVE  request' \in [Requests -> Request]
BY IdleType DEF End, Continue

LEMMA GotoType ==
  ASSUME NEW r \in Requests, request \in [Requests -> Request],
         NEW pc \in {"loaded", "allowed", "counted", "resolved", "locked", "seated"},
         Goto(r, pc)
  PROVE  request' \in [Requests -> Request]
BY DEF Goto, Continue, Request

LEMMA BeginType ==
  ASSUME NEW r \in Requests, request \in [Requests -> Request],
         NEW op, NEW locals \in Request, Begin(r, op, locals)
  PROVE  request' \in [Requests -> Request]
BY DEF Begin, Continue

(* The reads of an arriving request keep the tables and the types. *)
LEMMA ArriveType ==
  ASSUME TypeOK, NEW r \in Requests, Arrive(r)
  PROVE  TypeOK' /\ UNCHANGED <<organization, membership, invitation, revived>>
<1> USE MembershipAssumption
<1>1. ASSUME NEW a \in Users, NEW m \in DOMAIN membership, NEW role \in OfferedRoles,
             LoadForUpdate(r, a, m, role)
      PROVE  request' \in [Requests -> Request]
  <2>1. m \in Row /\ membership[m] \in OrganizationRole /\ role \in OrganizationRole
    BY <1>1 DEF TypeOK
  <2>2. [Idle EXCEPT !.pc = "loaded", !.op = "update", !.actor = a,
                     !.row = m, !.seen = membership[m], !.role = role] \in Request
    BY <2>1 DEF Idle, Request, Row, NoRow, AllOperations, OrganizationRole
  <2> QED BY <1>1, <2>2, BeginType DEF LoadForUpdate, TypeOK
<1>2. ASSUME NEW a \in Users, NEW m \in DOMAIN membership, LoadForRemoval(r, a, m)
      PROVE  request' \in [Requests -> Request]
  <2>1. m \in Row /\ membership[m] \in OrganizationRole
    BY <1>2 DEF TypeOK
  <2>2. [Idle EXCEPT !.pc = "loaded", !.op = "remove", !.actor = a,
                     !.row = m, !.seen = membership[m]] \in Request
    BY <2>1 DEF Idle, Request, Row, NoRow, AllOperations, OrganizationRole
  <2> QED BY <1>2, <2>2, BeginType DEF LoadForRemoval, TypeOK
<1>3. ASSUME NEW a \in Users, NEW i \in Invitations, NEW role \in OfferedRoles,
             AuthorizeInvitation(r, a, i, role)
      PROVE  request' \in [Requests -> Request]
  <2>1. [Idle EXCEPT !.pc = "allowed", !.op = "invite", !.inv = i, !.role = role] \in Request
    BY DEF Idle, Request, NoRow, AllOperations, OrganizationRole
  <2> QED BY <1>3, <2>1, BeginType DEF AuthorizeInvitation, TypeOK
<1>4. ASSUME NEW a \in Users, NEW i \in Invitations, LoadForRevocation(r, a, i)
      PROVE  request' \in [Requests -> Request]
  <2>1. [Idle EXCEPT !.pc = "loaded", !.op = "revoke", !.inv = i] \in Request
    BY DEF Idle, Request, NoRow, AllOperations, OrganizationRole
  <2> QED BY <1>4, <2>1, BeginType DEF LoadForRevocation, TypeOK
<1>5. ASSUME NEW a \in Users, NEW i \in Invitations, ResolveToken(r, a, i)
      PROVE  request' \in [Requests -> Request]
  <2>1. [Idle EXCEPT !.pc = "resolved", !.op = "accept", !.actor = a, !.inv = i] \in Request
    BY DEF Idle, Request, NoRow, AllOperations, OrganizationRole
  <2> QED BY <1>5, <2>1, BeginType DEF ResolveToken, TypeOK
<1>6. ASSUME NEW a \in Users, AuthorizeDeletion(r, a)
      PROVE  request' \in [Requests -> Request]
  <2>1. [Idle EXCEPT !.pc = "allowed", !.op = "delete", !.actor = a] \in Request
    BY DEF Idle, Request, NoRow, AllOperations, OrganizationRole
  <2> QED BY <1>6, <2>1, BeginType DEF AuthorizeDeletion, TypeOK
<1>7. UNCHANGED <<organization, membership, invitation, revived>>
  BY Zenon DEF Arrive, LoadForUpdate, LoadForRemoval, AuthorizeInvitation, LoadForRevocation,
         ResolveToken, AuthorizeDeletion
<1>8. request' \in [Requests -> Request]
  BY <1>1, <1>2, <1>3, <1>4, <1>5, <1>6 DEF Arrive
<1> QED BY <1>7, <1>8 DEF TypeOK

LEMMA AdvanceType ==
  ASSUME TypeOK, LocalsSet, NEW r \in Requests, Advance(r)
  PROVE  TypeOK'
<1> USE MembershipAssumption
<1>1. ASSUME RequireManagePermission(r) PROVE TypeOK'
  <2>1. request' \in [Requests -> Request]
    <3>1. CASE End(r) BY <3>1, EndType DEF TypeOK
    <3>2. [request[r] EXCEPT !.pc = "allowed", !.actor = Nobody] \in Request
      <4> request[r] \in Request BY DEF TypeOK
      <4> QED BY DEF Request
    <3> QED BY <1>1, <3>1, <3>2 DEF RequireManagePermission, Continue, TypeOK
  <2> QED BY <1>1, <2>1 DEF RequireManagePermission, TypeOK
<1>2. ASSUME CountAdmins(r) PROVE TypeOK'
  <2>1. request' \in [Requests -> Request]
    <3>1. CASE End(r) BY <3>1, EndType DEF TypeOK
    <3>2. [request[r] EXCEPT !.pc = "counted", !.seen = "USER"] \in Request
      <4> "USER" \in OrganizationRole BY DEF OrganizationRole
      <4> request[r] \in Request BY DEF TypeOK
      <4> QED BY DEF Request
    <3> QED BY <1>2, <3>1, <3>2 DEF CountAdmins, Continue, TypeOK
  <2> QED BY <1>2, <2>1 DEF CountAdmins, TypeOK
<1>3. ASSUME SaveRole(r) PROVE TypeOK'
  <2>1. request' \in [Requests -> Request] BY <1>3, EndType DEF SaveRole, TypeOK
  <2>2. request[r].role \in OrganizationRole BY DEF TypeOK, Request
  <2>3. /\ DOMAIN membership' = DOMAIN membership
        /\ membership' \in [DOMAIN membership' -> OrganizationRole]
    BY <1>3, <2>2 DEF SaveRole, TypeOK
  <2> QED BY <1>3, <2>1, <2>3 DEF SaveRole, TypeOK
<1>4. ASSUME ReinsertRow(r) PROVE TypeOK'
  <2> request[r].row \in Row BY <1>4 DEF ReinsertRow, At, LocalsSet
  <2>1. request' \in [Requests -> Request] BY <1>4, EndType DEF ReinsertRow, TypeOK
  <2>2. request[r].role \in OrganizationRole BY DEF TypeOK, Request
  <2>3. /\ DOMAIN membership' = DOMAIN membership \cup {request[r].row}
        /\ membership' \in [DOMAIN membership' -> OrganizationRole]
    BY <1>4, <2>2 DEF ReinsertRow, TypeOK
  <2> QED BY <1>4, <2>1, <2>3 DEF ReinsertRow, TypeOK
<1>5. ASSUME ReinsertRefused(r) PROVE TypeOK'
  BY <1>5, EndType DEF ReinsertRefused, TypeOK
<1>6. ASSUME DeleteRow(r) PROVE TypeOK'
  <2>1. request' \in [Requests -> Request] BY <1>6, EndType DEF DeleteRow, TypeOK
  <2>2. /\ DOMAIN membership' = DOMAIN membership \ {request[r].row}
        /\ membership' \in [DOMAIN membership' -> OrganizationRole]
    BY <1>6 DEF DeleteRow, TypeOK
  <2> QED BY <1>6, <2>1, <2>2 DEF DeleteRow, TypeOK
<1>7. ASSUME IssueInvitation(r) PROVE TypeOK'
  <2>1. request' \in [Requests -> Request] BY <1>7, EndType DEF IssueInvitation, TypeOK
  <2>2. [NoInvitation EXCEPT !.issued = TRUE, !.role = request[r].role] \in InvitationRow
    BY DEF TypeOK, Request, NoInvitation, InvitationRow
  <2>3. invitation' \in [Invitations -> InvitationRow]
    BY <1>7, <2>2 DEF IssueInvitation, TypeOK
  <2> QED BY <1>7, <2>1, <2>3 DEF IssueInvitation, TypeOK
<1>8. ASSUME SaveRevoked(r) PROVE TypeOK'
  <2>1. request' \in [Requests -> Request] BY <1>8, EndType DEF SaveRevoked, TypeOK
  <2>2. invitation' \in [Invitations -> InvitationRow]
    <3>1. invitation \in [Invitations -> InvitationRow] BY DEF TypeOK
    <3>2. \/ invitation' = [invitation EXCEPT ![request[r].inv].revoked = TRUE]
          \/ invitation' = invitation
      BY <1>8 DEF SaveRevoked
    <3>3. ASSUME NEW i \in Invitations PROVE [invitation[i] EXCEPT !.revoked = TRUE] \in InvitationRow
      BY <3>1 DEF InvitationRow
    <3>. QED BY <3>1, <3>2, <3>3
  <2> QED BY <1>8, <2>1, <2>2 DEF SaveRevoked, TypeOK
<1>9. ASSUME LockInvitation(r) PROVE TypeOK'
  BY <1>9, EndType, GotoType DEF LockInvitation, TypeOK
<1>10. ASSUME CountSeats(r) PROVE TypeOK'
  BY <1>10, EndType, GotoType DEF CountSeats, TypeOK
<1>11. ASSUME Join(r) PROVE TypeOK'
  <2> request[r].actor \in Users /\ request[r].inv \in Invitations BY <1>11 DEF Join, At, LocalsSet
  <2> DEFINE i == request[r].inv
             row == [user |-> request[r].actor, via |-> i]
  <2>1. request' \in [Requests -> Request] BY <1>11, EndType DEF Join, TypeOK
  <2>2. row \in Row BY <1>11 DEF Row
  <2>3. invitation[i].role \in OrganizationRole BY <1>11 DEF TypeOK, InvitationRow
  <2>4. /\ DOMAIN membership' = DOMAIN membership \cup {row}
        /\ membership' \in [DOMAIN membership' -> OrganizationRole]
    BY <1>11, <2>3 DEF Join, TypeOK
  <2>5. invitation' \in [Invitations -> InvitationRow]
    BY <1>11 DEF Join, TypeOK, InvitationRow
  <2> QED BY <1>11, <2>1, <2>2, <2>4, <2>5 DEF Join, TypeOK
<1>12. ASSUME CountOtherMembers(r) PROVE TypeOK'
  BY <1>12, EndType, GotoType DEF CountOtherMembers, TypeOK
<1>13. ASSUME DeleteOrganization(r) PROVE TypeOK'
  <2>1. request' \in [Requests -> Request] BY <1>13, EndType DEF DeleteOrganization, TypeOK
  <2>2. NoInvitation \in InvitationRow BY DEF NoInvitation, InvitationRow, OrganizationRole
  <2> QED BY <1>13, <2>1, <2>2 DEF DeleteOrganization, TypeOK
<1> QED BY <1>1, <1>2, <1>3, <1>4, <1>5, <1>6, <1>7, <1>8, <1>9, <1>10, <1>11, <1>12, <1>13
        DEF Advance

LEMMA StepType ==
  ASSUME TypeOK, LocalsSet, [Next]_vars
  PROVE  TypeOK'
<1>1. ASSUME NEW u \in Users, CreateOrganization(u) PROVE TypeOK'
  <2> DEFINE row == [user |-> u, via |-> Founding]
  <2>1. row \in Row /\ "ADMIN" \in OrganizationRole BY DEF Row, OrganizationRole
  <2>2. membership' = [m \in {row} |-> "ADMIN"] BY <1>1 DEF CreateOrganization
  <2>3. DOMAIN membership' = {row} /\ membership' \in [DOMAIN membership' -> OrganizationRole]
    BY <2>1, <2>2
  <2> QED BY <1>1, <2>1, <2>3 DEF CreateOrganization, TypeOK
<1>2. ASSUME NEW i \in Invitations, Expire(i) PROVE TypeOK'
  BY <1>2 DEF Expire, TypeOK, InvitationRow
<1>3. ASSUME NEW r \in Requests, Arrive(r) PROVE TypeOK'
  BY <1>3, ArriveType
<1>4. ASSUME NEW r \in Requests, Advance(r) PROVE TypeOK'
  BY <1>4, AdvanceType
<1>5. ASSUME NEW r \in Requests, Fail(r) PROVE TypeOK'
  BY <1>5, EndType DEF Fail, TypeOK
<1>6. CASE UNCHANGED vars
  BY <1>6 DEF vars, TypeOK
<1> QED BY <1>1, <1>2, <1>3, <1>4, <1>5, <1>6 DEF Next

(***************************************************************************)
(* Acceptance: the locks and what they keep.  First the steps that leave   *)
(* the invitations alone, by what the worker's new locals have to satisfy. *)
(***************************************************************************)
Admissible(r, locals) ==
  /\ locals.op = "update" => locals.row \in Row
  /\ locals.op \in {"invite", "revoke", "accept"} => locals.inv \in Invitations
  /\ locals.op = "accept" => locals.actor \in Users
  /\ locals.op = "invite" =>
       /\ ~invitation[locals.inv].issued
       /\ \A q \in Requests \ {r} : ~(request[q].op = "invite" /\ request[q].inv = locals.inv)
  /\ locals.pc \in {"locked", "seated"} =>
       /\ locals.op = "accept"
       /\ invitation[locals.inv].issued
       /\ ~invitation[locals.inv].revoked
       /\ invitation[locals.inv].accepted_by = Nobody
       /\ \A q \in Requests \ {r} : ~HoldsRowLocks(q)

LEMMA IdleAdmissible == ASSUME NEW r \in Requests PROVE Admissible(r, Idle)
BY DEF Admissible, Idle

LEMMA ContinueKeeps ==
  ASSUME AcceptanceInv, NEW r \in Requests, NEW locals, Continue(r, locals),
         Admissible(r, locals), UNCHANGED <<organization, invitation>>
  PROVE  /\ LocalsSet' /\ IdentifiersFresh' /\ OneAcceptance'
         /\ LockedInvitationOpen' /\ InvitationTable'
<1> request \in [Requests -> Request] BY DEF AcceptanceInv, TypeOK
<1>1. request'[r] = locals /\ \A q \in Requests \ {r} : request'[q] = request[q]
  BY DEF Continue
<1>2. LocalsSet'
  BY <1>1 DEF AcceptanceInv, LocalsSet, Admissible, HoldsRowLocks
<1>3. IdentifiersFresh'
  BY <1>1 DEF AcceptanceInv, IdentifiersFresh, Admissible
<1>4. OneAcceptance'
  BY <1>1 DEF AcceptanceInv, OneAcceptance, Admissible, HoldsRowLocks
<1>5. LockedInvitationOpen'
  BY <1>1 DEF AcceptanceInv, LockedInvitationOpen, Admissible, HoldsRowLocks
<1>6. InvitationTable'
  BY DEF AcceptanceInv, InvitationTable
<1> QED BY <1>2, <1>3, <1>4, <1>5, <1>6

(* The locals a request holds are admissible, and stay so as long as its    *)
(* counter does not enter the locked section.                               *)
LEMMA HeldAdmissible ==
  ASSUME AcceptanceInv, NEW r \in Requests, NEW locals,
         locals.op = request[r].op, locals.row = request[r].row, locals.inv = request[r].inv,
         locals.op = "accept" => locals.actor = request[r].actor,
         locals.pc \in {"locked", "seated"} => HoldsRowLocks(r)
  PROVE  Admissible(r, locals)
BY DEF AcceptanceInv, LocalsSet, IdentifiersFresh, OneAcceptance, LockedInvitationOpen,
       HoldsRowLocks, Admissible

LEMMA UnblockedMeansAlone ==
  ASSUME NEW r \in Requests, Unblocked(r)
  PROVE  \A q \in Requests \ {r} : ~HoldsRowLocks(q)
BY DEF Unblocked, InAtomic

Started(r, locals) ==
  Continue(r, locals) /\ Admissible(r, locals) /\ locals.pc \notin {"locked", "seated"}

(* A request arrives with admissible locals, outside every lock. *)
LEMMA ArriveLocals ==
  ASSUME AcceptanceInv, NEW r \in Requests, Arrive(r)
  PROVE  \E locals : Started(r, locals)
<1>1. ASSUME NEW a \in Users, NEW m \in DOMAIN membership, NEW role \in OfferedRoles,
             LoadForUpdate(r, a, m, role)
      PROVE  \E locals : Started(r, locals)
  <2> DEFINE l == [Idle EXCEPT !.pc = "loaded", !.op = "update", !.actor = a,
                               !.row = m, !.seen = membership[m], !.role = role]
  <2>1. m \in Row BY DEF AcceptanceInv, TypeOK
  <2>2. l.op = "update" /\ l.row = m /\ l.pc = "loaded" BY DEF Idle
  <2>3. Admissible(r, l) /\ l.pc \notin {"locked", "seated"} BY <2>1, <2>2 DEF Admissible
  <2> QED BY <1>1, <2>3 DEF LoadForUpdate, Begin, Started
<1>2. ASSUME NEW a \in Users, NEW m \in DOMAIN membership, LoadForRemoval(r, a, m)
      PROVE  \E locals : Started(r, locals)
  <2> DEFINE l == [Idle EXCEPT !.pc = "loaded", !.op = "remove", !.actor = a,
                               !.row = m, !.seen = membership[m]]
  <2>1. l.op = "remove" /\ l.pc = "loaded" BY DEF Idle
  <2>2. Admissible(r, l) /\ l.pc \notin {"locked", "seated"} BY <2>1 DEF Admissible
  <2> QED BY <1>2, <2>2 DEF LoadForRemoval, Begin, Started
<1>3. ASSUME NEW a \in Users, NEW i \in Invitations, NEW role \in OfferedRoles,
             AuthorizeInvitation(r, a, i, role)
      PROVE  \E locals : Started(r, locals)
  <2> DEFINE l == [Idle EXCEPT !.pc = "allowed", !.op = "invite", !.inv = i, !.role = role]
  <2>1. l.op = "invite" /\ l.pc = "allowed" /\ l.inv = i BY DEF Idle
  <2>2. Admissible(r, l) /\ l.pc \notin {"locked", "seated"} BY <1>3, <2>1 DEF Admissible, AuthorizeInvitation
  <2> QED BY <1>3, <2>2 DEF AuthorizeInvitation, Begin, Started
<1>4. ASSUME NEW a \in Users, NEW i \in Invitations, LoadForRevocation(r, a, i)
      PROVE  \E locals : Started(r, locals)
  <2> DEFINE l == [Idle EXCEPT !.pc = "loaded", !.op = "revoke", !.inv = i]
  <2>1. l.op = "revoke" /\ l.pc = "loaded" /\ l.inv = i BY DEF Idle
  <2>2. Admissible(r, l) /\ l.pc \notin {"locked", "seated"} BY <2>1 DEF Admissible
  <2> QED BY <1>4, <2>2 DEF LoadForRevocation, Begin, Started
<1>5. ASSUME NEW a \in Users, NEW i \in Invitations, ResolveToken(r, a, i)
      PROVE  \E locals : Started(r, locals)
  <2> DEFINE l == [Idle EXCEPT !.pc = "resolved", !.op = "accept", !.actor = a, !.inv = i]
  <2>1. l.op = "accept" /\ l.pc = "resolved" /\ l.inv = i /\ l.actor = a BY DEF Idle
  <2>2. Admissible(r, l) /\ l.pc \notin {"locked", "seated"} BY <2>1 DEF Admissible
  <2> QED BY <1>5, <2>2 DEF ResolveToken, Begin, Started
<1>6. ASSUME NEW a \in Users, AuthorizeDeletion(r, a)
      PROVE  \E locals : Started(r, locals)
  <2> DEFINE l == [Idle EXCEPT !.pc = "allowed", !.op = "delete", !.actor = a]
  <2>1. l.op = "delete" /\ l.pc = "allowed" BY DEF Idle
  <2>2. Admissible(r, l) /\ l.pc \notin {"locked", "seated"} BY <2>1 DEF Admissible
  <2> QED BY <1>6, <2>2 DEF AuthorizeDeletion, Begin, Started
<1> QED BY <1>1, <1>2, <1>3, <1>4, <1>5, <1>6 DEF Arrive

LEMMA ArriveAcceptance ==
  ASSUME AcceptanceInv, NEW r \in Requests, Arrive(r)
  PROVE  AcceptanceInv'
BY ArriveType, ArriveLocals, ContinueKeeps DEF AcceptanceInv, Started

(* A step that ends its request and touches the invitations: no other       *)
(* request's row may change under a lock, or lose its freshness.            *)
LEMMA EndKeeps ==
  ASSUME AcceptanceInv, NEW r \in Requests, End(r), TypeOK', InvitationTable',
         \A q \in Requests \ {r} :
           /\ HoldsRowLocks(q) => invitation'[request[q].inv] = invitation[request[q].inv]
           /\ request[q].op = "invite" =>
                invitation'[request[q].inv].issued = invitation[request[q].inv].issued
  PROVE  AcceptanceInv'
<1> request \in [Requests -> Request] BY DEF AcceptanceInv, TypeOK
<1>1. request'[r] = Idle /\ \A q \in Requests \ {r} : request'[q] = request[q]
  BY DEF End, Continue
<1>2. Idle.op = "none" /\ Idle.pc = "idle" BY DEF Idle
<1>3. LocalsSet'
  BY <1>1, <1>2 DEF AcceptanceInv, LocalsSet, HoldsRowLocks
<1>4. IdentifiersFresh'
  BY <1>1, <1>2 DEF AcceptanceInv, IdentifiersFresh
<1>5. OneAcceptance'
  BY <1>1, <1>2 DEF AcceptanceInv, OneAcceptance, HoldsRowLocks
<1>6. LockedInvitationOpen'
  BY <1>1, <1>2 DEF AcceptanceInv, LockedInvitationOpen, HoldsRowLocks
<1> QED BY <1>3, <1>4, <1>5, <1>6 DEF AcceptanceInv

LEMMA AdvanceAcceptance ==
  ASSUME AcceptanceInv, NEW r \in Requests, Advance(r)
  PROVE  AcceptanceInv'
<1> request[r] \in Request BY DEF AcceptanceInv, TypeOK
<1>0. TypeOK' BY AdvanceType DEF AcceptanceInv
<1>a. ASSUME NEW locals, Continue(r, locals), Admissible(r, locals),
             UNCHANGED <<organization, invitation>>
      PROVE  AcceptanceInv'
  BY <1>0, <1>a, ContinueKeeps DEF AcceptanceInv
<1>b. ASSUME End(r), UNCHANGED <<organization, invitation>> PROVE AcceptanceInv'
  BY <1>a, <1>b, IdleAdmissible DEF End
<1>1. ASSUME RequireManagePermission(r) PROVE AcceptanceInv'
  <2> DEFINE l == [request[r] EXCEPT !.pc = "allowed", !.actor = Nobody]
  <2>1. /\ l.op = request[r].op /\ l.row = request[r].row /\ l.inv = request[r].inv
        /\ l.pc = "allowed" /\ l.op # "accept"
    BY <1>1 DEF RequireManagePermission, At, Request
  <2>2. Admissible(r, l) BY <2>1, HeldAdmissible
  <2> QED BY <1>1, <1>a, <1>b, <2>2 DEF RequireManagePermission
<1>2. ASSUME CountAdmins(r) PROVE AcceptanceInv'
  <2> DEFINE l == [request[r] EXCEPT !.pc = "counted", !.seen = "USER"]
  <2>1. /\ l.op = request[r].op /\ l.row = request[r].row /\ l.inv = request[r].inv
        /\ l.pc = "counted" /\ l.op # "accept"
    BY <1>2 DEF CountAdmins, At, Request
  <2>2. Admissible(r, l) BY <2>1, HeldAdmissible
  <2> QED BY <1>2, <1>a, <1>b, <2>2 DEF CountAdmins
<1>3. ASSUME SaveRole(r) \/ ReinsertRow(r) \/ ReinsertRefused(r) \/ DeleteRow(r)
      PROVE  AcceptanceInv'
  BY <1>3, <1>b DEF SaveRole, ReinsertRow, ReinsertRefused, DeleteRow
<1>4. ASSUME IssueInvitation(r) PROVE AcceptanceInv'
  <2>1. InvitationTable'
    BY <1>4 DEF AcceptanceInv, LocalsSet, TypeOK, NoInvitation, InvitationTable, IssueInvitation, At
  <2>2. ASSUME NEW q \in Requests \ {r}
        PROVE  /\ ~HoldsRowLocks(q)
               /\ request[q].op = "invite" => request[q].inv # request[r].inv
    BY <1>4, UnblockedMeansAlone DEF IssueInvitation, At, AcceptanceInv, IdentifiersFresh
  <2>3. ASSUME NEW j \in Invitations, j # request[r].inv PROVE invitation'[j] = invitation[j]
    BY <1>4, <2>3 DEF IssueInvitation, AcceptanceInv, TypeOK
  <2>4. ASSUME NEW q \in Requests \ {r}, request[q].op = "invite"
        PROVE  request[q].inv \in Invitations
    BY <2>4 DEF AcceptanceInv, LocalsSet
  <2> QED BY <1>0, <1>4, <2>1, <2>2, <2>3, <2>4, EndKeeps DEF IssueInvitation
<1>5. ASSUME SaveRevoked(r) PROVE AcceptanceInv'
  <2>1. InvitationTable'
    BY <1>5 DEF AcceptanceInv, TypeOK, InvitationRow, InvitationTable, SaveRevoked
  <2>2. ASSUME NEW q \in Requests \ {r}, HoldsRowLocks(q)
        PROVE  request[q].inv # request[r].inv
    BY <1>5, <2>2, UnblockedMeansAlone DEF SaveRevoked, InvitationUnblocked
  <2>3. ASSUME NEW j \in Invitations
        PROVE  /\ j # request[r].inv => invitation'[j] = invitation[j]
               /\ invitation'[j].issued = invitation[j].issued
    BY <1>5, <2>3 DEF SaveRevoked, AcceptanceInv, TypeOK, InvitationRow
  <2>4. ASSUME NEW q \in Requests \ {r}, request[q].op = "invite" \/ HoldsRowLocks(q)
        PROVE  request[q].inv \in Invitations
    BY <2>4 DEF AcceptanceInv, LocalsSet
  <2> QED BY <1>0, <1>5, <2>1, <2>2, <2>3, <2>4, EndKeeps DEF SaveRevoked
<1>6. ASSUME LockInvitation(r) PROVE AcceptanceInv'
  <2> DEFINE l == [request[r] EXCEPT !.pc = "locked"]
  <2>1. CASE Acceptable(invitation[request[r].inv])
    <3>1. /\ l.op = "accept" /\ l.pc = "locked" /\ l.actor = request[r].actor
          /\ l.inv = request[r].inv
      BY <1>6 DEF LockInvitation, At, Request
    <3>2. request[r].inv \in Invitations /\ request[r].actor \in Users
      BY <1>6 DEF LockInvitation, At, AcceptanceInv, LocalsSet
    <3>3. Admissible(r, l)
      BY <1>6, <2>1, <3>1, <3>2, UnblockedMeansAlone DEF LockInvitation, Acceptable, Admissible
    <3> QED BY <1>6, <2>1, <1>a, <3>3 DEF LockInvitation, Goto
  <2> QED BY <1>6, <2>1, <1>b DEF LockInvitation
<1>7. ASSUME CountSeats(r) PROVE AcceptanceInv'
  <2> DEFINE l == [request[r] EXCEPT !.pc = "seated"]
  <2>1. /\ l.op = request[r].op /\ l.row = request[r].row /\ l.inv = request[r].inv
        /\ l.actor = request[r].actor /\ HoldsRowLocks(r)
    BY <1>7 DEF CountSeats, At, Request, HoldsRowLocks
  <2>2. Admissible(r, l) BY <2>1, HeldAdmissible
  <2> QED BY <1>7, <1>a, <1>b, <2>2 DEF CountSeats, Goto
<1>8. ASSUME Join(r) PROVE AcceptanceInv'
  <2>1. HoldsRowLocks(r) BY <1>8 DEF Join, At, HoldsRowLocks
  <2>2. request[r].inv \in Invitations /\ invitation[request[r].inv].issued
    BY <1>8, <2>1 DEF Join, At, AcceptanceInv, LocalsSet, LockedInvitationOpen
  <2>3. ASSUME NEW j \in Invitations
        PROVE  invitation'[j].issued = invitation[j].issued
    BY <1>8, <2>3 DEF Join, AcceptanceInv, TypeOK, InvitationRow
  <2>4. InvitationTable'
    <3>1. \A j \in Invitations : j # request[r].inv => invitation'[j] = invitation[j]
      BY <1>8 DEF Join, AcceptanceInv, TypeOK
    <3> QED BY <1>8, <2>2, <2>3, <3>1 DEF Join, AcceptanceInv, InvitationTable
  <2>5. ASSUME NEW q \in Requests \ {r}
        PROVE  /\ ~HoldsRowLocks(q)
               /\ request[q].op = "invite" => request[q].inv \in Invitations
    BY <2>1 DEF AcceptanceInv, OneAcceptance, LocalsSet
  <2> QED BY <1>0, <1>8, <2>3, <2>4, <2>5, EndKeeps DEF Join
<1>9. ASSUME CountOtherMembers(r) PROVE AcceptanceInv'
  <2> DEFINE l == [request[r] EXCEPT !.pc = "counted"]
  <2>1. /\ l.op = request[r].op /\ l.row = request[r].row /\ l.inv = request[r].inv
        /\ l.pc = "counted" /\ l.op # "accept"
    BY <1>9 DEF CountOtherMembers, At, Request
  <2>2. Admissible(r, l) BY <2>1, HeldAdmissible
  <2> QED BY <1>9, <1>a, <1>b, <2>2 DEF CountOtherMembers, Goto
<1>10. ASSUME DeleteOrganization(r) PROVE AcceptanceInv'
  <2>1. \A j \in Invitations : /\ ~invitation'[j].issued /\ ~invitation'[j].revoked
                               /\ invitation'[j].accepted_by = Nobody
    BY <1>10 DEF DeleteOrganization, NoInvitation
  <2>2. ASSUME NEW q \in Requests \ {r}
        PROVE  /\ ~HoldsRowLocks(q)
               /\ request[q].op = "invite" =>
                    request[q].inv \in Invitations /\ ~invitation[request[q].inv].issued
    BY <1>10, UnblockedMeansAlone
       DEF DeleteOrganization, AcceptanceInv, LocalsSet, IdentifiersFresh
  <2>3. \A j \in Invitations : invitation[j].issued \in BOOLEAN /\ invitation'[j].issued \in BOOLEAN
    BY <1>0 DEF AcceptanceInv, TypeOK, InvitationRow
  <2> QED BY <1>0, <1>10, <2>1, <2>2, <2>3, EndKeeps
          DEF DeleteOrganization, InvitationTable
<1> QED BY <1>1, <1>2, <1>3, <1>4, <1>5, <1>6, <1>7, <1>8, <1>9, <1>10 DEF Advance

LEMMA InitAcceptance == Init => AcceptanceInv
<1> SUFFICES ASSUME Init PROVE AcceptanceInv OBVIOUS
<1>1. NoInvitation \in InvitationRow BY DEF NoInvitation, InvitationRow, OrganizationRole
<1>2. TypeOK BY <1>1, IdleType DEF Init, TypeOK
<1>3. \A r \in Requests : request[r].op = "none" /\ request[r].pc = "idle"
  BY DEF Init, Idle
<1>4. \A i \in Invitations : /\ ~invitation[i].issued /\ ~invitation[i].revoked
                            /\ invitation[i].accepted_by = Nobody
  BY DEF Init, NoInvitation
<1> QED BY <1>2, <1>3, <1>4
        DEF AcceptanceInv, LocalsSet, IdentifiersFresh, OneAcceptance, LockedInvitationOpen,
            InvitationTable, HoldsRowLocks

LEMMA StepAcceptance == AcceptanceInv /\ [Next]_vars => AcceptanceInv'
<1> SUFFICES ASSUME AcceptanceInv, [Next]_vars PROVE AcceptanceInv' OBVIOUS
<1>0. TypeOK' BY StepType DEF AcceptanceInv
<1>1. ASSUME NEW u \in Users, CreateOrganization(u) PROVE AcceptanceInv'
  BY <1>0, <1>1
     DEF CreateOrganization, AcceptanceInv, LocalsSet, IdentifiersFresh, OneAcceptance,
         LockedInvitationOpen, InvitationTable, HoldsRowLocks
<1>2. ASSUME NEW i \in Invitations, Expire(i) PROVE AcceptanceInv'
  <2>1. \A j \in Invitations : /\ invitation'[j].issued = invitation[j].issued
                               /\ invitation'[j].revoked = invitation[j].revoked
                               /\ invitation'[j].accepted_by = invitation[j].accepted_by
    BY <1>2 DEF Expire, AcceptanceInv, TypeOK, InvitationRow
  <2>2. UNCHANGED <<organization, request>> BY <1>2 DEF Expire
  <2>3. LocalsSet' /\ OneAcceptance'
    BY <2>2 DEF AcceptanceInv, LocalsSet, OneAcceptance, HoldsRowLocks
  <2>4. IdentifiersFresh' /\ LockedInvitationOpen' /\ InvitationTable'
    BY <2>1, <2>2 DEF AcceptanceInv, LocalsSet, IdentifiersFresh, LockedInvitationOpen,
                      InvitationTable, HoldsRowLocks
  <2> QED BY <1>0, <2>3, <2>4 DEF AcceptanceInv
<1>3. ASSUME NEW r \in Requests, Arrive(r) PROVE AcceptanceInv' BY <1>3, ArriveAcceptance
<1>4. ASSUME NEW r \in Requests, Advance(r) PROVE AcceptanceInv' BY <1>4, AdvanceAcceptance
<1>5. ASSUME NEW r \in Requests, Fail(r) PROVE AcceptanceInv'
  BY <1>0, <1>5, ContinueKeeps, IdleAdmissible DEF Fail, End, AcceptanceInv
<1>6. CASE UNCHANGED vars
  BY <1>6 DEF vars, AcceptanceInv, TypeOK, LocalsSet, IdentifiersFresh, OneAcceptance,
              LockedInvitationOpen, InvitationTable, HoldsRowLocks
<1> QED BY <1>1, <1>2, <1>3, <1>4, <1>5, <1>6 DEF Next

(* Every reachable state is well-typed, and the locks of acceptance hold.   *)
THEOREM AcceptanceHolds == Spec => []AcceptanceInv
BY InitAcceptance, StepAcceptance, PTL DEF Spec

THEOREM TypeCorrect == Spec => []TypeOK
<1>1. AcceptanceInv => TypeOK BY DEF AcceptanceInv
<1> QED BY <1>1, AcceptanceHolds, PTL

(***************************************************************************)
(* Seats.  Consented is the set of rows that acceptance made.  Every step  *)
(* but Join and the founding shrinks it or leaves it.                      *)
(***************************************************************************)
Consented == DOMAIN membership \ revived

LEMMA CeilingIsNat == max_seats(OrgPlan) \subseteq {3, 5, 25}
BY DEF max_seats

LEMMA ShrinkKeeps ==
  ASSUME SeatInv, AcceptanceInv', IsFiniteSet(DOMAIN membership'), Consented' \subseteq Consented,
         \A q \in Requests : request'[q].pc = "seated" =>
             \/ request[q].pc = "seated"
             \/ Fits(Cardinality(Consented), max_seats(OrgPlan))
  PROVE  SeatInv'
<1>1. IsFiniteSet(Consented) BY FS_Difference DEF SeatInv, Consented
<1>2. /\ Cardinality(Consented') <= Cardinality(Consented)
      /\ Cardinality(Consented) \in Nat /\ Cardinality(Consented') \in Nat
  BY <1>1, FS_Subset, FS_CardinalityType
<1>3. \A limit \in max_seats(OrgPlan) : limit \in Nat BY CeilingIsNat
<1>4. SeatsTakenWithinPlan'
  BY <1>2, <1>3 DEF SeatInv, SeatsTakenWithinPlan, Consented
<1>5. CountedSeatFree'
  <2>1. ASSUME NEW q \in Requests, request'[q].pc = "seated"
        PROVE  Fits(Cardinality(Consented'), max_seats(OrgPlan))
    <3>1. Fits(Cardinality(Consented), max_seats(OrgPlan))
      BY <2>1 DEF SeatInv, CountedSeatFree, Consented
    <3> QED BY <3>1, <1>2, <1>3 DEF Fits
  <2> QED BY <2>1 DEF CountedSeatFree, Consented
<1> QED BY <1>4, <1>5 DEF SeatInv

LEMMA InitSeats == Init => SeatInv
<1> SUFFICES ASSUME Init PROVE SeatInv OBVIOUS
<1>1. DOMAIN membership = {} BY DEF Init
<1>2. IsFiniteSet({}) /\ Cardinality({}) = 0 BY FS_EmptySet
<1>3. \A limit \in max_seats(OrgPlan) : 0 <= limit BY CeilingIsNat
<1>4. {} \ revived = {} OBVIOUS
<1>5. CountedSeatFree BY DEF Init, Idle, CountedSeatFree
<1> QED BY <1>1, <1>2, <1>3, <1>4, <1>5, InitAcceptance DEF SeatInv, SeatsTakenWithinPlan

(* Only CountSeats leads into "seated". *)
LEMMA SeatedOnlyAfterCount ==
  ASSUME AcceptanceInv, NEW r \in Requests, Arrive(r) \/ Fail(r) \/ (Advance(r) /\ ~CountSeats(r))
  PROVE  \A q \in Requests : request'[q].pc = "seated" => request[q].pc = "seated"
<1> request \in [Requests -> Request] BY DEF AcceptanceInv, TypeOK
<1>a. ASSUME NEW locals, Continue(r, locals), locals.pc # "seated"
      PROVE  \A q \in Requests : request'[q].pc = "seated" => request[q].pc = "seated"
  BY <1>a DEF Continue
<1>1. Idle.pc = "idle" BY DEF Idle
<1>2. ASSUME End(r) PROVE \A q \in Requests : request'[q].pc = "seated" => request[q].pc = "seated"
  BY <1>1, <1>2, <1>a DEF End
<1>3. CASE Arrive(r)
  BY <1>3, <1>a, ArriveLocals DEF Started
<1>4. CASE Fail(r) BY <1>2, <1>4 DEF Fail
<1>5. CASE Advance(r) /\ ~CountSeats(r)
  <2>0. request[r] \in Request OBVIOUS
  <2>1. /\ [request[r] EXCEPT !.pc = "allowed", !.actor = Nobody].pc = "allowed"
        /\ [request[r] EXCEPT !.pc = "counted", !.seen = "USER"].pc = "counted"
        /\ [request[r] EXCEPT !.pc = "locked"].pc = "locked"
        /\ [request[r] EXCEPT !.pc = "counted"].pc = "counted"
    BY <2>0 DEF Request
  <2>2. End(r) \/ \E locals : Continue(r, locals) /\ locals.pc # "seated"
    BY <1>5, <2>1
       DEF Advance, RequireManagePermission, CountAdmins, SaveRole, ReinsertRow, ReinsertRefused,
           DeleteRow, IssueInvitation, SaveRevoked, LockInvitation, Join, CountOtherMembers,
           DeleteOrganization, Goto
  <2> QED BY <2>2, <1>2, <1>a
<1> QED BY <1>3, <1>4, <1>5

LEMMA StepSeats == SeatInv /\ [Next]_vars => SeatInv'
<1> SUFFICES ASSUME SeatInv, [Next]_vars PROVE SeatInv' OBVIOUS
<1> AcceptanceInv /\ IsFiniteSet(DOMAIN membership) BY DEF SeatInv
<1>0. AcceptanceInv' BY StepAcceptance
<1>c. \A limit \in max_seats(OrgPlan) : limit \in {3, 5, 25} BY CeilingIsNat
<1>k. ASSUME UNCHANGED <<membership, revived>>,
             \A q \in Requests : request'[q].pc = "seated" => request[q].pc = "seated"
      PROVE  SeatInv'
  BY <1>0, <1>k, ShrinkKeeps DEF Consented
<1>1. ASSUME NEW u \in Users, CreateOrganization(u) PROVE SeatInv'
  <2> DEFINE row == [user |-> u, via |-> Founding]
  <2>1. DOMAIN membership' = {row} /\ UNCHANGED <<request, revived>>
    BY <1>1 DEF CreateOrganization
  <2>2. IsFiniteSet({row}) /\ Cardinality({row}) = 1 BY FS_Singleton
  <2>3. Consented' \subseteq {row} BY <2>1 DEF Consented
  <2>4. Cardinality(Consented') \in Nat /\ Cardinality(Consented') <= 1
    BY <2>2, <2>3, FS_Subset, FS_CardinalityType
  <2>5. SeatsTakenWithinPlan' BY <1>c, <2>4 DEF SeatsTakenWithinPlan, Consented
  <2>6. CountedSeatFree' BY <1>c, <2>4 DEF CountedSeatFree, Fits, Consented
  <2> QED BY <1>0, <2>1, <2>2, <2>5, <2>6 DEF SeatInv
<1>2. ASSUME NEW i \in Invitations, Expire(i) PROVE SeatInv'
  BY <1>2, <1>k DEF Expire
<1>3. ASSUME NEW r \in Requests, Arrive(r) PROVE SeatInv'
  BY <1>3, <1>k, ArriveType, SeatedOnlyAfterCount DEF AcceptanceInv
<1>4. ASSUME NEW r \in Requests, Fail(r) PROVE SeatInv'
  BY <1>4, <1>k, SeatedOnlyAfterCount DEF Fail
<1>5. ASSUME NEW r \in Requests, CountSeats(r) PROVE SeatInv'
  <2>1. UNCHANGED <<membership, revived>> BY <1>5 DEF CountSeats
  <2>2. CASE Fits(Cardinality(DOMAIN membership), max_seats(OrgPlan))
    <3>1. /\ Cardinality(Consented) <= Cardinality(DOMAIN membership)
          /\ Cardinality(Consented) \in Nat /\ Cardinality(DOMAIN membership) \in Nat
      BY FS_Subset, FS_CardinalityType, FS_Difference DEF Consented
    <3>2. Fits(Cardinality(Consented), max_seats(OrgPlan))
      BY <1>c, <2>2, <3>1 DEF Fits
    <3> QED BY <1>0, <2>1, <3>2, ShrinkKeeps DEF Consented
  <2>3. CASE End(r)
    <3>1. \A q \in Requests : request'[q].pc = "seated" => request[q].pc = "seated"
      BY <2>3 DEF End, Continue, Idle, AcceptanceInv, TypeOK
    <3> QED BY <1>k, <2>1, <3>1
  <2> QED BY <1>5, <2>2, <2>3 DEF CountSeats
<1>6. ASSUME NEW r \in Requests, Advance(r), ~CountSeats(r), ~Join(r) PROVE SeatInv'
  <2>1. \A q \in Requests : request'[q].pc = "seated" => request[q].pc = "seated"
    BY <1>6, SeatedOnlyAfterCount
  <2>2. ASSUME SaveRole(r) PROVE SeatInv'
    <3>1. DOMAIN membership' = DOMAIN membership /\ revived' = revived
      BY <2>2 DEF SaveRole, AcceptanceInv, TypeOK
    <3> QED BY <1>0, <2>1, <3>1, ShrinkKeeps DEF Consented
  <2>3. ASSUME ReinsertRow(r) PROVE SeatInv'
    <3>1. /\ DOMAIN membership' = DOMAIN membership \cup {request[r].row}
          /\ revived' = revived \cup {request[r].row}
      BY <2>3 DEF ReinsertRow
    <3>2. IsFiniteSet(DOMAIN membership') BY <3>1, FS_AddElement
    <3> QED BY <1>0, <2>1, <3>1, <3>2, ShrinkKeeps DEF Consented
  <2>4. ASSUME DeleteRow(r) PROVE SeatInv'
    <3>1. /\ DOMAIN membership' = DOMAIN membership \ {request[r].row}
          /\ revived' = revived \ {request[r].row}
      BY <2>4 DEF DeleteRow
    <3>2. IsFiniteSet(DOMAIN membership') BY <3>1, FS_Difference
    <3> QED BY <1>0, <2>1, <3>1, <3>2, ShrinkKeeps DEF Consented
  <2>5. ASSUME DeleteOrganization(r) PROVE SeatInv'
    <3>1. DOMAIN membership' = {} BY <2>5 DEF DeleteOrganization
    <3>2. IsFiniteSet({}) BY FS_EmptySet
    <3> QED BY <1>0, <2>1, <3>1, <3>2, ShrinkKeeps DEF Consented
  <2> QED BY <1>6, <1>k, <2>1, <2>2, <2>3, <2>4, <2>5
          DEF Advance, RequireManagePermission, CountAdmins, ReinsertRefused, IssueInvitation,
              SaveRevoked, LockInvitation, CountOtherMembers
<1>7. ASSUME NEW r \in Requests, Join(r) PROVE SeatInv'
  <2> DEFINE row == [user |-> request[r].actor, via |-> request[r].inv]
  <2>1. DOMAIN membership' = DOMAIN membership \cup {row} /\ revived' = revived
    BY <1>7 DEF Join
  <2>2. IsFiniteSet(DOMAIN membership') BY <2>1, FS_AddElement
  <2>3. Fits(Cardinality(Consented), max_seats(OrgPlan))
    BY <1>7 DEF Join, At, SeatInv, CountedSeatFree, Consented
  <2>4. IsFiniteSet(Consented) BY FS_Difference DEF Consented
  <2>5. Consented' \subseteq Consented \cup {row} BY <2>1 DEF Consented
  <2>6. /\ IsFiniteSet(Consented \cup {row})
        /\ Cardinality(Consented \cup {row}) <= Cardinality(Consented) + 1
        /\ Cardinality(Consented) \in Nat
    <3>1. Cardinality(Consented) \in Nat BY <2>4, FS_CardinalityType
    <3>2. /\ IsFiniteSet(Consented \cup {row})
          /\ \/ Cardinality(Consented \cup {row}) = Cardinality(Consented)
             \/ Cardinality(Consented \cup {row}) = Cardinality(Consented) + 1
      BY <2>4, FS_AddElement, Zenon
    <3> QED BY <3>1, <3>2
  <2>7. /\ Cardinality(Consented') <= Cardinality(Consented) + 1
        /\ Cardinality(Consented') \in Nat
    BY <2>5, <2>6, FS_Subset, FS_CardinalityType
  <2>8. SeatsTakenWithinPlan'
    BY <1>c, <2>3, <2>6, <2>7 DEF Fits, SeatsTakenWithinPlan, Consented
  <2>9. \A q \in Requests : request'[q].pc # "seated"
    <3>1. HoldsRowLocks(r) BY <1>7 DEF Join, At, HoldsRowLocks
    <3>2. \A q \in Requests \ {r} : ~HoldsRowLocks(q)
      BY <3>1 DEF AcceptanceInv, OneAcceptance
    <3> QED BY <1>7, <3>2 DEF Join, End, Continue, Idle, HoldsRowLocks, AcceptanceInv, TypeOK
  <2> QED BY <1>0, <2>2, <2>8, <2>9 DEF SeatInv, CountedSeatFree
<1>8. CASE UNCHANGED vars BY <1>8, <1>k DEF vars
<1> QED BY <1>1, <1>2, <1>3, <1>4, <1>5, <1>6, <1>7, <1>8 DEF Next

(* Whatever requests overlap, acceptances never take more seats than the    *)
(* plan has.                                                                *)
THEOREM SeatsHold == Spec => []SeatsTakenWithinPlan
<1>1. SeatInv => SeatsTakenWithinPlan BY DEF SeatInv
<1> QED BY <1>1, InitSeats, StepSeats, PTL DEF Spec

(***************************************************************************)
(* Every row traces to an invitation.                                      *)
(***************************************************************************)
LEMMA InitTrace == Init => TraceInv
<1> SUFFICES ASSUME Init PROVE TraceInv OBVIOUS
<1>1. DOMAIN membership = {} /\ \A r \in Requests : request[r].op # "update"
  BY DEF Init, Idle
<1> QED BY <1>1, InitAcceptance DEF TraceInv

(* A step that leaves the invitations alone and starts no role change on an *)
(* untraced row keeps the trace.                                            *)
LEMMA TraceKept ==
  ASSUME TraceInv, AcceptanceInv',
         \A i \in Invitations : /\ invitation'[i].issued = invitation[i].issued
                                /\ invitation'[i].accepted_by = invitation[i].accepted_by,
         \A m \in DOMAIN membership' : m \in Row /\ Traced(m),
         organization' # "deleted" => organization # "deleted",
         \A q \in Requests : request'[q].op = "update" =>
           request'[q].row \in DOMAIN membership \/ request'[q] = request[q]
             \/ (request[q].op = "update" /\ request'[q].row = request[q].row)
  PROVE  TraceInv'
<1>1. \A m \in Row : m.via = Founding \/ m.via \in Invitations BY DEF Row
<1>2. \A m \in Row : Traced(m) => Traced(m)'
  BY <1>1 DEF Traced
<1>3. ASSUME NEW q \in Requests, organization' # "deleted", request'[q].op = "update"
      PROVE  Traced(request[q].row)'
  <2>1. request'[q].row \in Row BY <1>3 DEF AcceptanceInv, LocalsSet
  <2>2. Traced(request'[q].row)
    BY <1>3 DEF TraceInv
  <2> QED BY <2>1, <2>2, <1>1 DEF Traced
<1>4. \A m \in DOMAIN membership' : Traced(m)' BY <1>2
<1> QED BY <1>3, <1>4 DEF TraceInv

LEMMA StepTrace == TraceInv /\ [Next]_vars => TraceInv'
<1> SUFFICES ASSUME TraceInv, [Next]_vars PROVE TraceInv' OBVIOUS
<1>t. AcceptanceInv /\ \A m \in DOMAIN membership : m \in Row /\ Traced(m)
  BY DEF TraceInv, AcceptanceInv, TypeOK
<1>0. AcceptanceInv' BY <1>t, StepAcceptance
<1> request \in [Requests -> Request] BY <1>t DEF AcceptanceInv, TypeOK
<1>e. ASSUME NEW r \in Requests, End(r)
      PROVE  \A q \in Requests : request'[q].op = "update" => request'[q] = request[q]
  BY <1>e DEF End, Continue, Idle
<1>k. ASSUME NEW r \in Requests, NEW locals, Continue(r, locals),
             UNCHANGED <<organization, membership, invitation>>,
             locals.op = "update" =>
               locals.row \in DOMAIN membership
                 \/ (request[r].op = "update" /\ locals.row = request[r].row)
      PROVE  TraceInv'
  BY <1>0, <1>t, <1>k, TraceKept DEF Continue
<1>i. ASSUME NEW r \in Requests, End(r), UNCHANGED <<organization, membership, invitation>>
      PROVE  TraceInv'
  BY <1>0, <1>t, <1>i, <1>e, TraceKept
<1>1. ASSUME NEW u \in Users, CreateOrganization(u) PROVE TraceInv'
  <2>1. \A m \in DOMAIN membership' : m \in Row /\ Traced(m)
    BY <1>1 DEF CreateOrganization, Traced, Row
  <2> QED BY <1>0, <1>1, <2>1, TraceKept DEF CreateOrganization
<1>2. ASSUME NEW i \in Invitations, Expire(i) PROVE TraceInv'
  <2>1. \A j \in Invitations : /\ invitation'[j].issued = invitation[j].issued
                               /\ invitation'[j].accepted_by = invitation[j].accepted_by
    BY <1>2, <1>t DEF Expire, AcceptanceInv, TypeOK, InvitationRow
  <2> QED BY <1>0, <1>2, <1>t, <2>1, TraceKept DEF Expire
<1>3. ASSUME NEW r \in Requests, Arrive(r) PROVE TraceInv'
  <2>0. UNCHANGED <<organization, membership, invitation>> BY <1>3, <1>t, ArriveType DEF AcceptanceInv
  <2>1. ASSUME NEW a \in Users, NEW m \in DOMAIN membership, NEW role \in OfferedRoles,
               LoadForUpdate(r, a, m, role)
        PROVE  TraceInv'
    <3> DEFINE l == [Idle EXCEPT !.pc = "loaded", !.op = "update", !.actor = a,
                                 !.row = m, !.seen = membership[m], !.role = role]
    <3>1. l.row = m BY DEF Idle
    <3> HIDE DEF l
    <3>2. Continue(r, l) BY <2>1 DEF LoadForUpdate, Begin, l
    <3> QED BY <2>0, <3>1, <3>2, <1>k
  <2>2. ASSUME NEW a \in Users, NEW m \in DOMAIN membership, LoadForRemoval(r, a, m)
        PROVE  TraceInv'
    <3> DEFINE l == [Idle EXCEPT !.pc = "loaded", !.op = "remove", !.actor = a,
                                 !.row = m, !.seen = membership[m]]
    <3>1. l.op # "update" BY DEF Idle
    <3> HIDE DEF l
    <3>2. Continue(r, l) BY <2>2 DEF LoadForRemoval, Begin, l
    <3> QED BY <2>0, <3>1, <3>2, <1>k
  <2>3. ASSUME NEW a \in Users, NEW i \in Invitations, NEW role \in OfferedRoles,
               AuthorizeInvitation(r, a, i, role)
        PROVE  TraceInv'
    <3> DEFINE l == [Idle EXCEPT !.pc = "allowed", !.op = "invite", !.inv = i, !.role = role]
    <3>1. l.op # "update" BY DEF Idle
    <3> HIDE DEF l
    <3>2. Continue(r, l) BY <2>3 DEF AuthorizeInvitation, Begin, l
    <3> QED BY <2>0, <3>1, <3>2, <1>k
  <2>4. ASSUME NEW a \in Users, NEW i \in Invitations, LoadForRevocation(r, a, i) PROVE TraceInv'
    <3> DEFINE l == [Idle EXCEPT !.pc = "loaded", !.op = "revoke", !.inv = i]
    <3>1. l.op # "update" BY DEF Idle
    <3> HIDE DEF l
    <3>2. Continue(r, l) BY <2>4 DEF LoadForRevocation, Begin, l
    <3> QED BY <2>0, <3>1, <3>2, <1>k
  <2>5. ASSUME NEW a \in Users, NEW i \in Invitations, ResolveToken(r, a, i) PROVE TraceInv'
    <3> DEFINE l == [Idle EXCEPT !.pc = "resolved", !.op = "accept", !.actor = a, !.inv = i]
    <3>1. l.op # "update" BY DEF Idle
    <3> HIDE DEF l
    <3>2. Continue(r, l) BY <2>5 DEF ResolveToken, Begin, l
    <3> QED BY <2>0, <3>1, <3>2, <1>k
  <2>6. ASSUME NEW a \in Users, AuthorizeDeletion(r, a) PROVE TraceInv'
    <3> DEFINE l == [Idle EXCEPT !.pc = "allowed", !.op = "delete", !.actor = a]
    <3>1. l.op # "update" BY DEF Idle
    <3> HIDE DEF l
    <3>2. Continue(r, l) BY <2>6 DEF AuthorizeDeletion, Begin, l
    <3> QED BY <2>0, <3>1, <3>2, <1>k
  <2> QED BY <1>3, <2>1, <2>2, <2>3, <2>4, <2>5, <2>6 DEF Arrive
<1>4. ASSUME NEW r \in Requests, Fail(r) PROVE TraceInv'
  BY <1>4, <1>i DEF Fail
<1>5. ASSUME NEW r \in Requests, Advance(r) PROVE TraceInv'
  <2>1. ASSUME RequireManagePermission(r) \/ CountAdmins(r) \/ LockInvitation(r)
                 \/ CountSeats(r) \/ CountOtherMembers(r)
        PROVE  TraceInv'
    <3>0. /\ UNCHANGED <<organization, membership, invitation>> /\ request[r] \in Request
      BY <2>1 DEF RequireManagePermission, CountAdmins, LockInvitation, CountSeats, CountOtherMembers
    <3>1. \/ End(r)
          \/ Continue(r, [request[r] EXCEPT !.pc = "allowed", !.actor = Nobody])
          \/ Continue(r, [request[r] EXCEPT !.pc = "counted", !.seen = "USER"])
          \/ \E pc : Continue(r, [request[r] EXCEPT !.pc = pc])
      BY <2>1 DEF RequireManagePermission, CountAdmins, LockInvitation, CountSeats,
                  CountOtherMembers, Goto
    <3>2. /\ [request[r] EXCEPT !.pc = "allowed", !.actor = Nobody].row = request[r].row
          /\ [request[r] EXCEPT !.pc = "allowed", !.actor = Nobody].op = request[r].op
          /\ [request[r] EXCEPT !.pc = "counted", !.seen = "USER"].row = request[r].row
          /\ [request[r] EXCEPT !.pc = "counted", !.seen = "USER"].op = request[r].op
          /\ \A pc : [request[r] EXCEPT !.pc = pc].row = request[r].row
          /\ \A pc : [request[r] EXCEPT !.pc = pc].op = request[r].op
      BY <3>0 DEF Request
    <3> QED BY <3>0, <3>1, <3>2, <1>i, <1>k
  <2>2. ASSUME SaveRole(r) PROVE TraceInv'
    <3>1. DOMAIN membership' = DOMAIN membership BY <2>2, <1>t DEF SaveRole
    <3> QED BY <1>0, <1>t, <1>e, <2>2, <3>1, TraceKept DEF SaveRole
  <2>3. ASSUME ReinsertRow(r) PROVE TraceInv'
    <3>1. /\ DOMAIN membership' = DOMAIN membership \cup {request[r].row}
          /\ UNCHANGED <<organization, invitation>> /\ End(r)
      BY <2>3 DEF ReinsertRow
    <3>2. request[r].row \in Row /\ Traced(request[r].row)
      BY <2>3, <1>t DEF ReinsertRow, At, TraceInv, AcceptanceInv, LocalsSet
    <3> QED BY <1>0, <1>t, <1>e, <3>1, <3>2, TraceKept
  <2>4. ASSUME ReinsertRefused(r) PROVE TraceInv' BY <2>4, <1>i DEF ReinsertRefused
  <2>5. ASSUME DeleteRow(r) PROVE TraceInv'
    <3>1. /\ DOMAIN membership' \subseteq DOMAIN membership
          /\ UNCHANGED <<organization, invitation>> /\ End(r)
      BY <2>5 DEF DeleteRow
    <3> QED BY <1>0, <1>t, <1>e, <3>1, TraceKept
  <2>6. ASSUME IssueInvitation(r) PROVE TraceInv'
    <3> DEFINE i == request[r].inv
    <3>0. i \in Invitations /\ ~invitation[i].issued
      BY <2>6, <1>t DEF IssueInvitation, At, AcceptanceInv, LocalsSet, IdentifiersFresh
    <3>1. \A j \in Invitations \ {i} : invitation'[j] = invitation[j]
      BY <2>6, <1>t DEF IssueInvitation, AcceptanceInv, TypeOK
    <3>2. \A m \in Row : Traced(m) => Traced(m)'
      BY <3>0, <3>1 DEF Traced, Row
    <3>3. UNCHANGED <<organization, membership>> BY <2>6 DEF IssueInvitation
    <3>4. ASSUME NEW q \in Requests, organization' # "deleted", request'[q].op = "update"
          PROVE  Traced(request[q].row)'
      <4>1. request'[q] = request[q] BY <2>6, <3>4, <1>e DEF IssueInvitation
      <4>2. request[q].row \in Row /\ Traced(request[q].row)
        BY <1>t, <3>3, <3>4, <4>1 DEF TraceInv, AcceptanceInv, LocalsSet
      <4> QED BY <3>0, <3>1, <4>1, <4>2 DEF Traced, Row
    <3> QED BY <1>0, <1>t, <3>2, <3>3, <3>4 DEF TraceInv
  <2>7. ASSUME SaveRevoked(r) PROVE TraceInv'
    <3>1. \A j \in Invitations : /\ invitation'[j].issued = invitation[j].issued
                                 /\ invitation'[j].accepted_by = invitation[j].accepted_by
      BY <2>7, <1>t DEF SaveRevoked, AcceptanceInv, TypeOK, InvitationRow
    <3> QED BY <1>0, <1>t, <1>e, <2>7, <3>1, TraceKept DEF SaveRevoked
  <2>8. ASSUME Join(r) PROVE TraceInv'
    <3> DEFINE i   == request[r].inv
               row == [user |-> request[r].actor, via |-> i]
    <3>0. /\ i \in Invitations /\ request[r].actor \in Users
          /\ invitation[i].issued /\ invitation[i].accepted_by = Nobody
      BY <2>8, <1>t DEF Join, At, HoldsRowLocks, AcceptanceInv, LocalsSet, LockedInvitationOpen
    <3>1. /\ \A j \in Invitations \ {i} : invitation'[j] = invitation[j]
          /\ invitation'[i].issued /\ invitation'[i].accepted_by = request[r].actor
      BY <2>8, <3>0, <1>t DEF Join, AcceptanceInv, TypeOK, InvitationRow
    <3>2. \A m \in Row : Traced(m) => Traced(m)'
      BY <3>0, <3>1, MembershipAssumption DEF Traced, Row
    <3>3. ASSUME NEW m, m = row PROVE Traced(m)' BY <3>1, <3>3 DEF Traced
    <3>4. DOMAIN membership' = DOMAIN membership \cup {row} /\ UNCHANGED organization
      BY <2>8 DEF Join
    <3>5. ASSUME NEW q \in Requests, organization' # "deleted", request'[q].op = "update"
          PROVE  Traced(request[q].row)'
      <4>1. request'[q] = request[q] BY <2>8, <3>5, <1>e DEF Join
      <4>2. request[q].row \in Row /\ Traced(request[q].row)
        BY <1>t, <3>4, <3>5, <4>1 DEF TraceInv, AcceptanceInv, LocalsSet
      <4> QED BY <3>0, <3>1, <4>1, <4>2, MembershipAssumption DEF Traced, Row
    <3>6. \A m \in DOMAIN membership' : Traced(m)' BY <1>t, <3>2, <3>3, <3>4
    <3> QED BY <1>0, <3>5, <3>6 DEF TraceInv
  <2>9. ASSUME DeleteOrganization(r) PROVE TraceInv'
    <3>1. DOMAIN membership' = {} /\ organization' = "deleted" BY <2>9 DEF DeleteOrganization
    <3> QED BY <1>0, <3>1 DEF TraceInv
  <2> QED BY <1>5, <2>1, <2>2, <2>3, <2>4, <2>5, <2>6, <2>7, <2>8, <2>9 DEF Advance
<1>6. CASE UNCHANGED vars
  BY <1>0, <1>6, <1>t, TraceKept DEF vars
<1> QED BY <1>1, <1>2, <1>3, <1>4, <1>5, <1>6 DEF Next

(* Every membership row but the founder's traces to the invitation its      *)
(* holder consumed, whatever overlaps or fails.                             *)
THEOREM TraceHolds == Spec => []JoinedThroughInvitation
<1>1. TraceInv => JoinedThroughInvitation BY DEF TraceInv, Traced, JoinedThroughInvitation
<1> QED BY <1>1, InitTrace, StepTrace, PTL DEF Spec

(***************************************************************************)
(* Membership implements Admission.                                        *)
(***************************************************************************)
LEMMA InitLinks == Init => Links!Init
BY DEF Init, NoInvitation, Links!Init

LEMMA StepLinks == AcceptanceInv /\ [Next]_vars => [Links!Next]_Links!vars
<1> SUFFICES ASSUME AcceptanceInv, [Next]_vars PROVE [Links!Next]_Links!vars OBVIOUS
<1> DEFINE Same == Links!vars' = Links!vars
<1> invitation \in [Invitations -> InvitationRow] BY DEF AcceptanceInv, TypeOK
<1>k. ASSUME \A i \in Invitations :
               /\ invitation'[i].issued = invitation[i].issued
               /\ invitation'[i].revoked = invitation[i].revoked
               /\ invitation'[i].accepted_by = invitation[i].accepted_by
      PROVE  Same
  BY <1>k DEF Links!vars
<1>1. ASSUME NEW u \in Users, CreateOrganization(u) PROVE Same
  BY <1>1, <1>k DEF CreateOrganization
<1>2. ASSUME NEW i \in Invitations, Expire(i) PROVE Same
  BY <1>2, <1>k DEF Expire, InvitationRow
<1>3. ASSUME NEW r \in Requests, Arrive(r) PROVE Same
  BY <1>3, <1>k, ArriveType DEF AcceptanceInv
<1>4. ASSUME NEW r \in Requests, Fail(r) PROVE Same
  BY <1>4, <1>k DEF Fail
<1>5. ASSUME NEW r \in Requests, IssueInvitation(r) PROVE Same \/ Links!Next
  <2>0. PICK i \in Invitations : i = request[r].inv
    BY <1>5 DEF IssueInvitation, At, AcceptanceInv, LocalsSet
  <2>1. ~invitation[i].issued
    BY <1>5, <2>0 DEF IssueInvitation, At, AcceptanceInv, IdentifiersFresh
  <2>2. CASE organization # "live" BY <1>5, <2>2, <1>k DEF IssueInvitation
  <2>3. CASE organization = "live"
    <3>1. /\ \A j \in Invitations \ {i} : invitation'[j] = invitation[j]
          /\ invitation'[i].issued /\ ~invitation'[i].revoked /\ invitation'[i].accepted_by = Nobody
      BY <1>5, <2>0, <2>1, <2>3 DEF IssueInvitation, NoInvitation
    <3>2. ~invitation[i].revoked /\ invitation[i].accepted_by = Nobody
      BY <2>1 DEF AcceptanceInv, InvitationTable
    <3>3. Links!Issue(i) BY <2>1, <3>1, <3>2 DEF Links!Issue
    <3> QED BY <2>1, <3>3 DEF Links!Next
  <2> QED BY <2>2, <2>3
<1>6. ASSUME NEW r \in Requests, SaveRevoked(r) PROVE Same \/ Links!Next
  <2>1. PICK i \in Invitations : i = request[r].inv
    BY <1>6 DEF SaveRevoked, At, AcceptanceInv, LocalsSet
  <2>2. CASE ~invitation[i].issued BY <1>6, <2>1, <2>2, <1>k DEF SaveRevoked
  <2>3. CASE invitation[i].issued
    <3>1. /\ \A j \in Invitations \ {i} : invitation'[j] = invitation[j]
          /\ invitation'[i].issued /\ invitation'[i].revoked
          /\ invitation'[i].accepted_by = invitation[i].accepted_by
      BY <1>6, <2>1, <2>3 DEF SaveRevoked, InvitationRow
    <3>2. Links!Withdraw(i) BY <2>1, <2>3, <3>1 DEF Links!Withdraw
    <3> QED BY <2>1, <3>2 DEF Links!Next
  <2> QED BY <2>2, <2>3
<1>7. ASSUME NEW r \in Requests, Join(r) PROVE Links!Next
  <2>0. PICK i \in Invitations, u \in Users : i = request[r].inv /\ u = request[r].actor
    BY <1>7 DEF Join, At, AcceptanceInv, LocalsSet
  <2>1. invitation[i].issued /\ ~invitation[i].revoked /\ invitation[i].accepted_by = Nobody
    BY <1>7, <2>0 DEF Join, At, HoldsRowLocks, AcceptanceInv, LocalsSet, LockedInvitationOpen
  <2>2. /\ \A j \in Invitations \ {i} : invitation'[j] = invitation[j]
        /\ invitation'[i].issued /\ ~invitation'[i].revoked /\ invitation'[i].accepted_by = u
    BY <1>7, <2>0, <2>1 DEF Join, InvitationRow
  <2>3. Links!Admit(i, u) BY <2>1, <2>2 DEF Links!Admit
  <2> QED BY <2>1, <2>3 DEF Links!Next
<1>8. ASSUME NEW r \in Requests, DeleteOrganization(r) PROVE Links!Next
  <2>1. \A i \in Invitations : /\ ~invitation'[i].issued /\ ~invitation'[i].revoked
                               /\ invitation'[i].accepted_by = Nobody
    BY <1>8 DEF DeleteOrganization, NoInvitation
  <2>2. Links!Close BY <2>1 DEF Links!Close
  <2> QED BY <2>2 DEF Links!Next
<1>9. ASSUME NEW r \in Requests, Advance(r) PROVE Same \/ Links!Next
  BY <1>5, <1>6, <1>7, <1>8, <1>9, <1>k
     DEF Advance, RequireManagePermission, CountAdmins, SaveRole, ReinsertRow, ReinsertRefused,
         DeleteRow, LockInvitation, CountSeats, CountOtherMembers
<1>10. CASE UNCHANGED vars BY <1>10, <1>k DEF vars
<1> QED BY <1>1, <1>2, <1>3, <1>4, <1>9, <1>10 DEF Next

(* A link admits one person, and nobody once it is withdrawn: for every     *)
(* number of users, links and workers, Membership refines Admission.        *)
THEOREM LinksRefined == Spec => LinksAdmitOnce
BY InitAcceptance, StepAcceptance, InitLinks, StepLinks, PTL
   DEF Spec, LinksAdmitOnce, Links!Spec

(***************************************************************************)
(* One request at a time.  A step of one worker finds every other idle, so *)
(* that only the locals it moves on with need to be looked at.             *)
(***************************************************************************)
LEMMA AdvancingBusy ==
  ASSUME NEW r \in Requests, Advance(r) \/ Fail(r)
  PROVE  request[r] # Idle
BY DEF Advance, Fail, RequireManagePermission, CountAdmins, SaveRole, ReinsertRow, ReinsertRefused,
       DeleteRow, IssueInvitation, SaveRevoked, LockInvitation, CountSeats, Join, CountOtherMembers,
       DeleteOrganization, At, Idle

LEMMA MoveKeeps ==
  ASSUME OneAtATime, OneAtATime', request \in [Requests -> Request],
         NEW r \in Requests, NEW locals, Continue(r, locals),
         request[r] # Idle \/ locals # Idle, ReadsStand(locals)'
  PROVE  \A q \in Requests : ReadsStand(request[q])'
<1>1. request'[r] = locals /\ \A q \in Requests \ {r} : request'[q] = request[q]
  BY DEF Continue
<1>2. ASSUME NEW q \in Requests, q # r PROVE request'[q] = Idle
  BY <1>1, <1>2 DEF OneAtATime
<1>3. ASSUME NEW q \in Requests, q # r PROVE ReadsStand(request[q])'
  <2>1. request'[q] = Idle BY <1>2, <1>3
  <2> QED BY <2>1 DEF ReadsStand, Idle
<1>4. ReadsStand(request[r])' BY <1>1 DEF ReadsStand, LoadedRowCurrent
<1> QED BY <1>3, <1>4

(* What a request reads when it arrives is what the tables say. *)
LEMMA ArriveReads ==
  ASSUME NEW r \in Requests, Arrive(r)
  PROVE  \E locals : Continue(r, locals) /\ ReadsStand(locals) /\ locals # Idle
<1>1. ASSUME NEW a \in Users, NEW m \in DOMAIN membership, NEW role \in OfferedRoles,
             LoadForUpdate(r, a, m, role)
      PROVE  \E locals : Continue(r, locals) /\ ReadsStand(locals) /\ locals # Idle
  <2> DEFINE l == [Idle EXCEPT !.pc = "loaded", !.op = "update", !.actor = a,
                               !.row = m, !.seen = membership[m], !.role = role]
  <2>1. l.op = "update" /\ l.pc = "loaded" /\ l.row = m /\ l.seen = membership[m] /\ l # Idle
    BY DEF Idle
  <2> QED BY <1>1, <2>1 DEF LoadForUpdate, Begin, ReadsStand, LoadedRowCurrent
<1>2. ASSUME NEW a \in Users, NEW m \in DOMAIN membership, LoadForRemoval(r, a, m)
      PROVE  \E locals : Continue(r, locals) /\ ReadsStand(locals) /\ locals # Idle
  <2> DEFINE l == [Idle EXCEPT !.pc = "loaded", !.op = "remove", !.actor = a,
                               !.row = m, !.seen = membership[m]]
  <2>1. l.op = "remove" /\ l.pc = "loaded" /\ l.row = m /\ l.seen = membership[m] /\ l # Idle
    BY DEF Idle
  <2> QED BY <1>2, <2>1 DEF LoadForRemoval, Begin, ReadsStand, LoadedRowCurrent
<1>3. ASSUME NEW a \in Users, NEW i \in Invitations, NEW role \in OfferedRoles,
             AuthorizeInvitation(r, a, i, role)
      PROVE  \E locals : Continue(r, locals) /\ ReadsStand(locals) /\ locals # Idle
  <2> DEFINE l == [Idle EXCEPT !.pc = "allowed", !.op = "invite", !.inv = i, !.role = role]
  <2>1. l.op = "invite" /\ l # Idle BY DEF Idle
  <2> QED BY <1>3, <2>1 DEF AuthorizeInvitation, Begin, ReadsStand
<1>4. ASSUME NEW a \in Users, NEW i \in Invitations, LoadForRevocation(r, a, i)
      PROVE  \E locals : Continue(r, locals) /\ ReadsStand(locals) /\ locals # Idle
  <2> DEFINE l == [Idle EXCEPT !.pc = "loaded", !.op = "revoke", !.inv = i]
  <2>1. l.op = "revoke" /\ l.inv = i /\ l # Idle BY DEF Idle
  <2> QED BY <1>4, <2>1 DEF LoadForRevocation, Begin, ReadsStand
<1>5. ASSUME NEW a \in Users, NEW i \in Invitations, ResolveToken(r, a, i)
      PROVE  \E locals : Continue(r, locals) /\ ReadsStand(locals) /\ locals # Idle
  <2> DEFINE l == [Idle EXCEPT !.pc = "resolved", !.op = "accept", !.actor = a, !.inv = i]
  <2>1. l.op = "accept" /\ l.pc = "resolved" /\ l # Idle BY DEF Idle
  <2> QED BY <1>5, <2>1 DEF ResolveToken, Begin, ReadsStand
<1>6. ASSUME NEW a \in Users, AuthorizeDeletion(r, a)
      PROVE  \E locals : Continue(r, locals) /\ ReadsStand(locals) /\ locals # Idle
  <2> DEFINE l == [Idle EXCEPT !.pc = "allowed", !.op = "delete", !.actor = a]
  <2>1. l.op = "delete" /\ l.pc = "allowed" /\ l # Idle BY Zenon DEF Idle
  <2> QED BY <1>6, <2>1 DEF AuthorizeDeletion, Begin, ReadsStand
<1> QED BY <1>1, <1>2, <1>3, <1>4, <1>5, <1>6 DEF Arrive

(* Requests arrive only while the organization lives. *)
LEMMA ArriveLive ==
  ASSUME NEW r \in Requests, Arrive(r), InvitationTable, organization # "live" => DOMAIN membership = {}
  PROVE  organization = "live"
BY Zenon DEF Arrive, LoadForUpdate, LoadForRemoval, AuthorizeInvitation, LoadForRevocation,
       ResolveToken, AuthorizeDeletion, Holds, InvitationTable

LEMMA InitAlone == RequestsInit => AloneInv
<1> SUFFICES ASSUME RequestsInit PROVE AloneInv OBVIOUS
<1>1. DOMAIN membership = {} BY DEF RequestsInit, Init
<1>2. \A r \in Requests : request[r] = Idle /\ ReadsStand(request[r])
  BY DEF RequestsInit, Init, ReadsStand, Idle
<1>3. RevokedOrAccepted BY DEF RequestsInit, Init, RevokedOrAccepted, NoInvitation
<1> QED BY <1>1, <1>2, <1>3 DEF AloneInv, RequestsInit, Init, OneAtATime, AdminInvariant

LEMMA StepAlone == AcceptanceInv /\ AloneInv /\ [RequestsNext]_<<vars, alone>> => AloneInv'
<1> SUFFICES ASSUME AcceptanceInv, AloneInv, [RequestsNext]_<<vars, alone>>, alone'
             PROVE  AloneInv'
  BY DEF AloneInv
<1>a. /\ alone /\ OneAtATime /\ OneAtATime' /\ request \in [Requests -> Request]
      /\ organization = "none" => \A r \in Requests : request[r] = Idle
      /\ organization # "live" => DOMAIN membership = {}
      /\ revived = {} /\ RevokedOrAccepted /\ AdminInvariant
      /\ \A r \in Requests : ReadsStand(request[r])
  BY DEF RequestsNext, AloneInv, AcceptanceInv, TypeOK, vars, OneAtATime
<1>b. AloneInv' <=>
        /\ organization' = "none" => \A r \in Requests : request'[r] = Idle
        /\ organization' # "live" => DOMAIN membership' = {}
        /\ revived' = {} /\ RevokedOrAccepted' /\ AdminInvariant'
        /\ \A r \in Requests : ReadsStand(request[r])'
  BY <1>a DEF AloneInv
(* A worker moves on and leaves the tables alone. *)
<1>k. ASSUME NEW r \in Requests, NEW locals, Continue(r, locals), ReadsStand(locals),
             request[r] # Idle \/ locals # Idle, organization # "none",
             UNCHANGED <<organization, membership, invitation, revived>>
      PROVE  AloneInv'
  <2>1. ReadsStand(locals)' BY <1>k DEF ReadsStand, LoadedRowCurrent, Admins, Others, IsMember
  <2>2. \A q \in Requests : ReadsStand(request[q])' BY <1>a, <1>k, <2>1, MoveKeeps
  <2> QED BY <1>a, <1>b, <1>k, <2>2 DEF RevokedOrAccepted, AdminInvariant, Admins
(* A worker ends its request and writes. *)
<1>e. ASSUME NEW r \in Requests, End(r), request[r] # Idle, organization' # "none",
             organization' # "live" => DOMAIN membership' = {},
             revived' = {}, RevokedOrAccepted', AdminInvariant'
      PROVE  AloneInv'
  <2>1. ReadsStand(Idle)' BY DEF ReadsStand, Idle
  <2>2. \E l : l = Idle /\ Continue(r, l) BY <1>e DEF End
  <2>3. \A q \in Requests : ReadsStand(request[q])'
    <3>1. ASSUME NEW q \in Requests PROVE request'[q] = Idle
      BY <1>a, <1>e DEF OneAtATime, End, Continue
    <3> QED BY <3>1 DEF ReadsStand, Idle
  <2> QED BY <1>b, <1>e, <2>3
<1>i. ASSUME NEW r \in Requests, End(r), request[r] # Idle,
             UNCHANGED <<organization, membership, invitation, revived>>
      PROVE  AloneInv'
  BY <1>a, <1>e, <1>i DEF RevokedOrAccepted, AdminInvariant, Admins
<1>1. ASSUME NEW u \in Users, CreateOrganization(u) PROVE AloneInv'
  <2>1. /\ UNCHANGED <<invitation, request, revived>> /\ organization' = "live"
        /\ \A r \in Requests : request'[r] = Idle
    BY <1>1, <1>a DEF CreateOrganization
  <2>2. [user |-> u, via |-> Founding] \in Admins' BY <1>1 DEF CreateOrganization, Admins
  <2>3. \A r \in Requests : ReadsStand(request[r])' BY <2>1 DEF ReadsStand, Idle
  <2> QED BY <1>a, <1>b, <2>1, <2>2, <2>3 DEF RevokedOrAccepted, AdminInvariant
<1>2. ASSUME NEW i \in Invitations, Expire(i) PROVE AloneInv'
  <2>1. \A j \in Invitations : /\ invitation'[j].revoked = invitation[j].revoked
                               /\ invitation'[j].accepted_by = invitation[j].accepted_by
    BY <1>2 DEF Expire, AcceptanceInv, TypeOK, InvitationRow
  <2>2. UNCHANGED <<organization, membership, request, revived>> BY <1>2 DEF Expire
  <2>3. ASSUME NEW r \in Requests PROVE ReadsStand(request[r])'
    BY <1>a, <2>1, <2>2 DEF ReadsStand, LoadedRowCurrent, Admins, Others, IsMember, AcceptanceInv, LocalsSet
  <2> QED BY <1>a, <1>b, <2>1, <2>2, <2>3 DEF RevokedOrAccepted, AdminInvariant, Admins
<1>3. ASSUME NEW r \in Requests, Arrive(r) PROVE AloneInv'
  <2>1. PICK locals : Continue(r, locals) /\ ReadsStand(locals) /\ locals # Idle
    BY <1>3, ArriveReads
  <2>2. organization = "live" BY <1>a, <1>3, ArriveLive DEF AcceptanceInv
  <2>3. UNCHANGED <<organization, membership, invitation, revived>>
    BY <1>3, ArriveType DEF AcceptanceInv
  <2> QED BY <2>1, <2>2, <2>3, <1>k
<1>4. ASSUME NEW r \in Requests, Fail(r) PROVE AloneInv'
  BY <1>a, <1>4, <1>i, <1>e DEF Fail, RevokedOrAccepted, AdminInvariant, Admins
<1>5. ASSUME NEW r \in Requests, Advance(r) PROVE AloneInv'
  <2>1. request[r] # Idle /\ organization # "none" /\ request[r] \in Request
    BY <1>a, <1>5, AdvancingBusy
  <2>2. ASSUME RequireManagePermission(r) PROVE AloneInv'
    <3> DEFINE l == [request[r] EXCEPT !.pc = "allowed", !.actor = Nobody]
    <3>1. /\ l.op = request[r].op /\ l.row = request[r].row /\ l.seen = request[r].seen
          /\ l.pc = "allowed" /\ l.op \in {"update", "remove"} /\ request[r].pc = "loaded"
      BY <2>1, <2>2 DEF RequireManagePermission, At, Request
    <3>2. ReadsStand(l) BY <1>a, <3>1 DEF ReadsStand, LoadedRowCurrent
    <3> QED BY <1>i, <1>k, <2>1, <2>2, <3>2 DEF RequireManagePermission
  <2>3. ASSUME CountAdmins(r) PROVE AloneInv'
    <3> DEFINE l == [request[r] EXCEPT !.pc = "counted", !.seen = "USER"]
               m == request[r].row
    <3>1. /\ l.op = request[r].op /\ l.row = m /\ l.role = request[r].role
          /\ l.pc = "counted" /\ l.op \in {"update", "remove"} /\ request[r].pc = "allowed"
      BY <2>1, <2>3 DEF CountAdmins, At, Request
    <3>2. m \in DOMAIN membership /\ request[r].seen = membership[m]
      BY <1>a, <3>1 DEF ReadsStand, LoadedRowCurrent
    <3>3. ASSUME ~WouldDropLastAdmin(r) PROVE ReadsStand(l)
      <4>1. ASSUME membership[m] = "ADMIN", l.op = "update" => l.role # "ADMIN", Admins = {m}
            PROVE  FALSE
        <5>1. Cardinality(Admins) <= 1 BY <4>1, FS_Singleton
        <5> QED BY <3>1, <3>2, <3>3, <4>1, <5>1 DEF WouldDropLastAdmin
      <4> QED BY <3>1, <3>2, <4>1 DEF ReadsStand, LoadedRowCurrent
    <3> QED BY <1>i, <1>k, <2>1, <2>3, <3>3 DEF CountAdmins
  <2>4. ASSUME SaveRole(r) PROVE AloneInv'
    <3> DEFINE m == request[r].row
    <3>1. /\ DOMAIN membership' = DOMAIN membership /\ m \in DOMAIN membership
          /\ UNCHANGED <<organization, invitation, revived>> /\ End(r)
          /\ membership'[m] = request[r].role
          /\ \A n \in DOMAIN membership : n # m => membership'[n] = membership[n]
      BY <2>4 DEF SaveRole
    <3>2. AdminInvariant'
      <4>1. membership[m] = "ADMIN" /\ request[r].role # "ADMIN" => Admins # {m}
        BY <1>a, <2>4 DEF SaveRole, At, ReadsStand, LoadedRowCurrent
      <4>2. Admins # {} => Admins' # {} BY <3>1, <4>1 DEF Admins
      <4> QED BY <1>a, <3>1, <4>2 DEF AdminInvariant
    <3> QED BY <1>a, <1>e, <2>1, <3>1, <3>2 DEF RevokedOrAccepted
  <2>5. ASSUME ReinsertRow(r) \/ ReinsertRefused(r) PROVE AloneInv'
    BY <1>a, <2>5 DEF ReinsertRow, ReinsertRefused, At, ReadsStand, LoadedRowCurrent
  <2>6. ASSUME DeleteRow(r) PROVE AloneInv'
    <3> DEFINE m == request[r].row
    <3>1. /\ DOMAIN membership' = DOMAIN membership \ {m} /\ UNCHANGED <<organization, invitation>>
          /\ revived' = {} /\ End(r)
          /\ \A n \in DOMAIN membership' : membership'[n] = membership[n]
      BY <1>a, <2>6 DEF DeleteRow
    <3>2. AdminInvariant'
      <4>1. m \in DOMAIN membership /\ (membership[m] = "ADMIN" => Admins # {m})
        BY <1>a, <2>6 DEF DeleteRow, At, ReadsStand, LoadedRowCurrent
      <4>2. Admins # {} => Admins' # {} BY <3>1, <4>1 DEF Admins
      <4> QED BY <1>a, <3>1, <4>2 DEF AdminInvariant
    <3> QED BY <1>a, <1>e, <2>1, <3>1, <3>2 DEF RevokedOrAccepted
  <2>7. ASSUME IssueInvitation(r) PROVE AloneInv'
    <3>1. RevokedOrAccepted'
      BY <1>a, <2>7 DEF IssueInvitation, RevokedOrAccepted, NoInvitation, AcceptanceInv, TypeOK
    <3> QED BY <1>a, <1>e, <2>1, <2>7, <3>1 DEF IssueInvitation, AdminInvariant, Admins
  <2>8. ASSUME SaveRevoked(r) PROVE AloneInv'
    <3>1. invitation[request[r].inv].accepted_by = Nobody
      BY <1>a, <2>8 DEF SaveRevoked, At, ReadsStand
    <3>2. RevokedOrAccepted'
      BY <1>a, <2>8, <3>1 DEF SaveRevoked, RevokedOrAccepted, AcceptanceInv, TypeOK, InvitationRow
    <3> QED BY <1>a, <1>e, <2>1, <2>8, <3>2 DEF SaveRevoked, AdminInvariant, Admins
  <2>9. ASSUME LockInvitation(r) \/ CountSeats(r) PROVE AloneInv'
    <3>1. ASSUME NEW pc, Goto(r, pc), request[r].op = "accept", pc = "locked" \/ ~IsMember(request[r].actor)
          PROVE  \E l : Continue(r, l) /\ ReadsStand(l)
      <4>1. /\ [request[r] EXCEPT !.pc = pc].op = "accept"
            /\ [request[r] EXCEPT !.pc = pc].actor = request[r].actor
            /\ [request[r] EXCEPT !.pc = pc].pc = pc
        BY <2>1, <3>1 DEF Request
      <4> QED BY <3>1, <4>1 DEF Goto, ReadsStand
    <3> QED BY <1>i, <1>k, <2>1, <2>9, <3>1 DEF LockInvitation, CountSeats, At
  <2>10. ASSUME Join(r) PROVE AloneInv'
    <3> DEFINE i == request[r].inv
    <3>1. i \in Invitations /\ invitation[i].issued /\ ~invitation[i].revoked
      BY <2>10 DEF Join, At, HoldsRowLocks, AcceptanceInv, LocalsSet, LockedInvitationOpen
    <3>2. organization = "live" BY <3>1 DEF AcceptanceInv, InvitationTable
    <3>3. RevokedOrAccepted'
      BY <1>a, <2>10, <3>1 DEF Join, RevokedOrAccepted, AcceptanceInv, TypeOK, InvitationRow
    <3>4. ASSUME NEW m \in Admins PROVE m \in Admins'
      <4>1. m.user # request[r].actor
        BY <1>a, <2>10 DEF Join, At, ReadsStand, IsMember, Admins
      <4> QED BY <2>10, <4>1 DEF Join, Admins
    <3> QED BY <1>a, <1>e, <2>1, <2>10, <3>2, <3>3, <3>4 DEF Join, AdminInvariant
  <2>11. ASSUME CountOtherMembers(r) PROVE AloneInv'
    <3> DEFINE l == [request[r] EXCEPT !.pc = "counted"]
    <3>1. l.op = "delete" /\ l.actor = request[r].actor
      BY <2>1, <2>11 DEF CountOtherMembers, At, Request
    <3>2. Others(request[r].actor) = {} => ReadsStand(l) BY <3>1 DEF ReadsStand
    <3> QED BY <1>i, <1>k, <2>1, <2>11, <3>2 DEF CountOtherMembers, Goto
  <2>12. ASSUME DeleteOrganization(r) PROVE AloneInv'
    BY <1>e, <2>1, <2>12 DEF DeleteOrganization, RevokedOrAccepted, NoInvitation, AdminInvariant
  <2> QED BY <1>5, <2>2, <2>3, <2>4, <2>5, <2>6, <2>7, <2>8, <2>9, <2>10, <2>11, <2>12 DEF Advance
<1>6. CASE UNCHANGED <<vars, alone>>
  BY <1>a, <1>b, <1>6
     DEF vars, RevokedOrAccepted, AdminInvariant, Admins, ReadsStand, LoadedRowCurrent, Others, IsMember
<1> QED BY <1>1, <1>2, <1>3, <1>4, <1>5, <1>6 DEF Next, RequestsNext

(* While requests come one at a time, what each of them read stays true     *)
(* until it writes.                                                        *)
THEOREM AloneHolds == RequestsSpec => [](SeatInv /\ AloneInv)
<1>1. RequestsInit => SeatInv BY InitSeats DEF RequestsInit
<1>2. SeatInv /\ [RequestsNext]_<<vars, alone>> => SeatInv'
  BY StepSeats DEF RequestsNext, vars
<1>3. SeatInv => AcceptanceInv BY DEF SeatInv
<1> QED BY <1>1, <1>2, <1>3, InitAlone, StepAlone, PTL DEF RequestsSpec

(* While requests come one at a time, neither a role change nor a removal   *)
(* leaves an organization that exists without an administrator.             *)
THEOREM AdminKept == RequestsSpec => []AdminAlone
<1>1. AloneInv => AdminAlone BY DEF AloneInv, AdminAlone
<1> QED BY <1>1, AloneHolds, PTL

(* While requests come one at a time, no row is above the plan's ceiling.   *)
THEOREM SeatLimitKept == RequestsSpec => []SeatLimitAlone
<1>1. SeatInv /\ AloneInv => SeatLimitAlone
  <2> SUFFICES ASSUME SeatInv, AloneInv, alone PROVE SeatLimit BY DEF SeatLimitAlone
  <2>1. DOMAIN membership \ revived = DOMAIN membership BY Zenon DEF AloneInv
  <2> QED BY <2>1 DEF SeatInv, SeatsTakenWithinPlan, SeatLimit
<1> QED BY <1>1, AloneHolds, PTL

(* While requests come one at a time, an invitation that is accepted is     *)
(* never revoked, nor the other way round.                                  *)
THEOREM RevokedOrAcceptedKept == RequestsSpec => []RevokedOrAcceptedAlone
<1>1. AloneInv => RevokedOrAcceptedAlone BY DEF AloneInv, RevokedOrAcceptedAlone
<1> QED BY <1>1, AloneHolds, PTL

(* While requests come one at a time, rows appear with the founding or an   *)
(* acceptance only: no role change inserts a row that was removed.          *)
THEOREM RowsFromAcceptance == RequestsSpec => RowsAlone
<1>1. ASSUME SeatInv, AloneInv, alone, Next PROVE RowFromAcceptance
  <2>1. ASSUME NEW u \in Users, CreateOrganization(u) PROVE RowFromAcceptance
    BY <2>1 DEF CreateOrganization, RowFromAcceptance
  <2>2. ASSUME NEW r \in Requests, Join(r) PROVE RowFromAcceptance
    <3>1. /\ request[r].inv \in Invitations
          /\ invitation[request[r].inv].accepted_by = Nobody
      BY <2>2, <1>1 DEF Join, At, HoldsRowLocks, SeatInv, AcceptanceInv, LocalsSet, LockedInvitationOpen
    <3> QED BY <2>2, <3>1, MembershipAssumption DEF Join, RowFromAcceptance
  <2>3. ASSUME NEW r \in Requests, ReinsertRow(r) PROVE FALSE
    BY <2>3, <1>1 DEF ReinsertRow, At, AloneInv, ReadsStand, LoadedRowCurrent
  <2>4. ASSUME DOMAIN membership' \subseteq DOMAIN membership PROVE RowFromAcceptance
    BY <2>4 DEF RowFromAcceptance
  <2>5. ASSUME NEW r \in Requests, SaveRole(r) \/ DeleteRow(r) \/ DeleteOrganization(r)
        PROVE  DOMAIN membership' \subseteq DOMAIN membership
    BY <2>5 DEF SaveRole, DeleteRow, DeleteOrganization
  <2>6. ASSUME NEW r \in Requests, Arrive(r) PROVE UNCHANGED membership
    BY <1>1, <2>6, ArriveType DEF SeatInv, AcceptanceInv
  <2> QED BY <1>1, <2>1, <2>2, <2>3, <2>4, <2>5, <2>6, Zenon
          DEF Next, Advance, Expire, Fail, RequireManagePermission, CountAdmins, ReinsertRefused,
              IssueInvitation, SaveRevoked, LockInvitation, CountSeats, CountOtherMembers
<1>2. UNCHANGED vars => RowFromAcceptance BY DEF vars, RowFromAcceptance
<1>3. SeatInv /\ AloneInv /\ [RequestsNext]_<<vars, alone>> => [alone => RowFromAcceptance]_vars
  BY <1>1, <1>2 DEF RequestsNext
<1> QED BY <1>3, AloneHolds, PTL DEF RequestsSpec, RowsAlone

(* While requests come one at a time, a deletion takes nobody but whoever   *)
(* asked for it.                                                            *)
THEOREM DeletionSparesOthers == RequestsSpec => DeletionAlone
<1>1. ASSUME SeatInv, AloneInv, alone, Next PROVE SparesOthers
  <2>1. ASSUME NEW r \in Requests, DeleteOrganization(r) PROVE Cardinality(Members) <= 1
    <3>1. \A m \in DOMAIN membership : m.user = request[r].actor
      BY <1>1, <2>1 DEF DeleteOrganization, At, AloneInv, ReadsStand, Others
    <3>2. Members = {} \/ Members = {request[r].actor} BY <3>1 DEF Members
    <3>3. Cardinality({}) = 0 /\ Cardinality({request[r].actor}) = 1 BY FS_EmptySet, FS_Singleton
    <3> QED BY <3>2, <3>3
  <2>2. ASSUME organization = "live", organization' = "deleted"
        PROVE  \E r \in Requests : DeleteOrganization(r)
    <3>1. ASSUME NEW r \in Requests, Arrive(r) PROVE UNCHANGED organization
      BY <1>1, <3>1, ArriveType DEF SeatInv, AcceptanceInv
    <3> QED BY <1>1, <2>2, <3>1
            DEF Next, Advance, CreateOrganization, Expire, Fail, RequireManagePermission, CountAdmins,
                SaveRole, ReinsertRow, ReinsertRefused, DeleteRow, IssueInvitation, SaveRevoked,
                LockInvitation, CountSeats, Join, CountOtherMembers
  <2> QED BY <2>1, <2>2 DEF SparesOthers
<1>2. UNCHANGED vars => SparesOthers BY DEF vars, SparesOthers
<1>3. SeatInv /\ AloneInv /\ [RequestsNext]_<<vars, alone>> => [alone => SparesOthers]_vars
  BY <1>1, <1>2 DEF RequestsNext
<1> QED BY <1>3, AloneHolds, PTL DEF RequestsSpec, DeletionAlone

-----------------------------------------------------------------------------
(***************************************************************************)
(* The scoping questions.  Nothing here depends on how a state came about. *)
(***************************************************************************)

(* Whoever has no row in the organization has no role in it. *)
LEMMA OutsidersWithoutRole ==
  ASSUME NEW u, NEW c, Access!orgs_with(u, c)
  PROVE  Access!IsMember(u)
<1> SUFFICES ASSUME ~Access!IsMember(u) PROVE FALSE
  OBVIOUS
<1>1. {membership[m] : m \in {n \in DOMAIN membership : n.user = u}} = {}
  BY DEF Access!IsMember
<1>2. Access!OrgRole(u) = "no role"
  BY <1>1 DEF Access!OrgRole, Access!RoleOf, Access!NoRole
<1> QED BY <1>2 DEF Access!orgs_with, Access!ORG_ROLES_GRANTING, Access!RolesGranting, Access!ORG_ROLE_CAPS

(* On each level a role that may do something to an environment sees it. *)
LEMMA ViewerOfOrganization ==
  ASSUME NEW role, NEW c, c \in Access!CapsOf(Access!ORG_ROLE_CAPS, role),
         c \in Access!EnvironmentCapabilities \cup {"environment.delete"}
  PROVE  "environment.view" \in Access!CapsOf(Access!ORG_ROLE_CAPS, role)
BY DEF Access!CapsOf, Access!ORG_ROLE_CAPS, Access!EnvironmentCapabilities, Access!ALL_CAPABILITIES

LEMMA ViewerOfProject ==
  ASSUME NEW role, NEW c, c \in Access!CapsOf(Access!PROJECT_ROLE_CAPS, role),
         c \in Access!EnvironmentCapabilities \cup {"environment.delete"}
  PROVE  "environment.view" \in Access!CapsOf(Access!PROJECT_ROLE_CAPS, role)
BY DEF Access!CapsOf, Access!PROJECT_ROLE_CAPS, Access!PROJECT_ADMIN_CAPS, Access!PROJECT_EDITOR_CAPS,
       Access!PROJECT_OPERATOR_CAPS, Access!PROJECT_VIEWER_CAPS

LEMMA ViewerOfEnvironment ==
  ASSUME NEW role, NEW c, c \in Access!CapsOf(Access!ENV_ROLE_CAPS, role),
         c \in Access!EnvironmentCapabilities \cup {"environment.delete"}
  PROVE  "environment.view" \in Access!CapsOf(Access!ENV_ROLE_CAPS, role)
BY DEF Access!CapsOf, Access!ENV_ROLE_CAPS, Access!ENV_ADMIN_CAPS, Access!ENV_EDITOR_CAPS,
       Access!ENV_OPERATOR_CAPS, Access!ENV_VIEWER_CAPS

(* The inverted maps ask what the maps say. *)
LEMMA RolesInverted ==
  ASSUME NEW caps, NEW role, NEW c
  PROVE  role \in Access!RolesGranting(caps, c) <=> c \in Access!CapsOf(caps, role)
BY DEF Access!RolesGranting, Access!CapsOf

(* The queryset of a capability holds what the capability is held on. *)
LEMMA ScopeOfCapability ==
  ASSUME NEW u \in Holders, NEW e \in Environments, NEW c, c # "project.view"
  PROVE  e \in Access!environments_with(u, c)
           <=> Access!IsMember(u) /\ c \in Access!capabilities_for(u, e)
<1>1. ParentOf[e] \in Projects
  BY AccessAssumption DEF Access!GrantsAssumption
<1>2. ParentOf[e] \in Access!projects_with(u, c)
        <=> \/ Access!orgs_with(u, c)
            \/ Access!IsMember(u) /\ Access!RoleOn(u, ParentOf[e]) \in Access!PROJECT_ROLES_GRANTING(c)
  BY <1>1 DEF Access!projects_with
<1>3. c \in Access!capabilities_for(u, e)
        <=> \/ c \in Access!CapsOf(Access!ORG_ROLE_CAPS, Access!OrgRole(u))
            \/ c \in Access!CapsOf(Access!PROJECT_ROLE_CAPS, Access!RoleOn(u, ParentOf[e]))
            \/ c \in Access!CapsOf(Access!ENV_ROLE_CAPS, Access!RoleOn(u, e))
  BY DEF Access!capabilities_for, Access!resolve_capabilities
<1>4. Access!orgs_with(u, c) => Access!IsMember(u)
  BY OutsidersWithoutRole
<1>5. Access!orgs_with(u, c) <=> c \in Access!CapsOf(Access!ORG_ROLE_CAPS, Access!OrgRole(u))
  BY RolesInverted DEF Access!orgs_with, Access!ORG_ROLES_GRANTING
<1>6. \A role : role \in Access!PROJECT_ROLES_GRANTING(c) <=> c \in Access!CapsOf(Access!PROJECT_ROLE_CAPS, role)
  BY RolesInverted DEF Access!PROJECT_ROLES_GRANTING
<1>7. \A role : role \in Access!ENV_ROLES_GRANTING(c) <=> c \in Access!CapsOf(Access!ENV_ROLE_CAPS, role)
  BY RolesInverted DEF Access!ENV_ROLES_GRANTING
<1>8. e \in Access!environments_with(u, c)
        <=> \/ ParentOf[e] \in Access!projects_with(u, c)
            \/ Access!IsMember(u) /\ Access!RoleOn(u, e) \in Access!ENV_ROLES_GRANTING(c)
  BY DEF Access!environments_with
<1> QED BY <1>2, <1>3, <1>4, <1>5, <1>6, <1>7, <1>8

(* Who may do something to an environment sees it. *)
LEMMA CapableSees ==
  ASSUME NEW u \in Holders, NEW e \in Environments,
         NEW c \in Access!EnvironmentCapabilities \cup {"environment.delete"},
         c \in Access!capabilities_for(u, e)
  PROVE  "environment.view" \in Access!capabilities_for(u, e)
<1>1. c # "project.view"
  BY DEF Access!EnvironmentCapabilities
<1>2. \/ c \in Access!CapsOf(Access!ORG_ROLE_CAPS, Access!OrgRole(u))
      \/ c \in Access!CapsOf(Access!PROJECT_ROLE_CAPS, Access!RoleOn(u, ParentOf[e]))
      \/ c \in Access!CapsOf(Access!ENV_ROLE_CAPS, Access!RoleOn(u, e))
  BY <1>1 DEF Access!capabilities_for, Access!resolve_capabilities
<1>3. \/ "environment.view" \in Access!CapsOf(Access!ORG_ROLE_CAPS, Access!OrgRole(u))
      \/ "environment.view" \in Access!CapsOf(Access!PROJECT_ROLE_CAPS, Access!RoleOn(u, ParentOf[e]))
      \/ "environment.view" \in Access!CapsOf(Access!ENV_ROLE_CAPS, Access!RoleOn(u, e))
  BY <1>2, ViewerOfOrganization, ViewerOfProject, ViewerOfEnvironment
<1> QED BY <1>3 DEF Access!capabilities_for, Access!resolve_capabilities

LEMMA ScopingHolds == Access!ScopingAgrees
<1> SUFFICES ASSUME NEW u \in Holders
             PROVE  /\ \A c \in Access!ALL_CAPABILITIES \ {"project.view"} :
                         Access!environments_with(u, c)
                           = {e \in Environments : Access!IsMember(u) /\ c \in Access!capabilities_for(u, e)}
                    /\ \A c \in Access!EnvironmentCapabilities \cup {"environment.delete"} :
                         Access!environments_with(u, c)
                           = {e \in Access!environments_with(u, "environment.view") :
                                c \in Access!capabilities_for(u, e)}
  BY DEF Access!ScopingAgrees
<1>1. \A c : Access!environments_with(u, c) \subseteq Environments
  BY DEF Access!environments_with
<1>2. ASSUME NEW c \in Access!ALL_CAPABILITIES \ {"project.view"}
      PROVE  Access!environments_with(u, c)
               = {e \in Environments : Access!IsMember(u) /\ c \in Access!capabilities_for(u, e)}
  BY <1>1, ScopeOfCapability
<1>3. ASSUME NEW c \in Access!EnvironmentCapabilities \cup {"environment.delete"}
      PROVE  Access!environments_with(u, c)
               = {e \in Access!environments_with(u, "environment.view") : c \in Access!capabilities_for(u, e)}
  <2>1. c # "project.view"
    BY DEF Access!EnvironmentCapabilities
  <2> QED BY <1>1, <2>1, ScopeOfCapability, CapableSees
<1> QED BY <1>2, <1>3

(* AccessAgrees: what a view finds in its queryset and then permits is what  *)
(* the queryset of the capability has, whatever rows and grants are stored,  *)
(* those of people who are no members included.                             *)
THEOREM ScopesAgree == TenancySpec => []AccessAgrees
<1>1. AccessAgrees
  BY ScopingHolds DEF AccessAgrees
<1> QED BY <1>1, PTL

(***************************************************************************)
(* A request's locals.                                                     *)
(***************************************************************************)
LEMMA IdleAsked ==
  /\ Access!Idle \in Access!Request
  /\ Access!Idle.pc = "idle" /\ Access!Idle.op = "none" /\ Access!Idle.taken = {}
BY DEF Access!Idle, Access!Request, Access!OrganizationRole

(* A request that ends leaves what the others hold, and what they are about  *)
(* to write, as it is.                                                      *)
LEMMA EndInv ==
  ASSUME Access!GrantsInv, NEW r \in Requests, Access!End(r), UNCHANGED <<membership, grant, stray>>
  PROVE  Access!GrantsInv'
<1> USE DEF Access!GrantsInv
<1>1. request' \in [Requests -> Access!Request]
  BY IdleAsked DEF Access!End, Access!TypeOK
<1>2. request'[r] = Access!Idle /\ \A q \in Requests \ {r} : request'[q] = request[q]
  BY DEF Access!End, Access!TypeOK
<1>3. Access!TypeOK'
  BY <1>1, <1>2, IdleAsked DEF Access!TypeOK, Access!Asked
<1>4. Access!OneRowEach'
  BY DEF Access!OneRowEach
<1>5. Access!IdsStable'
  BY <1>2, IdleAsked DEF Access!IdsStable, Access!SameGrant
<1>6. Access!WritersMarked'
  BY <1>2, IdleAsked DEF Access!WritersMarked, Access!Asked, Access!Removing, Access!IsMember
<1>7. Access!TakenHeld'
  BY <1>2, IdleAsked DEF Access!TakenHeld, Access!Gone
<1>8. Access!SweptLeavesStrays'
  BY <1>2, IdleAsked DEF Access!SweptLeavesStrays
<1>9. Access!OrphansOvertaken'
  BY DEF Access!OrphansOvertaken, Access!IsMember
<1> QED BY <1>3, <1>4, <1>5, <1>6, <1>7, <1>8, <1>9

(* The reads of an arriving request.                                        *)
LEMMA LoadInv ==
  ASSUME Access!GrantsInv, NEW r \in Requests, NEW locals \in Access!Request, Access!Load(r, locals),
         locals.pc = "loaded", locals.taken = {},
         locals.op = "remove" => locals.row \in Access!MemberRow,
         locals.op \in {"grant", "change"} =>
           /\ locals.grant \in Access!GrantRow
           /\ locals.raced \/ (Access!IsMember(locals.grant.user) /\ Access!Removing(locals.grant.user) = {}),
         locals.op = "change" =>
           locals.id \in DOMAIN grant /\ Access!SameGrant(grant[locals.id], locals.grant)
  PROVE  Access!GrantsInv'
<1> USE DEF Access!GrantsInv
<1>0. /\ UNCHANGED <<membership, grant, stray>>
      /\ request[r] = Access!Idle
      /\ request' = [request EXCEPT ![r] = locals]
  BY DEF Access!Load, Access!Begin
<1>1. request' \in [Requests -> Access!Request]
  BY <1>0 DEF Access!TypeOK
<1>2. request'[r] = locals /\ \A q \in Requests \ {r} : request'[q] = request[q]
  BY <1>0 DEF Access!TypeOK
<1>3. Access!TypeOK'
  BY <1>0, <1>1, <1>2 DEF Access!TypeOK, Access!Asked
<1>4. Access!OneRowEach'
  BY <1>0 DEF Access!OneRowEach
<1>5. Access!IdsStable'
  <2> SUFFICES ASSUME NEW p \in Requests, request'[p].op = "change"
               PROVE  /\ request'[p].id \in DOMAIN grant => Access!SameGrant(grant[request'[p].id], request'[p].grant)
                      /\ \A q \in Requests : request'[q].op = "change" /\ request'[q].id = request'[p].id =>
                           Access!SameGrant(request'[q].grant, request'[p].grant)
    BY <1>0 DEF Access!IdsStable, Access!SameGrant
  <2>1. request'[p].id \in DOMAIN grant => Access!SameGrant(grant[request'[p].id], request'[p].grant)
    BY <1>2 DEF Access!IdsStable
  <2>2. ASSUME NEW q \in Requests, request'[q].op = "change", request'[q].id = request'[p].id
        PROVE  Access!SameGrant(request'[q].grant, request'[p].grant)
    BY <1>2, <2>2 DEF Access!IdsStable, Access!SameGrant
  <2> QED BY <2>1, <2>2
<1>6. Access!WritersMarked'
  <2> SUFFICES ASSUME NEW q \in Requests, request'[q].op \in {"grant", "change"}, ~request'[q].raced
               PROVE  /\ \E m \in DOMAIN membership : m.user = request'[q].grant.user
                      /\ \A p \in Requests : ~ /\ request'[p].pc \in {"swept", "cascaded"}
                                               /\ request'[p].row.user = request'[q].grant.user
    BY <1>0 DEF Access!WritersMarked, Access!Asked, Access!Removing, Access!IsMember
  <2>1. /\ \E m \in DOMAIN membership : m.user = request'[q].grant.user
        /\ \A p \in Requests : ~ /\ request[p].pc \in {"swept", "cascaded"}
                                 /\ request[p].row.user = request'[q].grant.user
    BY <1>2 DEF Access!WritersMarked, Access!Asked, Access!Removing, Access!IsMember
  <2> QED BY <1>2, <2>1
<1>7. Access!TakenHeld'
  BY <1>0, <1>2 DEF Access!TakenHeld, Access!Gone
<1>8. Access!SweptLeavesStrays'
  BY <1>0, <1>2 DEF Access!SweptLeavesStrays
<1>9. Access!OrphansOvertaken'
  BY <1>0 DEF Access!OrphansOvertaken, Access!IsMember
<1> QED BY <1>3, <1>4, <1>5, <1>6, <1>7, <1>8, <1>9

(* An insert writes a member's grant, or one that is marked as a stray. *)
LEMMA PutInv ==
  ASSUME Access!GrantsInv, NEW r \in Access!Asked, request[r].pc = "loaded",
         NEW id \in Nat, id \notin DOMAIN grant,
         \A q \in Requests : request[q].op = "change" /\ request[q].id = id =>
           Access!SameGrant(request[r].grant, request[q].grant),
         Access!Put(r, id, request[r].grant)
  PROVE  Access!GrantsInv' /\ DOMAIN grant \subseteq DOMAIN grant'
<1> USE DEF Access!GrantsInv
<1> DEFINE row == request[r].grant
<1>0. /\ grant' = [g \in DOMAIN grant \cup {id} |-> IF g = id THEN row ELSE grant[g]]
      /\ stray' = IF request[r].raced THEN stray \cup {id} ELSE stray \ {id}
      /\ membership' = membership
      /\ r \in Requests /\ row \in Access!GrantRow
  BY DEF Access!Put, Access!TypeOK, Access!Asked
<1> HIDE DEF row
<1>1. request' \in [Requests -> Access!Request]
  BY IdleAsked DEF Access!Put, Access!End, Access!TypeOK
<1>2. request'[r] = Access!Idle /\ \A q \in Requests \ {r} : request'[q] = request[q]
  BY <1>0 DEF Access!Put, Access!End, Access!TypeOK
<1>3. /\ DOMAIN grant' = DOMAIN grant \cup {id}
      /\ grant'[id] = row /\ \A g \in DOMAIN grant : grant'[g] = grant[g]
  BY <1>0
<1>4. Access!TypeOK'
  <2>1. DOMAIN grant' \subseteq Nat /\ grant' \in [DOMAIN grant' -> Access!GrantRow]
    BY <1>0 DEF Access!TypeOK
  <2> QED BY <1>0, <1>1, <1>2, <2>1, IdleAsked DEF Access!TypeOK, Access!Asked
<1>5. Access!OneRowEach'
  BY <1>0 DEF Access!OneRowEach
<1>6. Access!IdsStable'
  BY <1>2, <1>3, IdleAsked DEF Access!IdsStable, Access!SameGrant, row
<1>7. Access!WritersMarked'
  BY <1>0, <1>2, IdleAsked DEF Access!WritersMarked, Access!Asked, Access!Removing, Access!IsMember
<1>8. Access!TakenHeld'
  <2>1. \A q \in Requests : request[q].taken \subseteq DOMAIN grant
    BY DEF Access!TakenHeld
  <2>2. ASSUME NEW q \in Requests
        PROVE  /\ request'[q].pc \notin {"swept", "cascaded"} => request'[q].taken = {}
               /\ request'[q].taken \subseteq DOMAIN grant' \ Access!Gone(q)'
               /\ \A g \in request'[q].taken : grant'[g].user = request'[q].row.user
    BY <1>2, <1>3, <2>1, IdleAsked DEF Access!TakenHeld, Access!Gone
  <2> QED BY <2>2 DEF Access!TakenHeld
<1>9. Access!SweptLeavesStrays'
  <2> SUFFICES ASSUME NEW q \in Requests, request'[q].pc \in {"swept", "cascaded"},
                      NEW g \in DOMAIN grant' \ (request'[q].taken \cup stray'),
                      grant'[g].user = request'[q].row.user
               PROVE  request'[q].pc = "swept" /\ grant'[g].target \notin Projects
    BY DEF Access!SweptLeavesStrays
  <2>1. q # r /\ request'[q] = request[q]
    BY <1>2, IdleAsked
  <2>2. CASE g = id
    <3>1. ~request[r].raced
      BY <1>0, <2>2
    <3>2. q \notin Access!Removing(row.user)
      BY <3>1 DEF Access!WritersMarked, row
    <3> QED BY <1>3, <2>1, <2>2, <3>2 DEF Access!Removing
  <2>3. CASE g # id
    BY <1>0, <1>3, <2>1, <2>3 DEF Access!SweptLeavesStrays
  <2> QED BY <2>2, <2>3
<1>10. Access!OrphansOvertaken'
  BY <1>0, <1>3 DEF Access!OrphansOvertaken, Access!WritersMarked, Access!IsMember, row
<1> QED BY <1>3, <1>4, <1>5, <1>6, <1>7, <1>8, <1>9, <1>10

(* The new ids are new. *)
LEMMA NewIdsNew ==
  ASSUME NEW id \in Access!NewIds
  PROVE  id \in Nat /\ id \notin DOMAIN grant /\ \A r \in Requests : request[r].id # id
<1>1. Cardinality(Requests) \in Nat /\ MaxGrants \in Nat
  <2>1. IsFiniteSet(Requests) /\ MaxGrants \in Nat
    BY AccessAssumption DEF Access!GrantsAssumption, Access!IsFiniteSet, IsFiniteSet
  <2> QED BY <2>1, FS_CardinalityType
<1>2. Access!Cardinality(Requests) = Cardinality(Requests)
  BY DEF Access!Cardinality, Cardinality
<1> QED BY <1>1, <1>2 DEF Access!NewIds, Access!Least

LEMMA InsertInv ==
  ASSUME Access!GrantsInv, NEW r \in Requests, Access!InsertGrant(r)
  PROVE  Access!GrantsInv' /\ DOMAIN grant \subseteq DOMAIN grant'
<1>1. PICK id \in Access!NewIds : Access!Put(r, id, request[r].grant)
  BY DEF Access!InsertGrant
<1>2. r \in Access!Asked /\ request[r].pc = "loaded"
  BY DEF Access!InsertGrant, Access!At, Access!Asked
<1> QED BY <1>1, <1>2, NewIdsNew, PutInv

LEMMA ReinsertInv ==
  ASSUME Access!GrantsInv, NEW r \in Requests, Access!ReinsertGrant(r)
  PROVE  Access!GrantsInv' /\ DOMAIN grant \subseteq DOMAIN grant'
<1>1. /\ request[r].op = "change" /\ request[r].pc = "loaded"
      /\ request[r].id \notin DOMAIN grant
      /\ Access!Put(r, request[r].id, request[r].grant)
  BY DEF Access!ReinsertGrant, Access!At
<1>2. r \in Access!Asked /\ request[r].id \in Nat
  BY <1>1 DEF Access!Asked, Access!GrantsInv, Access!TypeOK, Access!Request
<1>3. \A q \in Requests : request[q].op = "change" /\ request[q].id = request[r].id =>
        Access!SameGrant(request[r].grant, request[q].grant)
  BY <1>1 DEF Access!GrantsInv, Access!IdsStable
<1> QED BY <1>1, <1>2, <1>3, PutInv

(* An UPDATE keeps the target and the holder of the row it finds. *)
LEMMA SaveInv ==
  ASSUME Access!GrantsInv, NEW r \in Requests, Access!SaveGrant(r)
  PROVE  Access!GrantsInv' /\ DOMAIN grant' = DOMAIN grant
<1> USE DEF Access!GrantsInv
<1> DEFINE id == request[r].id
<1>0. /\ grant' = [grant EXCEPT ![id] = request[r].grant]
      /\ request[r].op = "change" /\ request[r].pc = "loaded"
      /\ id \in DOMAIN grant \ Access!Gone(r)
      /\ UNCHANGED <<membership, stray>>
      /\ r \in Access!Asked /\ request[r].grant \in Access!GrantRow
  BY DEF Access!SaveGrant, Access!At, Access!TypeOK, Access!Asked
<1>1. request' \in [Requests -> Access!Request]
  BY IdleAsked DEF Access!SaveGrant, Access!End, Access!TypeOK
<1>2. request'[r] = Access!Idle /\ \A q \in Requests \ {r} : request'[q] = request[q]
  BY DEF Access!SaveGrant, Access!End, Access!TypeOK
<1>3. /\ DOMAIN grant' = DOMAIN grant
      /\ grant' \in [DOMAIN grant -> Access!GrantRow]
      /\ \A g \in DOMAIN grant : Access!SameGrant(grant'[g], grant[g])
  BY <1>0 DEF Access!TypeOK, Access!IdsStable, Access!SameGrant
<1>4. Access!TypeOK'
  BY <1>0, <1>1, <1>2, <1>3, IdleAsked DEF Access!TypeOK, Access!Asked
<1>5. Access!OneRowEach'
  BY <1>0 DEF Access!OneRowEach
<1>6. Access!IdsStable'
  BY <1>2, <1>3, IdleAsked DEF Access!IdsStable, Access!SameGrant
<1>7. Access!WritersMarked'
  BY <1>0, <1>2, IdleAsked DEF Access!WritersMarked, Access!Asked, Access!Removing, Access!IsMember
<1>8. Access!TakenHeld'
  BY <1>2, <1>3, IdleAsked DEF Access!TakenHeld, Access!Gone, Access!SameGrant
<1>9. Access!SweptLeavesStrays'
  BY <1>0, <1>2, <1>3, IdleAsked DEF Access!SweptLeavesStrays, Access!SameGrant
<1>10. Access!OrphansOvertaken'
  BY <1>0, <1>3 DEF Access!OrphansOvertaken, Access!IsMember, Access!SameGrant
<1> QED BY <1>3, <1>4, <1>5, <1>6, <1>7, <1>8, <1>9, <1>10

(* A revocation takes one grant, which no removal has deleted. *)
LEMMA RevokeInv ==
  ASSUME Access!GrantsInv, NEW r \in Requests, Access!DeleteGrant(r)
  PROVE  Access!GrantsInv'
<1> USE DEF Access!GrantsInv
<1> DEFINE id == request[r].id
<1>0. /\ grant' = [g \in DOMAIN grant \ {id} |-> grant[g]]
      /\ stray' = stray \ {id}
      /\ request[r].op = "revoke" /\ request[r].pc = "loaded"
      /\ id \notin Access!Gone(r)
      /\ membership' = membership
  BY DEF Access!DeleteGrant, Access!At
<1>1. request' \in [Requests -> Access!Request]
  BY IdleAsked DEF Access!DeleteGrant, Access!End, Access!TypeOK
<1>2. request'[r] = Access!Idle /\ \A q \in Requests \ {r} : request'[q] = request[q]
  BY DEF Access!DeleteGrant, Access!End, Access!TypeOK
<1> HIDE DEF id
<1>3. /\ DOMAIN grant' = DOMAIN grant \ {id}
      /\ \A g \in DOMAIN grant' : grant'[g] = grant[g]
  BY <1>0
<1>4. Access!TypeOK'
  <2>1. DOMAIN grant' \subseteq Nat /\ grant' \in [DOMAIN grant' -> Access!GrantRow]
    BY <1>0, <1>3 DEF Access!TypeOK
  <2> QED BY <1>0, <1>1, <1>2, <2>1, IdleAsked DEF Access!TypeOK, Access!Asked
<1>5. Access!OneRowEach'
  BY <1>0 DEF Access!OneRowEach
<1>6. Access!IdsStable'
  BY <1>2, <1>3, IdleAsked DEF Access!IdsStable, Access!SameGrant
<1>7. Access!WritersMarked'
  BY <1>0, <1>2, IdleAsked DEF Access!WritersMarked, Access!Asked, Access!Removing, Access!IsMember
<1>8. Access!TakenHeld'
  BY <1>0, <1>2, <1>3, IdleAsked DEF Access!TakenHeld, Access!Gone
<1>9. Access!SweptLeavesStrays'
  BY <1>0, <1>2, <1>3, IdleAsked DEF Access!SweptLeavesStrays
<1>10. Access!OrphansOvertaken'
  BY <1>0, <1>3 DEF Access!OrphansOvertaken, Access!IsMember
<1> QED BY <1>4, <1>5, <1>6, <1>7, <1>8, <1>9, <1>10

(* The field updates of a removal, and of the mark it leaves on others. *)
Swept(q, taken)    == [q EXCEPT !.pc = "swept", !.seen = "USER", !.taken = taken]
Marked(q, u)       == [q EXCEPT !.raced = @ \/ Access!Overtaken(u, q)]
Cascaded(q, taken) == [q EXCEPT !.pc = "cascaded", !.taken = taken]

LEMMA SweptRecord ==
  ASSUME NEW q \in Access!Request, NEW taken \in SUBSET Nat
  PROVE  /\ Swept(q, taken) \in Access!Request
         /\ Swept(q, taken).pc = "swept" /\ Swept(q, taken).op = q.op
         /\ Swept(q, taken).row = q.row /\ Swept(q, taken).taken = taken
BY DEF Access!Request, Access!OrganizationRole, Swept

LEMMA MarkedRecord ==
  ASSUME NEW q \in Access!Request, NEW u
  PROVE  /\ Marked(q, u) \in Access!Request
         /\ Marked(q, u).pc = q.pc /\ Marked(q, u).op = q.op
         /\ Marked(q, u).row = q.row /\ Marked(q, u).id = q.id
         /\ Marked(q, u).grant = q.grant /\ Marked(q, u).taken = q.taken
         /\ Marked(q, u).raced <=> q.raced \/ Access!Overtaken(u, q)
BY DEF Access!Request, Marked

LEMMA CascadedRecord ==
  ASSUME NEW q \in Access!Request, NEW taken \in SUBSET Nat
  PROVE  /\ Cascaded(q, taken) \in Access!Request
         /\ Cascaded(q, taken).pc = "cascaded" /\ Cascaded(q, taken).op = q.op
         /\ Cascaded(q, taken).row = q.row /\ Cascaded(q, taken).taken = taken
BY DEF Access!Request, Cascaded

(* A removal marks whoever is about to write a grant of the same user. *)
LEMMA DeleteMemberInv ==
  ASSUME Access!GrantsInv, NEW r \in Requests, Access!DeleteMember(r)
  PROVE  Access!GrantsInv' /\ UNCHANGED <<membership, grant, stray>>
<1> USE DEF Access!GrantsInv
<1> DEFINE u == request[r].row.user
           found == Access!GrantsOn(u, Projects)
<1>0. /\ request[r].op = "remove" /\ request[r].pc = "loaded"
      /\ found \cap Access!Gone(r) = {}
      /\ UNCHANGED <<membership, grant, stray>>
  BY DEF Access!DeleteMember, Access!At
<1>1. found \subseteq DOMAIN grant /\ \A g \in found : grant[g].user = u
  BY DEF Access!GrantsOn
<1>2. \A g \in DOMAIN grant : grant[g].user = u /\ grant[g].target \in Projects => g \in found
  BY DEF Access!GrantsOn
<1> HIDE DEF found
<1>3. \A q \in Requests : request[q] \in Access!Request
  BY DEF Access!TypeOK
<1>4. /\ DOMAIN request' = Requests /\ request' = [q \in Requests |-> request'[q]]
      /\ request'[r] = Swept(request[r], found)
      /\ \A q \in Requests \ {r} :
           request'[q] = Marked(request[q], u)
  BY DEF Access!DeleteMember, found, Swept, Marked
<1>5. /\ request'[r] \in Access!Request
      /\ request'[r].op = "remove" /\ request'[r].pc = "swept" /\ request'[r].taken = found
      /\ request'[r].row = request[r].row
  <2>1. found \in SUBSET Nat
    BY <1>1 DEF Access!TypeOK
  <2> QED BY <1>0, <1>3, <1>4, <2>1, SweptRecord
<1>6. ASSUME NEW q \in Requests \ {r}
      PROVE  /\ request'[q] \in Access!Request
             /\ request'[q].pc = request[q].pc /\ request'[q].op = request[q].op
             /\ request'[q].row = request[q].row /\ request'[q].id = request[q].id
             /\ request'[q].grant = request[q].grant /\ request'[q].taken = request[q].taken
             /\ request'[q].raced <=> request[q].raced \/ Access!Overtaken(u, request[q])
  BY <1>3, <1>4, MarkedRecord
<1>7. request' \in [Requests -> Access!Request]
  BY <1>4, <1>5, <1>6
<1>8. Access!TypeOK'
  BY <1>0, <1>5, <1>6, <1>7 DEF Access!TypeOK, Access!Asked
<1>9. Access!OneRowEach'
  BY <1>0 DEF Access!OneRowEach
<1>10. Access!IdsStable'
  BY <1>0, <1>5, <1>6 DEF Access!IdsStable, Access!SameGrant
<1>11. Access!WritersMarked'
  <2> SUFFICES ASSUME NEW q \in Requests, request'[q].op \in {"grant", "change"}, ~request'[q].raced
               PROVE  /\ \E m \in DOMAIN membership : m.user = request'[q].grant.user
                      /\ \A p \in Requests : ~ /\ request'[p].pc \in {"swept", "cascaded"}
                                               /\ request'[p].row.user = request'[q].grant.user
    BY <1>0 DEF Access!WritersMarked, Access!Asked, Access!Removing, Access!IsMember
  <2>1. q # r
    BY <1>5
  <2>2. ~request[q].raced /\ request'[q].grant = request[q].grant /\ request[q].grant.user # u
    BY <1>6, <2>1 DEF Access!Overtaken
  <2>3. /\ \E m \in DOMAIN membership : m.user = request'[q].grant.user
        /\ \A p \in Requests : ~ /\ request[p].pc \in {"swept", "cascaded"}
                                 /\ request[p].row.user = request'[q].grant.user
    BY <1>6, <2>1, <2>2 DEF Access!WritersMarked, Access!Asked, Access!Removing, Access!IsMember
  <2> QED BY <1>5, <1>6, <2>2, <2>3
<1>12. Access!TakenHeld'
  <2>1. \A q \in Requests \ {r} : request[q].taken \cap found = {}
    BY <1>0 DEF Access!Gone
  <2>2. ASSUME NEW q \in Requests
        PROVE  /\ request'[q].pc \notin {"swept", "cascaded"} => request'[q].taken = {}
               /\ request'[q].taken \subseteq DOMAIN grant
               /\ \A p \in Requests \ {q} : request'[q].taken \cap request'[p].taken = {}
               /\ \A g \in request'[q].taken : grant[g].user = request'[q].row.user
    BY <1>1, <1>5, <1>6, <2>1 DEF Access!TakenHeld, Access!Gone
  <2> QED BY <1>0, <2>2 DEF Access!TakenHeld, Access!Gone
<1>13. Access!SweptLeavesStrays'
  BY <1>0, <1>2, <1>5, <1>6 DEF Access!SweptLeavesStrays
<1>14. Access!OrphansOvertaken'
  BY <1>0 DEF Access!OrphansOvertaken, Access!IsMember
<1> QED BY <1>0, <1>8, <1>9, <1>10, <1>11, <1>12, <1>13, <1>14

(* After the second statement of the cascade, only strays are left. *)
LEMMA CascadeInv ==
  ASSUME Access!GrantsInv, NEW r \in Requests, Access!CascadeEnvironments(r)
  PROVE  Access!GrantsInv' /\ UNCHANGED <<membership, grant, stray>>
<1> USE DEF Access!GrantsInv
<1> DEFINE u == request[r].row.user
           found == Access!GrantsOn(u, Environments)
<1>0. /\ request[r].op = "remove" /\ request[r].pc = "swept"
      /\ found \cap Access!Gone(r) = {}
      /\ UNCHANGED <<membership, grant, stray>>
  BY DEF Access!CascadeEnvironments, Access!At
<1>1. found \subseteq DOMAIN grant /\ \A g \in found : grant[g].user = u
  BY DEF Access!GrantsOn
<1>2. \A g \in DOMAIN grant : grant[g].user = u /\ grant[g].target \notin Projects => g \in found
  BY DEF Access!GrantsOn, Access!TypeOK, Access!GrantRow, Access!Target
<1> HIDE DEF found
<1>3. /\ request'[r] = Cascaded(request[r], request[r].taken \cup found)
      /\ \A q \in Requests \ {r} : request'[q] = request[q]
  BY DEF Access!CascadeEnvironments, Access!TypeOK, found, Cascaded
<1>4. /\ request'[r] \in Access!Request
      /\ request'[r].op = "remove" /\ request'[r].pc = "cascaded"
      /\ request'[r].taken = request[r].taken \cup found
      /\ request'[r].row = request[r].row
  <2>1. request[r] \in Access!Request /\ request[r].taken \cup found \in SUBSET Nat
    BY <1>1 DEF Access!TypeOK, Access!Request
  <2> QED BY <1>0, <1>3, <2>1, CascadedRecord
<1>5. request' \in [Requests -> Access!Request]
  BY <1>3, <1>4 DEF Access!CascadeEnvironments, Access!TypeOK
<1>6. Access!TypeOK'
  BY <1>0, <1>3, <1>4, <1>5 DEF Access!TypeOK, Access!Asked
<1>7. Access!OneRowEach'
  BY <1>0 DEF Access!OneRowEach
<1>8. Access!IdsStable'
  BY <1>0, <1>3, <1>4 DEF Access!IdsStable, Access!SameGrant
<1>9. Access!WritersMarked'
  BY <1>0, <1>3, <1>4 DEF Access!WritersMarked, Access!Asked, Access!Removing, Access!IsMember
<1>10. Access!TakenHeld'
  <2>1. \A q \in Requests \ {r} : request[q].taken \cap found = {}
    BY <1>0 DEF Access!Gone
  <2>2. ASSUME NEW q \in Requests
        PROVE  /\ request'[q].pc \notin {"swept", "cascaded"} => request'[q].taken = {}
               /\ request'[q].taken \subseteq DOMAIN grant
               /\ \A p \in Requests \ {q} : request'[q].taken \cap request'[p].taken = {}
               /\ \A g \in request'[q].taken : grant[g].user = request'[q].row.user
    <3>1. /\ request[q].pc \notin {"swept", "cascaded"} => request[q].taken = {}
          /\ request[q].taken \subseteq DOMAIN grant
          /\ \A p \in Requests \ {q} : request[q].taken \cap request[p].taken = {}
          /\ \A g \in request[q].taken : grant[g].user = request[q].row.user
      BY DEF Access!TakenHeld, Access!Gone
    <3>2. CASE q = r
      BY <1>1, <1>3, <1>4, <2>1, <3>1, <3>2
    <3>3. CASE q # r
      BY <1>1, <1>3, <1>4, <2>1, <3>1, <3>3
    <3> QED BY <3>2, <3>3
  <2> QED BY <1>0, <2>2 DEF Access!TakenHeld, Access!Gone
<1>11. Access!SweptLeavesStrays'
  <2> SUFFICES ASSUME NEW q \in Requests, request'[q].pc \in {"swept", "cascaded"},
                      NEW g \in DOMAIN grant \ (request'[q].taken \cup stray),
                      grant[g].user = request'[q].row.user
               PROVE  request'[q].pc = "swept" /\ grant[g].target \notin Projects
    BY <1>0 DEF Access!SweptLeavesStrays
  <2>1. CASE q = r
    BY <1>0, <1>2, <1>4, <2>1 DEF Access!SweptLeavesStrays
  <2>2. CASE q # r
    BY <1>3, <2>2 DEF Access!SweptLeavesStrays
  <2> QED BY <2>1, <2>2
<1>12. Access!OrphansOvertaken'
  BY <1>0 DEF Access!OrphansOvertaken, Access!IsMember
<1> QED BY <1>0, <1>6, <1>7, <1>8, <1>9, <1>10, <1>11, <1>12

(* What a removal leaves behind at its commit is strays, and what it takes   *)
(* was its holder's, who has no other row.                                  *)
LEMMA CommitInv ==
  ASSUME Access!GrantsInv, NEW r \in Requests, Access!Commit(r)
  PROVE  Access!GrantsInv'
<1> USE DEF Access!GrantsInv
<1> DEFINE row == request[r].row
           taken == request[r].taken
<1>0. /\ request[r].op = "remove" /\ request[r].pc = "cascaded"
      /\ membership' = [m \in DOMAIN membership \ {row} |-> membership[m]]
      /\ grant' = [g \in DOMAIN grant \ taken |-> grant[g]]
      /\ stray' = stray \ taken
  BY DEF Access!Commit, Access!At
<1> HIDE DEF row, taken
<1>1. request' \in [Requests -> Access!Request]
  BY IdleAsked DEF Access!Commit, Access!End, Access!TypeOK
<1>2. request'[r] = Access!Idle /\ \A q \in Requests \ {r} : request'[q] = request[q]
  BY DEF Access!Commit, Access!End, Access!TypeOK
<1>3. /\ DOMAIN grant' = DOMAIN grant \ taken
      /\ \A g \in DOMAIN grant' : grant'[g] = grant[g]
      /\ DOMAIN membership' = DOMAIN membership \ {row}
  BY <1>0
<1>4. Access!TypeOK'
  <2>1. DOMAIN grant' \subseteq Nat /\ grant' \in [DOMAIN grant' -> Access!GrantRow]
    BY <1>0, <1>3 DEF Access!TypeOK
  <2>2. /\ DOMAIN membership' \subseteq Access!MemberRow
        /\ membership' \in [DOMAIN membership' -> Access!OrganizationRole]
    BY <1>0, <1>3 DEF Access!TypeOK
  <2> QED BY <1>1, <1>2, <2>1, <2>2, IdleAsked DEF Access!TypeOK, Access!Asked
<1>5. Access!OneRowEach'
  BY <1>3 DEF Access!OneRowEach
<1>6. Access!IdsStable'
  BY <1>2, <1>3, IdleAsked DEF Access!IdsStable, Access!SameGrant
<1>7. Access!WritersMarked'
  <2> SUFFICES ASSUME NEW q \in Requests, request'[q].op \in {"grant", "change"}, ~request'[q].raced
               PROVE  /\ \E m \in DOMAIN membership' : m.user = request'[q].grant.user
                      /\ \A p \in Requests : ~ /\ request'[p].pc \in {"swept", "cascaded"}
                                               /\ request'[p].row.user = request'[q].grant.user
    BY DEF Access!WritersMarked, Access!Asked, Access!Removing, Access!IsMember
  <2>1. q # r /\ request'[q] = request[q]
    BY <1>2, IdleAsked
  <2>2. /\ \E m \in DOMAIN membership : m.user = request[q].grant.user
        /\ \A p \in Requests : ~ /\ request[p].pc \in {"swept", "cascaded"}
                                 /\ request[p].row.user = request[q].grant.user
    BY <2>1 DEF Access!WritersMarked, Access!Asked, Access!Removing, Access!IsMember
  <2>3. row.user # request[q].grant.user
    BY <1>0, <2>2 DEF row
  <2> QED BY <1>2, <1>3, <2>1, <2>2, <2>3, IdleAsked
<1>8. Access!TakenHeld'
  BY <1>2, <1>3, IdleAsked DEF Access!TakenHeld, Access!Gone, taken
<1>9. Access!SweptLeavesStrays'
  BY <1>0, <1>2, <1>3, IdleAsked DEF Access!SweptLeavesStrays
<1>10. Access!OrphansOvertaken'
  <2> SUFFICES ASSUME NEW g \in DOMAIN grant', \A m \in DOMAIN membership' : m.user # grant'[g].user
               PROVE  g \in stray'
    BY DEF Access!OrphansOvertaken, Access!IsMember
  <2>1. g \in DOMAIN grant /\ g \notin taken /\ grant'[g] = grant[g]
    BY <1>3
  <2>2. CASE row.user = grant[g].user
    BY <1>0, <2>1, <2>2 DEF Access!SweptLeavesStrays, row, taken
  <2>3. CASE row.user # grant[g].user
    BY <1>0, <1>3, <2>1, <2>3 DEF Access!OrphansOvertaken, Access!IsMember
  <2> QED BY <2>2, <2>3
<1> QED BY <1>4, <1>5, <1>6, <1>7, <1>8, <1>9, <1>10

(* Whoever joins had no row. *)
LEMMA JoinInv ==
  ASSUME Access!GrantsInv, NEW u \in Holders, Access!Join(u)
  PROVE  Access!GrantsInv' /\ UNCHANGED <<grant, request, stray>>
<1> USE DEF Access!GrantsInv
<1>1. PICK role \in JoinRoles, row \in Access!NewRows(u) :
        membership' = [m \in DOMAIN membership \cup {row} |->
                         IF m \in DOMAIN membership THEN membership[m] ELSE role]
  BY DEF Access!Join
<1>2. /\ role \in Access!OrganizationRole
      /\ row \in Access!MemberRow /\ row.user = u
  <2>1. Cardinality(Requests) \in Nat
    <3>1. IsFiniteSet(Requests)
      BY AccessAssumption DEF Access!GrantsAssumption, Access!IsFiniteSet, IsFiniteSet
    <3> QED BY <3>1, FS_CardinalityType
  <2>2. Access!Cardinality(Requests) = Cardinality(Requests)
    BY DEF Access!Cardinality, Cardinality
  <2> DEFINE free == {k \in 1..(Access!Cardinality(Requests) + 1) :
                        \A r \in Requests : request[r].row # [user |-> u, nth |-> k]}
  <2>3. free \subseteq Nat /\ row \in {[user |-> u, nth |-> n] : n \in Access!Least(free)}
    BY <2>1, <2>2 DEF Access!NewRows
  <2> HIDE DEF free
  <2>4. PICK n \in Nat : row = [user |-> u, nth |-> n]
    BY <2>3 DEF Access!Least
  <2>5. row \in Access!MemberRow /\ row.user = u
    BY <2>4 DEF Access!MemberRow
  <2> QED BY <2>5, AccessAssumption DEF Access!GrantsAssumption
<1>3. /\ UNCHANGED <<grant, request, stray>>
      /\ \A m \in DOMAIN membership : m.user # u
      /\ DOMAIN membership' = DOMAIN membership \cup {row}
  BY <1>1 DEF Access!Join, Access!IsMember
<1>4. Access!TypeOK'
  <2>1. /\ DOMAIN membership' \subseteq Access!MemberRow
        /\ membership' \in [DOMAIN membership' -> Access!OrganizationRole]
    BY <1>1, <1>2 DEF Access!TypeOK
  <2> QED BY <1>3, <2>1 DEF Access!TypeOK, Access!Asked
<1>5. Access!OneRowEach'
  BY <1>2, <1>3 DEF Access!OneRowEach
<1>6. Access!IdsStable' /\ Access!TakenHeld' /\ Access!SweptLeavesStrays'
  BY <1>3 DEF Access!IdsStable, Access!SameGrant, Access!TakenHeld, Access!Gone, Access!SweptLeavesStrays
<1>7. Access!WritersMarked' /\ Access!OrphansOvertaken'
  BY <1>3 DEF Access!WritersMarked, Access!Asked, Access!Removing, Access!IsMember, Access!OrphansOvertaken
<1> QED BY <1>3, <1>4, <1>5, <1>6, <1>7

-----------------------------------------------------------------------------
(* Every step of the grants. *)
LEMMA ArriveInv ==
  ASSUME Access!GrantsInv, NEW r \in Requests, Access!Arrive(r)
  PROVE  Access!GrantsInv' /\ UNCHANGED <<membership, grant, stray>>
<1> USE DEF Access!GrantsInv
<1>1. ASSUME NEW a \in Holders, NEW row \in [target : Access!Target, user : Holders, role : GivenRoles],
             Access!ValidateGrant(r, a, row)
      PROVE  Access!GrantsInv' /\ UNCHANGED <<membership, grant, stray>>
  <2> DEFINE locals == [Access!Idle EXCEPT !.pc = "loaded", !.op = "grant", !.grant = row,
                                           !.raced = Access!Removing(row.user) # {}]
  <2>1. row \in Access!GrantRow
    BY AccessAssumption DEF Access!GrantsAssumption, Access!GrantRow
  <2>2. /\ locals \in Access!Request
        /\ locals.pc = "loaded" /\ locals.op = "grant" /\ locals.taken = {} /\ locals.grant = row
        /\ locals.raced <=> Access!Removing(row.user) # {}
    BY <2>1, IdleAsked DEF Access!Idle, Access!Request, Access!OrganizationRole
  <2>3. Access!Load(r, locals) /\ Access!IsMember(row.user)
    BY <1>1 DEF Access!ValidateGrant
  <2> HIDE DEF locals
  <2> QED BY <2>1, <2>2, <2>3, LoadInv DEF Access!Load
<1>2. ASSUME NEW a \in Holders, NEW g \in DOMAIN grant, NEW role \in GivenRoles,
             Access!LoadForChange(r, a, g, role)
      PROVE  Access!GrantsInv' /\ UNCHANGED <<membership, grant, stray>>
  <2> DEFINE row    == [grant[g] EXCEPT !.role = role]
             locals == [Access!Idle EXCEPT !.pc = "loaded", !.op = "change", !.id = g, !.grant = row,
                          !.raced = g \in stray \/ Access!Removing(grant[g].user) # {}]
  <2>1. /\ row \in Access!GrantRow /\ g \in Nat
        /\ row.user = grant[g].user /\ row.target = grant[g].target
    BY AccessAssumption DEF Access!GrantsAssumption, Access!TypeOK, Access!GrantRow
  <2>2. Access!Load(r, locals)
    BY <1>2 DEF Access!LoadForChange
  <2> HIDE DEF row
  <2>3. /\ locals \in Access!Request
        /\ locals.pc = "loaded" /\ locals.op = "change" /\ locals.taken = {} /\ locals.grant = row
        /\ locals.id = g
        /\ locals.raced <=> g \in stray \/ Access!Removing(grant[g].user) # {}
    BY <2>1, IdleAsked DEF Access!Idle, Access!Request, Access!OrganizationRole
  <2> HIDE DEF locals
  <2>4. g \in stray \/ Access!IsMember(grant[g].user)
    BY DEF Access!OrphansOvertaken
  <2> QED BY <2>1, <2>2, <2>3, <2>4, LoadInv DEF Access!Load, Access!SameGrant
<1>3. ASSUME NEW a \in Holders, NEW g \in DOMAIN grant, Access!LoadForRevoke(r, a, g)
      PROVE  Access!GrantsInv' /\ UNCHANGED <<membership, grant, stray>>
  <2> DEFINE locals == [Access!Idle EXCEPT !.pc = "loaded", !.op = "revoke", !.id = g]
  <2>1. locals \in Access!Request /\ locals.pc = "loaded" /\ locals.op = "revoke" /\ locals.taken = {}
    BY DEF Access!TypeOK, Access!Idle, Access!Request, Access!OrganizationRole
  <2>2. Access!Load(r, locals)
    BY <1>3 DEF Access!LoadForRevoke
  <2> HIDE DEF locals
  <2> QED BY <2>1, <2>2, LoadInv DEF Access!Load
<1>4. ASSUME NEW a \in Holders, NEW m \in DOMAIN membership, Access!LoadForRemoval(r, a, m)
      PROVE  Access!GrantsInv' /\ UNCHANGED <<membership, grant, stray>>
  <2> DEFINE locals == [Access!Idle EXCEPT !.pc = "loaded", !.op = "remove", !.row = m, !.seen = membership[m]]
  <2>1. /\ locals \in Access!Request /\ locals.pc = "loaded" /\ locals.op = "remove" /\ locals.taken = {}
        /\ locals.row = m /\ m \in Access!MemberRow
    BY DEF Access!TypeOK, Access!Idle, Access!Request, Access!OrganizationRole
  <2>2. Access!Load(r, locals)
    BY <1>4 DEF Access!LoadForRemoval
  <2> HIDE DEF locals
  <2> QED BY <2>1, <2>2, LoadInv DEF Access!Load
<1> QED BY <1>1, <1>2, <1>3, <1>4 DEF Access!Arrive

(* Grants that go were revoked, or go with a removal of their holder's row. *)
LEMMA StepInv ==
  ASSUME Access!GrantsInv, Access!Next
  PROVE  Access!GrantsInv' /\ Access!FollowMembers
<1>1. ASSUME DOMAIN grant \subseteq DOMAIN grant' PROVE Access!TakesTheLeaving
  BY <1>1 DEF Access!TakesTheLeaving
<1>2. ASSUME Access!GrantsInv' PROVE Access!OrphansOvertaken'
  BY <1>2 DEF Access!GrantsInv
<1>3. ASSUME NEW u \in Holders, Access!Join(u) PROVE Access!GrantsInv' /\ Access!TakesTheLeaving
  BY <1>1, <1>3, JoinInv
<1>4. ASSUME NEW r \in Requests, Access!Arrive(r) PROVE Access!GrantsInv' /\ Access!TakesTheLeaving
  BY <1>1, <1>4, ArriveInv
<1>5. ASSUME NEW r \in Requests,
             \/ Access!InsertRefused(r) \/ Access!ReinsertRefused(r)
             \/ Access!DeleteRefused(r) \/ Access!Fail(r)
      PROVE  Access!GrantsInv' /\ Access!TakesTheLeaving
  BY <1>1, <1>5, EndInv
     DEF Access!InsertRefused, Access!ReinsertRefused, Access!DeleteRefused, Access!Fail
<1>6. ASSUME NEW r \in Requests,
             \/ Access!InsertGrant(r) \/ Access!ReinsertGrant(r) \/ Access!SaveGrant(r)
             \/ Access!DeleteMember(r) \/ Access!CascadeEnvironments(r)
      PROVE  Access!GrantsInv' /\ Access!TakesTheLeaving
  BY <1>1, <1>6, InsertInv, ReinsertInv, SaveInv, DeleteMemberInv, CascadeInv
<1>7. ASSUME NEW r \in Requests, Access!DeleteGrant(r) PROVE Access!GrantsInv' /\ Access!TakesTheLeaving
  <2>1. Access!At(r, "revoke", "loaded") /\ DOMAIN grant' = DOMAIN grant \ {request[r].id}
    BY <1>7 DEF Access!DeleteGrant
  <2> QED BY <1>7, <2>1, RevokeInv DEF Access!TakesTheLeaving
<1>8. ASSUME NEW r \in Requests, Access!Commit(r) PROVE Access!GrantsInv' /\ Access!TakesTheLeaving
  <2>1. /\ Access!At(r, "remove", "cascaded")
        /\ DOMAIN grant' = DOMAIN grant \ request[r].taken
        /\ DOMAIN membership' = DOMAIN membership \ {request[r].row}
    BY <1>8 DEF Access!Commit
  <2>2. \A g \in DOMAIN grant \ DOMAIN grant' : grant[g].user = request[r].row.user
    BY <2>1 DEF Access!GrantsInv, Access!TakenHeld
  <2>3. request[r].row \in DOMAIN membership =>
          \A m \in DOMAIN membership' : m.user # request[r].row.user
    BY <2>1 DEF Access!GrantsInv, Access!OneRowEach
  <2> QED BY <1>8, <2>1, <2>2, <2>3, CommitInv DEF Access!TakesTheLeaving
<1> QED BY <1>2, <1>3, <1>4, <1>5, <1>6, <1>7, <1>8 DEF Access!Next, Access!Advance, Access!FollowMembers

LEMMA GrantsInitially == Access!Init => Access!GrantsInv
<1> SUFFICES ASSUME Access!Init PROVE Access!GrantsInv
  OBVIOUS
<1> USE DEF Access!Init
<1>1. /\ DOMAIN grant = {} /\ request = [r \in Requests |-> Access!Idle]
      /\ DOMAIN membership = {[user |-> Founder, nth |-> 1]}
      /\ membership[[user |-> Founder, nth |-> 1]] = "ADMIN"
  OBVIOUS
<1>2. Access!TypeOK
  BY <1>1, IdleAsked, AccessAssumption
     DEF Access!TypeOK, Access!Asked, Access!MemberRow, Access!GrantsAssumption, Access!OrganizationRole
<1>3. Access!OneRowEach
  BY <1>1 DEF Access!OneRowEach
<1>4. Access!IdsStable /\ Access!WritersMarked /\ Access!TakenHeld /\ Access!SweptLeavesStrays
  BY <1>1, IdleAsked DEF Access!IdsStable, Access!WritersMarked, Access!Asked, Access!TakenHeld, Access!Gone,
       Access!SweptLeavesStrays
<1>5. Access!OrphansOvertaken
  BY <1>1 DEF Access!OrphansOvertaken
<1> QED BY <1>2, <1>3, <1>4, <1>5 DEF Access!GrantsInv

GrantsInvariant == topic # "members" => Access!GrantsInv

LEMMA RequestsStep ==
  ASSUME GrantsInvariant, [TenancyNext]_everything
  PROVE  /\ GrantsInvariant'
         /\ [topic # "members" => Access!FollowMembers]_<<membership, grant>>
<1>1. CASE UNCHANGED everything
  <2>1. UNCHANGED <<topic, membership, grant, request, stray>>
    BY <1>1 DEF everything, vars
  <2>2. Access!GrantsInv => Access!GrantsInv'
    BY <2>1 DEF Access!GrantsInv, Access!TypeOK, Access!Asked, Access!OneRowEach, Access!IdsStable,
                Access!SameGrant, Access!WritersMarked, Access!TakenHeld, Access!Gone,
                Access!SweptLeavesStrays, Access!OrphansOvertaken, Access!IsMember, Access!Removing
  <2> QED BY <2>1, <2>2 DEF GrantsInvariant
<1>2. CASE topic = "members" /\ Next /\ UNCHANGED <<topic, grant, stray>>
  BY <1>2 DEF GrantsInvariant
<1>3. CASE topic # "members" /\ Access!Next /\ UNCHANGED <<topic, others>>
  BY <1>3, StepInv DEF GrantsInvariant
<1> QED BY <1>1, <1>2, <1>3 DEF TenancyNext

LEMMA TenancyInitially == TenancyInit => GrantsInvariant
BY GrantsInitially DEF TenancyInit, GrantsInvariant

(* Whatever requests overlap, the tables and the locals stay as GrantsInv    *)
(* has them.                                                                *)
THEOREM GrantsInvHolds == TenancySpec => []GrantsInvariant
<1>1. GrantsInvariant /\ [TenancyNext]_everything => GrantsInvariant'
  BY RequestsStep
<1> QED BY <1>1, TenancyInitially, PTL DEF TenancySpec

(* GrantsFollow: a grant of somebody who is no member was written while its  *)
(* holder was being removed, and the cascade of a removal takes the grants   *)
(* of somebody who leaves.                                                  *)
THEOREM GrantsFollowMembers == TenancySpec => GrantsFollow
<1>1. GrantsInvariant /\ [TenancyNext]_everything
        => GrantsInvariant' /\ [topic # "members" => Access!FollowMembers]_<<membership, grant>>
  BY RequestsStep
<1> QED BY <1>1, TenancyInitially, PTL DEF TenancySpec, GrantsFollow
=============================================================================
