----------------------------- MODULE MembersPage -----------------------------
(***************************************************************************)
(* The members page of the dashboard (dashboard/members/page.tsx): the     *)
(* organization's members and invitations, the grants of the current       *)
(* project, and the dialog that grants a role after previewing it.         *)
(***************************************************************************)
EXTENDS Lists, Calls

CONSTANTS
  None,
  Places,           \* the selections of the tenant context: [organization, project]
  EnvironmentsOf,   \* project -> its environments
  InitialMembers,   \* rows [organization, user, role]
  InitialGrants,    \* rows [user, target, role]
  Roles,            \* the roles of a grant
  Invitations       \* identifiers of invitations

VARIABLES
  page,     \* the state of the mounted page
  server,   \* what is stored
  flight    \* its writes in flight

vars == <<page, server, flight>>

ProjectsOf(organization) == {at.project : at \in {p \in Places : p.organization = organization}} \ {None}
Projects == UNION {ProjectsOf(at.organization) : at \in Places}
Users == {m.user : m \in InitialMembers}
Environments(projects) == UNION {EnvironmentsOf[p] : p \in projects}
TargetsOf(projects) == projects \cup Environments(projects)
Targets == TargetsOf(Projects)

(* The dialog's form; level is the kind of target it asks for. *)
Form == [level : {"project", "environment"}, target : Targets \cup {None}, role : Roles]

NoForm == [level |-> "project", target |-> None, role |-> "VIEWER"]

ListNames == {"members", "invitations", "grants", "orgGrants"}

(* The rows, as the client declares them. *)
OrganizationMembership == [organization : {at.organization : at \in Places}, user : Users, role : {"ADMIN", "USER"}]
Grant == [user : Users, target : Targets, role : Roles]
Invitation ==
  [id : Invitations, organization : {at.organization : at \in Places}, status : {"pending", "revoked"}]

Organizations == {at.organization : at \in Places}

GrantForms == [member : OrganizationMembership, project : {at.project : at \in Places},
               level : {"project", "environment"}, target : Targets \cup {None}, role : Roles \cup {None}]

Call ==
  [op : {"preview"}, state : CallStates, at : Places, signature : GrantForms, asked : Grant]
    \cup [op : {"grant"}, state : CallStates, at : Places, user : Users, role : Roles, existing : BOOLEAN, target : Targets]
    \cup [op : {"revokeGrant"}, state : CallStates, at : Places, grant : Grant]
    \cup [op : {"removeMember"}, state : CallStates, at : Places, member : OrganizationMembership]
    \cup [op : {"invite"}, state : CallStates, at : Places, organization : Organizations]
    \cup [op : {"revokeInvitation"}, state : CallStates, at : Places, invitation : Invitations]

Page ==
  [at : Places, live : ListNames \cup {"none"}, doing : {"grants", "previews", "removals", "invitations"},
   lists : [members : ListOf(Places, SUBSET OrganizationMembership), invitations : ListOf(Places, SUBSET Invitation),
            grants : ListOf(Places, [environments : SUBSET Environments(Projects), grants : SUBSET Grant]),
            orgGrants : ListOf(Places, SUBSET Grant)],
   dialog : {"none", "grant", "remove", "revoke", "invite"}, createdInvite : BOOLEAN,
   member : OrganizationMembership \cup {None}, form : Form, signature : GrantForms \cup {None},
   previewed : Grant \cup {None}, subject : OrganizationMembership \cup Invitation \cup {None}]

Server == [members : SUBSET OrganizationMembership, invitations : SUBSET Invitation, grants : SUBSET Grant, writes : Nat]

(* An open dialog has the row it is about. *)
TypeOK ==
  /\ page \in Page /\ server \in Server /\ flight \subseteq Call
  /\ page.dialog = "grant" => page.member \in OrganizationMembership
  /\ page.dialog = "remove" => page.subject \in OrganizationMembership
  /\ page.dialog = "revoke" => page.subject \in Invitation

-----------------------------------------------------------------------------
(* What the loads answer for a selection. *)

OrgMembers(at) == {m \in server.members : m.organization = at.organization}
OrgInvitations(at) == {i \in server.invitations : i.organization = at.organization}
ProjectGrants(at) ==
  IF at.project = None THEN [environments |-> {}, grants |-> {}]
  ELSE [environments |-> EnvironmentsOf[at.project],
        grants |-> {g \in server.grants : g.target \in TargetsOf({at.project})}]
OrgWideGrants(at) == {g \in server.grants : g.target \in TargetsOf(ProjectsOf(at.organization))}

Stored(at) ==
  [members |-> OrgMembers(at), invitations |-> OrgInvitations(at),
   grants |-> ProjectGrants(at), orgGrants |-> OrgWideGrants(at)]

(* What a list holds when there is nothing to load, or its load failed. *)
Cleared(name) == IF name = "grants" THEN [environments |-> {}, grants |-> {}] ELSE {}

(* The loads an effect or a handler starts for the place it knows; without  *)
(* a project, or any, there is nothing to ask for.                          *)
Loaded(of, at, names) ==
  LET empty == (IF of.project = None THEN {"grants"} ELSE {})
               \cup (IF ProjectsOf(of.organization) = {} THEN {"orgGrants"} ELSE {})
      lists == Refetch(page.lists, page.live, of, at, Stored(of), names \ empty)
  IN [n \in ListNames |-> IF n \in names \cap empty THEN Replace(lists[n], Cleared(n), of # at) ELSE lists[n]]

rows(name) == page.lists[name].rows
loading(name) == page.lists[name].loading

-----------------------------------------------------------------------------
(* What the page derives and offers. *)

pendingInvitations == {i \in rows("invitations") : i.status = "pending"}
withAccess == {g.user : g \in rows("orgGrants")}
membersWithoutAccess == {m \in rows("members") : m.role # "ADMIN" /\ m.user \notin withAccess}
orgAdminCount == Cardinality({m \in rows("members") : m.role = "ADMIN"})
grantRows == rows("grants").grants

(* A dialog is modal: while one is open nothing behind it can be clicked. *)
Modal == page.dialog # "none"

(* The members' table and the controls of a row. *)
MembersTable ==
  IF loading("members") \/ Modal THEN {}
  ELSE {[member |-> m, control |-> "grant"] : m \in {n \in rows("members") : n.role # "ADMIN" /\ page.at.project # None}}
  \cup {[member |-> m, control |-> "remove"] : m \in {n \in rows("members") : n.role = "ADMIN" => orgAdminCount > 1}}

InvitationsTable == IF loading("invitations") \/ Modal THEN {} ELSE pendingInvitations

(* A grant is changed in place when its grantee is listed. *)
GrantsTable ==
  IF page.at.project = None \/ loading("grants") \/ Modal THEN {}
  ELSE {[grant |-> g, control |-> "revoke"] : g \in grantRows}
  \cup {[grant |-> g, control |-> "change"] : g \in {h \in grantRows : h.user \in {m.user : m \in rows("members")}}}

(* mutant: the signature leaves the role out *)
SignatureWithoutRole(form) ==
  [member |-> page.member, project |-> page.at.project, level |-> form.level, target |-> form.target, role |-> None]

(* JSON of everything the preview was about. *)
Signature(form) ==
  [member |-> page.member, project |-> page.at.project, level |-> form.level, target |-> form.target, role |-> form.role]

(* The grant the form would change, of the grants loaded for this level. *)
existingMembership ==
  {g \in grantRows : /\ page.member # None /\ g.user = page.member.user
                     /\ g.target = page.form.target
                     /\ g.target \in (IF page.form.level = "project" THEN Projects ELSE Environments(Projects))}

PreviewEnabled ==
  /\ ~Busy(flight, {"preview"})
  /\ page.form.level = "environment" => page.form.target # None

ConfirmEnabled ==
  /\ ~Busy(flight, {"grant"})
  /\ page.signature = Signature(page.form)
  /\ page.form.level = "environment" => page.form.target # None

-----------------------------------------------------------------------------
Send(call) ==
  /\ CanSend(flight, server.writes, page.doing)
  /\ flight' = flight \cup {call}
  /\ UNCHANGED server

(* The tenant context selects another place, or the same one with new rows: *)
(* every effect runs whose inputs changed.                                  *)
Select(at) ==
  /\ Room(page.lists, page.live)
  /\ page' = [page EXCEPT !.at = at,
       !.lists = Loaded(at, at, IF at.organization = page.at.organization /\ at # page.at THEN {"grants"} ELSE ListNames)]
  /\ UNCHANGED <<server, flight>>

(* Opening the dialog sets all of its state anew, so closing it may forget it. *)
Opened(member, form) ==
  [page EXCEPT !.dialog = "grant", !.member = member, !.form = form, !.signature = None, !.previewed = None]

Closed ==
  [page EXCEPT !.dialog = "none", !.member = None, !.form = NoForm, !.signature = None, !.previewed = None,
               !.subject = None]

OpenGrant(m) ==
  /\ [member |-> m, control |-> "grant"] \in MembersTable
  /\ page' = Opened(m, [level |-> "project", target |-> page.at.project, role |-> "VIEWER"])
  /\ UNCHANGED <<server, flight>>

OpenChange(g, m) ==
  /\ [grant |-> g, control |-> "change"] \in GrantsTable
  /\ m \in rows("members") /\ m.user = g.user
  /\ page' = Opened(m, [level |-> IF g.target \in Projects THEN "project" ELSE "environment",
                        target |-> g.target, role |-> g.role])
  /\ UNCHANGED <<server, flight>>

ChangeForm(form) ==
  /\ page.dialog = "grant" /\ form # page.form
  /\ page' = [page EXCEPT !.form = form, !.signature = None, !.previewed = None]
  /\ UNCHANGED <<server, flight>>

(* Another level takes the form back to its defaults. *)
SetLevel(level) ==
  ChangeForm([level |-> level, target |-> IF level = "project" THEN page.at.project ELSE None, role |-> "VIEWER"])

SetTarget(target) ==
  /\ page.form.level = "environment" /\ target \in rows("grants").environments \cup {None}
  /\ ChangeForm([page.form EXCEPT !.target = target])

SetRole(role) == ChangeForm([page.form EXCEPT !.role = role])

CloseGrant ==
  /\ page.dialog = "grant"
  /\ page' = Closed
  /\ UNCHANGED <<server, flight>>

handlePreview ==
  /\ page.dialog = "grant" /\ PreviewEnabled /\ page.at.project # None
  /\ Send([op |-> "preview", state |-> "sent", at |-> page.at, signature |-> Signature(page.form),
           asked |-> [user |-> page.member.user, role |-> page.form.role,
                      target |-> IF page.form.level = "project" THEN page.at.project ELSE page.form.target]])
  /\ UNCHANGED page

(* An existing grant is changed in place, a project's grant is created for  *)
(* the project that is current now.                                         *)
handleConfirmGrant ==
  /\ page.dialog = "grant" /\ ConfirmEnabled /\ page.at.project # None
  /\ LET existing == existingMembership # {} IN
       Send([op |-> "grant", state |-> "sent", at |-> page.at, user |-> page.member.user, role |-> page.form.role, existing |-> existing,
             target |-> IF existing \/ page.form.level = "environment" THEN page.form.target ELSE page.at.project])
  /\ UNCHANGED page

handleRevoke(g) ==
  /\ [grant |-> g, control |-> "revoke"] \in GrantsTable
  /\ Send([op |-> "revokeGrant", state |-> "sent", at |-> page.at, grant |-> g])
  /\ UNCHANGED page

SetMemberToRemove(m) ==
  /\ [member |-> m, control |-> "remove"] \in MembersTable
  /\ page' = [page EXCEPT !.dialog = "remove", !.subject = m]
  /\ UNCHANGED <<server, flight>>

handleRemoveMember ==
  /\ page.dialog = "remove" /\ ~Busy(flight, {"removeMember"})
  /\ Send([op |-> "removeMember", state |-> "sent", at |-> page.at, member |-> page.subject])
  /\ UNCHANGED page

(* Escape closes either dialog, also while its call is in flight. *)
CancelDialogs ==
  /\ page.dialog \in {"remove", "revoke"}
  /\ page' = Closed
  /\ UNCHANGED <<server, flight>>

SetInvitationToRevoke(i) ==
  /\ i \in InvitationsTable
  /\ page' = [page EXCEPT !.dialog = "revoke", !.subject = i]
  /\ UNCHANGED <<server, flight>>

handleRevokeInvitation ==
  /\ page.dialog = "revoke" /\ ~Busy(flight, {"revokeInvitation"})
  /\ Send([op |-> "revokeInvitation", state |-> "sent", at |-> page.at, invitation |-> page.subject.id])
  /\ UNCHANGED page

OpenInvite ==
  /\ ~Modal
  /\ page' = [page EXCEPT !.dialog = "invite"]
  /\ UNCHANGED <<server, flight>>

closeInviteDialog ==
  /\ page.dialog = "invite"
  /\ page' = [Closed EXCEPT !.createdInvite = FALSE]
  /\ UNCHANGED <<server, flight>>

handleCreateInvite ==
  /\ page.dialog = "invite" /\ ~page.createdInvite /\ ~Busy(flight, {"invite"})
  /\ Send([op |-> "invite", state |-> "sent", at |-> page.at, organization |-> page.at.organization])
  /\ UNCHANGED page

-----------------------------------------------------------------------------
(* What the server makes of a call. *)

GrantsAt(user, target) == {g \in server.grants : g.user = user /\ g.target = target}

Done(c, stored) == server' = [stored EXCEPT !.writes = @ + 1] /\ flight' = Become(flight, c, "done")
Refused(c) == flight' = Become(flight, c, "refused") /\ UNCHANGED server

(* A role is changed where there is a grant, and created where there is none. *)
HandleGrant(c) ==
  /\ c.op = "grant" /\ c.state = "sent"
  /\ IF c.existing <=> GrantsAt(c.user, c.target) # {}
     THEN Done(c, [server EXCEPT !.grants = (@ \ GrantsAt(c.user, c.target))
                     \cup {[user |-> c.user, target |-> c.target, role |-> c.role]}])
     ELSE Refused(c)
  /\ UNCHANGED page

HandleRevoke(c) ==
  /\ c.op = "revokeGrant" /\ c.state = "sent"
  /\ LET revoked == GrantsAt(c.grant.user, c.grant.target) IN
       IF revoked = {} THEN Refused(c) ELSE Done(c, [server EXCEPT !.grants = @ \ revoked])
  /\ UNCHANGED page

(* A removal takes the member's grants in the organization with it; the     *)
(* last admin stays.                                                        *)
HandleRemove(c) ==
  LET o == c.member.organization IN
  /\ c.op = "removeMember" /\ c.state = "sent"
  /\ IF /\ c.member \in server.members
        /\ \E m \in server.members \ {c.member} : m.organization = o /\ m.role = "ADMIN"
     THEN Done(c, [server EXCEPT !.members = @ \ {c.member},
            !.grants = {g \in @ : g.user = c.member.user => g.target \notin TargetsOf(ProjectsOf(o))}])
     ELSE Refused(c)
  /\ UNCHANGED page

HandleInvite(c) ==
  /\ c.op = "invite" /\ c.state = "sent"
  /\ \E id \in Invitations \ {i.id : i \in server.invitations} :
       Done(c, [server EXCEPT !.invitations = @ \cup
                  {[id |-> id, organization |-> c.at.organization, status |-> "pending"]}])
  /\ UNCHANGED page

(* The invitation's status is not looked at once more. *)
HandleRevokeInvitation(c) ==
  /\ c.op = "revokeInvitation" /\ c.state = "sent"
  /\ Done(c, [server EXCEPT !.invitations = {[i EXCEPT !.status = IF i.id = c.invitation THEN "revoked" ELSE @] : i \in @}])
  /\ UNCHANGED page

Handle(c) == HandleGrant(c) \/ HandleRevoke(c) \/ HandleRemove(c) \/ HandleInvite(c) \/ HandleRevokeInvitation(c)

-----------------------------------------------------------------------------
(* What the handlers do when their call is answered. *)

Answered(c, op) == c.op = op /\ c.state = "done" /\ flight' = flight \ {c} /\ Room(page.lists, page.live)

Previewed(c) ==
  /\ c.op = "preview" /\ flight' = flight \ {c}
  /\ page' = IF page.dialog = "grant" THEN [page EXCEPT !.signature = c.signature, !.previewed = c.asked] ELSE page
  /\ UNCHANGED server

Granted(c) ==
  /\ Answered(c, "grant")
  /\ page' = [(IF page.dialog = "grant" THEN Closed ELSE page) EXCEPT !.lists = Loaded(c.at, page.at, {"grants", "orgGrants"})]
  /\ UNCHANGED server

GrantRevoked(c) ==
  /\ Answered(c, "revokeGrant")
  /\ page' = [page EXCEPT !.lists = Loaded(c.at, page.at, {"grants", "orgGrants"})]
  /\ UNCHANGED server

(* mutant: the cascade's grants are not loaded again *)
RemovedAlone(c) ==
  /\ Answered(c, "removeMember")
  /\ page' = [(IF page.dialog = "remove" THEN Closed ELSE page) EXCEPT !.lists = Loaded(c.at, page.at, {"members"})]
  /\ UNCHANGED server

Removed(c) ==
  /\ Answered(c, "removeMember")
  /\ page' = [(IF page.dialog = "remove" THEN Closed ELSE page) EXCEPT
                 !.lists = Loaded(c.at, page.at, {"members", "grants", "orgGrants"})]
  /\ UNCHANGED server

(* The link is shown, in a dialog that may have been closed meanwhile. *)
Invited(c) ==
  /\ Answered(c, "invite")
  /\ page' = [page EXCEPT !.createdInvite = TRUE, !.lists = Loaded(c.at, page.at, {"invitations"})]
  /\ UNCHANGED server

InvitationRevoked(c) ==
  /\ Answered(c, "revokeInvitation")
  /\ page' = [(IF page.dialog = "revoke" THEN Closed ELSE page) EXCEPT !.lists = Loaded(c.at, page.at, {"invitations"})]
  /\ UNCHANGED server

(* Refused or lost: a toast, and everything stays as it is.  What a call    *)
(* that was carried out would have loaded again is missed.                  *)
Failed(c) ==
  /\ flight' = flight \ {c}
  /\ page' = IF c.state = "done" THEN [page EXCEPT !.lists = ExcuseAll(@, ListNames)] ELSE page
  /\ UNCHANGED server

(* The server reads for a load, and its answer is applied or it failed.     *)
ReadLoad(i) ==
  LET list == page.lists[page.live] IN
  /\ Unanswered(list, i)
  /\ page' = [page EXCEPT !.lists[page.live] = Read(@, i, Stored(list.loads[i].of)[page.live])]
  /\ UNCHANGED <<server, flight>>

LandLoad(i) ==
  /\ ~Unanswered(page.lists[page.live], i)
  /\ page' = [page EXCEPT !.lists[page.live] = Land(@, i, page.at)]
  /\ UNCHANGED <<server, flight>>

FailLoad(i) ==
  /\ page' = [page EXCEPT !.lists[page.live] = FailTo(@, i, Cleared(page.live))]
  /\ UNCHANGED <<server, flight>>

-----------------------------------------------------------------------------
(* To bound a model its user grants, removes or invites, and of the lists   *)
(* that this loads one is live.                                             *)
ListsOf(doing) ==
  CASE doing = "grants" -> {"grants", "orgGrants"}
    [] doing = "previews" -> {"none"}
    [] doing = "removals" -> {"members", "grants", "orgGrants"}
    [] doing = "invitations" -> {"invitations"}

(* The page has loaded what is stored. *)
Init ==
  /\ server = [members |-> InitialMembers, invitations |-> {}, grants |-> InitialGrants, writes |-> 0]
  /\ flight = {}
  /\ \E at \in Places, doing \in {"grants", "previews", "removals", "invitations"} : \E live \in ListsOf(doing) :
       page = [at |-> at, live |-> live, doing |-> doing, lists |-> [n \in ListNames |-> List(Stored(at)[n])],
                  dialog |-> "none", member |-> None, form |-> NoForm, signature |-> None, previewed |-> None,
                  subject |-> None, createdInvite |-> FALSE]

GrantDialog ==
  \/ \E m \in rows("members") : OpenGrant(m) \/ \E g \in grantRows : OpenChange(g, m)
  \/ \E level \in {"project", "environment"} : SetLevel(level)
  \/ \E target \in Targets \cup {None} : SetTarget(target)
  \/ \E role \in Roles : SetRole(role)
  \/ CloseGrant \/ handlePreview \/ handleConfirmGrant

RemoveDialog == (\E m \in rows("members") : SetMemberToRemove(m)) \/ handleRemoveMember \/ CancelDialogs

InvitationDialogs ==
  \/ OpenInvite \/ closeInviteDialog \/ handleCreateInvite
  \/ \E i \in rows("invitations") : SetInvitationToRevoke(i)
  \/ handleRevokeInvitation \/ CancelDialogs

Return(c) ==
  Previewed(c) \/ Granted(c) \/ GrantRevoked(c) \/ Removed(c) \/ Invited(c) \/ InvitationRevoked(c) \/ Failed(c)

Next ==
  \/ \E at \in Places : Select(at)
  \/ page.doing \in {"grants", "previews"} /\ (GrantDialog \/ \E g \in grantRows : handleRevoke(g))
  \/ page.doing = "removals" /\ RemoveDialog
  \/ page.doing = "invitations" /\ InvitationDialogs
  \/ \E c \in flight : Handle(c) \/ Return(c)
  \/ \E i \in DOMAIN LoadsOf(page.lists, page.live) : ReadLoad(i) \/ LandLoad(i) \/ FailLoad(i)

Spec == Init /\ [][Next]_vars

-----------------------------------------------------------------------------
(* Properties *)

(* At rest each list shows what is stored for the selection, but for one    *)
(* that is excused (Lists).                                                 *)
Settles == flight = {} => \A n \in ListNames : Settled(page.lists[n], Stored(page.at)[n])

(* "what this screen shows is provably what saving would actually grant":   *)
(* a grant is sent as the preview on the screen asked for it.  Which        *)
(* project's grant is changed in place is the form's, and the selection may *)
(* have changed since the form was opened.                                  *)
SendsPreviewed ==
  \A c \in flight' \ flight :
    c.op = "grant" /\ c.state = "sent" =>
      /\ page.previewed # None
      /\ c.user = page.previewed.user /\ c.role = page.previewed.role
      /\ ~c.existing \/ page.form.level = "environment" => c.target = page.previewed.target

GrantsPreviewed == [][SendsPreviewed]_vars
=============================================================================
