-------------------------------- MODULE Tenancy --------------------------------
(***************************************************************************)
(* Which organization and project the dashboard is about                   *)
(* (lib/tenant-context.tsx), and the dialogs of its header that create,    *)
(* rename and delete them (components/layout/dashboard-nav.tsx,            *)
(* components/dashboard/*-dialog.tsx).                                     *)
(***************************************************************************)
EXTENDS Lists, Calls

CONSTANTS
  None,
  OrganizationIds, ProjectIds,
  InitialOrganizations,   \* rows [id, name, shared]; shared: it has other members
  InitialProjects,        \* rows [id, organization, name]
  Rank,                   \* the order in which rows are listed: id -> number
  Capabilities,           \* organization -> the capabilities that /auth/me/ names for it
  Names                   \* what the user types

VARIABLES page, server, flight

vars == <<page, server, flight>>

Kinds == {"organization", "project"}

OrganizationRow == [id : OrganizationIds, name : Names, shared : BOOLEAN]
ProjectRow == [id : ProjectIds, organization : OrganizationIds, name : Names]

First(rows) ==
  IF rows = {} THEN None ELSE (CHOOSE row \in rows : \A other \in rows : Rank[row.id] <= Rank[other.id]).id

Ids(rows) == {row.id : row \in rows}

Stored == [organizations |-> server.organizations, projects |-> server.projects]

tenancy == page.lists["tenancy"].rows

-----------------------------------------------------------------------------
(* The selection *)

CurrentIn(p, kind) ==
  LET rows == p.lists["tenancy"].rows IN
  IF kind = "organization" THEN {o \in rows.organizations : o.id = p.organization}
  ELSE {q \in rows.projects : q.id = p.project}

Current(kind) == CurrentIn(page, kind)
currentOrganization == Current("organization")
currentProject == Current("project")

(* The projects of the current organization. *)
projects == {p \in tenancy.projects : currentOrganization # {} /\ p.organization = page.organization}

(* What a load is for: a user that is a new one, or what was created,       *)
(* renamed or deleted.                                                      *)
Causes == {"user"} \cup OrganizationIds \cup ProjectIds

(* The answer of /auth/me/, which a refresh for the sake of id asks for next *)
(* to its load, makes a new user.                                           *)
Me(id) == [op |-> "me", state |-> "done", of |-> id]

Created(kinds, ids, organizations) ==
  [op : {"create"}, state : {"sent", "refused"}, kind : kinds, name : Names, id : {None},
   from : {"header", "overview"}, organization : organizations, listed : SUBSET ProjectRow]
    \cup [op : {"create"}, state : {"done"}, kind : kinds, name : Names, id : ids,
          from : {"header", "overview"}, organization : organizations, listed : SUBSET ProjectRow]

(* A project is created in an organization. *)
Call ==
  Created({"organization"}, OrganizationIds, OrganizationIds \cup {None})
    \cup Created({"project"}, ProjectIds, OrganizationIds)
    \cup [op : {"rename"}, state : CallStates, kind : Kinds, id : OrganizationIds \cup ProjectIds, name : Names]
    \cup [op : {"delete"}, state : CallStates, kind : Kinds, id : OrganizationIds \cup ProjectIds, confirm : Names]
    \cup [op : {"impact"}, state : CallStates, kind : Kinds, id : OrganizationIds \cup ProjectIds, shared : BOOLEAN]
    \cup [op : {"select"}, state : {"done"}, id : OrganizationIds, listed : SUBSET ProjectRow]
    \cup {Me(id) : id \in OrganizationIds \cup ProjectIds}

Page ==
  [doing : {"creating", "renaming", "deleting"},
   lists : [tenancy : ListOf(Causes, [organizations : SUBSET OrganizationRow, projects : SUBSET ProjectRow])],
   storage : [organization : OrganizationIds \cup {None}, project : ProjectIds \cup {None}],
   organization : OrganizationIds \cup {None}, project : ProjectIds \cup {None},
   dialog : {"none", "create", "rename", "delete"}, kind : Kinds, typed : Names \cup {None},
   impact : [Kinds -> [of : OrganizationIds \cup ProjectIds, shared : BOOLEAN] \cup {None}],
   isLoadingImpact : [Kinds -> BOOLEAN]]

Server == [organizations : SUBSET OrganizationRow, projects : SUBSET ProjectRow, writes : Nat]

TypeOK == page \in Page /\ server \in Server /\ flight \subseteq Call

(* What a load selects of the rows it answered: what was stored in the      *)
(* browser, as far as it still exists and belongs together, and otherwise   *)
(* what is listed first.                                                    *)
Restored(rows, storage) ==
  LET organization == IF storage.organization \in Ids(rows.organizations) THEN storage.organization ELSE First(rows.organizations)
      within == {p \in rows.projects : p.organization = organization}
  IN [organization |-> organization,
      project |-> IF storage.project \in Ids(within) THEN storage.project ELSE First(within)]

Selecting(p, selection) == [p EXCEPT !.organization = selection.organization, !.project = selection.project]

(* The current project goes to the browser's storage, too. *)
persistProject(p, project) == [p EXCEPT !.project = project, !.storage.project = project]

(* mutant: the project stays *)
setCurrentOrganizationAlone(p, organization, listed) ==
  [p EXCEPT !.organization = organization, !.storage.organization = organization]

(* The project moves to the organization's first one, of the projects that  *)
(* were listed when the function was made.                                  *)
setCurrentOrganization(p, organization, listed) ==
  persistProject([p EXCEPT !.organization = organization, !.storage.organization = organization],
                 First({q \in listed : q.organization = organization}))

Empty == [organizations |-> {}, projects |-> {}]

(* load, which refresh starts, and the effect of a user that is a new one.  *)
load(p, by) == [p EXCEPT !.lists = Refetch(@, "tenancy", by, by, [tenancy |-> Stored], {"tenancy"})]

refresh(p, id) == /\ Room(page.lists, "tenancy")
                  /\ page' = load(p, id)

-----------------------------------------------------------------------------
(* What the header offers. *)

Open(dialog) == page.dialog = dialog

OrganizationSelect ==
  IF Open("none") /\ Cardinality(tenancy.organizations) > 1 THEN Ids(tenancy.organizations) \ {page.organization} ELSE {}

ProjectSelect == IF Open("none") THEN Ids(projects) \ {page.project} ELSE {}

hasOrgCapability(organization, capability) ==
  organization # None /\ capability \in Capabilities[organization]

(* Which dialogs there are, for what is current; a project's to rename or    *)
(* delete it are not held back.                                             *)
Mounted(p, dialog, kind) ==
  CASE dialog = "create" -> kind = "organization" \/ CurrentIn(p, "organization") # {}
    [] dialog \in {"rename", "delete"} ->
         /\ CurrentIn(p, kind) # {}
         /\ kind = "organization" => hasOrgCapability(p.organization, IF dialog = "rename" THEN "org.manage" ELSE "org.delete")
    [] OTHER -> TRUE

(* One that is taken away loses what it held, and what it was waiting for.   *)
Remaining(p) ==
  LET gone == {kind \in Kinds : ~Mounted(p, "delete", kind)}
      q == [p EXCEPT !.impact = [kind \in Kinds |-> IF kind \in gone THEN None ELSE @[kind]],
                     !.isLoadingImpact = [kind \in Kinds |-> kind \notin gone /\ @[kind]]]
  IN IF Mounted(p, p.dialog, p.kind) THEN q ELSE [q EXCEPT !.dialog = "none", !.typed = None]

Renders(p, calls) ==
  /\ page' = Remaining(p)
  /\ flight' = {c \in calls : c.op = "impact" => Mounted(p, "delete", c.kind)}
  /\ UNCHANGED server

(* What the delete dialog shows, and whether that holds the deletion back.  *)
impact == page.impact[page.kind]
blocked == page.kind = "organization" /\ impact # None /\ impact.shared

(* What the overview shows instead of its numbers. *)
OverviewGate ==
  IF tenancy.organizations = {} THEN "createOrganization"
  ELSE IF currentOrganization = {} \/ projects # {} THEN "none"
  ELSE IF hasOrgCapability(page.organization, "project.create") THEN "createProject" ELSE "noAccess"

isSaving(op) == \E c \in flight : c.op = op /\ c.kind = page.kind

Send(call) ==
  /\ CanSend(flight, server.writes, page.doing)
  /\ flight' = flight \cup {call}
  /\ UNCHANGED server

Only(fields) == page' = fields /\ UNCHANGED <<server, flight>>

SelectOrganization(organization) ==
  /\ organization \in OrganizationSelect
  /\ Renders(setCurrentOrganization(page, organization, tenancy.projects), flight)

SelectProject(project) ==
  /\ project \in ProjectSelect
  /\ Renders(persistProject(page, project), flight)

(* Closing a dialog leaves what its calls will do as it is; a name left from *)
(* an earlier look is one the user types.                                   *)
OpenDialog(dialog, kind) ==
  /\ Open("none") /\ Mounted(page, dialog, kind)
  /\ Only([page EXCEPT !.dialog = dialog, !.kind = kind, !.typed = None])

CloseDialog ==
  /\ ~Open("none")
  /\ Only([page EXCEPT !.dialog = "none", !.typed = None])

Type(name) ==
  /\ ~Open("none") /\ name # page.typed
  /\ Open("delete") => impact # None /\ ~blocked /\ ~page.isLoadingImpact[page.kind]
  /\ Only([page EXCEPT !.typed = name])

(* create-organization-dialog.tsx and create-project-dialog.tsx, of the      *)
(* header or of the overview that has no project to show.                   *)
OpenCreate(kind) == OpenDialog("create", kind)

handleCreate ==
  /\ Open("create") /\ page.typed # None /\ ~isSaving("create")
  /\ \E from \in {"header"} \cup (IF OverviewGate = "createProject" THEN {"overview"} ELSE {}) :
     Send([op |-> "create", state |-> "sent", kind |-> page.kind, name |-> page.typed, id |-> None, from |-> from,
           organization |-> page.organization, listed |-> tenancy.projects])
  /\ UNCHANGED page

(* rename-resource-dialog.tsx: the values are taken when it opens, and what *)
(* is renamed when they are saved.                                          *)
OpenRename(kind) ==
  /\ Open("none") /\ Mounted(page, "rename", kind)
  /\ Only([page EXCEPT !.dialog = "rename", !.kind = kind,
                       !.typed = (CHOOSE row \in Current(kind) : TRUE).name])

handleSave ==
  /\ Open("rename") /\ ~isSaving("rename") /\ page.typed # None
  /\ \E row \in Current(page.kind) :
       /\ page.typed # row.name
       /\ Send([op |-> "rename", state |-> "sent", kind |-> page.kind, id |-> row.id, name |-> page.typed])
  /\ UNCHANGED page

(* delete-resource-dialog.tsx: opening it resets it and fetches what the    *)
(* deletion would take.                                                     *)
OpenDelete(kind) ==
  /\ Open("none") /\ Mounted(page, "delete", kind)
  /\ flight' = flight \cup {[op |-> "impact", state |-> "sent", kind |-> kind, id |-> row.id, shared |-> FALSE] : row \in Current(kind)}
  /\ Cardinality(flight) < Limits[page.doing].calls
  /\ page' = [page EXCEPT !.dialog = "delete", !.kind = kind, !.typed = None, !.impact[kind] = None, !.isLoadingImpact[kind] = TRUE]
  /\ UNCHANGED server

handleDelete ==
  /\ Open("delete") /\ ~isSaving("delete")
  /\ impact # None /\ ~blocked
  /\ \E row \in Current(page.kind) :
       /\ page.typed = row.name
       /\ Send([op |-> "delete", state |-> "sent", kind |-> page.kind, id |-> row.id, confirm |-> page.typed])
  /\ UNCHANGED page

-----------------------------------------------------------------------------
(* What the server makes of a call. *)

Done(c, organizations, stored) ==
  /\ server' = [organizations |-> organizations, projects |-> stored, writes |-> server.writes + 1]
  /\ flight' = Become(flight, c, "done")
Refused(c) == flight' = Become(flight, c, "refused") /\ UNCHANGED server

Rows(kind) == IF kind = "organization" THEN server.organizations ELSE server.projects
Row(kind, id) == {row \in Rows(kind) : row.id = id}

HandleCreate(c) ==
  /\ c.op = "create" /\ c.state = "sent"
  /\ \E id \in (IF c.kind = "organization" THEN OrganizationIds ELSE ProjectIds) \ Ids(Rows(c.kind)) :
       /\ server' = [server EXCEPT !.writes = @ + 1,
            !.organizations = IF c.kind = "project" THEN @ ELSE @ \cup {[id |-> id, name |-> c.name, shared |-> FALSE]},
            !.projects = IF c.kind = "organization" THEN @
                         ELSE @ \cup {[id |-> id, organization |-> c.organization, name |-> c.name]}]
       /\ flight' = (flight \ {c}) \cup {[c EXCEPT !.state = "done", !.id = id]}
  /\ UNCHANGED page

HandleRename(c) ==
  /\ c.op = "rename" /\ c.state = "sent"
  /\ IF Row(c.kind, c.id) = {} THEN Refused(c)
     ELSE LET Renamed(rows) == {IF row.id = c.id THEN [row EXCEPT !.name = c.name] ELSE row : row \in rows} IN
          Done(c, IF c.kind = "organization" THEN Renamed(server.organizations) ELSE server.organizations,
                  IF c.kind = "project" THEN Renamed(server.projects) ELSE server.projects)
  /\ UNCHANGED page

ReadImpact(c) ==
  /\ c.op = "impact" /\ c.state = "sent"
  /\ flight' = IF Row(c.kind, c.id) = {} THEN Become(flight, c, "refused")
               ELSE (flight \ {c}) \cup {[c EXCEPT !.state = "done",
                      !.shared = \E row \in Row(c.kind, c.id) : c.kind = "organization" /\ row.shared]}
  /\ UNCHANGED <<page, server>>

(* The name has to be the current one, and an organization to have no other *)
(* members; its projects go with it.                                        *)
HandleDelete(c) ==
  /\ c.op = "delete" /\ c.state = "sent"
  /\ IF ~\E row \in Row(c.kind, c.id) : row.name = c.confirm /\ (c.kind = "organization" => ~row.shared) THEN Refused(c)
     ELSE Done(c, IF c.kind = "organization" THEN server.organizations \ Row(c.kind, c.id) ELSE server.organizations,
                  {p \in server.projects : IF c.kind = "organization" THEN p.organization # c.id ELSE p.id # c.id})
  /\ UNCHANGED page

Handle(c) == HandleCreate(c) \/ HandleRename(c) \/ ReadImpact(c) \/ HandleDelete(c)

-----------------------------------------------------------------------------
(* What the handlers do when their call is answered. *)

Closed(c) == IF Open(c.op) /\ page.kind = c.kind THEN [page EXCEPT !.dialog = "none", !.typed = None] ELSE page

(* A new organization will be selected, with the projects that were listed  *)
(* at the click, when the refresh that its creation starts has ended.       *)
OrganizationCreated(c) ==
  /\ c.op = "create" /\ c.kind = "organization" /\ c.state = "done"
  /\ refresh(Closed(c), c.id)
  /\ flight' = (flight \ {c}) \cup {Me(c.id), [op |-> "select", state |-> "done", id |-> c.id, listed |-> c.listed]}
  /\ UNCHANGED server

(* await refresh(): its load and its question of /auth/me/ have both ended. *)
Refreshed(p, calls, id) ==
  /\ Me(id) \notin calls
  /\ \A i \in DOMAIN p.lists["tenancy"].loads : p.lists["tenancy"].loads[i].of # id

(* What shows page p also goes on with what waited for its refresh.         *)
SelectCreated(p, calls) ==
  LET ended == {c \in calls : c.op = "select" /\ Refreshed(p, calls, c.id)} IN
  IF ended = {} THEN Renders(p, calls)
  ELSE \E c \in ended : Renders(setCurrentOrganization(p, c.id, c.listed), calls \ ended)

(* A new project is selected at once, the overview's with the load.         *)
ProjectCreated(c) ==
  /\ c.op = "create" /\ c.kind = "project" /\ c.state = "done"
  /\ refresh(Remaining(IF c.from = "header" THEN persistProject(Closed(c), c.id) ELSE Closed(c)), c.id)
  /\ flight' = (flight \ {c}) \cup {Me(c.id)}
  /\ UNCHANGED server

RenamedOrDeleted(c) ==
  /\ c.op \in {"rename", "delete"} /\ c.state = "done"
  /\ refresh(Closed(c), c.id)
  /\ flight' = (flight \ {c}) \cup {Me(c.id)}
  /\ UNCHANGED server

(* The counts of whichever look at this dialog they were fetched for.       *)
ImpactFetched(c) ==
  /\ c.op = "impact" /\ c.state = "done" /\ flight' = flight \ {c}
  /\ page' = [page EXCEPT !.isLoadingImpact[c.kind] = FALSE, !.impact[c.kind] = [of |-> c.id, shared |-> c.shared]]
  /\ UNCHANGED server

UserReplaced(c) ==
  /\ c.op = "me" /\ Room(page.lists, "tenancy")
  /\ SelectCreated(load(page, "user"), flight \ {c})

(* The user stays, and nothing is loaded for a new one: what a selection     *)
(* that waits drops of the projects created meanwhile stays dropped.        *)
UserNotReplaced(c) ==
  /\ c.op = "me"
  /\ SelectCreated(IF \E d \in flight : d.op = "select" /\ d.id = c.of THEN [page EXCEPT !.lists = ExcuseAll(@, {"tenancy"})] ELSE page,
                   flight \ {c})

Failed(c) ==
  /\ c.op \notin {"select", "me"} /\ flight' = flight \ {c}
  /\ page' = [page EXCEPT !.isLoadingImpact = IF c.op = "impact" THEN [@ EXCEPT ![c.kind] = FALSE] ELSE @,
                          !.lists = IF c.op \in {"create", "rename", "delete"} /\ c.state = "done" THEN ExcuseAll(@, {"tenancy"}) ELSE @]
  /\ UNCHANGED server

Return(c) ==
  \/ OrganizationCreated(c) \/ ProjectCreated(c) \/ RenamedOrDeleted(c)
  \/ ImpactFetched(c) \/ UserReplaced(c) \/ UserNotReplaced(c) \/ Failed(c)

ReadLoad(i) ==
  LET list == page.lists["tenancy"] IN
  /\ Unanswered(list, i)
  /\ Only([page EXCEPT !.lists["tenancy"] = Read(@, i, Stored)])

(* The browser's storage is looked at when the answer has come. *)
LandLoad(i) ==
  LET list == page.lists["tenancy"] IN
  /\ ~Unanswered(list, i)
  /\ SelectCreated([Selecting(page, Restored(list.loads[i].rows, page.storage)) EXCEPT !.lists["tenancy"] = Land(@, i, list.loads[i].of)],
                   flight)

(* Nothing is left, not even what was there. *)
FailLoad(i) ==
  SelectCreated([Selecting(page, [organization |-> None, project |-> None]) EXCEPT !.lists["tenancy"] = FailTo(@, i, Empty)],
                flight)

-----------------------------------------------------------------------------
(* The context has loaded, and selected what the browser had stored. *)
Init ==
  /\ server = [organizations |-> InitialOrganizations, projects |-> InitialProjects, writes |-> 0]
  /\ flight = {}
  /\ \E doing \in {"creating", "renaming", "deleting"}, organization \in {None} \cup Ids(InitialOrganizations) :
       LET storage == [organization |-> organization, project |-> None] IN
       page = Selecting([doing |-> doing, lists |-> [tenancy |-> List(Stored)], storage |-> storage, organization |-> None, project |-> None,
                dialog |-> "none", kind |-> "project", typed |-> None, impact |-> [kind \in Kinds |-> None], isLoadingImpact |-> [kind \in Kinds |-> FALSE]],
              Restored(Stored, storage))

Header ==
  \/ \E organization \in OrganizationSelect : SelectOrganization(organization)
  \/ \E project \in ProjectSelect : SelectProject(project)
  \/ CloseDialog \/ \E name \in Names : Type(name)

Next ==
  \/ Header
  \/ page.doing = "creating" /\ (handleCreate \/ \E kind \in Kinds : OpenCreate(kind))
  \/ page.doing = "renaming" /\ (handleSave \/ \E kind \in Kinds : OpenRename(kind))
  \/ page.doing = "deleting" /\ (handleDelete \/ \E kind \in Kinds : OpenDelete(kind))
  \/ \E c \in flight : Handle(c) \/ Return(c)
  \/ \E i \in DOMAIN page.lists["tenancy"].loads : ReadLoad(i) \/ LandLoad(i) \/ FailLoad(i)

Spec == Init /\ [][Next]_vars

-----------------------------------------------------------------------------
(* Properties *)

(* "so the UI never shows one organization's data under another's name":    *)
(* once nothing is in flight the current project is one of the current      *)
(* organization, and both are what the user selected last, if it is there.  *)
(* A list is excused when its load failed or was overtaken, the answer of a *)
(* write was lost, or /auth/me/ failed while a selection waited for it.     *)
SelectionSettles ==
  LET list == page.lists["tenancy"] IN
  flight = {} /\ list.loads = <<>> /\ ~list.excused =>
    /\ list.rows = Stored
    /\ [organization |-> page.organization, project |-> page.project] = Restored(Stored, page.storage)

(* "the dialog fetches and shows exactly what the delete would take with    *)
(* it": a deletion is sent while what it would take is on the screen.       *)
ShowsWhatItDeletes ==
  \A c \in flight' \ flight : c.op = "delete" /\ c.state = "sent" => impact.of = c.id

ImpactOfNamed == [][ShowsWhatItDeletes]_vars
=============================================================================
