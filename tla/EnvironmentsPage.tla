--------------------------- MODULE EnvironmentsPage ---------------------------
(***************************************************************************)
(* The environments page (dashboard/environments/page.tsx) of the current  *)
(* project: its environments with their API keys, the dialog that creates  *)
(* one (create-environment-dialog.tsx), and a button that deletes one.     *)
(***************************************************************************)
EXTENDS Lists, Calls

CONSTANTS
  None,
  Selections,            \* the projects that may be current, or None
  EnvironmentIds,
  InitialEnvironments    \* rows [id, project]

VARIABLES page, server, flight

vars == <<page, server, flight>>

EnvironmentRow == [id : EnvironmentIds, project : Selections \ {None}]

(* Without a project there is nothing to load. *)
Stored(project) == {e \in server.environments : e.project = project}

environments == page.lists["environments"].rows

Call ==
  [op : {"create"}, state : CallStates, at : Selections \ {None}, environment : {None}, mounted : BOOLEAN]
    \cup [op : {"delete"}, state : CallStates, at : Selections \ {None}, environment : EnvironmentRow, mounted : BOOLEAN]

Page ==
  [doing : {"environments"}, live : {"environments"}, at : Selections,
   lists : [environments : ListOf(Selections, SUBSET EnvironmentRow)],
   isOpen : BOOLEAN, name : BOOLEAN, copiedId : EnvironmentIds \cup {None}]

Server == [environments : SUBSET EnvironmentRow, writes : Nat]

TypeOK == page \in Page /\ server \in Server /\ flight \subseteq Call

(* The function an effect or a handler knows, which loads for one project.  *)
loadEnvironments(of) ==
  IF of = None THEN [page.lists EXCEPT !["environments"] = Replace(@, {}, of # page.at)]
  ELSE Refetch(page.lists, page.live, of, page.at, [environments |-> Stored(of)], {"environments"})

(* Every list and button waits until the load is answered; the dialog with  *)
(* its button is taken away with them.                                      *)
Shown == page.at # None /\ ~page.lists["environments"].loading

EnvironmentsTable == IF Shown /\ ~page.isOpen THEN environments ELSE {}

(* The dialog that sent it is still there. *)
isSaving == \E c \in flight : c.op = "create" /\ c.mounted

CreateEnabled == Shown /\ page.isOpen /\ page.name /\ ~isSaving

-----------------------------------------------------------------------------
Send(call) ==
  /\ CanSend(flight, server.writes, page.doing)
  /\ flight' = flight \cup {call}
  /\ UNCHANGED server

(* While a load is awaited a skeleton stands in place of all this, and the   *)
(* dialog is mounted again after it.                                        *)
Mounts(lists, p) ==
  IF lists["environments"].loading THEN [p EXCEPT !.lists = lists, !.isOpen = FALSE, !.name = FALSE]
  ELSE [p EXCEPT !.lists = lists]

Unmounted(calls) == {[c EXCEPT !.mounted = FALSE] : c \in calls}

Select(project) ==
  LET lists == IF project = None THEN [page.lists EXCEPT !["environments"] = Replace(@, {}, FALSE)]
               ELSE Refetch(page.lists, page.live, project, project, [environments |-> Stored(project)], {"environments"})
  IN /\ project # page.at /\ Room(page.lists, page.live)
     /\ page' = [page EXCEPT !.at = project, !.lists = lists, !.isOpen = FALSE, !.name = FALSE]
     /\ flight' = Unmounted(flight)
     /\ UNCHANGED server

(* name: whether one has been typed. *)
ChangeDialog ==
  /\ Shown
  /\ \E isOpen, name \in BOOLEAN :
       /\ name # page.name => page.isOpen /\ isOpen
       /\ page' = [page EXCEPT !.isOpen = isOpen, !.name = name]
  /\ UNCHANGED <<server, flight>>

handleCreate ==
  /\ CreateEnabled
  /\ Send([op |-> "create", state |-> "sent", at |-> page.at, environment |-> None, mounted |-> TRUE])
  /\ UNCHANGED page

deleteEnvironment(e) ==
  /\ e \in EnvironmentsTable
  /\ Send([op |-> "delete", state |-> "sent", at |-> page.at, environment |-> e, mounted |-> FALSE])
  /\ UNCHANGED page

(* copyApiKey only marks the row for two seconds; whichever timer runs out  *)
(* first takes the mark.                                                    *)
copyApiKey(e) ==
  /\ e \in EnvironmentsTable
  /\ page' = [page EXCEPT !.copiedId = e.id]
  /\ UNCHANGED <<server, flight>>

CopiedTimeout ==
  /\ page.copiedId # None
  /\ page' = [page EXCEPT !.copiedId = None]
  /\ UNCHANGED <<server, flight>>

-----------------------------------------------------------------------------
(* What the server makes of a call. *)

Done(c, stored) ==
  /\ server' = [environments |-> stored, writes |-> server.writes + 1]
  /\ flight' = Become(flight, c, "done")

HandleCreate(c) ==
  /\ c.op = "create" /\ c.state = "sent"
  /\ \E id \in EnvironmentIds \ {e.id : e \in server.environments} :
       Done(c, server.environments \cup {[id |-> id, project |-> c.at]})
  /\ UNCHANGED page

HandleDelete(c) ==
  /\ c.op = "delete" /\ c.state = "sent"
  /\ IF c.environment \in server.environments THEN Done(c, server.environments \ {c.environment})
     ELSE flight' = Become(flight, c, "refused") /\ UNCHANGED server
  /\ UNCHANGED page

-----------------------------------------------------------------------------
(* What the handlers do when their call is answered: they load for the      *)
(* project of the click.                                                    *)

Answered(c, op) ==
  LET lists == loadEnvironments(c.at) IN
  /\ c.op = op /\ c.state = "done" /\ Room(page.lists, page.live)
  /\ flight' = IF lists["environments"].loading THEN Unmounted(flight \ {c}) ELSE flight \ {c}
  /\ page' = Mounts(lists, IF c.mounted THEN [page EXCEPT !.isOpen = FALSE, !.name = FALSE] ELSE page)
  /\ UNCHANGED server

Created(c) == Answered(c, "create")

Deleted(c) == Answered(c, "delete")

Failed(c) ==
  /\ flight' = flight \ {c}
  /\ page' = IF c.state = "done" THEN [page EXCEPT !.lists = ExcuseAll(@, {"environments"})] ELSE page
  /\ UNCHANGED server

Return(c) == Created(c) \/ Deleted(c) \/ Failed(c)

ReadLoad(i) ==
  LET list == page.lists["environments"] IN
  /\ Unanswered(list, i)
  /\ page' = [page EXCEPT !.lists["environments"] = Read(@, i, Stored(list.loads[i].of))]
  /\ UNCHANGED <<server, flight>>

LandLoad(i) ==
  /\ ~Unanswered(page.lists["environments"], i)
  /\ page' = [page EXCEPT !.lists["environments"] = Land(@, i, page.at)]
  /\ UNCHANGED <<server, flight>>

(* What was shown stays, also what was shown of another project. *)
FailLoad(i) ==
  /\ page' = [page EXCEPT !.lists["environments"] = FailTo(@, i, @.rows)]
  /\ UNCHANGED <<server, flight>>

-----------------------------------------------------------------------------
Init ==
  /\ server = [environments |-> InitialEnvironments, writes |-> 0]
  /\ flight = {}
  /\ \E at \in Selections, doing \in {"environments"} :
       page = [doing |-> doing, live |-> "environments", at |-> at,
               lists |-> [environments |-> List(Stored(at))],
               isOpen |-> FALSE, name |-> FALSE, copiedId |-> None]

Next ==
  \/ \E project \in Selections : Select(project)
  \/ ChangeDialog \/ handleCreate \/ CopiedTimeout
  \/ \E e \in environments : deleteEnvironment(e) \/ copyApiKey(e)
  \/ \E c \in flight : HandleCreate(c) \/ HandleDelete(c) \/ Return(c)
  \/ \E i \in DOMAIN LoadsOf(page.lists, page.live) : ReadLoad(i) \/ LandLoad(i) \/ FailLoad(i)

Spec == Init /\ [][Next]_vars

-----------------------------------------------------------------------------
(* Properties *)

(* At rest the page shows what is stored of the current project, but for a  *)
(* list that is excused (Lists).                                            *)
Settles == flight = {} => Settled(page.lists["environments"], Stored(page.at))
=============================================================================
