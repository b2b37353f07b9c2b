--------------------------- MODULE MonitoringPage ---------------------------
(***************************************************************************)
(* The monitoring page (dashboard/monitoring/page.tsx): registered SDKs,   *)
(* the evaluation log with its filters and pages, and the overrides, which *)
(* it records and lifts.  One load of five requests fills all of it.       *)
(***************************************************************************)
EXTENDS Lists, Calls

CONSTANTS
  None,
  Selections,        \* the projects that may be current
  EnvironmentsOf,    \* project -> its environments
  Flags,             \* rows [id, project]
  Registrations,     \* rows [id, environment, age]
  ActiveWindow,      \* an SDK that was seen at most this long ago is active
  Logs,              \* rows [id, environment, flag, result]
  PageSize,          \* 20 in the code
  OverrideIds,
  InitialOverrides   \* rows [id, flag, environment, is_enabled, is_active]

VARIABLES page, server, flight

vars == <<page, server, flight>>

EnvironmentsIn(project) ==
  UNION {EnvironmentsOf[p] : p \in IF project = None THEN DOMAIN EnvironmentsOf ELSE {project}}

(* What the requests of a load depend on: the current project, the filters  *)
(* and the page of the log; awaits is the handler that waits for the load.  *)
View == [project : Selections, environment : EnvironmentsIn(None) \cup {None}, flag : {f.id : f \in Flags} \cup {None},
         result : BOOLEAN \cup {None}, page : Nat \ {0}, awaits : OverrideIds \cup {None, "create"}]

FlagOverride == [id : OverrideIds, flag : {f.id : f \in Flags}, environment : EnvironmentsIn(None),
                 is_enabled : BOOLEAN, is_active : BOOLEAN]

Scoped(rows, view) == {row \in rows : view.environment \in {None, row.environment}}

(* isStale *)
isStale(registration) == registration.age > ActiveWindow

(* analyticsApi.sdkHealth: within a project, which the list is not.         *)
sdkHealth(view) ==
  LET seen == {r \in Scoped(Registrations, view) : r.environment \in EnvironmentsIn(view.project)} IN
  [total |-> Cardinality(seen), stale |-> Cardinality({r \in seen : isStale(r)}),
   active |-> Cardinality({r \in seen : ~isStale(r)})]

(* evaluationsApi.list: the number of rows the filters leave, and one page. *)
Matching(view) ==
  {log \in Scoped(Logs, view) : view.flag \in {None, log.flag} /\ view.result \in {None, log.result}}

LastPage(count) == IF count = 0 THEN 1 ELSE (count + PageSize - 1) \div PageSize

Stored(view) ==
  [health |-> sdkHealth(view), registrations |-> Scoped(Registrations, view),
   count |-> Cardinality(Matching(view)), page |-> view.page,
   overrides |-> Scoped(server.overrides, view),
   flags |-> {f \in Flags : view.project \in {None, f.project}}]

Answers(view) == [monitor |-> Stored(view), environments |-> EnvironmentsIn(view.project)]

monitor == page.lists["monitor"].rows
isRefreshing == page.lists["monitor"].loading
lastPage == LastPage(monitor.count)

Monitored ==
  [health : [total : Nat, stale : Nat, active : Nat], registrations : SUBSET Registrations, count : Nat,
   page : Nat \ {0}, overrides : SUBSET FlagOverride, flags : SUBSET Flags]

OverrideForm == [flag : {f.id : f \in Flags} \cup {None}, is_enabled : BOOLEAN, reason : {"", "why"}]

(* A creation is of a flag that was chosen. *)
Call ==
  [op : {"create"}, state : CallStates, view : View,
   form : [flag : {f.id : f \in Flags}, is_enabled : BOOLEAN, reason : {"why"}]]
    \cup [op : {"lift"}, state : CallStates, view : View, override : OverrideIds]

Page ==
  [doing : {"reading", "overriding"}, live : {"monitor", "environments"}, view : View,
   lists : [monitor : ListOf(View, Monitored), environments : ListOf(View, SUBSET EnvironmentsIn(None))],
   panel : {"sdks", "evaluations", "overrides"}, isDialogOpen : BOOLEAN, form : OverrideForm, saving : BOOLEAN,
   lifting : OverrideIds \cup {None}]

Server == [overrides : SUBSET FlagOverride, writes : Nat]

TypeOK == page \in Page /\ server \in Server /\ flight \subseteq Call

-----------------------------------------------------------------------------
(* What the page offers. *)

(* The registered SDKs, with the badge each has. *)
RegistrationsTable == {[registration |-> r, badge |-> IF isStale(r) THEN "stale" ELSE "active"] : r \in monitor.registrations}

EnvironmentFilter == IF page.isDialogOpen THEN {} ELSE page.lists["environments"].rows \cup {None}

FlagFilter == IF page.panel # "evaluations" THEN {} ELSE {f.id : f \in monitor.flags} \cup {None}

ResultFilter == IF page.panel # "evaluations" THEN {} ELSE BOOLEAN \cup {None}

(* The buttons below the log, which an empty log has not. *)
Pager ==
  IF page.panel # "evaluations" \/ monitor.count = 0 THEN {}
  ELSE {n \in {page.view.page - 1, page.view.page + 1} : n >= 1 /\ (n > page.view.page => page.view.page < lastPage)}

OverridesTable ==
  IF page.panel # "overrides" \/ page.isDialogOpen THEN {}
  ELSE {o \in monitor.overrides : o.is_active /\ page.lifting # o.id}

OverrideOptions == {f.id : f \in monitor.flags} \cup {None}

RecordEnabled ==
  page.isDialogOpen /\ ~Busy(flight, {"create"}) /\ ~page.saving /\ page.form.flag # None /\ page.form.reason # ""

-----------------------------------------------------------------------------
Send(call) ==
  /\ CanSend(flight, server.writes, page.doing)
  /\ flight' = flight \cup {call}
  /\ UNCHANGED server

Only(fields) == page' = fields /\ UNCHANGED <<server, flight>>

NoOverride == [flag |-> None, is_enabled |-> FALSE, reason |-> ""]

(* load is a new function of what the view holds, and runs when that is new. *)
Show(view, names) ==
  /\ view # page.view /\ Room(page.lists, page.live)
  /\ Only([page EXCEPT !.view = view, !.lists = Refetch(@, page.live, view, view, Answers(view), names)])

(* Another project: the filters stay, and so does the page of the log.       *)
SelectProject(project) == Show([page.view EXCEPT !.project = project], {"monitor", "environments"})

(* mutant: the page of the log stays *)
applyFilterAlone(view) == Show(view, {"monitor"})

applyFilter(view) == Show([view EXCEPT !.page = 1], {"monitor"})

SetEnvironment(environment) ==
  /\ environment \in EnvironmentFilter \ {page.view.environment}
  /\ applyFilter([page.view EXCEPT !.environment = environment])

SetFlagFilter(flag) ==
  /\ flag \in FlagFilter \ {page.view.flag}
  /\ applyFilter([page.view EXCEPT !.flag = flag])

SetResultFilter(result) ==
  /\ result \in ResultFilter \ {page.view.result}
  /\ applyFilter([page.view EXCEPT !.result = result])

(* Pages are counted by what the last load answered. *)
SetEvaluationsPage(n) ==
  /\ n \in Pager
  /\ Show([page.view EXCEPT !.page = n], {"monitor"})

SetPanel(panel) ==
  /\ ~page.isDialogOpen /\ panel # page.panel
  /\ Only([page EXCEPT !.panel = panel])

Refresh ==
  /\ ~isRefreshing /\ ~page.isDialogOpen /\ Room(page.lists, page.live)
  /\ Only([page EXCEPT !.lists = Refetch(@, page.live, page.view, page.view, Answers(page.view), {"monitor"})])

OpenOverride ==
  /\ page.panel = "overrides" /\ ~page.isDialogOpen
  /\ Only([page EXCEPT !.isDialogOpen = TRUE])

ChangeOverride(form) ==
  /\ page.isDialogOpen /\ form.flag \in OverrideOptions
  /\ Only([page EXCEPT !.form = form])

(* The cancel button keeps the form; closing in any other way resets it.    *)
CloseOverride ==
  /\ page.isDialogOpen
  /\ \E form \in {page.form, NoOverride} : Only([page EXCEPT !.isDialogOpen = FALSE, !.form = form])

handleCreateOverride ==
  /\ RecordEnabled
  /\ Send([op |-> "create", state |-> "sent", view |-> page.view, form |-> page.form])
  /\ page' = [page EXCEPT !.saving = TRUE]

handleLiftOverride(o) ==
  /\ o \in OverridesTable
  /\ Send([op |-> "lift", state |-> "sent", view |-> page.view, override |-> o.id])
  /\ page' = [page EXCEPT !.lifting = o.id]

-----------------------------------------------------------------------------
(* What the server makes of a call. *)

Done(c, stored) == server' = [stored EXCEPT !.writes = @ + 1] /\ flight' = Become(flight, c, "done")

EnvironmentOf(flag) == CHOOSE e \in EnvironmentsIn((CHOOSE f \in Flags : f.id = flag).project) : TRUE

(* The override that was active is lifted with it (Overrides). *)
HandleCreate(c) ==
  /\ c.op = "create" /\ c.state = "sent"
  /\ \E id \in OverrideIds \ {o.id : o \in server.overrides} :
       Done(c, [server EXCEPT !.overrides = {IF o.flag = c.form.flag THEN [o EXCEPT !.is_active = FALSE] ELSE o : o \in @}
         \cup {[id |-> id, flag |-> c.form.flag, environment |-> EnvironmentOf(c.form.flag),
                is_enabled |-> c.form.is_enabled, is_active |-> TRUE]}])
  /\ UNCHANGED page

HandleLift(c) ==
  /\ c.op = "lift" /\ c.state = "sent"
  /\ Done(c, [server EXCEPT !.overrides = {IF o.id = c.override THEN [o EXCEPT !.is_active = FALSE] ELSE o : o \in @}])
  /\ UNCHANGED page

-----------------------------------------------------------------------------
(* The handlers go on to load as the view was at the click, and end when    *)
(* that has landed.                                                         *)

(* The finally blocks: whichever lift ends clears the place they share.     *)
Ended(p, awaits) ==
  [p EXCEPT !.saving = @ /\ awaits # "create",
            !.lifting = IF awaits \in OverrideIds THEN None ELSE @]

Reloaded(p, view, awaits) ==
  LET loaded == [p EXCEPT !.lists = Refetch(@, page.live, [view EXCEPT !.awaits = awaits], [page.view EXCEPT !.awaits = awaits],
                                            Answers(view), {"monitor"})]
  IN /\ Room(page.lists, page.live)
     /\ page' = IF page.live = "monitor" THEN loaded ELSE Ended(loaded, awaits)
     /\ UNCHANGED server

Created(c) ==
  /\ c.op = "create" /\ c.state = "done" /\ flight' = flight \ {c}
  /\ Reloaded([page EXCEPT !.isDialogOpen = FALSE, !.form = NoOverride], c.view, "create")

Lifted(c) ==
  /\ c.op = "lift" /\ c.state = "done" /\ flight' = flight \ {c}
  /\ Reloaded(page, c.view, c.override)

Failed(c) ==
  /\ flight' = flight \ {c}
  /\ page' = Ended([page EXCEPT !.lists = IF c.state = "done" THEN ExcuseAll(@, {"monitor"}) ELSE @],
                   IF c.op = "create" THEN "create" ELSE c.override)
  /\ UNCHANGED server

Return(c) == Created(c) \/ Lifted(c) \/ Failed(c)

(* A page that is not there fails all of the load. *)
ReadLoad(i) ==
  LET list == page.lists[page.live]
      view == list.loads[i].of IN
  /\ Unanswered(list, i)
  /\ page.live = "monitor" => view.page <= LastPage(Cardinality(Matching(view)))
  /\ Only([page EXCEPT !.lists[page.live] = Read(@, i, Answers(view)[page.live])])

LandLoad(i) ==
  LET awaits == page.lists[page.live].loads[i].of.awaits IN
  /\ ~Unanswered(page.lists[page.live], i)
  /\ Only(Ended([page EXCEPT !.lists[page.live] = Land(@, i, [page.view EXCEPT !.awaits = awaits])], awaits))

FailLoad(i) ==
  Only(Ended([page EXCEPT !.lists[page.live] = FailTo(@, i, @.rows)], page.lists[page.live].loads[i].of.awaits))

-----------------------------------------------------------------------------
(* The page has loaded what is stored; to bound a model its user reads the  *)
(* log, or records and lifts overrides.                                     *)
Init ==
  /\ server = [overrides |-> InitialOverrides, writes |-> 0]
  /\ flight = {}
  /\ \E project \in Selections, doing \in {"reading", "overriding"} : \E live \in {"monitor", "environments"} :
       LET view == [project |-> project, environment |-> None, flag |-> None, result |-> None, page |-> 1, awaits |-> None] IN
       page = [doing |-> doing, live |-> live, view |-> view,
               lists |-> [name \in {"monitor", "environments"} |-> List(Answers(view)[name])],
               panel |-> "sdks", isDialogOpen |-> FALSE, form |-> NoOverride, saving |-> FALSE, lifting |-> None]

Reading ==
  \/ \E panel \in {"sdks", "evaluations"} : SetPanel(panel)
  \/ \E environment \in EnvironmentFilter : SetEnvironment(environment)
  \/ \E flag \in FlagFilter : SetFlagFilter(flag)
  \/ \E result \in ResultFilter : SetResultFilter(result)
  \/ \E n \in Pager : SetEvaluationsPage(n)

Overriding ==
  \/ SetPanel("overrides") \/ OpenOverride \/ CloseOverride \/ handleCreateOverride
  \/ \E flag \in OverrideOptions, is_enabled \in BOOLEAN :
       ChangeOverride([flag |-> flag, is_enabled |-> is_enabled, reason |-> "why"])
  \/ \E o \in monitor.overrides : handleLiftOverride(o)

Next ==
  \/ \E project \in Selections : SelectProject(project)
  \/ Refresh
  \/ page.doing = "reading" /\ Reading
  \/ page.doing = "overriding" /\ Overriding
  \/ \E c \in flight : HandleCreate(c) \/ HandleLift(c) \/ Return(c)
  \/ \E i \in DOMAIN LoadsOf(page.lists, page.live) : ReadLoad(i) \/ LandLoad(i) \/ FailLoad(i)

Spec == Init /\ [][Next]_vars

-----------------------------------------------------------------------------
(* Properties *)

(* At rest the page shows what its filters ask for, but for a list that is  *)
(* excused (Lists).                                                         *)
Settles ==
  flight = {} => \A name \in {"monitor", "environments"} : Settled(page.lists[name], Answers(page.view)[name])

(* Unless the count on the screen is out of date, the log is asked for no   *)
(* page it does not have.                                                   *)
AsksForPages ==
  LET list == page.lists["monitor"]
      rest == list.loads = <<>> /\ ~list.excused
  IN rest /\ page'.view # page.view => page'.view.page <= LastPage(Cardinality(Matching(page'.view)))

PagesExist == [][AsksForPages]_vars
=============================================================================
