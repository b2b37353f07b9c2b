----------------------------- MODULE OverviewPage -----------------------------
(***************************************************************************)
(* The dashboard's first page (dashboard/page.tsx): what the analytics     *)
(* endpoints count within the current project, one environment of it, and  *)
(* the last hours.                                                         *)
(***************************************************************************)
EXTENDS Lists, Calls

CONSTANTS
  None,
  Selections,           \* the projects that may be current, or None
  EnvironmentIds,
  InitialEnvironments,  \* rows [id, project]
  Flags,                \* rows [id, environment, is_enabled, forced]; forced: an active override's value, or None
  Evaluations,          \* rows [flag, age, result], age in hours
  Ranges,               \* the ranges of hours the page offers
  Most                  \* how many flags the panel of most evaluated ones lists; 5 in the code

VARIABLES page, server, flight

vars == <<page, server, flight>>

EnvironmentsListed(project) == {e \in server.environments : project \in {None, e.project}}

(* What loadAnalytics' requests depend on. *)
InScope(view, environment) ==
  /\ view.environment \in {None, environment}
  /\ view.project = None \/ \E e \in server.environments : e.id = environment /\ e.project = view.project

FlagsIn(view) == {f \in Flags : InScope(view, f.environment)}

EvaluationsIn(view) == {v \in Evaluations : v.age <= view.hours /\ \E f \in FlagsIn(view) : f.id = v.flag}

effective(flag) == IF flag.forced = None THEN flag.is_enabled ELSE flag.forced

Overview(view) ==
  [total |-> Cardinality(FlagsIn(view)),
   effective_enabled |-> Cardinality({f \in FlagsIn(view) : effective(f)}),
   overridden |-> Cardinality({f \in FlagsIn(view) : f.forced # None})]

EvaluationsTimeseries(view) == Cardinality(EvaluationsIn(view))

Evaluated(flag, view) == Cardinality({v \in EvaluationsIn(view) : v.flag = flag.id})

(* The flags evaluated most; which of equals are left out is not said.      *)
TopFlags(view) ==
  {f \in FlagsIn(view) : Evaluated(f, view) > 0 /\
     Cardinality({g \in FlagsIn(view) : Evaluated(g, view) > Evaluated(f, view)}) < Most}

Stored(view) ==
  [environments |-> EnvironmentsListed(view.project),
   analytics |-> [overview |-> Overview(view), evaluations |-> EvaluationsTimeseries(view), top |-> TopFlags(view)]]

Names == {"environments", "analytics"}

EnvironmentRow == [id : EnvironmentIds, project : Selections \ {None}]

View == [project : Selections, environment : EnvironmentIds \cup {None}, hours : Ranges]

Analytics ==
  [overview : [total : Nat, effective_enabled : Nat, overridden : Nat], evaluations : Nat, top : SUBSET Flags]

Page ==
  [doing : {"overview"}, live : Names, view : View,
   lists : [environments : ListOf(View, SUBSET EnvironmentRow), analytics : ListOf(View, Analytics)]]

Server == [environments : SUBSET EnvironmentRow, writes : Nat]

Call == [op : {"create"}, state : CallStates, view : {view \in View : view.project # None}]

TypeOK == page \in Page /\ server \in Server /\ flight \subseteq Call

(* Once the page has loaded for the first time it does not show that it     *)
(* loads; what it shows can be changed all the time.                        *)
EnvironmentFilter == {e.id : e \in page.lists["environments"].rows} \cup {None}

(* The card of environments offers to create the first one of a project.    *)
CreateOffered == page.lists["environments"].rows = {} /\ page.view.project # None

-----------------------------------------------------------------------------
Show(view, names) ==
  /\ view # page.view /\ Room(page.lists, page.live)
  /\ page' = [page EXCEPT !.view = view, !.lists = Refetch(@, page.live, view, view, Stored(view), names)]
  /\ UNCHANGED <<server, flight>>

(* The chosen environment stays, though it is another project's. *)
SelectProject(project) == Show([page.view EXCEPT !.project = project], Names)

SetEnvironment(environment) ==
  /\ environment \in EnvironmentFilter
  /\ Show([page.view EXCEPT !.environment = environment], {"analytics"})

SetHours(hours) ==
  /\ hours \in Ranges
  /\ Show([page.view EXCEPT !.hours = hours], {"analytics"})

CreateEnvironment ==
  /\ CreateOffered /\ CanSend(flight, server.writes, page.doing)
  /\ flight' = flight \cup {[op |-> "create", state |-> "sent", view |-> page.view]}
  /\ UNCHANGED <<page, server>>

HandleCreate(c) ==
  /\ c.state = "sent"
  /\ \E id \in EnvironmentIds \ {e.id : e \in server.environments} :
       server' = [environments |-> server.environments \cup {[id |-> id, project |-> c.view.project]},
                  writes |-> server.writes + 1]
  /\ flight' = Become(flight, c, "done")
  /\ UNCHANGED page

(* Only the environments are loaded again: a new one has no evaluations.    *)
Created(c) ==
  /\ c.state = "done" /\ flight' = flight \ {c} /\ Room(page.lists, page.live)
  /\ page' = [page EXCEPT !.lists = Refetch(@, page.live, c.view, page.view, Stored(c.view), {"environments"})]
  /\ UNCHANGED server

Failed(c) ==
  /\ flight' = flight \ {c}
  /\ page' = IF c.state = "done" THEN [page EXCEPT !.lists = ExcuseAll(@, {"environments"})] ELSE page
  /\ UNCHANGED server

ReadLoad(i) ==
  LET list == page.lists[page.live] IN
  /\ Unanswered(list, i)
  /\ page' = [page EXCEPT !.lists[page.live] = Read(@, i, Stored(list.loads[i].of)[page.live])]
  /\ UNCHANGED <<server, flight>>

(* The environments depend on the project alone, the analytics on all.      *)
LandLoad(i) ==
  LET of == page.lists[page.live].loads[i].of
      at == IF page.live = "environments" THEN [of EXCEPT !.project = page.view.project] ELSE page.view
  IN /\ ~Unanswered(page.lists[page.live], i)
     /\ page' = [page EXCEPT !.lists[page.live] = Land(@, i, at)]
     /\ UNCHANGED <<server, flight>>

(* Failing, the one keeps what it had, the other has nothing.               *)
FailLoad(i) ==
  /\ page' = [page EXCEPT !.lists[page.live] = FailTo(@, i, IF page.live = "environments" THEN {} ELSE @.rows)]
  /\ UNCHANGED <<server, flight>>

-----------------------------------------------------------------------------
Init ==
  /\ server = [environments |-> InitialEnvironments, writes |-> 0]
  /\ flight = {}
  /\ \E project \in Selections, doing \in {"overview"}, live \in Names :
       LET view == [project |-> project, environment |-> None, hours |-> CHOOSE hours \in Ranges : TRUE] IN
       page = [doing |-> doing, live |-> live, view |-> view, lists |-> [name \in Names |-> List(Stored(view)[name])]]

Next ==
  \/ \E project \in Selections : SelectProject(project)
  \/ \E environment \in EnvironmentFilter : SetEnvironment(environment)
  \/ \E hours \in Ranges : SetHours(hours)
  \/ CreateEnvironment
  \/ \E c \in flight : HandleCreate(c) \/ Created(c) \/ Failed(c)
  \/ \E i \in DOMAIN LoadsOf(page.lists, page.live) : ReadLoad(i) \/ LandLoad(i) \/ FailLoad(i)

Spec == Init /\ [][Next]_vars

-----------------------------------------------------------------------------
(* Properties *)

(* At rest the page shows what its filters ask for, but for a list that is  *)
(* excused (Lists).                                                         *)
Settles == flight = {} => \A name \in Names : Settled(page.lists[name], Stored(page.view)[name])
=============================================================================
