--------------------------- MODULE DashboardProofs ---------------------------
(***************************************************************************)
(* What the dashboard's pages, its header and its session keep, whatever   *)
(* the constants are.  One page is open in a behaviour (route), and each   *)
(* has an invariant of its own.  DashboardInv is that of the page that is  *)
(* open; DashboardStep says that no step breaks it and what no step does.  *)
(*                                                                         *)
(* After PagesProofs: the environments, overview and monitoring pages, the *)
(* header, the session, and the theorems.                                  *)
(***************************************************************************)
EXTENDS PagesProofs

-----------------------------------------------------------------------------
(* The environments page                                                    *)

(* The page's lists are lists.                                              *)
LEMMA EnvironmentsSame ==
  /\ \A Of, Rows : Environments!ListOf(Of, Rows) = ListOf(Of, Rows)
  /\ \A rows : Environments!List(rows) = List(rows)
  /\ \A lists, live, of, at, stored, names : Environments!Refetch(lists, live, of, at, stored, names) = Refetch(lists, live, of, at, stored, names)
  /\ \A lists, names : Environments!ExcuseAll(lists, names) = ExcuseAll(lists, names)
  /\ \A lists, live : Environments!Room(lists, live) = Room(lists, live)
  /\ \A lists, live : Environments!LoadsOf(lists, live) = LoadsOf(lists, live)
  /\ \A list, rows, excused : Environments!Replace(list, rows, excused) = Replace(list, rows, excused)
  /\ \A list, rows, excused : Environments!Patch(list, rows, excused) = Patch(list, rows, excused)
  /\ \A list, i, rows : Environments!Read(list, i, rows) = Read(list, i, rows)
  /\ \A list, i : Environments!Unanswered(list, i) = Unanswered(list, i)
  /\ \A list, i, at : Environments!Land(list, i, at) = Land(list, i, at)
  /\ \A list, i, rows : Environments!FailTo(list, i, rows) = FailTo(list, i, rows)
  /\ \A list, stored : Environments!Settled(list, stored) = Settled(list, stored)
  BY DEF Load, Environments!Load, ListOf, Environments!ListOf, List, Environments!List, Overtaken,
         Environments!Overtaken, Fetch, Environments!Fetch, Replace, Environments!Replace, Patch,
         Environments!Patch, Read, Environments!Read, Unanswered, Environments!Unanswered, Settle,
         Environments!Settle, Land, Environments!Land, FailTo, Environments!FailTo, Excuse,
         Environments!Excuse, Refetch, Environments!Refetch, ExcuseAll, Environments!ExcuseAll,
         LoadsOf, Environments!LoadsOf, Room, Environments!Room, Settled, Environments!Settled

(* The list the page shows is what is stored, or a write was carried out    *)
(* whose answer loads it again.                                             *)
EnvironmentsShows == [at \in EnvironmentSelections |-> Environments!Stored(at)]

EnvironmentsShown ==
  Current(page.lists["environments"], EnvironmentsShows, page.at) \/ \E c \in flight : c.state = "done"

EnvironmentsInv == Environments!TypeOK /\ EnvironmentsShown

EnvironmentsLists(lists) ==
  ListsIn(lists, {"environments"}, EnvironmentSelections, [environments |-> SUBSET Environments!EnvironmentRow])

(* The page's one list.                                                     *)
LEMMA EnvironmentsListsTyped ==
  ASSUME NEW lists
  PROVE  EnvironmentsLists(lists)
           <=> lists \in [environments : Environments!ListOf(EnvironmentSelections, SUBSET Environments!EnvironmentRow)]
  BY EnvironmentsSame DEF EnvironmentsLists, ListsIn

(* What a typed state holds.                                                *)
LEMMA EnvironmentsData ==
  ASSUME Environments!TypeOK
  PROVE  /\ page \in Environments!Page /\ server \in Environments!Server /\ flight \subseteq Environments!Call
         /\ page.at \in EnvironmentSelections /\ EnvironmentsLists(page.lists)
         /\ page.lists["environments"] \in ListOf(EnvironmentSelections, SUBSET Environments!EnvironmentRow)
         /\ Environments!environments \subseteq Environments!EnvironmentRow
         /\ \A at \in EnvironmentSelections : Environments!Stored(at) \in SUBSET Environments!EnvironmentRow
<1>1. /\ page \in Environments!Page /\ server \in Environments!Server /\ flight \subseteq Environments!Call
      /\ page.at \in EnvironmentSelections
      /\ page.lists \in [environments : Environments!ListOf(EnvironmentSelections, SUBSET Environments!EnvironmentRow)]
  BY DEF Environments!TypeOK, Environments!Page
<1>2. page.lists["environments"] \in ListOf(EnvironmentSelections, SUBSET Environments!EnvironmentRow)
  BY <1>1, EnvironmentsSame
<1>3. Environments!environments \subseteq Environments!EnvironmentRow
  BY <1>2 DEF Environments!environments, ListOf
<1>4. EnvironmentsLists(page.lists)
  BY <1>1, EnvironmentsListsTyped
<1>5. \A at \in EnvironmentSelections : Environments!Stored(at) \in SUBSET Environments!EnvironmentRow
  BY <1>1 DEF Environments!Stored, Environments!Server
<1> QED BY <1>1, <1>2, <1>3, <1>4, <1>5

(* A step that changes neither the list nor what is stored.                 *)
LEMMA EnvironmentsStays ==
  ASSUME EnvironmentsInv, page' \in Environments!Page, flight' \subseteq Environments!Call, UNCHANGED server,
         page'.lists = page.lists, page'.at = page.at,
         (\E c \in flight : c.state = "done") => \E c \in flight' : c.state = "done"
  PROVE  EnvironmentsInv'
<1>1. EnvironmentsShows' = EnvironmentsShows
  BY DEF EnvironmentsShows, Environments!Stored
<1> QED BY <1>1 DEF EnvironmentsInv, Environments!TypeOK, EnvironmentsShown

(* A step that leaves the list showing what is stored.                      *)
LEMMA EnvironmentsLoaded ==
  ASSUME EnvironmentsInv, page' \in Environments!Page, flight' \subseteq Environments!Call, UNCHANGED server,
         Current(page'.lists["environments"], EnvironmentsShows, page'.at)
  PROVE  EnvironmentsInv'
<1>1. EnvironmentsShows' = EnvironmentsShows
  BY DEF EnvironmentsShows, Environments!Stored
<1> QED BY <1>1 DEF EnvironmentsInv, Environments!TypeOK, EnvironmentsShown

(* The calls of a page that was left are calls.                             *)
LEMMA EnvironmentsUnmounted ==
  ASSUME NEW calls \in SUBSET Environments!Call
  PROVE  Environments!Unmounted(calls) \subseteq Environments!Call
<1>1. ASSUME NEW c \in Environments!Call PROVE [c EXCEPT !.mounted = FALSE] \in Environments!Call
  BY DEF Environments!Call
<1> QED BY <1>1 DEF Environments!Unmounted

(* A call is sent.                                                          *)
LEMMA EnvironmentsSend ==
  ASSUME EnvironmentsInv, NEW call \in Environments!Call, Environments!Send(call), UNCHANGED page
  PROVE  EnvironmentsInv'
  BY EnvironmentsData, EnvironmentsStays DEF EnvironmentsInv, Environments!Send

(* What the user does.                                                      *)
LEMMA EnvironmentsUsed ==
  ASSUME EnvironmentsInv,
         \/ Environments!ChangeDialog \/ Environments!handleCreate \/ Environments!CopiedTimeout
         \/ \E e \in Environments!environments : Environments!deleteEnvironment(e) \/ Environments!copyApiKey(e)
  PROVE  EnvironmentsInv'
<1>0. page \in Environments!Page /\ page.at \in EnvironmentSelections /\ flight \subseteq Environments!Call
      /\ Environments!environments \subseteq Environments!EnvironmentRow
  BY EnvironmentsData DEF EnvironmentsInv
<1>1. CASE Environments!ChangeDialog
  <2>1. PICK isOpen \in BOOLEAN, name \in BOOLEAN : page' = [page EXCEPT !.isOpen = isOpen, !.name = name] /\ UNCHANGED <<server, flight>>
    BY <1>1, Zenon DEF Environments!ChangeDialog
  <2>2. page' \in Environments!Page /\ page'.lists = page.lists /\ page'.at = page.at
    BY <1>0, <2>1 DEF Environments!Page
  <2> QED BY <1>0, <2>1, <2>2, EnvironmentsStays
<1>2. CASE Environments!handleCreate
  <2> DEFINE call == [op |-> "create", state |-> "sent", at |-> page.at, environment |-> None, mounted |-> TRUE]
  <2>1. Environments!Send(call) /\ UNCHANGED page /\ page.at # None
    BY <1>2 DEF Environments!handleCreate, Environments!CreateEnabled, Environments!Shown
  <2>2. call \in Environments!Call
    BY <1>0, <2>1 DEF Environments!Call, Environments!CallStates
  <2> QED BY <2>1, <2>2, EnvironmentsSend
<1>3. ASSUME NEW copied \in EnvironmentIds \cup {None}, page' = [page EXCEPT !.copiedId = copied], UNCHANGED <<server, flight>>
      PROVE  EnvironmentsInv'
  <2>1. page' \in Environments!Page /\ page'.lists = page.lists /\ page'.at = page.at
    BY <1>0, <1>3 DEF Environments!Page
  <2> QED BY <1>0, <1>3, <2>1, EnvironmentsStays
<1>4. CASE Environments!CopiedTimeout
  BY <1>3, <1>4 DEF Environments!CopiedTimeout
<1>5. ASSUME NEW e \in Environments!environments, Environments!deleteEnvironment(e) \/ Environments!copyApiKey(e)
      PROVE  EnvironmentsInv'
  <2>1. e \in Environments!EnvironmentRow /\ e.id \in EnvironmentIds
    BY <1>0 DEF Environments!EnvironmentRow
  <2>2. CASE Environments!copyApiKey(e)
    BY <1>3, <2>1, <2>2 DEF Environments!copyApiKey
  <2>3. CASE Environments!deleteEnvironment(e)
    <3> DEFINE call == [op |-> "delete", state |-> "sent", at |-> page.at, environment |-> e, mounted |-> FALSE]
    <3>1. Environments!Send(call) /\ UNCHANGED page /\ page.at # None
      BY <2>3 DEF Environments!deleteEnvironment, Environments!EnvironmentsTable, Environments!Shown
    <3>2. call \in Environments!Call
      BY <1>0, <2>1, <3>1 DEF Environments!Call, Environments!CallStates
    <3> QED BY <3>1, <3>2, EnvironmentsSend
  <2> QED BY <1>5, <2>2, <2>3
<1> QED BY <1>1, <1>2, <1>4, <1>5

(* The calls when one of them is answered.                                  *)
LEMMA EnvironmentsBecome ==
  ASSUME flight \subseteq Environments!Call, NEW c \in flight, NEW state \in {"done", "refused"}
  PROVE  /\ Environments!Become(flight, c, state) \subseteq Environments!Call
         /\ \E d \in Environments!Become(flight, c, state) : d.state = state
         /\ c.state = "sent" => \A d \in flight : d.state = "done" => d \in Environments!Become(flight, c, state)
<1> DEFINE d == [c EXCEPT !.state = state]
<1>1. c \in Environments!Call
  OBVIOUS
<1>2. d \in Environments!Call /\ d.state = state
  BY <1>1 DEF Environments!Call, Environments!CallStates
<1>3. Environments!Become(flight, c, state) = (flight \ {c}) \cup {d}
  BY DEF Environments!Become
<1> HIDE DEF d
<1> QED BY <1>2, <1>3

(* The server carries a call out, or refuses it.                            *)
LEMMA EnvironmentsHandled ==
  ASSUME EnvironmentsInv, NEW c \in flight, Environments!HandleCreate(c) \/ Environments!HandleDelete(c)
  PROVE  EnvironmentsInv'
<1>0. page \in Environments!Page /\ server \in Environments!Server /\ flight \subseteq Environments!Call /\ c \in Environments!Call
      /\ c.state = "sent" /\ UNCHANGED page
  BY EnvironmentsData DEF EnvironmentsInv, Environments!HandleCreate, Environments!HandleDelete
<1>1. ASSUME NEW stored \in SUBSET Environments!EnvironmentRow, Environments!Done(c, stored) PROVE EnvironmentsInv'
  <2>1. server' \in Environments!Server
    BY <1>0, <1>1 DEF Environments!Done, Environments!Server
  <2>2. flight' \subseteq Environments!Call /\ \E d \in flight' : d.state = "done"
    BY <1>0, <1>1, EnvironmentsBecome DEF Environments!Done
  <2> QED BY <1>0, <2>1, <2>2 DEF EnvironmentsInv, Environments!TypeOK, EnvironmentsShown
<1>2. CASE Environments!HandleCreate(c)
  <2>1. PICK id \in EnvironmentIds : Environments!Done(c, server.environments \cup {[id |-> id, project |-> c.at]})
    BY <1>2 DEF Environments!HandleCreate
  <2>2. c.at \in EnvironmentSelections \ {None}
    BY <1>0 DEF Environments!Call
  <2>3. server.environments \cup {[id |-> id, project |-> c.at]} \subseteq Environments!EnvironmentRow
    BY <1>0, <2>2 DEF Environments!EnvironmentRow, Environments!Server
  <2> QED BY <1>1, <2>1, <2>3
<1>3. CASE Environments!HandleDelete(c)
  <2>1. CASE Environments!Done(c, server.environments \ {c.environment})
    <3>1. server.environments \ {c.environment} \subseteq Environments!EnvironmentRow
      BY <1>0 DEF Environments!Server
    <3> QED BY <1>1, <2>1, <3>1
  <2>2. CASE flight' = Environments!Become(flight, c, "refused") /\ UNCHANGED server
    <3>1. flight' \subseteq Environments!Call /\ \A d \in flight : d.state = "done" => d \in flight'
      BY <1>0, <2>2, EnvironmentsBecome
    <3> QED BY <1>0, <2>2, <3>1, EnvironmentsStays
  <2> QED BY <1>3, <2>1, <2>2 DEF Environments!HandleDelete
<1> QED BY <1>2, <1>3

(* What is loaded again.                                                    *)
LEMMA EnvironmentsReload ==
  ASSUME EnvironmentsInv, Room(page.lists, page.live), NEW of \in EnvironmentSelections, NEW at \in EnvironmentSelections, NEW lists,
         lists = Environments!Refetch(page.lists, page.live, of, at, [environments |-> Environments!Stored(of)], {"environments"})
  PROVE  EnvironmentsLists(lists) /\ Current(lists["environments"], EnvironmentsShows, at)
<1> DEFINE stored == [environments |-> Environments!Stored(of)]
<1>0. EnvironmentsLists(page.lists)
  BY EnvironmentsData DEF EnvironmentsInv
<1>1. lists = Refetch(page.lists, page.live, of, at, stored, {"environments"})
  BY EnvironmentsSame
<1>2. \A n \in {"environments"} : stored[n] \in [environments |-> SUBSET Environments!EnvironmentRow][n]
  BY EnvironmentsData DEF EnvironmentsInv
<1>3. stored["environments"] = EnvironmentsShows[of]
  BY DEF EnvironmentsShows
<1> HIDE DEF stored
<1>4. EnvironmentsLists(lists)
  BY <1>0, <1>1, <1>2, RefetchTyped DEF EnvironmentsLists
<1>5. Current(lists["environments"], EnvironmentsShows, at)
  BY <1>0, <1>1, <1>3, RefetchCurrent DEF EnvironmentsLists
<1> QED BY <1>4, <1>5

(* Another project is loaded for.                                           *)
LEMMA EnvironmentsSelected ==
  ASSUME EnvironmentsInv, NEW project \in EnvironmentSelections, Environments!Select(project)
  PROVE  EnvironmentsInv'
<1> DEFINE reloaded == Environments!Refetch(page.lists, page.live, project, project,
                                            [environments |-> Environments!Stored(project)], {"environments"})
           list == page.lists["environments"]
           emptied == [page.lists EXCEPT !["environments"] = Replace(list, {}, FALSE)]
           lists == IF project = None THEN emptied ELSE reloaded
<1>0. /\ page \in Environments!Page /\ flight \subseteq Environments!Call /\ EnvironmentsLists(page.lists)
      /\ list \in ListOf(EnvironmentSelections, SUBSET Environments!EnvironmentRow)
  BY EnvironmentsData DEF EnvironmentsInv
<1>1. /\ page' = [page EXCEPT !.at = project, !.lists = lists, !.isOpen = FALSE, !.name = FALSE]
      /\ flight' = Environments!Unmounted(flight) /\ UNCHANGED server /\ Room(page.lists, page.live)
  BY EnvironmentsSame DEF Environments!Select
<1>2. EnvironmentsLists(lists) /\ Current(lists["environments"], EnvironmentsShows, project)
  <2>1. CASE project # None
    BY <1>1, <2>1, EnvironmentsReload
  <2>2. CASE project = None
    <3> DEFINE new == Replace(list, {}, FALSE)
    <3>1. EnvironmentsShows[project] = {}
      BY <2>2 DEF EnvironmentsShows, Environments!Stored, EnvironmentsInv, Environments!TypeOK,
         Environments!Server, Environments!EnvironmentRow
    <3>2. Current(new, EnvironmentsShows, project)
      BY <1>0, <3>1, ReplaceCurrent
    <3>3. {} \in SUBSET Environments!EnvironmentRow /\ FALSE \in BOOLEAN
      OBVIOUS
    <3>4. new \in ListOf(EnvironmentSelections, SUBSET Environments!EnvironmentRow)
      BY <1>0, <3>3, ReplaceTyped
    <3> HIDE DEF new
    <3>5. lists = [page.lists EXCEPT !["environments"] = new]
      BY <2>2 DEF new
    <3>6. EnvironmentsLists([page.lists EXCEPT !["environments"] = new])
      BY <1>0, <3>4, OneListTyped DEF EnvironmentsLists
    <3>7. [page.lists EXCEPT !["environments"] = new]["environments"] = new
      BY <1>0 DEF EnvironmentsLists, ListsIn
    <3> QED BY <3>2, <3>5, <3>6, <3>7
  <2> QED BY <2>1, <2>2
<1> HIDE DEF lists
<1>3. page' \in Environments!Page /\ page'.lists = lists /\ page'.at = project
  <2>1. lists \in [environments : Environments!ListOf(EnvironmentSelections, SUBSET Environments!EnvironmentRow)]
    BY <1>2, EnvironmentsListsTyped
  <2> QED BY <1>0, <1>1, <2>1 DEF Environments!Page
<1>4. flight' \subseteq Environments!Call
  BY <1>0, <1>1, EnvironmentsUnmounted
<1> QED BY <1>1, <1>2, <1>3, <1>4, EnvironmentsLoaded

(* The page takes an answer in.                                             *)
LEMMA EnvironmentsReturned ==
  ASSUME EnvironmentsInv, NEW c \in flight, Environments!Return(c)
  PROVE  EnvironmentsInv'
<1>0. /\ page \in Environments!Page /\ flight \subseteq Environments!Call /\ c \in Environments!Call
      /\ page.at \in EnvironmentSelections /\ EnvironmentsLists(page.lists)
  BY EnvironmentsData DEF EnvironmentsInv
<1>1. CASE Environments!Created(c) \/ Environments!Deleted(c)
  <2> DEFINE lists == Environments!loadEnvironments(c.at)
             q == IF c.mounted THEN [page EXCEPT !.isOpen = FALSE, !.name = FALSE] ELSE page
  <2>1. /\ Room(page.lists, page.live) /\ UNCHANGED server /\ page' = Environments!Mounts(lists, q)
        /\ flight' = IF lists["environments"].loading THEN Environments!Unmounted(flight \ {c}) ELSE flight \ {c}
    BY <1>1, EnvironmentsSame DEF Environments!Created, Environments!Deleted, Environments!Answered
  <2>2. c.at \in EnvironmentSelections /\ c.at # None
    BY <1>0 DEF Environments!Call
  <2>3. lists = Environments!Refetch(page.lists, page.live, c.at, page.at, [environments |-> Environments!Stored(c.at)], {"environments"})
    BY <2>2 DEF Environments!loadEnvironments
  <2> HIDE DEF lists
  <2>4. EnvironmentsLists(lists) /\ Current(lists["environments"], EnvironmentsShows, page.at)
    BY <1>0, <2>1, <2>2, <2>3, EnvironmentsReload
  <2>5. q \in Environments!Page /\ q.at = page.at
    BY <1>0, Zenon DEF Environments!Page
  <2> HIDE DEF q
  <2>6. page' \in Environments!Page /\ page'.lists = lists /\ page'.at = page.at
    <3>1. lists \in [environments : Environments!ListOf(EnvironmentSelections, SUBSET Environments!EnvironmentRow)]
      BY <2>4, EnvironmentsListsTyped
    <3>2. \/ page' = [q EXCEPT !.lists = lists, !.isOpen = FALSE, !.name = FALSE]
          \/ page' = [q EXCEPT !.lists = lists]
      BY <2>1 DEF Environments!Mounts
    <3> QED BY <2>5, <3>1, <3>2, Zenon DEF Environments!Page
  <2>7. flight' \subseteq Environments!Call
    <3>1. flight \ {c} \in SUBSET Environments!Call
      BY <1>0
    <3> QED BY <2>1, <3>1, EnvironmentsUnmounted
  <2> QED BY <2>1, <2>4, <2>6, <2>7, EnvironmentsLoaded
<1>2. CASE Environments!Failed(c)
  <2>1. /\ flight' = flight \ {c} /\ UNCHANGED server
        /\ page' = IF c.state = "done" THEN [page EXCEPT !.lists = ExcuseAll(page.lists, {"environments"})] ELSE page
    BY <1>2, EnvironmentsSame DEF Environments!Failed
  <2>2. CASE c.state # "done"
    BY <1>0, <2>1, <2>2, EnvironmentsStays
  <2>3. CASE c.state = "done"
    <3> DEFINE lists == ExcuseAll(page.lists, {"environments"})
    <3>1. EnvironmentsLists(lists)
      BY <1>0, ExcuseAllTyped DEF EnvironmentsLists
    <3>2. Current(lists["environments"], EnvironmentsShows, page.at)
      BY <1>0, ExcuseAllCurrent DEF EnvironmentsLists
    <3> HIDE DEF lists
    <3>3. page' \in Environments!Page /\ page'.lists = lists /\ page'.at = page.at
      <4>1. lists \in [environments : Environments!ListOf(EnvironmentSelections, SUBSET Environments!EnvironmentRow)]
        BY <3>1, EnvironmentsListsTyped
      <4> QED BY <1>0, <2>1, <2>3, <4>1 DEF Environments!Page, lists
    <3> QED BY <1>0, <2>1, <3>2, <3>3, EnvironmentsLoaded
  <2> QED BY <2>2, <2>3
<1> QED BY <1>1, <1>2 DEF Environments!Return

(* A load is read, lands or fails.                                          *)
LEMMA EnvironmentsLoads ==
  ASSUME EnvironmentsInv, NEW i \in DOMAIN Environments!LoadsOf(page.lists, page.live),
         Environments!ReadLoad(i) \/ Environments!LandLoad(i) \/ Environments!FailLoad(i)
  PROVE  EnvironmentsInv'
<1> DEFINE list == page.lists["environments"]
           Rows == SUBSET Environments!EnvironmentRow
<1>0. /\ page \in Environments!Page /\ EnvironmentsLists(page.lists) /\ page.at \in EnvironmentSelections
      /\ flight \subseteq Environments!Call /\ UNCHANGED <<server, flight>> /\ page.live = "environments"
  BY EnvironmentsData DEF EnvironmentsInv, Environments!ReadLoad, Environments!LandLoad,
     Environments!FailLoad, Environments!Page
<1>1. /\ list \in ListOf(EnvironmentSelections, Rows) /\ i \in DOMAIN list.loads /\ list.loads[i] \in Load(EnvironmentSelections, Rows)
      /\ list.rows \in Rows
  <2>1. /\ page.lists[page.live] \in ListOf(EnvironmentSelections, [environments |-> Rows][page.live])
        /\ i \in DOMAIN page.lists[page.live].loads
        /\ page.lists[page.live].loads[i] \in Load(EnvironmentSelections, [environments |-> Rows][page.live])
    BY <1>0, LiveLoads, EnvironmentsSame DEF EnvironmentsLists
  <2> QED BY <1>0, <2>1 DEF ListOf
<1> HIDE DEF list
<1>2. ASSUME NEW new \in ListOf(EnvironmentSelections, Rows), page' = [page EXCEPT !.lists = [page.lists EXCEPT !["environments"] = new]],
             Current(list, EnvironmentsShows, page.at) => Current(new, EnvironmentsShows, page.at)
      PROVE  EnvironmentsInv'
  <2>1. EnvironmentsLists([page.lists EXCEPT !["environments"] = new]) /\ [page.lists EXCEPT !["environments"] = new]["environments"] = new
    BY <1>0, <1>2, OneListTyped DEF EnvironmentsLists, ListsIn
  <2>2. page' \in Environments!Page /\ page'.lists["environments"] = new /\ page'.at = page.at
    <3>1. [page.lists EXCEPT !["environments"] = new]
            \in [environments : Environments!ListOf(EnvironmentSelections, SUBSET Environments!EnvironmentRow)]
      BY <2>1, EnvironmentsListsTyped
    <3> QED BY <1>0, <1>2, <2>1, <3>1 DEF Environments!Page
  <2>3. EnvironmentsShows' = EnvironmentsShows
    BY <1>0 DEF EnvironmentsShows, Environments!Stored
  <2>4. EnvironmentsShown'
    BY <1>0, <1>2, <2>2, <2>3 DEF EnvironmentsInv, EnvironmentsShown, list
  <2> QED BY <1>0, <2>2, <2>4 DEF EnvironmentsInv, Environments!TypeOK
<1>3. CASE Environments!ReadLoad(i)
  <2> DEFINE rows == EnvironmentsShows[list.loads[i].of]
             new == Read(list, i, rows)
  <2>1. list.loads[i].of \in EnvironmentSelections
    BY <1>1 DEF Load
  <2>2. rows = Environments!Stored(list.loads[i].of) /\ rows \in Rows
    BY <2>1, EnvironmentsData DEF EnvironmentsShows, EnvironmentsInv
  <2>3. new \in ListOf(EnvironmentSelections, Rows)
    BY <1>1, <2>2, ReadTyped
  <2>4. Current(list, EnvironmentsShows, page.at) => Current(new, EnvironmentsShows, page.at)
    BY <1>1, ReadCurrent
  <2>5. page' = [page EXCEPT !.lists = [page.lists EXCEPT !["environments"] = new]]
    BY <1>3, <2>2, EnvironmentsSame DEF Environments!ReadLoad, list
  <2> HIDE DEF new
  <2> QED BY <1>2, <2>3, <2>4, <2>5
<1>4. CASE Environments!LandLoad(i)
  <2> DEFINE new == Land(list, i, page.at)
  <2>1. new \in ListOf(EnvironmentSelections, Rows) /\ ~Unanswered(list, i)
    BY <1>1, <1>4, LandTyped, EnvironmentsSame DEF Environments!LandLoad, list
  <2>2. Current(list, EnvironmentsShows, page.at) => Current(new, EnvironmentsShows, page.at)
    BY <1>1, <2>1, LandCurrent
  <2>3. page' = [page EXCEPT !.lists = [page.lists EXCEPT !["environments"] = new]]
    BY <1>4, EnvironmentsSame DEF Environments!LandLoad, list
  <2> HIDE DEF new
  <2> QED BY <1>2, <2>1, <2>2, <2>3
<1>5. CASE Environments!FailLoad(i)
  <2> DEFINE new == FailTo(list, i, list.rows)
  <2>1. new \in ListOf(EnvironmentSelections, Rows)
    BY <1>1, FailTyped
  <2>2. Current(list, EnvironmentsShows, page.at) => Current(new, EnvironmentsShows, page.at)
    BY <1>1, FailCurrent
  <2>3. page' = [page EXCEPT !.lists = [page.lists EXCEPT !["environments"] = new]]
    BY <1>5, EnvironmentsSame DEF Environments!FailLoad, list
  <2> HIDE DEF new
  <2> QED BY <1>2, <2>1, <2>2, <2>3
<1> QED BY <1>3, <1>4, <1>5

(* No step breaks the invariant.                                            *)
LEMMA EnvironmentsStep ==
  ASSUME EnvironmentsInv, Environments!Next \/ UNCHANGED vars
  PROVE  EnvironmentsInv'
<1>1. CASE UNCHANGED vars
  BY <1>1, EnvironmentsStays, EnvironmentsData DEF vars, EnvironmentsInv
<1> QED BY <1>1, EnvironmentsUsed, EnvironmentsHandled, EnvironmentsSelected, EnvironmentsReturned,
      EnvironmentsLoads DEF Environments!Next

(* It holds at first.                                                       *)
LEMMA EnvironmentsInit == ASSUME Environments!Init PROVE EnvironmentsInv
<1>1. server \in Environments!Server /\ flight = {} /\ server.environments = InitialEnvironments
  BY EnvironmentsAssumption DEF Environments!Init, Environments!Server
<1>2. PICK at \in EnvironmentSelections, doing \in {"environments"} :
        page = [doing |-> doing, live |-> "environments", at |-> at,
                lists |-> [environments |-> List(Environments!Stored(at))],
                isOpen |-> FALSE, name |-> FALSE, copiedId |-> None]
  BY EnvironmentsSame DEF Environments!Init
<1>3. Environments!Stored(at) \in SUBSET Environments!EnvironmentRow
  BY <1>1 DEF Environments!Stored, Environments!Server
<1> DEFINE first == List(Environments!Stored(at))
<1>4. first \in Environments!ListOf(EnvironmentSelections, SUBSET Environments!EnvironmentRow)
  BY <1>3, FirstTyped, EnvironmentsSame
<1>5. EnvironmentsShows[at] = Environments!Stored(at)
  BY DEF EnvironmentsShows
<1>6. Current(first, EnvironmentsShows, at)
  BY <1>5, FirstCurrent
<1> HIDE DEF first
<1>7. page = [doing |-> doing, live |-> "environments", at |-> at, lists |-> [environments |-> first],
              isOpen |-> FALSE, name |-> FALSE, copiedId |-> None]
  BY <1>2 DEF first
<1>8. page \in Environments!Page /\ page.lists["environments"] = first /\ page.at = at
  BY <1>4, <1>7 DEF Environments!Page
<1> QED BY <1>1, <1>6, <1>8 DEF EnvironmentsInv, Environments!TypeOK, EnvironmentsShown

(* At rest the page shows what is stored.                                   *)
LEMMA EnvironmentsSettle == ASSUME EnvironmentsInv PROVE Environments!Settles
<1> SUFFICES ASSUME flight = {} PROVE Environments!Settled(page.lists["environments"], Environments!Stored(page.at))
  BY DEF Environments!Settles
<1>1. Current(page.lists["environments"], EnvironmentsShows, page.at) /\ page.at \in EnvironmentSelections
  BY EnvironmentsData DEF EnvironmentsInv, EnvironmentsShown
<1>2. EnvironmentsShows[page.at] = Environments!Stored(page.at)
  BY <1>1 DEF EnvironmentsShows
<1> QED BY <1>1, <1>2, CurrentSettled, EnvironmentsSame

-----------------------------------------------------------------------------
(* The overview                                                             *)

(* The page's lists are lists.                                              *)
LEMMA OverviewSame ==
  /\ \A Of, Rows : Overview!ListOf(Of, Rows) = ListOf(Of, Rows)
  /\ \A rows : Overview!List(rows) = List(rows)
  /\ \A lists, live, of, at, stored, names : Overview!Refetch(lists, live, of, at, stored, names) = Refetch(lists, live, of, at, stored, names)
  /\ \A lists, names : Overview!ExcuseAll(lists, names) = ExcuseAll(lists, names)
  /\ \A lists, live : Overview!Room(lists, live) = Room(lists, live)
  /\ \A lists, live : Overview!LoadsOf(lists, live) = LoadsOf(lists, live)
  /\ \A list, rows, excused : Overview!Replace(list, rows, excused) = Replace(list, rows, excused)
  /\ \A list, rows, excused : Overview!Patch(list, rows, excused) = Patch(list, rows, excused)
  /\ \A list, i, rows : Overview!Read(list, i, rows) = Read(list, i, rows)
  /\ \A list, i : Overview!Unanswered(list, i) = Unanswered(list, i)
  /\ \A list, i, at : Overview!Land(list, i, at) = Land(list, i, at)
  /\ \A list, i, rows : Overview!FailTo(list, i, rows) = FailTo(list, i, rows)
  /\ \A list, stored : Overview!Settled(list, stored) = Settled(list, stored)
  BY DEF Load, Overview!Load, ListOf, Overview!ListOf, List, Overview!List, Overtaken,
         Overview!Overtaken, Fetch, Overview!Fetch, Replace, Overview!Replace, Patch,
         Overview!Patch, Read, Overview!Read, Unanswered, Overview!Unanswered, Settle,
         Overview!Settle, Land, Overview!Land, FailTo, Overview!FailTo, Excuse, Overview!Excuse,
         Refetch, Overview!Refetch, ExcuseAll, Overview!ExcuseAll, LoadsOf, Overview!LoadsOf, Room,
         Overview!Room, Settled, Overview!Settled

(* The environments the page shows are what is stored, or one was created   *)
(* whose answer loads them again; what it counts is what is stored, for the *)
(* flags are of environments that there are.                                *)
OverviewShows(name) == [view \in Overview!View |-> Overview!Stored(view)[name]]

OverviewRows == [environments |-> SUBSET Overview!EnvironmentRow, analytics |-> Overview!Analytics]

OverviewShown(name) ==
  \/ Current(page.lists[name], OverviewShows(name), page.view)
  \/ name = "environments" /\ \E c \in flight : c.state = "done"

OverviewHeld == \A flag \in OverviewFlags : \E e \in server.environments : e.id = flag.environment

OverviewInv == Overview!TypeOK /\ OverviewHeld /\ \A name \in Overview!Names : OverviewShown(name)

OverviewLists(lists) == ListsIn(lists, Overview!Names, Overview!View, OverviewRows)

(* The page's two lists.                                                    *)
LEMMA OverviewListsTyped ==
  ASSUME NEW lists
  PROVE  OverviewLists(lists)
           <=> lists \in [environments : Overview!ListOf(Overview!View, SUBSET Overview!EnvironmentRow),
                          analytics : Overview!ListOf(Overview!View, Overview!Analytics)]
  BY OverviewSame DEF OverviewLists, ListsIn, Overview!Names, OverviewRows

(* What the page counts is a number.                                        *)
LEMMA OverviewStored ==
  ASSUME server \in Overview!Server, NEW view
  PROVE  /\ Overview!Stored(view)["environments"] \in SUBSET Overview!EnvironmentRow
         /\ Overview!Stored(view)["analytics"] \in Overview!Analytics
<1>1. \A S : Overview!Cardinality(S) = Cardinality(S)
  BY DEF Overview!Cardinality, Cardinality
<1>2. \A S \in SUBSET OverviewFlags : Cardinality(S) \in Nat
  BY OverviewAssumption, FS_Subset, FS_CardinalityType
<1>3. \A S \in SUBSET Evaluations : Cardinality(S) \in Nat
  BY OverviewAssumption, FS_Subset, FS_CardinalityType
<1>4. Overview!FlagsIn(view) \subseteq OverviewFlags /\ Overview!TopFlags(view) \subseteq OverviewFlags
      /\ Overview!EvaluationsIn(view) \subseteq Evaluations
  BY DEF Overview!FlagsIn, Overview!TopFlags, Overview!EvaluationsIn
<1>5. Overview!EvaluationsTimeseries(view) \in Nat
  BY <1>1, <1>3, <1>4 DEF Overview!EvaluationsTimeseries
<1>6. Overview!Overview(view) \in [total : Nat, effective_enabled : Nat, overridden : Nat]
  <2> DEFINE enabled == {f \in Overview!FlagsIn(view) : Overview!effective(f)}
             forced == {f \in Overview!FlagsIn(view) : f.forced # None}
  <2>1. enabled \in SUBSET OverviewFlags /\ forced \in SUBSET OverviewFlags
    BY <1>4
  <2>2. Overview!Overview(view) = [total |-> Cardinality(Overview!FlagsIn(view)), effective_enabled |-> Cardinality(enabled),
                                   overridden |-> Cardinality(forced)]
    BY <1>1 DEF Overview!Overview
  <2> HIDE DEF enabled, forced
  <2> QED BY <1>2, <1>4, <2>1, <2>2
<1>7. Overview!Stored(view)["analytics"] \in Overview!Analytics
  BY <1>4, <1>5, <1>6 DEF Overview!Stored, Overview!Analytics
<1>8. Overview!Stored(view)["environments"] \in SUBSET Overview!EnvironmentRow
  BY DEF Overview!Stored, Overview!EnvironmentsListed, Overview!Server
<1> QED BY <1>7, <1>8

(* What a typed state holds.                                                *)
LEMMA OverviewData ==
  ASSUME Overview!TypeOK
  PROVE  /\ page \in Overview!Page /\ server \in Overview!Server /\ flight \subseteq Overview!Call
         /\ page.view \in Overview!View /\ page.live \in Overview!Names /\ OverviewLists(page.lists)
         /\ \A name \in Overview!Names : page.lists[name] \in ListOf(Overview!View, OverviewRows[name])
         /\ \A name \in Overview!Names, view \in Overview!View : Overview!Stored(view)[name] \in OverviewRows[name]
<1>1. /\ page \in Overview!Page /\ server \in Overview!Server /\ flight \subseteq Overview!Call
      /\ page.view \in Overview!View /\ page.live \in Overview!Names
      /\ page.lists \in [environments : Overview!ListOf(Overview!View, SUBSET Overview!EnvironmentRow),
                         analytics : Overview!ListOf(Overview!View, Overview!Analytics)]
  BY DEF Overview!TypeOK, Overview!Page
<1>2. OverviewLists(page.lists)
  BY <1>1, OverviewListsTyped
<1>3. \A name \in Overview!Names : page.lists[name] \in ListOf(Overview!View, OverviewRows[name])
  BY <1>2 DEF OverviewLists, ListsIn
<1>4. \A name \in Overview!Names, view \in Overview!View : Overview!Stored(view)[name] \in OverviewRows[name]
  BY <1>1, OverviewStored DEF Overview!Names, OverviewRows
<1> QED BY <1>1, <1>2, <1>3, <1>4

(* The same is stored for the views of a project's environments.            *)
LEMMA OverviewSameProject ==
  ASSUME NEW v \in Overview!View, NEW w \in Overview!View, v.project = w.project
  PROVE  OverviewShows("environments")[v] = OverviewShows("environments")[w]
  BY DEF OverviewShows, Overview!Stored

(* A list is current for every view that is stored as this one is.          *)
LEMMA CurrentThere ==
  ASSUME NEW list, NEW shows, NEW at, NEW there, Current(list, shows, at), shows[at] = shows[there]
  PROVE  Current(list, shows, there)
  BY DEF Current

(* A step that leaves what is stored alone.                                 *)
LEMMA OverviewStays ==
  ASSUME OverviewInv, page' \in Overview!Page, flight' \subseteq Overview!Call, UNCHANGED server,
         \A name \in Overview!Names :
           \/ Current(page'.lists[name], OverviewShows(name), page'.view)
           \/ name = "environments" /\ \E c \in flight' : c.state = "done"
  PROVE  OverviewInv'
<1>1. \A name : OverviewShows(name)' = OverviewShows(name)
  BY DEF OverviewShows, Overview!Stored, Overview!EnvironmentsListed, Overview!Overview, Overview!FlagsIn,
     Overview!InScope, Overview!EvaluationsTimeseries, Overview!EvaluationsIn, Overview!TopFlags,
     Overview!Evaluated
<1> QED BY <1>1 DEF OverviewInv, Overview!TypeOK, OverviewHeld, OverviewShown, Overview!Names

(* The page shows another view, or loads lists again for the view of a call. *)
LEMMA OverviewReloaded ==
  ASSUME OverviewInv, Room(page.lists, page.live), NEW of \in Overview!View, NEW at \in Overview!View,
         NEW S \in SUBSET Overview!Names, flight' \subseteq Overview!Call, UNCHANGED server,
         page' = [page EXCEPT !.view = at,
                              !.lists = Overview!Refetch(page.lists, page.live, of, at, Overview!Stored(of), S)],
         "environments" \in S \/ (at.project = page.view.project /\ \A c \in flight : c.state = "done" => c \in flight'),
         "analytics" \in S \/ at = page.view
  PROVE  OverviewInv'
<1> DEFINE stored == Overview!Stored(of)
           lists == Refetch(page.lists, page.live, of, at, stored, S)
<1>0. page \in Overview!Page /\ OverviewLists(page.lists) /\ page.view \in Overview!View
  BY OverviewData DEF OverviewInv
<1>1. page' = [page EXCEPT !.view = at, !.lists = lists]
  BY OverviewSame
<1>2. \A n \in Overview!Names \cap S : stored[n] \in OverviewRows[n]
  BY OverviewData DEF OverviewInv
<1>3. \A n \in Overview!Names : stored[n] = OverviewShows(n)[of]
  BY DEF OverviewShows
<1> HIDE DEF stored
<1>4. OverviewLists(lists)
  BY <1>0, <1>2, RefetchTyped DEF OverviewLists
<1>5. \A n \in S : Current(lists[n], OverviewShows(n), at)
  BY <1>0, <1>3, RefetchCurrent DEF OverviewLists
<1>6. \A n \in Overview!Names \ S : lists[n] = page.lists[n]
  BY <1>0, OtherLists DEF OverviewLists
<1> HIDE DEF lists
<1>7. page' \in Overview!Page /\ page'.lists = lists /\ page'.view = at
  <2>1. lists \in [environments : Overview!ListOf(Overview!View, SUBSET Overview!EnvironmentRow),
                   analytics : Overview!ListOf(Overview!View, Overview!Analytics)]
    BY <1>4, OverviewListsTyped
  <2> QED BY <1>0, <1>1, <2>1 DEF Overview!Page
<1>8. ASSUME NEW n \in Overview!Names \ S
      PROVE  Current(lists[n], OverviewShows(n), at) \/ (n = "environments" /\ \E c \in flight' : c.state = "done")
  <2>1. OverviewShows(n)[page.view] = OverviewShows(n)[at]
    BY <1>0, <1>8, OverviewSameProject DEF Overview!Names
  <2> QED BY <1>6, <2>1, CurrentThere DEF OverviewInv, OverviewShown, Overview!Names
<1> QED BY <1>5, <1>7, <1>8, OverviewStays

(* The filters, each with the loads it starts.                              *)
LEMMA OverviewUsed ==
  ASSUME OverviewInv,
         \/ \E project \in Selections : Overview!SelectProject(project)
         \/ \E environment \in Overview!EnvironmentFilter : Overview!SetEnvironment(environment)
         \/ \E hours \in Ranges : Overview!SetHours(hours)
  PROVE  OverviewInv'
<1>0. page \in Overview!Page /\ page.view \in Overview!View /\ flight \subseteq Overview!Call
      /\ page.lists["environments"] \in ListOf(Overview!View, SUBSET Overview!EnvironmentRow)
  BY OverviewData DEF OverviewInv, Overview!Names, OverviewRows
<1>1. ASSUME NEW view \in Overview!View, NEW S \in SUBSET Overview!Names, Overview!Show(view, S), "analytics" \in S,
             "environments" \in S \/ view.project = page.view.project
      PROVE  OverviewInv'
  <2>1. /\ page' = [page EXCEPT !.view = view,
                                !.lists = Overview!Refetch(page.lists, page.live, view, view, Overview!Stored(view), S)]
        /\ UNCHANGED <<server, flight>> /\ Room(page.lists, page.live)
    BY <1>1, OverviewSame DEF Overview!Show
  <2> QED BY <1>0, <1>1, <2>1, OverviewReloaded, Zenon
<1>2. ASSUME NEW project \in Selections, Overview!SelectProject(project) PROVE OverviewInv'
  <2>1. [page.view EXCEPT !.project = project] \in Overview!View
    BY <1>0 DEF Overview!View
  <2> QED BY <1>1, <1>2, <2>1 DEF Overview!SelectProject, Overview!Names
<1>3. ASSUME NEW environment \in Overview!EnvironmentFilter, Overview!SetEnvironment(environment) PROVE OverviewInv'
  <2>1. environment \in EnvironmentIds \cup {None}
    BY <1>0 DEF Overview!EnvironmentFilter, ListOf, Overview!EnvironmentRow
  <2>2. [page.view EXCEPT !.environment = environment] \in Overview!View
        /\ [page.view EXCEPT !.environment = environment].project = page.view.project
    BY <1>0, <2>1 DEF Overview!View
  <2> QED BY <1>1, <1>3, <2>2 DEF Overview!SetEnvironment, Overview!Names
<1>4. ASSUME NEW hours \in Ranges, Overview!SetHours(hours) PROVE OverviewInv'
  <2>1. [page.view EXCEPT !.hours = hours] \in Overview!View /\ [page.view EXCEPT !.hours = hours].project = page.view.project
    BY <1>0 DEF Overview!View
  <2> QED BY <1>1, <1>4, <2>1 DEF Overview!SetHours, Overview!Names
<1> QED BY <1>2, <1>3, <1>4

(* An environment is asked for.                                             *)
LEMMA OverviewSent ==
  ASSUME OverviewInv, Overview!CreateEnvironment
  PROVE  OverviewInv'
<1> DEFINE call == [op |-> "create", state |-> "sent", view |-> page.view]
<1>0. page \in Overview!Page /\ page.view \in Overview!View /\ flight \subseteq Overview!Call
  BY OverviewData DEF OverviewInv
<1>1. flight' = flight \cup {call} /\ UNCHANGED <<page, server>> /\ page.view.project # None
  BY DEF Overview!CreateEnvironment, Overview!CreateOffered
<1>2. call \in Overview!Call
  BY <1>0, <1>1 DEF Overview!Call, Overview!CallStates
<1> HIDE DEF call
<1>3. flight' \subseteq Overview!Call /\ \A c \in flight : c \in flight'
  BY <1>0, <1>1, <1>2
<1> QED BY <1>0, <1>1, <1>3, OverviewStays DEF OverviewInv, OverviewShown

(* An environment that is new has no flags.                                 *)
LEMMA OverviewCreated ==
  ASSUME OverviewInv, NEW c \in flight, Overview!HandleCreate(c)
  PROVE  OverviewInv'
<1>0. page \in Overview!Page /\ server \in Overview!Server /\ flight \subseteq Overview!Call /\ c \in Overview!Call /\ UNCHANGED page
  BY OverviewData DEF OverviewInv, Overview!HandleCreate
<1>1. PICK id \in EnvironmentIds \ {e.id : e \in server.environments} :
        server' = [environments |-> server.environments \cup {[id |-> id, project |-> c.view.project]}, writes |-> server.writes + 1]
  BY DEF Overview!HandleCreate
<1>2. c.view.project \in Selections \ {None}
  BY <1>0 DEF Overview!Call, Overview!View
<1>3. [id |-> id, project |-> c.view.project] \in Overview!EnvironmentRow
  BY <1>2 DEF Overview!EnvironmentRow
<1> DEFINE new == [id |-> id, project |-> c.view.project]
<1>4. new.id = id /\ server'.environments = server.environments \cup {new}
  BY <1>1
<1>5. server' \in Overview!Server
  BY <1>0, <1>1, <1>3 DEF Overview!Server
<1> HIDE DEF new
<1>6. \A flag \in OverviewFlags : flag.environment # new.id
  BY <1>1, <1>4 DEF OverviewInv, OverviewHeld
<1>7. ASSUME NEW view PROVE Overview!FlagsIn(view)' = Overview!FlagsIn(view)
  <2>1. ASSUME NEW flag \in OverviewFlags PROVE Overview!InScope(view, flag.environment)' <=> Overview!InScope(view, flag.environment)
    BY <1>4, <1>6 DEF Overview!InScope
  <2> QED BY <2>1 DEF Overview!FlagsIn
<1>8. ASSUME NEW view PROVE (Overview!Stored(view)["analytics"])' = Overview!Stored(view)["analytics"]
  <2>1. Overview!Overview(view)' = Overview!Overview(view)
    BY <1>7 DEF Overview!Overview
  <2>2. Overview!EvaluationsIn(view)' = Overview!EvaluationsIn(view)
    BY <1>7 DEF Overview!EvaluationsIn
  <2>3. Overview!EvaluationsTimeseries(view)' = Overview!EvaluationsTimeseries(view)
    BY <2>2 DEF Overview!EvaluationsTimeseries
  <2>4. \A flag : Overview!Evaluated(flag, view)' = Overview!Evaluated(flag, view)
    BY <2>2 DEF Overview!Evaluated
  <2>5. Overview!TopFlags(view)' = Overview!TopFlags(view)
    BY <1>7, <2>4 DEF Overview!TopFlags
  <2> QED BY <2>1, <2>3, <2>5 DEF Overview!Stored
<1>9. OverviewShows("analytics")' = OverviewShows("analytics")
  BY <1>8 DEF OverviewShows
<1>10. flight' \subseteq Overview!Call /\ \E d \in flight' : d.state = "done"
  <2> DEFINE d == [c EXCEPT !.state = "done"]
  <2>1. d \in Overview!Call /\ d.state = "done"
    BY <1>0 DEF Overview!Call, Overview!CallStates
  <2>2. flight' = (flight \ {c}) \cup {d}
    BY DEF Overview!HandleCreate, Overview!Become
  <2> HIDE DEF d
  <2> QED BY <1>0, <2>1, <2>2
<1>11. OverviewHeld'
  BY <1>4 DEF OverviewInv, OverviewHeld
<1>12. \A name \in Overview!Names : OverviewShown(name)'
  BY <1>0, <1>9, <1>10 DEF OverviewInv, OverviewShown, Overview!Names
<1> QED BY <1>0, <1>5, <1>10, <1>11, <1>12 DEF OverviewInv, Overview!TypeOK, Overview!Names

(* The environment was created, or was not.                                 *)
LEMMA OverviewReturned ==
  ASSUME OverviewInv, NEW c \in flight, Overview!Created(c) \/ Overview!Failed(c)
  PROVE  OverviewInv'
<1>0. page \in Overview!Page /\ flight \subseteq Overview!Call /\ c \in Overview!Call /\ page.view \in Overview!View
      /\ OverviewLists(page.lists) /\ flight' = flight \ {c} /\ flight' \subseteq Overview!Call /\ UNCHANGED server
  BY OverviewData DEF OverviewInv, Overview!Created, Overview!Failed
<1>1. CASE Overview!Created(c)
  <2> DEFINE lists == Overview!Refetch(page.lists, page.live, c.view, page.view, Overview!Stored(c.view), {"environments"})
  <2>1. page' = [page EXCEPT !.lists = lists] /\ Room(page.lists, page.live)
    BY <1>1, OverviewSame DEF Overview!Created
  <2> HIDE DEF lists
  <2>2. page' = [page EXCEPT !.view = page.view, !.lists = lists]
    BY <1>0, <2>1 DEF Overview!Page
  <2>3. c.view \in Overview!View /\ {"environments"} \in SUBSET Overview!Names
    BY <1>0 DEF Overview!Call, Overview!Names
  <2> QED BY <1>0, <2>1, <2>2, <2>3, OverviewReloaded, Zenon DEF lists
<1>2. CASE Overview!Failed(c)
  <2> DEFINE lists == ExcuseAll(page.lists, {"environments"})
  <2>1. page' = IF c.state = "done" THEN [page EXCEPT !.lists = lists] ELSE page
    BY <1>2, OverviewSame DEF Overview!Failed
  <2>2. CASE c.state # "done"
    <3>1. page' = page /\ \A d \in flight : d.state = "done" => d \in flight'
      BY <1>0, <2>1, <2>2
    <3> QED BY <1>0, <3>1, OverviewStays DEF OverviewInv, OverviewShown
  <2>3. CASE c.state = "done"
    <3>1. OverviewLists(lists)
      BY <1>0, ExcuseAllTyped DEF OverviewLists
    <3>2. Current(lists["environments"], OverviewShows("environments"), page.view)
      BY <1>0, ExcuseAllCurrent DEF OverviewLists, Overview!Names
    <3>3. lists["analytics"] = page.lists["analytics"]
      BY <1>0, OtherLists DEF OverviewLists, Overview!Names
    <3> HIDE DEF lists
    <3>4. page' \in Overview!Page /\ page'.lists = lists /\ page'.view = page.view
      <4>1. lists \in [environments : Overview!ListOf(Overview!View, SUBSET Overview!EnvironmentRow),
                       analytics : Overview!ListOf(Overview!View, Overview!Analytics)]
        BY <3>1, OverviewListsTyped
      <4> QED BY <1>0, <2>1, <2>3, <4>1 DEF Overview!Page
    <3> QED BY <1>0, <3>2, <3>3, <3>4, OverviewStays DEF OverviewInv, OverviewShown, Overview!Names
  <2> QED BY <2>2, <2>3
<1> QED BY <1>1, <1>2

(* A load is read, lands or fails.                                          *)
LEMMA OverviewLoads ==
  ASSUME OverviewInv, NEW i \in DOMAIN Overview!LoadsOf(page.lists, page.live),
         Overview!ReadLoad(i) \/ Overview!LandLoad(i) \/ Overview!FailLoad(i)
  PROVE  OverviewInv'
<1> DEFINE live == page.live
           list == page.lists[live]
           Rows == OverviewRows[live]
<1>0. /\ page \in Overview!Page /\ OverviewLists(page.lists) /\ page.view \in Overview!View /\ live \in Overview!Names
      /\ flight \subseteq Overview!Call /\ UNCHANGED <<server, flight>>
  BY OverviewData, Zenon DEF OverviewInv, Overview!ReadLoad, Overview!LandLoad, Overview!FailLoad
<1>1. /\ list \in ListOf(Overview!View, Rows) /\ i \in DOMAIN list.loads /\ list.loads[i] \in Load(Overview!View, Rows)
      /\ list.rows \in Rows
  <2>1. /\ list \in ListOf(Overview!View, Rows) /\ i \in DOMAIN list.loads /\ list.loads[i] \in Load(Overview!View, Rows)
    BY <1>0, LiveLoads, OverviewSame DEF OverviewLists
  <2> QED BY <2>1 DEF ListOf
<1>2. list.loads[i].of \in Overview!View
  BY <1>1 DEF Load
<1> HIDE DEF list, Rows
<1>3. ASSUME NEW new \in ListOf(Overview!View, Rows), page' = [page EXCEPT !.lists = [page.lists EXCEPT ![live] = new]],
             Current(list, OverviewShows(live), page.view) => Current(new, OverviewShows(live), page.view)
      PROVE  OverviewInv'
  <2> DEFINE lists == [page.lists EXCEPT ![live] = new]
  <2>1. OverviewLists(lists)
    BY <1>0, <1>3, OneListTyped DEF OverviewLists, Rows
  <2>2. lists[live] = new /\ \A n \in Overview!Names \ {live} : lists[n] = page.lists[n]
    BY <1>0 DEF OverviewLists, ListsIn
  <2> HIDE DEF lists
  <2>3. page' \in Overview!Page /\ page'.lists = lists /\ page'.view = page.view
    <3>1. lists \in [environments : Overview!ListOf(Overview!View, SUBSET Overview!EnvironmentRow),
                     analytics : Overview!ListOf(Overview!View, Overview!Analytics)]
      BY <2>1, OverviewListsTyped
    <3>2. page' = [page EXCEPT !.lists = lists]
      BY <1>3 DEF lists
    <3> QED BY <1>0, <3>1, <3>2 DEF Overview!Page
  <2> QED BY <1>0, <1>3, <2>2, <2>3, OverviewStays DEF OverviewInv, OverviewShown, list
<1>4. CASE Overview!ReadLoad(i)
  <2> DEFINE rows == OverviewShows(live)[list.loads[i].of]
             new == Read(list, i, rows)
  <2>1. rows = Overview!Stored(list.loads[i].of)[live] /\ rows \in Rows
    BY <1>0, <1>2, OverviewData DEF OverviewShows, OverviewInv, Rows
  <2>2. new \in ListOf(Overview!View, Rows)
    BY <1>1, <2>1, ReadTyped
  <2>3. Current(list, OverviewShows(live), page.view) => Current(new, OverviewShows(live), page.view)
    BY <1>1, ReadCurrent, ZenonT(40)
  <2>4. page' = [page EXCEPT !.lists = [page.lists EXCEPT ![live] = new]]
    BY <1>4, <2>1, OverviewSame DEF Overview!ReadLoad, list
  <2> HIDE DEF new
  <2> QED BY <1>3, <2>2, <2>3, <2>4
<1>5. CASE Overview!LandLoad(i)
  <2> DEFINE of == list.loads[i].of
             asked == IF live = "environments" THEN [of EXCEPT !.project = page.view.project] ELSE page.view
             new == Land(list, i, asked)
  <2>1. new \in ListOf(Overview!View, Rows) /\ ~Unanswered(list, i)
    BY <1>1, <1>5, LandTyped, OverviewSame DEF Overview!LandLoad, list
  <2>2. of = asked => OverviewShows(live)[asked] = OverviewShows(live)[page.view]
    <3>1. CASE live = "environments"
      <4>1. of = asked => of.project = page.view.project
        BY <1>0, <1>2, <3>1 DEF Overview!View
      <4> QED BY <1>0, <1>2, <3>1, <4>1, OverviewSameProject
    <3>2. CASE live # "environments"
      BY <3>2
    <3> QED BY <3>1, <3>2
  <2> HIDE DEF asked
  <2>3. Current(list, OverviewShows(live), page.view) => Current(new, OverviewShows(live), page.view)
    BY <1>1, <2>1, <2>2, LandCurrent, Zenon
  <2>4. page' = [page EXCEPT !.lists = [page.lists EXCEPT ![live] = new]]
    BY <1>5, OverviewSame DEF Overview!LandLoad, list, asked
  <2> HIDE DEF new
  <2> QED BY <1>3, <2>1, <2>3, <2>4, Zenon
<1>6. CASE Overview!FailLoad(i)
  <2> DEFINE rows == IF live = "environments" THEN {} ELSE list.rows
             new == FailTo(list, i, rows)
  <2>1. rows \in Rows
    BY <1>0, <1>1 DEF Rows, OverviewRows, Overview!Names
  <2>2. new \in ListOf(Overview!View, Rows)
    BY <1>1, <2>1, FailTyped
  <2>3. Current(list, OverviewShows(live), page.view) => Current(new, OverviewShows(live), page.view)
    BY <1>1, FailCurrent
  <2>4. page' = [page EXCEPT !.lists = [page.lists EXCEPT ![live] = new]]
    BY <1>6, OverviewSame DEF Overview!FailLoad, list
  <2> HIDE DEF new
  <2> QED BY <1>3, <2>2, <2>3, <2>4
<1> QED BY <1>4, <1>5, <1>6

(* No step breaks the invariant.                                            *)
LEMMA OverviewStep ==
  ASSUME OverviewInv, Overview!Next \/ UNCHANGED vars
  PROVE  OverviewInv'
<1>1. CASE UNCHANGED vars
  BY <1>1, OverviewStays, OverviewData DEF vars, OverviewInv, OverviewShown
<1> QED BY <1>1, OverviewUsed, OverviewSent, OverviewCreated, OverviewReturned, OverviewLoads
      DEF Overview!Next

(* It holds at first.                                                       *)
LEMMA OverviewInit == ASSUME Overview!Init PROVE OverviewInv
<1>1. server \in Overview!Server /\ flight = {} /\ server.environments = InitialEnvironments
  BY OverviewAssumption DEF Overview!Init, Overview!Server
<1>2. PICK project \in Selections, doing \in {"overview"}, live \in Overview!Names :
        LET view == [project |-> project, environment |-> None, hours |-> CHOOSE hours \in Ranges : TRUE] IN
        page = [doing |-> doing, live |-> live, view |-> view, lists |-> [name \in Overview!Names |-> Overview!List(Overview!Stored(view)[name])]]
  BY DEF Overview!Init
<1> DEFINE view == [project |-> project, environment |-> None, hours |-> CHOOSE hours \in Ranges : TRUE]
           stored == Overview!Stored(view)
           lists == [name \in Overview!Names |-> List(stored[name])]
<1>3. view \in Overview!View
  <2>1. (CHOOSE hours \in Ranges : TRUE) \in Ranges
    BY OverviewAssumption
  <2> QED BY <2>1 DEF Overview!View
<1>4. page = [doing |-> doing, live |-> live, view |-> view, lists |-> lists]
  <2>1. page = [doing |-> doing, live |-> live, view |-> view, lists |-> [name \in Overview!Names |-> Overview!List(stored[name])]]
    BY <1>2
  <2> HIDE DEF view, stored
  <2>2. lists = [name \in Overview!Names |-> Overview!List(stored[name])]
    BY OverviewSame
  <2> QED BY <2>1, <2>2
<1> HIDE DEF view
<1>5. \A n \in Overview!Names : stored[n] \in OverviewRows[n] /\ stored[n] = OverviewShows(n)[view]
  BY <1>1, <1>3, OverviewStored DEF OverviewShows, Overview!Names, OverviewRows
<1> HIDE DEF stored
<1>6. OverviewLists(lists) /\ \A n \in Overview!Names : Current(lists[n], OverviewShows(n), view)
  <2>1. OverviewLists(lists)
    BY <1>5, FirstLists DEF OverviewLists
  <2>2. \A n \in Overview!Names : lists[n] = List(stored[n])
    OBVIOUS
  <2> QED BY <1>5, <2>1, <2>2, FirstCurrent
<1> HIDE DEF lists
<1>7. lists \in [environments : Overview!ListOf(Overview!View, SUBSET Overview!EnvironmentRow),
                 analytics : Overview!ListOf(Overview!View, Overview!Analytics)]
  BY <1>6, OverviewListsTyped
<1>8. page \in Overview!Page /\ page.lists = lists /\ page.view = view
  BY <1>3, <1>4, <1>7 DEF Overview!Page
<1>9. OverviewHeld
  BY <1>1, OverviewAssumption DEF OverviewHeld
<1> QED BY <1>1, <1>6, <1>8, <1>9 DEF OverviewInv, Overview!TypeOK, OverviewShown

(* At rest the page shows what is stored.                                   *)
LEMMA OverviewSettle == ASSUME OverviewInv PROVE Overview!Settles
<1> SUFFICES ASSUME flight = {}, NEW name \in Overview!Names
             PROVE  Overview!Settled(page.lists[name], Overview!Stored(page.view)[name])
  BY DEF Overview!Settles
<1>1. Current(page.lists[name], OverviewShows(name), page.view) /\ page.view \in Overview!View
  BY OverviewData DEF OverviewInv, OverviewShown
<1>2. OverviewShows(name)[page.view] = Overview!Stored(page.view)[name]
  BY <1>1 DEF OverviewShows
<1> QED BY <1>1, <1>2, CurrentSettled, OverviewSame

-----------------------------------------------------------------------------
(* The monitoring page: types                                               *)

(* The page's lists are lists.                                              *)
LEMMA MonitoringSame ==
  /\ \A Of, Rows : Monitoring!ListOf(Of, Rows) = ListOf(Of, Rows)
  /\ \A rows : Monitoring!List(rows) = List(rows)
  /\ \A lists, live, of, at, stored, names : Monitoring!Refetch(lists, live, of, at, stored, names) = Refetch(lists, live, of, at, stored, names)
  /\ \A lists, names : Monitoring!ExcuseAll(lists, names) = ExcuseAll(lists, names)
  /\ \A lists, live : Monitoring!Room(lists, live) = Room(lists, live)
  /\ \A lists, live : Monitoring!LoadsOf(lists, live) = LoadsOf(lists, live)
  /\ \A list, rows, excused : Monitoring!Replace(list, rows, excused) = Replace(list, rows, excused)
  /\ \A list, rows, excused : Monitoring!Patch(list, rows, excused) = Patch(list, rows, excused)
  /\ \A list, i, rows : Monitoring!Read(list, i, rows) = Read(list, i, rows)
  /\ \A list, i : Monitoring!Unanswered(list, i) = Unanswered(list, i)
  /\ \A list, i, at : Monitoring!Land(list, i, at) = Land(list, i, at)
  /\ \A list, i, rows : Monitoring!FailTo(list, i, rows) = FailTo(list, i, rows)
  /\ \A list, stored : Monitoring!Settled(list, stored) = Settled(list, stored)
  BY DEF Load, Monitoring!Load, ListOf, Monitoring!ListOf, List, Monitoring!List, Overtaken,
         Monitoring!Overtaken, Fetch, Monitoring!Fetch, Replace, Monitoring!Replace, Patch,
         Monitoring!Patch, Read, Monitoring!Read, Unanswered, Monitoring!Unanswered, Settle,
         Monitoring!Settle, Land, Monitoring!Land, FailTo, Monitoring!FailTo, Excuse,
         Monitoring!Excuse, Refetch, Monitoring!Refetch, ExcuseAll, Monitoring!ExcuseAll, LoadsOf,
         Monitoring!LoadsOf, Room, Monitoring!Room, Settled, Monitoring!Settled

MonitoringNames == {"monitor", "environments"}

MonitoringRows == [monitor |-> Monitoring!Monitored, environments |-> SUBSET Monitoring!EnvironmentsIn(None)]

MonitoringLists(lists) == ListsIn(lists, MonitoringNames, Monitoring!View, MonitoringRows)

(* The page's two lists.                                                    *)
LEMMA MonitoringListsTyped ==
  ASSUME NEW lists
  PROVE  MonitoringLists(lists)
           <=> lists \in [monitor : Monitoring!ListOf(Monitoring!View, Monitoring!Monitored),
                          environments : Monitoring!ListOf(Monitoring!View, SUBSET Monitoring!EnvironmentsIn(None))]
  BY MonitoringSame DEF MonitoringLists, ListsIn, MonitoringNames, MonitoringRows

(* The environments of a project are environments.                          *)
LEMMA MonitoringIn ==
  ASSUME NEW project \in Selections
  PROVE  Monitoring!EnvironmentsIn(project) \subseteq Monitoring!EnvironmentsIn(None)
  BY FlagsAssumption DEF Monitoring!EnvironmentsIn

(* How many rows of the log a view asks for.                                *)
Counted(view) == Monitoring!Cardinality(Monitoring!Matching(view))

(* Counts are natural numbers.                                              *)
LEMMA MonitoringCounts ==
  /\ \A S \in SUBSET Registrations : Monitoring!Cardinality(S) \in Nat
  /\ \A view : Counted(view) \in Nat
<1>1. \A S : Monitoring!Cardinality(S) = Cardinality(S)
  BY DEF Monitoring!Cardinality, Cardinality
<1>2. \A S \in SUBSET Registrations : Monitoring!Cardinality(S) \in Nat
  BY <1>1, MonitoringAssumption, FS_Subset, FS_CardinalityType
<1>3. \A S \in SUBSET Logs : Monitoring!Cardinality(S) \in Nat
  BY <1>1, MonitoringAssumption, FS_Subset, FS_CardinalityType
<1>4. \A view : Monitoring!Matching(view) \subseteq Logs
  BY DEF Monitoring!Matching, Monitoring!Scoped
<1> QED BY <1>2, <1>3, <1>4 DEF Counted

(* What is answered for a view has the rows that the lists have.            *)
LEMMA MonitoringStored ==
  ASSUME server \in Monitoring!Server, NEW view \in Monitoring!View
  PROVE  \A name \in MonitoringNames : Monitoring!Answers(view)[name] \in MonitoringRows[name]
<1>1. Monitoring!sdkHealth(view) \in [total : Nat, stale : Nat, active : Nat]
  <2> DEFINE seen == {r \in Monitoring!Scoped(Registrations, view) : r.environment \in Monitoring!EnvironmentsIn(view.project)}
             stale == {r \in seen : Monitoring!isStale(r)}
             active == {r \in seen : ~Monitoring!isStale(r)}
  <2>1. seen \in SUBSET Registrations /\ stale \in SUBSET Registrations /\ active \in SUBSET Registrations
    BY DEF Monitoring!Scoped
  <2>2. Monitoring!sdkHealth(view) = [total |-> Monitoring!Cardinality(seen), stale |-> Monitoring!Cardinality(stale),
                                      active |-> Monitoring!Cardinality(active)]
    BY DEF Monitoring!sdkHealth
  <2> HIDE DEF seen, stale, active
  <2> QED BY <2>1, <2>2, MonitoringCounts
<1>2. Monitoring!Scoped(Registrations, view) \subseteq Registrations
  BY DEF Monitoring!Scoped
<1>3. Monitoring!Scoped(server.overrides, view) \subseteq Monitoring!FlagOverride
  BY DEF Monitoring!Scoped, Monitoring!Server
<1>4. view.page \in Nat \ {0} /\ view.project \in Selections
  BY DEF Monitoring!View
<1>5. Monitoring!Stored(view) \in Monitoring!Monitored
  BY <1>1, <1>2, <1>3, <1>4, MonitoringCounts DEF Monitoring!Stored, Monitoring!Monitored, Counted
<1>6. Monitoring!EnvironmentsIn(view.project) \subseteq Monitoring!EnvironmentsIn(None)
  BY <1>4, MonitoringIn
<1> QED BY <1>5, <1>6 DEF Monitoring!Answers, MonitoringNames, MonitoringRows

(* There is always a first page.                                            *)
LEMMA FirstPage == \A count \in Nat : Monitoring!LastPage(count) \in Nat /\ 1 <= Monitoring!LastPage(count)
<1> SUFFICES ASSUME NEW count \in Nat PROVE Monitoring!LastPage(count) \in Nat /\ 1 <= Monitoring!LastPage(count)
  OBVIOUS
<1>1. CASE count = 0
  BY <1>1 DEF Monitoring!LastPage
<1>2. CASE count # 0
  <2>1. PageSize \in Nat /\ PageSize >= 1 /\ count + PageSize - 1 \in Nat /\ count + PageSize - 1 >= PageSize
    BY <1>2, MonitoringAssumption
  <2>2. ASSUME NEW n \in Nat, NEW d \in Nat, d >= 1, n >= d PROVE n \div d \in Nat /\ n \div d >= 1
    BY <2>2
  <2> QED BY <1>2, <2>1, <2>2 DEF Monitoring!LastPage
<1> QED BY <1>1, <1>2

(* What a typed state holds.                                                *)
LEMMA MonitoringData ==
  ASSUME Monitoring!TypeOK
  PROVE  /\ page \in Monitoring!Page /\ server \in Monitoring!Server /\ flight \subseteq Monitoring!Call
         /\ page.view \in Monitoring!View /\ page.live \in MonitoringNames /\ MonitoringLists(page.lists)
         /\ \A name \in MonitoringNames : page.lists[name] \in ListOf(Monitoring!View, MonitoringRows[name])
         /\ \A name \in MonitoringNames, view \in Monitoring!View : Monitoring!Answers(view)[name] \in MonitoringRows[name]
         /\ Monitoring!monitor \in Monitoring!Monitored
<1>1. /\ page \in Monitoring!Page /\ server \in Monitoring!Server /\ flight \subseteq Monitoring!Call
      /\ page.view \in Monitoring!View /\ page.live \in MonitoringNames
      /\ page.lists \in [monitor : Monitoring!ListOf(Monitoring!View, Monitoring!Monitored),
                         environments : Monitoring!ListOf(Monitoring!View, SUBSET Monitoring!EnvironmentsIn(None))]
  BY DEF Monitoring!TypeOK, Monitoring!Page, MonitoringNames
<1>2. MonitoringLists(page.lists)
  BY <1>1, MonitoringListsTyped
<1>3. \A name \in MonitoringNames : page.lists[name] \in ListOf(Monitoring!View, MonitoringRows[name])
  BY <1>2 DEF MonitoringLists, ListsIn
<1>4. \A name \in MonitoringNames, view \in Monitoring!View : Monitoring!Answers(view)[name] \in MonitoringRows[name]
  BY <1>1, MonitoringStored
<1>5. Monitoring!monitor \in Monitoring!Monitored
  BY <1>3 DEF Monitoring!monitor, MonitoringNames, MonitoringRows, ListOf
<1> QED BY <1>1, <1>2, <1>3, <1>4, <1>5

(* What the handler of an ended call leaves of the page.                    *)
LEMMA MonitoringEnded ==
  ASSUME NEW p \in Monitoring!Page, NEW awaits
  PROVE  /\ Monitoring!Ended(p, awaits) \in Monitoring!Page /\ Monitoring!Ended(p, awaits).lists = p.lists
         /\ Monitoring!Ended(p, awaits).view = p.view /\ Monitoring!Ended(p, awaits).doing = p.doing
         /\ Monitoring!Ended(p, awaits).live = p.live
<1> DEFINE saving == p.saving /\ awaits # "create"
           lifting == IF awaits \in OverrideIds THEN None ELSE p.lifting
<1>1. saving \in BOOLEAN /\ lifting \in OverrideIds \cup {None}
  BY DEF Monitoring!Page
<1>2. Monitoring!Ended(p, awaits) = [p EXCEPT !.saving = saving, !.lifting = lifting]
  BY DEF Monitoring!Ended
<1> HIDE DEF saving, lifting
<1> QED BY <1>1, <1>2 DEF Monitoring!Page

(* What a call is, sent and answered.                                       *)
LEMMA MonitoringOps ==
  ASSUME NEW c \in Monitoring!Call
  PROVE  /\ c.view \in Monitoring!View /\ c.op \in {"create", "lift"} /\ c.state \in {"sent", "done", "refused"}
         /\ c.op = "create" => c.form.flag \in {f.id : f \in MonitoredFlags} /\ c.form.is_enabled \in BOOLEAN
         /\ c.op = "lift" => c.override \in OverrideIds
         /\ \A state \in {"done", "refused"} : [c EXCEPT !.state = state] \in Monitoring!Call /\ [c EXCEPT !.state = state].state = state
  BY DEF Monitoring!Call, Monitoring!CallStates

-----------------------------------------------------------------------------
(* The monitoring page: the invariant                                       *)

(* What is stored, for each view; the page shows it, or a write was carried *)
(* out whose answer loads it again.                                         *)
MonitoringShows(name) == [view \in Monitoring!View |-> Monitoring!Answers(view)[name]]

MonitoringShown(name) ==
  \/ Current(page.lists[name], MonitoringShows(name), page.view)
  \/ name = "monitor" /\ \E c \in flight : c.state = "done"

(* Who reads the log sends nothing, who sends something reads the first page. *)
MonitoringMode ==
  IF page.doing = "reading" THEN flight = {}
  ELSE page.view.page = 1 /\ \A c \in flight : c.view.page = 1

(* A load that was answered was asked for a page that there is, and knows   *)
(* how many there are; so does the page at rest.                            *)
Answered ==
  {load \in Load(Monitoring!View, Monitoring!Monitored) :
     load.rows # Unread =>
       /\ load.rows.count = Counted(load.of)
       /\ load.of.page <= Monitoring!LastPage(Counted(load.of))}

AtPage(list, view) ==
  list.loads = <<>> /\ ~list.excused =>
    /\ list.rows.count = Counted(view)
    /\ view.page <= Monitoring!LastPage(Counted(view))

MonitoringPages ==
  LET list == page.lists["monitor"] IN
  /\ list.loads \in Seq(Answered) /\ AtPage(list, page.view)
  /\ page.live = "environments" => list.loads = <<>> /\ (page.doing = "reading" => ~list.excused)

MonitoringInv ==
  Monitoring!TypeOK /\ MonitoringMode /\ MonitoringPages /\ \A name \in MonitoringNames : MonitoringShown(name)

-----------------------------------------------------------------------------
(* The monitor depends on all of a view but who awaits it, the environments *)
(* on its project alone, and the log's rows not on that.                    *)
LEMMA MonitoringSameView ==
  ASSUME NEW v \in Monitoring!View, NEW w \in Monitoring!View, v.project = w.project
  PROVE  /\ MonitoringShows("environments")[v] = MonitoringShows("environments")[w]
         /\ v.environment = w.environment /\ v.flag = w.flag /\ v.result = w.result /\ v.page = w.page =>
              MonitoringShows("monitor")[v] = MonitoringShows("monitor")[w]
<1>1. Monitoring!Answers(v)["environments"] = Monitoring!Answers(w)["environments"]
  BY DEF Monitoring!Answers
<1>2. ASSUME v.environment = w.environment, v.flag = w.flag, v.result = w.result, v.page = w.page
      PROVE  Monitoring!Answers(v)["monitor"] = Monitoring!Answers(w)["monitor"]
  <2>1. \A rows : Monitoring!Scoped(rows, v) = Monitoring!Scoped(rows, w)
    BY <1>2 DEF Monitoring!Scoped
  <2>2. Monitoring!sdkHealth(v) = Monitoring!sdkHealth(w)
    <3>1. {r \in Monitoring!Scoped(Registrations, v) : r.environment \in Monitoring!EnvironmentsIn(v.project)}
            = {r \in Monitoring!Scoped(Registrations, w) : r.environment \in Monitoring!EnvironmentsIn(w.project)}
      BY <2>1
    <3> QED BY <3>1, Zenon DEF Monitoring!sdkHealth
  <2>3. Monitoring!Matching(v) = Monitoring!Matching(w)
    BY <1>2, <2>1 DEF Monitoring!Matching
  <2> QED BY <1>2, <2>1, <2>2, <2>3 DEF Monitoring!Answers, Monitoring!Stored
<1> QED BY <1>1, <1>2 DEF MonitoringShows

(* What is counted depends on the filters, not on the page asked for.       *)
LEMMA CountedSame ==
  ASSUME NEW v, NEW w, v.environment = w.environment, v.flag = w.flag, v.result = w.result
  PROVE  Counted(v) = Counted(w)
  BY DEF Counted, Monitoring!Matching, Monitoring!Scoped

(* Awaiting a load is no part of what is asked for.                         *)
LEMMA MonitoringAwaits ==
  ASSUME NEW view \in Monitoring!View, NEW awaits \in OverrideIds \cup {None, "create"}
  PROVE  LET v == [view EXCEPT !.awaits = awaits] IN
         /\ v \in Monitoring!View /\ v.page = view.page /\ v.project = view.project /\ Counted(v) = Counted(view)
         /\ \A name \in MonitoringNames : MonitoringShows(name)[v] = MonitoringShows(name)[view]
         /\ Monitoring!Answers(v) = Monitoring!Answers(view)
<1> DEFINE v == [view EXCEPT !.awaits = awaits]
<1>1. /\ v \in Monitoring!View /\ v.project = view.project /\ v.environment = view.environment /\ v.flag = view.flag
      /\ v.result = view.result /\ v.page = view.page
  BY DEF Monitoring!View
<1> HIDE DEF v
<1>2. \A name \in MonitoringNames : MonitoringShows(name)[v] = MonitoringShows(name)[view]
  BY <1>1, MonitoringSameView DEF MonitoringNames
<1>3. Monitoring!Answers(v) = Monitoring!Answers(view)
  <2>1. Monitoring!Answers(v)["monitor"] = Monitoring!Answers(view)["monitor"]
    BY <1>1, <1>2 DEF MonitoringShows, MonitoringNames
  <2> QED BY <1>1, <2>1 DEF Monitoring!Answers
<1>4. Counted(v) = Counted(view)
  BY <1>1, CountedSame
<1> QED BY <1>1, <1>2, <1>3, <1>4 DEF v

(* A step that leaves what is stored alone.                                 *)
LEMMA MonitoringFrame ==
  ASSUME MonitoringInv, page' \in Monitoring!Page, flight' \subseteq Monitoring!Call, UNCHANGED server,
         MonitoringMode', MonitoringPages',
         \A name \in MonitoringNames :
           \/ Current(page'.lists[name], MonitoringShows(name), page'.view)
           \/ name = "monitor" /\ \E c \in flight' : c.state = "done"
  PROVE  MonitoringInv'
<1>1. \A name : MonitoringShows(name)' = MonitoringShows(name)
  BY DEF MonitoringShows, Monitoring!Answers, Monitoring!Stored
<1> QED BY <1>1 DEF MonitoringInv, Monitoring!TypeOK, MonitoringShown, MonitoringNames

(* A step that leaves the lists alone as well.                              *)
LEMMA MonitoringStays ==
  ASSUME MonitoringInv, page' \in Monitoring!Page, flight' \subseteq Monitoring!Call, UNCHANGED server, MonitoringMode',
         page'.lists = page.lists, page'.view = page.view, page'.live = page.live, page'.doing = page.doing,
         (\E c \in flight : c.state = "done") => \E c \in flight' : c.state = "done"
  PROVE  MonitoringInv' /\ Monitoring!AsksForPages
<1>1. MonitoringPages'
  BY DEF MonitoringInv, MonitoringPages, AtPage
<1>2. Monitoring!AsksForPages
  BY DEF Monitoring!AsksForPages
<1> QED BY <1>1, <1>2, MonitoringFrame DEF MonitoringInv, MonitoringShown

(* Loads that were overtaken, or of which one has ended.                    *)
LEMMA LoadsKept ==
  ASSUME NEW S, NEW Rows, NEW G \in SUBSET Load(S, Rows), \A load \in G : [load EXCEPT !.overtaken = TRUE] \in G,
         NEW loads \in Seq(G)
  PROVE  /\ Overtaken(loads) \in Seq(G)
         /\ \A i \in DOMAIN loads : Overtaken(SubSeq(loads, 1, i - 1)) \o SubSeq(loads, i + 1, Len(loads)) \in Seq(G)
<1>1. ASSUME NEW some \in Seq(G) PROVE Overtaken(some) \in Seq(G)
  <2>1. \A i \in 1..Len(some) : [some[i] EXCEPT !.overtaken = TRUE] \in G
    OBVIOUS
  <2>2. DOMAIN some = 1..Len(some) /\ Len(some) \in Nat
    OBVIOUS
  <2> QED BY <2>1, <2>2 DEF Overtaken
<1>2. ASSUME NEW i \in DOMAIN loads PROVE Overtaken(SubSeq(loads, 1, i - 1)) \o SubSeq(loads, i + 1, Len(loads)) \in Seq(G)
  <2>1. SubSeq(loads, 1, i - 1) \in Seq(G) /\ SubSeq(loads, i + 1, Len(loads)) \in Seq(G)
    OBVIOUS
  <2>2. Overtaken(SubSeq(loads, 1, i - 1)) \in Seq(G)
    BY <1>1, <2>1
  <2>3. \A a, b \in Seq(G) : a \o b \in Seq(G)
    OBVIOUS
  <2> QED BY <2>1, <2>2, <2>3
<1> QED BY <1>1, <1>2

(* A load that was answered stays so when another overtakes it.             *)
LEMMA AnsweredKept ==
  /\ Answered \in SUBSET Load(Monitoring!View, Monitoring!Monitored)
  /\ \A load \in Answered : [load EXCEPT !.overtaken = TRUE] \in Answered
<1> SUFFICES ASSUME NEW load \in Answered PROVE [load EXCEPT !.overtaken = TRUE] \in Answered
  BY DEF Answered
<1>1. load \in Load(Monitoring!View, Monitoring!Monitored)
  BY DEF Answered
<1>2. /\ [load EXCEPT !.overtaken = TRUE] \in Load(Monitoring!View, Monitoring!Monitored)
      /\ [load EXCEPT !.overtaken = TRUE].rows = load.rows /\ [load EXCEPT !.overtaken = TRUE].of = load.of
  BY <1>1 DEF Load
<1> QED BY <1>2 DEF Answered

(* The invariant holds at first.                                            *)
LEMMA MonitoringInit == ASSUME Monitoring!Init PROVE MonitoringInv
<1>1. server \in Monitoring!Server /\ flight = {}
  BY MonitoringAssumption DEF Monitoring!Init, Monitoring!Server
<1>2. PICK project \in Selections, doing \in {"reading", "overriding"} : \E live \in {"monitor", "environments"} :
        LET view == [project |-> project, environment |-> None, flag |-> None, result |-> None, page |-> 1, awaits |-> None] IN
        page = [doing |-> doing, live |-> live, view |-> view,
                lists |-> [name \in {"monitor", "environments"} |-> Monitoring!List(Monitoring!Answers(view)[name])],
                panel |-> "sdks", isDialogOpen |-> FALSE, form |-> Monitoring!NoOverride, saving |-> FALSE, lifting |-> None]
  BY DEF Monitoring!Init
<1> DEFINE view == [project |-> project, environment |-> None, flag |-> None, result |-> None, page |-> 1, awaits |-> None]
           stored == Monitoring!Answers(view)
           lists == [name \in MonitoringNames |-> List(stored[name])]
<1>3. view \in Monitoring!View /\ view.page = 1
  BY DEF Monitoring!View
<1>4. PICK live \in {"monitor", "environments"} :
        page = [doing |-> doing, live |-> live, view |-> view,
                lists |-> [name \in MonitoringNames |-> Monitoring!List(stored[name])],
                panel |-> "sdks", isDialogOpen |-> FALSE, form |-> Monitoring!NoOverride, saving |-> FALSE, lifting |-> None]
  BY <1>2 DEF MonitoringNames
<1> HIDE DEF view
<1>5. \A n \in MonitoringNames : stored[n] \in MonitoringRows[n] /\ stored[n] = MonitoringShows(n)[view]
  BY <1>1, <1>3, MonitoringStored DEF MonitoringShows
<1>6. stored["monitor"].count = Counted(view)
  BY DEF Monitoring!Answers, Monitoring!Stored, Counted
<1> HIDE DEF stored
<1>7. lists = [name \in MonitoringNames |-> Monitoring!List(stored[name])]
  BY MonitoringSame
<1>8. MonitoringLists(lists) /\ \A n \in MonitoringNames : Current(lists[n], MonitoringShows(n), view)
  <2>1. MonitoringLists(lists)
    BY <1>5, FirstLists DEF MonitoringLists
  <2>2. \A n \in MonitoringNames : lists[n] = List(stored[n])
    OBVIOUS
  <2> QED BY <1>5, <2>1, <2>2, FirstCurrent
<1>9. lists["monitor"] = List(stored["monitor"])
  BY DEF MonitoringNames
<1> HIDE DEF lists
<1>10. lists \in [monitor : Monitoring!ListOf(Monitoring!View, Monitoring!Monitored),
                  environments : Monitoring!ListOf(Monitoring!View, SUBSET Monitoring!EnvironmentsIn(None))]
  BY <1>8, MonitoringListsTyped
<1>11. Monitoring!NoOverride \in Monitoring!OverrideForm
  BY DEF Monitoring!NoOverride, Monitoring!OverrideForm
<1>12. page \in Monitoring!Page /\ page.lists = lists /\ page.view = view
  BY <1>3, <1>4, <1>7, <1>10, <1>11 DEF Monitoring!Page
<1>13. MonitoringMode
  BY <1>1, <1>3, <1>12 DEF MonitoringMode
<1>14. MonitoringPages
  <2>1. lists["monitor"].loads = <<>> /\ ~lists["monitor"].excused /\ lists["monitor"].rows = stored["monitor"]
    BY <1>9 DEF List
  <2>2. \A S : <<>> \in Seq(S)
    OBVIOUS
  <2>3. view.page <= Monitoring!LastPage(Counted(view))
    BY <1>3, FirstPage, MonitoringCounts
  <2> QED BY <1>6, <1>12, <2>1, <2>2, <2>3 DEF MonitoringPages, AtPage
<1> QED BY <1>1, <1>8, <1>12, <1>13, <1>14 DEF MonitoringInv, Monitoring!TypeOK, MonitoringShown

(* What is loaded again, for a view that is the page's but for who awaits it. *)
LEMMA MonitoringReload ==
  ASSUME MonitoringInv, Room(page.lists, page.live), NEW of \in Monitoring!View, NEW at \in Monitoring!View,
         NEW view \in Monitoring!View, NEW S \in SUBSET MonitoringNames, "monitor" \in S, NEW lists,
         lists = Monitoring!Refetch(page.lists, page.live, of, at, Monitoring!Answers(of), S),
         \A name \in MonitoringNames : MonitoringShows(name)[at] = MonitoringShows(name)[view],
         Counted(at) = Counted(view), "environments" \in S \/ view.project = page.view.project,
         page.live = "environments" => view.page <= Monitoring!LastPage(Counted(view)),
         page.doing = "reading" => of = at
  PROVE  /\ MonitoringLists(lists) /\ \A name \in MonitoringNames : Current(lists[name], MonitoringShows(name), view)
         /\ lists["monitor"].loads \in Seq(Answered) /\ AtPage(lists["monitor"], view)
         /\ page.live = "environments" =>
              lists["monitor"].loads = <<>> /\ (page.doing = "reading" => ~lists["monitor"].excused)
<1> DEFINE stored == Monitoring!Answers(of)
           list == page.lists["monitor"]
<1>0. /\ page \in Monitoring!Page /\ MonitoringLists(page.lists) /\ page.view \in Monitoring!View /\ page.live \in MonitoringNames
      /\ list \in ListOf(Monitoring!View, Monitoring!Monitored) /\ DOMAIN page.lists = MonitoringNames
  BY MonitoringData DEF MonitoringInv, MonitoringNames, MonitoringRows, MonitoringLists, ListsIn
<1>1. lists = Refetch(page.lists, page.live, of, at, stored, S)
  BY MonitoringSame
<1>2. \A n \in MonitoringNames \cap S : stored[n] \in MonitoringRows[n]
  BY MonitoringData DEF MonitoringInv
<1>3. \A n \in MonitoringNames : stored[n] = MonitoringShows(n)[of]
  BY DEF MonitoringShows
<1>4. stored["monitor"].count = Counted(of)
  BY DEF Monitoring!Answers, Monitoring!Stored, Counted
<1> HIDE DEF stored
<1>5. MonitoringLists(lists)
  BY <1>0, <1>1, <1>2, RefetchTyped DEF MonitoringLists
<1>6. ASSUME NEW n \in MonitoringNames PROVE Current(lists[n], MonitoringShows(n), view)
  <2>1. CASE n \in S
    <3>1. Current(lists[n], MonitoringShows(n), at)
      BY <1>0, <1>1, <1>3, <2>1, RefetchCurrent DEF MonitoringLists
    <3> QED BY <3>1, CurrentThere
  <2>2. CASE n \notin S
    <3>0. n = "environments" /\ view.project = page.view.project
      BY <2>2 DEF MonitoringNames
    <3>1. lists[n] = page.lists[n]
      BY <1>0, <1>1, <2>2 DEF Refetch
    <3>2. Current(page.lists[n], MonitoringShows(n), page.view)
      BY <3>0 DEF MonitoringInv, MonitoringShown
    <3>3. MonitoringShows(n)[page.view] = MonitoringShows(n)[view]
      BY <1>0, <3>0, MonitoringSameView
    <3> QED BY <3>1, <3>2, <3>3, CurrentThere
  <2> QED BY <2>1, <2>2
<1>7. CASE page.live = "monitor"
  <2> DEFINE load == [of |-> of, rows |-> Unread, overtaken |-> FALSE]
  <2>0. lists["monitor"] = Fetch(list, of)
    BY <1>0, <1>1, <1>7 DEF Refetch, MonitoringNames
  <2>1. lists["monitor"].loads = Append(list.loads, load)
    BY <1>0, <2>0 DEF Fetch, ListOf
  <2>2. load \in Answered
    BY DEF Answered, Load
  <2>3. list.loads \in Seq(Answered)
    BY DEF MonitoringInv, MonitoringPages
  <2> HIDE DEF load
  <2>4. Append(list.loads, load) \in Seq(Answered) /\ Append(list.loads, load) # <<>>
    BY <2>2, <2>3
  <2> QED BY <1>5, <1>6, <1>7, <2>1, <2>4 DEF AtPage
<1>8. CASE page.live = "environments"
  <2>1. lists["monitor"] = Replace(list, stored["monitor"], of # at)
    BY <1>0, <1>1, <1>8 DEF Refetch, MonitoringNames
  <2>2. /\ lists["monitor"].loads = Overtaken(list.loads) /\ lists["monitor"].excused = (of # at)
        /\ lists["monitor"].rows = stored["monitor"]
    BY <1>0, <2>1 DEF Replace, ListOf
  <2>3. list.loads = <<>>
    BY <1>8 DEF MonitoringInv, MonitoringPages
  <2>4. Overtaken(list.loads) = <<>>
    BY <2>3 DEF Overtaken
  <2>5. \A T : <<>> \in Seq(T)
    OBVIOUS
  <2>6. AtPage(lists["monitor"], view)
    BY <1>4, <1>8, <2>2 DEF AtPage
  <2> QED BY <1>5, <1>6, <1>8, <2>2, <2>4, <2>5, <2>6
<1> QED BY <1>0, <1>7, <1>8 DEF MonitoringNames

(* The page at rest asked for a page that there is, who reads it or not.    *)
LEMMA MonitoringAtPage ==
  ASSUME MonitoringInv
  PROVE  /\ page.live = "environments" => page.view.page <= Monitoring!LastPage(Counted(page.view))
         /\ page.lists["monitor"].loads = <<>> /\ ~page.lists["monitor"].excused =>
              /\ page.view.page <= Monitoring!LastPage(Counted(page.view))
              /\ Monitoring!lastPage = Monitoring!LastPage(Counted(page.view))
<1>1. page.lists["monitor"].loads = <<>> /\ ~page.lists["monitor"].excused =>
        /\ page.view.page <= Monitoring!LastPage(Counted(page.view))
        /\ Monitoring!monitor.count = Counted(page.view)
  BY DEF MonitoringInv, MonitoringPages, AtPage, Monitoring!monitor
<1>2. page.doing # "reading" => page.view.page <= Monitoring!LastPage(Counted(page.view))
  BY FirstPage, MonitoringCounts DEF MonitoringInv, MonitoringMode
<1> QED BY <1>1, <1>2 DEF MonitoringInv, MonitoringPages, Monitoring!lastPage

(* The page shows another view, or the same again.                          *)
LEMMA MonitoringShow ==
  ASSUME MonitoringInv, Room(page.lists, page.live), NEW view \in Monitoring!View, NEW S \in SUBSET MonitoringNames,
         "monitor" \in S, "environments" \in S \/ view.project = page.view.project,
         page.doing = "reading" \/ view.page = page.view.page,
         \/ (page.lists["monitor"].loads = <<>> /\ ~page.lists["monitor"].excused) \/ page.live = "environments"
              => view.page <= Monitoring!LastPage(Counted(view)),
         page' = [page EXCEPT !.view = view,
                              !.lists = Monitoring!Refetch(page.lists, page.live, view, view, Monitoring!Answers(view), S)],
         UNCHANGED <<server, flight>>
  PROVE  MonitoringInv' /\ Monitoring!AsksForPages
<1> DEFINE lists == Monitoring!Refetch(page.lists, page.live, view, view, Monitoring!Answers(view), S)
<1>0. page \in Monitoring!Page /\ flight \subseteq Monitoring!Call
  BY MonitoringData DEF MonitoringInv
<1>1. /\ MonitoringLists(lists) /\ \A name \in MonitoringNames : Current(lists[name], MonitoringShows(name), view)
      /\ lists["monitor"].loads \in Seq(Answered) /\ AtPage(lists["monitor"], view)
      /\ page.live = "environments" =>
           lists["monitor"].loads = <<>> /\ (page.doing = "reading" => ~lists["monitor"].excused)
  BY MonitoringReload
<1> HIDE DEF lists
<1>2. /\ page' \in Monitoring!Page /\ page'.lists = lists /\ page'.view = view /\ page'.live = page.live
      /\ page'.doing = page.doing
  <2>1. lists \in [monitor : Monitoring!ListOf(Monitoring!View, Monitoring!Monitored),
                   environments : Monitoring!ListOf(Monitoring!View, SUBSET Monitoring!EnvironmentsIn(None))]
    BY <1>1, MonitoringListsTyped
  <2>2. page' = [page EXCEPT !.view = view, !.lists = lists]
    BY DEF lists
  <2> QED BY <1>0, <2>1, <2>2 DEF Monitoring!Page
<1>3. MonitoringMode'
  BY <1>2 DEF MonitoringInv, MonitoringMode
<1>4. MonitoringPages'
  BY <1>1, <1>2 DEF MonitoringPages, AtPage
<1>5. Monitoring!AsksForPages
  BY <1>2 DEF Monitoring!AsksForPages, Counted
<1> QED BY <1>0, <1>1, <1>2, <1>3, <1>4, <1>5, MonitoringFrame

(* The project and the refresh button.                                      *)
LEMMA MonitoringViews ==
  ASSUME MonitoringInv,
         \/ \E project \in Selections : Monitoring!SelectProject(project)
         \/ Monitoring!Refresh
  PROVE  MonitoringInv' /\ Monitoring!AsksForPages
<1>0. page \in Monitoring!Page /\ page.view \in Monitoring!View
  BY MonitoringData DEF MonitoringInv
<1>1. ASSUME NEW project \in Selections, Monitoring!SelectProject(project) PROVE MonitoringInv' /\ Monitoring!AsksForPages
  <2> DEFINE view == [page.view EXCEPT !.project = project]
  <2>1. /\ view \in Monitoring!View /\ view.page = page.view.page /\ view.environment = page.view.environment
        /\ view.flag = page.view.flag /\ view.result = page.view.result
    BY <1>0 DEF Monitoring!View
  <2>2. /\ page' = [page EXCEPT !.view = view, !.lists = Monitoring!Refetch(page.lists, page.live, view, view,
                                                                            Monitoring!Answers(view), MonitoringNames)]
        /\ Room(page.lists, page.live) /\ UNCHANGED <<server, flight>>
    BY <1>1, MonitoringSame, Zenon DEF Monitoring!SelectProject, Monitoring!Show, Monitoring!Only,
       MonitoringNames
  <2> HIDE DEF view
  <2>3. Counted(view) = Counted(page.view)
    BY <2>1, CountedSame
  <2>4. \/ (page.lists["monitor"].loads = <<>> /\ ~page.lists["monitor"].excused) \/ page.live = "environments"
          => view.page <= Monitoring!LastPage(Counted(view))
    BY <2>1, <2>3, MonitoringAtPage
  <2>5. "monitor" \in MonitoringNames /\ "environments" \in MonitoringNames
    BY DEF MonitoringNames
  <2> QED BY <2>1, <2>2, <2>4, <2>5, MonitoringShow, Zenon
<1>2. CASE Monitoring!Refresh
  <2>1. /\ page' = [page EXCEPT !.lists = Monitoring!Refetch(page.lists, page.live, page.view, page.view,
                                                            Monitoring!Answers(page.view), {"monitor"})]
        /\ Room(page.lists, page.live) /\ UNCHANGED <<server, flight>>
    BY <1>2, MonitoringSame DEF Monitoring!Refresh, Monitoring!Only
  <2>2. PICK view \in Monitoring!View : view = page.view
    BY <1>0
  <2>3. \A lists : [page EXCEPT !.lists = lists] = [page EXCEPT !.view = view, !.lists = lists]
    BY <1>0, <2>2 DEF Monitoring!Page
  <2>4. page' = [page EXCEPT !.view = view, !.lists = Monitoring!Refetch(page.lists, page.live, view, view,
                                                                        Monitoring!Answers(view), {"monitor"})]
    BY <2>1, <2>2, <2>3, Zenon
  <2>5. \/ (page.lists["monitor"].loads = <<>> /\ ~page.lists["monitor"].excused) \/ page.live = "environments"
          => view.page <= Monitoring!LastPage(Counted(view))
    BY <2>2, MonitoringAtPage
  <2>6. {"monitor"} \in SUBSET MonitoringNames /\ "monitor" \in {"monitor"} /\ view.project = page.view.project
        /\ view.page = page.view.page
    BY <2>2 DEF MonitoringNames
  <2>7. Room(page.lists, page.live) /\ UNCHANGED <<server, flight>>
    BY <2>1
  <2> QED BY <2>4, <2>5, <2>6, <2>7, MonitoringShow, Zenon
<1> QED BY <1>1, <1>2

(* The filters and the pages of the table.                                  *)
LEMMA MonitoringRead ==
  ASSUME MonitoringInv, page.doing = "reading",
         \/ \E environment \in Monitoring!EnvironmentFilter : Monitoring!SetEnvironment(environment)
         \/ \E flag \in Monitoring!FlagFilter : Monitoring!SetFlagFilter(flag)
         \/ \E result \in Monitoring!ResultFilter : Monitoring!SetResultFilter(result)
         \/ \E n \in Monitoring!Pager : Monitoring!SetEvaluationsPage(n)
  PROVE  MonitoringInv' /\ Monitoring!AsksForPages
<1>0. page \in Monitoring!Page /\ page.view \in Monitoring!View /\ Monitoring!monitor \in Monitoring!Monitored
      /\ page.lists["environments"].rows \subseteq Monitoring!EnvironmentsIn(None)
  <2>1. page.lists["environments"] \in ListOf(Monitoring!View, SUBSET Monitoring!EnvironmentsIn(None))
    BY MonitoringData DEF MonitoringInv, MonitoringNames, MonitoringRows
  <2> QED BY <2>1, MonitoringData DEF MonitoringInv, ListOf
<1>1. ASSUME NEW view \in Monitoring!View, Monitoring!Show(view, {"monitor"}), view.project = page.view.project,
             \/ (page.lists["monitor"].loads = <<>> /\ ~page.lists["monitor"].excused) \/ page.live = "environments"
                  => view.page <= Monitoring!LastPage(Counted(view))
      PROVE  MonitoringInv' /\ Monitoring!AsksForPages
  <2>1. /\ page' = [page EXCEPT !.view = view, !.lists = Monitoring!Refetch(page.lists, page.live, view, view,
                                                                            Monitoring!Answers(view), {"monitor"})]
        /\ Room(page.lists, page.live) /\ UNCHANGED <<server, flight>>
    BY <1>1, MonitoringSame DEF Monitoring!Show, Monitoring!Only
  <2> QED BY <1>1, <2>1, MonitoringShow, Zenon DEF MonitoringNames
<1>2. ASSUME NEW view \in Monitoring!View, Monitoring!applyFilter(view), view.project = page.view.project
      PROVE  MonitoringInv' /\ Monitoring!AsksForPages
  <2> DEFINE first == [view EXCEPT !.page = 1]
  <2>1. first \in Monitoring!View /\ first.page = 1 /\ first.project = page.view.project
    BY <1>2 DEF Monitoring!View
  <2>2. Monitoring!Show(first, {"monitor"})
    BY <1>2 DEF Monitoring!applyFilter
  <2> HIDE DEF first
  <2>3. first.page <= Monitoring!LastPage(Counted(first))
    BY <2>1, FirstPage, MonitoringCounts
  <2> QED BY <1>1, <2>1, <2>2, <2>3
<1>3. ASSUME NEW environment \in Monitoring!EnvironmentFilter, Monitoring!SetEnvironment(environment)
      PROVE  MonitoringInv' /\ Monitoring!AsksForPages
  <2>1. environment \in Monitoring!EnvironmentsIn(None) \cup {None}
    BY <1>0 DEF Monitoring!EnvironmentFilter
  <2>2. [page.view EXCEPT !.environment = environment] \in Monitoring!View
        /\ [page.view EXCEPT !.environment = environment].project = page.view.project
    BY <1>0, <2>1 DEF Monitoring!View
  <2> QED BY <1>2, <1>3, <2>2 DEF Monitoring!SetEnvironment
<1>4. ASSUME NEW flag \in Monitoring!FlagFilter, Monitoring!SetFlagFilter(flag) PROVE MonitoringInv' /\ Monitoring!AsksForPages
  <2>1. Monitoring!monitor.flags \subseteq MonitoredFlags
    BY <1>0 DEF Monitoring!Monitored
  <2>2. flag \in {f.id : f \in MonitoredFlags} \cup {None}
    BY <2>1 DEF Monitoring!FlagFilter
  <2>3. [page.view EXCEPT !.flag = flag] \in Monitoring!View /\ [page.view EXCEPT !.flag = flag].project = page.view.project
    BY <1>0, <2>2 DEF Monitoring!View
  <2> QED BY <1>2, <1>4, <2>3 DEF Monitoring!SetFlagFilter
<1>5. ASSUME NEW result \in Monitoring!ResultFilter, Monitoring!SetResultFilter(result) PROVE MonitoringInv' /\ Monitoring!AsksForPages
  <2>1. result \in BOOLEAN \cup {None}
    BY DEF Monitoring!ResultFilter
  <2>2. [page.view EXCEPT !.result = result] \in Monitoring!View /\ [page.view EXCEPT !.result = result].project = page.view.project
    BY <1>0, <2>1 DEF Monitoring!View
  <2> QED BY <1>2, <1>5, <2>2 DEF Monitoring!SetResultFilter
<1>6. ASSUME NEW n \in Monitoring!Pager, Monitoring!SetEvaluationsPage(n) PROVE MonitoringInv' /\ Monitoring!AsksForPages
  <2> DEFINE view == [page.view EXCEPT !.page = n]
  <2>1. page.view.page \in Nat /\ page.view.page >= 1
    BY <1>0 DEF Monitoring!View
  <2>2. n \in {page.view.page - 1, page.view.page + 1} /\ n >= 1 /\ (n > page.view.page => page.view.page < Monitoring!lastPage)
    BY DEF Monitoring!Pager
  <2>3. n \in Nat \ {0}
    BY <2>1, <2>2
  <2>4. /\ view \in Monitoring!View /\ view.project = page.view.project /\ view.page = n /\ view.environment = page.view.environment
        /\ view.flag = page.view.flag /\ view.result = page.view.result
    BY <1>0, <2>3 DEF Monitoring!View
  <2>5. Monitoring!Show(view, {"monitor"})
    BY <1>6 DEF Monitoring!SetEvaluationsPage
  <2> HIDE DEF view
  <2>6. Counted(view) = Counted(page.view) /\ Monitoring!LastPage(Counted(view)) \in Nat
    BY <2>4, CountedSame, FirstPage, MonitoringCounts
  <2>7. page.live = "environments" => page.lists["monitor"].loads = <<>> /\ ~page.lists["monitor"].excused
    BY DEF MonitoringInv, MonitoringPages
  <2>8. page.lists["monitor"].loads = <<>> /\ ~page.lists["monitor"].excused => view.page <= Monitoring!LastPage(Counted(view))
    <3> SUFFICES ASSUME page.lists["monitor"].loads = <<>>, ~page.lists["monitor"].excused PROVE n <= Monitoring!LastPage(Counted(view))
      BY <2>4
    <3>1. page.view.page <= Monitoring!LastPage(Counted(view)) /\ Monitoring!lastPage = Monitoring!LastPage(Counted(view))
      BY <2>6, MonitoringAtPage
    <3> QED BY <2>1, <2>2, <2>6, <3>1
  <2> QED BY <1>1, <2>4, <2>5, <2>7, <2>8
<1> QED BY <1>3, <1>4, <1>5, <1>6

(* The override dialog.                                                     *)
LEMMA MonitoringOverriding ==
  ASSUME MonitoringInv, page.doing = "overriding", Monitoring!Overriding
  PROVE  MonitoringInv' /\ Monitoring!AsksForPages
<1>0. /\ page \in Monitoring!Page /\ page.view \in Monitoring!View /\ flight \subseteq Monitoring!Call
      /\ Monitoring!monitor \in Monitoring!Monitored /\ page.form \in Monitoring!OverrideForm
      /\ page.view.page = 1 /\ \A c \in flight : c.view.page = 1
  BY MonitoringData DEF MonitoringInv, MonitoringMode, Monitoring!Page
<1>1. ASSUME page' \in Monitoring!Page, page'.lists = page.lists, page'.view = page.view, page'.live = page.live,
             page'.doing = page.doing, UNCHANGED <<server, flight>>
      PROVE  MonitoringInv' /\ Monitoring!AsksForPages
  <2>1. MonitoringMode'
    BY <1>1 DEF MonitoringInv, MonitoringMode
  <2> QED BY <1>0, <1>1, <2>1, MonitoringStays
<1>2. ASSUME NEW call \in Monitoring!Call, call.view = page.view, Monitoring!Send(call), page' \in Monitoring!Page,
             page'.lists = page.lists, page'.view = page.view, page'.live = page.live, page'.doing = page.doing
      PROVE  MonitoringInv' /\ Monitoring!AsksForPages
  <2>1. flight' = flight \cup {call} /\ UNCHANGED server
    BY <1>2 DEF Monitoring!Send
  <2>2. flight' \subseteq Monitoring!Call /\ MonitoringMode'
    BY <1>0, <1>2, <2>1 DEF MonitoringMode
  <2> QED BY <1>2, <2>1, <2>2, MonitoringStays
<1>3. CASE Monitoring!SetPanel("overrides") \/ Monitoring!OpenOverride
  <2>1. /\ page' = [page EXCEPT !.panel = "overrides"] \/ page' = [page EXCEPT !.isDialogOpen = TRUE]
        /\ UNCHANGED <<server, flight>>
    BY <1>3 DEF Monitoring!SetPanel, Monitoring!OpenOverride, Monitoring!Only
  <2>2. page' \in Monitoring!Page /\ page'.lists = page.lists /\ page'.view = page.view /\ page'.live = page.live /\ page'.doing = page.doing
    BY <1>0, <2>1, Zenon DEF Monitoring!Page
  <2> QED BY <1>1, <2>1, <2>2
<1>4. Monitoring!NoOverride \in Monitoring!OverrideForm
  BY DEF Monitoring!NoOverride, Monitoring!OverrideForm
<1>5. CASE Monitoring!CloseOverride
  <2>1. PICK form \in Monitoring!OverrideForm : page' = [page EXCEPT !.isDialogOpen = FALSE, !.form = form] /\ UNCHANGED <<server, flight>>
    BY <1>0, <1>4, <1>5, Zenon DEF Monitoring!CloseOverride, Monitoring!Only
  <2>2. page' \in Monitoring!Page /\ page'.lists = page.lists /\ page'.view = page.view /\ page'.live = page.live /\ page'.doing = page.doing
    BY <1>0, <2>1 DEF Monitoring!Page
  <2> QED BY <1>1, <2>1, <2>2
<1>6. ASSUME NEW flag \in Monitoring!OverrideOptions, NEW is_enabled \in BOOLEAN,
             Monitoring!ChangeOverride([flag |-> flag, is_enabled |-> is_enabled, reason |-> "why"])
      PROVE  MonitoringInv' /\ Monitoring!AsksForPages
  <2> DEFINE form == [flag |-> flag, is_enabled |-> is_enabled, reason |-> "why"]
  <2>1. flag \in {f.id : f \in MonitoredFlags} \cup {None}
    BY <1>0 DEF Monitoring!OverrideOptions, Monitoring!Monitored
  <2>2. form \in Monitoring!OverrideForm
    BY <2>1 DEF Monitoring!OverrideForm
  <2>3. page' = [page EXCEPT !.form = form] /\ UNCHANGED <<server, flight>>
    BY <1>6 DEF Monitoring!ChangeOverride, Monitoring!Only
  <2> HIDE DEF form
  <2>4. page' \in Monitoring!Page /\ page'.lists = page.lists /\ page'.view = page.view /\ page'.live = page.live /\ page'.doing = page.doing
    BY <1>0, <2>2, <2>3 DEF Monitoring!Page
  <2> QED BY <1>1, <2>3, <2>4
<1>7. CASE Monitoring!handleCreateOverride
  <2> DEFINE call == [op |-> "create", state |-> "sent", view |-> page.view, form |-> page.form]
  <2>1. Monitoring!Send(call) /\ page' = [page EXCEPT !.saving = TRUE] /\ page.form.flag # None /\ page.form.reason # ""
    BY <1>7, Zenon DEF Monitoring!handleCreateOverride, Monitoring!RecordEnabled
  <2>2. page.form \in [flag : {f.id : f \in MonitoredFlags}, is_enabled : BOOLEAN, reason : {"why"}]
    BY <1>0, <2>1, Zenon DEF Monitoring!OverrideForm
  <2>3. call \in Monitoring!Call /\ call.view = page.view
    BY <1>0, <2>2 DEF Monitoring!Call, Monitoring!CallStates
  <2> HIDE DEF call
  <2>4. page' \in Monitoring!Page /\ page'.lists = page.lists /\ page'.view = page.view /\ page'.live = page.live /\ page'.doing = page.doing
    BY <1>0, <2>1, Zenon DEF Monitoring!Page
  <2> QED BY <1>2, <2>1, <2>3, <2>4, Zenon
<1>8. ASSUME NEW o \in Monitoring!monitor.overrides, Monitoring!handleLiftOverride(o) PROVE MonitoringInv' /\ Monitoring!AsksForPages
  <2> DEFINE call == [op |-> "lift", state |-> "sent", view |-> page.view, override |-> o.id]
  <2>1. Monitoring!Send(call) /\ page' = [page EXCEPT !.lifting = o.id]
    BY <1>8 DEF Monitoring!handleLiftOverride
  <2>2. o.id \in OverrideIds
    BY <1>0 DEF Monitoring!Monitored, Monitoring!FlagOverride
  <2>3. call \in Monitoring!Call /\ call.view = page.view
    BY <1>0, <2>2 DEF Monitoring!Call, Monitoring!CallStates
  <2> HIDE DEF call
  <2>4. page' \in Monitoring!Page /\ page'.lists = page.lists /\ page'.view = page.view /\ page'.live = page.live /\ page'.doing = page.doing
    BY <1>0, <2>1, <2>2 DEF Monitoring!Page
  <2> QED BY <1>2, <2>1, <2>3, <2>4
<1> QED BY <1>3, <1>5, <1>6, <1>7, <1>8 DEF Monitoring!Overriding

(* The panels.                                                              *)
LEMMA MonitoringPanels ==
  ASSUME MonitoringInv, NEW panel \in {"sdks", "evaluations"}, Monitoring!SetPanel(panel)
  PROVE  MonitoringInv' /\ Monitoring!AsksForPages
<1>0. page \in Monitoring!Page /\ flight \subseteq Monitoring!Call
  BY MonitoringData DEF MonitoringInv
<1>1. page' = [page EXCEPT !.panel = panel] /\ UNCHANGED <<server, flight>>
  BY DEF Monitoring!SetPanel, Monitoring!Only
<1>2. page' \in Monitoring!Page /\ page'.lists = page.lists /\ page'.view = page.view /\ page'.live = page.live /\ page'.doing = page.doing
  BY <1>0, <1>1 DEF Monitoring!Page
<1>3. MonitoringMode'
  BY <1>1, <1>2 DEF MonitoringInv, MonitoringMode
<1> QED BY <1>0, <1>1, <1>2, <1>3, MonitoringStays

(* A flag that was chosen has an environment.                               *)
LEMMA MonitoringEnvironment ==
  ASSUME NEW flag \in {f.id : f \in MonitoredFlags}
  PROVE  Monitoring!EnvironmentOf(flag) \in Monitoring!EnvironmentsIn(None)
<1> DEFINE f == CHOOSE f \in MonitoredFlags : f.id = flag
<1>1. f \in MonitoredFlags
  OBVIOUS
<1> HIDE DEF f
<1>2. f.project \in DOMAIN EnvironmentsOf /\ EnvironmentsOf[f.project] # {}
  BY <1>1, MonitoringAssumption
<1>3. Monitoring!EnvironmentsIn(f.project) # {} /\ Monitoring!EnvironmentsIn(f.project) \subseteq Monitoring!EnvironmentsIn(None)
  BY <1>2 DEF Monitoring!EnvironmentsIn
<1>4. Monitoring!EnvironmentOf(flag) = CHOOSE e \in Monitoring!EnvironmentsIn(f.project) : TRUE
  BY DEF Monitoring!EnvironmentOf, f
<1> QED BY <1>3, <1>4

(* The server carries a call out, or refuses it.                            *)
LEMMA MonitoringHandled ==
  ASSUME MonitoringInv, NEW c \in flight, Monitoring!HandleCreate(c) \/ Monitoring!HandleLift(c)
  PROVE  MonitoringInv' /\ Monitoring!AsksForPages
<1>0. /\ page \in Monitoring!Page /\ server \in Monitoring!Server /\ flight \subseteq Monitoring!Call /\ c \in Monitoring!Call
      /\ UNCHANGED page
  BY MonitoringData DEF MonitoringInv, Monitoring!HandleCreate, Monitoring!HandleLift
<1>1. ASSUME NEW overrides \in SUBSET Monitoring!FlagOverride, Monitoring!Done(c, [server EXCEPT !.overrides = overrides])
      PROVE  MonitoringInv' /\ Monitoring!AsksForPages
  <2>1. server' \in Monitoring!Server
    <3>1. server = [overrides |-> server.overrides, writes |-> server.writes] /\ server.writes \in Nat
      BY <1>0 DEF Monitoring!Server
    <3>2. PICK w \in Nat : w = server.writes + 1
      BY <3>1
    <3>3. server' = [overrides |-> overrides, writes |-> w]
      BY <1>1, <3>1, <3>2 DEF Monitoring!Done
    <3> QED BY <3>3 DEF Monitoring!Server
  <2> DEFINE d == [c EXCEPT !.state = "done"]
  <2>2. d \in Monitoring!Call /\ d.state = "done" /\ d.view = c.view
    BY <1>0 DEF Monitoring!Call, Monitoring!CallStates
  <2>3. flight' = (flight \ {c}) \cup {d}
    BY <1>1 DEF Monitoring!Done, Monitoring!Become
  <2> HIDE DEF d
  <2>4. flight' \subseteq Monitoring!Call /\ \E e \in flight' : e.state = "done"
    BY <1>0, <2>2, <2>3
  <2>5. MonitoringMode'
    BY <1>0, <2>2, <2>3 DEF MonitoringInv, MonitoringMode
  <2>6. MonitoringPages'
    BY <1>0 DEF MonitoringInv, MonitoringPages, AtPage
  <2>7. MonitoringShows("environments")' = MonitoringShows("environments")
    BY DEF MonitoringShows, Monitoring!Answers
  <2>8. \A name \in MonitoringNames : MonitoringShown(name)'
    BY <1>0, <2>4, <2>7 DEF MonitoringInv, MonitoringShown, MonitoringNames
  <2>9. Monitoring!AsksForPages
    BY <1>0 DEF Monitoring!AsksForPages
  <2> QED BY <1>0, <2>1, <2>4, <2>5, <2>6, <2>8, <2>9 DEF MonitoringInv, Monitoring!TypeOK, MonitoringNames
<1>2. \A o \in server.overrides : o \in Monitoring!FlagOverride /\ [o EXCEPT !.is_active = FALSE] \in Monitoring!FlagOverride
  BY <1>0 DEF Monitoring!Server, Monitoring!FlagOverride
<1>3. CASE Monitoring!HandleCreate(c)
  <2> DEFINE kept == {IF o.flag = c.form.flag THEN [o EXCEPT !.is_active = FALSE] ELSE o : o \in server.overrides}
  <2>1. PICK id \in OverrideIds :
          Monitoring!Done(c, [server EXCEPT !.overrides = kept \cup
            {[id |-> id, flag |-> c.form.flag, environment |-> Monitoring!EnvironmentOf(c.form.flag),
              is_enabled |-> c.form.is_enabled, is_active |-> TRUE]}])
    BY <1>0, <1>3 DEF Monitoring!HandleCreate, Monitoring!Server
  <2>2. kept \subseteq Monitoring!FlagOverride
    BY <1>2
  <2> HIDE DEF kept
  <2>3. c.form.flag \in {f.id : f \in MonitoredFlags} /\ c.form.is_enabled \in BOOLEAN
    BY <1>0, <1>3, MonitoringOps DEF Monitoring!HandleCreate
  <2>4. [id |-> id, flag |-> c.form.flag, environment |-> Monitoring!EnvironmentOf(c.form.flag),
         is_enabled |-> c.form.is_enabled, is_active |-> TRUE] \in Monitoring!FlagOverride
    BY <2>3, MonitoringEnvironment DEF Monitoring!FlagOverride
  <2>5. kept \cup {[id |-> id, flag |-> c.form.flag, environment |-> Monitoring!EnvironmentOf(c.form.flag),
                    is_enabled |-> c.form.is_enabled, is_active |-> TRUE]} \in SUBSET Monitoring!FlagOverride
    BY <2>2, <2>4
  <2> QED BY <1>1, <2>1, <2>5
<1>4. CASE Monitoring!HandleLift(c)
  <2> DEFINE kept == {IF o.id = c.override THEN [o EXCEPT !.is_active = FALSE] ELSE o : o \in server.overrides}
  <2>1. Monitoring!Done(c, [server EXCEPT !.overrides = kept])
    BY <1>0, <1>4 DEF Monitoring!HandleLift, Monitoring!Server
  <2>2. kept \in SUBSET Monitoring!FlagOverride
    BY <1>2
  <2> HIDE DEF kept
  <2> QED BY <1>1, <2>1, <2>2
<1> QED BY <1>3, <1>4

(* A handler loads for the view of its click, and ends.                     *)
LEMMA MonitoringReloaded ==
  ASSUME MonitoringInv, NEW c \in flight, NEW p \in Monitoring!Page, NEW awaits \in OverrideIds \cup {None, "create"},
         p.lists = page.lists, p.view = page.view, p.live = page.live, p.doing = page.doing,
         Monitoring!Reloaded(p, c.view, awaits), flight' = flight \ {c}
  PROVE  MonitoringInv' /\ Monitoring!AsksForPages
<1> DEFINE of == [c.view EXCEPT !.awaits = awaits]
           at == [page.view EXCEPT !.awaits = awaits]
           lists == Monitoring!Refetch(page.lists, page.live, of, at, Monitoring!Answers(of), {"monitor"})
           loaded == [p EXCEPT !.lists = lists]
<1>0. /\ page \in Monitoring!Page /\ page.view \in Monitoring!View /\ flight \subseteq Monitoring!Call /\ c.view \in Monitoring!View
      /\ page.doing # "reading" /\ page.view.page = 1 /\ \A d \in flight : d.view.page = 1
  BY MonitoringData, MonitoringOps DEF MonitoringInv, MonitoringMode
<1>1. /\ of \in Monitoring!View /\ Monitoring!Answers(of) = Monitoring!Answers(c.view) /\ at \in Monitoring!View
      /\ Counted(at) = Counted(page.view)
      /\ \A name \in MonitoringNames : MonitoringShows(name)[at] = MonitoringShows(name)[page.view]
  BY <1>0, MonitoringAwaits
<1>2. /\ Room(page.lists, page.live) /\ UNCHANGED server
      /\ page' = IF page.live = "monitor" THEN loaded ELSE Monitoring!Ended(loaded, awaits)
  BY <1>1, MonitoringSame DEF Monitoring!Reloaded
<1>3. page.view.page <= Monitoring!LastPage(Counted(page.view))
  BY <1>0, FirstPage, MonitoringCounts
<1> HIDE DEF of, at
<1>4. {"monitor"} \in SUBSET MonitoringNames /\ "monitor" \in {"monitor"}
  BY DEF MonitoringNames
<1>5. /\ MonitoringLists(lists) /\ \A name \in MonitoringNames : Current(lists[name], MonitoringShows(name), page.view)
      /\ lists["monitor"].loads \in Seq(Answered) /\ AtPage(lists["monitor"], page.view)
      /\ page.live = "environments" => lists["monitor"].loads = <<>>
  BY <1>0, <1>1, <1>2, <1>3, <1>4, MonitoringReload
<1> HIDE DEF lists
<1>6. /\ loaded \in Monitoring!Page /\ loaded.lists = lists /\ loaded.view = page.view /\ loaded.live = page.live
      /\ loaded.doing = page.doing
  <2>1. lists \in [monitor : Monitoring!ListOf(Monitoring!View, Monitoring!Monitored),
                   environments : Monitoring!ListOf(Monitoring!View, SUBSET Monitoring!EnvironmentsIn(None))]
    BY <1>5, MonitoringListsTyped
  <2> QED BY <2>1 DEF Monitoring!Page
<1> HIDE DEF loaded
<1>7. /\ page' \in Monitoring!Page /\ page'.lists = lists /\ page'.view = page.view /\ page'.live = page.live
      /\ page'.doing = page.doing
  BY <1>2, <1>6, MonitoringEnded
<1>8. MonitoringMode' /\ flight' \subseteq Monitoring!Call
  BY <1>0, <1>7 DEF MonitoringMode
<1>9. MonitoringPages'
  BY <1>0, <1>5, <1>7 DEF MonitoringPages, AtPage
<1>10. Monitoring!AsksForPages
  BY <1>7 DEF Monitoring!AsksForPages
<1> QED BY <1>2, <1>5, <1>7, <1>8, <1>9, <1>10, MonitoringFrame

(* The page takes an answer in.                                             *)
LEMMA MonitoringReturned ==
  ASSUME MonitoringInv, NEW c \in flight, Monitoring!Return(c)
  PROVE  MonitoringInv' /\ Monitoring!AsksForPages
<1>0. /\ page \in Monitoring!Page /\ flight \subseteq Monitoring!Call /\ c \in Monitoring!Call /\ MonitoringLists(page.lists)
      /\ page.lists["monitor"] \in ListOf(Monitoring!View, Monitoring!Monitored)
  BY MonitoringData DEF MonitoringInv, MonitoringNames, MonitoringRows
<1>1. CASE Monitoring!Created(c)
  <2> DEFINE p == [page EXCEPT !.isDialogOpen = FALSE, !.form = Monitoring!NoOverride]
  <2>1. p \in Monitoring!Page /\ p.lists = page.lists /\ p.view = page.view /\ p.live = page.live /\ p.doing = page.doing
    BY <1>0, Zenon DEF Monitoring!Page, Monitoring!NoOverride, Monitoring!OverrideForm
  <2>2. Monitoring!Reloaded(p, c.view, "create") /\ flight' = flight \ {c}
    BY <1>1 DEF Monitoring!Created
  <2> HIDE DEF p
  <2> QED BY <2>1, <2>2, MonitoringReloaded
<1>2. CASE Monitoring!Lifted(c)
  <2>1. Monitoring!Reloaded(page, c.view, c.override) /\ flight' = flight \ {c} /\ c.override \in OverrideIds
    BY <1>0, <1>2, MonitoringOps, Zenon DEF Monitoring!Lifted
  <2> QED BY <1>0, <2>1, MonitoringReloaded
<1>3. CASE Monitoring!Failed(c)
  <2> DEFINE lists == IF c.state = "done" THEN ExcuseAll(page.lists, {"monitor"}) ELSE page.lists
             p == [page EXCEPT !.lists = lists]
             awaits == IF c.op = "create" THEN "create" ELSE c.override
  <2>1. flight' = flight \ {c} /\ UNCHANGED server /\ page' = Monitoring!Ended(p, awaits)
    BY <1>3, MonitoringSame DEF Monitoring!Failed
  <2>2. MonitoringLists(lists)
    BY <1>0, ExcuseAllTyped DEF MonitoringLists
  <2>3. c.state = "done" => lists["monitor"] = Excuse(page.lists["monitor"])
    BY <1>0 DEF ExcuseAll, MonitoringLists, ListsIn, MonitoringNames
  <2>4. lists["environments"] = page.lists["environments"]
    BY <1>0 DEF ExcuseAll, MonitoringLists, ListsIn, MonitoringNames
  <2>5. c.state # "done" => lists = page.lists
    OBVIOUS
  <2> HIDE DEF lists, awaits
  <2>6. p \in Monitoring!Page /\ p.lists = lists /\ p.view = page.view /\ p.live = page.live /\ p.doing = page.doing
    <3>1. lists \in [monitor : Monitoring!ListOf(Monitoring!View, Monitoring!Monitored),
                     environments : Monitoring!ListOf(Monitoring!View, SUBSET Monitoring!EnvironmentsIn(None))]
      BY <2>2, MonitoringListsTyped
    <3> QED BY <1>0, <3>1 DEF Monitoring!Page
  <2> HIDE DEF p
  <2>7. /\ page' \in Monitoring!Page /\ page'.lists = lists /\ page'.view = page.view /\ page'.live = page.live
        /\ page'.doing = page.doing
    BY <2>1, <2>6, MonitoringEnded
  <2>8. MonitoringMode' /\ flight' \subseteq Monitoring!Call
    BY <1>0, <2>1, <2>7 DEF MonitoringInv, MonitoringMode
  <2>9. CASE c.state # "done"
    BY <2>1, <2>5, <2>7, <2>8, <2>9, MonitoringStays
  <2>10. CASE c.state = "done"
    <3>1. /\ lists["monitor"].loads = Overtaken(page.lists["monitor"].loads) /\ lists["monitor"].excused
      BY <1>0, <2>3, <2>10 DEF Excuse, ListOf
    <3>2. page.lists["monitor"].loads \in Seq(Answered)
      BY DEF MonitoringInv, MonitoringPages
    <3>3. Overtaken(page.lists["monitor"].loads) \in Seq(Answered)
      BY <3>2, AnsweredKept, LoadsKept
    <3>4. page.live = "environments" => lists["monitor"].loads = <<>>
      BY <3>1 DEF MonitoringInv, MonitoringPages, Overtaken
    <3>5. page.doing # "reading"
      BY DEF MonitoringInv, MonitoringMode
    <3>6. MonitoringPages'
      BY <2>7, <3>1, <3>3, <3>4, <3>5 DEF MonitoringPages, AtPage
    <3>7. Current(lists["monitor"], MonitoringShows("monitor"), page.view)
      BY <1>0, <2>3, <2>10, ExcuseCurrent
    <3>8. Current(lists["environments"], MonitoringShows("environments"), page.view)
      BY <2>4 DEF MonitoringInv, MonitoringShown, MonitoringNames
    <3>9. Monitoring!AsksForPages
      BY <2>7, Zenon DEF Monitoring!AsksForPages
    <3> QED BY <2>1, <2>7, <2>8, <3>6, <3>7, <3>8, <3>9, MonitoringFrame DEF MonitoringNames
  <2> QED BY <2>9, <2>10
<1> QED BY <1>1, <1>2, <1>3 DEF Monitoring!Return

(* A load is read, lands or fails.                                          *)
LEMMA MonitoringLoads ==
  ASSUME MonitoringInv, NEW i \in DOMAIN Monitoring!LoadsOf(page.lists, page.live),
         Monitoring!ReadLoad(i) \/ Monitoring!LandLoad(i) \/ Monitoring!FailLoad(i)
  PROVE  MonitoringInv' /\ Monitoring!AsksForPages
<1> DEFINE live == page.live
           list == page.lists[live]
           Rows == MonitoringRows[live]
           of == list.loads[i].of
<1>0. /\ page \in Monitoring!Page /\ MonitoringLists(page.lists) /\ page.view \in Monitoring!View /\ live \in MonitoringNames
      /\ flight \subseteq Monitoring!Call /\ UNCHANGED <<server, flight>>
  BY MonitoringData DEF MonitoringInv, Monitoring!ReadLoad, Monitoring!LandLoad, Monitoring!FailLoad,
     Monitoring!Only
<1>1. /\ list \in ListOf(Monitoring!View, Rows) /\ i \in DOMAIN list.loads /\ list.loads[i] \in Load(Monitoring!View, Rows)
      /\ list.rows \in Rows
  <2>1. /\ list \in ListOf(Monitoring!View, Rows) /\ i \in DOMAIN list.loads /\ list.loads[i] \in Load(Monitoring!View, Rows)
    BY <1>0, LiveLoads, MonitoringSame DEF MonitoringLists
  <2> QED BY <2>1 DEF ListOf
<1>2. of \in Monitoring!View
  BY <1>1 DEF Load
<1>3. live = "monitor" => list.loads \in Seq(Answered) /\ list.loads[i] \in Answered /\ i \in 1..Len(list.loads)
  <2>1. live = "monitor" => list.loads \in Seq(Answered)
    BY DEF MonitoringInv, MonitoringPages
  <2> QED BY <1>1, <2>1
<1>4. Current(list, MonitoringShows(live), page.view) \/ (live = "monitor" /\ \E c \in flight : c.state = "done")
  BY <1>0, Zenon DEF MonitoringInv, MonitoringShown
<1>5. of.awaits \in OverrideIds \cup {None, "create"}
  BY <1>2 DEF Monitoring!View
<1> HIDE DEF list, Rows, of
<1>6. ASSUME NEW new \in ListOf(Monitoring!View, Rows), NEW p,
             p = [page EXCEPT !.lists = [page.lists EXCEPT ![live] = new]], page' = p \/ page' = Monitoring!Ended(p, of.awaits),
             Current(list, MonitoringShows(live), page.view) => Current(new, MonitoringShows(live), page.view),
             live = "monitor" => new.loads \in Seq(Answered) /\ AtPage(new, page.view)
      PROVE  MonitoringInv' /\ Monitoring!AsksForPages
  <2> DEFINE lists == [page.lists EXCEPT ![live] = new]
  <2>1. MonitoringLists(lists)
    BY <1>0, <1>6, OneListTyped DEF MonitoringLists, Rows
  <2>2. lists[live] = new /\ \A n \in MonitoringNames \ {live} : lists[n] = page.lists[n]
    BY <1>0 DEF MonitoringLists, ListsIn
  <2> HIDE DEF lists
  <2>3. p \in Monitoring!Page /\ p.lists = lists /\ p.view = page.view /\ p.live = page.live /\ p.doing = page.doing
    <3>1. lists \in [monitor : Monitoring!ListOf(Monitoring!View, Monitoring!Monitored),
                     environments : Monitoring!ListOf(Monitoring!View, SUBSET Monitoring!EnvironmentsIn(None))]
      BY <2>1, MonitoringListsTyped
    <3>2. p = [page EXCEPT !.lists = lists]
      BY <1>6 DEF lists
    <3> QED BY <1>0, <3>1, <3>2 DEF Monitoring!Page
  <2>4. /\ page' \in Monitoring!Page /\ page'.lists = lists /\ page'.view = page.view /\ page'.live = page.live
        /\ page'.doing = page.doing
    <3>1. CASE page' = p
      BY <2>3, <3>1
    <3>2. CASE page' = Monitoring!Ended(p, of.awaits)
      BY <2>3, <3>2, MonitoringEnded
    <3> QED BY <1>6, <3>1, <3>2
  <2>5. MonitoringMode'
    BY <1>0, <2>4 DEF MonitoringInv, MonitoringMode
  <2>6. MonitoringPages'
    <3>1. CASE live = "monitor"
      BY <1>6, <2>2, <2>4, <3>1 DEF MonitoringPages, AtPage
    <3>2. CASE live # "monitor"
      <4>1. lists["monitor"] = page.lists["monitor"]
        BY <2>2, <3>2 DEF MonitoringNames
      <4> QED BY <2>4, <4>1 DEF MonitoringInv, MonitoringPages, AtPage
    <3> QED BY <3>1, <3>2
  <2>7. ASSUME NEW name \in MonitoringNames
        PROVE  Current(page'.lists[name], MonitoringShows(name), page'.view) \/ (name = "monitor" /\ \E c \in flight' : c.state = "done")
    BY <1>0, <1>4, <1>6, <2>2, <2>4 DEF MonitoringInv, MonitoringShown
  <2>8. Monitoring!AsksForPages
    BY <2>4 DEF Monitoring!AsksForPages
  <2> QED BY <1>0, <2>4, <2>5, <2>6, <2>7, <2>8, MonitoringFrame
<1>7. CASE Monitoring!ReadLoad(i)
  <2> DEFINE rows == MonitoringShows(live)[of]
             new == Read(list, i, rows)
             p == [page EXCEPT !.lists = [page.lists EXCEPT ![live] = new]]
             load == [list.loads[i] EXCEPT !.rows = rows]
  <2>1. rows = Monitoring!Answers(of)[live] /\ rows \in Rows
    BY <1>0, <1>2, MonitoringData DEF MonitoringShows, MonitoringInv, Rows
  <2>2. new \in ListOf(Monitoring!View, Rows)
    BY <1>1, <2>1, ReadTyped
  <2>3. Current(list, MonitoringShows(live), page.view) => Current(new, MonitoringShows(live), page.view)
    BY <1>1, ReadCurrent, ZenonT(40) DEF of
  <2>4. page' = p /\ (live = "monitor" => of.page <= Monitoring!LastPage(Counted(of)))
    BY <1>7, <2>1, MonitoringSame DEF Monitoring!ReadLoad, Monitoring!Only, list, of, Counted
  <2>5. live = "monitor" => load \in Answered
    <3> SUFFICES ASSUME live = "monitor" PROVE load \in Answered
      OBVIOUS
    <3>1. rows.count = Counted(of)
      BY <2>1 DEF Monitoring!Answers, Monitoring!Stored, Counted
    <3>2. list.loads[i] \in Load(Monitoring!View, Monitoring!Monitored) /\ rows \in Monitoring!Monitored
      BY <1>1, <2>1 DEF Rows, MonitoringRows
    <3> HIDE DEF rows
    <3>3. load \in Load(Monitoring!View, Monitoring!Monitored) /\ load.rows = rows /\ load.of = of
      BY <3>2 DEF Load, of
    <3> HIDE DEF load
    <3> QED BY <2>4, <3>1, <3>3 DEF Answered
  <2>6. new.loads = [list.loads EXCEPT ![i] = load]
    BY <1>1 DEF Read, ListOf
  <2> HIDE DEF new, load
  <2>7. live = "monitor" => new.loads \in Seq(Answered) /\ new.loads # <<>>
    BY <1>3, <2>5, <2>6
  <2> QED BY <1>6, <2>2, <2>3, <2>4, <2>7 DEF AtPage
<1>8. CASE Monitoring!LandLoad(i)
  <2> DEFINE asked == [page.view EXCEPT !.awaits = of.awaits]
             new == Land(list, i, asked)
             p == [page EXCEPT !.lists = [page.lists EXCEPT ![live] = new]]
  <2>1. new \in ListOf(Monitoring!View, Rows) /\ ~Unanswered(list, i)
    BY <1>1, <1>8, LandTyped, MonitoringSame DEF Monitoring!LandLoad, list
  <2>2. /\ MonitoringShows(live)[asked] = MonitoringShows(live)[page.view] /\ Counted(asked) = Counted(page.view)
        /\ asked.page = page.view.page
    BY <1>0, <1>5, MonitoringAwaits
  <2>3. Monitoring!Land(list, i, asked) = new
    BY MonitoringSame
  <2>4. page' = Monitoring!Ended(p, of.awaits)
    BY <1>8, <2>3, Zenon DEF Monitoring!LandLoad, Monitoring!Only, list, of
  <2> HIDE DEF asked
  <2>5. Current(list, MonitoringShows(live), page.view) => Current(new, MonitoringShows(live), page.view)
    BY <1>1, <2>1, <2>2, LandCurrent
  <2>6. new.loads = Overtaken(SubSeq(list.loads, 1, i - 1)) \o SubSeq(list.loads, i + 1, Len(list.loads))
        /\ new.excused = (list.loads[i].overtaken \/ of # asked) /\ new.rows = list.loads[i].rows
    BY Zenon DEF Land, Settle, of
  <2> HIDE DEF new
  <2>7. live = "monitor" => new.loads \in Seq(Answered)
    BY <1>1, <1>3, <2>6, AnsweredKept, LoadsKept
  <2>8. live = "monitor" => AtPage(new, page.view)
    <3> SUFFICES ASSUME live = "monitor", ~new.excused
                 PROVE  new.rows.count = Counted(page.view) /\ page.view.page <= Monitoring!LastPage(Counted(page.view))
      BY DEF AtPage
    <3>1. of = asked
      BY <2>6
    <3>2. list.loads[i].rows # Unread /\ list.loads[i] \in Answered
      BY <1>3, <2>1 DEF Unanswered
    <3> QED BY <2>2, <2>6, <3>1, <3>2 DEF Answered, of
  <2> HIDE DEF p
  <2> QED BY <1>6, <2>1, <2>4, <2>5, <2>7, <2>8 DEF p
<1>9. CASE Monitoring!FailLoad(i)
  <2> DEFINE new == FailTo(list, i, list.rows)
             p == [page EXCEPT !.lists = [page.lists EXCEPT ![live] = new]]
  <2>1. new \in ListOf(Monitoring!View, Rows)
    BY <1>1, FailTyped
  <2>2. Current(list, MonitoringShows(live), page.view) => Current(new, MonitoringShows(live), page.view)
    BY <1>1, FailCurrent
  <2>3. Monitoring!FailTo(list, i, list.rows) = new
    BY MonitoringSame
  <2>4. page' = Monitoring!Ended(p, of.awaits)
    BY <1>9, <2>3 DEF Monitoring!FailLoad, Monitoring!Only, list, of
  <2>5. new.loads = Overtaken(SubSeq(list.loads, 1, i - 1)) \o SubSeq(list.loads, i + 1, Len(list.loads)) /\ new.excused
    BY DEF FailTo, Settle
  <2> HIDE DEF new
  <2>6. live = "monitor" => new.loads \in Seq(Answered)
    BY <1>1, <1>3, <2>5, AnsweredKept, LoadsKept
  <2> QED BY <1>6, <2>1, <2>2, <2>4, <2>5, <2>6 DEF AtPage
<1> QED BY <1>7, <1>8, <1>9

(* No step breaks the invariant, and none asks for a page past the last.    *)
LEMMA MonitoringStep ==
  ASSUME MonitoringInv, Monitoring!Next \/ UNCHANGED vars
  PROVE  MonitoringInv' /\ Monitoring!AsksForPages
<1>1. CASE UNCHANGED vars
  <2>1. UNCHANGED <<page, server, flight>>
    BY <1>1 DEF vars
  <2>2. MonitoringMode' /\ page' \in Monitoring!Page /\ flight' \subseteq Monitoring!Call
    BY <2>1, MonitoringData DEF MonitoringInv, MonitoringMode
  <2> QED BY <2>1, <2>2, MonitoringStays
<1>2. CASE page.doing = "reading" /\ Monitoring!Reading
  BY <1>2, MonitoringRead, MonitoringPanels DEF Monitoring!Reading
<1>3. CASE page.doing = "overriding" /\ Monitoring!Overriding
  BY <1>3, MonitoringOverriding
<1>4. CASE \E c \in flight : Monitoring!HandleCreate(c) \/ Monitoring!HandleLift(c) \/ Monitoring!Return(c)
  BY <1>4, MonitoringHandled, MonitoringReturned
<1> QED BY <1>1, <1>2, <1>3, <1>4, MonitoringViews, MonitoringLoads DEF Monitoring!Next

(* At rest the page shows what is stored.                                   *)
LEMMA MonitoringSettle == ASSUME MonitoringInv PROVE Monitoring!Settles
<1> SUFFICES ASSUME flight = {}, NEW name \in MonitoringNames
             PROVE  Monitoring!Settled(page.lists[name], Monitoring!Answers(page.view)[name])
  BY DEF Monitoring!Settles, MonitoringNames
<1>1. Current(page.lists[name], MonitoringShows(name), page.view) /\ page.view \in Monitoring!View
  BY MonitoringData DEF MonitoringInv, MonitoringShown
<1>2. MonitoringShows(name)[page.view] = Monitoring!Answers(page.view)[name]
  BY <1>1 DEF MonitoringShows
<1> QED BY <1>1, <1>2, CurrentSettled, MonitoringSame

-----------------------------------------------------------------------------
(* The header                                                               *)

(* The page's lists are lists.                                              *)
LEMMA HeaderSame ==
  /\ \A Of, Rows : Header!ListOf(Of, Rows) = ListOf(Of, Rows)
  /\ \A rows : Header!List(rows) = List(rows)
  /\ \A lists, live, of, at, stored, names : Header!Refetch(lists, live, of, at, stored, names) = Refetch(lists, live, of, at, stored, names)
  /\ \A lists, names : Header!ExcuseAll(lists, names) = ExcuseAll(lists, names)
  /\ \A lists, live : Header!Room(lists, live) = Room(lists, live)
  /\ \A lists, live : Header!LoadsOf(lists, live) = LoadsOf(lists, live)
  /\ \A list, rows, excused : Header!Replace(list, rows, excused) = Replace(list, rows, excused)
  /\ \A list, rows, excused : Header!Patch(list, rows, excused) = Patch(list, rows, excused)
  /\ \A list, i, rows : Header!Read(list, i, rows) = Read(list, i, rows)
  /\ \A list, i : Header!Unanswered(list, i) = Unanswered(list, i)
  /\ \A list, i, at : Header!Land(list, i, at) = Land(list, i, at)
  /\ \A list, i, rows : Header!FailTo(list, i, rows) = FailTo(list, i, rows)
  /\ \A list, stored : Header!Settled(list, stored) = Settled(list, stored)
  BY DEF Load, Header!Load, ListOf, Header!ListOf, List, Header!List, Overtaken, Header!Overtaken,
         Fetch, Header!Fetch, Replace, Header!Replace, Patch, Header!Patch, Read, Header!Read,
         Unanswered, Header!Unanswered, Settle, Header!Settle, Land, Header!Land, FailTo,
         Header!FailTo, Excuse, Header!Excuse, Refetch, Header!Refetch, ExcuseAll, Header!ExcuseAll,
         LoadsOf, Header!LoadsOf, Room, Header!Room, Settled, Header!Settled

TenancyRows == [organizations : SUBSET Header!OrganizationRow, projects : SUBSET Header!ProjectRow]

HeaderLists(lists) == ListsIn(lists, {"tenancy"}, Header!Causes, [tenancy |-> TenancyRows])

(* A dialog to create a project is open in an organization.                 *)
Placed(p) == p.dialog = "create" /\ p.kind = "project" => p.organization \in OrganizationIds

HeaderTyped == Header!TypeOK /\ Placed(page)

(* The header's one list.                                                   *)
LEMMA HeaderListsTyped ==
  ASSUME NEW lists
  PROVE  HeaderLists(lists) <=> lists \in [tenancy : Header!ListOf(Header!Causes, TenancyRows)]
  BY HeaderSame DEF HeaderLists, ListsIn

(* What is listed first is one of the rows.                                 *)
LEMMA HeaderFirst ==
  ASSUME NEW I \in SUBSET (OrganizationIds \cup ProjectIds), NEW rows, \A row \in rows : row.id \in I
  PROVE  Header!First(rows) \in I \cup {None}
<1>1. CASE rows = {}
  BY <1>1 DEF Header!First
<1>2. CASE rows # {}
  <2> DEFINE T == {Rank[row.id] : row \in rows}
  <2>1. T \in SUBSET Nat /\ T # {}
    BY <1>2, HeaderAssumption
  <2>2. PICK n \in T : \A m \in T : n <= m
    BY <2>1, LeastNumber
  <2>3. \E row \in rows : \A other \in rows : Rank[row.id] <= Rank[other.id]
    BY <2>2
  <2>4. (CHOOSE row \in rows : \A other \in rows : Rank[row.id] <= Rank[other.id]) \in rows
    BY <2>3
  <2> QED BY <1>2, <2>4 DEF Header!First
<1> QED BY <1>1, <1>2

(* What is restored from the storage is a selection.                        *)
LEMMA HeaderRestored ==
  ASSUME NEW rows \in TenancyRows, NEW storage
  PROVE  /\ Header!Restored(rows, storage).organization \in OrganizationIds \cup {None}
         /\ Header!Restored(rows, storage).project \in ProjectIds \cup {None}
<1> DEFINE organization == IF storage.organization \in Header!Ids(rows.organizations) THEN storage.organization
                           ELSE Header!First(rows.organizations)
           within == {p \in rows.projects : p.organization = organization}
           project == IF storage.project \in Header!Ids(within) THEN storage.project ELSE Header!First(within)
<1>1. \A row \in rows.organizations : row.id \in OrganizationIds
  BY DEF TenancyRows, Header!OrganizationRow
<1>2. \A row \in rows.projects : row.id \in ProjectIds
  BY DEF TenancyRows, Header!ProjectRow
<1>3. organization \in OrganizationIds \cup {None}
  <2>1. Header!First(rows.organizations) \in OrganizationIds \cup {None}
    BY <1>1, HeaderFirst
  <2> QED BY <1>1, <2>1 DEF Header!Ids
<1> HIDE DEF organization
<1>4. project \in ProjectIds \cup {None}
  <2>1. \A row \in within : row.id \in ProjectIds
    BY <1>2
  <2> HIDE DEF within
  <2>2. Header!First(within) \in ProjectIds \cup {None}
    BY <2>1, HeaderFirst
  <2> QED BY <2>1, <2>2 DEF Header!Ids
<1> QED BY <1>3, <1>4 DEF Header!Restored, organization

(* What a typed state holds.                                                *)
LEMMA HeaderData ==
  ASSUME Header!TypeOK
  PROVE  /\ page \in Header!Page /\ server \in Header!Server /\ flight \subseteq Header!Call
         /\ HeaderLists(page.lists) /\ Header!tenancy \in TenancyRows
         /\ page.lists["tenancy"] \in ListOf(Header!Causes, TenancyRows)
         /\ Header!Stored \in TenancyRows
         /\ \A kind \in Header!Kinds : \A row \in Header!Current(kind) : row.id \in OrganizationIds \cup ProjectIds /\ row.name \in TenantNames
<1>1. page \in Header!Page /\ server \in Header!Server /\ flight \subseteq Header!Call
  BY DEF Header!TypeOK
<1>2. page.lists \in [tenancy : Header!ListOf(Header!Causes, TenancyRows)]
  BY <1>1 DEF Header!Page, TenancyRows
<1>3. page.lists["tenancy"] \in ListOf(Header!Causes, TenancyRows)
  BY <1>2, HeaderSame
<1>4. Header!tenancy \in TenancyRows
  BY <1>3 DEF Header!tenancy, ListOf
<1>5. Header!Stored \in TenancyRows
  BY <1>1 DEF Header!Stored, Header!Server, TenancyRows
<1>6. \A kind \in Header!Kinds : \A row \in Header!Current(kind) : row.id \in OrganizationIds \cup ProjectIds /\ row.name \in TenantNames
  BY <1>4 DEF Header!Current, Header!CurrentIn, Header!tenancy, TenancyRows, Header!OrganizationRow,
     Header!ProjectRow, Header!Kinds
<1> QED BY <1>1, <1>2, <1>3, <1>4, <1>5, <1>6, HeaderListsTyped

(* What is left of a page when dialogs are taken away.                      *)
LEMMA HeaderRemaining ==
  ASSUME NEW p \in Header!Page
  PROVE  Header!Remaining(p) \in Header!Page /\ Placed(Header!Remaining(p)) /\ Header!Remaining(p).lists = p.lists
<1> DEFINE gone == {kind \in Header!Kinds : ~Header!Mounted(p, "delete", kind)}
           q == [p EXCEPT !.impact = [kind \in Header!Kinds |-> IF kind \in gone THEN None ELSE p.impact[kind]],
                          !.isLoadingImpact = [kind \in Header!Kinds |-> kind \notin gone /\ p.isLoadingImpact[kind]]]
<1>1. q \in Header!Page /\ q.lists = p.lists /\ q.dialog = p.dialog /\ q.kind = p.kind /\ q.organization = p.organization
  BY Zenon DEF Header!Page
<1>2. Header!Remaining(p) = IF Header!Mounted(p, p.dialog, p.kind) THEN q ELSE [q EXCEPT !.dialog = "none", !.typed = None]
  BY DEF Header!Remaining
<1> HIDE DEF q
<1>3. CASE Header!Mounted(p, p.dialog, p.kind)
  <2>1. ASSUME p.dialog = "create", p.kind = "project" PROVE p.organization \in OrganizationIds
    <3>1. PICK row \in p.lists["tenancy"].rows.organizations : row.id = p.organization
      BY <1>3, <2>1 DEF Header!Mounted, Header!CurrentIn
    <3>2. p.lists["tenancy"] \in ListOf(Header!Causes, TenancyRows)
      BY HeaderSame DEF Header!Page, TenancyRows
    <3>3. p.lists["tenancy"].rows \in TenancyRows
      BY <3>2 DEF ListOf
    <3> QED BY <3>1, <3>3 DEF TenancyRows, Header!OrganizationRow
  <2>2. Header!Remaining(p) = q
    BY <1>2, <1>3
  <2> QED BY <1>1, <2>1, <2>2 DEF Placed
<1>4. CASE ~Header!Mounted(p, p.dialog, p.kind)
  <2> DEFINE r == [q EXCEPT !.dialog = "none", !.typed = None]
  <2>1. r \in Header!Page /\ r.dialog = "none" /\ r.lists = p.lists
    BY <1>1, Zenon DEF Header!Page
  <2>2. Header!Remaining(p) = r
    BY <1>2, <1>4
  <2> QED BY <2>1, <2>2 DEF Placed
<1> QED BY <1>3, <1>4

(* Showing a typed page with typed calls keeps the types.                   *)
LEMMA HeaderRenders ==
  ASSUME HeaderTyped, NEW p \in Header!Page, NEW calls \in SUBSET Header!Call, Header!Renders(p, calls)
  PROVE  HeaderTyped'
<1>1. page' \in Header!Page /\ Placed(page')
  BY HeaderRemaining DEF Header!Renders
<1>2. flight' \subseteq Header!Call /\ UNCHANGED server
  BY DEF Header!Renders
<1> QED BY <1>1, <1>2 DEF HeaderTyped, Header!TypeOK, Placed

(* A step that leaves the selection and what is stored.                     *)
LEMMA HeaderStays ==
  ASSUME HeaderTyped, page' \in Header!Page, flight' \subseteq Header!Call, UNCHANGED server, Placed(page')
  PROVE  HeaderTyped'
  BY DEF HeaderTyped, Header!TypeOK, Placed

(* Selecting leaves the list and a page.                                    *)
LEMMA HeaderSelecting ==
  ASSUME NEW p \in Header!Page, NEW organization \in OrganizationIds \cup {None}, NEW project \in ProjectIds \cup {None},
         NEW listed \in SUBSET Header!ProjectRow
  PROVE  /\ Header!persistProject(p, project) \in Header!Page /\ Header!persistProject(p, project).lists = p.lists
         /\ Header!setCurrentOrganization(p, organization, listed) \in Header!Page
         /\ Header!Selecting(p, [organization |-> organization, project |-> project]) \in Header!Page
<1>1. ASSUME NEW q \in Header!Page, NEW id \in ProjectIds \cup {None}
      PROVE  Header!persistProject(q, id) \in Header!Page /\ Header!persistProject(q, id).lists = q.lists
  <2>1. [q.storage EXCEPT !.project = id] \in [organization : OrganizationIds \cup {None}, project : ProjectIds \cup {None}]
    BY DEF Header!Page
  <2>2. Header!persistProject(q, id) = [q EXCEPT !.project = id, !.storage = [q.storage EXCEPT !.project = id]]
    BY DEF Header!persistProject, Header!Page
  <2> QED BY <2>1, <2>2, Zenon DEF Header!Page
<1> DEFINE r == [p EXCEPT !.organization = organization, !.storage = [p.storage EXCEPT !.organization = organization]]
           rows == {q \in listed : q.organization = organization}
<1>2. r \in Header!Page
  <2>1. [p.storage EXCEPT !.organization = organization] \in [organization : OrganizationIds \cup {None}, project : ProjectIds \cup {None}]
    BY DEF Header!Page
  <2> QED BY <2>1 DEF Header!Page
<1>3. Header!First(rows) \in ProjectIds \cup {None}
  <2>1. \A row \in rows : row.id \in ProjectIds
    BY DEF Header!ProjectRow
  <2> QED BY <2>1, HeaderFirst
<1>4. Header!setCurrentOrganization(p, organization, listed) = Header!persistProject(r, Header!First(rows))
  BY DEF Header!setCurrentOrganization, Header!Page
<1>5. Header!Selecting(p, [organization |-> organization, project |-> project]) \in Header!Page
  BY Zenon DEF Header!Selecting, Header!Page
<1> HIDE DEF r, rows
<1> QED BY <1>1, <1>2, <1>3, <1>4, <1>5

(* So does going on with what waited.                                       *)
LEMMA HeaderSelectCreated ==
  ASSUME HeaderTyped, NEW p \in Header!Page, NEW calls \in SUBSET Header!Call, Header!SelectCreated(p, calls)
  PROVE  HeaderTyped'
<1> DEFINE ended == {c \in calls : c.op = "select" /\ Header!Refreshed(p, calls, c.id)}
<1>1. CASE ended = {}
  BY <1>1, HeaderRenders DEF Header!SelectCreated
<1>2. CASE ended # {}
  <2>1. PICK c \in ended : Header!Renders(Header!setCurrentOrganization(p, c.id, c.listed), calls \ ended)
    BY <1>2 DEF Header!SelectCreated
  <2>2. c.id \in OrganizationIds /\ c.listed \in SUBSET Header!ProjectRow
    <3>1. c \in Header!Call /\ c.op = "select"
      OBVIOUS
    <3> QED BY <3>1 DEF Header!Call, Header!Created, Header!Me
  <2>3. Header!setCurrentOrganization(p, c.id, c.listed) \in Header!Page
    BY <2>2, HeaderSelecting
  <2>4. calls \ ended \in SUBSET Header!Call
    OBVIOUS
  <2> QED BY <2>1, <2>3, <2>4, HeaderRenders
<1> QED BY <1>1, <1>2

(* A call is sent.                                                          *)
LEMMA HeaderSend ==
  ASSUME HeaderTyped, NEW call \in Header!Call, Header!Send(call), UNCHANGED page
  PROVE  HeaderTyped'
  BY HeaderData, HeaderStays DEF HeaderTyped, Header!Send

(* What the user does.                                                      *)
LEMMA HeaderSelects ==
  ASSUME HeaderTyped,
         \/ \E organization \in Header!OrganizationSelect : Header!SelectOrganization(organization)
         \/ \E project \in Header!ProjectSelect : Header!SelectProject(project)
  PROVE  HeaderTyped'
<1>0. /\ page \in Header!Page /\ flight \in SUBSET Header!Call /\ Header!tenancy \in TenancyRows
  BY HeaderData DEF HeaderTyped
<1>1. ASSUME NEW organization \in Header!OrganizationSelect, Header!SelectOrganization(organization) PROVE HeaderTyped'
  <2>1. organization \in OrganizationIds
    BY <1>0 DEF Header!OrganizationSelect, Header!Ids, TenancyRows, Header!OrganizationRow
  <2>2. Header!tenancy.projects \in SUBSET Header!ProjectRow
    BY <1>0 DEF TenancyRows
  <2>3. Header!setCurrentOrganization(page, organization, Header!tenancy.projects) \in Header!Page
    BY <1>0, <2>1, <2>2, HeaderSelecting
  <2> QED BY <1>0, <1>1, <2>3, HeaderRenders DEF Header!SelectOrganization
<1>2. ASSUME NEW project \in Header!ProjectSelect, Header!SelectProject(project) PROVE HeaderTyped'
  <2>1. project \in ProjectIds
    BY <1>0 DEF Header!ProjectSelect, Header!projects, Header!Ids, TenancyRows, Header!ProjectRow
  <2>2. Header!persistProject(page, project) \in Header!Page
    <3>1. None \in OrganizationIds \cup {None} /\ {} \in SUBSET Header!ProjectRow
      OBVIOUS
    <3> QED BY <1>0, <2>1, <3>1, HeaderSelecting
  <2> QED BY <1>0, <1>2, <2>2, HeaderRenders DEF Header!SelectProject
<1> QED BY <1>1, <1>2

(* The dialogs of the header.                                               *)
LEMMA HeaderDialogs ==
  ASSUME HeaderTyped, NEW kind \in Header!Kinds,
         \/ Header!CloseDialog \/ \E name \in TenantNames : Header!Type(name)
         \/ Header!OpenCreate(kind) \/ Header!OpenRename(kind) \/ Header!OpenDelete(kind)
  PROVE  HeaderTyped'
<1>0. page \in Header!Page /\ flight \in SUBSET Header!Call /\ Placed(page)
  BY HeaderData DEF HeaderTyped
<1>1. ASSUME NEW dialog \in {"none", "rename", "delete"}, NEW k \in Header!Kinds, NEW typed \in TenantNames \cup {None},
             page' = [page EXCEPT !.dialog = dialog, !.kind = k, !.typed = typed], UNCHANGED <<server, flight>>
      PROVE  HeaderTyped'
  <2>1. page' \in Header!Page /\ page'.dialog = dialog
    BY <1>0, <1>1, Zenon DEF Header!Page
  <2> QED BY <1>0, <1>1, <2>1, HeaderStays DEF Placed
<1>2. CASE Header!CloseDialog
  <2>1. page' = [page EXCEPT !.dialog = "none", !.typed = None] /\ UNCHANGED <<server, flight>>
    BY <1>2 DEF Header!CloseDialog, Header!Only
  <2>2. page' \in Header!Page /\ page'.dialog = "none"
    BY <1>0, <2>1 DEF Header!Page
  <2> QED BY <1>0, <2>1, <2>2, HeaderStays DEF Placed
<1>3. ASSUME NEW name \in TenantNames, Header!Type(name) PROVE HeaderTyped'
  <2>1. page' = [page EXCEPT !.typed = name] /\ UNCHANGED <<server, flight>>
    BY <1>3 DEF Header!Type, Header!Only
  <2>2. page' \in Header!Page /\ Placed(page')
    BY <1>0, <2>1 DEF Header!Page, Placed
  <2> QED BY <1>0, <2>1, <2>2, HeaderStays
<1>4. CASE Header!OpenCreate(kind)
  <2>1. /\ page' = [page EXCEPT !.dialog = "create", !.kind = kind, !.typed = None] /\ UNCHANGED <<server, flight>>
        /\ Header!Mounted(page, "create", kind)
    BY <1>4 DEF Header!OpenCreate, Header!OpenDialog, Header!Only
  <2>2. page' \in Header!Page /\ page'.kind = kind /\ page'.organization = page.organization
    BY <1>0, <2>1, Zenon DEF Header!Page
  <2>3. kind = "project" => page.organization \in OrganizationIds
    BY <2>1, HeaderData DEF HeaderTyped, Header!Mounted, Header!CurrentIn, Header!tenancy, TenancyRows,
       Header!OrganizationRow
  <2> QED BY <1>0, <2>1, <2>2, <2>3, HeaderStays DEF Placed
<1>5. CASE Header!OpenRename(kind)
  <2> DEFINE name == (CHOOSE row \in Header!Current(kind) : TRUE).name
  <2>1. /\ page' = [page EXCEPT !.dialog = "rename", !.kind = kind, !.typed = name] /\ UNCHANGED <<server, flight>>
        /\ Header!Mounted(page, "rename", kind)
    BY <1>5 DEF Header!OpenRename, Header!Only
  <2>2. Header!Current(kind) # {}
    BY <2>1 DEF Header!Mounted, Header!Current
  <2>3. name \in TenantNames
    BY <2>2, HeaderData DEF HeaderTyped
  <2> HIDE DEF name
  <2> QED BY <1>1, <2>1, <2>3, Zenon
<1>6. CASE Header!OpenDelete(kind)
  <2> DEFINE asked == {[op |-> "impact", state |-> "sent", kind |-> kind, id |-> row.id, shared |-> FALSE] : row \in Header!Current(kind)}
             impact == [page.impact EXCEPT ![kind] = None]
             loading == [page.isLoadingImpact EXCEPT ![kind] = TRUE]
  <2>1. /\ page' = [page EXCEPT !.dialog = "delete", !.kind = kind, !.typed = None, !.impact = impact, !.isLoadingImpact = loading]
        /\ UNCHANGED server /\ flight' = flight \cup asked
    BY <1>0, <1>6 DEF Header!OpenDelete, Header!Page
  <2>2. page' \in Header!Page /\ page'.dialog = "delete"
    <3>1. /\ impact \in [Header!Kinds -> [of : OrganizationIds \cup ProjectIds, shared : BOOLEAN] \cup {None}]
          /\ loading \in [Header!Kinds -> BOOLEAN]
      BY <1>0 DEF Header!Page
    <3> HIDE DEF impact, loading
    <3> QED BY <1>0, <2>1, <3>1, Zenon DEF Header!Page
  <2>3. asked \subseteq Header!Call
    <3>1. \A row \in Header!Current(kind) : row.id \in OrganizationIds \cup ProjectIds
      BY HeaderData DEF HeaderTyped
    <3>2. \A id \in OrganizationIds \cup ProjectIds :
            [op |-> "impact", state |-> "sent", kind |-> kind, id |-> id, shared |-> FALSE] \in Header!Call
      BY DEF Header!Call, Header!CallStates
    <3> QED BY <3>1, <3>2
  <2> QED BY <1>0, <2>1, <2>2, <2>3, HeaderStays DEF Placed
<1> QED BY <1>2, <1>3, <1>4, <1>5, <1>6

(* Creating, renaming and deleting.                                         *)
LEMMA HeaderSends ==
  ASSUME HeaderTyped, Header!handleCreate \/ Header!handleSave \/ Header!handleDelete
  PROVE  HeaderTyped'
<1>0. /\ page \in Header!Page /\ flight \in SUBSET Header!Call /\ Placed(page)
      /\ page.kind \in Header!Kinds /\ page.typed \in TenantNames \cup {None} /\ Header!tenancy.projects \in SUBSET Header!ProjectRow
      /\ \A row \in Header!Current(page.kind) : row.id \in OrganizationIds \cup ProjectIds /\ row.name \in TenantNames
  BY HeaderData DEF HeaderTyped, Header!Page, TenancyRows
<1>1. CASE Header!handleCreate
  <2>1. /\ page.dialog = "create" /\ page.typed \in TenantNames /\ UNCHANGED page
    BY <1>0, <1>1 DEF Header!handleCreate, Header!Open
  <2>2. PICK from \in {"header", "overview"} :
          Header!Send([op |-> "create", state |-> "sent", kind |-> page.kind, name |-> page.typed, id |-> None, from |-> from,
                       organization |-> page.organization, listed |-> Header!tenancy.projects])
    BY <1>1 DEF Header!handleCreate
  <2> DEFINE call == [op |-> "create", state |-> "sent", kind |-> page.kind, name |-> page.typed, id |-> None, from |-> from,
                      organization |-> page.organization, listed |-> Header!tenancy.projects]
  <2>3. page.organization \in OrganizationIds \cup {None} /\ (page.kind = "project" => page.organization \in OrganizationIds)
    BY <1>0, <2>1 DEF Header!Page, Placed
  <2>4. /\ page.kind = "organization" => call \in Header!Created({"organization"}, OrganizationIds, OrganizationIds \cup {None})
        /\ page.kind = "project" => call \in Header!Created({"project"}, ProjectIds, OrganizationIds)
    BY <1>0, <2>1, <2>3 DEF Header!Created
  <2>5. call \in Header!Call
    BY <1>0, <2>4 DEF Header!Call, Header!Kinds
  <2> HIDE DEF call
  <2>6. Header!Send(call)
    BY <2>2 DEF call
  <2> QED BY <2>1, <2>5, <2>6, HeaderSend
<1>2. CASE Header!handleSave
  <2>1. PICK row \in Header!Current(page.kind) :
          Header!Send([op |-> "rename", state |-> "sent", kind |-> page.kind, id |-> row.id, name |-> page.typed])
    BY <1>2 DEF Header!handleSave
  <2>2. page.typed \in TenantNames /\ UNCHANGED page
    BY <1>0, <1>2 DEF Header!handleSave
  <2>3. [op |-> "rename", state |-> "sent", kind |-> page.kind, id |-> row.id, name |-> page.typed] \in Header!Call
    BY <1>0, <2>2 DEF Header!Call, Header!CallStates
  <2> QED BY <2>1, <2>2, <2>3, HeaderSend
<1>3. CASE Header!handleDelete
  <2>1. PICK row \in Header!Current(page.kind) :
          /\ page.typed = row.name
          /\ Header!Send([op |-> "delete", state |-> "sent", kind |-> page.kind, id |-> row.id, confirm |-> page.typed])
    BY <1>3 DEF Header!handleDelete
  <2>2. [op |-> "delete", state |-> "sent", kind |-> page.kind, id |-> row.id, confirm |-> page.typed] \in Header!Call
    BY <1>0, <2>1 DEF Header!Call, Header!CallStates
  <2> QED BY <1>3, <2>1, <2>2, HeaderSend DEF Header!handleDelete
<1> QED BY <1>1, <1>2, <1>3

(* What the server makes of a call.                                         *)
LEMMA HeaderBecome ==
  ASSUME flight \in SUBSET Header!Call, NEW c \in flight, c.op \in {"rename", "delete", "impact"}, NEW state \in {"done", "refused"}
  PROVE  Header!Become(flight, c, state) \subseteq Header!Call
<1>1. c \in Header!Call
  OBVIOUS
<1>2. [c EXCEPT !.state = state] \in Header!Call
  BY <1>1 DEF Header!Call, Header!Created, Header!CallStates, Header!Me
<1> QED BY <1>2 DEF Header!Become

(* The server carries a call out, or refuses it.                            *)
LEMMA HeaderHandled ==
  ASSUME HeaderTyped, NEW c \in flight, Header!Handle(c)
  PROVE  HeaderTyped'
<1>0. /\ page \in Header!Page /\ flight \in SUBSET Header!Call /\ c \in Header!Call /\ UNCHANGED page
      /\ server.organizations \in SUBSET Header!OrganizationRow /\ server.projects \in SUBSET Header!ProjectRow
      /\ server.writes \in Nat /\ server \in Header!Server
  BY HeaderData, Zenon DEF HeaderTyped, Header!Server, Header!Handle, Header!HandleCreate,
     Header!HandleRename, Header!ReadImpact, Header!HandleDelete
<1>1. ASSUME NEW organizations \in SUBSET Header!OrganizationRow, NEW stored \in SUBSET Header!ProjectRow, NEW calls \in SUBSET Header!Call,
             server' = [organizations |-> organizations, projects |-> stored, writes |-> server.writes + 1], flight' = calls
      PROVE  HeaderTyped'
  <2>1. PICK w \in Nat : w = server.writes + 1
    BY <1>0
  <2>2. server' \in Header!Server
    BY <1>1, <2>1 DEF Header!Server
  <2> QED BY <1>0, <1>1, <2>2 DEF HeaderTyped, Header!TypeOK, Placed
<1>2. ASSUME NEW calls \in SUBSET Header!Call, flight' = calls, UNCHANGED server PROVE HeaderTyped'
  BY <1>0, <1>2 DEF HeaderTyped, Header!TypeOK, Placed
<1>3. CASE Header!HandleCreate(c)
  <2>1. c.op = "create" /\ c.state = "sent" /\ c.kind \in {"organization", "project"}
    BY <1>0, <1>3 DEF Header!HandleCreate, Header!Call, Header!Created, Header!Me
  <2>2. c.name \in TenantNames
    BY <1>0, <2>1 DEF Header!Call, Header!Created, Header!Me
  <2>3. PICK id \in (IF c.kind = "organization" THEN OrganizationIds ELSE ProjectIds) :
          /\ server' = [server EXCEPT !.writes = server.writes + 1,
               !.organizations = IF c.kind = "project" THEN server.organizations
                                 ELSE server.organizations \cup {[id |-> id, name |-> c.name, shared |-> FALSE]},
               !.projects = IF c.kind = "organization" THEN server.projects
                            ELSE server.projects \cup {[id |-> id, organization |-> c.organization, name |-> c.name]}]
          /\ flight' = (flight \ {c}) \cup {[c EXCEPT !.state = "done", !.id = id]}
    BY <1>0, <1>3, Zenon DEF Header!HandleCreate, Header!Server
  <2> DEFINE d == [c EXCEPT !.state = "done", !.id = id]
  <2>4. CASE c.kind = "organization"
    <3> DEFINE organizations == server.organizations \cup {[id |-> id, name |-> c.name, shared |-> FALSE]}
    <3>1. id \in OrganizationIds
      BY <2>3, <2>4
    <3>2. organizations \in SUBSET Header!OrganizationRow
      <4>1. [id |-> id, name |-> c.name, shared |-> FALSE] \in Header!OrganizationRow
        BY <2>2, <3>1 DEF Header!OrganizationRow
      <4> QED BY <1>0, <4>1
    <3>3. c \in [op : {"create"}, state : {"sent", "refused"}, kind : {"organization"}, name : TenantNames, id : {None},
                 from : {"header", "overview"}, organization : OrganizationIds \cup {None}, listed : SUBSET Header!ProjectRow]
      BY <1>0, <2>1, <2>4 DEF Header!Call, Header!Created, Header!Me
    <3>4. d \in Header!Created({"organization"}, OrganizationIds, OrganizationIds \cup {None})
      BY <3>1, <3>3 DEF Header!Created
    <3>5. d \in Header!Call
      BY <3>4 DEF Header!Call
    <3> HIDE DEF organizations, d
    <3>6. server' = [organizations |-> organizations, projects |-> server.projects, writes |-> server.writes + 1]
      BY <1>0, <2>3, <2>4 DEF Header!Server, organizations
    <3>7. flight' = (flight \ {c}) \cup {d} /\ (flight \ {c}) \cup {d} \in SUBSET Header!Call
      BY <1>0, <2>3, <3>5 DEF d
    <3> QED BY <1>0, <1>1, <3>2, <3>6, <3>7
  <2>5. CASE c.kind = "project"
    <3> DEFINE stored == server.projects \cup {[id |-> id, organization |-> c.organization, name |-> c.name]}
    <3>1. id \in ProjectIds
      BY <2>3, <2>5
    <3>2. c \in [op : {"create"}, state : {"sent", "refused"}, kind : {"project"}, name : TenantNames, id : {None},
                 from : {"header", "overview"}, organization : OrganizationIds, listed : SUBSET Header!ProjectRow]
      BY <1>0, <2>1, <2>5 DEF Header!Call, Header!Created, Header!Me
    <3>3. stored \in SUBSET Header!ProjectRow
      BY <1>0, <2>2, <3>1, <3>2 DEF Header!ProjectRow
    <3>4. d \in Header!Created({"project"}, ProjectIds, OrganizationIds)
      BY <3>1, <3>2 DEF Header!Created
    <3>5. d \in Header!Call
      BY <3>4 DEF Header!Call
    <3> HIDE DEF stored, d
    <3>6. server' = [organizations |-> server.organizations, projects |-> stored, writes |-> server.writes + 1]
      BY <1>0, <2>3, <2>5 DEF Header!Server, stored
    <3>7. flight' = (flight \ {c}) \cup {d} /\ (flight \ {c}) \cup {d} \in SUBSET Header!Call
      BY <1>0, <2>3, <3>5 DEF d
    <3> QED BY <1>0, <1>1, <3>3, <3>6, <3>7
  <2> QED BY <2>1, <2>4, <2>5
<1>4. CASE Header!HandleRename(c)
  <2> DEFINE Renamed(rows) == {IF row.id = c.id THEN [row EXCEPT !.name = c.name] ELSE row : row \in rows}
  <2>1. c.op = "rename" /\ c.name \in TenantNames
    BY <1>0, <1>4 DEF Header!HandleRename, Header!Call, Header!Created, Header!Me
  <2>2. \A state \in {"done", "refused"} : Header!Become(flight, c, state) \in SUBSET Header!Call
    BY <1>0, <2>1, HeaderBecome
  <2>3. Renamed(server.organizations) \in SUBSET Header!OrganizationRow /\ Renamed(server.projects) \in SUBSET Header!ProjectRow
    BY <1>0, <2>1 DEF Header!OrganizationRow, Header!ProjectRow
  <2>4. \/ Header!Refused(c)
        \/ Header!Done(c, IF c.kind = "organization" THEN Renamed(server.organizations) ELSE server.organizations,
                          IF c.kind = "project" THEN Renamed(server.projects) ELSE server.projects)
    BY <1>4 DEF Header!HandleRename
  <2> HIDE DEF Renamed
  <2>5. /\ (IF c.kind = "organization" THEN Renamed(server.organizations) ELSE server.organizations) \in SUBSET Header!OrganizationRow
        /\ (IF c.kind = "project" THEN Renamed(server.projects) ELSE server.projects) \in SUBSET Header!ProjectRow
    BY <1>0, <2>3
  <2> QED BY <1>1, <1>2, <2>2, <2>4, <2>5 DEF Header!Refused, Header!Done
<1>5. CASE Header!ReadImpact(c)
  <2>1. c.op = "impact"
    BY <1>5, Zenon DEF Header!ReadImpact
  <2>2. Header!Become(flight, c, "refused") \in SUBSET Header!Call
    BY <1>0, <2>1, HeaderBecome
  <2>3. ASSUME NEW shared \in BOOLEAN PROVE (flight \ {c}) \cup {[c EXCEPT !.state = "done", !.shared = shared]} \in SUBSET Header!Call
    <3>1. c \in [op : {"impact"}, state : Header!CallStates, kind : Header!Kinds, id : OrganizationIds \cup ProjectIds, shared : BOOLEAN]
      BY <1>0, <2>1 DEF Header!Call, Header!Created, Header!Me
    <3>2. [c EXCEPT !.state = "done", !.shared = shared]
            \in [op : {"impact"}, state : Header!CallStates, kind : Header!Kinds, id : OrganizationIds \cup ProjectIds, shared : BOOLEAN]
      BY <3>1 DEF Header!CallStates
    <3>3. [c EXCEPT !.state = "done", !.shared = shared] \in Header!Call
      BY <3>2 DEF Header!Call
    <3> QED BY <1>0, <3>3
  <2> DEFINE shared == \E row \in Header!Row(c.kind, c.id) : c.kind = "organization" /\ row.shared
  <2>4. /\ UNCHANGED server
        /\ \/ flight' = Header!Become(flight, c, "refused")
           \/ flight' = (flight \ {c}) \cup {[c EXCEPT !.state = "done", !.shared = shared]}
    BY <1>5, Zenon DEF Header!ReadImpact
  <2>5. shared \in BOOLEAN
    OBVIOUS
  <2> HIDE DEF shared
  <2> QED BY <1>2, <2>2, <2>3, <2>4, <2>5, Zenon
<1>6. CASE Header!HandleDelete(c)
  <2> DEFINE organizations == IF c.kind = "organization" THEN server.organizations \ Header!Row(c.kind, c.id) ELSE server.organizations
             stored == {p \in server.projects : IF c.kind = "organization" THEN p.organization # c.id ELSE p.id # c.id}
  <2>1. c.op = "delete"
    BY <1>6 DEF Header!HandleDelete
  <2>2. \A state \in {"done", "refused"} : Header!Become(flight, c, state) \in SUBSET Header!Call
    BY <1>0, <2>1, HeaderBecome
  <2>3. organizations \in SUBSET Header!OrganizationRow /\ stored \in SUBSET Header!ProjectRow
    BY <1>0
  <2>4. Header!Refused(c) \/ Header!Done(c, organizations, stored)
    BY <1>6 DEF Header!HandleDelete
  <2> HIDE DEF organizations, stored
  <2> QED BY <1>1, <1>2, <2>2, <2>3, <2>4 DEF Header!Refused, Header!Done
<1> QED BY <1>3, <1>4, <1>5, <1>6 DEF Header!Handle

(* A load is started again.                                                 *)
LEMMA HeaderRefresh ==
  ASSUME NEW p \in Header!Page, Header!Stored \in TenancyRows, NEW by \in Header!Causes, Room(p.lists, "tenancy")
  PROVE  /\ Header!load(p, by) \in Header!Page /\ Header!load(p, by).dialog = p.dialog /\ Header!load(p, by).kind = p.kind
         /\ Header!load(p, by).organization = p.organization
<1> DEFINE lists == Header!Refetch(p.lists, "tenancy", by, by, [tenancy |-> Header!Stored], {"tenancy"})
<1>1. HeaderLists(p.lists)
  BY HeaderListsTyped DEF Header!Page, TenancyRows
<1>2. HeaderLists(lists)
  <2> DEFINE stored == [tenancy |-> Header!Stored]
  <2>1. \A n \in {"tenancy"} : stored[n] \in [tenancy |-> TenancyRows][n]
    OBVIOUS
  <2>2. lists = Refetch(p.lists, "tenancy", by, by, stored, {"tenancy"})
    BY HeaderSame
  <2> HIDE DEF stored
  <2> QED BY <1>1, <2>1, <2>2, RefetchTyped DEF HeaderLists
<1>3. lists \in [tenancy : Header!ListOf(Header!Causes, TenancyRows)]
  BY <1>2, HeaderListsTyped
<1> HIDE DEF lists
<1>4. Header!load(p, by) = [p EXCEPT !.lists = lists]
  BY DEF Header!load, lists, Header!Page
<1> QED BY <1>3, <1>4 DEF Header!Page, TenancyRows

(* What the handlers do when their call is answered.                        *)
LEMMA HeaderReturned ==
  ASSUME HeaderTyped, NEW c \in flight, Header!Return(c)
  PROVE  HeaderTyped'
<1>0. /\ page \in Header!Page /\ flight \in SUBSET Header!Call /\ c \in Header!Call /\ Placed(page)
      /\ Header!Stored \in TenancyRows /\ HeaderLists(page.lists) /\ flight \ {c} \in SUBSET Header!Call
      /\ \A id \in OrganizationIds \cup ProjectIds : Header!Me(id) \in Header!Call /\ id \in Header!Causes
      /\ "user" \in Header!Causes
  BY HeaderData DEF HeaderTyped, Header!Call, Header!Causes
<1>1. /\ Header!Closed(c) \in Header!Page /\ Placed(Header!Closed(c)) /\ Header!Closed(c).lists = page.lists
  <2>1. [page EXCEPT !.dialog = "none", !.typed = None] \in Header!Page
    BY <1>0 DEF Header!Page
  <2>2. [page EXCEPT !.dialog = "none", !.typed = None].lists = page.lists /\ Placed([page EXCEPT !.dialog = "none", !.typed = None])
    BY <1>0 DEF Header!Page, Placed
  <2> QED BY <1>0, <2>1, <2>2 DEF Header!Closed
<1>2. ASSUME NEW p \in Header!Page, Placed(p), p.lists = page.lists, Room(page.lists, "tenancy"), NEW by \in Header!Causes,
             page' = Header!load(p, by), flight' \in SUBSET Header!Call, UNCHANGED server
      PROVE  HeaderTyped'
  <2>1. /\ page' \in Header!Page /\ page'.dialog = p.dialog /\ page'.kind = p.kind /\ page'.organization = p.organization
    BY <1>0, <1>2, HeaderRefresh
  <2> QED BY <1>2, <2>1, HeaderStays DEF Placed
<1>3. CASE Header!OrganizationCreated(c)
  <2>1. c.op = "create" /\ c.state = "done" /\ c.kind = "organization"
    BY <1>3 DEF Header!OrganizationCreated
  <2>2. c \in Header!Created({"organization"}, OrganizationIds, OrganizationIds \cup {None})
    BY <1>0, <2>1 DEF Header!Call, Header!Created, Header!Me
  <2>3. c.id \in OrganizationIds /\ c.listed \in SUBSET Header!ProjectRow
    BY <2>1, <2>2 DEF Header!Created
  <2>4. [op |-> "select", state |-> "done", id |-> c.id, listed |-> c.listed] \in Header!Call
    BY <2>3 DEF Header!Call
  <2>5. /\ Room(page.lists, "tenancy") /\ page' = Header!load(Header!Closed(c), c.id) /\ UNCHANGED server
        /\ flight' = (flight \ {c}) \cup {Header!Me(c.id), [op |-> "select", state |-> "done", id |-> c.id, listed |-> c.listed]}
    BY <1>3, HeaderSame DEF Header!OrganizationCreated, Header!refresh
  <2>6. flight' \in SUBSET Header!Call
    BY <1>0, <2>3, <2>4, <2>5
  <2> QED BY <1>0, <1>1, <1>2, <2>3, <2>5, <2>6
<1>5. CASE Header!ProjectCreated(c)
  <2> DEFINE p == IF c.from = "header" THEN Header!persistProject(Header!Closed(c), c.id) ELSE Header!Closed(c)
  <2>1. c.op = "create" /\ c.state = "done" /\ c.kind = "project"
    BY <1>5 DEF Header!ProjectCreated
  <2>2. c \in Header!Created({"project"}, ProjectIds, OrganizationIds)
    BY <1>0, <2>1 DEF Header!Call, Header!Created, Header!Me
  <2>3. c.id \in ProjectIds
    BY <2>1, <2>2 DEF Header!Created
  <2>4. p \in Header!Page /\ p.lists = page.lists
    <3>1. None \in OrganizationIds \cup {None} /\ {} \in SUBSET Header!ProjectRow
      OBVIOUS
    <3>2. Header!persistProject(Header!Closed(c), c.id) \in Header!Page
          /\ Header!persistProject(Header!Closed(c), c.id).lists = Header!Closed(c).lists
      BY <1>1, <2>3, <3>1, HeaderSelecting
    <3> QED BY <1>1, <3>2
  <2>5. /\ Room(page.lists, "tenancy") /\ page' = Header!load(Header!Remaining(p), c.id) /\ UNCHANGED server
        /\ flight' = (flight \ {c}) \cup {Header!Me(c.id)}
    BY <1>5, HeaderSame DEF Header!ProjectCreated, Header!refresh
  <2>6. flight' \in SUBSET Header!Call
    BY <1>0, <2>3, <2>5
  <2> HIDE DEF p
  <2>7. Header!Remaining(p) \in Header!Page /\ Placed(Header!Remaining(p)) /\ Header!Remaining(p).lists = page.lists
    BY <2>4, HeaderRemaining
  <2> QED BY <1>0, <1>2, <2>3, <2>5, <2>6, <2>7
<1>6. CASE Header!RenamedOrDeleted(c)
  <2>1. /\ Room(page.lists, "tenancy") /\ page' = Header!load(Header!Closed(c), c.id) /\ UNCHANGED server
        /\ flight' = (flight \ {c}) \cup {Header!Me(c.id)} /\ c.op \in {"rename", "delete"}
    BY <1>6, HeaderSame DEF Header!RenamedOrDeleted, Header!refresh
  <2>2. c.id \in OrganizationIds \cup ProjectIds
    BY <1>0, <2>1 DEF Header!Call, Header!Created, Header!Me
  <2>3. flight' \in SUBSET Header!Call
    BY <1>0, <2>1, <2>2
  <2> QED BY <1>0, <1>1, <1>2, <2>1, <2>2, <2>3
<1>7. CASE Header!ImpactFetched(c)
  <2> DEFINE impact == [page.impact EXCEPT ![c.kind] = [of |-> c.id, shared |-> c.shared]]
             loading == [page.isLoadingImpact EXCEPT ![c.kind] = FALSE]
  <2>1. c.op = "impact"
    BY <1>7 DEF Header!ImpactFetched
  <2>2. c.id \in OrganizationIds \cup ProjectIds /\ c.shared \in BOOLEAN
    BY <1>0, <2>1 DEF Header!Call, Header!Created, Header!Me
  <2>3. page' = [page EXCEPT !.impact = impact, !.isLoadingImpact = loading] /\ UNCHANGED server /\ flight' = flight \ {c}
    BY <1>0, <1>7 DEF Header!ImpactFetched, Header!Page
  <2>4. /\ impact \in [Header!Kinds -> [of : OrganizationIds \cup ProjectIds, shared : BOOLEAN] \cup {None}]
        /\ loading \in [Header!Kinds -> BOOLEAN]
    BY <1>0, <2>2 DEF Header!Page
  <2> HIDE DEF impact, loading
  <2>5. page' \in Header!Page /\ page'.dialog = page.dialog /\ page'.kind = page.kind /\ page'.organization = page.organization
    BY <1>0, <2>3, <2>4 DEF Header!Page
  <2> QED BY <1>0, <2>3, <2>5, HeaderStays DEF Placed
<1>8. CASE Header!UserReplaced(c)
  <2>1. Room(page.lists, "tenancy") /\ Header!SelectCreated(Header!load(page, "user"), flight \ {c})
    BY <1>8, HeaderSame DEF Header!UserReplaced
  <2>2. Header!load(page, "user") \in Header!Page
    BY <1>0, <2>1, HeaderRefresh
  <2> QED BY <1>0, <2>1, <2>2, HeaderSelectCreated
<1>4. CASE Header!UserNotReplaced(c)
  <2> DEFINE excused == [page EXCEPT !.lists = ExcuseAll(page.lists, {"tenancy"})]
  <2>1. Header!SelectCreated(excused, flight \ {c}) \/ Header!SelectCreated(page, flight \ {c})
    <3>1. excused = [page EXCEPT !.lists = Header!ExcuseAll(@, {"tenancy"})]
      BY HeaderSame
    <3> HIDE DEF excused
    <3> QED BY <1>4, <3>1 DEF Header!UserNotReplaced
  <2>2. excused \in Header!Page
    <3>1. HeaderLists(ExcuseAll(page.lists, {"tenancy"}))
      BY <1>0, ExcuseAllTyped DEF HeaderLists
    <3>2. ExcuseAll(page.lists, {"tenancy"}) \in [tenancy : Header!ListOf(Header!Causes, TenancyRows)]
      BY <3>1, HeaderListsTyped
    <3> QED BY <1>0, <3>2 DEF Header!Page, TenancyRows
  <2> HIDE DEF excused
  <2> QED BY <1>0, <2>1, <2>2, HeaderSelectCreated
<1>9. CASE Header!Failed(c)
  <2> DEFINE loading == IF c.op = "impact" THEN [page.isLoadingImpact EXCEPT ![c.kind] = FALSE] ELSE page.isLoadingImpact
             lists == IF c.op \in {"create", "rename", "delete"} /\ c.state = "done" THEN ExcuseAll(page.lists, {"tenancy"}) ELSE page.lists
  <2>1. page' = [page EXCEPT !.isLoadingImpact = loading, !.lists = lists] /\ UNCHANGED server /\ flight' = flight \ {c}
    BY <1>0, <1>9, HeaderSame DEF Header!Failed, Header!Page
  <2>2. loading \in [Header!Kinds -> BOOLEAN]
    BY <1>0 DEF Header!Page
  <2>3. HeaderLists(lists)
    BY <1>0, ExcuseAllTyped DEF HeaderLists
  <2> HIDE DEF loading, lists
  <2>4. lists \in [tenancy : Header!ListOf(Header!Causes, TenancyRows)]
    BY <2>3, HeaderListsTyped
  <2>5. page' \in Header!Page /\ page'.dialog = page.dialog /\ page'.kind = page.kind /\ page'.organization = page.organization
    BY <1>0, <2>1, <2>2, <2>4 DEF Header!Page, TenancyRows
  <2> QED BY <1>0, <2>1, <2>5, HeaderStays DEF Placed
<1> QED BY <1>3, <1>4, <1>5, <1>6, <1>7, <1>8, <1>9 DEF Header!Return

(* A load is read, lands or fails.                                          *)
LEMMA HeaderLoads ==
  ASSUME HeaderTyped, NEW i \in DOMAIN page.lists["tenancy"].loads,
         Header!ReadLoad(i) \/ Header!LandLoad(i) \/ Header!FailLoad(i)
  PROVE  HeaderTyped'
<1> DEFINE list == page.lists["tenancy"]
           Of == Header!Causes
<1>0. /\ page \in Header!Page /\ flight \in SUBSET Header!Call /\ Placed(page) /\ HeaderLists(page.lists)
      /\ list \in ListOf(Of, TenancyRows) /\ Header!Stored \in TenancyRows
  BY HeaderData DEF HeaderTyped
<1>1. ASSUME NEW new \in ListOf(Of, TenancyRows), NEW p \in Header!Page
      PROVE  [p EXCEPT !.lists = [page.lists EXCEPT !["tenancy"] = new]] \in Header!Page
  <2>1. HeaderLists([page.lists EXCEPT !["tenancy"] = new])
    BY <1>0, OneListTyped DEF HeaderLists
  <2>2. [page.lists EXCEPT !["tenancy"] = new] \in [tenancy : Header!ListOf(Of, TenancyRows)]
    BY <2>1, HeaderListsTyped
  <2> QED BY <2>2 DEF Header!Page, TenancyRows
<1>2. CASE Header!ReadLoad(i)
  <2> DEFINE new == Read(list, i, Header!Stored)
  <2>1. new \in ListOf(Of, TenancyRows)
    BY <1>0, ReadTyped
  <2>2. page' = [page EXCEPT !.lists = [page.lists EXCEPT !["tenancy"] = new]] /\ UNCHANGED <<server, flight>>
    BY <1>2, HeaderSame DEF Header!ReadLoad, Header!Only
  <2> HIDE DEF new
  <2>3. page' \in Header!Page
    BY <1>0, <1>1, <2>1, <2>2
  <2>4. page'.dialog = page.dialog /\ page'.kind = page.kind /\ page'.organization = page.organization
    BY <1>0, <2>2 DEF Header!Page
  <2> QED BY <1>0, <2>2, <2>3, <2>4, HeaderStays DEF Placed
<1>3. CASE Header!LandLoad(i)
  <2> DEFINE rows == list.loads[i].rows
             restored == Header!Restored(rows, page.storage)
             selected == Header!Selecting(page, restored)
             new == Land(list, i, list.loads[i].of)
  <2>1. ~Unanswered(list, i)
    BY <1>3, HeaderSame, Zenon DEF Header!LandLoad
  <2>2. new \in ListOf(Of, TenancyRows)
    BY <1>0, <2>1, LandTyped
  <2>3. rows \in TenancyRows
    <3>1. list.loads[i] \in Load(Of, TenancyRows)
      BY <1>0 DEF ListOf
    <3> QED BY <2>1, <3>1 DEF Unanswered, Load
  <2>4. restored = [organization |-> restored.organization, project |-> restored.project]
    BY DEF Header!Restored
  <2>5. selected \in Header!Page /\ selected.lists = page.lists
    <3>1. restored.organization \in OrganizationIds \cup {None} /\ restored.project \in ProjectIds \cup {None}
      BY <2>3, HeaderRestored
    <3>2. selected = [page EXCEPT !.organization = restored.organization, !.project = restored.project]
      BY DEF Header!Selecting
    <3> HIDE DEF restored, selected
    <3> QED BY <1>0, <3>1, <3>2, Zenon DEF Header!Page
  <2>6. Header!SelectCreated([selected EXCEPT !.lists = [selected.lists EXCEPT !["tenancy"] = Land(selected.lists["tenancy"], i, list.loads[i].of)]], flight)
    <3>1. Header!SelectCreated([Header!Selecting(page, Header!Restored(page.lists["tenancy"].loads[i].rows, page.storage)) EXCEPT
                            !.lists["tenancy"] = Header!Land(@, i, page.lists["tenancy"].loads[i].of)], flight)
      BY <1>3, Zenon DEF Header!LandLoad
    <3> QED BY <3>1, HeaderSame, Zenon
  <2> HIDE DEF selected, new
  <2>7. [selected EXCEPT !.lists = [page.lists EXCEPT !["tenancy"] = new]] \in Header!Page
    BY <1>1, <2>2, <2>5
  <2>8. Header!SelectCreated([selected EXCEPT !.lists = [page.lists EXCEPT !["tenancy"] = new]], flight)
    BY <2>5, <2>6 DEF new
  <2> QED BY <1>0, <2>7, <2>8, HeaderSelectCreated
<1>4. CASE Header!FailLoad(i)
  <2> DEFINE selected == Header!Selecting(page, [organization |-> None, project |-> None])
             new == FailTo(list, i, Header!Empty)
  <2>1. new \in ListOf(Of, TenancyRows)
    <3>1. Header!Empty \in TenancyRows
      BY DEF Header!Empty, TenancyRows
    <3> QED BY <1>0, <3>1, FailTyped
  <2>2. selected \in Header!Page /\ selected.lists = page.lists
    BY <1>0, Zenon DEF Header!Selecting, Header!Page
  <2>3. Header!SelectCreated([selected EXCEPT !.lists = [selected.lists EXCEPT !["tenancy"] = FailTo(selected.lists["tenancy"], i, Header!Empty)]], flight)
    <3>1. Header!SelectCreated([Header!Selecting(page, [organization |-> None, project |-> None]) EXCEPT
                            !.lists["tenancy"] = Header!FailTo(@, i, Header!Empty)], flight)
      BY <1>4 DEF Header!FailLoad
    <3> QED BY <3>1, HeaderSame
  <2> HIDE DEF selected, new
  <2>4. [selected EXCEPT !.lists = [page.lists EXCEPT !["tenancy"] = new]] \in Header!Page
    BY <1>1, <2>1, <2>2
  <2>5. Header!SelectCreated([selected EXCEPT !.lists = [page.lists EXCEPT !["tenancy"] = new]], flight)
    BY <2>2, <2>3 DEF new
  <2> QED BY <1>0, <2>4, <2>5, HeaderSelectCreated
<1> QED BY <1>2, <1>3, <1>4

(* No step breaks the types of the header.                                  *)
LEMMA HeaderTypedStep == ASSUME HeaderTyped, Header!Next \/ UNCHANGED vars PROVE HeaderTyped'
<1>1. CASE UNCHANGED vars
  BY <1>1 DEF vars, HeaderTyped, Header!TypeOK, Placed
<1>2. CASE Header!Next
  <2>1. CASE Header!Header
    <3>1. "project" \in Header!Kinds
      BY DEF Header!Kinds
    <3> QED BY <2>1, <3>1, HeaderSelects, HeaderDialogs DEF Header!Header
  <2>2. CASE \E kind \in Header!Kinds : Header!OpenCreate(kind) \/ Header!OpenRename(kind) \/ Header!OpenDelete(kind)
    BY <2>2, HeaderDialogs
  <2> QED BY <1>2, <2>1, <2>2, HeaderSends, HeaderHandled, HeaderReturned, HeaderLoads DEF Header!Next
<1> QED BY <1>1, <1>2

(* They hold at first.                                                      *)
LEMMA HeaderTypedInit == ASSUME Header!Init PROVE HeaderTyped
<1>1. /\ server = [organizations |-> InitialOrganizations, projects |-> InitialProjects, writes |-> 0] /\ flight = {}
  BY DEF Header!Init
<1>2. server \in Header!Server /\ Header!Stored \in TenancyRows
  BY <1>1, HeaderAssumption DEF Header!Server, Header!Stored, TenancyRows
<1>3. PICK doing \in {"creating", "renaming", "deleting"}, organization \in {None} \cup Header!Ids(InitialOrganizations) :
        page = Header!Selecting(
          [doing |-> doing, lists |-> [tenancy |-> Header!List(Header!Stored)],
           storage |-> [organization |-> organization, project |-> None], organization |-> None, project |-> None,
           dialog |-> "none", kind |-> "project", typed |-> None, impact |-> [kind \in Header!Kinds |-> None],
           isLoadingImpact |-> [kind \in Header!Kinds |-> FALSE]],
          Header!Restored(Header!Stored, [organization |-> organization, project |-> None]))
  BY DEF Header!Init
<1> DEFINE first == Header!List(Header!Stored)
           storage == [organization |-> organization, project |-> None]
           restored == Header!Restored(Header!Stored, storage)
           p == [doing |-> doing, lists |-> [tenancy |-> first], storage |-> storage, organization |-> None, project |-> None,
                 dialog |-> "none", kind |-> "project", typed |-> None, impact |-> [kind \in Header!Kinds |-> None],
                 isLoadingImpact |-> [kind \in Header!Kinds |-> FALSE]]
<1>4. first \in Header!ListOf(Header!Causes, TenancyRows)
  BY <1>2, FirstTyped, HeaderSame
<1>5. organization \in OrganizationIds \cup {None}
  BY HeaderAssumption DEF Header!Ids, Header!OrganizationRow
<1>6. restored.organization \in OrganizationIds \cup {None} /\ restored.project \in ProjectIds \cup {None}
  BY <1>2, HeaderRestored
<1>7. storage \in [organization : OrganizationIds \cup {None}, project : ProjectIds \cup {None}]
  BY <1>5
<1> HIDE DEF first, storage
<1>8. page = [p EXCEPT !.organization = restored.organization, !.project = restored.project]
  BY <1>3 DEF Header!Selecting, first, storage
<1> HIDE DEF restored
<1>9. p \in Header!Page /\ p.dialog = "none"
  BY <1>4, <1>7 DEF Header!Page, Header!Kinds, TenancyRows
<1> HIDE DEF p
<1>10. page \in Header!Page /\ page.dialog = "none"
  BY <1>6, <1>8, <1>9 DEF Header!Page
<1> QED BY <1>1, <1>2, <1>10 DEF HeaderTyped, Header!TypeOK, Placed

(* What a load for a user, and of everything else, would answer.             *)
HeaderShows == [of \in Header!Causes |-> Header!Stored]

(* A write was carried out and its answer, which starts a load, is to come.  *)
Rewritten(calls) == \E c \in calls : c.op \in {"create", "rename", "delete"} /\ c.state = "done"

(* The list shows what is stored, or will be loaded.                         *)
HeaderShown(list, calls) == Current(list, HeaderShows, "user") \/ Rewritten(calls)

(* The selection is what a load would restore of the rows that are listed,   *)
(* or one will.                                                              *)
Fits(p) ==
  \/ p.lists["tenancy"].loads # <<>> \/ p.lists["tenancy"].excused
  \/ [organization |-> p.organization, project |-> p.project] = Header!Restored(p.lists["tenancy"].rows, p.storage)

(* Loads for id are in flight; and each of them is overtaken, or followed by *)
(* the load of a new user.                                                   *)
Awaited(loads, id) == \E i \in DOMAIN loads : loads[i].of = id
Covered(loads, id) ==
  \A i \in DOMAIN loads :
    loads[i].of = id => loads[i].overtaken \/ (\E j \in DOMAIN loads : j > i /\ loads[j].of = "user")

(* What is to be selected when its refresh ends waits for /auth/me/, whose   *)
(* answer loads again, or for a load that is covered: so after the selection *)
(* there is a load to come, or the list is excused.                          *)
Waits(list, calls) ==
  \A c \in calls : c.op = "select" => Header!Me(c.id) \in calls \/ (Awaited(list.loads, c.id) /\ Covered(list.loads, c.id))

(* It may as well have ended in a step that goes on with it.                 *)
Ready(list, calls) ==
  \A c \in calls :
    c.op = "select" => \/ Header!Me(c.id) \in calls
                       \/ Covered(list.loads, c.id) /\ (list.loads # <<>> \/ list.excused)

HeaderInv ==
  /\ HeaderTyped
  /\ HeaderShown(page.lists["tenancy"], flight) /\ Fits(page) /\ Waits(page.lists["tenancy"], flight)

(* A selection that waits for a load has one in flight.                      *)
LEMMA WaitsReady ==
  ASSUME NEW Of, NEW Rows, NEW list \in ListOf(Of, Rows), NEW calls, Waits(list, calls)
  PROVE  Ready(list, calls)
<1>1. list.loads \in Seq(Load(Of, Rows))
  BY DEF ListOf
<1>2. \A id : Awaited(list.loads, id) => list.loads # <<>>
  BY <1>1 DEF Awaited
<1> QED BY <1>2 DEF Waits, Ready

(* What is left of a page is selected as it was.                             *)
LEMMA RemainingSelected ==
  ASSUME NEW p \in Header!Page
  PROVE  LET q == Header!Remaining(p) IN
         q.lists = p.lists /\ q.organization = p.organization /\ q.project = p.project /\ q.storage = p.storage
<1> DEFINE gone == {kind \in Header!Kinds : ~Header!Mounted(p, "delete", kind)}
           q == [p EXCEPT !.impact = [kind \in Header!Kinds |-> IF kind \in gone THEN None ELSE p.impact[kind]],
                          !.isLoadingImpact = [kind \in Header!Kinds |-> kind \notin gone /\ p.isLoadingImpact[kind]]]
           r == [q EXCEPT !.dialog = "none", !.typed = None]
<1>1. q.lists = p.lists /\ q.organization = p.organization /\ q.project = p.project /\ q.storage = p.storage
      /\ q \in Header!Page
  BY Zenon DEF Header!Page
<1>2. Header!Remaining(p) = IF Header!Mounted(p, p.dialog, p.kind) THEN q ELSE [q EXCEPT !.dialog = "none", !.typed = None]
  BY DEF Header!Remaining
<1> HIDE DEF q
<1>3. r.lists = q.lists /\ r.organization = q.organization /\ r.project = q.project /\ r.storage = q.storage
  BY <1>1 DEF Header!Page
<1>4. Header!Remaining(p) = q \/ Header!Remaining(p) = r
  BY <1>2
<1> HIDE DEF r
<1> QED BY <1>1, <1>3, <1>4

(* The invariant of a step, from what the new page and calls are like.       *)
LEMMA HeaderHolds ==
  ASSUME HeaderTyped', UNCHANGED <<server.organizations, server.projects>>, NEW p, NEW calls,
         page'.lists = p.lists, page'.organization = p.organization, page'.project = p.project, page'.storage = p.storage,
         \A c \in calls : c.op # "impact" => c \in flight', \A c \in flight' : c.op = "select" => c \in calls,
         HeaderShown(p.lists["tenancy"], calls), Fits(p), Waits(p.lists["tenancy"], calls)
  PROVE  HeaderInv'
<1>1. HeaderShows' = HeaderShows
  BY DEF HeaderShows, Header!Stored, Header!Causes
<1>2. HeaderShown(page.lists["tenancy"], flight)'
  <2>1. Rewritten(calls) => Rewritten(flight')
    BY DEF Rewritten
  <2> QED BY <1>1, <2>1 DEF HeaderShown, Rewritten
<1>3. Fits(page)'
  BY DEF Fits
<1>4. Waits(page.lists["tenancy"], flight)'
  <2>1. \A id : Header!Me(id) \in calls => Header!Me(id) \in flight'
    BY DEF Header!Me
  <2> QED BY <2>1 DEF Waits
<1> QED BY <1>2, <1>3, <1>4 DEF HeaderInv

(* Showing a page does no more to it.                                        *)
LEMMA RendersHolds ==
  ASSUME HeaderTyped', NEW p \in Header!Page, NEW calls, Header!Renders(p, calls),
         HeaderShown(p.lists["tenancy"], calls), Fits(p), Waits(p.lists["tenancy"], calls)
  PROVE  HeaderInv'
<1>1. UNCHANGED <<server.organizations, server.projects>> /\ page' = Header!Remaining(p)
      /\ flight' = {c \in calls : c.op = "impact" => Header!Mounted(p, "delete", c.kind)}
  BY DEF Header!Renders
<1>2. page'.lists = p.lists /\ page'.organization = p.organization /\ page'.project = p.project /\ page'.storage = p.storage
  BY <1>1, RemainingSelected
<1> QED BY <1>1, <1>2, HeaderHolds

(* Selecting an organization leaves the list.                                *)
LEMMA SelectingLists ==
  ASSUME NEW p \in Header!Page, NEW organization \in OrganizationIds \cup {None}, NEW listed \in SUBSET Header!ProjectRow
  PROVE  LET q == Header!setCurrentOrganization(p, organization, listed)
             project == Header!First({r \in listed : r.organization = organization}) IN
         /\ q.lists = p.lists /\ q.organization = organization /\ q.project = project
         /\ q.storage = [organization |-> organization, project |-> project]
<1> DEFINE project == Header!First({r \in listed : r.organization = organization})
           q == [p EXCEPT !.organization = organization, !.storage = [p.storage EXCEPT !.organization = organization]]
<1>1. q.lists = p.lists /\ q.organization = organization /\ q.storage = [p.storage EXCEPT !.organization = organization]
      /\ DOMAIN q = DOMAIN p
  BY DEF Header!Page
<1>2. /\ {"lists", "organization", "project", "storage"} \subseteq DOMAIN p
      /\ p.storage = [organization |-> p.storage.organization, project |-> p.storage.project]
  BY DEF Header!Page
<1>3. Header!setCurrentOrganization(p, organization, listed) = [q EXCEPT !.project = project, !.storage = [q.storage EXCEPT !.project = project]]
  BY DEF Header!setCurrentOrganization, Header!persistProject, Header!Page
<1> HIDE DEF q, project
<1>4. [q.storage EXCEPT !.project = project] = [organization |-> organization, project |-> project]
  <2> DEFINE was == p.storage.organization
             old == p.storage.project
  <2>1. p.storage = [organization |-> was, project |-> old]
    BY <1>2
  <2> HIDE DEF was, old
  <2>2. q.storage = [organization |-> organization, project |-> old]
    BY <1>1, <2>1
  <2> QED BY <2>2
<1> QED BY <1>1, <1>2, <1>3, <1>4 DEF project

(* What goes on with a selection whose refresh ended has a load to come, or  *)
(* the list is excused.                                                      *)
LEMMA SelectCreatedHolds ==
  ASSUME HeaderTyped', NEW p \in Header!Page, NEW calls \in SUBSET Header!Call, Header!SelectCreated(p, calls),
         HeaderShown(p.lists["tenancy"], calls), Fits(p), Ready(p.lists["tenancy"], calls)
  PROVE  HeaderInv'
<1> DEFINE ended == {c \in calls : c.op = "select" /\ Header!Refreshed(p, calls, c.id)}
           list == p.lists["tenancy"]
<1>1. \A c \in calls \ ended : c.op = "select" => Header!Me(c.id) \in calls \/ (Awaited(list.loads, c.id) /\ Covered(list.loads, c.id))
  BY DEF Ready, Header!Refreshed, Awaited
<1>2. CASE ended = {}
  <2>1. Waits(list, calls)
    BY <1>1, <1>2 DEF Waits
  <2> QED BY <1>2, <2>1, RendersHolds DEF Header!SelectCreated
<1>3. CASE ended # {}
  <2>1. PICK c \in ended : Header!Renders(Header!setCurrentOrganization(p, c.id, c.listed), calls \ ended)
    BY <1>3 DEF Header!SelectCreated
  <2>2. c.id \in OrganizationIds /\ c.listed \in SUBSET Header!ProjectRow
    <3>1. c \in Header!Call /\ c.op = "select"
      OBVIOUS
    <3> QED BY <3>1 DEF Header!Call, Header!Created, Header!Me
  <2> DEFINE q == Header!setCurrentOrganization(p, c.id, c.listed)
  <2>3. q \in Header!Page /\ q.lists = p.lists
    <3>1. c.id \in OrganizationIds \cup {None}
      BY <2>2
    <3>2. q \in Header!Page
      BY <2>2, <3>1, HeaderSelecting
    <3>3. q.lists = p.lists
      BY <2>2, <3>1, SelectingLists
    <3> QED BY <3>2, <3>3
  <2>4. list.loads # <<>> \/ list.excused
    BY DEF Ready, Header!Refreshed
  <2> HIDE DEF q
  <2>5. Fits(q)
    BY <2>3, <2>4 DEF Fits
  <2>6. HeaderShown(q.lists["tenancy"], calls \ ended)
    <3>1. Rewritten(calls) => Rewritten(calls \ ended)
      BY DEF Rewritten
    <3> QED BY <2>3, <3>1 DEF HeaderShown
  <2>7. Waits(q.lists["tenancy"], calls \ ended)
    <3>1. \A id : Header!Me(id) \in calls => Header!Me(id) \in calls \ ended
      BY DEF Header!Me
    <3> QED BY <1>1, <2>3, <3>1 DEF Waits
  <2>8. Header!Renders(q, calls \ ended)
    BY <2>1 DEF q
  <2> QED BY <2>3, <2>5, <2>6, <2>7, <2>8, RendersHolds
<1> QED BY <1>2, <1>3

(* What the user selects is what a load would restore.                       *)
LEMMA SelectsHold ==
  ASSUME HeaderInv, HeaderTyped',
         \/ \E organization \in Header!OrganizationSelect : Header!SelectOrganization(organization)
         \/ \E project \in Header!ProjectSelect : Header!SelectProject(project)
  PROVE  HeaderInv'
<1> DEFINE list == page.lists["tenancy"]
           rows == list.rows
<1>0. /\ page \in Header!Page /\ rows = Header!tenancy /\ rows \in TenancyRows
      /\ HeaderShown(list, flight) /\ Fits(page) /\ Waits(list, flight)
  BY HeaderData DEF HeaderInv, HeaderTyped, Header!tenancy
<1>1. ASSUME NEW organization \in Header!OrganizationSelect, Header!SelectOrganization(organization) PROVE HeaderInv'
  <2> DEFINE q == Header!setCurrentOrganization(page, organization, rows.projects)
             within == {r \in rows.projects : r.organization = organization}
             first == Header!First(within)
  <2>1. /\ organization \in OrganizationIds \cup {None} /\ organization \in Header!Ids(rows.organizations)
        /\ rows.projects \in SUBSET Header!ProjectRow
    BY <1>0 DEF Header!OrganizationSelect, Header!Ids, TenancyRows, Header!OrganizationRow
  <2>2. q \in Header!Page
    BY <1>0, <2>1, HeaderSelecting
  <2>3. /\ q.lists = page.lists /\ q.organization = organization /\ q.project = first
        /\ q.storage = [organization |-> organization, project |-> first]
    BY <1>0, <2>1, SelectingLists
  <2>4. Header!Renders(q, flight)
    BY <1>0, <1>1 DEF Header!SelectOrganization
  <2>5. Header!Restored(rows, [organization |-> organization, project |-> first]) = [organization |-> organization, project |-> first]
    BY <2>1 DEF Header!Restored
  <2> HIDE DEF q, first
  <2>6. Fits(q)
    BY <2>3, <2>5 DEF Fits
  <2> QED BY <1>0, <2>2, <2>3, <2>4, <2>6, RendersHolds
<1>2. ASSUME NEW project \in Header!ProjectSelect, Header!SelectProject(project) PROVE HeaderInv'
  <2> DEFINE q == Header!persistProject(page, project)
             within == {r \in rows.projects : r.organization = page.organization}
  <2>1. project \in ProjectIds /\ project \in Header!Ids(within)
    <3>1. PICK r \in Header!projects : r.id = project
      BY DEF Header!ProjectSelect, Header!Ids
    <3>2. r \in rows.projects /\ r.organization = page.organization
      BY <1>0, <3>1 DEF Header!projects
    <3>3. r \in Header!ProjectRow
      BY <1>0, <3>2 DEF TenancyRows
    <3> QED BY <3>1, <3>2, <3>3 DEF Header!Ids, Header!ProjectRow
  <2>2. /\ q \in Header!Page /\ q.lists = page.lists /\ q.organization = page.organization /\ q.project = project
        /\ q.storage = [page.storage EXCEPT !.project = project]
    <3>1. None \in OrganizationIds \cup {None} /\ {} \in SUBSET Header!ProjectRow
      OBVIOUS
    <3>2. q \in Header!Page /\ q.lists = page.lists
      BY <1>0, <2>1, <3>1, HeaderSelecting
    <3>3. q = [page EXCEPT !.project = project, !.storage = [page.storage EXCEPT !.project = project]]
      BY <1>0 DEF Header!persistProject, Header!Page
    <3> HIDE DEF q
    <3> QED BY <1>0, <3>2, <3>3 DEF Header!Page
  <2>3. Header!Renders(q, flight)
    BY <1>2 DEF Header!SelectProject
  <2> HIDE DEF q
  <2>4. ASSUME [organization |-> page.organization, project |-> page.project] = Header!Restored(rows, page.storage)
        PROVE  [organization |-> page.organization, project |-> project] = Header!Restored(rows, q.storage)
    <3> DEFINE Organization(storage) ==
                 IF storage.organization \in Header!Ids(rows.organizations) THEN storage.organization ELSE Header!First(rows.organizations)
    <3>1. /\ q.storage.organization = page.storage.organization /\ q.storage.project = project
      BY <1>0, <2>2 DEF Header!Page
    <3>2. Header!Restored(rows, page.storage).organization = Organization(page.storage)
      BY DEF Header!Restored
    <3>3. Organization(q.storage) = page.organization
      BY <2>4, <3>1, <3>2
    <3>4. Header!Restored(rows, q.storage) =
            LET in == {r \in rows.projects : r.organization = Organization(q.storage)} IN
            [organization |-> Organization(q.storage),
             project |-> IF q.storage.project \in Header!Ids(in) THEN q.storage.project ELSE Header!First(in)]
      BY DEF Header!Restored
    <3> HIDE DEF Organization
    <3> QED BY <2>1, <3>1, <3>3, <3>4
  <2>5. Fits(q)
    BY <1>0, <2>2, <2>4 DEF Fits
  <2> QED BY <1>0, <2>2, <2>3, <2>5, RendersHolds
<1> QED BY <1>1, <1>2

(* Nor do the dialogs change what is selected.                               *)
LEMMA DialogsHold ==
  ASSUME HeaderInv, HeaderTyped', NEW kind \in Header!Kinds,
         \/ Header!CloseDialog \/ \E name \in TenantNames : Header!Type(name)
         \/ Header!OpenCreate(kind) \/ Header!OpenRename(kind) \/ Header!OpenDelete(kind)
         \/ Header!handleCreate \/ Header!handleSave \/ Header!handleDelete
  PROVE  HeaderInv'
<1>0. page \in Header!Page
  BY HeaderData DEF HeaderInv, HeaderTyped
<1>1. page'.lists = page.lists /\ page'.organization = page.organization /\ page'.project = page.project /\ page'.storage = page.storage
  <2>1. CASE Header!CloseDialog \/ \E name \in TenantNames : Header!Type(name)
    <3>1. CASE Header!CloseDialog
      BY <1>0, <3>1 DEF Header!CloseDialog, Header!Only, Header!Page
    <3>2. ASSUME NEW name \in TenantNames, Header!Type(name)
          PROVE  /\ page'.lists = page.lists /\ page'.organization = page.organization
                 /\ page'.project = page.project /\ page'.storage = page.storage
      BY <1>0, <3>2 DEF Header!Type, Header!Only, Header!Page
    <3> QED BY <2>1, <3>1, <3>2
  <2>2. CASE Header!OpenCreate(kind) \/ Header!OpenDelete(kind)
    <3>1. CASE Header!OpenCreate(kind)
      BY <1>0, <3>1 DEF Header!OpenCreate, Header!OpenDialog, Header!Only, Header!Page
    <3>2. CASE Header!OpenDelete(kind)
      BY <1>0, <3>2 DEF Header!OpenDelete, Header!Page
    <3> QED BY <2>2, <3>1, <3>2
  <2>3. CASE Header!OpenRename(kind)
    <3> DEFINE name == (CHOOSE row \in Header!Current(kind) : TRUE).name
    <3>1. page' = [page EXCEPT !.dialog = "rename", !.kind = kind, !.typed = name]
      BY <2>3 DEF Header!OpenRename, Header!Only
    <3> HIDE DEF name
    <3> QED BY <1>0, <3>1 DEF Header!Page
  <2>4. CASE Header!handleCreate \/ Header!handleSave \/ Header!handleDelete
    BY <2>4 DEF Header!handleCreate, Header!handleSave, Header!handleDelete
  <2> QED BY <2>1, <2>2, <2>3, <2>4
<1>2. /\ UNCHANGED <<server.organizations, server.projects>>
      /\ \A c \in flight : c \in flight'
      /\ \A c \in flight' : c.op = "select" => c \in flight
  <2>1. CASE Header!CloseDialog \/ \E name \in TenantNames : Header!Type(name)
    BY <2>1 DEF Header!CloseDialog, Header!Type, Header!Only
  <2>2. CASE Header!OpenCreate(kind) \/ Header!OpenRename(kind)
    BY <2>2 DEF Header!OpenCreate, Header!OpenDialog, Header!OpenRename, Header!Only
  <2>3. CASE Header!OpenDelete(kind)
    BY <2>3 DEF Header!OpenDelete
  <2>4. ASSUME NEW call, call.op # "select", Header!Send(call)
        PROVE  /\ UNCHANGED <<server.organizations, server.projects>>
               /\ \A c \in flight : c \in flight'
               /\ \A c \in flight' : c.op = "select" => c \in flight
    BY <2>4 DEF Header!Send
  <2>5. CASE Header!handleCreate \/ Header!handleSave \/ Header!handleDelete
    <3>1. CASE Header!handleCreate
      <4>1. PICK from \in {"header", "overview"} :
              Header!Send([op |-> "create", state |-> "sent", kind |-> page.kind, name |-> page.typed, id |-> None, from |-> from,
                           organization |-> page.organization, listed |-> Header!tenancy.projects])
        BY <3>1 DEF Header!handleCreate
      <4> QED BY <2>4, <4>1
    <3>2. CASE Header!handleSave
      <4>1. PICK row \in Header!Current(page.kind) :
              Header!Send([op |-> "rename", state |-> "sent", kind |-> page.kind, id |-> row.id, name |-> page.typed])
        BY <3>2 DEF Header!handleSave
      <4> QED BY <2>4, <4>1
    <3>3. CASE Header!handleDelete
      <4>1. PICK row \in Header!Current(page.kind) :
              Header!Send([op |-> "delete", state |-> "sent", kind |-> page.kind, id |-> row.id, confirm |-> page.typed])
        BY <3>3 DEF Header!handleDelete
      <4> QED BY <2>4, <4>1
    <3> QED BY <2>5, <3>1, <3>2, <3>3
  <2> QED BY <2>1, <2>2, <2>3, <2>5
<1> QED BY <1>1, <1>2, HeaderHolds DEF HeaderInv

(* What the selections wait for is none of the other calls.                  *)
LEMMA OtherCalls ==
  ASSUME NEW list, NEW calls, NEW after, Waits(list, calls),
         \A c \in after : c.op = "select" => c \in calls, \A c \in calls : c.op = "me" => c \in after
  PROVE  Waits(list, after)
<1>1. \A id : Header!Me(id) \in calls => Header!Me(id) \in after
  BY DEF Header!Me
<1> QED BY <1>1 DEF Waits

(* A write that is carried out is one whose answer starts a load.            *)
LEMMA WrittenHolds ==
  ASSUME HeaderInv, HeaderTyped', UNCHANGED page,
         NEW c \in flight, c.op \in {"create", "rename", "delete"},
         NEW d, d.op = c.op, d.state = "done", flight' = (flight \ {c}) \cup {d}
  PROVE  HeaderInv'
<1>1. Rewritten(flight')
  BY DEF Rewritten
<1>2. HeaderShown(page.lists["tenancy"], flight)'
  BY <1>1 DEF HeaderShown, Rewritten
<1>3. Fits(page)'
  BY DEF HeaderInv, Fits
<1>4. Waits(page.lists["tenancy"], flight')
  BY OtherCalls DEF HeaderInv
<1>5. Waits(page.lists["tenancy"], flight)'
  BY <1>4 DEF Waits
<1> QED BY <1>2, <1>3, <1>5 DEF HeaderInv

(* One that is refused, or a question, changes nothing of this.              *)
LEMMA AnsweredHolds ==
  ASSUME HeaderInv, HeaderTyped', UNCHANGED <<page, server>>,
         NEW c \in flight, c.op \in {"create", "rename", "delete", "impact"}, c.op = "impact" \/ c.state = "sent",
         NEW d, d.op = c.op, flight' = (flight \ {c}) \cup {d}
  PROVE  HeaderInv'
<1>1. Rewritten(flight) => Rewritten(flight')
  BY DEF Rewritten
<1>2. HeaderShown(page.lists["tenancy"], flight')
  BY <1>1 DEF HeaderInv, HeaderShown
<1>3. Waits(page.lists["tenancy"], flight')
  BY OtherCalls DEF HeaderInv
<1> QED BY <1>2, <1>3, HeaderHolds DEF HeaderInv

(* The server's steps.                                                       *)
LEMMA HandledHolds ==
  ASSUME HeaderInv, HeaderTyped', NEW c \in flight, Header!Handle(c)
  PROVE  HeaderInv'
<1>0. c \in Header!Call
  BY HeaderData DEF HeaderInv, HeaderTyped
<1>1. ASSUME NEW state, c.op \in {"rename", "delete", "impact"}
      PROVE  [c EXCEPT !.state = state].op = c.op /\ [c EXCEPT !.state = state].state = state
  BY <1>0, <1>1 DEF Header!Call, Header!Created, Header!Me
<1>2. CASE Header!HandleCreate(c)
  <2>1. c.op = "create" /\ UNCHANGED page
    BY <1>2 DEF Header!HandleCreate
  <2>2. PICK id : flight' = (flight \ {c}) \cup {[c EXCEPT !.state = "done", !.id = id]}
    BY <1>2 DEF Header!HandleCreate
  <2>3. [c EXCEPT !.state = "done", !.id = id].op = c.op /\ [c EXCEPT !.state = "done", !.id = id].state = "done"
    BY <1>0, <2>1 DEF Header!Call, Header!Created, Header!Me
  <2> QED BY <2>1, <2>2, <2>3, WrittenHolds
<1>3. ASSUME c.op \in {"rename", "delete"}, c.state = "sent", UNCHANGED page, NEW organizations, NEW stored,
             Header!Refused(c) \/ Header!Done(c, organizations, stored)
      PROVE  HeaderInv'
  <2>1. \A state : [c EXCEPT !.state = state].op = c.op /\ [c EXCEPT !.state = state].state = state
    BY <1>1, <1>3
  <2>2. CASE Header!Refused(c)
    <3>1. UNCHANGED server /\ flight' = (flight \ {c}) \cup {[c EXCEPT !.state = "refused"]}
      BY <2>2 DEF Header!Refused, Header!Become
    <3> QED BY <1>3, <2>1, <3>1, AnsweredHolds
  <2>3. CASE Header!Done(c, organizations, stored)
    <3> DEFINE d == [c EXCEPT !.state = "done"]
    <3>1. flight' = (flight \ {c}) \cup {d}
      BY <2>3 DEF Header!Done, Header!Become
    <3>2. d.op = c.op /\ d.state = "done"
      BY <2>1
    <3> HIDE DEF d
    <3>3. c.op \in {"create", "rename", "delete"} /\ UNCHANGED page
      BY <1>3
    <3> QED BY <3>1, <3>2, <3>3, WrittenHolds
  <2> QED BY <1>3, <2>2, <2>3
<1>4. CASE Header!HandleRename(c)
  <2> DEFINE Renamed(rows) == {IF row.id = c.id THEN [row EXCEPT !.name = c.name] ELSE row : row \in rows}
  <2>1. c.op = "rename" /\ c.state = "sent" /\ UNCHANGED page
    BY <1>4 DEF Header!HandleRename
  <2>2. \/ Header!Refused(c)
        \/ Header!Done(c, IF c.kind = "organization" THEN Renamed(server.organizations) ELSE server.organizations,
                          IF c.kind = "project" THEN Renamed(server.projects) ELSE server.projects)
    BY <1>4 DEF Header!HandleRename
  <2> HIDE DEF Renamed
  <2> QED BY <1>3, <2>1, <2>2
<1>5. CASE Header!ReadImpact(c)
  <2> DEFINE shared == \E row \in Header!Row(c.kind, c.id) : c.kind = "organization" /\ row.shared
  <2>1. c.op = "impact" /\ UNCHANGED <<page, server>>
    BY <1>5, Zenon DEF Header!ReadImpact
  <2>2. \/ flight' = Header!Become(flight, c, "refused")
        \/ flight' = (flight \ {c}) \cup {[c EXCEPT !.state = "done", !.shared = shared]}
    BY <1>5, Zenon DEF Header!ReadImpact
  <2> HIDE DEF shared
  <2>3. [c EXCEPT !.state = "done", !.shared = shared].op = c.op
    BY <1>0, <2>1 DEF Header!Call, Header!Created, Header!Me
  <2>4. [c EXCEPT !.state = "refused"].op = c.op
    BY <1>1, <2>1
  <2>5. PICK d : d.op = c.op /\ flight' = (flight \ {c}) \cup {d}
    BY <2>2, <2>3, <2>4 DEF Header!Become
  <2> QED BY <2>1, <2>5, AnsweredHolds
<1>6. CASE Header!HandleDelete(c)
  <2> DEFINE organizations == IF c.kind = "organization" THEN server.organizations \ Header!Row(c.kind, c.id) ELSE server.organizations
             stored == {p \in server.projects : IF c.kind = "organization" THEN p.organization # c.id ELSE p.id # c.id}
  <2>1. c.op = "delete" /\ c.state = "sent" /\ UNCHANGED page
    BY <1>6 DEF Header!HandleDelete
  <2>2. Header!Refused(c) \/ Header!Done(c, organizations, stored)
    BY <1>6 DEF Header!HandleDelete
  <2> HIDE DEF organizations, stored
  <2> QED BY <1>3, <2>1, <2>2
<1> QED BY <1>2, <1>4, <1>5, <1>6 DEF Header!Handle

(* There is one when a load is started.                                      *)
LEMMA FetchSome ==
  ASSUME NEW Of, NEW Rows, NEW list \in ListOf(Of, Rows), NEW of
  PROVE  Fetch(list, of).loads # <<>>
<1> DEFINE load == [of |-> of, rows |-> Unread, overtaken |-> FALSE]
<1>1. Fetch(list, of).loads = Append(list.loads, load) /\ list.loads \in Seq(Load(Of, Rows))
  BY DEF Fetch, ListOf
<1> HIDE DEF load
<1>2. Len(Append(list.loads, load)) = Len(list.loads) + 1 /\ Len(list.loads) \in Nat
  BY <1>1
<1> QED BY <1>1, <1>2

(* A load that is started covers those before it if it is a new user's, and  *)
(* uncovers those for its own cause.                                         *)
LEMMA FetchCovers ==
  ASSUME NEW Of, NEW Rows, NEW list \in ListOf(Of, Rows), NEW of, NEW id, of # id
  PROVE  LET loads == Fetch(list, of).loads IN
         /\ Awaited(list.loads, id) => Awaited(loads, id)
         /\ of = "user" \/ Covered(list.loads, id) => Covered(loads, id)
<1> DEFINE load == [of |-> of, rows |-> Unread, overtaken |-> FALSE]
           loads == Append(list.loads, load)
           n == Len(list.loads) + 1
<1>1. Fetch(list, of).loads = loads
  BY DEF Fetch, ListOf
<1>2. list.loads \in Seq(Load(Of, Rows)) /\ DOMAIN list.loads = 1..Len(list.loads) /\ Len(list.loads) \in Nat
  BY DEF ListOf
<1>3. load.of = of
  OBVIOUS
<1> HIDE DEF load
<1>4. /\ loads # <<>> /\ DOMAIN loads = 1..n /\ loads[n] = load
      /\ \A i \in DOMAIN list.loads : i \in DOMAIN loads /\ loads[i] = list.loads[i] /\ n > i
      /\ \A i \in DOMAIN loads : i = n \/ i \in DOMAIN list.loads
      /\ n \in DOMAIN loads
  BY <1>2
<1> HIDE DEF loads, n
<1>5. Awaited(list.loads, id) => Awaited(loads, id)
  BY <1>4 DEF Awaited
<1>6. ASSUME of = "user" PROVE Covered(loads, id)
  BY <1>3, <1>4, <1>6 DEF Covered
<1>7. ASSUME Covered(list.loads, id) PROVE Covered(loads, id)
  BY <1>3, <1>4, <1>7 DEF Covered
<1> QED BY <1>1, <1>4, <1>5, <1>6, <1>7

(* An excused list's loads are covered.                                      *)
LEMMA ExcuseCovers ==
  ASSUME NEW Of, NEW Rows, NEW list \in ListOf(Of, Rows), NEW id
  PROVE  /\ Excuse(list).excused /\ Covered(Excuse(list).loads, id)
         /\ Awaited(list.loads, id) => Awaited(Excuse(list).loads, id)
<1>1. Excuse(list).loads = Overtaken(list.loads) /\ Excuse(list).excused
  BY DEF Excuse, ListOf
<1>2. list.loads \in Seq(Load(Of, Rows)) /\ DOMAIN list.loads = 1..Len(list.loads)
  BY DEF ListOf
<1>3. /\ DOMAIN Overtaken(list.loads) = DOMAIN list.loads
      /\ \A i \in DOMAIN list.loads : Overtaken(list.loads)[i] = [list.loads[i] EXCEPT !.overtaken = TRUE]
  BY DEF Overtaken
<1>4. \A i \in DOMAIN list.loads : Overtaken(list.loads)[i].of = list.loads[i].of /\ Overtaken(list.loads)[i].overtaken
  <2>1. \A i \in DOMAIN list.loads : list.loads[i] \in Load(Of, Rows)
    BY <1>2
  <2> QED BY <1>3, <2>1 DEF Load
<1> QED BY <1>1, <1>3, <1>4 DEF Covered, Awaited

(* What the server reads is not what a load is for.                          *)
LEMMA ReadCovers ==
  ASSUME NEW Of, NEW Rows, NEW list \in ListOf(Of, Rows), NEW i \in DOMAIN list.loads, NEW rows, NEW id
  PROVE  LET loads == Read(list, i, rows).loads IN
         /\ loads # <<>> /\ (Awaited(list.loads, id) => Awaited(loads, id)) /\ (Covered(list.loads, id) => Covered(loads, id))
<1> DEFINE loads == [list.loads EXCEPT ![i] = [list.loads[i] EXCEPT !.rows = rows]]
<1>1. Read(list, i, rows).loads = loads
  BY DEF Read, ListOf
<1>2. list.loads \in Seq(Load(Of, Rows)) /\ DOMAIN list.loads = 1..Len(list.loads)
  BY DEF ListOf
<1>3. \A j \in DOMAIN list.loads : loads[j].of = list.loads[j].of /\ loads[j].overtaken = list.loads[j].overtaken
  <2>1. \A j \in DOMAIN list.loads : list.loads[j] \in Load(Of, Rows)
    BY <1>2
  <2> QED BY <2>1 DEF Load
<1>4. DOMAIN loads = DOMAIN list.loads
  OBVIOUS
<1> HIDE DEF loads
<1>5. loads # <<>>
  BY <1>4
<1> QED BY <1>1, <1>3, <1>4, <1>5 DEF Awaited, Covered

(* What two sequences are when joined.                                       *)
LEMMA JoinedLoads ==
  ASSUME NEW S, NEW s \in Seq(S), NEW t \in Seq(S)
  PROVE  /\ s \o t \in Seq(S) /\ Len(s \o t) = Len(s) + Len(t)
         /\ \A j \in 1..Len(s) : (s \o t)[j] = s[j]
         /\ \A j \in 1..Len(t) : (s \o t)[Len(s) + j] = t[j]
<1>1. s \o t \in Seq(S) /\ Len(s \o t) = Len(s) + Len(t)
  OBVIOUS
<1>2. \A j \in 1..Len(s) : (s \o t)[j] = s[j]
  OBVIOUS
<1>3. \A j \in 1..Len(t) : (s \o t)[Len(s) + j] = t[j]
  OBVIOUS
<1> QED BY <1>1, <1>2, <1>3

(* The loads that are left are covered as they were, and the last of those   *)
(* that were covered was overtaken.                                          *)
LEMMA SettleCovers ==
  ASSUME NEW Of, NEW Rows, NEW list \in ListOf(Of, Rows), NEW i \in DOMAIN list.loads, NEW rows, NEW excused, NEW id,
         Covered(list.loads, id)
  PROVE  LET loads == Settle(list, i, rows, excused).loads IN
         Covered(loads, id) /\ (Awaited(list.loads, id) => loads # <<>> \/ list.loads[i].overtaken)
<1> DEFINE n == Len(list.loads)
           before == SubSeq(list.loads, 1, i - 1)
           after == SubSeq(list.loads, i + 1, n)
           loads == Overtaken(before) \o after
<1>1. list.loads \in Seq(Load(Of, Rows)) /\ DOMAIN list.loads = 1..n /\ i \in 1..n /\ n \in Nat
  BY DEF ListOf
<1>2. Settle(list, i, rows, excused).loads = loads
  BY DEF Settle
<1>3. /\ before \in Seq(Load(Of, Rows)) /\ Len(before) = i - 1
  BY <1>1
<1>4. /\ after \in Seq(Load(Of, Rows)) /\ Len(after) = n - i
      /\ \A j \in 1..(n - i) : after[j] = list.loads[i + j]
  BY <1>1
<1> HIDE DEF before, after
<1>5. /\ Overtaken(before) \in Seq(Load(Of, Rows)) /\ Len(Overtaken(before)) = i - 1
      /\ \A j \in 1..(i - 1) : Overtaken(before)[j] = [before[j] EXCEPT !.overtaken = TRUE]
  BY <1>3, OvertakenTyped
<1>6. /\ DOMAIN loads = 1..(n - 1)
      /\ \A j \in 1..(i - 1) : loads[j] = Overtaken(before)[j]
      /\ \A j \in i..(n - 1) : loads[j] = list.loads[j + 1]
  <2> DEFINE first == Overtaken(before)
  <2>1. first \in Seq(Load(Of, Rows)) /\ Len(first) = i - 1
    BY <1>5
  <2> HIDE DEF first
  <2>2. /\ Len(first \o after) = (i - 1) + (n - i)
        /\ \A j \in 1..(i - 1) : (first \o after)[j] = first[j]
        /\ \A j \in 1..(n - i) : (first \o after)[(i - 1) + j] = after[j]
        /\ first \o after \in Seq(Load(Of, Rows))
    <3>0. first \in Seq(Load(Of, Rows)) /\ after \in Seq(Load(Of, Rows))
      BY <1>4, <2>1
    <3>1. /\ first \o after \in Seq(Load(Of, Rows)) /\ Len(first \o after) = Len(first) + Len(after)
          /\ \A j \in 1..Len(first) : (first \o after)[j] = first[j]
          /\ \A j \in 1..Len(after) : (first \o after)[Len(first) + j] = after[j]
      BY <3>0, JoinedLoads
    <3> QED BY <1>4, <2>1, <3>1
  <2>3. /\ DOMAIN (first \o after) = 1..(n - 1)
    BY <1>1, <2>2
  <2>4. ASSUME NEW j \in i..(n - 1) PROVE (first \o after)[j] = list.loads[j + 1]
    <3>1. PICK k \in 1..(n - i) : j = (i - 1) + k /\ i + k = j + 1
      <4>1. j - i + 1 \in 1..(n - i) /\ j = (i - 1) + (j - i + 1) /\ i + (j - i + 1) = j + 1
        BY <1>1
      <4> QED BY <4>1
    <3> QED BY <1>4, <2>2, <3>1
  <2> QED BY <2>2, <2>3, <2>4 DEF first
<1> HIDE DEF loads
<1>7. \A j \in 1..(i - 1) : loads[j].overtaken
  <2>1. \A j \in 1..(i - 1) : before[j] \in Load(Of, Rows)
    BY <1>3
  <2>2. \A j \in 1..(i - 1) : loads[j] = [before[j] EXCEPT !.overtaken = TRUE]
    BY <1>5, <1>6
  <2> QED BY <2>1, <2>2 DEF Load
<1>8. Covered(loads, id)
  <2> SUFFICES ASSUME NEW j \in 1..(n - 1), loads[j].of = id, ~loads[j].overtaken
               PROVE  \E k \in 1..(n - 1) : k > j /\ loads[k].of = "user"
    BY <1>6 DEF Covered
  <2>1. j \in i..(n - 1) /\ j + 1 \in 1..n
    BY <1>1, <1>7
  <2>2. loads[j] = list.loads[j + 1]
    BY <1>6, <2>1
  <2>3. PICK k \in 1..n : k > j + 1 /\ list.loads[k].of = "user"
    BY <1>1, <2>1, <2>2 DEF Covered
  <2>4. k - 1 \in i..(n - 1) /\ k - 1 \in 1..(n - 1) /\ k - 1 > j /\ (k - 1) + 1 = k
    BY <1>1, <2>1, <2>3
  <2>5. loads[k - 1] = list.loads[k]
    BY <1>6, <2>4
  <2> QED BY <2>3, <2>4, <2>5
<1>9. ASSUME Awaited(list.loads, id), loads = <<>> PROVE list.loads[i].overtaken
  <2>1. n = 1 /\ i = 1
    <3>1. ~(1 \in 1..(n - 1))
      <4>1. DOMAIN loads = {}
        BY <1>9
      <4> QED BY <1>6, <4>1
    <3>2. \A m \in Nat : \A k \in 1..m : ~(1 \in 1..(m - 1)) => m = 1 /\ k = 1
      OBVIOUS
    <3> HIDE DEF n
    <3> QED BY <1>1, <3>1, <3>2
  <2> QED BY <1>1, <1>9, <2>1 DEF Awaited, Covered
<1> QED BY <1>2, <1>8, <1>9

(* A load that is started for the header's list.                             *)
LEMMA LoadOne ==
  ASSUME NEW p \in Header!Page, NEW by
  PROVE  Header!load(p, by).lists["tenancy"] = Fetch(p.lists["tenancy"], by)
<1>1. DOMAIN p.lists = {"tenancy"} /\ "lists" \in DOMAIN p
  BY DEF Header!Page
<1>2. Header!load(p, by).lists = Refetch(p.lists, "tenancy", by, by, [tenancy |-> Header!Stored], {"tenancy"})
  BY <1>1, HeaderSame DEF Header!load
<1> QED BY <1>1, <1>2 DEF Refetch

(* So a refresh leaves a load that the server has yet to read for, and the   *)
(* question of /auth/me/.                                                    *)
LEMMA RefreshHolds ==
  ASSUME HeaderInv, HeaderTyped', NEW p \in Header!Page, p.lists = page.lists,
         NEW id \in OrganizationIds \cup ProjectIds, page' = Header!load(p, id), UNCHANGED server, Header!Me(id) \in flight',
         \A d \in flight' : d.op = "select" => d \in flight \/ d.id = id, \A d \in flight : d.op = "me" => d \in flight'
  PROVE  HeaderInv'
<1> DEFINE list == page.lists["tenancy"]
           new == Fetch(list, id)
<1>1. list \in ListOf(Header!Causes, TenancyRows) /\ Waits(list, flight)
  BY HeaderData DEF HeaderInv, HeaderTyped
<1>2. page'.lists["tenancy"] = new
  BY LoadOne
<1>3. HeaderShown(new, flight')
  BY <1>1, FetchCurrent DEF HeaderShown
<1>4. ASSUME NEW d \in flight', d.op = "select"
      PROVE  Header!Me(d.id) \in flight' \/ (Awaited(new.loads, d.id) /\ Covered(new.loads, d.id))
  <2>1. CASE d.id = id
    BY <2>1
  <2>2. CASE d.id # id
    <3>1. Header!Me(d.id) \in flight \/ (Awaited(list.loads, d.id) /\ Covered(list.loads, d.id))
      BY <1>1, <1>4, <2>2 DEF Waits
    <3>2. Header!Me(d.id) \in flight => Header!Me(d.id) \in flight'
      BY DEF Header!Me
    <3>3. /\ Awaited(list.loads, d.id) => Awaited(new.loads, d.id)
          /\ Covered(list.loads, d.id) => Covered(new.loads, d.id)
      <4>1. id # d.id
        BY <2>2
      <4>2. Awaited(list.loads, d.id) => Awaited(new.loads, d.id)
        BY <1>1, <4>1, FetchCovers
      <4>3. id = "user" \/ Covered(list.loads, d.id) => Covered(new.loads, d.id)
        BY <1>1, <4>1, FetchCovers
      <4> QED BY <4>2, <4>3
    <3> QED BY <3>1, <3>2, <3>3
  <2> QED BY <2>1, <2>2
<1>5. new.loads # <<>>
  BY <1>1, FetchSome
<1> HIDE DEF new
<1>6. Waits(page'.lists["tenancy"], flight') /\ HeaderShown(page'.lists["tenancy"], flight')
  BY <1>2, <1>3, <1>4 DEF Waits
<1>7. Fits(page')
  BY <1>2, <1>5 DEF Fits
<1> QED BY <1>6, <1>7, HeaderHolds

(* Nothing of the selection changes, and the calls but one stay.             *)
LEMMA DropHolds ==
  ASSUME HeaderInv, HeaderTyped', NEW c \in flight, c.op # "me", c.op = "impact" \/ c.state # "done", flight' = flight \ {c}, UNCHANGED server,
         page'.lists = page.lists, page'.organization = page.organization, page'.project = page.project, page'.storage = page.storage
  PROVE  HeaderInv'
<1>1. HeaderShown(page.lists["tenancy"], flight')
  BY DEF HeaderInv, HeaderShown, Rewritten
<1>2. Waits(page.lists["tenancy"], flight')
  BY OtherCalls DEF HeaderInv
<1> QED BY <1>1, <1>2, HeaderHolds DEF HeaderInv

(* What the handlers do when their call is answered.                         *)
LEMMA ReturnsHold ==
  ASSUME HeaderInv, HeaderTyped', NEW c \in flight, Header!Return(c)
  PROVE  HeaderInv'
<1> DEFINE list == page.lists["tenancy"]
<1>0. /\ page \in Header!Page /\ c \in Header!Call /\ flight \ {c} \in SUBSET Header!Call
      /\ list \in ListOf(Header!Causes, TenancyRows)
      /\ HeaderShown(list, flight) /\ Fits(page) /\ Waits(list, flight)
  BY HeaderData DEF HeaderInv, HeaderTyped
<1>1. Header!Closed(c) \in Header!Page /\ Header!Closed(c).lists = page.lists
  <2>1. [page EXCEPT !.dialog = "none", !.typed = None] \in Header!Page
    BY <1>0 DEF Header!Page
  <2>2. [page EXCEPT !.dialog = "none", !.typed = None].lists = page.lists
    BY <1>0 DEF Header!Page
  <2> QED BY <1>0, <2>1, <2>2 DEF Header!Closed
<1>2. CASE Header!OrganizationCreated(c)
  <2>1. c.op = "create" /\ c.state = "done" /\ c.kind = "organization"
    BY <1>2 DEF Header!OrganizationCreated
  <2>2. c.id \in OrganizationIds
    BY <1>0, <2>1 DEF Header!Call, Header!Created, Header!Me
  <2>3. /\ page' = Header!load(Header!Closed(c), c.id) /\ UNCHANGED server
        /\ flight' = (flight \ {c}) \cup {Header!Me(c.id), [op |-> "select", state |-> "done", id |-> c.id, listed |-> c.listed]}
    BY <1>2 DEF Header!OrganizationCreated, Header!refresh
  <2>4. \A d \in flight' : d.op = "select" => d \in flight \/ d.id = c.id
    BY <2>3 DEF Header!Me
  <2> QED BY <1>1, <2>1, <2>2, <2>3, <2>4, RefreshHolds
<1>3. CASE Header!ProjectCreated(c)
  <2> DEFINE p == IF c.from = "header" THEN Header!persistProject(Header!Closed(c), c.id) ELSE Header!Closed(c)
  <2>1. c.op = "create" /\ c.state = "done" /\ c.kind = "project"
    BY <1>3 DEF Header!ProjectCreated
  <2>2. c \in Header!Created({"project"}, ProjectIds, OrganizationIds)
    BY <1>0, <2>1 DEF Header!Call, Header!Created, Header!Me
  <2>3. c.id \in ProjectIds
    BY <2>1, <2>2 DEF Header!Created
  <2>4. p \in Header!Page /\ p.lists = page.lists
    <3>1. None \in OrganizationIds \cup {None} /\ {} \in SUBSET Header!ProjectRow
      OBVIOUS
    <3>2. Header!persistProject(Header!Closed(c), c.id) \in Header!Page
          /\ Header!persistProject(Header!Closed(c), c.id).lists = Header!Closed(c).lists
      BY <1>1, <2>3, <3>1, HeaderSelecting
    <3> QED BY <1>1, <3>2
  <2>5. /\ page' = Header!load(Header!Remaining(p), c.id) /\ UNCHANGED server
        /\ flight' = (flight \ {c}) \cup {Header!Me(c.id)}
    BY <1>3 DEF Header!ProjectCreated, Header!refresh
  <2>6. \A d \in flight' : d.op = "select" => d \in flight
    BY <2>5 DEF Header!Me
  <2> HIDE DEF p
  <2>7. Header!Remaining(p) \in Header!Page /\ Header!Remaining(p).lists = page.lists
    BY <2>4, HeaderRemaining
  <2> QED BY <2>1, <2>3, <2>5, <2>6, <2>7, RefreshHolds
<1>4. CASE Header!RenamedOrDeleted(c)
  <2>1. /\ page' = Header!load(Header!Closed(c), c.id) /\ UNCHANGED server
        /\ flight' = (flight \ {c}) \cup {Header!Me(c.id)} /\ c.op \in {"rename", "delete"}
    BY <1>4 DEF Header!RenamedOrDeleted, Header!refresh
  <2>2. c.id \in OrganizationIds \cup ProjectIds
    BY <1>0, <2>1 DEF Header!Call, Header!Created, Header!Me
  <2>3. \A d \in flight' : d.op = "select" => d \in flight
    BY <2>1 DEF Header!Me
  <2> QED BY <1>1, <2>1, <2>2, <2>3, RefreshHolds
<1>5. CASE Header!ImpactFetched(c)
  <2> DEFINE impact == [page.impact EXCEPT ![c.kind] = [of |-> c.id, shared |-> c.shared]]
             loading == [page.isLoadingImpact EXCEPT ![c.kind] = FALSE]
  <2>1. /\ page' = [page EXCEPT !.impact = impact, !.isLoadingImpact = loading] /\ UNCHANGED server /\ flight' = flight \ {c}
        /\ c.op = "impact"
    BY <1>0, <1>5 DEF Header!ImpactFetched, Header!Page
  <2> HIDE DEF impact, loading
  <2>2. page'.lists = page.lists /\ page'.organization = page.organization /\ page'.project = page.project /\ page'.storage = page.storage
    BY <1>0, <2>1 DEF Header!Page
  <2> QED BY <2>1, <2>2, DropHolds
<1>6. CASE Header!UserReplaced(c)
  <2> DEFINE p == Header!load(page, "user")
             new == Fetch(list, "user")
  <2>1. Room(page.lists, "tenancy") /\ Header!SelectCreated(p, flight \ {c})
    BY <1>6, HeaderSame DEF Header!UserReplaced
  <2>2. p \in Header!Page
    BY <1>0, <2>1, HeaderRefresh, HeaderData DEF HeaderInv, HeaderTyped, Header!Causes
  <2>3. p.lists["tenancy"] = new
    BY <1>0, LoadOne
  <2> HIDE DEF p
  <2>4. HeaderShown(p.lists["tenancy"], flight \ {c})
    BY <1>0, <2>3, FetchCurrent DEF HeaderShown
  <2>5. ASSUME NEW id \in OrganizationIds PROVE Covered(new.loads, id)
    <3>1. "user" # id
      BY HeaderAssumption
    <3>2. "user" = "user" \/ Covered(list.loads, id) => Covered(new.loads, id)
      BY <1>0, <3>1, FetchCovers
    <3> QED BY <3>2
  <2>6. new.loads # <<>>
    BY <1>0, FetchSome
  <2> HIDE DEF new
  <2>7. Ready(p.lists["tenancy"], flight \ {c})
    <3>1. \A d \in flight \ {c} : d.op = "select" => d.id \in OrganizationIds
      BY <1>0 DEF Header!Call, Header!Created, Header!Me
    <3> QED BY <2>3, <2>5, <2>6, <3>1 DEF Ready
  <2>8. Fits(p)
    BY <2>3, <2>6 DEF Fits
  <2> QED BY <1>0, <2>1, <2>2, <2>4, <2>7, <2>8, SelectCreatedHolds
<1>7. CASE Header!UserNotReplaced(c)
  <2>1. c.op = "me" /\ c = Header!Me(c.of)
    BY <1>0, <1>7 DEF Header!UserNotReplaced, Header!Call, Header!Created, Header!Me
  <2>2. CASE \E d \in flight : d.op = "select" /\ d.id = c.of
    <3> DEFINE p == [page EXCEPT !.lists = ExcuseAll(page.lists, {"tenancy"})]
               new == Excuse(list)
    <3>1. Header!SelectCreated(p, flight \ {c})
      <4>1. p = [page EXCEPT !.lists = Header!ExcuseAll(@, {"tenancy"})]
        BY HeaderSame
      <4> HIDE DEF p
      <4> QED BY <1>7, <2>2, <4>1 DEF Header!UserNotReplaced
    <3>2. p \in Header!Page
      <4>1. HeaderLists(ExcuseAll(page.lists, {"tenancy"}))
        BY HeaderData, ExcuseAllTyped DEF HeaderLists, HeaderInv, HeaderTyped
      <4>2. ExcuseAll(page.lists, {"tenancy"}) \in [tenancy : Header!ListOf(Header!Causes, TenancyRows)]
        BY <4>1, HeaderListsTyped
      <4> QED BY <1>0, <4>2 DEF Header!Page, TenancyRows
    <3>3. p.lists["tenancy"] = new
      BY <1>0 DEF ExcuseAll, Header!Page
    <3> HIDE DEF p
    <3>4. HeaderShown(p.lists["tenancy"], flight \ {c})
      BY <1>0, <3>3, ExcuseCurrent DEF HeaderShown
    <3>5. \A id : Covered(new.loads, id) /\ new.excused
      BY <1>0, ExcuseCovers
    <3> HIDE DEF new
    <3>6. Ready(p.lists["tenancy"], flight \ {c}) /\ Fits(p)
      BY <3>3, <3>5 DEF Ready, Fits
    <3> QED BY <1>0, <3>1, <3>2, <3>4, <3>6, SelectCreatedHolds
  <2>3. CASE ~\E d \in flight : d.op = "select" /\ d.id = c.of
    <3>1. Header!SelectCreated(page, flight \ {c})
      BY <1>7, <2>3 DEF Header!UserNotReplaced
    <3>2. HeaderShown(list, flight \ {c})
      BY <1>0, <2>1 DEF HeaderShown, Rewritten
    <3>3. Waits(list, flight \ {c})
      <4>1. \A id : Header!Me(id) = c => id = c.of
        BY <2>1 DEF Header!Me
      <4> QED BY <1>0, <2>3, <4>1 DEF Waits
    <3>4. Ready(list, flight \ {c})
      BY <1>0, <3>3, WaitsReady
    <3> QED BY <1>0, <3>1, <3>2, <3>4, SelectCreatedHolds
  <2> QED BY <2>2, <2>3
<1>8. CASE Header!Failed(c)
  <2> DEFINE loading == IF c.op = "impact" THEN [page.isLoadingImpact EXCEPT ![c.kind] = FALSE] ELSE page.isLoadingImpact
             lost == c.op \in {"create", "rename", "delete"} /\ c.state = "done"
             lists == IF lost THEN ExcuseAll(page.lists, {"tenancy"}) ELSE page.lists
  <2>1. /\ page' = [page EXCEPT !.isLoadingImpact = loading, !.lists = lists] /\ UNCHANGED server /\ flight' = flight \ {c}
        /\ c.op \notin {"select", "me"}
    BY <1>0, <1>8, HeaderSame DEF Header!Failed, Header!Page
  <2> HIDE DEF loading
  <2>2. page'.lists = lists /\ page'.organization = page.organization /\ page'.project = page.project /\ page'.storage = page.storage
    <3> HIDE DEF lists
    <3> QED BY <1>0, <2>1 DEF Header!Page
  <2>3. CASE lost
    <3> DEFINE new == Excuse(list)
    <3>1. page'.lists["tenancy"] = new
      BY <1>0, <2>2, <2>3 DEF ExcuseAll, Header!Page
    <3>2. HeaderShown(new, flight')
      BY <1>0, ExcuseCurrent DEF HeaderShown
    <3>3. \A id : Covered(new.loads, id) /\ new.excused /\ (Awaited(list.loads, id) => Awaited(new.loads, id))
      BY <1>0, ExcuseCovers
    <3> HIDE DEF new
    <3>4. Fits(page')
      BY <3>1, <3>3 DEF Fits
    <3>5. Waits(list, flight')
      BY <1>0, <2>1, OtherCalls
    <3>6. Waits(new, flight')
      BY <3>3, <3>5 DEF Waits
    <3> QED BY <2>1, <3>1, <3>2, <3>4, <3>6, HeaderHolds
  <2>4. CASE ~lost
    <3>1. c.op = "impact" \/ c.state # "done"
      BY <1>0, <2>1, <2>4 DEF Header!Call, Header!Created, Header!Me
    <3> QED BY <2>1, <2>2, <2>4, <3>1, DropHolds
  <2> QED BY <2>3, <2>4
<1> QED BY <1>2, <1>3, <1>4, <1>5, <1>6, <1>7, <1>8 DEF Header!Return

(* A load that ended with its list as it makes it leaves a page to go on     *)
(* with: what waited for it was covered.                                     *)
LEMMA EndedReady ==
  ASSUME HeaderInv, NEW i \in DOMAIN page.lists["tenancy"].loads, NEW rows, NEW excused,
         page.lists["tenancy"].loads[i].overtaken => excused
  PROVE  Ready(Settle(page.lists["tenancy"], i, rows, excused), flight)
<1> DEFINE list == page.lists["tenancy"]
           new == Settle(list, i, rows, excused)
<1>1. list \in ListOf(Header!Causes, TenancyRows) /\ Waits(list, flight)
  BY HeaderData DEF HeaderInv, HeaderTyped
<1>2. new.excused = excused
  BY DEF Settle
<1>3. ASSUME NEW id, Covered(list.loads, id), Awaited(list.loads, id)
      PROVE  Covered(new.loads, id) /\ (new.loads # <<>> \/ new.excused)
  <2>1. Covered(new.loads, id) /\ (Awaited(list.loads, id) => new.loads # <<>> \/ list.loads[i].overtaken)
    BY <1>1, <1>3, SettleCovers
  <2> QED BY <1>2, <1>3, <2>1
<1> HIDE DEF new
<1>4. Ready(new, flight)
  BY <1>1, <1>3 DEF Waits, Ready
<1> QED BY <1>4 DEF new

(* A load is read, lands or fails.                                           *)
LEMMA LoadsHold ==
  ASSUME HeaderInv, HeaderTyped', NEW i \in DOMAIN page.lists["tenancy"].loads,
         Header!ReadLoad(i) \/ Header!LandLoad(i) \/ Header!FailLoad(i)
  PROVE  HeaderInv'
<1> DEFINE list == page.lists["tenancy"]
<1>0. /\ page \in Header!Page /\ flight \in SUBSET Header!Call /\ HeaderLists(page.lists)
      /\ list \in ListOf(Header!Causes, TenancyRows) /\ Header!Stored \in TenancyRows
      /\ HeaderShown(list, flight) /\ Fits(page) /\ Waits(list, flight)
  BY HeaderData DEF HeaderInv, HeaderTyped
<1>1. ASSUME NEW new \in ListOf(Header!Causes, TenancyRows), NEW p \in Header!Page
      PROVE  LET q == [p EXCEPT !.lists = [page.lists EXCEPT !["tenancy"] = new]] IN
             /\ q \in Header!Page /\ q.lists["tenancy"] = new
             /\ q.organization = p.organization /\ q.project = p.project /\ q.storage = p.storage
  <2> DEFINE lists == [page.lists EXCEPT !["tenancy"] = new]
  <2>1. HeaderLists(lists)
    BY <1>0, OneListTyped DEF HeaderLists
  <2>2. lists \in [tenancy : Header!ListOf(Header!Causes, TenancyRows)]
    BY <2>1, HeaderListsTyped
  <2>3. lists["tenancy"] = new
    BY <1>0 DEF Header!Page
  <2> HIDE DEF lists
  <2>4. [p EXCEPT !.lists = lists] \in Header!Page
    BY <2>2 DEF Header!Page, TenancyRows
  <2> QED BY <2>3, <2>4 DEF Header!Page, lists
<1>2. list.loads[i] \in Load(Header!Causes, TenancyRows)
  BY <1>0 DEF ListOf
<1>3. "user" \in Header!Causes /\ list.loads[i].of \in Header!Causes
  BY <1>2 DEF Header!Causes, Load
<1>4. CASE Header!ReadLoad(i)
  <2> DEFINE new == Read(list, i, Header!Stored)
  <2>1. page' = [page EXCEPT !.lists = [page.lists EXCEPT !["tenancy"] = new]] /\ UNCHANGED <<server, flight>>
    BY <1>4, HeaderSame DEF Header!ReadLoad, Header!Only
  <2>2. new \in ListOf(Header!Causes, TenancyRows)
    BY <1>0, ReadTyped
  <2>3. HeaderShown(new, flight)
    <3>1. HeaderShows[list.loads[i].of] = Header!Stored
      BY <1>3 DEF HeaderShows
    <3>2. Current(list, HeaderShows, "user") => Current(new, HeaderShows, "user")
      BY <1>0, <3>1, ReadCurrent
    <3> QED BY <1>0, <3>2 DEF HeaderShown
  <2>4. \A id : /\ new.loads # <<>> /\ (Awaited(list.loads, id) => Awaited(new.loads, id))
                /\ Covered(list.loads, id) => Covered(new.loads, id)
    BY <1>0, ReadCovers
  <2> HIDE DEF new
  <2>5. /\ page'.lists["tenancy"] = new
    BY <1>0, <1>1, <2>1, <2>2
  <2>6. Fits(page')
    BY <2>4, <2>5 DEF Fits
  <2>7. Waits(new, flight)
    BY <1>0, <2>4 DEF Waits
  <2> QED BY <2>1, <2>3, <2>5, <2>6, <2>7, HeaderHolds
<1>5. CASE Header!LandLoad(i)
  <2> DEFINE rows == list.loads[i].rows
             restored == Header!Restored(rows, page.storage)
             selected == Header!Selecting(page, restored)
             new == Land(list, i, list.loads[i].of)
             p == [selected EXCEPT !.lists = [page.lists EXCEPT !["tenancy"] = new]]
  <2>1. ~Unanswered(list, i)
    BY <1>5, HeaderSame, Zenon DEF Header!LandLoad
  <2>2. new \in ListOf(Header!Causes, TenancyRows)
    BY <1>0, <2>1, LandTyped
  <2>3. rows \in TenancyRows
    BY <1>2, <2>1 DEF Unanswered, Load
  <2>4. restored = [organization |-> restored.organization, project |-> restored.project]
    BY DEF Header!Restored
  <2>5. /\ selected \in Header!Page /\ selected.lists = page.lists /\ selected.storage = page.storage
        /\ selected.organization = restored.organization /\ selected.project = restored.project
    <3>1. restored.organization \in OrganizationIds \cup {None} /\ restored.project \in ProjectIds \cup {None}
      BY <2>3, HeaderRestored
    <3>2. selected = [page EXCEPT !.organization = restored.organization, !.project = restored.project]
      BY DEF Header!Selecting
    <3> HIDE DEF restored, selected
    <3> QED BY <1>0, <3>1, <3>2, Zenon DEF Header!Page
  <2>6. Header!SelectCreated([selected EXCEPT !.lists = [selected.lists EXCEPT !["tenancy"] = Land(selected.lists["tenancy"], i, list.loads[i].of)]], flight)
    <3>1. Header!SelectCreated([Header!Selecting(page, Header!Restored(page.lists["tenancy"].loads[i].rows, page.storage)) EXCEPT
                            !.lists["tenancy"] = Header!Land(@, i, page.lists["tenancy"].loads[i].of)], flight)
      BY <1>5, Zenon DEF Header!LandLoad
    <3> QED BY <3>1, HeaderSame, Zenon
  <2>7. new.rows = rows /\ Ready(new, flight)
    BY <1>3, EndedReady DEF Land, Settle
  <2>8. HeaderShown(new, flight)
    <3>1. HeaderShows[list.loads[i].of] = HeaderShows["user"]
      BY <1>3 DEF HeaderShows
    <3>2. Current(list, HeaderShows, "user") => Current(new, HeaderShows, "user")
      BY <1>0, <2>1, <3>1, LandCurrent
    <3> QED BY <1>0, <3>2 DEF HeaderShown
  <2> HIDE DEF selected, new
  <2>9. Header!SelectCreated(p, flight)
    BY <2>5, <2>6 DEF new
  <2>10. /\ p \in Header!Page /\ p.lists["tenancy"] = new /\ p.storage = page.storage
         /\ p.organization = restored.organization /\ p.project = restored.project
    BY <1>1, <2>2, <2>5
  <2> HIDE DEF p
  <2>11. Fits(p)
    BY <2>4, <2>7, <2>10 DEF Fits
  <2> QED BY <1>0, <2>7, <2>8, <2>9, <2>10, <2>11, SelectCreatedHolds
<1>6. CASE Header!FailLoad(i)
  <2> DEFINE selected == Header!Selecting(page, [organization |-> None, project |-> None])
             new == FailTo(list, i, Header!Empty)
             p == [selected EXCEPT !.lists = [page.lists EXCEPT !["tenancy"] = new]]
  <2>1. new \in ListOf(Header!Causes, TenancyRows)
    <3>1. Header!Empty \in TenancyRows
      BY DEF Header!Empty, TenancyRows
    <3> QED BY <1>0, <3>1, FailTyped
  <2>2. selected \in Header!Page /\ selected.lists = page.lists
    BY <1>0, Zenon DEF Header!Selecting, Header!Page
  <2>3. Header!SelectCreated([selected EXCEPT !.lists = [selected.lists EXCEPT !["tenancy"] = FailTo(selected.lists["tenancy"], i, Header!Empty)]], flight)
    <3>1. Header!SelectCreated([Header!Selecting(page, [organization |-> None, project |-> None]) EXCEPT
                            !.lists["tenancy"] = Header!FailTo(@, i, Header!Empty)], flight)
      BY <1>6 DEF Header!FailLoad
    <3> QED BY <3>1, HeaderSame
  <2>4. new.excused /\ Ready(new, flight)
    BY EndedReady DEF FailTo, Settle
  <2>5. HeaderShown(new, flight)
    BY <1>0, FailCurrent DEF HeaderShown
  <2> HIDE DEF selected, new
  <2>6. Header!SelectCreated(p, flight)
    BY <2>2, <2>3 DEF new
  <2>7. p \in Header!Page /\ p.lists["tenancy"] = new
    BY <1>1, <2>1, <2>2
  <2> HIDE DEF p
  <2>8. Fits(p)
    BY <2>4, <2>7 DEF Fits
  <2> QED BY <1>0, <2>4, <2>5, <2>6, <2>7, <2>8, SelectCreatedHolds
<1> QED BY <1>4, <1>5, <1>6

(* No step breaks the header's invariant.                                    *)
LEMMA HeaderStep == ASSUME HeaderInv, Header!Next \/ UNCHANGED vars PROVE HeaderInv'
<1>0. HeaderTyped'
  BY HeaderTypedStep DEF HeaderInv
<1>1. CASE UNCHANGED vars
  BY <1>0, <1>1, HeaderHolds DEF vars, HeaderInv
<1>2. CASE Header!Next
  <2>1. CASE Header!Header
    <3>1. "project" \in Header!Kinds
      BY DEF Header!Kinds
    <3> QED BY <1>0, <2>1, <3>1, SelectsHold, DialogsHold DEF Header!Header
  <2>2. CASE \/ Header!handleCreate \/ Header!handleSave \/ Header!handleDelete
             \/ \E kind \in Header!Kinds : Header!OpenCreate(kind) \/ Header!OpenRename(kind) \/ Header!OpenDelete(kind)
    <3>1. "project" \in Header!Kinds
      BY DEF Header!Kinds
    <3> QED BY <1>0, <2>2, <3>1, DialogsHold
  <2> QED BY <1>0, <1>2, <2>1, <2>2, HandledHolds, ReturnsHold, LoadsHold DEF Header!Next
<1> QED BY <1>1, <1>2

(* It holds at first.                                                        *)
LEMMA HeaderInit == ASSUME Header!Init PROVE HeaderInv
<1>0. HeaderTyped
  BY HeaderTypedInit
<1> DEFINE first == Header!List(Header!Stored)
<1>1. PICK doing \in {"creating", "renaming", "deleting"}, organization \in {None} \cup Header!Ids(InitialOrganizations) :
        page = Header!Selecting(
          [doing |-> doing, lists |-> [tenancy |-> first],
           storage |-> [organization |-> organization, project |-> None], organization |-> None, project |-> None,
           dialog |-> "none", kind |-> "project", typed |-> None, impact |-> [kind \in Header!Kinds |-> None],
           isLoadingImpact |-> [kind \in Header!Kinds |-> FALSE]],
          Header!Restored(Header!Stored, [organization |-> organization, project |-> None]))
  BY DEF Header!Init
<1> DEFINE storage == [organization |-> organization, project |-> None]
           restored == Header!Restored(Header!Stored, storage)
<1>2. first = List(Header!Stored) /\ flight = {} /\ first.rows = Header!Stored /\ first.loads = <<>>
  BY HeaderSame DEF Header!Init, List
<1>3. restored = [organization |-> restored.organization, project |-> restored.project]
  BY DEF Header!Restored
<1> HIDE DEF first, storage
<1>4. /\ page.lists["tenancy"] = first /\ page.storage = storage
      /\ page.organization = restored.organization /\ page.project = restored.project
  BY <1>1 DEF Header!Selecting, storage
<1> HIDE DEF restored
<1>5. Fits(page)
  BY <1>2, <1>3, <1>4 DEF Fits, restored
<1>6. HeaderShown(page.lists["tenancy"], flight)
  <2>1. Header!Stored = HeaderShows["user"]
    BY DEF HeaderShows, Header!Causes
  <2> QED BY <1>2, <1>4, <2>1, FirstCurrent DEF HeaderShown
<1>7. Waits(page.lists["tenancy"], flight)
  BY <1>2 DEF Waits
<1> QED BY <1>0, <1>5, <1>6, <1>7 DEF HeaderInv

(* At rest it is as the property has it.                                     *)
LEMMA HeaderSettle == ASSUME HeaderInv PROVE Header!SelectionSettles
<1> DEFINE list == page.lists["tenancy"]
<1> SUFFICES ASSUME flight = {}, list.loads = <<>>, ~list.excused
             PROVE  /\ list.rows = Header!Stored
                    /\ [organization |-> page.organization, project |-> page.project] = Header!Restored(Header!Stored, page.storage)
  BY DEF Header!SelectionSettles
<1>1. Current(list, HeaderShows, "user")
  BY DEF HeaderInv, HeaderShown, Rewritten
<1>2. list.rows = Header!Stored
  BY <1>1 DEF Current, HeaderShows, Header!Causes
<1> QED BY <1>2 DEF HeaderInv, Fits

-----------------------------------------------------------------------------
(* Types                                                                    *)

(* A request goes out with the page's cookies.                              *)
LEMMA FetchedTyped ==
  ASSUME NEW op \in Login!Ops, NEW slot \in Slots \cup {None}, NEW p,
         p.access \in Login!Tokens \cup {None}, p.refresh \in BOOLEAN
  PROVE  Login!Fetched(op, slot, p) \in Login!Call
  BY DEF Login!Fetched, Login!Call, Login!States

(* A slot is chosen of those that are free.                                 *)
LEMMA SlotTyped == Login!Free # {} => Login!ASlot \in Slots
  BY DEF Login!Free, Login!ASlot

(* What the page makes of an answer is a page.                              *)
LEMMA AnswersTyped ==
  ASSUME Login!TypeOK, NEW c \in flight,
         NEW p \in Login!Page
  PROVE  Login!Succeeds(c, p) \in Login!Page /\ Login!Throws(c, p) \in Login!Page
  BY ZenonT(40) DEF Login!TypeOK, Login!Succeeds, Login!Throws, Login!Call, Login!Ops, Login!Page

(* No step of the session breaks its types.                                 *)
LEMMA LoginTypeStep ==
  ASSUME Login!TypeOK, Login!Next \/ UNCHANGED vars
  PROVE  Login!TypeOK'
<1> USE SessionAssumption
<1>0. page.access \in Login!Tokens \cup {None} /\ page.refresh \in BOOLEAN
  BY DEF Login!TypeOK, Login!Page
<1>1. CASE Login!ask \/ Login!logout \/ Login!login
  <2>1. PICK op \in Login!Ops : Login!Begin(op)
    BY <1>1 DEF Login!ask, Login!logout, Login!login, Login!Ops
  <2>2. Login!Fetched(op, Login!ASlot, page) \in Login!Call
    BY <1>0, <2>1, FetchedTyped, SlotTyped DEF Login!Begin
  <2> QED BY <2>1, <2>2 DEF Login!Begin, Login!TypeOK
<1>2. CASE Login!Redirect
  <2>1. Login!Fetched("check", Login!ASlot, page) \in Login!Call
    BY <1>0, <1>2, FetchedTyped, SlotTyped DEF Login!Redirect, Login!Ops
  <2>2. \A c \in flight : [c EXCEPT !.mounted = FALSE] \in Login!Call
    BY DEF Login!TypeOK, Login!Call
  <2>3. [page EXCEPT !.route = "login", !.isLoading = TRUE] \in Login!Page
    BY DEF Login!TypeOK, Login!Page
  <2> QED BY <1>2, <2>1, <2>2, <2>3 DEF Login!Redirect, Login!TypeOK
<1>3. CASE Login!Expire \/ Login!ExpireRefresh
  BY <1>3 DEF Login!Expire, Login!ExpireRefresh, Login!TypeOK, Login!Server
<1>4. ASSUME NEW c \in flight, Login!Serve(c) PROVE Login!TypeOK'
  BY <1>4 DEF Login!Serve, Login!Answer, Login!TypeOK, Login!Call, Login!States
<1>5. ASSUME NEW c \in flight, Login!ServeLogin(c) \/ Login!ServeRefresh(c) PROVE Login!TypeOK'
  <2>1. CASE Login!Issue(c)
    <3>1. server.issued + 1 \in Login!Tokens
      BY <2>1 DEF Login!Issue, Login!TypeOK, Login!Server, Login!Tokens
    <3>2. server' \in Login!Server
      <4>1. server.issued + 1 \in 0..MaxTokens
        BY <3>1 DEF Login!Tokens
      <4>2. server.valid \cup {server.issued + 1} \in SUBSET Login!Tokens
        BY <3>1 DEF Login!TypeOK, Login!Server
      <4> QED BY <2>1, <4>1, <4>2 DEF Login!Issue, Login!TypeOK, Login!Server
    <3>3. [c EXCEPT !.state = "ok", !.issued = server.issued + 1] \in Login!Call
      BY <3>1 DEF Login!TypeOK, Login!Call, Login!States
    <3> QED BY <2>1, <3>2, <3>3 DEF Login!Issue, Login!Answer, Login!TypeOK
  <2>2. CASE ~Login!Issue(c)
    BY <1>5, <2>2 DEF Login!ServeLogin, Login!ServeRefresh, Login!Answer, Login!TypeOK, Login!Call,
       Login!States
  <2> QED BY <2>1, <2>2
<1>6. ASSUME NEW c \in flight, Login!Lose(c) PROVE Login!TypeOK'
  BY <1>6, Zenon DEF Login!Lose, Login!Answer, Login!TypeOK, Login!Call, Login!States
<1>7. ASSUME NEW c \in flight, Login!refreshSession(c) PROVE Login!TypeOK'
  <2>1. Login!Fetched("refresh", None, page) \in Login!Call
    BY <1>0, FetchedTyped DEF Login!Ops
  <2>2. [c EXCEPT !.state = "waiting"] \in Login!Call
    BY DEF Login!TypeOK, Login!Call, Login!States
  <2>3. [page EXCEPT !.refreshInFlight = TRUE] \in Login!Page
    BY DEF Login!TypeOK, Login!Page
  <2> QED BY <1>7, <2>1, <2>2, <2>3 DEF Login!refreshSession, Login!TypeOK
<1>8. ASSUME NEW r \in flight, Login!Refreshed(r) PROVE Login!TypeOK'
  <2> DEFINE p == [page EXCEPT !.refreshInFlight = FALSE, !.access = r.issued, !.refresh = TRUE]
  <2>1. /\ p \in Login!Page
        /\ p.access \in Login!Tokens \cup {None} /\ p.refresh \in BOOLEAN
    BY DEF Login!TypeOK, Login!Call, Login!Page
  <2>2. ASSUME NEW c \in Login!Waiting
        PROVE  [Login!Fetched(c.op, c.slot, p) EXCEPT !.retried = TRUE, !.mounted = c.mounted] \in Login!Call
    <3>1. c.op \in Login!Ops /\ c.slot \in Slots \cup {None} /\ c.mounted \in BOOLEAN
      BY <2>2 DEF Login!Waiting, Login!TypeOK, Login!Call
    <3>2. Login!Fetched(c.op, c.slot, p) \in Login!Call
      BY <2>1, <3>1, FetchedTyped
    <3> QED BY <3>1, <3>2 DEF Login!Call
  <2>3. page' = p /\ UNCHANGED server /\ flight' \subseteq
          flight \cup {[Login!Fetched(c.op, c.slot, p) EXCEPT !.retried = TRUE, !.mounted = c.mounted] : c \in Login!Waiting}
    BY <1>8, Zenon DEF Login!Refreshed
  <2> HIDE DEF p
  <2> QED BY <2>1, <2>2, <2>3, Zenon DEF Login!TypeOK
<1>9. ASSUME NEW r \in flight, Login!RefreshFailed(r) PROVE Login!TypeOK'
  BY <1>9 DEF Login!RefreshFailed, Login!TypeOK, Login!Page
<1>10. ASSUME NEW c \in flight, Login!LoggedIn(c) PROVE Login!TypeOK'
  <2> DEFINE p == [page EXCEPT !.access = c.issued, !.refresh = TRUE]
  <2>1. /\ p \in Login!Page
        /\ p.access \in Login!Tokens \cup {None} /\ p.refresh \in BOOLEAN /\ c.slot \in Slots \cup {None}
    BY DEF Login!TypeOK, Login!Call, Login!Page
  <2>2. Login!Fetched("profile", c.slot, p) \in Login!Call
    BY <2>1, FetchedTyped DEF Login!Ops
  <2> QED BY <1>10, <2>1, <2>2 DEF Login!LoggedIn, Login!TypeOK
<1>11. ASSUME NEW c \in flight, Login!ProfileFetched(c) PROVE Login!TypeOK'
  <2>1. Login!Fetched("check", c.slot, page) \in Login!Call
    BY <1>0, FetchedTyped DEF Login!TypeOK, Login!Call, Login!Ops
  <2>2. \A d \in flight : [d EXCEPT !.mounted = FALSE] \in Login!Call
    BY DEF Login!TypeOK, Login!Call
  <2>3. [page EXCEPT !.route = "dashboard", !.user = FALSE, !.isLoading = TRUE] \in Login!Page
    BY DEF Login!TypeOK, Login!Page
  <2> QED BY <1>11, <2>1, <2>2, <2>3 DEF Login!ProfileFetched, Login!TypeOK
<1>12. ASSUME NEW c \in flight, Login!Succeeded(c) \/ Login!Failed(c) PROVE Login!TypeOK'
  <2>1. /\ page \in Login!Page
        /\ [page EXCEPT !.access = None, !.refresh = FALSE] \in Login!Page
    BY DEF Login!TypeOK, Login!Page
  <2> QED BY <1>12, <2>1, AnswersTyped DEF Login!Succeeded, Login!Failed, Login!TypeOK
<1>13. CASE UNCHANGED vars
  BY <1>13 DEF vars, Login!TypeOK
<1> QED BY <1>1, <1>2, <1>3, <1>4, <1>5, <1>6, <1>7, <1>8, <1>9, <1>10, <1>11, <1>12, <1>13 DEF Login!Next

(* They hold at first.                                                      *)
LEMMA LoginTypes == ASSUME Login!Init PROVE Login!TypeOK
<1> USE SessionAssumption
<1>1. page \in Login!Page /\ server \in Login!Server
  BY DEF Login!Init, Login!Page, Login!Server, Login!Tokens
<1>2. Login!Fetched("check", CHOOSE slot \in Slots : TRUE, page) \in Login!Call
  <2>1. (CHOOSE slot \in Slots : TRUE) \in Slots
    OBVIOUS
  <2> QED BY <1>1, <2>1, FetchedTyped DEF Login!Page, Login!Ops
<1> QED BY <1>1, <1>2 DEF Login!Init, Login!TypeOK

-----------------------------------------------------------------------------
(* One refresh                                                              *)

(* OneRefresh, of the requests one by one: the inductive form.              *)
Refreshing == \E r \in flight : r.op = "refresh"
OneByOne ==
  /\ page.refreshInFlight = Refreshing
  /\ \A r, s \in flight : r.op = "refresh" /\ s.op = "refresh" => r = s
  /\ \A c \in flight : c.state = "waiting" => c.op # "refresh" /\ Refreshing

(* Of two refreshes in flight one would not be the one that is awaited.     *)
LEMMA OneByOneImplies == OneByOne => Login!OneRefresh
  BY DEF OneByOne, Refreshing, Login!OneRefresh, Login!Refreshes, Login!Waiting

(* A request more or less, or another in its place, that is no refresh and  *)
(* does not wait.                                                           *)
LEMMA OthersChange ==
  ASSUME OneByOne, page'.refreshInFlight = page.refreshInFlight,
         \A r \in flight : r.op = "refresh" => r \in flight',
         \A r \in flight' : r \in flight \/ (r.op # "refresh" /\ r.state # "waiting")
  PROVE  OneByOne'
  BY DEF OneByOne, Refreshing

(* A provider that goes leaves its requests in flight, but for c, and the   *)
(* next one starts with a check.                                            *)
LEMMA UnmountedStep ==
  ASSUME OneByOne, \A d \in flight : d \in Login!Call, page'.refreshInFlight = page.refreshInFlight,
         NEW Left \in SUBSET flight, \A d \in flight \ Left : d.op # "refresh" /\ d.state # "waiting",
         NEW slot, flight' = {[d EXCEPT !.mounted = FALSE] : d \in Left} \cup {Login!Fetched("check", slot, page)}
  PROVE  OneByOne'
<1> DEFINE unmounted(d) == [d EXCEPT !.mounted = FALSE]
           check == Login!Fetched("check", slot, page)
<1>1. \A d \in Left : unmounted(d).op = d.op /\ unmounted(d).state = d.state
  BY DEF Login!Call
<1>2. check.op = "check" /\ check.state = "sent"
  BY DEF Login!Fetched
<1>3. flight' = {unmounted(d) : d \in Left} \cup {check}
  OBVIOUS
<1> HIDE DEF unmounted, check
<1>4. \A r \in flight' : r.op = "refresh" => \E d \in Left : r = unmounted(d) /\ d.op = "refresh"
  BY <1>1, <1>2, <1>3
<1>5. Refreshing <=> Refreshing'
  BY <1>1, <1>3, <1>4 DEF Refreshing
<1> QED BY <1>1, <1>2, <1>3, <1>4, <1>5 DEF OneByOne, Refreshing

(* No step sends a refresh while another is awaited.                        *)
LEMMA OneByOneStep ==
  ASSUME Login!TypeOK, OneByOne, Login!Next \/ UNCHANGED vars
  PROVE  OneByOne'
<1>0. \A c \in flight : c \in Login!Call
  BY DEF Login!TypeOK
<1>1. CASE Login!ask \/ Login!logout \/ Login!login
  <2>1. PICK op \in Login!Ops \ {"refresh"} : Login!Begin(op)
    BY <1>1 DEF Login!ask, Login!logout, Login!login, Login!Ops
  <2>2. page' = page /\ flight' = flight \cup {Login!Fetched(op, Login!ASlot, page)}
    BY <2>1 DEF Login!Begin
  <2>3. Login!Fetched(op, Login!ASlot, page).op = op /\ Login!Fetched(op, Login!ASlot, page).state = "sent"
    BY DEF Login!Fetched
  <2> QED BY <2>2, <2>3, OthersChange
<1>2. CASE Login!Redirect
  <2>1. page'.refreshInFlight = page.refreshInFlight
    BY <1>2 DEF Login!Redirect, Login!TypeOK, Login!Page
  <2>2. flight' = {[d EXCEPT !.mounted = FALSE] : d \in flight} \cup {Login!Fetched("check", Login!ASlot, page)}
    BY <1>2 DEF Login!Redirect
  <2> QED BY <1>0, <2>1, <2>2, UnmountedStep
<1>3. CASE Login!Expire \/ Login!ExpireRefresh \/ UNCHANGED vars
  BY <1>3 DEF Login!Expire, Login!ExpireRefresh, OneByOne, Refreshing, vars
<1>4. ASSUME NEW c \in flight, Login!Serve(c) \/ Login!Lose(c) \/ Login!ServeLogin(c) \/ Login!ServeRefresh(c) PROVE OneByOne'
  <2>1. PICK answered : /\ answered.op = c.op /\ answered.state # "waiting"
                        /\ page' = page /\ flight' = (flight \ {c}) \cup {answered}
    <3>1. ASSUME NEW state \in {"ok", "unauthorized", "error"}, NEW issued
          PROVE  /\ [c EXCEPT !.state = state].op = c.op /\ [c EXCEPT !.state = state].state # "waiting"
                 /\ [c EXCEPT !.state = state, !.issued = issued].op = c.op
                 /\ [c EXCEPT !.state = state, !.issued = issued].state # "waiting"
      BY <1>0 DEF Login!Call
    <3>2. CASE Login!Serve(c) \/ Login!Lose(c)
      BY <3>1, <3>2 DEF Login!Serve, Login!Lose, Login!Answer
    <3>3. CASE Login!ServeLogin(c) \/ Login!ServeRefresh(c)
      BY <3>1, <3>3 DEF Login!ServeLogin, Login!ServeRefresh, Login!Issue, Login!Answer
    <3> QED BY <1>4, <3>2, <3>3
  <2>2. c.state # "waiting"
    BY <1>4 DEF Login!Serve, Login!Lose, Login!ServeLogin, Login!ServeRefresh
  <2> QED BY <2>1, <2>2, Zenon DEF OneByOne, Refreshing
<1>6. ASSUME NEW c \in flight, Login!refreshSession(c) PROVE OneByOne'
  <2> DEFINE waiting == [c EXCEPT !.state = "waiting"]
             refresh == Login!Fetched("refresh", None, page)
  <2>1. page'.refreshInFlight = TRUE
    BY <1>6 DEF Login!refreshSession, Login!TypeOK, Login!Page
  <2>2. c.op # "refresh" /\ waiting.op = c.op
    BY <1>0, <1>6 DEF Login!refreshSession, Login!Refreshable, Login!SESSION_ENDPOINTS, Login!Call
  <2>3. refresh.op = "refresh" /\ refresh.state = "sent"
    BY DEF Login!Fetched
  <2>4. flight' = (flight \ {c}) \cup {waiting} \cup (IF page.refreshInFlight THEN {} ELSE {refresh})
    BY <1>6 DEF Login!refreshSession
  <2>5. page.refreshInFlight \in BOOLEAN
    BY DEF Login!TypeOK, Login!Page
  <2> HIDE DEF waiting, refresh
  <2> QED BY <2>1, <2>2, <2>3, <2>4, <2>5, Zenon DEF OneByOne, Refreshing
<1>7. ASSUME NEW r \in flight, Login!Refreshed(r) PROVE OneByOne'
  <2> DEFINE p == [page EXCEPT !.refreshInFlight = FALSE, !.access = r.issued, !.refresh = TRUE]
             again(c) == [Login!Fetched(c.op, c.slot, p) EXCEPT !.retried = TRUE, !.mounted = c.mounted]
  <2>1. page'.refreshInFlight = FALSE
    BY <1>7, Zenon DEF Login!Refreshed, Login!TypeOK, Login!Page
  <2>2. r.op = "refresh" /\ \A c \in Login!Waiting : c \in flight /\ c.state = "waiting"
    BY <1>7, Zenon DEF Login!Refreshed, Login!Waiting
  <2>3. \A c \in Login!Waiting : again(c).op = c.op /\ again(c).state = "sent"
    BY DEF Login!Fetched
  <2>4. flight' = (flight \ ({r} \cup Login!Waiting)) \cup {again(c) : c \in Login!Waiting}
    BY <1>7, Zenon DEF Login!Refreshed
  <2> HIDE DEF again
  <2>5. \A d \in flight' : d.op # "refresh" /\ d.state # "waiting"
    BY <2>2, <2>3, <2>4 DEF OneByOne, Login!Waiting
  <2> QED BY <2>1, <2>5 DEF OneByOne, Refreshing
<1>8. ASSUME NEW r \in flight, Login!RefreshFailed(r) PROVE OneByOne'
  <2>1. page'.refreshInFlight = FALSE
    BY <1>8 DEF Login!RefreshFailed, Login!TypeOK, Login!Page
  <2>2. r.op = "refresh" /\ flight' = flight \ ({r} \cup Login!Waiting)
    BY <1>8 DEF Login!RefreshFailed
  <2>3. \A d \in flight' : d.op # "refresh" /\ d.state # "waiting"
    BY <2>2 DEF OneByOne, Login!Waiting
  <2> QED BY <2>1, <2>3 DEF OneByOne, Refreshing
<1>9. ASSUME NEW c \in flight, Login!LoggedIn(c) PROVE OneByOne'
  <2> DEFINE p == [page EXCEPT !.access = c.issued, !.refresh = TRUE]
  <2>1. page'.refreshInFlight = page.refreshInFlight
    BY <1>9 DEF Login!LoggedIn, Login!TypeOK, Login!Page
  <2>2. c.op = "login" /\ flight' = (flight \ {c}) \cup {Login!Fetched("profile", c.slot, p)}
    BY <1>9 DEF Login!LoggedIn
  <2>3. Login!Fetched("profile", c.slot, p).op = "profile" /\ Login!Fetched("profile", c.slot, p).state = "sent"
    BY DEF Login!Fetched
  <2> HIDE DEF p
  <2> QED BY <2>1, <2>2, <2>3, OthersChange
<1>10. ASSUME NEW c \in flight, Login!ProfileFetched(c) PROVE OneByOne'
  <2>1. page'.refreshInFlight = page.refreshInFlight
    BY <1>10 DEF Login!ProfileFetched, Login!TypeOK, Login!Page
  <2>2. c.op # "refresh" /\ c.state # "waiting"
        /\ flight' = {[d EXCEPT !.mounted = FALSE] : d \in flight \ {c}} \cup {Login!Fetched("check", c.slot, page)}
    BY <1>10 DEF Login!ProfileFetched
  <2> QED BY <1>0, <2>1, <2>2, UnmountedStep
<1>11. ASSUME NEW c \in flight, Login!Succeeded(c) \/ Login!Failed(c) PROVE OneByOne'
  <2>1. page'.refreshInFlight = page.refreshInFlight
    BY <1>11 DEF Login!Succeeded, Login!Failed, Login!Succeeds, Login!Throws, Login!TypeOK, Login!Page
  <2>2. c.op # "refresh" /\ flight' = flight \ {c}
    BY <1>11 DEF Login!Succeeded, Login!Failed
  <2> QED BY <2>1, <2>2, OthersChange
<1> QED BY <1>1, <1>2, <1>3, <1>4, <1>6, <1>7, <1>8, <1>9, <1>10, <1>11 DEF Login!Next

(* At first none is in flight.                                              *)
LEMMA OneByOneInit == ASSUME Login!Init PROVE OneByOne
<1>1. Login!Fetched("check", CHOOSE slot \in Slots : TRUE, page).op = "check"
      /\ Login!Fetched("check", CHOOSE slot \in Slots : TRUE, page).state = "sent"
  BY DEF Login!Fetched
<1>2. page.refreshInFlight = FALSE
  BY DEF Login!Init
<1> QED BY <1>1, <1>2 DEF Login!Init, OneByOne, Refreshing

-----------------------------------------------------------------------------
(* The user is kept                                                         *)

(* While the mounted provider has its check in flight there is no user, and *)
(* it is the only request of this provider whose answer would bring one.    *)
Brings(c) == c.mounted = TRUE /\ c.op \in {"check", "capabilities"}
CheckAlone ==
  \A c \in flight :
    c.mounted = TRUE /\ c.op = "check" => page.user = FALSE /\ \A d \in flight : Brings(d) => d = c

(* Requests that would bring no user come and go.                           *)
LEMMA OthersBring ==
  ASSUME CheckAlone, page'.user \in {page.user, FALSE},
         \A d \in flight' : d \in flight \/ ~Brings(d)
  PROVE  CheckAlone'
  BY DEF CheckAlone, Brings

(* A new provider's check is the only one that is mounted.                  *)
LEMMA NewProvider ==
  ASSUME \A d \in flight : d \in Login!Call, page'.user = FALSE,
         NEW Left \in SUBSET flight, NEW slot,
         flight' = {[d EXCEPT !.mounted = FALSE] : d \in Left} \cup {Login!Fetched("check", slot, page)}
  PROVE  CheckAlone'
<1> DEFINE unmounted(d) == [d EXCEPT !.mounted = FALSE]
           check == Login!Fetched("check", slot, page)
<1>1. \A d \in Left : unmounted(d).mounted = FALSE
  BY DEF Login!Call
<1>2. flight' = {unmounted(d) : d \in Left} \cup {check}
  OBVIOUS
<1> HIDE DEF unmounted, check
<1> QED BY <1>1, <1>2 DEF CheckAlone, Brings

(* No step sends the check of a session next to anything else.              *)
LEMMA CheckAloneStep ==
  ASSUME Login!TypeOK, CheckAlone, Login!Next \/ UNCHANGED vars
  PROVE  CheckAlone'
<1>0. (\A c \in flight : c \in Login!Call) /\ page.user \in BOOLEAN
  BY DEF Login!TypeOK, Login!Page
<1>1. CASE Login!ask \/ Login!logout \/ Login!login
  <2>1. PICK op \in {"data", "capabilities", "logout", "login"} :
          Login!Begin(op) /\ (op = "capabilities" => page.user = TRUE)
    BY <1>0, <1>1 DEF Login!ask, Login!logout, Login!login
  <2>2. page' = page /\ flight' = flight \cup {Login!Fetched(op, Login!ASlot, page)}
    BY <2>1 DEF Login!Begin
  <2>3. Login!Fetched(op, Login!ASlot, page).op = op
    BY DEF Login!Fetched
  <2> QED BY <2>1, <2>2, <2>3 DEF CheckAlone, Brings
<1>2. CASE Login!Redirect
  <2>1. page'.user = FALSE
    BY <1>0, <1>2 DEF Login!Redirect, Login!TypeOK, Login!Page
  <2>2. flight' = {[d EXCEPT !.mounted = FALSE] : d \in flight} \cup {Login!Fetched("check", Login!ASlot, page)}
    BY <1>2 DEF Login!Redirect
  <2> QED BY <1>0, <2>1, <2>2, NewProvider
<1>3. CASE Login!Expire \/ Login!ExpireRefresh \/ UNCHANGED vars
  BY <1>3 DEF Login!Expire, Login!ExpireRefresh, CheckAlone, Brings, vars
<1>4. ASSUME NEW c \in flight, Login!Serve(c) \/ Login!Lose(c) \/ Login!ServeLogin(c) \/ Login!ServeRefresh(c) PROVE CheckAlone'
  <2>1. PICK answered : /\ answered.op = c.op /\ answered.mounted = c.mounted
                        /\ page' = page /\ flight' = (flight \ {c}) \cup {answered}
    <3>1. ASSUME NEW state \in {"ok", "unauthorized", "error"}, NEW issued
          PROVE  /\ [c EXCEPT !.state = state].op = c.op /\ [c EXCEPT !.state = state].mounted = c.mounted
                 /\ [c EXCEPT !.state = state, !.issued = issued].op = c.op
                 /\ [c EXCEPT !.state = state, !.issued = issued].mounted = c.mounted
      BY <1>0 DEF Login!Call
    <3>2. CASE Login!Serve(c) \/ Login!Lose(c)
      BY <3>1, <3>2 DEF Login!Serve, Login!Lose, Login!Answer
    <3>3. CASE Login!ServeLogin(c) \/ Login!ServeRefresh(c)
      BY <3>1, <3>3 DEF Login!ServeLogin, Login!ServeRefresh, Login!Issue, Login!Answer
    <3> QED BY <1>4, <3>2, <3>3
  <2> QED BY <2>1 DEF CheckAlone, Brings
<1>5. ASSUME NEW c \in flight, Login!refreshSession(c) PROVE CheckAlone'
  <2> DEFINE waiting == [c EXCEPT !.state = "waiting"]
             refresh == Login!Fetched("refresh", None, page)
  <2>1. page'.user = page.user
    BY <1>5 DEF Login!refreshSession, Login!TypeOK, Login!Page
  <2>2. waiting.op = c.op /\ waiting.mounted = c.mounted
    BY <1>0 DEF Login!Call
  <2>3. refresh.op = "refresh"
    BY DEF Login!Fetched
  <2>4. flight' \subseteq (flight \ {c}) \cup {waiting} \cup {refresh}
    BY <1>5 DEF Login!refreshSession
  <2> HIDE DEF waiting, refresh
  <2> QED BY <2>1, <2>2, <2>3, <2>4 DEF CheckAlone, Brings
<1>6. ASSUME NEW r \in flight, Login!Refreshed(r) PROVE CheckAlone'
  <2> DEFINE p == [page EXCEPT !.refreshInFlight = FALSE, !.access = r.issued, !.refresh = TRUE]
             again(c) == [Login!Fetched(c.op, c.slot, p) EXCEPT !.retried = TRUE, !.mounted = c.mounted]
  <2>1. page'.user = page.user
    BY <1>6, Zenon DEF Login!Refreshed, Login!TypeOK, Login!Page
  <2>2. \A c \in Login!Waiting : again(c).op = c.op /\ again(c).mounted = c.mounted /\ c \in flight
    BY Zenon DEF Login!Fetched, Login!Waiting
  <2>3. flight' = (flight \ ({r} \cup Login!Waiting)) \cup {again(c) : c \in Login!Waiting}
    BY <1>6, Zenon DEF Login!Refreshed
  <2> HIDE DEF again
  <2>4. \A d \in flight' : Brings(d) => \/ d \in flight \ Login!Waiting
                                       \/ \E c \in Login!Waiting : d = again(c) /\ Brings(c)
    BY <2>2, <2>3 DEF Brings
  <2> QED BY <2>1, <2>2, <2>3, <2>4 DEF CheckAlone, Brings
<1>7. ASSUME NEW r \in flight, Login!RefreshFailed(r) PROVE CheckAlone'
  <2>1. page'.user = FALSE /\ flight' \subseteq flight
    BY <1>7 DEF Login!RefreshFailed, Login!TypeOK, Login!Page
  <2> QED BY <2>1, OthersBring
<1>8. ASSUME NEW c \in flight, Login!LoggedIn(c) PROVE CheckAlone'
  <2> DEFINE p == [page EXCEPT !.access = c.issued, !.refresh = TRUE]
  <2>1. page'.user = page.user
    BY <1>8 DEF Login!LoggedIn, Login!TypeOK, Login!Page
  <2>2. flight' = (flight \ {c}) \cup {Login!Fetched("profile", c.slot, p)}
    BY <1>8 DEF Login!LoggedIn
  <2>3. Login!Fetched("profile", c.slot, p).op = "profile"
    BY DEF Login!Fetched
  <2> HIDE DEF p
  <2> QED BY <2>1, <2>2, <2>3, OthersBring DEF Brings
<1>9. ASSUME NEW c \in flight, Login!ProfileFetched(c) PROVE CheckAlone'
  <2>1. page'.user = FALSE
    BY <1>9 DEF Login!ProfileFetched, Login!TypeOK, Login!Page
  <2>2. flight' = {[d EXCEPT !.mounted = FALSE] : d \in flight \ {c}} \cup {Login!Fetched("check", c.slot, page)}
    BY <1>9 DEF Login!ProfileFetched
  <2> QED BY <1>0, <2>1, <2>2, NewProvider
<1>10. ASSUME NEW c \in flight, Login!Succeeded(c) \/ Login!Failed(c) PROVE CheckAlone'
  <2>1. flight' = flight \ {c}
    BY <1>10 DEF Login!Succeeded, Login!Failed
  <2>2. page'.user \in {page.user, FALSE} \/ Brings(c)
    BY <1>0, <1>10 DEF Login!Succeeded, Login!Failed, Login!Succeeds, Login!Throws, Login!TypeOK,
       Login!Page, Login!Call, Brings
  <2>3. CASE Brings(c)
    BY <2>1, <2>3 DEF CheckAlone, Brings
  <2> QED BY <2>1, <2>2, <2>3, OthersBring
<1> QED BY <1>1, <1>2, <1>3, <1>4, <1>5, <1>6, <1>7, <1>8, <1>9, <1>10 DEF Login!Next

(* Of the steps those that take the user away are a logout's answer, a      *)
(* refresh that failed, and a new provider's start.                         *)
LEMMA KeepsUserStep ==
  ASSUME Login!TypeOK, Login!TypeOK', CheckAlone, Login!Next \/ UNCHANGED vars
  PROVE  Login!KeepsUser
<1> DEFINE Given == \E c \in flight \ flight' : c.op = "logout" \/ (c.op = "refresh" /\ c.state # "ok")
<1> SUFFICES ASSUME page.user = TRUE, page'.user = FALSE, page'.route = page.route PROVE Given
  BY DEF Login!KeepsUser, Login!TypeOK, Login!Page
<1>0. \A c \in flight : c \in Login!Call
  BY DEF Login!TypeOK
<1>1. ASSUME NEW c \in flight, Login!RefreshFailed(c) PROVE Given
  BY <1>1 DEF Login!RefreshFailed
<1>2. ASSUME NEW c \in flight, Login!Succeeded(c) PROVE Given
  <2>1. c \notin flight'
    BY <1>2 DEF Login!Succeeded
  <2>2. c.op = "logout"
    BY <1>2 DEF Login!Succeeded, Login!Succeeds, Login!TypeOK, Login!Page
  <2> QED BY <2>1, <2>2
<1>3. ASSUME NEW c \in flight, Login!Failed(c) PROVE Given
  <2>1. c \notin flight'
    BY <1>3 DEF Login!Failed
  <2>2. c.mounted = TRUE => c.op # "check"
    BY DEF CheckAlone
  <2>3. c.op = "logout"
    BY <1>0, <1>3, <2>2 DEF Login!Failed, Login!Throws, Login!TypeOK, Login!Page, Login!Call
  <2> QED BY <2>1, <2>3
<1>4. ASSUME NEW c \in flight, Login!ProfileFetched(c) PROVE FALSE
  BY <1>4 DEF Login!ProfileFetched, Login!TypeOK, Login!Page
<1>5. ASSUME NEW c \in flight, Login!refreshSession(c) \/ Login!Refreshed(c) \/ Login!LoggedIn(c) PROVE page'.user = page.user
  BY <1>5, Zenon DEF Login!refreshSession, Login!Refreshed, Login!LoggedIn, Login!TypeOK, Login!Page
<1>6. ASSUME NEW c \in flight, Login!Serve(c) \/ Login!Lose(c) \/ Login!ServeLogin(c) \/ Login!ServeRefresh(c) PROVE page' = page
  BY <1>6 DEF Login!Serve, Login!Lose, Login!ServeLogin, Login!ServeRefresh, Login!Issue
<1>7. CASE Login!ask \/ Login!logout \/ Login!login \/ Login!Expire \/ Login!ExpireRefresh \/ UNCHANGED vars
  BY <1>7 DEF Login!ask, Login!logout, Login!login, Login!Begin, Login!Expire, Login!ExpireRefresh, vars
<1>8. CASE Login!Redirect
  BY <1>8 DEF Login!Redirect
<1> QED BY <1>1, <1>2, <1>3, <1>4, <1>5, <1>6, <1>7, <1>8 DEF Login!Next

-----------------------------------------------------------------------------
(* The dashboard                                                            *)

Routes == {"members", "rules", "flags", "monitoring", "environments", "overview", "header", "session"}

(* The invariant of the page that a behaviour is about.                     *)
DashboardInv ==
  /\ route \in Routes
  /\ route = "members" => MembersInv /\ PreviewInv
  /\ route = "rules" => RulesInv
  /\ route = "flags" => FlagsInv
  /\ route = "monitoring" => MonitoringInv
  /\ route = "environments" => EnvironmentsInv
  /\ route = "overview" => OverviewInv
  /\ route = "header" => HeaderInv
  /\ route = "session" => Login!TypeOK /\ OneByOne /\ CheckAlone

(* What the steps of each page do besides.                                  *)
DashboardSafe ==
  /\ route = "members" => Members!SendsPreviewed
  /\ route = "rules" => Rules!SavesOpened /\ Rules!KeepsUntouched /\ Rules!SavesWhole
  /\ route = "flags" => FlagList!SavesOpened
  /\ route = "monitoring" => Monitoring!AsksForPages
  /\ route = "session" => Login!KeepsUser

(* A behaviour is about one page: its steps are that page's.                *)
LEMMA RouteStep ==
  ASSUME [Next]_vars
  PROVE  /\ route' = route
         /\ route = "members" => Members!Next \/ UNCHANGED vars
         /\ route = "rules" => Rules!Next \/ UNCHANGED vars
         /\ route = "flags" => FlagList!Next \/ UNCHANGED vars
         /\ route = "monitoring" => Monitoring!Next \/ UNCHANGED vars
         /\ route = "environments" => Environments!Next \/ UNCHANGED vars
         /\ route = "overview" => Overview!Next \/ UNCHANGED vars
         /\ route = "header" => Header!Next \/ UNCHANGED vars
         /\ route = "session" => Login!Next \/ UNCHANGED vars
  BY DEF Next, On, vars

(* Whichever page is open, its invariant holds at first.                    *)
LEMMA DashboardInit == Init => DashboardInv
<1> SUFFICES ASSUME Init PROVE DashboardInv
  OBVIOUS
<1>1. Login!Init => Login!TypeOK /\ OneByOne /\ CheckAlone
  <2> SUFFICES ASSUME Login!Init PROVE Login!TypeOK /\ OneByOne /\ CheckAlone
    OBVIOUS
  <2>1. CheckAlone
    BY DEF Login!Init, CheckAlone
  <2> QED BY <2>1, OneByOneInit, LoginTypes
<1> QED BY <1>1, MembersInit, PreviewInit, RulesInit, FlagsInit, MonitoringInit, EnvironmentsInit,
      OverviewInit, HeaderInit DEF Init, DashboardInv, Routes

(* A step of the dashboard is one of the page that is open.                 *)
LEMMA DashboardStep == DashboardInv /\ [Next]_vars => DashboardInv' /\ DashboardSafe
<1> SUFFICES ASSUME DashboardInv, [Next]_vars PROVE DashboardInv' /\ DashboardSafe
  OBVIOUS
<1>1. route' = route /\ route \in Routes
  BY RouteStep DEF DashboardInv
<1>2. CASE route = "members"
  <2>1. MembersInv' /\ PreviewInv' /\ Members!SendsPreviewed
    BY <1>2, RouteStep, MembersInvStep, PreviewStep, Zenon DEF DashboardInv, MembersInv
  <2> QED BY <1>1, <1>2, <2>1 DEF DashboardInv, DashboardSafe, Routes
<1>3. CASE route = "rules"
  <2>1. RulesInv' /\ RulesSafe
    BY <1>3, RouteStep, RulesStep DEF DashboardInv
  <2> QED BY <1>1, <1>3, <2>1 DEF DashboardInv, DashboardSafe, Routes, RulesSafe
<1>4. CASE route = "flags"
  <2>1. FlagsInv' /\ FlagList!SavesOpened
    BY <1>4, RouteStep, FlagsStep DEF DashboardInv
  <2> QED BY <1>1, <1>4, <2>1 DEF DashboardInv, DashboardSafe, Routes
<1>5. CASE route = "monitoring"
  <2>1. MonitoringInv' /\ Monitoring!AsksForPages
    BY <1>5, RouteStep, MonitoringStep DEF DashboardInv
  <2> QED BY <1>1, <1>5, <2>1 DEF DashboardInv, DashboardSafe, Routes
<1>6. CASE route = "environments"
  <2>1. EnvironmentsInv'
    BY <1>6, RouteStep, EnvironmentsStep DEF DashboardInv
  <2> QED BY <1>1, <1>6, <2>1 DEF DashboardInv, DashboardSafe, Routes
<1>7. CASE route = "overview"
  <2>1. OverviewInv'
    BY <1>7, RouteStep, OverviewStep DEF DashboardInv
  <2> QED BY <1>1, <1>7, <2>1 DEF DashboardInv, DashboardSafe, Routes
<1>8. CASE route = "header"
  <2>1. HeaderInv'
    BY <1>8, RouteStep, HeaderStep DEF DashboardInv
  <2> QED BY <1>1, <1>8, <2>1 DEF DashboardInv, DashboardSafe, Routes
<1>9. CASE route = "session"
  <2>1. Login!TypeOK' /\ OneByOne' /\ CheckAlone' /\ Login!KeepsUser
    BY <1>9, RouteStep, LoginTypeStep, OneByOneStep, CheckAloneStep, KeepsUserStep DEF DashboardInv
  <2> QED BY <1>1, <1>9, <2>1 DEF DashboardInv, DashboardSafe, Routes
<1> QED BY <1>1, <1>2, <1>3, <1>4, <1>5, <1>6, <1>7, <1>8, <1>9 DEF Routes

(* Every page, the header and the session keep their types, and so does     *)
(* what the server stores of them and what is in flight.                    *)
THEOREM DashboardTypes == Spec => []TypeOK
<1>1. DashboardInv => TypeOK
  BY RulesTyped, FlagsTyped DEF DashboardInv, TypeOK, Routes, MembersInv, MonitoringInv, EnvironmentsInv,
     OverviewInv, HeaderInv, HeaderTyped
<1> QED BY <1>1, DashboardInit, DashboardStep, PTL DEF Spec

(* A page at rest shows what is stored, for the selection and the filters it *)
(* shows, because every handler loads what its call wrote to.  Excepted is a *)
(* list whose last answer was overtaken, was for a selection left since or   *)
(* landed while a switch was being moved, or of which a load failed or a     *)
(* write's answer was lost, until a load of it is answered in order.         *)
THEOREM PagesSettle == Spec => []Settles
<1>1. DashboardInv => Settles
  BY MembersSettle, RulesSettle, FlagsSettle, MonitoringSettle, EnvironmentsSettle, OverviewSettle
     DEF DashboardInv, Settles
<1> QED BY <1>1, DashboardInit, DashboardStep, PTL DEF Spec

(* With nothing in flight the header selects what the user selected last, as *)
(* far as it is listed and belongs together, of the rows that are stored     *)
(* (lib/tenant-context, load and setCurrentOrganization; dashboard-nav,      *)
(* onCreated).                                                               *)
THEOREM SelectionFits == Spec => []SelectionSettles
<1>1. DashboardInv => SelectionSettles
  BY HeaderSettle DEF DashboardInv, SelectionSettles
<1> QED BY <1>1, DashboardInit, DashboardStep, PTL DEF Spec

(* A flag that is created or edited to be multivariate has its variants,    *)
(* will have them, or a call of the page failed.                            *)
THEOREM VariantsFollowFlags == Spec => []VariantsFollow
<1>1. DashboardInv => VariantsFollow
  BY FlagsTyped DEF DashboardInv, VariantsFollow
<1> QED BY <1>1, DashboardInit, DashboardStep, PTL DEF Spec

(* A burst of 401s fires one refresh, and leaves no request waiting for     *)
(* none (lib/api.ts, refreshSession).                                       *)
THEOREM RefreshOnce == Spec => []OneRefresh
<1>1. DashboardInv => OneRefresh
  BY OneByOneImplies DEF DashboardInv, OneRefresh
<1> QED BY <1>1, DashboardInit, DashboardStep, PTL DEF Spec

(* SessionKept: "A transient failure here shouldn't sign anyone out"        *)
(* (lib/auth-context): a user is given up by a logout or by a refresh that  *)
(* failed, never by another request's failure.                              *)
THEOREM UserKept == Spec => SessionKept
<1>1. DashboardSafe => (route = "session" => Login!KeepsUser)
  BY DEF DashboardSafe
<1> QED BY <1>1, DashboardInit, DashboardStep, PTL DEF Spec, SessionKept

(* A grant is sent as the preview on the screen asked for it (members page, *)
(* handleCreateGrant).                                                      *)
THEOREM PreviewedGrants == Spec => GrantsPreviewed
<1>1. DashboardSafe => (route = "members" => Members!SendsPreviewed)
  BY DEF DashboardSafe
<1> QED BY <1>1, DashboardInit, DashboardStep, PTL DEF Spec, GrantsPreviewed

(* A dialog that was opened on a row saves that row, and one that was       *)
(* opened for a new one creates it (rules page, flags page); only on the    *)
(* flags page, once a creation's answer closed the dialog of a flag, does   *)
(* the next "New flag" save that flag (handleCreate, which leaves           *)
(* editingFlag alone).                                                      *)
THEOREM EditsReachTheirRow == Spec => EditsReach
<1>1. DashboardSafe => ((route = "rules" => Rules!SavesOpened) /\ (route = "flags" => FlagList!SavesOpened))
  BY DEF DashboardSafe
<1> QED BY <1>1, DashboardInit, DashboardStep, PTL DEF Spec, EditsReach

(* Opening a rule and saving it as it was opened changes nothing, while its *)
(* flag is multivariate or it rolls out nothing; nor does a condition whose *)
(* value the dialog may have written itself (handleEditRule, handleSaveRule, *)
(* handleEditCondition, handleCreateCondition).                              *)
THEOREM UntouchedStays == Spec => UntouchedKept
<1>1. DashboardSafe => (route = "rules" => Rules!KeepsUntouched)
  BY DEF DashboardSafe
<1> QED BY <1>1, DashboardInit, DashboardStep, PTL DEF Spec, UntouchedKept

(* The variant editor of a set with one control, whose other rows leave it  *)
(* something, whole or not: it saves the set as it was opened or one that   *)
(* shares all of the weight (startEditingVariants, recalcControlPercentage, *)
(* handleSaveVariants).                                                     *)
THEOREM SharesSavedWhole == Spec => SharesAddUp
<1>1. DashboardSafe => (route = "rules" => Rules!SavesWhole)
  BY DEF DashboardSafe
<1> QED BY <1>1, DashboardInit, DashboardStep, PTL DEF Spec, SharesAddUp

(* The evaluation log is asked for no page it does not have (monitoring     *)
(* page, changes of the page and of the filters).                           *)
THEOREM PagesAskedExist == Spec => PagesExist
<1>1. DashboardSafe => (route = "monitoring" => Monitoring!AsksForPages)
  BY DEF DashboardSafe
<1> QED BY <1>1, DashboardInit, DashboardStep, PTL DEF Spec, PagesExist
=============================================================================
