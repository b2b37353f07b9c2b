-------------------------------- MODULE Lists --------------------------------
(***************************************************************************)
(* The lists a dashboard page keeps of what the server has stored.  A page *)
(* fills one by awaiting its requests and replacing the rows by what they  *)
(* answered; nothing is cancelled, so answers land in any order, also      *)
(* after the selection they were asked for has changed.                    *)
(***************************************************************************)
EXTENDS Naturals, Sequences

CONSTANTS
  Unread,     \* what a load holds before the server has read its rows
  MaxLoads    \* bound on the loads of one list in flight

ASSUME ListsAssumption == MaxLoads \in Nat

(* excused is history: the rows may differ from what is stored, because the *)
(* page does nothing about answers that overtake newer ones or come for a   *)
(* selection that was left, nor about failed loads and lost answers.        *)
List(rows) == [rows |-> rows, loading |-> FALSE, loads |-> <<>>, excused |-> FALSE]

Load(Of, Rows) == [of : Of, rows : Rows \cup {Unread}, overtaken : BOOLEAN]

ListOf(Of, Rows) ==
  {list \in [rows : Rows, loading : BOOLEAN, loads : Seq(Load(Of, Rows)), excused : BOOLEAN] : Len(list.loads) <= MaxLoads}

Overtaken(loads) == [i \in DOMAIN loads |-> [loads[i] EXCEPT !.overtaken = TRUE]]

Fetch(list, of) ==
  [list EXCEPT !.loading = TRUE,
               !.loads = Append(@, [of |-> of, rows |-> Unread, overtaken |-> FALSE])]

(* The rows are replaced at once, whatever is still in flight. *)
Replace(list, rows, excused) ==
  [list EXCEPT !.rows = rows, !.loading = FALSE, !.excused = excused, !.loads = Overtaken(@)]

(* The page changes its rows ahead of the server. *)
Patch(list, rows, excused) ==
  [list EXCEPT !.rows = rows, !.excused = @ \/ excused, !.loads = Overtaken(@)]

(* The server reads the rows for the i-th load. *)
Read(list, i, rows) == [list EXCEPT !.loads[i].rows = rows]

Unanswered(list, i) == list.loads[i].rows = Unread

(* The i-th load has its answer, or has failed, and rows is what the page   *)
(* makes of that; it goes, and the loads it overtook know.                  *)
Settle(list, i, rows, excused) ==
  [rows |-> rows, loading |-> FALSE, excused |-> excused,
   loads |-> Overtaken(SubSeq(list.loads, 1, i - 1)) \o SubSeq(list.loads, i + 1, Len(list.loads))]

(* It lands on a page that shows the selection at by now. *)
Land(list, i, at) ==
  Settle(list, i, list.loads[i].rows, list.loads[i].overtaken \/ list.loads[i].of # at)

FailTo(list, i, rows) == Settle(list, i, rows, TRUE)

Excuse(list) == [list EXCEPT !.excused = TRUE, !.loads = Overtaken(@)]

(* A page's lists are a function of their names.  Those of names are loaded *)
(* for the selection of, which is the one the page shows, at, unless a      *)
(* handler that began before a change of it goes on with the loads it knew. *)
(* To bound a model the loads of one list at most, live, take their time;   *)
(* the others are answered at once with what is stored.                     *)
Refetch(lists, live, of, at, stored, names) ==
  [n \in DOMAIN lists |->
     IF n \notin names THEN lists[n]
     ELSE IF n = live THEN Fetch(lists[n], of) ELSE Replace(lists[n], stored[n], of # at)]

ExcuseAll(lists, names) == [n \in DOMAIN lists |-> IF n \in names THEN Excuse(lists[n]) ELSE lists[n]]

LoadsOf(lists, live) == IF live \in DOMAIN lists THEN lists[live].loads ELSE <<>>

Room(lists, live) == Len(LoadsOf(lists, live)) < MaxLoads

(* With nothing left in flight the rows are what is stored. *)
Settled(list, stored) == list.loads = <<>> /\ ~list.excused => list.rows = stored
=============================================================================
