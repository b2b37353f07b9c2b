------------------------------ MODULE FlagsPage ------------------------------
(***************************************************************************)
(* The flags page of the dashboard (dashboard/flags/page.tsx): the table   *)
(* with a switch for each flag, moved before the server has answered, and  *)
(* the dialog that creates a flag with its variants or renames one.        *)
(***************************************************************************)
EXTENDS Lists, Calls, VariantDrafts

CONSTANTS
  None,
  Selections,       \* the projects that may be current, or None
  EnvironmentsOf,   \* project -> its environments
  FlagIds,
  InitialFlags,     \* rows [id, environment, key, name, is_enabled, override, multivariate]
  InitialSets,      \* the multivariate ones that have their variants
  FlagForms,        \* what the user types into the dialog
  Weights, Names,   \* and into its variant rows
  MaxRows

VARIABLES page, server, flight

vars == <<page, server, flight>>

EnvironmentsIn(project) ==
  UNION {EnvironmentsOf[p] : p \in IF project = None THEN DOMAIN EnvironmentsOf ELSE {project}}

(* is_enabled is the configured state, override what an active override     *)
(* forces instead.                                                          *)
FlagRow == [id : FlagIds, environment : EnvironmentsIn(None), key : STRING, name : STRING,
            is_enabled : BOOLEAN, override : BOOLEAN \cup {None}, multivariate : BOOLEAN]

Data == [flags : SUBSET FlagRow, environments : SUBSET EnvironmentsIn(None)]
Form == [environment : EnvironmentsIn(None) \cup {None}, key : STRING, name : STRING, multivariate : BOOLEAN]
Draft == [id : {None}, name : STRING, share : 0..Whole, is_control : BOOLEAN]

(* A creation that was carried out carries the flag it made. *)
Call ==
  [op : {"create"}, state : {"sent", "refused"}, at : Selections, flag : {None}, form : Form, rows : Seq(Draft)]
    \cup [op : {"create"}, state : {"done"}, at : Selections, flag : FlagIds, form : Form, rows : Seq(Draft)]
    \cup [op : {"bulk"}, state : CallStates, at : Selections, flag : FlagIds, form : Form, rows : Seq(Draft)]
    \cup [op : {"update"}, state : CallStates, at : Selections, flag : FlagRow, name : STRING]
    \cup [op : {"toggle"}, state : CallStates, at : Selections, flag : FlagIds, next : BOOLEAN]
    \cup [op : {"lift", "delete"}, state : CallStates, at : Selections, flag : FlagIds]

Page ==
  [doing : {"toggles", "creation", "edits"}, live : {"data", "none"}, at : Selections,
   lists : [data : ListOf(Selections, Data)], isDialogOpen : BOOLEAN, editingFlag : FlagRow \cup {None},
   form : Form, variantRows : Seq(Draft), toggling : FlagIds \cup {None},
   opened : FlagRow \cup {None}, crossed : BOOLEAN, abandoned : SUBSET FlagIds]

Server == [flags : SUBSET FlagRow, sets : SUBSET FlagIds, writes : Nat]

TypeOK == page \in Page /\ server \in Server /\ flight \subseteq Call

(* What loadData answers; without a project the lists are not filtered. *)
Stored(project) ==
  [flags |-> {flag \in server.flags : flag.environment \in EnvironmentsIn(project)},
   environments |-> EnvironmentsIn(project)]

data == page.lists["data"].rows
LoadData(of) == Refetch(page.lists, page.live, of, page.at, [data |-> Stored(of)], {"data"})

NoFlag == [environment |-> None, key |-> "", name |-> "", multivariate |-> FALSE]
FlagForm(flag) ==
  [environment |-> flag.environment, key |-> flag.key, name |-> flag.name, multivariate |-> flag.multivariate]

VariantRows ==
  << [id |-> None, name |-> "", share |-> Whole, is_control |-> TRUE],
     [id |-> None, name |-> "", share |-> 0, is_control |-> FALSE] >>

-----------------------------------------------------------------------------
(* What the page offers. *)

(* An overridden flag cannot be switched, nor one that is being switched;   *)
(* there is one place to remember which.                                    *)
Switches ==
  IF page.isDialogOpen THEN {}
  ELSE {flag \in data.flags : page.toggling # flag.id /\ flag.override = None}

RowMenu(flag) ==
  IF page.isDialogOpen \/ flag \notin data.flags THEN {}
  ELSE {"edit", "delete"} \cup (IF flag.override # None THEN {"lift"} ELSE {})

(* The inputs of the dialog that can be changed. *)
DialogInputs ==
  IF ~page.isDialogOpen THEN {}
  ELSE IF page.editingFlag # None THEN {"name"}
  ELSE {"name", "environment", "key", "multivariate"}

VariantInputs == page.isDialogOpen /\ page.editingFlag = None /\ page.form.multivariate

isMultivariateFormValid == page.form.multivariate => NamesGiven(page.variantRows)

isSaving == Busy(flight, {"create", "bulk", "update"})

SaveEnabled == page.isDialogOpen /\ ~isSaving /\ (page.editingFlag = None => isMultivariateFormValid)

-----------------------------------------------------------------------------
Send(call) ==
  /\ CanSend(flight, server.writes, page.doing)
  /\ flight' = flight \cup {call}
  /\ UNCHANGED server

Dialog(fields) == page' = fields /\ UNCHANGED <<server, flight>>

(* Another project is selected: loadData is a new function of it, and runs. *)
Select(project) ==
  /\ project # page.at /\ Room(page.lists, page.live)
  /\ page' = [page EXCEPT !.at = project,
       !.lists = Refetch(@, page.live, project, project, [data |-> Stored(project)], {"data"})]
  /\ UNCHANGED <<server, flight>>

(* The button only opens the dialog.  opened and crossed are history: the   *)
(* flag the dialog was opened on, and whether a creation that ended closed  *)
(* a dialog with a flag in it.                                              *)
NewFlag ==
  /\ ~page.isDialogOpen
  /\ Dialog([page EXCEPT !.isDialogOpen = TRUE, !.opened = None])

handleEdit(flag) ==
  /\ "edit" \in RowMenu(flag)
  /\ Dialog([page EXCEPT !.isDialogOpen = TRUE, !.editingFlag = flag, !.form = FlagForm(flag),
                         !.opened = flag, !.crossed = FALSE])

resetFlagForm(p) == [p EXCEPT !.form = NoFlag, !.variantRows = VariantRows]

CloseDialog ==
  /\ page.isDialogOpen
  /\ Dialog([resetFlagForm(page) EXCEPT !.isDialogOpen = FALSE, !.editingFlag = None,
                                        !.opened = None, !.crossed = FALSE])

ChangeForm(form) ==
  /\ \A field \in DOMAIN form : form[field] # page.form[field] => field \in DialogInputs
  /\ form.environment \in data.environments \cup {None}
  /\ Dialog([page EXCEPT !.form = form])

Edits(rows) ==
  {AddRow(rows, None)} \cup {RenameRow(rows, i, name) : i \in DOMAIN rows, name \in Names}
    \cup UNION {{RemoveRow(rows, i)} \cup {WeighRow(rows, i, share) : share \in Weights} : i \in DOMAIN rows \ Controls(rows)}

EditVariantRows ==
  /\ VariantInputs
  /\ \E rows \in Edits(page.variantRows) : Len(rows) <= MaxRows /\ Dialog([page EXCEPT !.variantRows = rows])

handleCreate ==
  /\ SaveEnabled /\ page.editingFlag = None
  /\ Send([op |-> "create", state |-> "sent", at |-> page.at, flag |-> None,
           form |-> page.form, rows |-> page.variantRows])
  /\ UNCHANGED page

handleUpdate ==
  /\ SaveEnabled /\ page.editingFlag # None
  /\ Send([op |-> "update", state |-> "sent", at |-> page.at, flag |-> page.editingFlag, name |-> page.form.name])
  /\ UNCHANGED page

setFlagState(flags, id, is_enabled) ==
  {IF flag.id = id THEN [flag EXCEPT !.is_enabled = is_enabled] ELSE flag : flag \in flags}

Toggles(id) == {c \in flight : c.op = "toggle" /\ c.flag = id}

(* The switch moves at once.  A second toggle of a flag may overtake the    *)
(* first, whose place the toggle of another flag took.                      *)
toggleFlag(flag) ==
  /\ flag \in Switches
  /\ Send([op |-> "toggle", state |-> "sent", at |-> page.at, flag |-> flag.id, next |-> ~flag.is_enabled])
  /\ page' = [page EXCEPT !.toggling = flag.id,
       !.lists["data"] = Patch(@, [data EXCEPT !.flags = setFlagState(@, flag.id, ~flag.is_enabled)],
                               Toggles(flag.id) # {})]

liftOverride(flag) ==
  /\ "lift" \in RowMenu(flag)
  /\ Send([op |-> "lift", state |-> "sent", at |-> page.at, flag |-> flag.id])
  /\ UNCHANGED page

deleteFlag(flag) ==
  /\ "delete" \in RowMenu(flag)
  /\ Send([op |-> "delete", state |-> "sent", at |-> page.at, flag |-> flag.id])
  /\ UNCHANGED page

-----------------------------------------------------------------------------
(* What the server makes of a call. *)

Done(c, stored) == server' = [stored EXCEPT !.writes = @ + 1] /\ flight' = Become(flight, c, "done")
Refused(c) == flight' = Become(flight, c, "refused") /\ UNCHANGED server

FlagAt(id) == {flag \in server.flags : flag.id = id}

(* A key is unique in its environment. *)
HandleCreate(c) ==
  /\ c.op = "create" /\ c.state = "sent"
  /\ IF \/ c.form.environment = None \/ c.form.key = "" \/ c.form.name = ""
        \/ \E flag \in server.flags : flag.environment = c.form.environment /\ flag.key = c.form.key
     THEN Refused(c)
     ELSE \E id \in {i \in FlagIds : FlagAt(i) = {}} :
            /\ server' = [server EXCEPT !.writes = @ + 1, !.flags = @ \cup
                 {[id |-> id, environment |-> c.form.environment, key |-> c.form.key, name |-> c.form.name,
                   is_enabled |-> FALSE, override |-> None, multivariate |-> c.form.multivariate]}]
            /\ flight' = (flight \ {c}) \cup {[c EXCEPT !.state = "done", !.flag = id]}
  /\ UNCHANGED page

HandleBulk(c) ==
  /\ c.op = "bulk" /\ c.state = "sent"
  /\ IF FlagAt(c.flag) = {} \/ ~ValidSet(c.rows) THEN Refused(c)
     ELSE Done(c, [server EXCEPT !.sets = @ \cup {c.flag}])
  /\ UNCHANGED page

(* What a call writes to a flag that is still there. *)
HandleWrite(c, op, flags) ==
  /\ c.op = op /\ c.state = "sent"
  /\ IF FlagAt(c.flag) = {} THEN Refused(c) ELSE Done(c, [server EXCEPT !.flags = flags])
  /\ UNCHANGED page

HandleToggle(c) == HandleWrite(c, "toggle", setFlagState(server.flags, c.flag, c.next))
HandleLift(c) ==
  HandleWrite(c, "lift", {[flag EXCEPT !.override = IF flag.id = c.flag THEN None ELSE @] : flag \in server.flags})

HandleUpdate(c) ==
  /\ c.op = "update" /\ c.state = "sent"
  /\ IF FlagAt(c.flag.id) = {} \/ c.name = "" THEN Refused(c)
     ELSE Done(c, [server EXCEPT !.flags = {[flag EXCEPT !.name = IF flag.id = c.flag.id THEN c.name ELSE @] : flag \in @}])
  /\ UNCHANGED page

HandleDelete(c) ==
  /\ c.op = "delete" /\ c.state = "sent"
  /\ IF FlagAt(c.flag) = {} THEN Refused(c)
     ELSE Done(c, [server EXCEPT !.flags = @ \ FlagAt(c.flag), !.sets = @ \ {c.flag}])
  /\ UNCHANGED page

Handle(c) ==
  HandleCreate(c) \/ HandleBulk(c) \/ HandleToggle(c) \/ HandleLift(c) \/ HandleUpdate(c) \/ HandleDelete(c)

-----------------------------------------------------------------------------
(* What the handlers do when their call is answered. *)

Answered(c, ops) == c.op \in ops /\ c.state = "done" /\ flight' = flight \ {c} /\ Room(page.lists, page.live)

Reloaded(p, c) == page' = [p EXCEPT !.lists = LoadData(c.at)] /\ UNCHANGED server

(* mutant: the variants are left for the rules page to add *)
FlagCreatedAlone(c) ==
  /\ c.op = "create" /\ c.state = "done" /\ c.form.multivariate
  /\ flight' = flight \ {c}
  /\ Reloaded([resetFlagForm(page) EXCEPT !.isDialogOpen = FALSE], c)

(* A multivariate flag's variants are a call of their own, with the rows as *)
(* they were when the flag was sent.                                        *)
FlagCreated(c) ==
  /\ c.op = "create" /\ c.state = "done" /\ c.form.multivariate
  /\ flight' = (flight \ {c}) \cup
       {[op |-> "bulk", state |-> "sent", at |-> c.at, flag |-> c.flag, form |-> c.form, rows |-> c.rows]}
  /\ UNCHANGED <<page, server>>

(* handleCreate ends.  It closes the dialog and leaves editingFlag alone.   *)
Created(c) ==
  /\ Answered(c, {"create", "bulk"})
  /\ c.op = "create" => ~c.form.multivariate
  /\ Reloaded([resetFlagForm(page) EXCEPT !.isDialogOpen = FALSE, !.crossed = @ \/ page.editingFlag # None], c)

Updated(c) ==
  /\ Answered(c, {"update"})
  /\ Reloaded([resetFlagForm(page) EXCEPT !.isDialogOpen = FALSE, !.editingFlag = None, !.crossed = FALSE], c)

LiftedOrDeleted(c) ==
  /\ Answered(c, {"lift", "delete"})
  /\ Reloaded(page, c)

(* A toggle that went well leaves the row as it is. *)
Toggled(c) ==
  /\ c.op = "toggle" /\ c.state = "done" /\ flight' = flight \ {c}
  /\ page' = [page EXCEPT !.toggling = None, !.lists["data"] = Patch(@, @.rows, FALSE)]
  /\ UNCHANGED server

(* Refused or lost: the switch moves back, and anything else stays as it    *)
(* is.  abandoned is history: the flags whose variants were never stored    *)
(* because a call failed.                                                   *)
ToggleFailed(c) ==
  /\ c.op = "toggle" /\ flight' = flight \ {c}
  /\ page' = [page EXCEPT !.toggling = None,
       !.lists["data"] = Patch(@, [data EXCEPT !.flags = setFlagState(@, c.flag, ~c.next)],
                               c.state # "refused" \/ Toggles(c.flag) # {c})]
  /\ UNCHANGED server

Failed(c) ==
  /\ c.op # "toggle" /\ flight' = flight \ {c}
  /\ page' = [page EXCEPT !.lists = IF c.state = "done" \/ c.op = "bulk" THEN ExcuseAll(@, {"data"}) ELSE @,
       !.abandoned = IF c.op = "bulk" \/ (c.op = "create" /\ c.state = "done") THEN @ \cup {c.flag} ELSE @]
  /\ UNCHANGED server

Return(c) == FlagCreated(c) \/ Created(c) \/ Updated(c) \/ LiftedOrDeleted(c) \/ Toggled(c) \/ ToggleFailed(c) \/ Failed(c)

ReadLoad(i) ==
  LET list == page.lists["data"] IN
  /\ Unanswered(list, i)
  /\ page' = [page EXCEPT !.lists["data"] = Read(@, i, Stored(list.loads[i].of))]
  /\ UNCHANGED <<server, flight>>

(* It takes back a switch that was moved since. *)
LandLoad(i) ==
  /\ ~Unanswered(page.lists["data"], i)
  /\ page' = [page EXCEPT !.lists["data"] =
                LET landed == Land(@, i, page.at) IN IF Busy(flight, {"toggle"}) THEN Excuse(landed) ELSE landed]
  /\ UNCHANGED <<server, flight>>

FailLoad(i) ==
  /\ page' = [page EXCEPT !.lists["data"] = FailTo(@, i, @.rows)]
  /\ UNCHANGED <<server, flight>>

-----------------------------------------------------------------------------
(* The page has loaded what is stored; to bound a model its user switches   *)
(* flags, creates or edits them, and loads take their time where it         *)
(* switches them.                                                           *)
Init ==
  /\ server = [flags |-> InitialFlags, sets |-> InitialSets, writes |-> 0]
  /\ flight = {}
  /\ \E at \in Selections, doing \in {"toggles", "creation", "edits"} :
       page = [doing |-> doing, live |-> IF doing = "toggles" THEN "data" ELSE "none", at |-> at, lists |-> [data |-> List(Stored(at))],
               isDialogOpen |-> FALSE, editingFlag |-> None, form |-> NoFlag, variantRows |-> VariantRows,
               toggling |-> None, opened |-> None, crossed |-> FALSE, abandoned |-> {}]

FlagDialog ==
  NewFlag \/ CloseDialog \/ handleCreate \/ \E form \in FlagForms : ChangeForm(form)

Next ==
  \/ \E project \in Selections : Select(project)
  \/ page.doing = "toggles" /\ \E flag \in data.flags : toggleFlag(flag) \/ liftOverride(flag) \/ deleteFlag(flag)
  \/ page.doing = "creation" /\ (FlagDialog \/ EditVariantRows)
  \/ page.doing = "edits" /\ (FlagDialog \/ handleUpdate \/ \E flag \in data.flags : handleEdit(flag))
  \/ \E c \in flight : Handle(c) \/ Return(c)
  \/ \E i \in DOMAIN LoadsOf(page.lists, page.live) : ReadLoad(i) \/ LandLoad(i) \/ FailLoad(i)

Spec == Init /\ [][Next]_vars

-----------------------------------------------------------------------------
(* Properties *)

(* At rest every switch shows what is stored, unless the answer that landed *)
(* last was overtaken, was for a project left since or landed while a       *)
(* switch was being moved, its load failed or a write's answer was lost.    *)
Settles == flight = {} => Settled(page.lists["data"], Stored(page.at))

(* What is saved is the flag the dialog was opened on, and what is created  *)
(* comes of a dialog that was opened for a new one.  After a creation's     *)
(* answer closed a dialog with a flag in it, and only then, "New flag"      *)
(* saves a flag it was not opened on: that one.                             *)
SavesOpened ==
  \A c \in flight' \ flight :
    c.state = "sent" =>
      /\ c.op = "update" => c.flag = page.opened \/ (page.opened = None /\ page.crossed)
      /\ c.op = "create" => page.opened = None

EditsReach == [][SavesOpened]_vars

(* A stored multivariate flag has its variants, or will once the calls in   *)
(* flight are answered, or one of these calls failed.                       *)
VariantsFollow ==
  \A flag \in server.flags :
    flag.multivariate =>
      \/ flag.id \in server.sets
      \/ flag.id \in page.abandoned
      \/ \E c \in flight : c.op \in {"create", "bulk"} /\ c.flag = flag.id
=============================================================================
