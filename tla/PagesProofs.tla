----------------------------- MODULE PagesProofs -----------------------------
(***************************************************************************)
(* The pages with dialogs, whatever the constants are: members, rules and  *)
(* flags, and what all pages share: lists with their loads, and the rows   *)
(* of a variant editor.  Each page has an invariant of its own: its types, *)
(* that its lists show what is stored or a call that was carried out is    *)
(* about to load them again, and what its dialogs hold.                    *)
(***************************************************************************)
EXTENDS Dashboard, SumTheorems, TLAPS

-----------------------------------------------------------------------------
(* Lists                                                                    *)

(* A list that was just loaded is a list.                                   *)
LEMMA FirstTyped == ASSUME NEW Of, NEW Rows, NEW rows \in Rows PROVE List(rows) \in ListOf(Of, Rows)
  BY ListsAssumption DEF List, ListOf, Load

(* Overtaking changes nothing of a load but its mark.                       *)
LEMMA OvertakenTyped ==
  ASSUME NEW S, NEW Rows, NEW loads \in Seq(Load(S, Rows))
  PROVE  /\ Overtaken(loads) \in Seq(Load(S, Rows)) /\ Len(Overtaken(loads)) = Len(loads)
         /\ \A i \in 1..Len(loads) : Overtaken(loads)[i] = [loads[i] EXCEPT !.overtaken = TRUE]
<1>1. \A i \in 1..Len(loads) : loads[i] \in Load(S, Rows)
  OBVIOUS
<1>2. \A l \in Load(S, Rows) : [l EXCEPT !.overtaken = TRUE] \in Load(S, Rows)
  BY DEF Load
<1>3. DOMAIN loads = 1..Len(loads) /\ Len(loads) \in Nat
  OBVIOUS
<1> QED BY <1>1, <1>2, <1>3 DEF Overtaken

(* A load that starts.                                                      *)
LEMMA FetchTyped ==
  ASSUME NEW Of, NEW Rows, NEW list \in ListOf(Of, Rows), NEW of \in Of, Len(list.loads) < MaxLoads
  PROVE  Fetch(list, of) \in ListOf(Of, Rows)
<1> DEFINE load == [of |-> of, rows |-> Unread, overtaken |-> FALSE]
<1>1. load \in Load(Of, Rows)
  BY DEF Load
<1>2. list.loads \in Seq(Load(Of, Rows))
  BY DEF ListOf
<1> HIDE DEF load
<1>3. Append(list.loads, load) \in Seq(Load(Of, Rows)) /\ Len(Append(list.loads, load)) <= MaxLoads
  BY <1>1, <1>2, ListsAssumption
<1> QED BY <1>3 DEF Fetch, ListOf, load

(* Rows that an answer puts there.                                          *)
LEMMA ReplaceTyped ==
  ASSUME NEW Of, NEW Rows, NEW list \in ListOf(Of, Rows), NEW rows \in Rows, NEW excused \in BOOLEAN
  PROVE  /\ Replace(list, rows, excused) \in ListOf(Of, Rows)
         /\ Patch(list, rows, excused) \in ListOf(Of, Rows)
         /\ Excuse(list) \in ListOf(Of, Rows)
<1>1. list.loads \in Seq(Load(Of, Rows)) /\ Len(list.loads) <= MaxLoads
  BY DEF ListOf
<1>2. Overtaken(list.loads) \in Seq(Load(Of, Rows)) /\ Len(Overtaken(list.loads)) <= MaxLoads
  BY <1>1, OvertakenTyped
<1> QED BY <1>2 DEF Replace, Patch, Excuse, ListOf

(* The server reads for a load.                                             *)
LEMMA ReadTyped ==
  ASSUME NEW Of, NEW Rows, NEW list \in ListOf(Of, Rows), NEW i \in DOMAIN list.loads, NEW rows \in Rows
  PROVE  Read(list, i, rows) \in ListOf(Of, Rows)
<1> DEFINE load == [list.loads[i] EXCEPT !.rows = rows]
<1>1. list.loads \in Seq(Load(Of, Rows)) /\ i \in 1..Len(list.loads) /\ Len(list.loads) <= MaxLoads
  BY DEF ListOf
<1>2. load \in Load(Of, Rows)
  <2>1. list.loads[i] \in Load(Of, Rows)
    BY <1>1
  <2> QED BY <2>1 DEF Load
<1> HIDE DEF load
<1>3. [list.loads EXCEPT ![i] = load] \in Seq(Load(Of, Rows)) /\ Len([list.loads EXCEPT ![i] = load]) <= MaxLoads
  BY <1>1, <1>2
<1>4. Read(list, i, rows) = [list EXCEPT !.loads = [list.loads EXCEPT ![i] = load]]
  BY DEF Read, load
<1> QED BY <1>3, <1>4 DEF ListOf

(* A load that ends: those before it may still come.                        *)
LEMMA SettleTyped ==
  ASSUME NEW Of, NEW Rows, NEW list \in ListOf(Of, Rows), NEW i \in DOMAIN list.loads,
         NEW rows \in Rows, NEW excused \in BOOLEAN
  PROVE  Settle(list, i, rows, excused) \in ListOf(Of, Rows)
<1> DEFINE before == SubSeq(list.loads, 1, i - 1)
           after == SubSeq(list.loads, i + 1, Len(list.loads))
<1>1. list.loads \in Seq(Load(Of, Rows)) /\ Len(list.loads) <= MaxLoads /\ i \in 1..Len(list.loads)
  BY DEF ListOf
<1>2. before \in Seq(Load(Of, Rows)) /\ Len(before) = i - 1
  BY <1>1
<1>3. after \in Seq(Load(Of, Rows)) /\ Len(after) = Len(list.loads) - i
  BY <1>1
<1>4. Overtaken(before) \in Seq(Load(Of, Rows)) /\ Len(Overtaken(before)) = i - 1
  BY <1>2, OvertakenTyped
<1> HIDE DEF before, after
<1>5. Overtaken(before) \o after \in Seq(Load(Of, Rows)) /\ Len(Overtaken(before) \o after) <= MaxLoads
  BY <1>1, <1>3, <1>4, ListsAssumption
<1> QED BY <1>5 DEF Settle, ListOf, before, after

(* What lands is what the server read, and what failed is what the page     *)
(* makes of it.                                                             *)
LEMMA LandTyped ==
  ASSUME NEW Of, NEW Rows, NEW list \in ListOf(Of, Rows), NEW i \in DOMAIN list.loads, NEW at,
         ~Unanswered(list, i)
  PROVE  Land(list, i, at) \in ListOf(Of, Rows)
<1>1. list.loads[i] \in Load(Of, Rows)
  BY DEF ListOf
<1>2. list.loads[i].rows \in Rows /\ list.loads[i].overtaken \in BOOLEAN
  BY <1>1 DEF Load, Unanswered
<1> QED BY <1>2, SettleTyped DEF Land

(* A load that fails.                                                       *)
LEMMA FailTyped ==
  ASSUME NEW Of, NEW Rows, NEW list \in ListOf(Of, Rows), NEW i \in DOMAIN list.loads, NEW rows \in Rows
  PROVE  FailTo(list, i, rows) \in ListOf(Of, Rows)
  BY SettleTyped DEF FailTo

(* The lists of a page, by name, with their kinds of rows.                  *)
ListsIn(lists, names, Of, rows) ==
  /\ lists = [n \in names |-> lists[n]]
  /\ \A n \in names : lists[n] \in ListOf(Of, rows[n])

(* The lists of a page that was loaded.                                     *)
LEMMA FirstLists ==
  ASSUME NEW names, NEW Of, NEW rows, NEW stored, \A n \in names : stored[n] \in rows[n]
  PROVE  ListsIn([n \in names |-> List(stored[n])], names, Of, rows)
  BY FirstTyped DEF ListsIn

(* Some lists are loaded again.                                             *)
LEMMA RefetchTyped ==
  ASSUME NEW names, NEW Of, NEW rows, NEW lists, ListsIn(lists, names, Of, rows),
         NEW live, Room(lists, live), NEW of \in Of, NEW at, NEW stored, NEW S,
         \A n \in names \cap S : stored[n] \in rows[n]
  PROVE  ListsIn(Refetch(lists, live, of, at, stored, S), names, Of, rows)
<1>1. DOMAIN lists = names
  BY DEF ListsIn
<1>2. ASSUME NEW n \in names PROVE Refetch(lists, live, of, at, stored, S)[n] \in ListOf(Of, rows[n])
  <2>1. lists[n] \in ListOf(Of, rows[n])
    BY DEF ListsIn
  <2>2. CASE n = live /\ n \in S
    BY <1>1, <2>1, <2>2, FetchTyped DEF Refetch, Room, LoadsOf
  <2>3. CASE n # live /\ n \in S
    BY <1>1, <2>1, <2>3, ReplaceTyped DEF Refetch
  <2>4. CASE n \notin S
    BY <1>1, <2>1, <2>4 DEF Refetch
  <2> QED BY <2>2, <2>3, <2>4
<1> QED BY <1>1, <1>2 DEF ListsIn, Refetch

(* Some lists are excused.                                                  *)
LEMMA ExcuseAllTyped ==
  ASSUME NEW names, NEW Of, NEW rows, NEW lists, ListsIn(lists, names, Of, rows), NEW S
  PROVE  ListsIn(ExcuseAll(lists, S), names, Of, rows)
<1>1. DOMAIN lists = names
  BY DEF ListsIn
<1>2. ASSUME NEW n \in names PROVE ExcuseAll(lists, S)[n] \in ListOf(Of, rows[n])
  <2>1. lists[n] \in ListOf(Of, rows[n])
    BY DEF ListsIn
  <2>2. Excuse(lists[n]) \in ListOf(Of, rows[n])
    <3>1. lists[n].rows \in rows[n]
      BY <2>1 DEF ListOf
    <3> QED BY <2>1, <3>1, ReplaceTyped
  <2> QED BY <1>1, <2>1, <2>2 DEF ExcuseAll
<1> QED BY <1>1, <1>2 DEF ListsIn, ExcuseAll

(* One list changes.                                                        *)
LEMMA OneListTyped ==
  ASSUME NEW names, NEW Of, NEW rows, NEW lists, ListsIn(lists, names, Of, rows),
         NEW n \in names, NEW list \in ListOf(Of, rows[n])
  PROVE  ListsIn([lists EXCEPT ![n] = list], names, Of, rows)
  BY DEF ListsIn

(* The loads of a page are those of its live list, if it has one.           *)
LEMMA LiveLoads ==
  ASSUME NEW names, NEW Of, NEW rows, NEW lists, ListsIn(lists, names, Of, rows),
         NEW live, NEW i \in DOMAIN LoadsOf(lists, live)
  PROVE  /\ live \in names /\ lists[live] \in ListOf(Of, rows[live])
         /\ i \in DOMAIN lists[live].loads
         /\ lists[live].loads[i] \in Load(Of, rows[live])
<1>1. DOMAIN lists = names
  BY DEF ListsIn
<1>2. live \in names
  BY <1>1 DEF LoadsOf
<1>3. lists[live] \in ListOf(Of, rows[live]) /\ i \in DOMAIN lists[live].loads
  BY <1>1, <1>2 DEF LoadsOf, ListsIn
<1> QED BY <1>2, <1>3 DEF ListOf

-----------------------------------------------------------------------------
(* The members page: types                                                  *)

(* The page's lists are lists.                                              *)
LEMMA MembersSame ==
  /\ \A Of, Rows : Members!ListOf(Of, Rows) = ListOf(Of, Rows)
  /\ \A rows : Members!List(rows) = List(rows)
  /\ \A lists, live, of, at, stored, names : Members!Refetch(lists, live, of, at, stored, names) = Refetch(lists, live, of, at, stored, names)
  /\ \A lists, names : Members!ExcuseAll(lists, names) = ExcuseAll(lists, names)
  /\ \A lists, live : Members!Room(lists, live) = Room(lists, live)
  /\ \A lists, live : Members!LoadsOf(lists, live) = LoadsOf(lists, live)
  /\ \A list, rows, excused : Members!Replace(list, rows, excused) = Replace(list, rows, excused)
  /\ \A list, rows, excused : Members!Patch(list, rows, excused) = Patch(list, rows, excused)
  /\ \A list, i, rows : Members!Read(list, i, rows) = Read(list, i, rows)
  /\ \A list, i : Members!Unanswered(list, i) = Unanswered(list, i)
  /\ \A list, i, at : Members!Land(list, i, at) = Land(list, i, at)
  /\ \A list, i, rows : Members!FailTo(list, i, rows) = FailTo(list, i, rows)
  /\ \A list, stored : Members!Settled(list, stored) = Settled(list, stored)
    BY DEF Load, Members!Load, ListOf, Members!ListOf, List, Members!List, Overtaken,
         Members!Overtaken, Fetch, Members!Fetch, Replace, Members!Replace, Patch, Members!Patch,
         Read, Members!Read, Unanswered, Members!Unanswered, Settle, Members!Settle, Land,
         Members!Land, FailTo, Members!FailTo, Excuse, Members!Excuse, Refetch, Members!Refetch,
         ExcuseAll, Members!ExcuseAll, LoadsOf, Members!LoadsOf, Room, Members!Room, Settled,
         Members!Settled

MembersRows ==
  [members |-> SUBSET Members!OrganizationMembership, invitations |-> SUBSET Members!Invitation,
   grants |-> [environments : SUBSET Members!Environments(Members!Projects), grants : SUBSET Members!Grant],
   orgGrants |-> SUBSET Members!Grant]

MembersLists(lists) == ListsIn(lists, Members!ListNames, Places, MembersRows)

(* The lists of a page are its lists, by name.                              *)
LEMMA MembersListsTyped ==
  ASSUME NEW p \in Members!Page PROVE MembersLists(p.lists)
  BY MembersSame DEF MembersLists, ListsIn, Members!Page, Members!ListNames, MembersRows

(* A page with other lists is a page.                                       *)
LEMMA MembersPageTyped ==
  ASSUME NEW p \in Members!Page, NEW lists, MembersLists(lists)
  PROVE  [p EXCEPT !.lists = lists] \in Members!Page
  BY MembersSame DEF MembersLists, ListsIn, Members!Page, Members!ListNames, MembersRows

(* What is stored has the rows the lists have.                              *)
LEMMA MembersStored ==
  ASSUME NEW at \in Places, server \in Members!Server
  PROVE  \A n \in Members!ListNames : Members!Stored(at)[n] \in MembersRows[n]
<1>1. Members!OrgMembers(at) \in SUBSET Members!OrganizationMembership
  BY DEF Members!OrgMembers, Members!Server
<1>2. Members!OrgInvitations(at) \in SUBSET Members!Invitation
  BY DEF Members!OrgInvitations, Members!Server
<1>3. Members!OrgWideGrants(at) \in SUBSET Members!Grant
  BY DEF Members!OrgWideGrants, Members!Server
<1>4. Members!ProjectGrants(at) \in MembersRows["grants"]
  <2>1. CASE at.project = None
    BY <2>1 DEF Members!ProjectGrants, MembersRows
  <2>2. CASE at.project # None
    <3>1. at.project \in Members!Projects
      BY <2>2 DEF Members!Projects, Members!ProjectsOf
    <3>2. EnvironmentsOf[at.project] \in SUBSET Members!Environments(Members!Projects)
      BY <3>1 DEF Members!Environments
    <3>3. {g \in server.grants : g.target \in Members!TargetsOf({at.project})} \in SUBSET Members!Grant
      BY DEF Members!Server
    <3> QED BY <2>2, <3>2, <3>3 DEF Members!ProjectGrants, MembersRows
  <2> QED BY <2>1, <2>2
<1>5. /\ Members!Stored(at)["members"] \in MembersRows["members"]
      /\ Members!Stored(at)["invitations"] \in MembersRows["invitations"]
      /\ Members!Stored(at)["orgGrants"] \in MembersRows["orgGrants"]
  BY <1>1, <1>2, <1>3 DEF Members!Stored, MembersRows
<1>6. Members!Stored(at)["grants"] \in MembersRows["grants"]
  BY <1>4 DEF Members!Stored
<1> QED BY <1>5, <1>6 DEF Members!ListNames

(* So has what a selection leaves of them.                                  *)
LEMMA MembersCleared == \A n \in Members!ListNames : Members!Cleared(n) \in MembersRows[n]
<1>1. Members!Cleared("grants") \in MembersRows["grants"]
  BY DEF Members!Cleared, MembersRows
<1>2. /\ Members!Cleared("members") \in MembersRows["members"]
      /\ Members!Cleared("invitations") \in MembersRows["invitations"]
      /\ Members!Cleared("orgGrants") \in MembersRows["orgGrants"]
  BY DEF Members!Cleared, MembersRows
<1> QED BY <1>1, <1>2 DEF Members!ListNames

(* What a page loads again are lists.                                       *)
LEMMA MembersLoaded ==
  ASSUME Members!TypeOK, NEW of \in Places, NEW at, NEW S \in SUBSET Members!ListNames, Room(page.lists, page.live)
  PROVE  MembersLists(Members!Loaded(of, at, S))
<1> DEFINE empty == (IF of.project = None THEN {"grants"} ELSE {})
                    \cup (IF Members!ProjectsOf(of.organization) = {} THEN {"orgGrants"} ELSE {})
           lists == Refetch(page.lists, page.live, of, at, Members!Stored(of), S \ empty)
           loaded == [n \in Members!ListNames |->
                        IF n \in S \cap empty THEN Replace(lists[n], Members!Cleared(n), of # at) ELSE lists[n]]
<1>1. MembersLists(page.lists) /\ server \in Members!Server
  BY MembersListsTyped DEF Members!TypeOK
<1>2. ListsIn(lists, Members!ListNames, Places, MembersRows)
  BY <1>1, MembersStored, RefetchTyped DEF MembersLists
<1>3. Members!Loaded(of, at, S) = loaded
  BY MembersSame DEF Members!Loaded
<1> HIDE DEF lists
<1>4. ASSUME NEW n \in Members!ListNames PROVE loaded[n] \in ListOf(Places, MembersRows[n])
  <2>1. lists[n] \in ListOf(Places, MembersRows[n])
    BY <1>2 DEF ListsIn
  <2>2. Replace(lists[n], Members!Cleared(n), of # at) \in ListOf(Places, MembersRows[n])
    BY <2>1, MembersCleared, ReplaceTyped
  <2> HIDE DEF empty
  <2> QED BY <2>1, <2>2
<1> HIDE DEF empty
<1> QED BY <1>3, <1>4 DEF MembersLists, ListsIn

(* A page, and a dialog that is open has the row it is about.               *)
MembersPageOK(p) ==
  /\ p \in Members!Page
  /\ p.dialog = "grant" => p.member \in Members!OrganizationMembership
  /\ p.dialog = "remove" => p.subject \in Members!OrganizationMembership
  /\ p.dialog = "revoke" => p.subject \in Members!Invitation

(* The type invariant, in its parts.                                        *)
LEMMA MembersTypes ==
  Members!TypeOK <=> MembersPageOK(page) /\ server \in Members!Server /\ flight \subseteq Members!Call
  BY DEF Members!TypeOK, MembersPageOK

(* A page that is sound stays so with other lists.                          *)
LEMMA MembersListsSet ==
  ASSUME NEW p, MembersPageOK(p), NEW lists, MembersLists(lists)
  PROVE  MembersPageOK([p EXCEPT !.lists = lists])
<1>1. [p EXCEPT !.lists = lists] \in Members!Page
  BY MembersPageTyped DEF MembersPageOK
<1> QED BY <1>1 DEF MembersPageOK, Members!Page

(* Closing the grant dialog leaves the lists.                               *)
LEMMA MembersClosed == ASSUME Members!TypeOK PROVE MembersPageOK(Members!Closed) /\ Members!Closed.lists = page.lists
<1>1. page \in Members!Page /\ "VIEWER" \in Roles
  BY MembersAssumption DEF Members!TypeOK
<1>2. Members!NoForm \in Members!Form
  BY <1>1 DEF Members!NoForm, Members!Form
<1> QED BY <1>1, <1>2, ZenonT(40) DEF Members!Closed, MembersPageOK, Members!Page

(* The grant dialog opens on a member.                                      *)
LEMMA MembersOpened ==
  ASSUME Members!TypeOK, NEW member \in Members!OrganizationMembership, NEW form \in Members!Form
  PROVE  MembersPageOK(Members!Opened(member, form))
  BY ZenonT(40) DEF Members!TypeOK, Members!Opened, MembersPageOK, Members!Page

(* A project that is selected is the project of a place.                    *)
LEMMA MembersProject ==
  ASSUME NEW at \in Places
  PROVE  /\ at.project # None => at.project \in Members!Targets
         /\ at.organization \in Members!Organizations /\ at.project \in {p.project : p \in Places}
<1>1. at.project # None => at.project \in Members!ProjectsOf(at.organization)
  BY DEF Members!ProjectsOf
<1> QED BY <1>1 DEF Members!Targets, Members!TargetsOf, Members!Projects, Members!Organizations

(* What the lists of a typed page hold.                                     *)
LEMMA MembersShown ==
  ASSUME Members!TypeOK
  PROVE  /\ Members!rows("members") \subseteq Members!OrganizationMembership
         /\ Members!rows("invitations") \subseteq Members!Invitation
         /\ Members!grantRows \subseteq Members!Grant
         /\ Members!rows("grants").environments \subseteq Members!Targets
<1>1. MembersLists(page.lists)
  BY MembersListsTyped DEF Members!TypeOK
<1>2. \A n \in Members!ListNames : Members!rows(n) \in MembersRows[n]
  BY <1>1 DEF MembersLists, ListsIn, ListOf, Members!rows
<1>3. /\ Members!rows("members") \in MembersRows["members"]
      /\ Members!rows("invitations") \in MembersRows["invitations"]
      /\ Members!rows("grants") \in MembersRows["grants"]
  BY <1>2 DEF Members!ListNames
<1>4. /\ Members!grantRows \subseteq Members!Grant
      /\ Members!rows("grants").environments \subseteq Members!Environments(Members!Projects)
  BY <1>3 DEF MembersRows, Members!grantRows
<1> QED BY <1>3, <1>4 DEF MembersRows, Members!Targets, Members!TargetsOf

-----------------------------------------------------------------------------
(* Every click of the grant dialog leaves a sound page and sound calls.     *)
LEMMA MembersGrantDialog ==
  ASSUME Members!TypeOK, Members!GrantDialog
  PROVE  Members!TypeOK'
<1>0. /\ page \in Members!Page /\ server \in Members!Server /\ flight \subseteq Members!Call
      /\ MembersPageOK(page) /\ page.at \in Places /\ page.form \in Members!Form
  BY MembersTypes DEF MembersPageOK, Members!Page
<1> SUFFICES \/ MembersPageOK(page') /\ UNCHANGED <<server, flight>>
             \/ UNCHANGED <<page, server>> /\ \E call \in Members!Call : flight' = flight \cup {call}
  BY <1>0, MembersTypes DEF Members!TypeOK, MembersPageOK
<1>1. ASSUME NEW m \in Members!rows("members"), Members!OpenGrant(m) PROVE MembersPageOK(page') /\ UNCHANGED <<server, flight>>
  <2>1. page.at.project # None
    BY <1>1 DEF Members!OpenGrant, Members!MembersTable
  <2>2. [level |-> "project", target |-> page.at.project, role |-> "VIEWER"] \in Members!Form
    BY <1>0, <2>1, MembersProject, MembersAssumption DEF Members!Form
  <2> QED BY <1>1, <2>2, MembersShown, MembersOpened DEF Members!OpenGrant
<1>2. ASSUME NEW m \in Members!rows("members"), NEW g \in Members!grantRows, Members!OpenChange(g, m)
      PROVE  MembersPageOK(page') /\ UNCHANGED <<server, flight>>
  <2>1. g \in Members!Grant
    BY MembersShown
  <2>2. [level |-> IF g.target \in Members!Projects THEN "project" ELSE "environment", target |-> g.target, role |-> g.role]
          \in Members!Form
    BY <2>1 DEF Members!Form, Members!Grant
  <2> QED BY <1>2, <2>2, MembersShown, MembersOpened DEF Members!OpenChange
<1>3. ASSUME NEW form \in Members!Form, Members!ChangeForm(form) PROVE MembersPageOK(page') /\ UNCHANGED <<server, flight>>
  BY <1>0, <1>3 DEF Members!ChangeForm, MembersPageOK, Members!Page
<1>4. ASSUME NEW level \in {"project", "environment"}, Members!SetLevel(level) PROVE \E form \in Members!Form : Members!ChangeForm(form)
  <2>1. page.at.project \in Members!Targets \cup {None}
    BY <1>0, MembersProject
  <2> QED BY <1>4, <2>1, MembersAssumption DEF Members!SetLevel, Members!Form
<1>5. ASSUME NEW target \in Members!Targets \cup {None}, Members!SetTarget(target) PROVE \E form \in Members!Form : Members!ChangeForm(form)
  BY <1>0, <1>5 DEF Members!SetTarget, Members!Form
<1>6. ASSUME NEW role \in Roles, Members!SetRole(role) PROVE \E form \in Members!Form : Members!ChangeForm(form)
  BY <1>0, <1>6 DEF Members!SetRole, Members!Form
<1>7. CASE Members!CloseGrant
  BY <1>7, MembersClosed DEF Members!CloseGrant
<1>8. CASE Members!handlePreview
  <2>1. page.member \in Members!OrganizationMembership /\ page.member.user \in Members!Users
    BY <1>0, <1>8 DEF Members!handlePreview, MembersPageOK, Members!OrganizationMembership
  <2>2. (IF page.form.level = "project" THEN page.at.project ELSE page.form.target) \in Members!Targets
    BY <1>0, <1>8, MembersProject DEF Members!handlePreview, Members!PreviewEnabled, Members!Form
  <2>3. page.at.project \in {p.project : p \in Places}
    BY <1>0, MembersProject
  <2>4. Members!Signature(page.form) \in Members!GrantForms
    BY <1>0, <2>1, <2>3 DEF Members!Signature, Members!GrantForms, Members!Form
  <2>5. [user |-> page.member.user, role |-> page.form.role,
         target |-> IF page.form.level = "project" THEN page.at.project ELSE page.form.target] \in Members!Grant
    BY <1>0, <2>1, <2>2 DEF Members!Grant, Members!Form
  <2>6. ASSUME NEW signature \in Members!GrantForms, NEW asked \in Members!Grant, NEW at \in Places
        PROVE  [op |-> "preview", state |-> "sent", at |-> at, signature |-> signature, asked |-> asked] \in Members!Call
    BY DEF Members!Call, Members!CallStates
  <2> QED BY <1>0, <1>8, <2>4, <2>5, <2>6 DEF Members!handlePreview, Members!Send
<1>9. CASE Members!handleConfirmGrant
  <2>1. page.member \in Members!OrganizationMembership /\ page.member.user \in Members!Users
    BY <1>0, <1>9 DEF Members!handleConfirmGrant, MembersPageOK, Members!OrganizationMembership
  <2> DEFINE existing == Members!existingMembership # {}
             target == IF existing \/ page.form.level = "environment" THEN page.form.target ELSE page.at.project
  <2>2. existing => page.form.target \in Members!Targets
    BY MembersShown DEF Members!existingMembership, Members!Grant
  <2>3. target \in Members!Targets
    BY <1>0, <1>9, <2>2, MembersProject DEF Members!handleConfirmGrant, Members!ConfirmEnabled, Members!Form
  <2>4. existing \in BOOLEAN /\ page.form.role \in Roles
    BY <1>0 DEF Members!Form
  <2>5. ASSUME NEW e \in BOOLEAN, NEW t \in Members!Targets, NEW user \in Members!Users, NEW role \in Roles, NEW at \in Places
        PROVE  [op |-> "grant", state |-> "sent", at |-> at, user |-> user, role |-> role, existing |-> e, target |-> t]
                 \in Members!Call
    BY DEF Members!Call, Members!CallStates
  <2> HIDE DEF existing
  <2>6. \E call \in Members!Call : flight' = flight \cup {call}
    BY <1>0, <1>9, <2>1, <2>3, <2>4, <2>5 DEF Members!handleConfirmGrant, Members!Send, existing
  <2> QED BY <1>9, <2>6 DEF Members!handleConfirmGrant, Members!Send
<1> QED BY <1>1, <1>2, <1>3, <1>4, <1>5, <1>6, <1>7, <1>8, <1>9 DEF Members!GrantDialog

(* So do the other dialogs.                                                 *)
LEMMA MembersOtherDialogs ==
  ASSUME Members!TypeOK, Members!RemoveDialog \/ Members!InvitationDialogs \/ \E g \in Members!grantRows : Members!handleRevoke(g)
  PROVE  Members!TypeOK'
<1>0. /\ page \in Members!Page /\ server \in Members!Server /\ flight \subseteq Members!Call
      /\ MembersPageOK(page) /\ page.at \in Places
  BY MembersTypes DEF MembersPageOK, Members!Page
<1> SUFFICES \/ MembersPageOK(page') /\ UNCHANGED <<server, flight>>
             \/ UNCHANGED <<page, server>> /\ \E call \in Members!Call : flight' = flight \cup {call}
  BY <1>0, MembersTypes DEF Members!TypeOK, MembersPageOK
<1>1. ASSUME NEW m \in Members!rows("members"), Members!SetMemberToRemove(m)
      PROVE  MembersPageOK(page') /\ UNCHANGED <<server, flight>>
  <2>1. m \in Members!OrganizationMembership
    BY MembersShown
  <2> QED BY <1>0, <1>1, <2>1, Zenon DEF Members!SetMemberToRemove, MembersPageOK, Members!Page
<1>2. ASSUME NEW i \in Members!rows("invitations"), Members!SetInvitationToRevoke(i)
      PROVE  MembersPageOK(page') /\ UNCHANGED <<server, flight>>
  <2>1. i \in Members!Invitation
    BY MembersShown
  <2> QED BY <1>0, <1>2, <2>1 DEF Members!SetInvitationToRevoke, MembersPageOK, Members!Page
<1>3. CASE Members!CancelDialogs
  BY <1>3, MembersClosed DEF Members!CancelDialogs
<1>4. CASE Members!OpenInvite
  BY <1>0, <1>4 DEF Members!OpenInvite, MembersPageOK, Members!Page
<1>5. CASE Members!closeInviteDialog
  <2>1. MembersPageOK(Members!Closed)
    BY MembersClosed
  <2>2. MembersPageOK([Members!Closed EXCEPT !.createdInvite = FALSE])
    BY <2>1, ZenonT(40) DEF MembersPageOK, Members!Page
  <2> QED BY <1>5, <2>2 DEF Members!closeInviteDialog
<1>6. CASE Members!handleRemoveMember
  <2>1. [op |-> "removeMember", state |-> "sent", at |-> page.at, member |-> page.subject] \in Members!Call
    BY <1>0, <1>6 DEF Members!handleRemoveMember, MembersPageOK, Members!Call, Members!CallStates
  <2> QED BY <1>6, <2>1 DEF Members!handleRemoveMember, Members!Send
<1>7. CASE Members!handleRevokeInvitation
  <2>1. page.subject.id \in Invitations
    BY <1>0, <1>7 DEF Members!handleRevokeInvitation, MembersPageOK, Members!Invitation
  <2>2. [op |-> "revokeInvitation", state |-> "sent", at |-> page.at, invitation |-> page.subject.id] \in Members!Call
    BY <1>0, <2>1 DEF Members!Call, Members!CallStates
  <2> QED BY <1>7, <2>2 DEF Members!handleRevokeInvitation, Members!Send
<1>8. CASE Members!handleCreateInvite
  <2>1. [op |-> "invite", state |-> "sent", at |-> page.at, organization |-> page.at.organization] \in Members!Call
    BY <1>0, MembersProject DEF Members!Call, Members!CallStates
  <2> QED BY <1>8, <2>1 DEF Members!handleCreateInvite, Members!Send
<1>9. ASSUME NEW g \in Members!grantRows, Members!handleRevoke(g)
      PROVE  UNCHANGED <<page, server>> /\ \E call \in Members!Call : flight' = flight \cup {call}
  <2>1. [op |-> "revokeGrant", state |-> "sent", at |-> page.at, grant |-> g] \in Members!Call
    BY <1>0, MembersShown DEF Members!Call, Members!CallStates
  <2> QED BY <1>9, <2>1 DEF Members!handleRevoke, Members!Send
<1> QED BY <1>1, <1>2, <1>3, <1>4, <1>5, <1>6, <1>7, <1>8, <1>9 DEF Members!RemoveDialog,
      Members!InvitationDialogs

(* A call that is handled is a call.                                        *)
LEMMA MembersBecome ==
  ASSUME flight \subseteq Members!Call, NEW c \in flight, NEW state \in {"done", "refused"}
  PROVE  Members!Become(flight, c, state) \subseteq Members!Call
<1>1. [c EXCEPT !.state = state] \in Members!Call
  BY DEF Members!Call, Members!CallStates
<1> QED BY <1>1 DEF Members!Become

(* The server answers with what is typed.                                   *)
LEMMA MembersHandle ==
  ASSUME Members!TypeOK, NEW c \in flight, Members!Handle(c)
  PROVE  Members!TypeOK'
<1>0. server \in Members!Server /\ flight \subseteq Members!Call /\ MembersPageOK(page)
  BY MembersTypes
<1>1. UNCHANGED page /\ flight' \subseteq Members!Call
  BY <1>0, MembersBecome, Zenon DEF Members!Handle, Members!HandleGrant, Members!HandleRevoke,
     Members!HandleRemove, Members!HandleInvite, Members!HandleRevokeInvitation, Members!Done,
     Members!Refused
<1>2. server' \in Members!Server
  <2>1. ASSUME NEW stored \in Members!Server, Members!Done(c, stored) PROVE server' \in Members!Server
    BY <2>1 DEF Members!Done, Members!Server
  <2>2. ASSUME Members!Refused(c) PROVE server' \in Members!Server
    BY <1>0, <2>2 DEF Members!Refused
  <2>3. CASE Members!HandleGrant(c)
    <3>1. [user |-> c.user, target |-> c.target, role |-> c.role] \in Members!Grant
      BY <1>0, <2>3 DEF Members!HandleGrant, Members!Call, Members!Grant
    <3>2. [server EXCEPT !.grants = (server.grants \ Members!GrantsAt(c.user, c.target))
             \cup {[user |-> c.user, target |-> c.target, role |-> c.role]}] \in Members!Server
      BY <1>0, <3>1 DEF Members!Server
    <3> QED BY <2>1, <2>2, <2>3, <3>2 DEF Members!HandleGrant
  <2>4. CASE Members!HandleRevoke(c)
    <3>1. [server EXCEPT !.grants = server.grants \ Members!GrantsAt(c.grant.user, c.grant.target)] \in Members!Server
      BY <1>0 DEF Members!Server
    <3> QED BY <2>1, <2>2, <2>4, <3>1 DEF Members!HandleRevoke
  <2>5. CASE Members!HandleRemove(c)
    <3> DEFINE members == server.members \ {c.member}
               grants == {g \in server.grants : g.user = c.member.user =>
                            g.target \notin Members!TargetsOf(Members!ProjectsOf(c.member.organization))}
    <3>1. members \subseteq Members!OrganizationMembership /\ grants \subseteq Members!Grant
      BY <1>0 DEF Members!Server
    <3>2. Members!Done(c, [server EXCEPT !.members = members, !.grants = grants]) \/ Members!Refused(c)
      BY <2>5 DEF Members!HandleRemove
    <3> HIDE DEF members, grants
    <3>3. [server EXCEPT !.members = members, !.grants = grants] \in Members!Server
      BY <1>0, <3>1 DEF Members!Server
    <3> QED BY <2>1, <2>2, <3>2, <3>3
  <2>6. CASE Members!HandleInvite(c)
    <3>1. c.at.organization \in Members!Organizations
      BY <1>0, <2>6, MembersProject DEF Members!HandleInvite, Members!Call
    <3>2. PICK id \in Invitations :
            Members!Done(c, [server EXCEPT !.invitations = server.invitations \cup
                               {[id |-> id, organization |-> c.at.organization, status |-> "pending"]}])
      BY <2>6 DEF Members!HandleInvite
    <3>3. [id |-> id, organization |-> c.at.organization, status |-> "pending"] \in Members!Invitation
      BY <3>1 DEF Members!Invitation, Members!Organizations
    <3> DEFINE invitations == server.invitations \cup {[id |-> id, organization |-> c.at.organization, status |-> "pending"]}
    <3>4. invitations \subseteq Members!Invitation
      BY <1>0, <3>3 DEF Members!Server
    <3> HIDE DEF invitations
    <3>5. [server EXCEPT !.invitations = invitations] \in Members!Server
      BY <1>0, <3>4 DEF Members!Server
    <3> QED BY <2>1, <3>2, <3>5 DEF invitations
  <2>7. CASE Members!HandleRevokeInvitation(c)
    <3> DEFINE revoked(i) == [i EXCEPT !.status = IF i.id = c.invitation THEN "revoked" ELSE i.status]
               invitations == {revoked(i) : i \in server.invitations}
    <3>1. \A i \in Members!Invitation : revoked(i) \in Members!Invitation
      BY DEF Members!Invitation
    <3>2. invitations \subseteq Members!Invitation
      BY <1>0, <3>1 DEF Members!Server
    <3>3. Members!Done(c, [server EXCEPT !.invitations = invitations])
      BY <2>7 DEF Members!HandleRevokeInvitation
    <3> HIDE DEF invitations
    <3>4. [server EXCEPT !.invitations = invitations] \in Members!Server
      BY <1>0, <3>2 DEF Members!Server
    <3> QED BY <2>1, <3>3, <3>4
  <2> QED BY <2>3, <2>4, <2>5, <2>6, <2>7 DEF Members!Handle
<1> QED BY <1>0, <1>1, <1>2, MembersTypes DEF Members!TypeOK, MembersPageOK

(* The page takes an answer in.                                             *)
LEMMA MembersReturn ==
  ASSUME Members!TypeOK, NEW c \in flight, Members!Return(c)
  PROVE  Members!TypeOK'
<1>0. server \in Members!Server /\ flight \subseteq Members!Call /\ MembersPageOK(page) /\ c \in Members!Call /\ c.at \in Places
  BY MembersTypes DEF Members!Call
<1>1. UNCHANGED server /\ flight' \subseteq Members!Call
  BY <1>0 DEF Members!Return, Members!Previewed, Members!Granted, Members!GrantRevoked, Members!Removed,
     Members!Invited, Members!InvitationRevoked, Members!Failed, Members!Answered
<1>2. \A S \in SUBSET Members!ListNames : Room(page.lists, page.live) => MembersLists(Members!Loaded(c.at, page.at, S))
  BY <1>0, MembersLoaded
<1>3. MembersPageOK(Members!Closed)
  BY MembersClosed
<1>4. CASE Members!Previewed(c)
  <2>1. c.signature \in Members!GrantForms /\ c.asked \in Members!Grant
    BY <1>0, <1>4 DEF Members!Previewed, Members!Call
  <2>2. MembersPageOK([page EXCEPT !.signature = c.signature, !.previewed = c.asked])
    BY <1>0, <2>1, ZenonT(40) DEF MembersPageOK, Members!Page
  <2> QED BY <1>0, <1>1, <1>4, <2>2, MembersTypes DEF Members!Previewed, Members!TypeOK, MembersPageOK
<1>5. ASSUME NEW p, MembersPageOK(p), NEW S \in SUBSET Members!ListNames, Members!Room(page.lists, page.live),
             page' = [p EXCEPT !.lists = Members!Loaded(c.at, page.at, S)]
      PROVE  Members!TypeOK'
  <2>1. MembersPageOK(page')
    BY <1>2, <1>5, MembersSame, MembersListsSet
  <2> QED BY <1>1, <2>1, <1>0 DEF Members!TypeOK, MembersPageOK
<1>6. CASE Members!Granted(c)
  <2>1. {"grants", "orgGrants"} \in SUBSET Members!ListNames
    BY DEF Members!ListNames
  <2> QED BY <1>0, <1>3, <1>5, <1>6, <2>1 DEF Members!Granted, Members!Answered
<1>7. CASE Members!GrantRevoked(c)
  <2>1. {"grants", "orgGrants"} \in SUBSET Members!ListNames
    BY DEF Members!ListNames
  <2> QED BY <1>0, <1>3, <1>5, <1>7, <2>1 DEF Members!GrantRevoked, Members!Answered
<1>8. CASE Members!Removed(c)
  <2>1. {"members", "grants", "orgGrants"} \in SUBSET Members!ListNames
    BY DEF Members!ListNames
  <2> QED BY <1>0, <1>3, <1>5, <1>8, <2>1 DEF Members!Removed, Members!Answered
<1>9. CASE Members!Invited(c)
  <2>1. MembersPageOK([page EXCEPT !.createdInvite = TRUE])
    BY <1>0, ZenonT(40) DEF MembersPageOK, Members!Page
  <2>2. page' = [[page EXCEPT !.createdInvite = TRUE] EXCEPT !.lists = Members!Loaded(c.at, page.at, {"invitations"})]
    BY <1>9 DEF Members!Invited
  <2>3. {"invitations"} \in SUBSET Members!ListNames
    BY DEF Members!ListNames
  <2> QED BY <1>5, <1>9, <2>1, <2>2, <2>3 DEF Members!Invited, Members!Answered
<1>10. CASE Members!InvitationRevoked(c)
  <2>1. {"invitations"} \in SUBSET Members!ListNames
    BY DEF Members!ListNames
  <2> QED BY <1>0, <1>3, <1>5, <1>10, <2>1 DEF Members!InvitationRevoked, Members!Answered
<1>11. CASE Members!Failed(c)
  <2>1. MembersLists(ExcuseAll(page.lists, Members!ListNames))
    BY <1>0, MembersListsTyped, ExcuseAllTyped DEF MembersPageOK, MembersLists
  <2>2. MembersPageOK(page')
    BY <1>0, <1>11, <2>1, MembersListsSet, MembersSame DEF Members!Failed
  <2> QED BY <1>1, <2>2, <1>0 DEF Members!TypeOK, MembersPageOK
<1> QED BY <1>4, <1>6, <1>7, <1>8, <1>9, <1>10, <1>11 DEF Members!Return

(* A load is read, lands or fails.                                          *)
LEMMA MembersLoads ==
  ASSUME Members!TypeOK, NEW i \in DOMAIN Members!LoadsOf(page.lists, page.live),
         Members!ReadLoad(i) \/ Members!LandLoad(i) \/ Members!FailLoad(i)
  PROVE  Members!TypeOK'
<1> DEFINE live == page.live
           list == page.lists[live]
<1>0. server \in Members!Server /\ flight \subseteq Members!Call /\ MembersPageOK(page) /\ MembersLists(page.lists)
  BY MembersTypes, MembersListsTyped DEF MembersPageOK
<1>1. /\ live \in Members!ListNames /\ list \in ListOf(Places, MembersRows[live])
      /\ i \in DOMAIN list.loads /\ list.loads[i] \in Load(Places, MembersRows[live])
  BY <1>0, LiveLoads, MembersSame DEF MembersLists
<1>2. ASSUME NEW new \in ListOf(Places, MembersRows[live]), page' = [page EXCEPT !.lists = [page.lists EXCEPT ![live] = new]],
             UNCHANGED <<server, flight>>
      PROVE  Members!TypeOK'
  <2>1. MembersLists([page.lists EXCEPT ![live] = new])
    BY <1>0, <1>1, <1>2, OneListTyped DEF MembersLists
  <2>2. MembersPageOK(page')
    BY <1>0, <1>2, <2>1, MembersListsSet, Zenon
  <2> QED BY <1>0, <1>2, <2>2 DEF Members!TypeOK, MembersPageOK
<1> HIDE DEF live, list
<1>3. CASE Members!ReadLoad(i)
  <2>1. list.loads[i].of \in Places
    BY <1>1 DEF Load
  <2>2. Members!Stored(list.loads[i].of)[live] \in MembersRows[live]
    BY <1>0, <1>1, <2>1, MembersStored
  <2>3. Read(list, i, Members!Stored(list.loads[i].of)[live]) \in ListOf(Places, MembersRows[live])
    BY <1>1, <2>2, ReadTyped
  <2> QED BY <1>2, <1>3, <2>3, MembersSame DEF Members!ReadLoad, live, list
<1>4. CASE Members!LandLoad(i)
  <2>1. Land(list, i, page.at) \in ListOf(Places, MembersRows[live])
    BY <1>1, <1>4, LandTyped, MembersSame DEF Members!LandLoad, live, list
  <2> QED BY <1>2, <1>4, <2>1, MembersSame DEF Members!LandLoad, live, list
<1>5. CASE Members!FailLoad(i)
  <2>1. FailTo(list, i, Members!Cleared(live)) \in ListOf(Places, MembersRows[live])
    BY <1>1, FailTyped, MembersCleared
  <2> QED BY <1>2, <1>5, <2>1, MembersSame DEF Members!FailLoad, live, list
<1> QED BY <1>3, <1>4, <1>5

(* No step of the page breaks the types.                                    *)
LEMMA MembersTypeStep ==
  ASSUME Members!TypeOK, Members!Next \/ UNCHANGED vars
  PROVE  Members!TypeOK'
<1>1. ASSUME NEW at \in Places, Members!Select(at) PROVE Members!TypeOK'
  <2> DEFINE S == IF at.organization = page.at.organization /\ at # page.at THEN {"grants"} ELSE Members!ListNames
  <2>1. S \in SUBSET Members!ListNames
    BY DEF Members!ListNames
  <2>2. MembersPageOK([page EXCEPT !.at = at])
    BY MembersTypes DEF MembersPageOK, Members!Page
  <2>3. page' = [[page EXCEPT !.at = at] EXCEPT !.lists = Members!Loaded(at, at, S)] /\ UNCHANGED <<server, flight>>
    BY <1>1 DEF Members!Select
  <2>4. MembersLists(Members!Loaded(at, at, S))
    BY <1>1, <2>1, MembersLoaded, MembersSame DEF Members!Select
  <2> QED BY <2>2, <2>3, <2>4, MembersListsSet DEF Members!TypeOK, MembersPageOK
<1>2. CASE UNCHANGED vars
  BY <1>2 DEF vars, Members!TypeOK
<1> QED BY <1>1, <1>2, MembersGrantDialog, MembersOtherDialogs, MembersHandle, MembersReturn, MembersLoads
      DEF Members!Next

-----------------------------------------------------------------------------
(* Lists that show what is stored.  shows is what is stored, for each        *)
(* selection; at is the page's.  A list with nothing in flight shows it,     *)
(* unless it is excused; of the loads in flight it is the last that matters, *)
(* unless something overtook it: the server has yet to read for it, or has   *)
(* read what is stored.                                                      *)
Current(list, shows, at) ==
  LET last == list.loads[Len(list.loads)] IN
  IF list.loads = <<>> THEN list.excused \/ list.rows = shows[at]
  ELSE last.overtaken \/ last.rows \in {Unread, shows[last.of]}

(* A list that was overtaken has nothing in flight that matters.            *)
LEMMA OvertakenCurrent ==
  ASSUME NEW Of, NEW Rows, NEW list \in ListOf(Of, Rows), NEW new, NEW shows, NEW at,
         new.loads = Overtaken(list.loads), list.loads = <<>> => new.excused \/ new.rows = shows[at]
  PROVE  Current(new, shows, at)
<1>1. list.loads \in Seq(Load(Of, Rows))
  BY DEF ListOf
<1>2. /\ Overtaken(list.loads) \in Seq(Load(Of, Rows)) /\ Len(Overtaken(list.loads)) = Len(list.loads)
      /\ \A i \in 1..Len(list.loads) : Overtaken(list.loads)[i] = [list.loads[i] EXCEPT !.overtaken = TRUE]
  BY <1>1, OvertakenTyped
<1>3. CASE list.loads = <<>>
  BY <1>2, <1>3 DEF Current
<1>4. CASE list.loads # <<>>
  <2>1. Len(list.loads) \in 1..Len(list.loads)
    BY <1>1, <1>4
  <2>2. list.loads[Len(list.loads)] \in Load(Of, Rows)
    BY <1>1, <2>1
  <2>3. Overtaken(list.loads)[Len(list.loads)].overtaken
    BY <1>2, <2>1, <2>2 DEF Load
  <2> QED BY <1>2, <1>4, <2>1, <2>3 DEF Current
<1> QED BY <1>3, <1>4

(* An excused list is current whatever is stored.                           *)
LEMMA ExcuseCurrent ==
  ASSUME NEW Of, NEW Rows, NEW list \in ListOf(Of, Rows), NEW shows, NEW at
  PROVE  Current(Excuse(list), shows, at)
<1>1. Excuse(list).loads = Overtaken(list.loads) /\ Excuse(list).excused
  BY DEF Excuse, ListOf
<1> QED BY <1>1, OvertakenCurrent

(* So is one that shows what is stored.                                     *)
LEMMA ReplaceCurrent ==
  ASSUME NEW Of, NEW Rows, NEW list \in ListOf(Of, Rows), NEW rows, NEW excused, NEW shows, NEW at,
         excused \/ rows = shows[at]
  PROVE  Current(Replace(list, rows, excused), shows, at)
<1> DEFINE new == Replace(list, rows, excused)
<1>1. new.loads = Overtaken(list.loads) /\ new.excused = excused /\ new.rows = rows
  BY DEF Replace, ListOf
<1> HIDE DEF new
<1>2. Current(new, shows, at)
  BY <1>1, OvertakenCurrent
<1> QED BY <1>2 DEF new

(* So is one whose last load the server has yet to read for.                *)
LEMMA FetchCurrent ==
  ASSUME NEW Of, NEW Rows, NEW list \in ListOf(Of, Rows), NEW of, NEW shows, NEW at
  PROVE  Current(Fetch(list, of), shows, at)
<1> DEFINE load == [of |-> of, rows |-> Unread, overtaken |-> FALSE]
<1>1. Fetch(list, of).loads = Append(list.loads, load)
  BY DEF Fetch, ListOf
<1>2. list.loads \in Seq(Load(Of, Rows))
  BY DEF ListOf
<1> HIDE DEF load
<1>3. LET loads == Append(list.loads, load) IN loads # <<>> /\ loads[Len(loads)] = load
  BY <1>2
<1>4. load.rows = Unread
  BY DEF load
<1> QED BY <1>1, <1>3, <1>4 DEF Current

(* What the server reads is what is stored.                                 *)
LEMMA ReadCurrent ==
  ASSUME NEW Of, NEW Rows, NEW list \in ListOf(Of, Rows), NEW i \in DOMAIN list.loads, NEW shows, NEW at,
         Current(list, shows, at)
  PROVE  Current(Read(list, i, shows[list.loads[i].of]), shows, at)
<1> DEFINE load == [list.loads[i] EXCEPT !.rows = shows[list.loads[i].of]]
           new == Read(list, i, shows[list.loads[i].of])
<1>1. new.loads = [list.loads EXCEPT ![i] = load]
  BY DEF Read, ListOf
<1>2. list.loads \in Seq(Load(Of, Rows)) /\ i \in 1..Len(list.loads)
  BY DEF ListOf
<1>3. list.loads[i] \in Load(Of, Rows)
  BY <1>2
<1>4. load.rows = shows[load.of]
  BY <1>3 DEF Load
<1> HIDE DEF load, new
<1>5. new.loads # <<>> /\ Len(new.loads) = Len(list.loads) /\ list.loads # <<>>
  BY <1>1, <1>2
<1>6. CASE i = Len(list.loads)
  <2>1. new.loads[Len(new.loads)] = load
    BY <1>1, <1>2, <1>5, <1>6
  <2>2. Current(new, shows, at)
    BY <1>4, <1>5, <2>1 DEF Current
  <2> QED BY <2>2 DEF new
<1>7. CASE i # Len(list.loads)
  <2>1. new.loads[Len(new.loads)] = list.loads[Len(list.loads)]
    BY <1>1, <1>2, <1>5, <1>7
  <2>2. Current(new, shows, at)
    BY <1>5, <2>1 DEF Current
  <2> QED BY <2>2 DEF new
<1> QED BY <1>6, <1>7

(* The loads after the one that ended.                                      *)
LEMMA AfterLoad ==
  ASSUME NEW S, NEW s \in Seq(S), NEW i \in 1..Len(s)
  PROVE  /\ SubSeq(s, i + 1, Len(s)) \in Seq(S) /\ Len(SubSeq(s, i + 1, Len(s))) = Len(s) - i
         /\ i < Len(s) => SubSeq(s, i + 1, Len(s))[Len(s) - i] = s[Len(s)]
<1>1. Len(s) \in Nat /\ i \in Nat /\ i >= 1 /\ i <= Len(s)
  OBVIOUS
<1>2. SubSeq(s, i + 1, Len(s)) \in Seq(S) /\ Len(SubSeq(s, i + 1, Len(s))) = Len(s) - i
  BY <1>1
<1>3. ASSUME i < Len(s) PROVE SubSeq(s, i + 1, Len(s))[Len(s) - i] = s[Len(s)]
  <2>1. Len(s) - i \in 1..(Len(s) - (i + 1) + 1) /\ (i + 1) + (Len(s) - i) - 1 = Len(s)
    BY <1>1, <1>3
  <2> QED BY <1>1, <1>3, <2>1
<1> QED BY <1>2, <1>3

(* The last of two sequences is the last of the second, if it has one.      *)
LEMMA LastLoad ==
  ASSUME NEW S, NEW s \in Seq(S), NEW t \in Seq(S)
  PROVE  /\ Len(s \o t) = Len(s) + Len(t) /\ Len(s) \in Nat /\ Len(t) \in Nat
         /\ Len(t) > 0 => (s \o t)[Len(s \o t)] = t[Len(t)]
         /\ Len(t) = 0 /\ Len(s) > 0 => (s \o t)[Len(s \o t)] = s[Len(s)]
         /\ Len(s \o t) > 0 => s \o t # <<>>
         /\ Len(s \o t) = 0 => s \o t = <<>>
<1>1. Len(s \o t) = Len(s) + Len(t) /\ Len(s) \in Nat /\ Len(t) \in Nat /\ s \o t \in Seq(S)
  OBVIOUS
<1>2. Len(t) > 0 => (s \o t)[Len(s) + Len(t)] = t[Len(t)]
  OBVIOUS
<1>3. Len(t) = 0 /\ Len(s) > 0 => (s \o t)[Len(s)] = s[Len(s)]
  OBVIOUS
<1> QED BY <1>1, <1>2, <1>3

(* Of the loads that are left the last is the one it was, or was overtaken. *)
LEMMA SettleCurrent ==
  ASSUME NEW Of, NEW Rows, NEW list \in ListOf(Of, Rows), NEW i \in DOMAIN list.loads, NEW shows, NEW at,
         NEW rows, NEW excused,
         Current(list, shows, at), Len(list.loads) = 1 => excused \/ rows = shows[at]
  PROVE  Current(Settle(list, i, rows, excused), shows, at)
<1> DEFINE before == SubSeq(list.loads, 1, i - 1)
           after == SubSeq(list.loads, i + 1, Len(list.loads))
           loads == Overtaken(before) \o after
           new == Settle(list, i, rows, excused)
<1>1. list.loads \in Seq(Load(Of, Rows)) /\ i \in 1..Len(list.loads) /\ Len(list.loads) \in Nat
  BY DEF ListOf
<1>2. before \in Seq(Load(Of, Rows)) /\ Len(before) = i - 1
  BY <1>1
<1>3. /\ after \in Seq(Load(Of, Rows)) /\ Len(after) = Len(list.loads) - i
      /\ i < Len(list.loads) => after[Len(list.loads) - i] = list.loads[Len(list.loads)]
  BY <1>1, AfterLoad
<1>4. /\ Overtaken(before) \in Seq(Load(Of, Rows)) /\ Len(Overtaken(before)) = i - 1
      /\ i > 1 => Overtaken(before)[i - 1] = [before[i - 1] EXCEPT !.overtaken = TRUE]
  <2>1. i \in Nat /\ (i > 1 => i - 1 \in 1..Len(before))
    BY <1>1, <1>2
  <2> HIDE DEF before
  <2>2. /\ Overtaken(before) \in Seq(Load(Of, Rows)) /\ Len(Overtaken(before)) = Len(before)
        /\ \A j \in 1..Len(before) : Overtaken(before)[j] = [before[j] EXCEPT !.overtaken = TRUE]
    BY <1>2, OvertakenTyped
  <2> QED BY <1>2, <2>1, <2>2
<1>5. new.loads = loads /\ new.excused = excused /\ new.rows = rows
  BY DEF Settle
<1>6. /\ Len(list.loads) \in Nat /\ i \in Nat /\ i >= 1 /\ i <= Len(list.loads)
      /\ list.loads # <<>>
  BY <1>1
<1> SUFFICES Current(new, shows, at)
  OBVIOUS
<1> HIDE DEF before, after, new
<1>7. /\ Len(loads) = Len(list.loads) - 1
      /\ Len(after) > 0 => loads[Len(loads)] = after[Len(after)]
      /\ Len(after) = 0 /\ i - 1 > 0 => loads[Len(loads)] = Overtaken(before)[i - 1]
      /\ Len(loads) > 0 => loads # <<>>
      /\ Len(loads) = 0 => loads = <<>>
  <2>1. /\ Len(loads) = Len(Overtaken(before)) + Len(after) /\ Len(after) \in Nat
        /\ Len(after) > 0 => loads[Len(loads)] = after[Len(after)]
        /\ Len(after) = 0 /\ Len(Overtaken(before)) > 0 => loads[Len(loads)] = Overtaken(before)[Len(Overtaken(before))]
        /\ Len(loads) > 0 => loads # <<>>
        /\ Len(loads) = 0 => loads = <<>>
    <3> DEFINE first == Overtaken(before)
    <3>1. first \in Seq(Load(Of, Rows)) /\ after \in Seq(Load(Of, Rows))
      BY <1>3, <1>4
    <3> HIDE DEF first
    <3>2. /\ Len(first \o after) = Len(first) + Len(after) /\ Len(after) \in Nat
          /\ Len(after) > 0 => (first \o after)[Len(first \o after)] = after[Len(after)]
          /\ Len(after) = 0 /\ Len(first) > 0 => (first \o after)[Len(first \o after)] = first[Len(first)]
          /\ Len(first \o after) > 0 => first \o after # <<>>
          /\ Len(first \o after) = 0 => first \o after = <<>>
      BY <3>1, LastLoad
    <3> QED BY <3>2 DEF first
  <2> HIDE DEF loads
  <2> QED BY <1>3, <1>4, <1>6, <2>1
<1> HIDE DEF loads
<1>8. CASE Len(list.loads) = 1
  BY <1>5, <1>6, <1>7, <1>8 DEF Current
<1>9. CASE i < Len(list.loads)
  <2>1. loads # <<>> /\ loads[Len(loads)] = list.loads[Len(list.loads)]
    BY <1>3, <1>6, <1>7, <1>9
  <2> QED BY <1>5, <1>6, <2>1 DEF Current
<1>10. CASE i = Len(list.loads) /\ i > 1
  <2>1. loads # <<>> /\ loads[Len(loads)] = Overtaken(before)[i - 1]
    BY <1>3, <1>6, <1>7, <1>10
  <2>2. i - 1 \in 1..Len(before)
    BY <1>2, <1>6, <1>10
  <2>3. before[i - 1] \in Load(Of, Rows)
    BY <1>2, <2>2
  <2>4. Overtaken(before)[i - 1].overtaken
    BY <1>4, <1>10, <2>3 DEF Load
  <2> QED BY <1>5, <2>1, <2>4 DEF Current
<1>11. Len(list.loads) = 1 \/ i < Len(list.loads) \/ (i = Len(list.loads) /\ i > 1)
  <2>1. \A n, k \in Nat : k >= 1 /\ k <= n => n = 1 \/ k < n \/ (k = n /\ k > 1)
    OBVIOUS
  <2> QED BY <1>6, <2>1, Zenon
<1> QED BY <1>8, <1>9, <1>10, <1>11

(* What lands was asked for what the page shows, or is excused.             *)
LEMMA LandCurrent ==
  ASSUME NEW Of, NEW Rows, NEW list \in ListOf(Of, Rows), NEW i \in DOMAIN list.loads, NEW shows, NEW at, NEW asked,
         Current(list, shows, at), ~Unanswered(list, i), list.loads[i].of = asked => shows[asked] = shows[at]
  PROVE  Current(Land(list, i, asked), shows, at)
<1>1. Len(list.loads) = 1 => \/ list.loads[i].overtaken \/ list.loads[i].of # asked
                             \/ list.loads[i].rows = shows[at]
  <2> SUFFICES ASSUME Len(list.loads) = 1, ~list.loads[i].overtaken, list.loads[i].of = asked PROVE list.loads[i].rows = shows[at]
    OBVIOUS
  <2>1. list.loads \in Seq(Load(Of, Rows))
    BY DEF ListOf
  <2>2. i = 1 /\ list.loads # <<>>
    BY <2>1
  <2> QED BY <2>2 DEF Current, Unanswered
<1> QED BY <1>1, SettleCurrent DEF Land

(* A load that failed excuses the list, or another is still to come.        *)
LEMMA FailCurrent ==
  ASSUME NEW Of, NEW Rows, NEW list \in ListOf(Of, Rows), NEW i \in DOMAIN list.loads, NEW shows, NEW at, NEW rows,
         Current(list, shows, at)
  PROVE  Current(FailTo(list, i, rows), shows, at)
  BY SettleCurrent DEF FailTo

(* What is loaded again is current, whatever it was before.                 *)
LEMMA RefetchCurrent ==
  ASSUME NEW names, NEW Of, NEW rows, NEW lists, ListsIn(lists, names, Of, rows),
         NEW live, NEW of, NEW at, NEW stored, NEW S, NEW n \in names \cap S, NEW shows,
         of = at => stored[n] = shows[at]
  PROVE  Current(Refetch(lists, live, of, at, stored, S)[n], shows, at)
<1>1. DOMAIN lists = names /\ lists[n] \in ListOf(Of, rows[n])
  BY DEF ListsIn
<1>2. CASE n = live
  <2>1. Refetch(lists, live, of, at, stored, S)[n] = Fetch(lists[n], of)
    BY <1>1, <1>2 DEF Refetch
  <2> QED BY <1>1, <2>1, FetchCurrent
<1>3. CASE n # live
  <2>1. Refetch(lists, live, of, at, stored, S)[n] = Replace(lists[n], stored[n], of # at)
    BY <1>1, <1>3 DEF Refetch
  <2>2. of # at \/ stored[n] = shows[at]
    OBVIOUS
  <2> QED BY <1>1, <2>1, <2>2, ReplaceCurrent
<1> QED BY <1>2, <1>3

(* Each list that is excused is current.                                    *)
LEMMA ExcuseAllCurrent ==
  ASSUME NEW names, NEW Of, NEW rows, NEW lists, ListsIn(lists, names, Of, rows), NEW S, NEW n \in names \cap S,
         NEW shows, NEW at
  PROVE  Current(ExcuseAll(lists, S)[n], shows, at)
<1>1. DOMAIN lists = names /\ lists[n] \in ListOf(Of, rows[n])
  BY DEF ListsIn
<1>2. ExcuseAll(lists, S)[n] = Excuse(lists[n])
  BY <1>1 DEF ExcuseAll
<1> QED BY <1>1, <1>2, ExcuseCurrent

(* What is not loaded again, or excused, is as it was.                      *)
LEMMA OtherLists ==
  ASSUME NEW names, NEW Of, NEW rows, NEW lists, ListsIn(lists, names, Of, rows), NEW S, NEW n \in names \ S
  PROVE  /\ \A live, of, at, stored : Refetch(lists, live, of, at, stored, S)[n] = lists[n]
         /\ ExcuseAll(lists, S)[n] = lists[n]
<1>1. DOMAIN lists = names
  BY DEF ListsIn
<1> QED BY <1>1 DEF Refetch, ExcuseAll

(* With nothing in flight, current is settled.                              *)
LEMMA CurrentSettled ==
  ASSUME NEW list, NEW shows, NEW at, Current(list, shows, at)
  PROVE  Settled(list, shows[at])
  BY DEF Current, Settled

(* A list that was just loaded is current.                                  *)
LEMMA FirstCurrent == ASSUME NEW rows, NEW shows, NEW at, rows = shows[at] PROVE Current(List(rows), shows, at)
  BY DEF Current, List

-----------------------------------------------------------------------------
(* The members page: what is on the screen at rest                          *)

(* What is stored, for each place, and which lists a call loads again.      *)
MembersShows(name) == [at \in Places |-> Members!Stored(at)[name]]

MembersReloads(op) ==
  CASE op \in {"grant", "revokeGrant"} -> {"grants", "orgGrants"}
    [] op = "removeMember" -> {"members", "grants", "orgGrants"}
    [] op \in {"invite", "revokeInvitation"} -> {"invitations"}
    [] op = "preview" -> {}

(* A list shows what is stored, or a call that was carried out is about to  *)
(* load it again.                                                           *)
MembersHeld(name) ==
  \/ Current(page.lists[name], MembersShows(name), page.at)
  \/ \E c \in flight : c.state = "done" /\ name \in MembersReloads(c.op)

MembersInv == Members!TypeOK /\ \A name \in Members!ListNames : MembersHeld(name)

(* What a call is, sent and answered.                                       *)
LEMMA MembersOps ==
  ASSUME NEW c \in Members!Call
  PROVE  /\ c.at \in Places /\ c.state \in {"sent", "done", "refused"}
         /\ c.op \in {"preview", "grant", "revokeGrant", "removeMember", "invite", "revokeInvitation"}
         /\ \A state \in {"done", "refused"} : [c EXCEPT !.state = state].op = c.op /\ [c EXCEPT !.state = state].state = state
  BY DEF Members!Call, Members!CallStates

(* What the page shows is loaded for a place, and the lists it starts to    *)
(* load for one are current there.                                          *)
LEMMA MembersLoadedCurrent ==
  ASSUME Members!TypeOK, NEW of \in Places, NEW at \in Places, NEW S \in SUBSET Members!ListNames,
         Room(page.lists, page.live), NEW name \in S
  PROVE  Current(Members!Loaded(of, at, S)[name], MembersShows(name), at)
<1> DEFINE empty == (IF of.project = None THEN {"grants"} ELSE {})
                    \cup (IF Members!ProjectsOf(of.organization) = {} THEN {"orgGrants"} ELSE {})
           lists == Refetch(page.lists, page.live, of, at, Members!Stored(of), S \ empty)
<1>1. MembersLists(page.lists) /\ server \in Members!Server
  BY MembersListsTyped DEF Members!TypeOK
<1>2. ListsIn(lists, Members!ListNames, Places, MembersRows)
  BY <1>1, MembersStored, RefetchTyped DEF MembersLists
<1>3. Members!Loaded(of, at, S) =
        [n \in Members!ListNames |-> IF n \in S \cap empty THEN Replace(lists[n], Members!Cleared(n), of # at) ELSE lists[n]]
  BY MembersSame DEF Members!Loaded
<1>4. name \in Members!ListNames
  OBVIOUS
<1>5. CASE name \in empty
  <2>1. Members!Loaded(of, at, S)[name] = Replace(lists[name], Members!Cleared(name), of # at)
    BY <1>3, <1>4, <1>5
  <2>2. lists[name] \in ListOf(Places, MembersRows[name])
    BY <1>2, <1>4 DEF ListsIn
  <2>3. Members!Cleared(name) = Members!Stored(of)[name]
    <3>1. CASE name = "grants"
      BY <1>5, <3>1 DEF Members!Cleared, Members!Stored, Members!ProjectGrants
    <3>2. CASE name # "grants"
      <4>1. name = "orgGrants" /\ Members!ProjectsOf(of.organization) = {}
        BY <1>5, <3>2
      <4>2. Members!TargetsOf({}) = {}
        BY DEF Members!TargetsOf, Members!Environments
      <4> QED BY <4>1, <4>2 DEF Members!Cleared, Members!Stored, Members!OrgWideGrants
    <3> QED BY <3>1, <3>2
  <2>4. MembersShows(name)[of] = Members!Stored(of)[name]
    BY DEF MembersShows
  <2>5. of # at \/ Members!Cleared(name) = MembersShows(name)[at]
    BY <2>3, <2>4
  <2> HIDE DEF lists, empty
  <2> QED BY <2>1, <2>2, <2>5, ReplaceCurrent
<1>6. CASE name \notin empty
  <2>1. Members!Loaded(of, at, S)[name] = lists[name]
    BY <1>3, <1>4, <1>6
  <2>2. of = at => Members!Stored(of)[name] = MembersShows(name)[at]
    BY DEF MembersShows
  <2>3. Current(lists[name], MembersShows(name), at)
    <3> HIDE DEF empty
    <3>1. name \in Members!ListNames \cap (S \ empty)
      BY <1>4, <1>6
    <3> QED BY <1>1, <2>2, <3>1, RefetchCurrent DEF MembersLists
  <2> QED BY <2>1, <2>3
<1> QED BY <1>5, <1>6

(* The lists that are not loaded again stay.                                *)
LEMMA MembersLoadedElse ==
  ASSUME Members!TypeOK, NEW of, NEW at, NEW S, NEW name \in Members!ListNames \ S
  PROVE  Members!Loaded(of, at, S)[name] = page.lists[name]
<1>1. MembersLists(page.lists)
  BY MembersListsTyped DEF Members!TypeOK
<1>2. \A T : name \notin T =>
         Refetch(page.lists, page.live, of, at, Members!Stored(of), T)[name] = page.lists[name]
  BY <1>1, OtherLists DEF MembersLists
<1> QED BY <1>2, MembersSame DEF Members!Loaded

-----------------------------------------------------------------------------
(* The lists, the place and what is stored stay, and no call goes that was  *)
(* carried out.                                                             *)
LEMMA MembersStay ==
  ASSUME Members!TypeOK, NEW name \in Members!ListNames, MembersHeld(name),
         page'.lists = page.lists, page'.at = page.at, server' = server,
         \A c \in flight : c.state = "done" => c \in flight'
  PROVE  MembersHeld(name)'
<1>1. MembersShows(name)' = MembersShows(name)
  BY DEF MembersShows, Members!Stored, Members!OrgMembers, Members!OrgInvitations, Members!ProjectGrants,
     Members!OrgWideGrants
<1> QED BY <1>1 DEF MembersHeld

(* The dialogs change no list and nothing stored, and withdraw no call.     *)
LEMMA MembersDialogsKeep ==
  ASSUME Members!TypeOK,
         Members!GrantDialog \/ Members!RemoveDialog \/ Members!InvitationDialogs \/ \E g \in Members!grantRows : Members!handleRevoke(g)
  PROVE  /\ page'.lists = page.lists /\ page'.at = page.at /\ server' = server
         /\ flight \subseteq flight'
<1> USE DEF Members!GrantDialog, Members!RemoveDialog, Members!InvitationDialogs
<1>1. page'.lists = page.lists /\ page'.at = page.at
  BY ZenonT(40) DEF Members!TypeOK, Members!Page, Members!Opened, Members!Closed, Members!OpenGrant,
     Members!OpenChange, Members!ChangeForm, Members!SetLevel, Members!SetTarget, Members!SetRole,
     Members!CloseGrant, Members!handlePreview, Members!handleConfirmGrant, Members!handleRevoke,
     Members!SetMemberToRemove, Members!handleRemoveMember, Members!CancelDialogs,
     Members!SetInvitationToRevoke, Members!handleRevokeInvitation, Members!OpenInvite,
     Members!closeInviteDialog, Members!handleCreateInvite
<1>2. server' = server /\ flight \subseteq flight'
  BY Zenon DEF Members!Send, Members!OpenGrant, Members!OpenChange, Members!ChangeForm, Members!SetLevel,
     Members!SetTarget, Members!SetRole, Members!CloseGrant, Members!handlePreview,
     Members!handleConfirmGrant, Members!handleRevoke, Members!SetMemberToRemove,
     Members!handleRemoveMember, Members!CancelDialogs, Members!SetInvitationToRevoke,
     Members!handleRevokeInvitation, Members!OpenInvite, Members!closeInviteDialog,
     Members!handleCreateInvite
<1> QED BY <1>1, <1>2

(* What a call changes is what the page loads again when it is answered.    *)
LEMMA MembersHandled ==
  ASSUME Members!TypeOK, NEW c \in flight, Members!Handle(c), NEW name \in Members!ListNames, MembersHeld(name)
  PROVE  MembersHeld(name)'
<1>0. server \in Members!Server /\ c \in Members!Call /\ page' = page /\ c.state = "sent"
  BY DEF Members!TypeOK, Members!Handle, Members!HandleGrant, Members!HandleRevoke, Members!HandleRemove,
         Members!HandleInvite, Members!HandleRevokeInvitation
<1>1. ASSUME Members!Refused(c) PROVE MembersHeld(name)'
  BY <1>0, <1>1, MembersStay DEF Members!Refused, Members!Become
<1>2. ASSUME NEW stored, Members!Done(c, stored) PROVE flight' = (flight \ {c}) \cup {[c EXCEPT !.state = "done"]}
  BY <1>2 DEF Members!Done, Members!Become
<1>3. ASSUME NEW stored, Members!Done(c, stored), name \in MembersReloads(c.op) PROVE MembersHeld(name)'
  <2>1. [c EXCEPT !.state = "done"] \in flight'
    BY <1>2, <1>3
  <2>2. [c EXCEPT !.state = "done"].state = "done" /\ name \in MembersReloads([c EXCEPT !.state = "done"].op)
    BY <1>0, <1>3, MembersOps
  <2> QED BY <2>1, <2>2 DEF MembersHeld
<1>4. ASSUME NEW stored, Members!Done(c, stored), MembersShows(name)' = MembersShows(name) PROVE MembersHeld(name)'
  <2>1. \A d \in flight : d.state = "done" => d \in flight'
    BY <1>0, <1>2, <1>4
  <2> QED BY <1>0, <1>4, <2>1 DEF MembersHeld
<1>5. ASSUME NEW stored, Members!Done(c, stored), name \notin MembersReloads(c.op),
             stored.members = server.members \/ c.op = "removeMember",
             stored.invitations = server.invitations \/ c.op \in {"invite", "revokeInvitation"},
             stored.grants = server.grants \/ c.op \in {"grant", "revokeGrant", "removeMember"},
             stored \in Members!Server
      PROVE  MembersShows(name)' = MembersShows(name)
  <2>1. server'.members = stored.members /\ server'.invitations = stored.invitations /\ server'.grants = stored.grants
    BY <1>5 DEF Members!Done, Members!Server
  <2>2. CASE name = "members"
    <3>1. server'.members = server.members
      BY <1>5, <2>1, <2>2 DEF MembersReloads
    <3>2. \A at \in Places : Members!OrgMembers(at)' = Members!OrgMembers(at)
      BY <3>1 DEF Members!OrgMembers
    <3> QED BY <2>2, <3>2 DEF MembersShows, Members!Stored
  <2>3. CASE name = "invitations"
    <3>1. server'.invitations = server.invitations
      BY <1>5, <2>1, <2>3 DEF MembersReloads
    <3>2. \A at \in Places : Members!OrgInvitations(at)' = Members!OrgInvitations(at)
      BY <3>1 DEF Members!OrgInvitations
    <3> QED BY <2>3, <3>2 DEF MembersShows, Members!Stored
  <2>4. CASE name \in {"grants", "orgGrants"}
    <3>1. server'.grants = server.grants
      BY <1>5, <2>1, <2>4 DEF MembersReloads
    <3>2. \A at \in Places : /\ Members!ProjectGrants(at)' = Members!ProjectGrants(at)
                             /\ Members!OrgWideGrants(at)' = Members!OrgWideGrants(at)
      BY <3>1 DEF Members!ProjectGrants, Members!OrgWideGrants
    <3> QED BY <2>4, <3>2 DEF MembersShows, Members!Stored
  <2> QED BY <2>2, <2>3, <2>4 DEF Members!ListNames
<1>6. \/ Members!Refused(c)
      \/ \E stored \in Members!Server :
           /\ Members!Done(c, stored)
           /\ stored.members = server.members \/ c.op = "removeMember"
           /\ stored.invitations = server.invitations \/ c.op \in {"invite", "revokeInvitation"}
           /\ stored.grants = server.grants \/ c.op \in {"grant", "revokeGrant", "removeMember"}
  <2>0. server' \in Members!Server
    BY MembersHandle DEF Members!TypeOK
  <2> SUFFICES ASSUME NEW stored, Members!Done(c, stored),
                      \/ \E grants : stored = [server EXCEPT !.grants = grants] /\ c.op \in {"grant", "revokeGrant"}
                      \/ \E members, grants :
                           stored = [server EXCEPT !.members = members, !.grants = grants] /\ c.op = "removeMember"
                      \/ \E invitations :
                           stored = [server EXCEPT !.invitations = invitations] /\ c.op \in {"invite", "revokeInvitation"}
               PROVE  /\ stored \in Members!Server
                      /\ stored.members = server.members \/ c.op = "removeMember"
                      /\ stored.invitations = server.invitations \/ c.op \in {"invite", "revokeInvitation"}
                      /\ stored.grants = server.grants \/ c.op \in {"grant", "revokeGrant", "removeMember"}
    BY Zenon DEF Members!Handle, Members!HandleGrant, Members!HandleRevoke, Members!HandleRemove,
         Members!HandleInvite, Members!HandleRevokeInvitation
  <2>1. server' = [stored EXCEPT !.writes = stored.writes + 1]
    BY Zenon DEF Members!Done
  <2> QED BY <1>0, <2>0, <2>1, Zenon DEF Members!Server
<1> QED BY <1>1, <1>3, <1>4, <1>5, <1>6

(* An answer to a change loads what the change was about.                   *)
LEMMA MembersReturned ==
  ASSUME Members!TypeOK, NEW c \in flight, Members!Return(c), NEW name \in Members!ListNames, MembersHeld(name)
  PROVE  MembersHeld(name)'
<1>0. /\ server' = server /\ flight' = flight \ {c} /\ page \in Members!Page /\ page.at \in Places
      /\ c \in Members!Call /\ c.at \in Places
  BY MembersOps DEF Members!TypeOK, Members!Page, Members!Return, Members!Previewed, Members!Granted,
     Members!GrantRevoked, Members!Removed, Members!Invited, Members!InvitationRevoked, Members!Failed,
     Members!Answered
<1>1. MembersShows(name)' = MembersShows(name)
  BY <1>0 DEF MembersShows, Members!Stored, Members!OrgMembers, Members!OrgInvitations,
     Members!ProjectGrants, Members!OrgWideGrants
(* A call that is answered loads what it changed.                           *)
<1>2. ASSUME NEW S \in SUBSET Members!ListNames, Room(page.lists, page.live), page'.at = page.at,
             page'.lists = Members!Loaded(c.at, page.at, S), c.state = "done" => MembersReloads(c.op) \subseteq S
      PROVE  MembersHeld(name)'
  <2>1. CASE name \in S
    <3>1. Current(page'.lists[name], MembersShows(name), page'.at)
      BY <1>0, <1>2, <2>1, MembersLoadedCurrent
    <3> QED BY <1>1, <3>1 DEF MembersHeld
  <2>2. CASE name \notin S
    <3>1. page'.lists[name] = page.lists[name]
      BY <1>2, <2>2, MembersLoadedElse
    <3> QED BY <1>0, <1>1, <1>2, <2>2, <3>1 DEF MembersHeld
  <2> QED BY <2>1, <2>2
<1>3. CASE Members!Previewed(c)
  <2>1. page'.lists = page.lists /\ page'.at = page.at
    BY <1>0, <1>3 DEF Members!Previewed, Members!Page
  <2>2. c.op = "preview" /\ MembersReloads("preview") = {}
    BY <1>3 DEF Members!Previewed, MembersReloads
  <2> QED BY <1>0, <1>1, <2>1, <2>2 DEF MembersHeld
<1>4. Members!Closed.at = page.at /\ \A lists : [Members!Closed EXCEPT !.lists = lists].lists = lists
  BY <1>0 DEF Members!Closed, Members!Page
<1>5. /\ {"grants", "orgGrants"} \in SUBSET Members!ListNames /\ {"members", "grants", "orgGrants"} \in SUBSET Members!ListNames
      /\ {"invitations"} \in SUBSET Members!ListNames
  BY DEF Members!ListNames
<1>6. ASSUME NEW S, \/ page' = [page EXCEPT !.lists = Members!Loaded(c.at, page.at, S)]
                    \/ page' = [Members!Closed EXCEPT !.lists = Members!Loaded(c.at, page.at, S)]
                    \/ page' = [page EXCEPT !.createdInvite = TRUE, !.lists = Members!Loaded(c.at, page.at, S)]
      PROVE  page'.lists = Members!Loaded(c.at, page.at, S) /\ page'.at = page.at
  BY <1>0, <1>4, <1>6, Zenon DEF Members!Page, Members!Closed
<1>7. CASE Members!Granted(c)
  <2>1. page'.lists = Members!Loaded(c.at, page.at, {"grants", "orgGrants"}) /\ page'.at = page.at
    BY <1>6, <1>7, Zenon DEF Members!Granted
  <2>2. MembersReloads(c.op) = {"grants", "orgGrants"}
    BY <1>7 DEF Members!Granted, Members!Answered, MembersReloads
  <2> QED BY <1>2, <1>5, <1>7, <2>1, <2>2, MembersSame DEF Members!Granted, Members!Answered
<1>8. CASE Members!GrantRevoked(c)
  <2>1. page'.lists = Members!Loaded(c.at, page.at, {"grants", "orgGrants"}) /\ page'.at = page.at
    BY <1>6, <1>8, Zenon DEF Members!GrantRevoked
  <2>2. MembersReloads(c.op) = {"grants", "orgGrants"}
    BY <1>8 DEF Members!GrantRevoked, Members!Answered, MembersReloads
  <2> QED BY <1>2, <1>5, <1>8, <2>1, <2>2, MembersSame DEF Members!GrantRevoked, Members!Answered
<1>9. CASE Members!Removed(c)
  <2>1. page'.lists = Members!Loaded(c.at, page.at, {"members", "grants", "orgGrants"}) /\ page'.at = page.at
    BY <1>6, <1>9, Zenon DEF Members!Removed
  <2>2. MembersReloads(c.op) = {"members", "grants", "orgGrants"}
    BY <1>9 DEF Members!Removed, Members!Answered, MembersReloads
  <2> QED BY <1>2, <1>5, <1>9, <2>1, <2>2, MembersSame DEF Members!Removed, Members!Answered
<1>10. CASE Members!Invited(c) \/ Members!InvitationRevoked(c)
  <2>1. page'.lists = Members!Loaded(c.at, page.at, {"invitations"}) /\ page'.at = page.at
    BY <1>6, <1>10, Zenon DEF Members!Invited, Members!InvitationRevoked
  <2>2. MembersReloads(c.op) = {"invitations"}
    BY <1>10 DEF Members!Invited, Members!InvitationRevoked, Members!Answered, MembersReloads
  <2> QED BY <1>2, <1>5, <1>10, <2>1, <2>2, MembersSame DEF Members!Invited, Members!InvitationRevoked,
        Members!Answered
<1>11. CASE Members!Failed(c)
  <2>1. CASE c.state = "done"
    <3>1. page'.lists = ExcuseAll(page.lists, Members!ListNames) /\ page'.at = page.at
      BY <1>0, <1>11, <2>1, MembersSame DEF Members!Failed, Members!Page
    <3>2. MembersLists(page.lists)
      BY <1>0, MembersListsTyped
    <3>3. Current(page'.lists[name], MembersShows(name), page'.at)
      BY <3>1, <3>2, ExcuseAllCurrent DEF MembersLists
    <3> QED BY <1>1, <3>3 DEF MembersHeld
  <2>2. CASE c.state # "done"
    <3>1. page' = page
      BY <1>11, <2>2 DEF Members!Failed
    <3> QED BY <1>0, <1>1, <2>2, <3>1 DEF MembersHeld
  <2> QED BY <2>1, <2>2
<1> QED BY <1>3, <1>7, <1>8, <1>9, <1>10, <1>11 DEF Members!Return

(* A load that is read, lands or fails leaves the list current.             *)
LEMMA MembersLoadsShown ==
  ASSUME Members!TypeOK, NEW i \in DOMAIN Members!LoadsOf(page.lists, page.live),
         Members!ReadLoad(i) \/ Members!LandLoad(i) \/ Members!FailLoad(i),
         NEW name \in Members!ListNames, MembersHeld(name)
  PROVE  MembersHeld(name)'
<1> DEFINE live == page.live
           list == page.lists[live]
<1>0. /\ MembersLists(page.lists) /\ page \in Members!Page /\ page.at \in Places
      /\ server' = server /\ flight' = flight
  BY MembersListsTyped DEF Members!TypeOK, Members!Page, Members!ReadLoad, Members!LandLoad,
     Members!FailLoad
<1>1. /\ live \in Members!ListNames /\ list \in ListOf(Places, MembersRows[live])
      /\ i \in DOMAIN list.loads /\ list.loads[i] \in Load(Places, MembersRows[live])
  BY <1>0, LiveLoads, MembersSame DEF MembersLists
<1>2. \A n : MembersShows(n)' = MembersShows(n)
  BY <1>0 DEF MembersShows, Members!Stored, Members!OrgMembers, Members!OrgInvitations,
     Members!ProjectGrants, Members!OrgWideGrants
<1> HIDE DEF live, list
<1>3. ASSUME NEW new, page' = [page EXCEPT !.lists = [page.lists EXCEPT ![live] = new]],
             Current(list, MembersShows(live), page.at) => Current(new, MembersShows(live), page.at)
      PROVE  MembersHeld(name)'
  <2>1. page'.at = page.at /\ page'.lists = [page.lists EXCEPT ![live] = new]
    BY <1>0, <1>3 DEF Members!Page
  <2>2. page'.lists[live] = new /\ (name # live => page'.lists[name] = page.lists[name])
    BY <1>0, <1>1, <2>1 DEF MembersLists, ListsIn
  <2>3. CASE name = live
    BY <1>0, <1>2, <1>3, <2>1, <2>2, <2>3 DEF MembersHeld, list
  <2>4. CASE name # live
    BY <1>0, <1>2, <2>1, <2>2, <2>4 DEF MembersHeld
  <2> QED BY <2>3, <2>4
<1>4. CASE Members!ReadLoad(i)
  <2>1. list.loads[i].of \in Places
    BY <1>1 DEF Load
  <2>2. Members!Stored(list.loads[i].of)[live] = MembersShows(live)[list.loads[i].of]
    BY <2>1, Zenon DEF MembersShows
  <2>3. page' = [page EXCEPT !.lists = [page.lists EXCEPT ![live] = Read(list, i, MembersShows(live)[list.loads[i].of])]]
    BY <1>4, <2>2, MembersSame DEF Members!ReadLoad, live, list
  <2> QED BY <1>1, <1>3, <2>3, ReadCurrent
<1>5. CASE Members!LandLoad(i)
  <2>1. /\ page' = [page EXCEPT !.lists = [page.lists EXCEPT ![live] = Land(list, i, page.at)]]
        /\ ~Unanswered(list, i)
    BY <1>5, MembersSame DEF Members!LandLoad, live, list
  <2> QED BY <1>1, <1>3, <2>1, LandCurrent
<1>6. CASE Members!FailLoad(i)
  <2>1. page' = [page EXCEPT !.lists = [page.lists EXCEPT ![live] = FailTo(list, i, Members!Cleared(live))]]
    BY <1>6, MembersSame DEF Members!FailLoad, live, list
  <2> QED BY <1>1, <1>3, <2>1, FailCurrent
<1> QED BY <1>4, <1>5, <1>6

(* Another place is loaded for; the lists that do not depend on what changed *)
(* stay.                                                                     *)
LEMMA MembersSelected ==
  ASSUME Members!TypeOK, NEW at \in Places, Members!Select(at), NEW name \in Members!ListNames, MembersHeld(name)
  PROVE  MembersHeld(name)'
<1> DEFINE S == IF at.organization = page.at.organization /\ at # page.at THEN {"grants"} ELSE Members!ListNames
<1>0. page \in Members!Page /\ page.at \in Places /\ server' = server /\ flight' = flight
  BY DEF Members!TypeOK, Members!Page, Members!Select
<1>1. MembersShows(name)' = MembersShows(name)
  BY <1>0 DEF MembersShows, Members!Stored, Members!OrgMembers, Members!OrgInvitations,
     Members!ProjectGrants, Members!OrgWideGrants
<1>2. page'.at = at /\ page'.lists = Members!Loaded(at, at, S) /\ Room(page.lists, page.live) /\ S \in SUBSET Members!ListNames
  BY <1>0, MembersSame DEF Members!Select, Members!Page, Members!ListNames
<1>3. CASE name \in S
  <2>1. Current(page'.lists[name], MembersShows(name), page'.at)
    BY <1>2, <1>3, MembersLoadedCurrent
  <2> QED BY <1>1, <2>1 DEF MembersHeld
<1>4. CASE name \notin S
  <2>1. at.organization = page.at.organization /\ name # "grants"
    BY <1>4
  <2>2. MembersShows(name)[at] = MembersShows(name)[page.at]
    <3>1. /\ Members!OrgMembers(at) = Members!OrgMembers(page.at)
          /\ Members!OrgInvitations(at) = Members!OrgInvitations(page.at)
          /\ Members!OrgWideGrants(at) = Members!OrgWideGrants(page.at)
      BY <2>1, Zenon DEF Members!OrgMembers, Members!OrgInvitations, Members!OrgWideGrants
    <3>2. name \in {"members", "invitations", "orgGrants"}
      BY <2>1 DEF Members!ListNames
    <3>3. Members!Stored(at)[name] = Members!Stored(page.at)[name]
      BY <3>1, <3>2 DEF Members!Stored
    <3> QED BY <1>0, <3>3 DEF MembersShows
  <2>3. page'.lists[name] = page.lists[name]
    BY <1>2, <1>4, MembersLoadedElse
  <2>4. Current(page.lists[name], MembersShows(name), page.at) => Current(page.lists[name], MembersShows(name), at)
    BY <2>2 DEF Current
  <2> QED BY <1>0, <1>1, <1>2, <2>3, <2>4 DEF MembersHeld
<1> QED BY <1>3, <1>4

(* No step breaks the invariant of the members page.                        *)
LEMMA MembersInvStep ==
  ASSUME MembersInv, Members!Next \/ UNCHANGED vars
  PROVE  MembersInv'
<1>1. Members!TypeOK'
  BY MembersTypeStep DEF MembersInv
<1>2. ASSUME NEW name \in Members!ListNames PROVE MembersHeld(name)'
  <2>0. Members!TypeOK /\ MembersHeld(name)
    BY DEF MembersInv
  <2>1. CASE UNCHANGED vars
    <3>1. page'.lists = page.lists /\ page'.at = page.at /\ server' = server /\ \A c \in flight : c.state = "done" => c \in flight'
      BY <2>1 DEF vars
    <3> QED BY <2>0, <3>1, MembersStay
  <2>2. CASE Members!GrantDialog \/ Members!RemoveDialog \/ Members!InvitationDialogs \/ \E g \in Members!grantRows : Members!handleRevoke(g)
    BY <2>0, <2>2, MembersDialogsKeep, MembersStay
  <2> QED BY <2>0, <2>1, <2>2, MembersSelected, MembersHandled, MembersReturned, MembersLoadsShown
        DEF Members!Next
<1> QED BY <1>1, <1>2 DEF MembersInv

(* It holds at first.                                                       *)
LEMMA MembersInit == ASSUME Members!Init PROVE MembersInv
<1>1. server \in Members!Server /\ flight = {}
  BY MembersAssumption DEF Members!Init, Members!Server
<1>2. PICK at \in Places, doing \in {"grants", "previews", "removals", "invitations"} : \E live \in Members!ListsOf(doing) :
        page = [at |-> at, live |-> live, doing |-> doing,
                lists |-> [n \in Members!ListNames |-> Members!List(Members!Stored(at)[n])],
                dialog |-> "none", member |-> None, form |-> Members!NoForm, signature |-> None, previewed |-> None,
                subject |-> None, createdInvite |-> FALSE]
  BY DEF Members!Init
<1>3. \A live \in Members!ListsOf(doing) : live \in Members!ListNames \cup {"none"}
  BY DEF Members!ListsOf, Members!ListNames
<1> DEFINE lists == [n \in Members!ListNames |-> List(Members!Stored(at)[n])]
<1>4. MembersLists(lists)
  BY <1>1, FirstLists, MembersStored DEF MembersLists
<1>5. Members!NoForm \in Members!Form
  BY MembersAssumption DEF Members!NoForm, Members!Form
<1>6. page.lists = lists /\ page.at = at
  BY <1>2, MembersSame
<1>7. Members!TypeOK
  <2>1. lists \in [members : ListOf(Places, SUBSET Members!OrganizationMembership),
                   invitations : ListOf(Places, SUBSET Members!Invitation),
                   grants : ListOf(Places, [environments : SUBSET Members!Environments(Members!Projects),
                                            grants : SUBSET Members!Grant]),
                   orgGrants : ListOf(Places, SUBSET Members!Grant)]
    <3> HIDE DEF lists
    <3> QED BY <1>4 DEF MembersLists, ListsIn, Members!ListNames, MembersRows
  <2> HIDE DEF lists
  <2>2. page \in Members!Page
    BY <1>2, <1>3, <1>5, <1>6, <2>1, MembersSame DEF Members!Page
  <2> QED BY <1>1, <1>2, <2>2 DEF Members!TypeOK
<1>8. ASSUME NEW name \in Members!ListNames PROVE MembersHeld(name)
  <2>1. lists[name] = List(Members!Stored(at)[name]) /\ Members!Stored(at)[name] = MembersShows(name)[at]
    BY DEF MembersShows
  <2> QED BY <1>6, <2>1, FirstCurrent DEF MembersHeld
<1> QED BY <1>7, <1>8 DEF MembersInv

(* At rest the page shows what is stored.                                   *)
LEMMA MembersSettle == ASSUME MembersInv PROVE Members!Settles
<1> SUFFICES ASSUME flight = {}, NEW name \in Members!ListNames
             PROVE  Members!Settled(page.lists[name], Members!Stored(page.at)[name])
  BY DEF Members!Settles
<1>1. Current(page.lists[name], MembersShows(name), page.at) /\ page.at \in Places
  BY DEF MembersInv, MembersHeld, Members!TypeOK, Members!Page
<1>2. MembersShows(name)[page.at] = Members!Stored(page.at)[name]
  BY <1>1 DEF MembersShows
<1> QED BY <1>1, <1>2, CurrentSettled, MembersSame

-----------------------------------------------------------------------------
(* The members page: what a preview showed                                  *)

(* What the preview with this signature asked for.                          *)
Asked(signature) ==
  [user |-> signature.member.user, role |-> signature.role,
   target |-> IF signature.level = "project" THEN signature.project ELSE signature.target]

(* A signature is kept only with the result of its own preview, on the page *)
(* as in flight, and every input that could part them forgets both.         *)
Good(p) == p.signature # None => p.previewed = Asked(p.signature)

PreviewInv ==
  /\ Good(page)
  /\ \A c \in flight : c.op = "preview" => c.asked = Asked(c.signature)

(* A click that sends a call other than a grant.                            *)
LEMMA MembersSent ==
  ASSUME Members!TypeOK, PreviewInv, page' = page, NEW call, flight' = flight \cup {call},
         call.op = "preview" => call.asked = Asked(call.signature),
         call.op # "grant" \/ call.state # "sent"
  PROVE  PreviewInv' /\ Members!SendsPreviewed
  BY DEF PreviewInv, Good, Members!SendsPreviewed

(* A step that sends nothing and leaves a good dialog.                      *)
LEMMA MembersKept ==
  ASSUME Members!TypeOK, PreviewInv, Good(page'), flight' \subseteq flight
  PROVE  PreviewInv' /\ Members!SendsPreviewed
  BY DEF PreviewInv, Members!SendsPreviewed, Good

(* The user previews and grants.                                            *)
LEMMA MembersConfirmed ==
  ASSUME Members!TypeOK, PreviewInv, Members!handleConfirmGrant
  PROVE  PreviewInv' /\ Members!SendsPreviewed
<1> DEFINE existing == Members!existingMembership # {}
           call == [op |-> "grant", state |-> "sent", at |-> page.at, user |-> page.member.user, role |-> page.form.role,
                    existing |-> existing,
                    target |-> IF existing \/ page.form.level = "environment" THEN page.form.target ELSE page.at.project]
<1>1. /\ flight' = flight \cup {call} /\ UNCHANGED page
      /\ call.op = "grant" /\ call.user = page.member.user /\ call.role = page.form.role
      /\ ~call.existing \/ page.form.level = "environment" =>
           call.target = IF page.form.level = "environment" THEN page.form.target ELSE page.at.project
  BY DEF Members!handleConfirmGrant, Members!Send
<1> HIDE DEF call
<1>2. PreviewInv'
  BY <1>1 DEF PreviewInv, Good
<1>3. /\ page.signature = Members!Signature(page.form) /\ page.signature \in Members!GrantForms \cup {None}
      /\ page.previewed \in Members!Grant \cup {None} /\ page.form \in Members!Form /\ page.member \in Members!OrganizationMembership
      /\ page.at \in Places
  BY DEF Members!handleConfirmGrant, Members!ConfirmEnabled, Members!TypeOK, Members!Page
<1>4. page.signature \in Members!GrantForms
  <2>1. page.at.project \in {p.project : p \in Places}
    BY <1>3
  <2> QED BY <1>3, <2>1 DEF Members!Signature, Members!GrantForms, Members!Form
<1>5. page.signature # None
  BY <1>4, MembersAssumption
<1>6. page.previewed = [user |-> page.member.user, role |-> page.form.role,
                        target |-> IF page.form.level = "project" THEN page.at.project ELSE page.form.target]
  BY <1>3, <1>5 DEF PreviewInv, Good, Asked, Members!Signature
<1>7. page.form.level \in {"project", "environment"} /\ page.form.role \in Roles
  BY <1>3 DEF Members!Form
<1>8. (IF page.form.level = "project" THEN page.at.project ELSE page.form.target) \in Members!Targets
  BY <1>3, MembersProject DEF Members!handleConfirmGrant, Members!ConfirmEnabled, Members!Form
<1>9. page.previewed # None
  <2>1. page.previewed \in Members!Grant
    BY <1>3, <1>6, <1>7, <1>8 DEF Members!Grant, Members!OrganizationMembership
  <2> QED BY <2>1, MembersAssumption
<1>10. Members!SendsPreviewed
  BY <1>1, <1>6, <1>7, <1>9 DEF Members!SendsPreviewed
<1> QED BY <1>2, <1>10

(* What is in the dialog when the page is changed by a click.               *)
LEMMA MembersDialogsGood ==
  ASSUME Members!TypeOK, PreviewInv,
         Members!GrantDialog \/ Members!RemoveDialog \/ Members!InvitationDialogs \/ \E g \in Members!grantRows : Members!handleRevoke(g)
  PROVE  PreviewInv' /\ Members!SendsPreviewed
<1> USE DEF Members!GrantDialog, Members!RemoveDialog, Members!InvitationDialogs
<1>0. page \in Members!Page /\ Good(page)
  BY DEF Members!TypeOK, PreviewInv
<1>1. CASE Members!handlePreview
  <2> DEFINE asked == [user |-> page.member.user, role |-> page.form.role,
                       target |-> IF page.form.level = "project" THEN page.at.project ELSE page.form.target]
  <2>1. asked = Asked(Members!Signature(page.form))
    BY DEF Asked, Members!Signature
  <2> HIDE DEF asked
  <2> DEFINE call == [op |-> "preview", state |-> "sent", at |-> page.at, signature |-> Members!Signature(page.form), asked |-> asked]
  <2>2. page' = page /\ flight' = flight \cup {call}
    BY <1>1 DEF Members!handlePreview, Members!Send, asked
  <2>3. call.op = "preview" /\ call.asked = Asked(call.signature)
    BY <2>1
  <2> HIDE DEF call
  <2> QED BY <2>2, <2>3, MembersSent
<1>2. CASE Members!handleRemoveMember \/ Members!handleRevokeInvitation \/ Members!handleCreateInvite
           \/ \E g \in Members!grantRows : Members!handleRevoke(g)
  <2>1. PICK call : /\ call.op \notin {"grant", "preview"} /\ flight' = flight \cup {call} /\ page' = page
    BY <1>2 DEF Members!handleRemoveMember, Members!handleRevokeInvitation, Members!handleCreateInvite,
       Members!handleRevoke, Members!Send
  <2> QED BY <2>1, MembersSent
<1>3. CASE \/ \E m \in Members!rows("members") : Members!OpenGrant(m) \/ \E g \in Members!grantRows : Members!OpenChange(g, m)
           \/ Members!CloseGrant \/ Members!CancelDialogs \/ Members!closeInviteDialog
           \/ \E level \in {"project", "environment"} : Members!SetLevel(level)
           \/ \E target \in Members!Targets \cup {None} : Members!SetTarget(target)
           \/ \E role \in Roles : Members!SetRole(role)
  <2>1. page'.signature = None
    BY <1>0, <1>3, ZenonT(40) DEF Members!OpenGrant, Members!OpenChange, Members!CloseGrant,
       Members!CancelDialogs, Members!closeInviteDialog, Members!SetLevel, Members!SetTarget,
       Members!SetRole, Members!ChangeForm, Members!Opened, Members!Closed, Members!Page
  <2>2. flight' = flight
    BY <1>3, Zenon DEF Members!OpenGrant, Members!OpenChange, Members!CloseGrant, Members!CancelDialogs,
       Members!closeInviteDialog, Members!SetLevel, Members!SetTarget, Members!SetRole, Members!ChangeForm
  <2> QED BY <2>1, <2>2, MembersKept DEF Good
<1>4. CASE \/ \E m \in Members!rows("members") : Members!SetMemberToRemove(m)
           \/ \E i \in Members!rows("invitations") : Members!SetInvitationToRevoke(i)
           \/ Members!OpenInvite
  <2>1. page'.signature = page.signature /\ page'.previewed = page.previewed /\ flight' = flight
    BY <1>0, <1>4, Zenon DEF Members!SetMemberToRemove, Members!SetInvitationToRevoke, Members!OpenInvite,
       Members!Page
  <2> QED BY <1>0, <2>1, MembersKept DEF Good
<1> QED BY <1>1, <1>2, <1>3, <1>4, MembersConfirmed

(* No step parts a signature from its preview, and a grant has its          *)
(* signature.                                                               *)
LEMMA PreviewStep ==
  ASSUME Members!TypeOK, PreviewInv, Members!Next \/ UNCHANGED vars
  PROVE  PreviewInv' /\ Members!SendsPreviewed
<1>0. page \in Members!Page /\ Good(page)
  BY DEF Members!TypeOK, PreviewInv
<1>1. ASSUME page'.signature = page.signature, page'.previewed = page.previewed, flight' \subseteq flight
      PROVE  PreviewInv' /\ Members!SendsPreviewed
  BY <1>0, <1>1, MembersKept DEF Good
<1>2. ASSUME NEW at \in Places, Members!Select(at) PROVE PreviewInv' /\ Members!SendsPreviewed
  BY <1>0, <1>1, <1>2 DEF Members!Select, Members!Page
<1>3. ASSUME NEW c \in flight, Members!Handle(c) PROVE PreviewInv' /\ Members!SendsPreviewed
  <2>1. PICK state \in {"done", "refused"} : flight' = (flight \ {c}) \cup {[c EXCEPT !.state = state]}
    BY <1>3, Zenon DEF Members!Handle, Members!HandleGrant, Members!HandleRevoke, Members!HandleRemove,
         Members!HandleInvite, Members!HandleRevokeInvitation, Members!Done, Members!Refused, Members!Become
  <2>2. page' = page /\ c.op # "preview" /\ c \in Members!Call
    BY <1>3 DEF Members!Handle, Members!HandleGrant, Members!HandleRevoke, Members!HandleRemove,
         Members!HandleInvite, Members!HandleRevokeInvitation, Members!TypeOK
  <2>3. [c EXCEPT !.state = state].op = c.op /\ [c EXCEPT !.state = state].state = state
    BY <2>2, MembersOps
  <2> QED BY <2>1, <2>2, <2>3 DEF PreviewInv, Good, Members!SendsPreviewed
<1>4. ASSUME NEW c \in flight, Members!Return(c) PROVE PreviewInv' /\ Members!SendsPreviewed
  <2>1. flight' = flight \ {c}
    BY <1>4 DEF Members!Return, Members!Previewed, Members!Granted, Members!GrantRevoked,
         Members!Removed, Members!Invited, Members!InvitationRevoked, Members!Failed, Members!Answered
  <2>2. Members!Closed.signature = None
    BY <1>0 DEF Members!Closed, Members!Page
  <2>3. CASE Members!Previewed(c)
    <3>1. c.asked = Asked(c.signature)
      BY <2>3 DEF Members!Previewed, PreviewInv
    <3>2. Good(page')
      BY <1>0, <2>3, <3>1 DEF Members!Previewed, Good, Members!Page
    <3> QED BY <2>1, <3>2, MembersKept
  <2>4. CASE ~Members!Previewed(c)
    <3>1. PICK lists : \/ page' = [page EXCEPT !.lists = lists] \/ page' = [Members!Closed EXCEPT !.lists = lists]
                       \/ page' = [page EXCEPT !.createdInvite = TRUE, !.lists = lists] \/ page' = page
      BY <1>4, <2>4, Zenon DEF Members!Return, Members!Granted, Members!GrantRevoked, Members!Removed,
         Members!Invited, Members!InvitationRevoked, Members!Failed
    <3>2. (page'.signature = page.signature /\ page'.previewed = page.previewed) \/ page'.signature = None
      BY <1>0, <2>2, <3>1, Zenon DEF Members!Page, Members!Closed
    <3> QED BY <1>1, <2>1, <3>2, MembersKept DEF Good
  <2> QED BY <2>3, <2>4
<1>5. ASSUME NEW i, Members!ReadLoad(i) \/ Members!LandLoad(i) \/ Members!FailLoad(i) PROVE PreviewInv' /\ Members!SendsPreviewed
  <2>1. PICK lists : page' = [page EXCEPT !.lists = lists] /\ flight' = flight
    BY <1>5 DEF Members!ReadLoad, Members!LandLoad, Members!FailLoad
  <2> QED BY <1>0, <1>1, <2>1 DEF Members!Page
<1>6. CASE UNCHANGED vars
  BY <1>1, <1>6 DEF vars
<1> QED BY <1>2, <1>3, <1>4, <1>5, <1>6, MembersDialogsGood DEF Members!Next

(* At first nothing was previewed.                                          *)
LEMMA PreviewInit == Members!Init => PreviewInv
  BY DEF Members!Init, PreviewInv, Good

-----------------------------------------------------------------------------
(* The variant editor's rows                                                *)

(* What an editor's shares are: those of a new flag are within the whole,   *)
(* those that come from the server are any.                                 *)
Shares == {0..Whole, Int}

DraftRow(ids, shares) == [id : ids, name : STRING, share : shares, is_control : BOOLEAN]

(* One control, and something left for it by the others.                    *)
FairSet(rows) ==
  \E control \in DOMAIN rows :
    /\ Controls(rows) = {control}
    /\ \A i \in DOMAIN rows \ {control} : rows[i].share >= 0
    /\ SharesOf(rows, DOMAIN rows \ {control}) <= Whole

(* All of the weight, in parts of it.                                       *)
SharedSet(rows) ==
  /\ FairSet(rows) /\ SharesOf(rows, DOMAIN rows) = Whole
  /\ \A i \in DOMAIN rows : rows[i].share \in 0..Whole

(* A share is a number, and one within the whole is a share.                *)
LEMMA SharesAre ==
  ASSUME NEW shares \in Shares
  PROVE  0..Whole \subseteq shares /\ shares \subseteq Int
  BY WholeAssumption DEF Shares

(* The rows of an editor: where they are and what each one holds.           *)
LEMMA RowsOf ==
  ASSUME NEW ids, NEW shares \in Shares, NEW rows \in Seq(DraftRow(ids, shares))
  PROVE  /\ DOMAIN rows = 1..Len(rows) /\ Len(rows) \in Nat /\ IsFiniteSet(DOMAIN rows)
         /\ \A i \in DOMAIN rows : /\ rows[i] \in DraftRow(ids, shares) /\ rows[i].is_control \in BOOLEAN
                                  /\ rows[i].share \in shares /\ rows[i].share \in Int
         /\ Controls(rows) \subseteq DOMAIN rows
<1>1. DOMAIN rows = 1..Len(rows) /\ Len(rows) \in Nat /\ IsFiniteSet(1..Len(rows))
  BY FS_Interval
<1>2. \A i \in DOMAIN rows : rows[i] \in DraftRow(ids, shares)
  OBVIOUS
<1>3. \A row \in DraftRow(ids, shares) : row.share \in shares /\ row.share \in Int /\ row.is_control \in BOOLEAN
  BY SharesAre DEF DraftRow
<1> QED BY <1>1, <1>2, <1>3 DEF Controls

(* The shares of some rows add up to a number, which is natural if they are. *)
LEMMA SharesNat ==
  ASSUME NEW ids, NEW shares \in Shares, NEW rows \in Seq(DraftRow(ids, shares)), NEW S \in SUBSET DOMAIN rows
  PROVE  /\ SharesOf(rows, S) \in Int /\ IsFiniteSet(S)
         /\ (\A i \in S : rows[i].share >= 0) => SharesOf(rows, S) \in Nat
<1> DEFINE w == [i \in DOMAIN rows |-> rows[i].share]
<1>1. IsFiniteSet(S)
  BY RowsOf, FS_Subset
<1>2. \A x \in S : w[x] = rows[x].share /\ w[x] \in Int
  BY RowsOf
<1> HIDE DEF w
<1>3. SumFunctionOnSet(w, S) \in Int
  BY <1>1, <1>2, SumInt
<1>4. ASSUME \A i \in S : rows[i].share >= 0 PROVE SumFunctionOnSet(w, S) \in Nat
  <2>1. \A x \in S : w[x] \in Nat
    BY <1>2, <1>4
  <2> QED BY <1>1, <2>1, SumNat
<1> QED BY <1>1, <1>3, <1>4 DEF SharesOf, w

(* Only the shares of these rows count.                                     *)
LEMMA SharesSame ==
  ASSUME NEW ids, NEW shares \in Shares, NEW rows \in Seq(DraftRow(ids, shares)), NEW others, NEW S \in SUBSET DOMAIN rows, S \subseteq DOMAIN others,
         \A i \in S : others[i].share = rows[i].share
  PROVE  SharesOf(others, S) = SharesOf(rows, S)
<1> DEFINE v == [i \in DOMAIN others |-> others[i].share]
           w == [i \in DOMAIN rows |-> rows[i].share]
<1>1. IsFiniteSet(S)
  BY SharesNat
<1>2. \A x \in S : v[x] = w[x]
  OBVIOUS
<1> HIDE DEF v, w
<1>3. SumFunctionOnSet(v, S) = SumFunctionOnSet(w, S)
  BY <1>1, <1>2, SumSame
<1> QED BY <1>3 DEF SharesOf, v, w

(* One row's share and the others'.                                         *)
LEMMA SharesSplit ==
  ASSUME NEW ids, NEW shares \in Shares, NEW rows \in Seq(DraftRow(ids, shares)), NEW S \in SUBSET DOMAIN rows, NEW i \in S
  PROVE  SharesOf(rows, S) = SharesOf(rows, S \ {i}) + rows[i].share
<1> DEFINE w == [j \in DOMAIN rows |-> rows[j].share]
<1>1. IsFiniteSet(S)
  BY SharesNat
<1>2. \A x \in S : w[x] \in Int
  BY RowsOf, WholeAssumption
<1>3. w[i] = rows[i].share
  OBVIOUS
<1> HIDE DEF w
<1>4. SumFunctionOnSet(w, S) = SumFunctionOnSet(w, S \ {i}) + w[i]
  BY <1>1, <1>2, SumRemove
<1> QED BY <1>3, <1>4 DEF SharesOf, w

(* No rows, no shares.                                                      *)
LEMMA SharesNone == ASSUME NEW rows PROVE SharesOf(rows, {}) = 0
  BY SumEmpty DEF SharesOf

(* A clamped number is within the bounds, and one within them stays.        *)
LEMMA ClampIn ==
  ASSUME NEW n \in Int, NEW most \in Nat
  PROVE  Clamp(n, most) \in 0..most /\ (n \in 0..most => Clamp(n, most) = n)
  BY DEF Clamp

(* The control that is taken is the first one.                              *)
LEMMA FirstControl ==
  ASSUME NEW ids, NEW shares \in Shares, NEW rows \in Seq(DraftRow(ids, shares)), Controls(rows) # {}
  PROVE  Min(Controls(rows)) \in Controls(rows)
<1>1. Controls(rows) \in SUBSET Nat
  BY RowsOf
<1>2. PICK n \in Controls(rows) : \A m \in Controls(rows) : n <= m
  BY <1>1, LeastNumber
<1> QED BY <1>2 DEF Min

(* Giving the control what the others leave changes its share and nothing   *)
(* else; the shares add up to the whole if the others leave something.      *)
LEMMA RecalcTyped ==
  ASSUME NEW ids, NEW shares \in Shares, NEW rows \in Seq(DraftRow(ids, shares))
  PROVE  /\ recalcControlPercentage(rows) \in Seq(DraftRow(ids, shares))
         /\ DOMAIN recalcControlPercentage(rows) = DOMAIN rows
         /\ Controls(recalcControlPercentage(rows)) = Controls(rows)
<1>1. CASE Controls(rows) = {}
  BY <1>1 DEF recalcControlPercentage
<1>2. CASE Controls(rows) # {}
  <2> DEFINE control == Min(Controls(rows))
             share == Clamp(Whole - SharesOf(rows, DOMAIN rows \ {control}), Whole)
             new == [rows EXCEPT ![control].share = share]
  <2>1. control \in Controls(rows) /\ control \in DOMAIN rows
    BY <1>2, FirstControl, RowsOf
  <2>2. share \in 0..Whole
    <3>1. SharesOf(rows, DOMAIN rows \ {control}) \in Int
      BY SharesNat
    <3>2. Whole - SharesOf(rows, DOMAIN rows \ {control}) \in Int /\ Whole \in Nat
      BY <3>1, WholeAssumption
    <3> QED BY <3>2, ClampIn
  <2>3. recalcControlPercentage(rows) = new
    BY <1>2 DEF recalcControlPercentage
  <2> HIDE DEF control, share
  <2>4. rows[control] \in DraftRow(ids, shares)
    BY <2>1, RowsOf
  <2>5. [rows[control] EXCEPT !.share = share] \in DraftRow(ids, shares)
        /\ [rows[control] EXCEPT !.share = share].is_control = rows[control].is_control
    BY <2>2, <2>4, SharesAre DEF DraftRow
  <2> DEFINE row == [rows[control] EXCEPT !.share = share]
  <2>6. new = [rows EXCEPT ![control] = row]
    OBVIOUS
  <2> HIDE DEF row, new
  <2>7. new \in Seq(DraftRow(ids, shares)) /\ DOMAIN new = DOMAIN rows
    BY <2>1, <2>5, <2>6 DEF row
  <2>8. \A i \in DOMAIN rows : new[i].is_control = rows[i].is_control
    BY <2>1, <2>5, <2>6 DEF row
  <2>9. Controls(new) = Controls(rows)
    BY <2>7, <2>8 DEF Controls
  <2> QED BY <2>3, <2>7, <2>9
<1> QED BY <1>1, <1>2

(* With room for the control, recalculating shares all of the weight.       *)
LEMMA RecalcWhole ==
  ASSUME NEW ids, NEW shares \in Shares, NEW rows \in Seq(DraftRow(ids, shares)), FairSet(rows)
  PROVE  SharedSet(recalcControlPercentage(rows))
<1>0. PICK control \in DOMAIN rows :
        /\ Controls(rows) = {control}
        /\ \A i \in DOMAIN rows \ {control} : rows[i].share >= 0
        /\ SharesOf(rows, DOMAIN rows \ {control}) <= Whole
  BY Zenon DEF FairSet
<1> DEFINE others == SharesOf(rows, DOMAIN rows \ {control})
           share == Clamp(Whole - others, Whole)
           new == recalcControlPercentage(rows)
<1>1. Min(Controls(rows)) = control
  BY <1>0, FirstControl
<1>2. others \in Nat /\ others <= Whole
  BY <1>0, SharesNat
<1>3. share = Whole - others /\ share \in 0..Whole
  <2> HIDE DEF others
  <2>1. Whole - others \in 0..Whole
    BY <1>2, WholeAssumption
  <2> QED BY <2>1, ClampIn, WholeAssumption
<1>4. new = [rows EXCEPT ![control].share = share]
  BY <1>0, <1>1 DEF recalcControlPercentage
<1> HIDE DEF share
<1>5. \A i \in DOMAIN rows \ {control} : new[i].share = rows[i].share
  BY <1>4
<1>6. new[control].share = share
  <2>1. rows[control] \in DraftRow(ids, shares)
    BY RowsOf
  <2> QED BY <1>4, <2>1 DEF DraftRow
<1>7. new \in Seq(DraftRow(ids, shares)) /\ DOMAIN new = DOMAIN rows /\ Controls(new) = {control}
  BY <1>0, RecalcTyped
<1> HIDE DEF new
<1>8. SharesOf(new, DOMAIN rows \ {control}) = others
  BY <1>5, <1>7, SharesSame
<1>9. SharesOf(new, DOMAIN rows) = SharesOf(new, DOMAIN rows \ {control}) + new[control].share
  BY <1>7, SharesSplit
<1>10. SharesOf(new, DOMAIN new) = Whole
  BY <1>2, <1>3, <1>6, <1>7, <1>8, <1>9, WholeAssumption
<1>11. FairSet(new)
  BY <1>0, <1>5, <1>7, <1>8 DEF FairSet
<1>12. ASSUME NEW i \in DOMAIN rows \ {control} PROVE rows[i].share \in 0..Whole
  <2> DEFINE rest == (DOMAIN rows \ {control}) \ {i}
  <2>1. others = SharesOf(rows, rest) + rows[i].share
    BY SharesSplit
  <2>2. SharesOf(rows, rest) \in Nat /\ rows[i].share \in Int /\ rows[i].share >= 0
    BY <1>0, SharesNat, RowsOf
  <2> QED BY <1>0, <2>1, <2>2, WholeAssumption
<1>13. \A i \in DOMAIN new : new[i].share \in 0..Whole
  BY <1>3, <1>5, <1>6, <1>7, <1>12
<1> QED BY <1>10, <1>11, <1>13 DEF SharedSet, new

(* What an edit makes of the rows it is about: rows, and of a fair set one   *)
(* that shares all of the weight.                                           *)
LEMMA AddedRow ==
  ASSUME NEW ids, NEW shares \in Shares, NEW rows \in Seq(DraftRow(ids, shares)), NEW id \in ids
  PROVE  /\ AddRow(rows, id) \in Seq(DraftRow(ids, shares))
         /\ FairSet(rows) => SharedSet(AddRow(rows, id))
<1> DEFINE row == [id |-> id, name |-> "", share |-> 0, is_control |-> FALSE]
           next == Append(rows, row)
<1>1. row \in DraftRow(ids, shares)
  <2>1. 0 \in shares
    BY SharesAre, WholeAssumption
  <2>2. "" \in STRING
    BY StringsAssumption, Zenon
  <2> QED BY <2>1, <2>2, Zenon DEF DraftRow
<1>2. row.share = 0 /\ ~row.is_control
  OBVIOUS
<1>3. AddRow(rows, id) = recalcControlPercentage(next)
  BY DEF AddRow
<1> HIDE DEF row
<1>4. /\ next \in Seq(DraftRow(ids, shares)) /\ Len(rows) \in Nat /\ Len(next) = Len(rows) + 1
      /\ next[Len(rows) + 1] = row /\ \A i \in 1..Len(rows) : next[i] = rows[i]
  BY <1>1
<1> HIDE DEF next
<1>5. AddRow(rows, id) \in Seq(DraftRow(ids, shares))
  BY <1>3, <1>4, RecalcTyped
<1>6. ASSUME FairSet(rows) PROVE SharedSet(recalcControlPercentage(next))
  <2>1. PICK control \in DOMAIN rows :
          /\ Controls(rows) = {control}
          /\ \A j \in DOMAIN rows \ {control} : rows[j].share >= 0
          /\ SharesOf(rows, DOMAIN rows \ {control}) <= Whole
    BY <1>6, Zenon DEF FairSet
  <2>2. DOMAIN rows = 1..Len(rows) /\ DOMAIN next = DOMAIN rows \cup {Len(rows) + 1} /\ Len(rows) + 1 \notin DOMAIN rows
    <3>1. DOMAIN rows = 1..Len(rows) /\ DOMAIN next = 1..(Len(rows) + 1)
      BY <1>4
    <3> QED BY <1>4, <3>1
  <2>3. Controls(next) = {control} /\ control \in DOMAIN next
    BY <1>2, <1>4, <2>1, <2>2 DEF Controls
  <2>5. SharesOf(next, DOMAIN rows \ {control}) = SharesOf(rows, DOMAIN rows \ {control})
    BY <1>4, <2>2, SharesSame
  <2>6. (DOMAIN next \ {control}) \ {Len(rows) + 1} = DOMAIN rows \ {control} /\ Len(rows) + 1 \in DOMAIN next \ {control}
    BY <2>1, <2>2
  <2>7. SharesOf(next, DOMAIN next \ {control}) = SharesOf(next, (DOMAIN next \ {control}) \ {Len(rows) + 1}) + next[Len(rows) + 1].share
    BY <1>4, <2>6, SharesSplit
  <2>8. SharesOf(next, (DOMAIN next \ {control}) \ {Len(rows) + 1}) = SharesOf(next, DOMAIN rows \ {control})
    BY <2>6, Zenon
  <2>9. SharesOf(rows, DOMAIN rows \ {control}) \in Int
    BY SharesNat
  <2>10. SharesOf(next, DOMAIN next \ {control}) <= Whole
    BY <1>2, <1>4, <2>1, <2>5, <2>7, <2>8, <2>9
  <2>11. \A j \in DOMAIN next \ {control} : next[j].share >= 0
    BY <1>2, <1>4, <2>1, <2>2
  <2>12. FairSet(next)
    BY <2>3, <2>10, <2>11 DEF FairSet
  <2> QED BY <1>4, <2>12, RecalcWhole
<1> QED BY <1>3, <1>5, <1>6

(* A name changes no share.                                                 *)
LEMMA RenamedRow ==
  ASSUME NEW ids, NEW shares \in Shares, NEW rows \in Seq(DraftRow(ids, shares)), NEW i \in DOMAIN rows, NEW name \in STRING
  PROVE  /\ RenameRow(rows, i, name) \in Seq(DraftRow(ids, shares))
         /\ FairSet(rows) => SharedSet(RenameRow(rows, i, name))
<1> DEFINE row == [rows[i] EXCEPT !.name = name]
           next == [rows EXCEPT ![i] = row]
<1>1. rows[i] \in DraftRow(ids, shares)
  BY RowsOf
<1>2. row \in DraftRow(ids, shares) /\ row.share = rows[i].share /\ row.is_control = rows[i].is_control
  BY <1>1 DEF DraftRow
<1>3. RenameRow(rows, i, name) = recalcControlPercentage(next)
  BY DEF RenameRow
<1> HIDE DEF row
<1>4. /\ next \in Seq(DraftRow(ids, shares)) /\ DOMAIN next = DOMAIN rows
      /\ \A j \in DOMAIN rows : next[j].share = rows[j].share /\ next[j].is_control = rows[j].is_control
  BY <1>2
<1> HIDE DEF next
<1>5. ASSUME FairSet(rows) PROVE SharedSet(recalcControlPercentage(next))
  <2>1. PICK control \in DOMAIN rows :
          /\ Controls(rows) = {control}
          /\ \A j \in DOMAIN rows \ {control} : rows[j].share >= 0
          /\ SharesOf(rows, DOMAIN rows \ {control}) <= Whole
    BY <1>5, Zenon DEF FairSet
  <2>2. Controls(next) = {control}
    BY <1>4, <2>1 DEF Controls
  <2>4. SharesOf(next, DOMAIN next \ {control}) = SharesOf(rows, DOMAIN rows \ {control})
    <3>1. SharesOf(next, DOMAIN rows \ {control}) = SharesOf(rows, DOMAIN rows \ {control})
      BY <1>4, SharesSame
    <3> QED BY <1>4, <3>1
  <2>5. FairSet(next)
    BY <1>4, <2>1, <2>2, <2>4 DEF FairSet
  <2> QED BY <1>4, <2>5, RecalcWhole
<1> QED BY <1>3, <1>4, <1>5, RecalcTyped

(* A typed weight is cut to what the rows without control leave for it.     *)
LEMMA WeighedRow ==
  ASSUME NEW ids, NEW shares \in Shares, NEW rows \in Seq(DraftRow(ids, shares)), NEW i \in DOMAIN rows \ Controls(rows), NEW share \in Int
  PROVE  /\ WeighRow(rows, i, share) \in Seq(DraftRow(ids, shares))
         /\ FairSet(rows) => SharedSet(WeighRow(rows, i, share))
<1> DEFINE others == SharesOf(rows, {j \in DOMAIN rows \ {i} : ~rows[j].is_control})
           headroom == getNonControlHeadroom(rows, i)
           cut == Clamp(share, headroom)
           row == [rows[i] EXCEPT !.share = cut]
           next == [rows EXCEPT ![i] = row]
<1>1. rows[i] \in DraftRow(ids, shares) /\ ~rows[i].is_control
  BY RowsOf DEF Controls
<1>2. others \in Int /\ (shares = Int \/ others \in Nat)
  <2>1. shares # Int => \A j \in DOMAIN rows : rows[j].share >= 0
    BY RowsOf, WholeAssumption DEF Shares
  <2> QED BY <2>1, SharesNat
<1>3. headroom = IF Whole - others < 0 THEN 0 ELSE Whole - others
  BY DEF getNonControlHeadroom
<1> HIDE DEF others, headroom
<1>4. headroom \in Nat /\ (shares = Int \/ headroom <= Whole) /\ (others <= Whole => others + headroom = Whole)
  BY <1>2, <1>3, WholeAssumption
<1>5. cut \in 0..headroom /\ cut \in shares /\ cut \in Nat
  <2>1. cut \in 0..headroom
    BY <1>4, ClampIn
  <2>2. shares = Int \/ cut \in 0..Whole
    BY <1>4, <2>1, WholeAssumption
  <2> QED BY <2>1, <2>2, SharesAre
<1> HIDE DEF cut
<1>6. row \in DraftRow(ids, shares) /\ row.share = cut /\ row.is_control = rows[i].is_control
  BY <1>1, <1>5 DEF DraftRow
<1>7. WeighRow(rows, i, share) = recalcControlPercentage(next)
  BY DEF WeighRow, cut, headroom
<1> HIDE DEF row
<1>8. /\ next \in Seq(DraftRow(ids, shares)) /\ DOMAIN next = DOMAIN rows /\ next[i].share = cut
      /\ \A j \in DOMAIN rows : next[j].is_control = rows[j].is_control
      /\ \A j \in DOMAIN rows \ {i} : next[j].share = rows[j].share
  BY <1>6
<1> HIDE DEF next
<1>9. ASSUME FairSet(rows) PROVE SharedSet(recalcControlPercentage(next))
  <2>1. PICK control \in DOMAIN rows :
          /\ Controls(rows) = {control}
          /\ \A j \in DOMAIN rows \ {control} : rows[j].share >= 0
          /\ SharesOf(rows, DOMAIN rows \ {control}) <= Whole
    BY <1>9, Zenon DEF FairSet
  <2>2. Controls(next) = {control}
    BY <1>8, <2>1 DEF Controls
  <2> DEFINE rest == (DOMAIN rows \ {control}) \ {i}
  <2>3. {j \in DOMAIN rows \ {i} : ~rows[j].is_control} = rest
    BY <2>1 DEF Controls
  <2>4. others = SharesOf(rows, rest)
    BY <2>3, Zenon DEF others
  <2>5. i \in DOMAIN rows \ {control}
    BY <2>1
  <2>6. SharesOf(rows, DOMAIN rows \ {control}) = SharesOf(rows, rest) + rows[i].share
    BY <2>5, SharesSplit
  <2>7. SharesOf(next, DOMAIN rows \ {control}) = SharesOf(next, rest) + next[i].share
    BY <1>8, <2>5, SharesSplit
  <2>8. SharesOf(next, rest) = SharesOf(rows, rest)
    BY <1>8, SharesSame
  <2>9. SharesOf(rows, DOMAIN rows \ {control}) <= Whole /\ SharesOf(rows, rest) \in Int
    BY <2>1, SharesNat
  <2>10. rows[i].share \in Nat
    BY <2>1, <2>5, RowsOf
  <2> HIDE DEF rest
  <2>11. SharesOf(next, DOMAIN rows \ {control}) <= Whole
    BY <1>2, <1>4, <1>5, <1>8, <2>4, <2>6, <2>7, <2>8, <2>9, <2>10, WholeAssumption
  <2>12. SharesOf(next, DOMAIN next \ {control}) <= Whole
    BY <1>8, <2>11
  <2>13. \A j \in DOMAIN next \ {control} : next[j].share >= 0
    BY <1>5, <1>8, <2>1, <2>5
  <2>14. FairSet(next)
    BY <1>8, <2>1, <2>2, <2>12, <2>13 DEF FairSet
  <2> QED BY <1>8, <2>14, RecalcWhole
<1> QED BY <1>7, <1>8, <1>9, RecalcTyped

(* The rows without one, and the place in rows of what is at a place then.  *)
Without(rows, i) == SubSeq(rows, 1, i - 1) \o SubSeq(rows, i + 1, Len(rows))
Past(i, n) == [j \in 1..(n - 1) |-> IF j < i THEN j ELSE j + 1]

(* The places past a removed row are the others, each one once.             *)
LEMMA PastPlaces ==
  ASSUME NEW n \in Nat, NEW i \in 1..n
  PROVE  /\ \A j \in 1..(n - 1) : Past(i, n)[j] \in (1..n) \ {i}
         /\ \A j, k \in 1..(n - 1) : Past(i, n)[j] = Past(i, n)[k] => j = k
         /\ \A j \in (1..n) \ {i} : \E k \in 1..(n - 1) : Past(i, n)[k] = j
<1>1. \A j \in 1..(n - 1) : Past(i, n)[j] = IF j < i THEN j ELSE j + 1
  BY DEF Past
<1>2. ASSUME NEW j \in 1..(n - 1) PROVE (IF j < i THEN j ELSE j + 1) \in (1..n) \ {i}
  OBVIOUS
<1>3. ASSUME NEW j \in 1..(n - 1), NEW k \in 1..(n - 1), (IF j < i THEN j ELSE j + 1) = IF k < i THEN k ELSE k + 1 PROVE j = k
  BY <1>3
<1>4. ASSUME NEW j \in (1..n) \ {i} PROVE \E k \in 1..(n - 1) : Past(i, n)[k] = j
  <2>1. CASE j < i
    <3>1. j \in 1..(n - 1)
      BY <2>1
    <3> QED BY <1>1, <2>1, <3>1
  <2>2. CASE ~(j < i)
    <3>1. j - 1 \in 1..(n - 1) /\ ~(j - 1 < i) /\ (j - 1) + 1 = j
      BY <1>4, <2>2
    <3> QED BY <1>1, <3>1
  <2> QED BY <2>1, <2>2
<1> HIDE DEF Past
<1>5. \A j \in 1..(n - 1) : Past(i, n)[j] \in (1..n) \ {i}
  BY <1>1, <1>2
<1>6. ASSUME NEW j \in 1..(n - 1), NEW k \in 1..(n - 1), Past(i, n)[j] = Past(i, n)[k] PROVE j = k
  BY <1>1, <1>3, <1>6
<1> QED BY <1>4, <1>5, <1>6

(* A sequence without one of its rows.                                      *)
LEMMA WithoutRow ==
  ASSUME NEW S, NEW rows \in Seq(S), NEW i \in 1..Len(rows)
  PROVE  /\ Without(rows, i) \in Seq(S) /\ DOMAIN Without(rows, i) = 1..(Len(rows) - 1)
         /\ \A j \in 1..(Len(rows) - 1) : Without(rows, i)[j] = rows[Past(i, Len(rows))[j]]
<1> DEFINE before == SubSeq(rows, 1, i - 1)
           after == SubSeq(rows, i + 1, Len(rows))
           n == Len(rows)
<1>1. n \in Nat /\ i \in Nat /\ 1 <= i /\ i <= n /\ DOMAIN rows = 1..n
  OBVIOUS
<1>2. before \in Seq(S) /\ Len(before) = i - 1 /\ \A j \in 1..(i - 1) : before[j] = rows[j]
  BY <1>1
<1>3. after \in Seq(S) /\ Len(after) = n - i
  BY AfterLoad
<1>4. \A j \in 1..(n - i) : after[j] = rows[i + j]
  <2> SUFFICES ASSUME NEW j \in 1..(n - i) PROVE after[j] = rows[i + j]
    OBVIOUS
  <2>1. j \in 1..(n - (i + 1) + 1) /\ (i + 1) + j - 1 = i + j
    BY <1>1
  <2> QED BY <1>1, <2>1
<1>5. Without(rows, i) = before \o after
  BY DEF Without
<1> HIDE DEF before, after, n
<1>6. before \o after \in Seq(S) /\ Len(before \o after) = n - 1
  <2>1. before \o after \in Seq(S)
    BY <1>2, <1>3
  <2>2. Len(before \o after) = Len(before) + Len(after)
    BY <1>2, <1>3, LastLoad
  <2> QED BY <1>1, <1>2, <1>3, <2>1, <2>2
<1>7. DOMAIN (before \o after) = 1..(n - 1)
  BY <1>6
<1>8. ASSUME NEW j \in 1..(n - 1) PROVE (before \o after)[j] = rows[Past(i, n)[j]]
  <2>1. Past(i, n)[j] = IF j < i THEN j ELSE j + 1
    BY DEF Past
  <2>2. j \in Nat /\ 1 <= j /\ j <= n - 1
    BY <1>1
  <2>3. CASE j < i
    <3>1. j \in 1..Len(before)
      BY <1>1, <1>2, <2>2, <2>3
    <3>2. (before \o after)[j] = before[j]
      BY <1>2, <1>3, <3>1
    <3> QED BY <1>2, <2>1, <2>3, <3>1, <3>2
  <2>4. CASE ~(j < i)
    <3> DEFINE k == j - (i - 1)
    <3>1. k \in 1..(n - i) /\ i + k = j + 1 /\ j = Len(before) + k
      BY <1>1, <1>2, <2>2, <2>4
    <3> HIDE DEF k
    <3>2. (before \o after)[Len(before) + k] = after[k]
      <4>1. k \in 1..Len(after) /\ Len(before) \in Nat
        BY <1>2, <1>3, <3>1
      <4> QED BY <1>2, <1>3, <4>1
    <3> QED BY <1>4, <2>1, <2>4, <3>1, <3>2
  <2> QED BY <2>3, <2>4
<1> QED BY <1>5, <1>6, <1>7, <1>8 DEF n

(* A row that is removed leaves its share to the control.                   *)
LEMMA RemovedRow ==
  ASSUME NEW ids, NEW shares \in Shares, NEW rows \in Seq(DraftRow(ids, shares)), NEW i \in DOMAIN rows \ Controls(rows)
  PROVE  /\ RemoveRow(rows, i) \in Seq(DraftRow(ids, shares))
         /\ FairSet(rows) => SharedSet(RemoveRow(rows, i))
<1> DEFINE next == Without(rows, i)
           past == Past(i, Len(rows))
           crowned == IF next # <<>> /\ Controls(next) = {} THEN [next EXCEPT ![1].is_control = TRUE] ELSE next
<1>1. /\ next \in Seq(DraftRow(ids, shares)) /\ DOMAIN next = 1..(Len(rows) - 1)
      /\ \A j \in DOMAIN next : next[j] = rows[past[j]]
      /\ \A j \in DOMAIN next : past[j] \in DOMAIN rows \ {i}
      /\ \A j, k \in DOMAIN next : past[j] = past[k] => j = k
      /\ \A j \in DOMAIN rows \ {i} : \E k \in DOMAIN next : past[k] = j
  <2>1. DOMAIN rows = 1..Len(rows) /\ Len(rows) \in Nat
    BY RowsOf
  <2>2. i \in 1..Len(rows)
    BY <2>1
  <2> HIDE DEF past
  <2>3. next \in Seq(DraftRow(ids, shares)) /\ DOMAIN next = 1..(Len(rows) - 1)
    BY <2>2, WithoutRow
  <2> HIDE DEF next
  <2>4. \A j \in DOMAIN next : next[j] = rows[past[j]]
    BY <2>2, <2>3, WithoutRow DEF next, past
  <2>5. /\ \A j \in 1..(Len(rows) - 1) : past[j] \in (1..Len(rows)) \ {i}
        /\ \A j, k \in 1..(Len(rows) - 1) : past[j] = past[k] => j = k
        /\ \A j \in (1..Len(rows)) \ {i} : \E k \in 1..(Len(rows) - 1) : past[k] = j
    BY <2>1, <2>2, PastPlaces, Zenon DEF past
  <2> QED BY <2>1, <2>2, <2>3, <2>4, <2>5, Zenon
<1>2. RemoveRow(rows, i) = recalcControlPercentage(crowned)
  BY DEF RemoveRow, Without
<1> HIDE DEF next, past
<1>3. crowned \in Seq(DraftRow(ids, shares))
  <2>1. CASE next # <<>> /\ Controls(next) = {}
    <3> DEFINE row == [next[1] EXCEPT !.is_control = TRUE]
    <3>1. 1 \in DOMAIN next /\ next[1] \in DraftRow(ids, shares)
      BY <1>1, <2>1
    <3>2. row \in DraftRow(ids, shares)
      BY <3>1 DEF DraftRow
    <3>3. crowned = [next EXCEPT ![1] = row]
      BY <2>1
    <3> HIDE DEF row, crowned
    <3> QED BY <1>1, <3>1, <3>2, <3>3
  <2> QED BY <1>1, <2>1
<1>4. ASSUME FairSet(rows) PROVE SharedSet(recalcControlPercentage(crowned))
  <2>1. PICK control \in DOMAIN rows :
          /\ Controls(rows) = {control}
          /\ \A j \in DOMAIN rows \ {control} : rows[j].share >= 0
          /\ SharesOf(rows, DOMAIN rows \ {control}) <= Whole
    BY <1>4, Zenon DEF FairSet
  <2>2. control \in DOMAIN rows \ {i} /\ i \in DOMAIN rows \ {control}
    BY <2>1
  <2>3. PICK k \in DOMAIN next : past[k] = control
    BY <1>1, <2>2
  <2>4. Controls(next) = {k}
    <3>1. rows[control].is_control
      BY <2>1 DEF Controls
    <3>2. ASSUME NEW j \in DOMAIN next, next[j].is_control PROVE j = k
      <4>1. past[j] \in Controls(rows)
        BY <1>1, <3>2 DEF Controls
      <4> QED BY <1>1, <2>1, <2>3, <4>1
    <3> QED BY <1>1, <2>3, <3>1, <3>2 DEF Controls
  <2>5. crowned = next
    BY <2>4
  <2> DEFINE S == DOMAIN next \ {k}
             rest == (DOMAIN rows \ {control}) \ {i}
             v == [j \in DOMAIN next |-> next[j].share]
             w == [j \in DOMAIN rows |-> rows[j].share]
  <2>6. {past[j] : j \in S} = rest
    BY <1>1, <2>3
  <2>7. IsFiniteSet(S) /\ SharesOf(next, S) \in Int
    BY <1>1, SharesNat
  <2>8. DOMAIN past = 1..(Len(rows) - 1)
    BY DEF past, Past
  <2> DEFINE at == past
  <2>9. \A x \in S : v[x] = w[at[x]] /\ v[x] \in Int
    BY <1>1, RowsOf
  <2>11. SharesOf(next, S) = SharesOf(rows, rest)
    <3> SUFFICES SumFunctionOnSet(v, S) = SumFunctionOnSet(w, rest)
      BY DEF SharesOf
    <3>1. \A x, y \in S : past[x] = past[y] => x = y
      BY <1>1
    <3> HIDE DEF v, w, S, rest
    <3>2. SumFunctionOnSet(v, S) = SumFunctionOnSet(w, {past[x] : x \in S})
      BY <2>7, <2>9, <3>1, SumImage
    <3> QED BY <2>6, <3>2, Zenon
  <2>12. SharesOf(rows, DOMAIN rows \ {control}) = SharesOf(rows, rest) + rows[i].share
    BY <2>2, SharesSplit
  <2>13. SharesOf(rows, DOMAIN rows \ {control}) <= Whole
    BY <2>1
  <2>14. rows[i].share \in Nat
    BY <2>1, <2>2, RowsOf
  <2> HIDE DEF S, rest
  <2>15. SharesOf(next, S) <= Whole
    BY <2>7, <2>11, <2>12, <2>13, <2>14, WholeAssumption
  <2>16. \A j \in DOMAIN next \ {k} : next[j].share >= 0
    BY <1>1, <2>1, <2>3
  <2>17. FairSet(next)
    BY <2>4, <2>15, <2>16 DEF FairSet, S
  <2> QED BY <1>1, <2>5, <2>17, RecalcWhole
<1> HIDE DEF crowned
<1>5. recalcControlPercentage(crowned) \in Seq(DraftRow(ids, shares))
  BY <1>3, RecalcTyped
<1> QED BY <1>2, <1>4, <1>5

(* The page's lists are lists.                                              *)
LEMMA RulesSame ==
  /\ \A Of, Rows : Rules!ListOf(Of, Rows) = ListOf(Of, Rows)
  /\ \A rows : Rules!List(rows) = List(rows)
  /\ \A lists, live, of, at, stored, names : Rules!Refetch(lists, live, of, at, stored, names) = Refetch(lists, live, of, at, stored, names)
  /\ \A lists, names : Rules!ExcuseAll(lists, names) = ExcuseAll(lists, names)
  /\ \A lists, live : Rules!Room(lists, live) = Room(lists, live)
  /\ \A lists, live : Rules!LoadsOf(lists, live) = LoadsOf(lists, live)
  /\ \A list, rows, excused : Rules!Replace(list, rows, excused) = Replace(list, rows, excused)
  /\ \A list, rows, excused : Rules!Patch(list, rows, excused) = Patch(list, rows, excused)
  /\ \A list, i, rows : Rules!Read(list, i, rows) = Read(list, i, rows)
  /\ \A list, i : Rules!Unanswered(list, i) = Unanswered(list, i)
  /\ \A list, i, at : Rules!Land(list, i, at) = Land(list, i, at)
  /\ \A list, i, rows : Rules!FailTo(list, i, rows) = FailTo(list, i, rows)
  /\ \A list, stored : Rules!Settled(list, stored) = Settled(list, stored)
  BY DEF Load, Rules!Load, ListOf, Rules!ListOf, List, Rules!List, Overtaken, Rules!Overtaken,
         Fetch, Rules!Fetch, Replace, Rules!Replace, Patch, Rules!Patch, Read, Rules!Read,
         Unanswered, Rules!Unanswered, Settle, Rules!Settle, Land, Rules!Land, FailTo, Rules!FailTo,
         Excuse, Rules!Excuse, Refetch, Rules!Refetch, ExcuseAll, Rules!ExcuseAll, LoadsOf,
         Rules!LoadsOf, Room, Rules!Room, Settled, Rules!Settled

(* So are its variant editor's rows.                                        *)
LEMMA RulesSums ==
  /\ \A w, S : Rules!SumFunctionOnSet(w, S) = SumFunctionOnSet(w, S)
  /\ \A S : Rules!Cardinality(S) = Cardinality(S)
  /\ \A S : Rules!Min(S) = Min(S)
<1>1. \A w, S : Rules!SumFunctionOnSet(w, S) = SumFunctionOnSet(w, S)
  BY SumIs DEF Rules!SumFunctionOnSet, Rules!FoldFunctionOnSet, Rules!MapThenFoldSet, SumsOf, Sums, Chosen
<1>2. \A S : Rules!Cardinality(S) = Cardinality(S)
  BY DEF Rules!Cardinality, Cardinality
<1>3. \A S : Rules!Min(S) = Min(S)
  BY DEF Rules!Min, Min
<1> QED BY <1>1, <1>2, <1>3

(* The editor of the rules page is the editor above.                        *)
LEMMA RulesDrafts ==
  /\ \A rows, indices : Rules!SharesOf(rows, indices) = SharesOf(rows, indices)
  /\ \A rows : Rules!Controls(rows) = Controls(rows)
  /\ \A rows, id : Rules!AddRow(rows, id) = AddRow(rows, id)
  /\ \A rows, i : Rules!RemoveRow(rows, i) = RemoveRow(rows, i)
  /\ \A rows, i, name : Rules!RenameRow(rows, i, name) = RenameRow(rows, i, name)
  /\ \A rows, i, share : Rules!WeighRow(rows, i, share) = WeighRow(rows, i, share)
  /\ \A rows : Rules!NamesGiven(rows) = NamesGiven(rows)
  /\ \A rows : Rules!ValidSet(rows) = ValidSet(rows)
  /\ \A rows : Rules!Fair(rows) = FairSet(rows) /\ Rules!Shared(rows) = SharedSet(rows)
<1>1. \A rows, indices : Rules!SharesOf(rows, indices) = SharesOf(rows, indices)
  BY RulesSums DEF Rules!SharesOf, SharesOf
<1>2. \A rows : Rules!Controls(rows) = Controls(rows)
  BY DEF Rules!Controls, Controls
<1>3. \A n, most : Rules!Clamp(n, most) = Clamp(n, most)
  BY DEF Rules!Clamp, Clamp
<1>4. \A rows : Rules!recalcControlPercentage(rows) = recalcControlPercentage(rows)
  BY <1>1, <1>2, <1>3, RulesSums DEF Rules!recalcControlPercentage, recalcControlPercentage
<1>5. \A rows, i : Rules!getNonControlHeadroom(rows, i) = getNonControlHeadroom(rows, i)
  BY <1>1 DEF Rules!getNonControlHeadroom, getNonControlHeadroom
<1>6. \A rows, id : Rules!AddRow(rows, id) = AddRow(rows, id)
  BY <1>4, Zenon DEF Rules!AddRow, AddRow
<1>7. \A rows, i : Rules!RemoveRow(rows, i) = RemoveRow(rows, i)
  BY <1>2, <1>4 DEF Rules!RemoveRow, RemoveRow
<1>8. \A rows, i, name : Rules!RenameRow(rows, i, name) = RenameRow(rows, i, name)
  BY <1>4 DEF Rules!RenameRow, RenameRow
<1>9. \A rows, i, share : Rules!WeighRow(rows, i, share) = WeighRow(rows, i, share)
  BY <1>3, <1>4, <1>5 DEF Rules!WeighRow, WeighRow
<1>10. \A rows : Rules!NamesGiven(rows) = NamesGiven(rows)
  BY DEF Rules!NamesGiven, NamesGiven
<1>11. \A rows : Rules!ValidSet(rows) = ValidSet(rows)
  BY <1>1, <1>2, RulesSums DEF Rules!ValidSet, ValidSet
<1>12. \A rows : Rules!Fair(rows) = FairSet(rows)
  BY <1>1, <1>2 DEF Rules!Fair, FairSet
<1>13. \A rows : Rules!Shared(rows) = SharedSet(rows)
  BY <1>1, <1>12 DEF Rules!Shared, SharedSet
<1> QED BY <1>1, <1>2, <1>6, <1>7, <1>8, <1>9, <1>10, <1>11, <1>12, <1>13

-----------------------------------------------------------------------------
(* The rules page: what is stored, shown and sent is sound                  *)

(* A rollout has a variant and a share or neither.                          *)
SoundRule(rule) == rule.variant = None <=> rule.share = None

SoundData ==
  {d \in Rules!Data : (\A rule \in d.rules : SoundRule(rule)) /\ \A c \in d.conditions : c.attribute # ""}

RulesLists(lists) == ListsIn(lists, {"data"}, {Flag}, [data |-> SoundData])

(* The rule dialog is open on the rule being edited, the condition dialog on *)
(* the condition or on the rule to get one; a dialog that is not open leaves *)
(* nothing behind for the next one.                                          *)
SoundDialogs(p) ==
  /\ IF p.dialog = "rule" THEN p.editingRule = p.opened ELSE p.editingRule = None
  /\ IF p.dialog = "condition" THEN p.opened = IF p.editingCondition # None THEN p.editingCondition ELSE p.selectedRule
     ELSE p.editingCondition = None /\ p.selectedRule = None

(* What a dialog was opened on is sound; the editor holds the fair set it    *)
(* was opened on, or one that shares all of the weight.                      *)
SoundRows(p) ==
  /\ p.editingRule # None => SoundRule(p.editingRule)
  /\ p.editingCondition # None => p.editingCondition.attribute # ""
  /\ \A i \in DOMAIN p.variantsOpened : p.variantsOpened[i].id \in p.originalVariantIds
  /\ FairSet(p.variantsOpened) => p.variantDrafts = p.variantsOpened \/ SharedSet(p.variantDrafts)

RulesPageOK(p) ==
  /\ p \in Rules!Page /\ RulesLists(p.lists)
  /\ SoundDialogs(p) /\ SoundRows(p)

SoundCall(c) ==
  /\ c \in Rules!Call
  /\ c.op = "saveRule" => SoundRule(c.with)

RulesServerOK(s) ==
  /\ s \in Rules!Server
  /\ [multivariate |-> s.multivariate, variants |-> s.variants, rules |-> s.rules, conditions |-> s.conditions]
       \in SoundData

(* The list shows what is stored, or a call that was carried out is about to *)
(* load it again.                                                            *)
RulesShown ==
  \/ Current(page.lists["data"], [flag \in {Flag} |-> Rules!Stored], Flag)
  \/ \E c \in flight : c.state = "done"

RulesInv ==
  /\ RulesServerOK(server) /\ RulesPageOK(page)
  /\ \A c \in flight : SoundCall(c)
  /\ RulesShown

(* What a call may not do.                                                  *)
RulesSafe == Rules!SavesOpened /\ Rules!KeepsUntouched /\ Rules!SavesWhole

(* Sequences of the members of a larger set.                                *)
LEMMA MoreSequences == ASSUME NEW S, NEW T, S \subseteq T PROVE Seq(S) \subseteq Seq(T)
<1> SUFFICES ASSUME NEW s \in Seq(S) PROVE s \in Seq(T)
  OBVIOUS
<1>1. \A i \in 1..Len(s) : s[i] \in T
  OBVIOUS
<1> QED BY <1>1

(* A sequence of one.                                                       *)
LEMMA LoneItem == ASSUME NEW S, NEW x \in S PROVE <<x>> \in Seq(S)
  OBVIOUS

(* The empty forms are forms.                                               *)
LEMMA FormsTyped == Rules!NoRule \in Rules!RuleFormRow /\ Rules!NoCondition \in Rules!ConditionFormRow
<1>1. Rules!NoRule \in Rules!RuleFormRow
  BY WholeAssumption DEF Rules!NoRule, Rules!RuleFormRow
<1>2. "" \in STRING /\ "EQUALS" \in STRING
  BY StringsAssumption, Zenon
<1>4. <<"">> \in Seq(STRING)
  BY <1>2, LoneItem, Zenon
<1> QED BY <1>1, <1>2, <1>4, Zenon DEF Rules!NoCondition, Rules!ConditionFormRow

(* Sound lists are lists.                                                   *)
LEMMA RulesListsTyped ==
  ASSUME NEW lists, RulesLists(lists)
  PROVE  lists \in [data : Rules!ListOf({Flag}, Rules!Data)]
<1>1. SoundData \subseteq Rules!Data
  BY Zenon DEF SoundData
<1>2. \A S, T : S \subseteq T => ListOf({Flag}, S) \subseteq ListOf({Flag}, T)
  <2> SUFFICES ASSUME NEW S, NEW T, S \subseteq T, NEW list \in ListOf({Flag}, S) PROVE list \in ListOf({Flag}, T)
    OBVIOUS
  <2>1. Load({Flag}, S) \subseteq Load({Flag}, T)
    BY DEF Load
  <2>2. Seq(Load({Flag}, S)) \subseteq Seq(Load({Flag}, T))
    BY <2>1, MoreSequences
  <2> QED BY <2>2 DEF ListOf
<1>3. lists = [n \in {"data"} |-> lists[n]] /\ lists["data"] \in ListOf({Flag}, SoundData)
  BY DEF RulesLists, ListsIn
<1>4. lists["data"] \in Rules!ListOf({Flag}, Rules!Data)
  BY <1>1, <1>2, <1>3, RulesSame
<1> QED BY <1>3, <1>4

(* A sound page stays so with other lists.                                  *)
LEMMA RulesListsSet ==
  ASSUME NEW p, RulesPageOK(p), NEW lists, RulesLists(lists)
  PROVE  RulesPageOK([p EXCEPT !.lists = lists]) /\ [p EXCEPT !.lists = lists].lists = lists
<1>1. lists \in [data : Rules!ListOf({Flag}, Rules!Data)]
  BY RulesListsTyped
<1>2. p \in Rules!Page
  BY DEF RulesPageOK
<1>3. [p EXCEPT !.lists = lists] \in Rules!Page /\ [p EXCEPT !.lists = lists].lists = lists
  BY <1>1, <1>2 DEF Rules!Page
<1>4. SoundDialogs([p EXCEPT !.lists = lists]) /\ SoundRows([p EXCEPT !.lists = lists])
  BY <1>2, Zenon DEF RulesPageOK, SoundDialogs, SoundRows, Rules!Page
<1> QED BY <1>3, <1>4 DEF RulesPageOK

(* What the page shows is sound.                                            *)
LEMMA RulesData ==
  ASSUME RulesInv
  PROVE  /\ Rules!data \in SoundData /\ Rules!data \in Rules!Data
         /\ \A rule \in Rules!data.rules : rule \in Rules!StrategyRule /\ SoundRule(rule)
         /\ \A c \in Rules!data.conditions : c \in Rules!Condition /\ c.attribute # ""
         /\ Rules!data.variants \in Seq(DraftRow(VariantIds, Int))
<1>1. page.lists["data"] \in ListOf({Flag}, SoundData)
  BY DEF RulesInv, RulesPageOK, RulesLists, ListsIn
<1>2. Rules!data \in SoundData
  BY <1>1 DEF Rules!data, ListOf
<1>3. Rules!data \in Rules!Data
  BY <1>2, Zenon DEF SoundData
<1>4. Rules!data.variants \in Seq(DraftRow(VariantIds, Int))
  BY <1>3 DEF Rules!Data, Rules!VariantRow, DraftRow
<1> QED BY <1>2, <1>3, <1>4, Zenon DEF SoundData, Rules!Data

(* A step that changes the dialogs alone.                                   *)
LEMMA RulesDialog ==
  ASSUME RulesInv, RulesPageOK(page'), page'.lists = page.lists, UNCHANGED <<server, flight>>
  PROVE  RulesInv' /\ RulesSafe
<1>1. RulesShown'
  BY DEF RulesInv, RulesShown, Rules!Stored
<1>2. Rules!Sent = {}
  BY DEF Rules!Sent
<1> QED BY <1>1, <1>2 DEF RulesInv, RulesSafe, Rules!SavesOpened, Rules!KeepsUntouched, Rules!SavesWhole

(* A step that sends a call.                                                *)
LEMMA RulesSend ==
  ASSUME RulesInv, NEW call, SoundCall(call), Rules!Send(call), UNCHANGED page,
         call.op = "saveRule" =>
           /\ call.rule = page.opened
           /\ /\ page.opened # None /\ page.ruleForm = Rules!RuleForm(page.opened)
              /\ page.opened.variant # None => Rules!data.multivariate
              => Rules!RuleRow(page.opened.id, call.with) = page.opened,
         call.op = "saveCondition" =>
           /\ page.opened = IF call.condition # None THEN call.condition ELSE call.rule
           /\ /\ page.editingCondition # None /\ page.conditionForm = Rules!ConditionForm(page.opened)
              /\ Rules!Formed(page.opened.operator, page.opened.value)
              => Rules!ConditionRow(page.opened.id, page.opened.rule, call.with) = page.opened,
         call.op = "saveVariants" /\ FairSet(page.variantsOpened) =>
           call.set = page.variantsOpened \/ SharedSet(call.set)
  PROVE  RulesInv' /\ RulesSafe
<1>1. flight' = flight \cup {call} /\ server' = server
  BY Zenon DEF Rules!Send
<1>2. RulesShown'
  BY <1>1, Zenon DEF RulesInv, RulesShown, Rules!Stored
<1>3. RulesInv'
  BY <1>1, <1>2, Zenon DEF RulesInv
<1>4. Rules!Sent \subseteq {call}
  BY <1>1, Zenon DEF Rules!Sent
<1>5. Rules!SavesOpened
  BY <1>4, Zenon DEF Rules!SavesOpened
<1>6. Rules!KeepsUntouched
  BY <1>4, Zenon DEF Rules!KeepsUntouched
<1>7. Rules!SavesWhole
  BY <1>4, RulesDrafts, Zenon DEF Rules!SavesWhole
<1> QED BY <1>3, <1>5, <1>6, <1>7, Zenon DEF RulesSafe

(* The rule dialog: opening, typing, closing and sending.                   *)
LEMMA RulesRuleDialog ==
  ASSUME RulesInv, Rules!RuleDialog
  PROVE  RulesInv' /\ RulesSafe
<1> DEFINE m == server.multivariate
<1>0. /\ page \in Rules!Page /\ RulesLists(page.lists) /\ SoundDialogs(page) /\ SoundRows(page)
      /\ page.ruleForm \in Rules!RuleFormRow /\ page.editingRule \in Rules!StrategyRule \cup {None}
  BY DEF RulesInv, RulesPageOK, Rules!Page
<1>a. Whole \in 0..Whole
  BY WholeAssumption
<1>1. CASE Rules!NewRule
  <2>1. RulesPageOK(page') /\ page'.lists = page.lists /\ UNCHANGED <<server, flight>>
    BY <1>0, <1>1, Zenon DEF Rules!NewRule, Rules!Dialog, RulesPageOK, SoundDialogs, SoundRows, Rules!Page
  <2> QED BY <2>1, RulesDialog
<1>2. CASE Rules!CloseRule
  <2>1. Rules!NoRule \in Rules!RuleFormRow
    BY FormsTyped
  <2>2. RulesPageOK(page') /\ page'.lists = page.lists /\ UNCHANGED <<server, flight>>
    BY <1>0, <1>2, <2>1, Zenon DEF Rules!CloseRule, Rules!Dialog, Rules!resetRuleForm, RulesPageOK,
       SoundDialogs, SoundRows, Rules!Page
  <2> QED BY <2>2, RulesDialog
<1>3. ASSUME NEW rule \in Rules!data.rules, Rules!handleEditRule(rule) PROVE RulesInv' /\ RulesSafe
  <2>1. rule \in Rules!StrategyRule /\ SoundRule(rule) /\ page.dialog = "none"
    BY <1>3, RulesData, Zenon DEF Rules!handleEditRule, Rules!RulesTable
  <2>2. Rules!RuleForm(rule) \in Rules!RuleFormRow
    BY <1>a, <2>1 DEF Rules!RuleForm, Rules!RuleFormRow, Rules!StrategyRule
  <2>3. /\ page' = [page EXCEPT !.dialog = "rule", !.editingRule = rule, !.ruleForm = Rules!RuleForm(rule), !.opened = rule]
        /\ UNCHANGED <<server, flight>>
    BY <1>3 DEF Rules!handleEditRule, Rules!Dialog
  <2>4. page' \in Rules!Page /\ page'.lists = page.lists
    BY <1>0, <2>1, <2>2, <2>3 DEF Rules!Page
  <2>5. SoundDialogs(page') /\ SoundRows(page')
    BY <1>0, <2>1, <2>3, Zenon DEF SoundDialogs, SoundRows, Rules!Page
  <2>6. RulesPageOK(page')
    BY <1>0, <2>4, <2>5 DEF RulesPageOK
  <2> QED BY <2>3, <2>4, <2>6, RulesDialog
<1>4. ASSUME NEW form \in RuleForms, Rules!ChangeRule(form) PROVE RulesInv' /\ RulesSafe
  <2>1. form \in Rules!RuleFormRow
    BY RulesAssumption, Zenon
  <2>2. RulesPageOK(page') /\ page'.lists = page.lists /\ UNCHANGED <<server, flight>>
    BY <1>0, <1>4, <2>1, Zenon DEF Rules!ChangeRule, Rules!Dialog, RulesPageOK, SoundDialogs, SoundRows,
       Rules!Page
  <2> QED BY <2>2, RulesDialog
<1>5. CASE Rules!handleSaveRule
  <2> DEFINE with == Rules!RuleOf(page.ruleForm, Rules!data.multivariate)
             call == [op |-> "saveRule", state |-> "sent", rule |-> page.editingRule, with |-> with]
  <2>2. /\ with \in [priority : Nat, variant : VariantIds \cup {None}, share : 0..Whole \cup {None}]
        /\ SoundRule(with)
    BY <1>0, RulesAssumption, Zenon DEF Rules!RuleOf, Rules!RuleFormRow, SoundRule
  <2>3. page.opened = page.editingRule
    BY <1>0, <1>5 DEF Rules!handleSaveRule, SoundDialogs
  <2>4. ASSUME page.opened # None, page.ruleForm = Rules!RuleForm(page.opened),
               page.opened.variant # None => Rules!data.multivariate
        PROVE  Rules!RuleRow(page.opened.id, with) = page.opened
    <3>1. page.opened \in Rules!StrategyRule /\ SoundRule(page.opened)
      BY <1>0, <2>3, <2>4, Zenon DEF SoundRows
    <3>2. CASE page.opened.variant # None
      BY <2>4, <3>1, <3>2 DEF SoundRule, Rules!RuleOf, Rules!RuleForm, Rules!RuleRow, Rules!StrategyRule
    <3>3. CASE page.opened.variant = None
      BY <2>4, <3>1, <3>3 DEF SoundRule, Rules!RuleOf, Rules!RuleForm, Rules!RuleRow, Rules!StrategyRule
    <3> QED BY <3>2, <3>3
  <2>5. Rules!Send(call) /\ UNCHANGED page
    BY <1>5 DEF Rules!handleSaveRule
  <2> HIDE DEF with
  <2>6. call \in Rules!Call /\ SoundCall(call) /\ call.op = "saveRule" /\ call.rule = page.editingRule /\ call.with = with
    BY <1>0, <2>2 DEF Rules!Call, Rules!CallStates, SoundCall
  <2> HIDE DEF call
  <2> QED BY <2>3, <2>4, <2>5, <2>6, RulesSend, Zenon
<1>6. ASSUME NEW rule \in Rules!data.rules, Rules!handleDeleteRule(rule) PROVE RulesInv' /\ RulesSafe
  <2> DEFINE call == [op |-> "deleteRule", state |-> "sent", rule |-> rule]
  <2>1. rule \in Rules!StrategyRule
    BY RulesData, Zenon
  <2>2. SoundCall(call) /\ call.op = "deleteRule"
    BY <2>1 DEF Rules!Call, Rules!CallStates, SoundCall
  <2>3. Rules!Send(call) /\ UNCHANGED page
    BY <1>6 DEF Rules!handleDeleteRule
  <2> HIDE DEF call
  <2> QED BY <2>2, <2>3, RulesSend, Zenon
<1> QED BY <1>1, <1>2, <1>3, <1>4, <1>5, <1>6 DEF Rules!RuleDialog

-----------------------------------------------------------------------------
(* What was typed is parsed to a value, or to no number.                    *)
LEMMA ParsedTyped ==
  ASSUME NEW operator, NEW text \in Seq(STRING) PROVE Rules!Parsed(operator, text) \in Rules!Value \cup {Rules!NoNumber}
<1>1. Rules!NumberOf(text) \in Rules!Numerals \cup {Rules!NaN} /\ Rules!NumberOrZero(text) \in Rules!Numerals
  BY Zenon DEF Rules!NumberOf, Rules!NumberOrZero, Rules!NaN, Rules!Numerals
<1>2. CASE operator = "IN_LIST"
  BY <1>2 DEF Rules!Parsed, Rules!Value
<1>3. CASE operator = "PERCENTAGE_SPLIT"
  BY <1>1, <1>3 DEF Rules!Parsed, Rules!Value
<1>4. CASE operator \in {"GREATER_THAN", "LESS_THAN"}
  BY <1>1, <1>4 DEF Rules!Parsed, Rules!Value, Rules!NoNumber
<1>5. CASE operator \notin {"IN_LIST", "PERCENTAGE_SPLIT", "GREATER_THAN", "LESS_THAN"}
  BY <1>5 DEF Rules!Parsed, Rules!Value
<1> QED BY <1>2, <1>3, <1>4, <1>5

(* A value the dialog may have written is shown as what parses to it.       *)
LEMMA FormedKept ==
  ASSUME NEW operator, NEW value \in Rules!Value, Rules!Formed(operator, value)
  PROVE  Rules!Parsed(operator, Rules!Shown(value)) = value
<1>1. CASE operator = "IN_LIST"
  <2>1. value.kind = "list" /\ value.plain = TRUE /\ value.words # <<>>
    BY <1>1 DEF Rules!Formed, Rules!Value
  <2>2. value = [kind |-> "list", words |-> value.words, plain |-> TRUE]
    BY <2>1 DEF Rules!Value
  <2>3. Rules!Shown(value) = value.words
    BY <2>1 DEF Rules!Shown
  <2> QED BY <1>1, <2>2, <2>3 DEF Rules!Parsed
<1>2. CASE operator \in {"PERCENTAGE_SPLIT", "GREATER_THAN", "LESS_THAN"}
  <2>1. /\ value.kind = IF operator = "PERCENTAGE_SPLIT" THEN "split" ELSE "number"
        /\ value = [kind |-> value.kind, number |-> value.number] /\ value.number \in Rules!Numerals
    BY <1>2 DEF Rules!Formed, Rules!Value
  <2>2. Rules!Shown(value) = <<value.number>>
    BY <2>1 DEF Rules!Shown
  <2>3. Rules!NumberOf(<<value.number>>) = value.number /\ value.number # Rules!NaN
    <3>1. "0" # "" /\ "7" # "" /\ "null" \notin Rules!Numerals
      BY Zenon DEF Rules!Numerals
    <3>2. Len(<<value.number>>) = 1 /\ <<value.number>>[1] = value.number
      OBVIOUS
    <3>3. <<value.number>> # <<"">>
      BY <2>1, <3>1, Zenon DEF Rules!Numerals
    <3> QED BY <2>1, <3>1, <3>2, <3>3, Zenon DEF Rules!NumberOf, Rules!NaN
  <2>4. Rules!NumberOrZero(<<value.number>>) = value.number
    BY <2>3, Zenon DEF Rules!NumberOrZero
  <2>5. Rules!Parsed(operator, <<value.number>>) = [kind |-> value.kind, number |-> value.number]
    BY <1>2, <2>1, <2>3, <2>4 DEF Rules!Parsed
  <2> QED BY <2>1, <2>2, <2>5, Zenon
<1>3. CASE operator \notin {"IN_LIST", "PERCENTAGE_SPLIT", "GREATER_THAN", "LESS_THAN"}
  <2>1. value.kind = "text"
    BY <1>3 DEF Rules!Formed
  <2>2. value = [kind |-> "text", text |-> value.text]
    BY <2>1 DEF Rules!Value
  <2>3. Rules!Shown(value) = value.text
    BY <2>1 DEF Rules!Shown
  <2> QED BY <1>3, <2>2, <2>3 DEF Rules!Parsed
<1> QED BY <1>1, <1>2, <1>3

(* A value is shown as strings.                                             *)
LEMMA ShownTyped == ASSUME NEW value \in Rules!Value PROVE Rules!Shown(value) \in Seq(STRING)
<1>1. (\A x \in Rules!Numerals : x \in STRING) /\ "" \in STRING /\ "[object Object]" \in STRING
  BY StringsAssumption, Zenon DEF Rules!Numerals
<1>2. CASE value \in [kind : {"list"}, words : Seq(STRING), plain : BOOLEAN]
  <2>1. <<"">> \in Seq(STRING)
    BY <1>1, LoneItem, Zenon
  <2>2. value.kind = "list" /\ value.words \in Seq(STRING)
    BY <1>2
  <2>3. Rules!Shown(value) = IF value.words = <<>> THEN <<"">> ELSE value.words
    BY <2>2 DEF Rules!Shown
  <2> QED BY <2>1, <2>2, <2>3, Zenon
<1>3. CASE value \in [kind : {"split", "number"}, number : Rules!Numerals]
  <2>1. Rules!Shown(value) = <<value.number>> /\ value.number \in STRING
    BY <1>1, <1>3 DEF Rules!Shown
  <2> QED BY <2>1
<1>4. CASE value \in [kind : {"text"}, text : Seq(STRING)]
  BY <1>4 DEF Rules!Shown
<1>5. CASE value \in [kind : {"wrapped"}, text : Seq(STRING)]
  <2>1. Rules!Shown(value) = <<"[object Object]">>
    BY <1>5 DEF Rules!Shown
  <2> QED BY <1>1, <2>1, LoneItem, Zenon
<1>6. value \in [kind : {"text", "wrapped"}, text : Seq(STRING)] => value.kind = "text" \/ value.kind = "wrapped"
  OBVIOUS
<1> QED BY <1>2, <1>3, <1>4, <1>5, <1>6 DEF Rules!Value

(* So a form is sent as a condition.                                        *)
LEMMA ConditionTyped ==
  ASSUME NEW form \in Rules!ConditionFormRow
  PROVE  Rules!ConditionOf(form) \in [attribute : STRING, operator : STRING, value : Rules!Value \cup {Rules!NoNumber}]
<1>1. Rules!Parsed(form.operator, form.text) \in Rules!Value \cup {Rules!NoNumber}
  BY ParsedTyped DEF Rules!ConditionFormRow
<1>2. Rules!SentAttribute(form) \in STRING
  BY StringsAssumption, Zenon DEF Rules!SentAttribute, Rules!ConditionFormRow
<1> QED BY <1>1, <1>2 DEF Rules!ConditionOf, Rules!ConditionFormRow

(* A function on the first places is a sequence.                            *)
LEMMA RowsAre ==
  ASSUME NEW S, NEW n \in Nat, NEW f, f = [i \in 1..n |-> f[i]], \A i \in 1..n : f[i] \in S
  PROVE  f \in Seq(S)
  OBVIOUS

(* The condition dialog: opening, typing, closing and sending.              *)
LEMMA RulesConditionDialog ==
  ASSUME RulesInv, Rules!ConditionDialog
  PROVE  RulesInv' /\ RulesSafe
<1> DEFINE m == server.multivariate
<1>0. /\ page \in Rules!Page /\ RulesLists(page.lists) /\ SoundDialogs(page) /\ SoundRows(page)
      /\ page.conditionForm \in Rules!ConditionFormRow /\ page.editingCondition \in Rules!Condition \cup {None}
      /\ page.selectedRule \in Rules!StrategyRule \cup {None}
  BY DEF RulesInv, RulesPageOK, Rules!Page
<1>1. CASE Rules!CloseCondition
  <2>1. RulesPageOK(page') /\ page'.lists = page.lists /\ UNCHANGED <<server, flight>>
    BY <1>0, <1>1, Zenon DEF Rules!CloseCondition, Rules!Dialog, RulesPageOK, SoundDialogs, SoundRows,
       Rules!Page
  <2> QED BY <2>1, RulesDialog
<1>2. ASSUME NEW rule \in Rules!data.rules, Rules!handleAddCondition(rule) PROVE RulesInv' /\ RulesSafe
  <2>1. rule \in Rules!StrategyRule /\ page.dialog = "none"
    BY <1>2, RulesData, Zenon DEF Rules!handleAddCondition, Rules!RulesTable
  <2>2. Rules!NoCondition \in Rules!ConditionFormRow
    BY FormsTyped
  <2>3. /\ page' = [page EXCEPT !.dialog = "condition", !.selectedRule = rule, !.editingCondition = None,
                         !.conditionForm = Rules!NoCondition, !.opened = rule]
        /\ UNCHANGED <<server, flight>>
    BY <1>2 DEF Rules!handleAddCondition, Rules!Dialog
  <2>4. page' \in Rules!Page /\ page'.lists = page.lists
    BY <1>0, <2>1, <2>2, <2>3 DEF Rules!Page
  <2>5. SoundDialogs(page') /\ SoundRows(page')
    BY <1>0, <2>1, <2>3, Zenon DEF SoundDialogs, SoundRows, Rules!Page
  <2>6. RulesPageOK(page')
    BY <1>0, <2>4, <2>5 DEF RulesPageOK
  <2> QED BY <2>3, <2>4, <2>6, RulesDialog
<1>3. ASSUME NEW c \in Rules!data.conditions, Rules!handleEditCondition(c) PROVE RulesInv' /\ RulesSafe
  <2>1. c \in Rules!Condition /\ c.attribute # "" /\ page.dialog = "none"
    BY <1>3, RulesData, Zenon DEF Rules!handleEditCondition, Rules!ConditionsTable
  <2>2. Rules!ConditionForm(c) \in Rules!ConditionFormRow
    BY <2>1, ShownTyped, Zenon DEF Rules!ConditionForm, Rules!ConditionFormRow, Rules!Condition
  <2>3. /\ page' = [page EXCEPT !.dialog = "condition", !.editingCondition = c,
                         !.conditionForm = Rules!ConditionForm(c), !.opened = c]
        /\ UNCHANGED <<server, flight>>
    BY <1>3 DEF Rules!handleEditCondition, Rules!Dialog
  <2>4. page' \in Rules!Page /\ page'.lists = page.lists
    BY <1>0, <2>1, <2>2, <2>3, Zenon DEF Rules!Page
  <2>5. SoundDialogs(page') /\ SoundRows(page')
    <3>1. c # None
      BY <2>1, RulesAssumption, Zenon
    <3> QED BY <1>0, <2>1, <2>3, <3>1, Zenon DEF SoundDialogs, SoundRows, Rules!Page
  <2>6. RulesPageOK(page')
    BY <1>0, <2>4, <2>5 DEF RulesPageOK
  <2> QED BY <2>3, <2>4, <2>6, RulesDialog
<1>4. ASSUME NEW form \in ConditionForms, Rules!ChangeCondition(form) PROVE RulesInv' /\ RulesSafe
  <2>1. form \in Rules!ConditionFormRow
    BY RulesAssumption, Zenon
  <2>2. RulesPageOK(page') /\ page'.lists = page.lists /\ UNCHANGED <<server, flight>>
    BY <1>0, <1>4, <2>1, Zenon DEF Rules!ChangeCondition, Rules!Dialog, RulesPageOK, SoundDialogs,
       SoundRows, Rules!Page
  <2> QED BY <2>2, RulesDialog
<1>5. CASE Rules!handleCreateCondition
  <2> DEFINE with == Rules!ConditionOf(page.conditionForm)
             call == [op |-> "saveCondition", state |-> "sent", condition |-> page.editingCondition,
                      rule |-> page.selectedRule, with |-> with]
  <2>1. with \in [attribute : STRING, operator : STRING, value : Rules!Value \cup {Rules!NoNumber}]
    BY <1>0, ConditionTyped
  <2>2. page.opened = IF page.editingCondition # None THEN page.editingCondition ELSE page.selectedRule
    BY <1>0, <1>5 DEF Rules!handleCreateCondition, SoundDialogs
  <2>3. ASSUME page.editingCondition # None, page.conditionForm = Rules!ConditionForm(page.opened),
               Rules!Formed(page.opened.operator, page.opened.value)
        PROVE  Rules!ConditionRow(page.opened.id, page.opened.rule, with) = page.opened
    <3>1. page.opened \in Rules!Condition /\ page.opened.attribute # ""
      BY <1>0, <2>2, <2>3, Zenon DEF SoundRows
    <3>2. with = [attribute |-> page.opened.attribute, operator |-> page.opened.operator, value |-> page.opened.value]
      <4> DEFINE row == page.opened
                 form == Rules!ConditionForm(row)
      <4>1. form.attribute = row.attribute /\ form.operator = row.operator /\ form.text = Rules!Shown(row.value)
        BY DEF Rules!ConditionForm
      <4> HIDE DEF form, row
      <4>2. Rules!SentAttribute(form) = row.attribute
        BY <3>1, <4>1, Zenon DEF Rules!SentAttribute, row
      <4>3. Rules!Parsed(form.operator, form.text) = row.value
        <5>1. row.value \in Rules!Value
          BY <3>1 DEF row, Rules!Condition
        <5> QED BY <2>3, <4>1, <5>1, FormedKept, Zenon DEF row
      <4> QED BY <2>3, <4>1, <4>2, <4>3 DEF Rules!ConditionOf, form, row
    <3> HIDE DEF with
    <3> QED BY <3>1, <3>2, Zenon DEF Rules!ConditionRow, Rules!Condition
  <2>4. Rules!Send(call) /\ UNCHANGED page /\ (page.editingCondition # None \/ page.selectedRule # None)
    BY <1>5 DEF Rules!handleCreateCondition
  <2> HIDE DEF with
  <2>5. /\ call \in Rules!Call /\ call.op = "saveCondition" /\ call.condition = page.editingCondition
        /\ call.rule = page.selectedRule /\ call.with = with
    BY <1>0, <2>1, <2>4 DEF Rules!Call, Rules!CallStates
  <2> HIDE DEF call
  <2>6. SoundCall(call)
    BY <2>1, <2>5 DEF SoundCall
  <2> QED BY <2>2, <2>3, <2>4, <2>5, <2>6, RulesSend, Zenon
<1>6. ASSUME NEW c \in Rules!data.conditions, Rules!handleDeleteCondition(c) PROVE RulesInv' /\ RulesSafe
  <2> DEFINE call == [op |-> "deleteCondition", state |-> "sent", condition |-> c]
  <2>1. c \in Rules!Condition
    BY RulesData, Zenon
  <2>2. SoundCall(call) /\ call.op = "deleteCondition"
    BY <2>1 DEF Rules!Call, Rules!CallStates, SoundCall
  <2>3. Rules!Send(call) /\ UNCHANGED page
    BY <1>6 DEF Rules!handleDeleteCondition
  <2> HIDE DEF call
  <2> QED BY <2>2, <2>3, RulesSend, Zenon
<1> QED BY <1>1, <1>2, <1>3, <1>4, <1>5, <1>6 DEF Rules!ConditionDialog

(* The editor holds what it was opened on, or shares all of its weight.      *)
LEMMA RulesEditing ==
  ASSUME RulesInv, NEW drafts \in Seq(DraftRow(VariantIds \cup {None}, Int)), NEW ids \in SUBSET VariantIds,
         NEW opened \in Seq(DraftRow(VariantIds, Int)), NEW editing \in BOOLEAN,
         \A i \in DOMAIN opened : opened[i].id \in ids,
         FairSet(opened) => drafts = opened \/ SharedSet(drafts),
         page' = [page EXCEPT !.isEditingVariants = editing, !.variantDrafts = drafts, !.originalVariantIds = ids,
                              !.variantsOpened = opened],
         UNCHANGED <<server, flight>>
  PROVE  RulesInv' /\ RulesSafe
<1>1. /\ page \in Rules!Page /\ RulesLists(page.lists) /\ SoundDialogs(page)
      /\ SoundRows(page)
  BY DEF RulesInv, RulesPageOK
<1>2. page' \in Rules!Page /\ page'.lists = page.lists
  BY <1>1, Zenon DEF Rules!Page, Rules!VariantRow, DraftRow
<1>3. SoundDialogs(page') /\ SoundRows(page')
  BY <1>1, Zenon DEF SoundDialogs, SoundRows, Rules!Page
<1>4. RulesPageOK(page')
  BY <1>1, <1>2, <1>3 DEF RulesPageOK
<1> QED BY <1>2, <1>4, RulesDialog

(* An edit leaves the drafts drafts, and of a fair set shares all of it.     *)
LEMMA RulesEdited ==
  ASSUME RulesInv, NEW drafts \in Rules!Edits(page.variantDrafts)
  PROVE  /\ drafts \in Seq(DraftRow(VariantIds \cup {None}, Int))
         /\ FairSet(page.variantDrafts) => SharedSet(drafts)
<1> DEFINE rows == page.variantDrafts
<1>1. rows \in Seq(DraftRow(VariantIds \cup {None}, Int))
  BY DEF RulesInv, RulesPageOK, Rules!Page, Rules!VariantRow, DraftRow
<1> HIDE DEF rows
<1>2. \/ drafts = AddRow(rows, None)
      \/ \E i \in DOMAIN rows, name \in RuleNames : drafts = RenameRow(rows, i, name)
      \/ \E i \in DOMAIN rows \ Controls(rows) : drafts = RemoveRow(rows, i)
      \/ \E i \in DOMAIN rows \ Controls(rows), share \in Weights : drafts = WeighRow(rows, i, share)
  BY RulesDrafts DEF Rules!Edits, rows
<1>3. RuleNames \subseteq STRING /\ Weights \subseteq Int /\ None \in VariantIds \cup {None} /\ Int \in Shares
  BY RulesAssumption, Zenon DEF Shares
<1>4. drafts \in Seq(DraftRow(VariantIds \cup {None}, Int)) /\ (FairSet(rows) => SharedSet(drafts))
  <2>1. CASE drafts = AddRow(rows, None)
    BY <1>1, <1>3, <2>1, AddedRow
  <2>2. CASE \E i \in DOMAIN rows, name \in RuleNames : drafts = RenameRow(rows, i, name)
    BY <1>1, <1>3, <2>2, RenamedRow
  <2>3. CASE \E i \in DOMAIN rows \ Controls(rows) : drafts = RemoveRow(rows, i)
    BY <1>1, <1>3, <2>3, RemovedRow
  <2>4. CASE \E i \in DOMAIN rows \ Controls(rows), share \in Weights : drafts = WeighRow(rows, i, share)
    BY <1>1, <1>3, <2>4, WeighedRow
  <2> QED BY <1>2, <2>1, <2>2, <2>3, <2>4
<1> QED BY <1>4 DEF rows

(* The variant editor: opening, editing, closing and saving.                *)
LEMMA RulesVariantEditor ==
  ASSUME RulesInv, Rules!VariantEditor
  PROVE  RulesInv' /\ RulesSafe
<1> DEFINE rows == page.variantDrafts
           opened == page.variantsOpened
<1>0. /\ page \in Rules!Page /\ SoundRows(page) /\ rows \in Seq(DraftRow(VariantIds \cup {None}, Int))
      /\ opened \in Seq(DraftRow(VariantIds, Int)) /\ Int \in Shares
      /\ page.originalVariantIds \in SUBSET VariantIds /\ page.isEditingVariants \in BOOLEAN
  BY DEF RulesInv, RulesPageOK, Rules!Page, Rules!VariantRow, DraftRow, Shares
<1>a. /\ \A i \in DOMAIN opened : opened[i].id \in page.originalVariantIds
      /\ FairSet(opened) => rows = opened \/ SharedSet(rows)
  BY <1>0, Zenon DEF SoundRows
<1>b. DraftRow(VariantIds, Int) \subseteq DraftRow(VariantIds \cup {None}, Int)
  BY DEF DraftRow
<1>1. CASE Rules!startEditingVariants
  <2> DEFINE drafts == Rules!data.variants
             ids == {drafts[i].id : i \in DOMAIN drafts}
  <2>1. drafts \in Seq(DraftRow(VariantIds, Int))
    BY RulesData, Zenon
  <2>2. drafts \in Seq(DraftRow(VariantIds \cup {None}, Int))
    BY <1>b, <2>1, MoreSequences
  <2>3. /\ page' = [page EXCEPT !.isEditingVariants = TRUE, !.variantDrafts = drafts, !.originalVariantIds = ids,
                                !.variantsOpened = drafts]
        /\ UNCHANGED <<server, flight>>
    BY <1>1 DEF Rules!startEditingVariants, Rules!Dialog
  <2> HIDE DEF drafts
  <2>4. ids \in SUBSET VariantIds
    <3>1. \A i \in DOMAIN drafts : drafts[i] \in DraftRow(VariantIds, Int)
      BY <1>0, <2>1, RowsOf
    <3> QED BY <3>1 DEF DraftRow
  <2>5. \A i \in DOMAIN drafts : drafts[i].id \in ids
    OBVIOUS
  <2> HIDE DEF ids
  <2> QED BY <2>1, <2>2, <2>3, <2>4, <2>5, RulesEditing, Zenon
<1>2. CASE Rules!EditDrafts
  <2>1. PICK drafts \in Rules!Edits(rows) : page' = [page EXCEPT !.variantDrafts = drafts] /\ UNCHANGED <<server, flight>>
    BY <1>2 DEF Rules!EditDrafts, Rules!Dialog
  <2>2. page' = [page EXCEPT !.isEditingVariants = page.isEditingVariants, !.variantDrafts = drafts,
                             !.originalVariantIds = page.originalVariantIds, !.variantsOpened = page.variantsOpened]
    BY <1>0, <2>1 DEF Rules!Page
  <2>3. drafts \in Seq(DraftRow(VariantIds \cup {None}, Int)) /\ (FairSet(rows) => SharedSet(drafts))
    BY <2>1, RulesEdited
  <2>4. FairSet(page.variantsOpened) => drafts = page.variantsOpened \/ SharedSet(drafts)
    BY <1>a, <2>3, Zenon DEF SharedSet
  <2>5. UNCHANGED <<server, flight>>
    BY <2>1
  <2> HIDE DEF rows
  <2> QED BY <1>0, <1>a, <2>2, <2>3, <2>4, <2>5, RulesEditing, Zenon
<1>3. CASE Rules!CancelVariants
  <2>1. /\ page' = [page EXCEPT !.isEditingVariants = FALSE, !.variantDrafts = <<>>, !.originalVariantIds = {},
                                !.variantsOpened = <<>>]
        /\ UNCHANGED <<server, flight>>
    BY <1>3 DEF Rules!CancelVariants, Rules!Dialog
  <2>2. <<>> \in Seq(DraftRow(VariantIds \cup {None}, Int)) /\ <<>> \in Seq(DraftRow(VariantIds, Int)) /\ DOMAIN <<>> = {}
    OBVIOUS
  <2> QED BY <2>1, <2>2, RulesEditing, Zenon
<1>4. CASE Rules!handleSaveVariants
  <2> DEFINE set == [i \in DOMAIN rows |-> IF rows[i].id \in page.originalVariantIds THEN rows[i] ELSE [rows[i] EXCEPT !.id = None]]
             call == [op |-> "saveVariants", state |-> "sent", set |-> set]
  <2>1. Rules!Send(call) /\ UNCHANGED page
    BY <1>4, Zenon DEF Rules!handleSaveVariants
  <2>2. \A i \in DOMAIN rows : /\ set[i] \in DraftRow(VariantIds \cup {None}, Int)
                               /\ set[i].share = rows[i].share /\ set[i].is_control = rows[i].is_control
    <3> SUFFICES ASSUME NEW i \in DOMAIN rows
                 PROVE  /\ set[i] \in DraftRow(VariantIds \cup {None}, Int)
                        /\ set[i].share = rows[i].share /\ set[i].is_control = rows[i].is_control
      OBVIOUS
    <3>1. rows[i] \in DraftRow(VariantIds \cup {None}, Int)
      BY <1>0, RowsOf
    <3> HIDE DEF rows
    <3> QED BY <3>1 DEF DraftRow
  <2>3. DOMAIN set = DOMAIN rows /\ DOMAIN rows = 1..Len(rows)
    BY <1>0, RowsOf
  <2>4. rows = opened => set = rows
    <3>1. ASSUME rows = opened PROVE \A i \in DOMAIN rows : set[i] = rows[i]
      BY <1>a, <3>1
    <3>2. rows = [i \in DOMAIN rows |-> rows[i]] /\ set = [i \in DOMAIN rows |-> set[i]]
      BY <1>0
    <3> HIDE DEF set, rows
    <3> QED BY <3>1, <3>2
  <2> HIDE DEF set
  <2>5. set \in Seq(DraftRow(VariantIds \cup {None}, Int))
    <3>1. Len(rows) \in Nat
      BY <1>0, RowsOf
    <3>2. set = [i \in 1..Len(rows) |-> set[i]]
      BY <2>3 DEF set
    <3> HIDE DEF rows
    <3> QED BY <2>2, <2>3, <3>1, <3>2, RowsAre
  <2>6. SharedSet(rows) => SharedSet(set)
    <3>1. \A S \in SUBSET DOMAIN rows : SharesOf(set, S) = SharesOf(rows, S)
      <4> SUFFICES ASSUME NEW S \in SUBSET DOMAIN rows PROVE SharesOf(set, S) = SharesOf(rows, S)
        OBVIOUS
      <4>1. S \subseteq DOMAIN set /\ \A i \in S : set[i].share = rows[i].share
        BY <2>2, <2>3
      <4> QED BY <1>0, <4>1, SharesSame
    <3>2. Controls(set) = Controls(rows)
      BY <2>2, <2>3 DEF Controls
    <3> HIDE DEF rows
    <3> QED BY <2>2, <2>3, <3>1, <3>2 DEF SharedSet, FairSet
  <2>7. SoundCall(call) /\ call.op = "saveVariants" /\ call.set = set
    BY <2>5 DEF Rules!Call, Rules!CallStates, SoundCall, Rules!VariantRow, DraftRow
  <2> HIDE DEF call
  <2>8. FairSet(page.variantsOpened) => set = page.variantsOpened \/ SharedSet(set)
    BY <1>a, <2>4, <2>6, Zenon
  <2> QED BY <2>1, <2>7, <2>8, RulesSend, Zenon
<1> QED BY <1>1, <1>2, <1>3, <1>4 DEF Rules!VariantEditor

(* An answered call is as sound as it was when sent.                        *)
LEMMA RulesOps ==
  ASSUME NEW c, SoundCall(c), NEW state \in {"done", "refused"}
  PROVE  /\ SoundCall([c EXCEPT !.state = state]) /\ [c EXCEPT !.state = state].state = state
<1>1. c \in Rules!Call
  BY DEF SoundCall
<1>2. [c EXCEPT !.state = state] \in Rules!Call
  BY <1>1 DEF Rules!Call, Rules!CallStates
<1>3. /\ [c EXCEPT !.state = state].state = state /\ [c EXCEPT !.state = state].op = c.op
      /\ c.op \in {"saveRule", "saveCondition"} => [c EXCEPT !.state = state].with = c.with
  BY <1>1 DEF Rules!Call
<1> QED BY <1>2, <1>3 DEF SoundCall

(* The server carries out a call, ...                                       *)
LEMMA RulesDone ==
  ASSUME RulesInv, NEW c \in flight, page' = page, NEW stored, Rules!Done(c, stored),
         RulesServerOK(stored)
  PROVE  RulesInv' /\ RulesSafe
<1> DEFINE new == [c EXCEPT !.state = "done"]
<1>1. server' = [stored EXCEPT !.writes = stored.writes + 1] /\ flight' = (flight \ {c}) \cup {new}
  BY DEF Rules!Done, Rules!Become
<1>2. RulesServerOK(server')
  BY <1>1 DEF RulesServerOK, Rules!Server
<1>3. SoundCall(new) /\ new.state = "done"
  BY RulesOps DEF RulesInv
<1> HIDE DEF new
<1>4. RulesShown'
  BY <1>1, <1>3 DEF RulesShown
<1>5. RulesInv'
  BY <1>1, <1>2, <1>3, <1>4 DEF RulesInv
<1>6. Rules!Sent = {}
  BY <1>1, <1>3 DEF Rules!Sent
<1> QED BY <1>5, <1>6 DEF RulesSafe, Rules!SavesOpened, Rules!KeepsUntouched, Rules!SavesWhole

(* ... or refuses it.                                                       *)
LEMMA RulesRefused ==
  ASSUME RulesInv, NEW c \in flight, c.state = "sent", page' = page, Rules!Refused(c)
  PROVE  RulesInv' /\ RulesSafe
<1> DEFINE new == [c EXCEPT !.state = "refused"]
<1>1. server' = server /\ flight' = (flight \ {c}) \cup {new}
  BY DEF Rules!Refused, Rules!Become
<1>2. SoundCall(new) /\ new.state = "refused"
  BY RulesOps DEF RulesInv
<1> HIDE DEF new
<1>3. RulesShown'
  BY <1>1 DEF RulesInv, RulesShown, Rules!Stored
<1>4. RulesInv'
  BY <1>1, <1>2, <1>3 DEF RulesInv
<1>5. Rules!Sent = {}
  BY <1>1, <1>2 DEF Rules!Sent
<1> QED BY <1>4, <1>5 DEF RulesSafe, Rules!SavesOpened, Rules!KeepsUntouched, Rules!SavesWhole

(* Other rules and conditions are stored for the same flag.                 *)
LEMMA RulesStored ==
  ASSUME RulesServerOK(server), NEW rules \in SUBSET Rules!StrategyRule, NEW conditions \in SUBSET Rules!Condition,
         \A rule \in rules : SoundRule(rule),
         \A c \in conditions : c.attribute # ""
  PROVE  RulesServerOK([server EXCEPT !.rules = rules, !.conditions = conditions])
<1>1. server \in Rules!Server
  BY Zenon DEF RulesServerOK
<1> DEFINE new == [server EXCEPT !.rules = rules, !.conditions = conditions]
<1>2. /\ new \in Rules!Server /\ new.multivariate = server.multivariate /\ new.variants = server.variants
      /\ new.rules = rules /\ new.conditions = conditions
  BY <1>1, Zenon DEF Rules!Server
<1> HIDE DEF new
<1>3. [multivariate |-> new.multivariate, variants |-> new.variants, rules |-> new.rules, conditions |-> new.conditions]
        \in SoundData
  BY <1>1, <1>2, Zenon DEF RulesServerOK, SoundData, Rules!Data, Rules!Server
<1>4. RulesServerOK(new)
  BY <1>2, <1>3, Zenon DEF RulesServerOK
<1> QED BY <1>4, Zenon DEF new

(* What is stored is sound.                                                 *)
LEMMA RulesKept ==
  ASSUME RulesServerOK(server)
  PROVE  /\ server \in Rules!Server /\ server.rules \in SUBSET Rules!StrategyRule /\ server.conditions \in SUBSET Rules!Condition
         /\ \A rule \in server.rules : SoundRule(rule)
         /\ \A c \in server.conditions : c.attribute # ""
         /\ \A x : [server EXCEPT !.rules = x] = [server EXCEPT !.rules = x, !.conditions = server.conditions]
         /\ \A x : [server EXCEPT !.conditions = x] = [server EXCEPT !.rules = server.rules, !.conditions = x]
  BY Zenon DEF RulesServerOK, Rules!Server, SoundData

(* What is saved of a set is a set of variants.                             *)
LEMMA RulesVariants ==
  ASSUME NEW set \in Seq(DraftRow(VariantIds \cup {None}, Int)), NEW ids \in [DOMAIN set -> VariantIds],
         NEW new, new = [i \in DOMAIN set |-> [set[i] EXCEPT !.id = ids[i], !.is_control = set[i].is_control \/ Len(set) = 1]]
  PROVE  new \in Seq(DraftRow(VariantIds, Int))
<1>0. Int \in Shares
  BY DEF Shares
<1>1. /\ DOMAIN set = 1..Len(set) /\ Len(set) \in Nat /\ DOMAIN new = DOMAIN set
      /\ \A i \in DOMAIN set : set[i] \in DraftRow(VariantIds \cup {None}, Int)
  BY <1>0, RowsOf, Zenon
<1>2. \A i \in DOMAIN set : new[i] \in DraftRow(VariantIds, Int)
  <2> SUFFICES ASSUME NEW i \in DOMAIN set PROVE new[i] \in DraftRow(VariantIds, Int)
    BY Zenon
  <2> DEFINE row == set[i]
             lone == set[i].is_control \/ Len(set) = 1
  <2>1. row \in DraftRow(VariantIds \cup {None}, Int) /\ ids[i] \in VariantIds /\ lone \in BOOLEAN
    BY <1>1, Zenon
  <2>2. new[i] = [row EXCEPT !.id = ids[i], !.is_control = lone]
    BY Zenon
  <2> HIDE DEF row, lone
  <2> QED BY <2>1, <2>2, Zenon DEF DraftRow
<1>3. new = [i \in 1..Len(set) |-> new[i]]
  BY <1>1, Zenon
<1> QED BY <1>1, <1>2, <1>3, RowsAre, Zenon

(* The server carries a call out, or refuses it.                            *)
LEMMA RulesHandle ==
  ASSUME RulesInv, NEW c \in flight, Rules!Handle(c)
  PROVE  RulesInv' /\ RulesSafe
<1> DEFINE m == server.multivariate
<1>0. /\ RulesServerOK(server) /\ SoundCall(c) /\ c \in Rules!Call
      /\ page' = page /\ c.state = "sent"
  BY Zenon DEF RulesInv, SoundCall, Rules!Handle, Rules!HandleSaveRule, Rules!HandleDeleteRule,
     Rules!HandleSaveCondition, Rules!HandleDeleteCondition, Rules!HandleSaveVariants
<1>1. ASSUME Rules!Refused(c) PROVE RulesInv' /\ RulesSafe
  BY <1>0, <1>1, RulesRefused
<1>2. ASSUME NEW rules \in SUBSET Rules!StrategyRule, \A rule \in rules : SoundRule(rule),
             NEW conditions \in SUBSET Rules!Condition, \A x \in conditions : x.attribute # "",
             Rules!Done(c, [server EXCEPT !.rules = rules, !.conditions = conditions])
      PROVE  RulesInv' /\ RulesSafe
  BY <1>0, <1>2, RulesStored, RulesDone, Zenon
<1>3. CASE Rules!HandleSaveRule(c) /\ ~Rules!Refused(c)
  <2>1. PICK id : /\ id \in IF c.rule # None THEN {c.rule.id} ELSE {i \in RuleIds : Rules!RuleAt(i) = {}}
                  /\ Rules!Done(c, [server EXCEPT !.rules = (server.rules \ Rules!RuleAt(id)) \cup {Rules!RuleRow(id, c.with)}])
    BY <1>3 DEF Rules!HandleSaveRule
  <2>2. /\ c.with \in [priority : Nat, variant : VariantIds \cup {None}, share : 0..Whole \cup {None}]
        /\ c.rule \in Rules!StrategyRule \cup {None} /\ SoundRule(c.with)
    BY <1>0, <1>3 DEF Rules!HandleSaveRule, Rules!Call, SoundCall
  <2>3. id \in RuleIds
    BY <2>1, <2>2 DEF Rules!StrategyRule
  <2>4. Rules!RuleRow(id, c.with) \in Rules!StrategyRule /\ SoundRule(Rules!RuleRow(id, c.with))
    BY <2>2, <2>3 DEF Rules!RuleRow, Rules!StrategyRule, SoundRule
  <2> DEFINE rules == (server.rules \ Rules!RuleAt(id)) \cup {Rules!RuleRow(id, c.with)}
  <2>5. rules \in SUBSET Rules!StrategyRule /\ \A rule \in rules : SoundRule(rule)
    BY <1>0, <2>4, RulesKept, Zenon
  <2>6. Rules!Done(c, [server EXCEPT !.rules = rules])
    BY <2>1
  <2> HIDE DEF rules
  <2> QED BY <1>0, <1>2, <2>5, <2>6, RulesKept, Zenon
<1>4. CASE Rules!HandleDeleteRule(c) /\ ~Rules!Refused(c)
  <2> DEFINE rules == server.rules \ Rules!RuleAt(c.rule.id)
             conditions == {condition \in server.conditions : condition.rule # c.rule.id}
  <2>1. Rules!Done(c, [server EXCEPT !.rules = rules, !.conditions = conditions])
    BY <1>4 DEF Rules!HandleDeleteRule
  <2>2. /\ rules \in SUBSET Rules!StrategyRule /\ \A rule \in rules : SoundRule(rule)
        /\ conditions \in SUBSET Rules!Condition /\ \A x \in conditions : x.attribute # ""
    BY <1>0, RulesKept, Zenon
  <2> HIDE DEF rules, conditions
  <2> QED BY <1>2, <2>1, <2>2, Zenon
<1>5. CASE Rules!HandleSaveCondition(c) /\ ~Rules!Refused(c)
  <2> DEFINE old == IF c.condition # None THEN Rules!ConditionAt(c.condition.id) ELSE {}
             rule == IF c.condition # None THEN c.condition.rule ELSE c.rule.id
  <2>1. PICK id : /\ id \in IF c.condition # None THEN {c.condition.id} ELSE {i \in ConditionIds : Rules!ConditionAt(i) = {}}
                  /\ Rules!Done(c, [server EXCEPT !.conditions = (server.conditions \ old) \cup {Rules!ConditionRow(id, rule, c.with)}])
    BY <1>5, Zenon DEF Rules!HandleSaveCondition
  <2>2. c.with.attribute # "" /\ c.with.value # Rules!NoNumber /\ c.op = "saveCondition"
    BY <1>5, Zenon DEF Rules!HandleSaveCondition
  <2>3. /\ c.with \in [attribute : STRING, operator : STRING, value : Rules!Value \cup {Rules!NoNumber}]
        /\ c.condition \in Rules!Condition \/ (c.condition = None /\ c.rule \in Rules!StrategyRule)
    BY <1>0, <2>2, Zenon DEF Rules!Call, SoundCall
  <2>4. id \in ConditionIds /\ rule \in RuleIds
    BY <2>1, <2>3, RulesAssumption, Zenon DEF Rules!Condition, Rules!StrategyRule
  <2> DEFINE row == Rules!ConditionRow(id, rule, c.with)
             conditions == (server.conditions \ old) \cup {row}
  <2>5. Rules!Done(c, [server EXCEPT !.conditions = conditions])
    BY <2>1
  <2> HIDE DEF rule
  <2>6. row \in Rules!Condition /\ row.attribute # ""
    BY <2>2, <2>3, <2>4, Zenon DEF Rules!ConditionRow, Rules!Condition
  <2> HIDE DEF row, old
  <2>7. conditions \in SUBSET Rules!Condition /\ \A x \in conditions : x.attribute # ""
    BY <1>0, <2>6, RulesKept, Zenon
  <2> HIDE DEF conditions
  <2> QED BY <1>0, <1>2, <2>5, <2>7, RulesKept, Zenon
<1>6. CASE Rules!HandleDeleteCondition(c) /\ ~Rules!Refused(c)
  <2> DEFINE conditions == server.conditions \ Rules!ConditionAt(c.condition.id)
  <2>1. Rules!Done(c, [server EXCEPT !.conditions = conditions])
    BY <1>6 DEF Rules!HandleDeleteCondition
  <2>2. conditions \in SUBSET Rules!Condition /\ \A x \in conditions : x.attribute # ""
    BY <1>0, RulesKept, Zenon
  <2> HIDE DEF conditions
  <2> QED BY <1>0, <1>2, <2>1, <2>2, RulesKept, Zenon
<1>7. CASE Rules!HandleSaveVariants(c) /\ ~Rules!Refused(c)
  <2>1. c.set \in Seq(DraftRow(VariantIds \cup {None}, Int))
    BY <1>0, <1>7, Zenon DEF Rules!HandleSaveVariants, Rules!Call, Rules!VariantRow, DraftRow
  <2>2. PICK ids \in [DOMAIN c.set -> VariantIds] :
          Rules!Done(c, [server EXCEPT
            !.variants = [i \in DOMAIN c.set |->
                            [c.set[i] EXCEPT !.id = ids[i], !.is_control = c.set[i].is_control \/ Len(c.set) = 1]]])
    BY <1>7, Zenon DEF Rules!HandleSaveVariants
  <2> DEFINE variants == [i \in DOMAIN c.set |->
                            [c.set[i] EXCEPT !.id = ids[i], !.is_control = c.set[i].is_control \/ Len(c.set) = 1]]
             new == [server EXCEPT !.variants = variants]
  <2>3. Rules!Done(c, new)
    BY <2>2
  <2>4. variants \in Seq(Rules!VariantRow(VariantIds))
    <3>1. variants \in Seq(DraftRow(VariantIds, Int))
      BY <2>1, RulesVariants, Zenon
    <3> HIDE DEF variants
    <3> QED BY <3>1 DEF Rules!VariantRow, DraftRow
  <2> HIDE DEF variants
  <2>5. /\ new \in Rules!Server /\ new.multivariate = server.multivariate /\ new.variants = variants
        /\ new.rules = server.rules /\ new.conditions = server.conditions
    BY <1>0, <2>4, RulesKept, Zenon DEF Rules!Server
  <2> HIDE DEF new
  <2>6. [multivariate |-> new.multivariate, variants |-> new.variants, rules |-> new.rules, conditions |-> new.conditions]
          \in SoundData
    BY <1>0, <2>4, <2>5, RulesKept, Zenon DEF SoundData, Rules!Data, Rules!Server
  <2>7. RulesServerOK(new)
    BY <2>5, <2>6 DEF RulesServerOK
  <2> QED BY <1>0, <2>3, <2>7, RulesDone
<1> QED BY <1>1, <1>3, <1>4, <1>5, <1>6, <1>7 DEF Rules!Handle

RulesShows == [flag \in {Flag} |-> Rules!Stored]

(* A call is answered and the list made current.                            *)
LEMMA RulesAnswered ==
  ASSUME RulesInv, NEW c \in flight, flight' = flight \ {c}, server' = server,
         NEW p, RulesPageOK(p), NEW lists, RulesLists(lists),
         Current(lists["data"], RulesShows, Flag), page' = [p EXCEPT !.lists = lists]
  PROVE  RulesInv' /\ RulesSafe
<1>1. RulesPageOK(page') /\ page'.lists = lists
  BY RulesListsSet
<1>2. RulesShows' = RulesShows
  BY DEF RulesShows, Rules!Stored
<1>3. RulesShown'
  BY <1>1, <1>2 DEF RulesShown, RulesShows
<1>4. Rules!Sent = {}
  BY DEF Rules!Sent
<1> QED BY <1>1, <1>3, <1>4 DEF RulesInv, RulesSafe, Rules!SavesOpened, Rules!KeepsUntouched,
      Rules!SavesWhole

(* What the page loads again is current.                                    *)
LEMMA RulesLoaded ==
  ASSUME RulesInv, Room(page.lists, page.live)
  PROVE  RulesLists(Rules!LoadData) /\ Current(Rules!LoadData["data"], RulesShows, Flag)
<1> DEFINE rows == [data |-> SoundData]
           stored == [data |-> Rules!Stored]
<1>1. ListsIn(page.lists, {"data"}, {Flag}, rows)
  BY DEF RulesInv, RulesPageOK, RulesLists
<1>2. stored["data"] \in rows["data"]
  BY DEF RulesInv, RulesServerOK, Rules!Stored
<1>3. Rules!LoadData = Refetch(page.lists, page.live, Flag, Flag, stored, {"data"})
  BY RulesSame DEF Rules!LoadData
<1>4. stored["data"] = RulesShows[Flag]
  BY DEF RulesShows
<1> HIDE DEF rows, stored
<1>5. ListsIn(Rules!LoadData, {"data"}, {Flag}, rows)
  BY <1>1, <1>2, <1>3, RefetchTyped
<1>6. Current(Rules!LoadData["data"], RulesShows, Flag)
  BY <1>1, <1>3, <1>4, RefetchCurrent
<1> QED BY <1>5, <1>6 DEF RulesLists, rows

(* The page takes an answer in.                                             *)
LEMMA RulesReturn ==
  ASSUME RulesInv, NEW c \in flight, Rules!Return(c)
  PROVE  RulesInv' /\ RulesSafe
<1> DEFINE m == server.multivariate
<1>0. /\ page \in Rules!Page /\ RulesLists(page.lists) /\ SoundDialogs(page) /\ SoundRows(page) /\ RulesPageOK(page)
      /\ flight' = flight \ {c} /\ server' = server
  BY DEF RulesInv, RulesPageOK, Rules!Return, Rules!RuleSaved, Rules!ConditionSaved, Rules!Deleted,
     Rules!VariantsSaved, Rules!Failed, Rules!Answered, Rules!Reloaded
<1>1. ASSUME NEW p, RulesPageOK(p), Rules!Reloaded(p), Rules!Room(page.lists, page.live)
      PROVE  RulesInv' /\ RulesSafe
  BY <1>0, <1>1, RulesLoaded, RulesAnswered, RulesSame DEF Rules!Reloaded
<1>2. CASE Rules!RuleSaved(c)
  <2> DEFINE p == [Rules!resetRuleForm(page) EXCEPT
                     !.dialog = IF Rules!resetRuleForm(page).dialog = "rule" THEN "none" ELSE Rules!resetRuleForm(page).dialog,
                     !.opened = IF page.dialog = "rule" THEN None ELSE Rules!resetRuleForm(page).opened]
  <2>2. Rules!Reloaded(p) /\ Rules!Room(page.lists, page.live)
    BY <1>2 DEF Rules!RuleSaved, Rules!Answered
  <2>3. Rules!NoRule \in Rules!RuleFormRow
    BY FormsTyped
  <2>4. p \in Rules!Page /\ p.lists = page.lists
    BY <1>0, <2>3, ZenonT(40) DEF Rules!resetRuleForm, Rules!Page
  <2>5. SoundDialogs(p) /\ SoundRows(p)
    BY <1>0, Zenon DEF Rules!resetRuleForm, Rules!Page, SoundDialogs, SoundRows
  <2> HIDE DEF p
  <2>6. RulesPageOK(p)
    BY <1>0, <2>4, <2>5 DEF RulesPageOK
  <2> QED BY <1>1, <2>2, <2>6
<1>3. CASE Rules!ConditionSaved(c)
  <2> DEFINE p == [page EXCEPT !.editingCondition = None, !.selectedRule = None,
                     !.dialog = IF page.dialog = "condition" THEN "none" ELSE page.dialog,
                     !.opened = IF page.dialog = "condition" THEN None ELSE page.opened]
  <2>2. Rules!Reloaded(p) /\ Rules!Room(page.lists, page.live)
    BY <1>3 DEF Rules!ConditionSaved, Rules!Answered
  <2>4. p \in Rules!Page /\ p.lists = page.lists
    BY <1>0, ZenonT(40) DEF Rules!Page
  <2>5. SoundDialogs(p) /\ SoundRows(p)
    BY <1>0, Zenon DEF Rules!Page, SoundDialogs, SoundRows
  <2> HIDE DEF p
  <2>6. RulesPageOK(p)
    BY <1>0, <2>4, <2>5 DEF RulesPageOK
  <2> QED BY <1>1, <2>2, <2>6
<1>4. CASE Rules!Deleted(c)
  BY <1>0, <1>1, <1>4 DEF Rules!Deleted, Rules!Answered
<1>5. CASE Rules!VariantsSaved(c)
  <2> DEFINE p == [page EXCEPT !.isEditingVariants = FALSE, !.variantDrafts = <<>>, !.originalVariantIds = {},
                             !.variantsOpened = <<>>]
  <2>2. Rules!Reloaded(p) /\ Rules!Room(page.lists, page.live)
    BY <1>5 DEF Rules!VariantsSaved, Rules!Answered
  <2>3. <<>> \in Seq(Rules!VariantRow(VariantIds \cup {None})) /\ <<>> \in Seq(Rules!VariantRow(VariantIds)) /\ DOMAIN <<>> = {}
    OBVIOUS
  <2>4. p \in Rules!Page /\ p.lists = page.lists
    BY <1>0, <2>3 DEF Rules!Page
  <2>5. SoundDialogs(p) /\ SoundRows(p)
    BY <1>0, <2>3, Zenon DEF Rules!Page, SoundDialogs, SoundRows
  <2> HIDE DEF p
  <2>6. RulesPageOK(p)
    BY <1>0, <2>4, <2>5 DEF RulesPageOK
  <2> QED BY <1>1, <2>2, <2>6
<1>6. CASE Rules!Failed(c)
  <2>1. CASE c.state = "done"
    <3> DEFINE lists == ExcuseAll(page.lists, {"data"})
               rows == [data |-> SoundData]
    <3>1. page' = [page EXCEPT !.lists = lists]
      BY <1>6, <2>1, RulesSame DEF Rules!Failed
    <3>2. ListsIn(page.lists, {"data"}, {Flag}, rows)
      BY <1>0 DEF RulesLists
    <3> HIDE DEF rows
    <3>3. ListsIn(lists, {"data"}, {Flag}, rows) /\ Current(lists["data"], RulesShows, Flag)
      BY <3>2, ExcuseAllTyped, ExcuseAllCurrent
    <3> HIDE DEF lists
    <3> QED BY <1>0, <3>1, <3>3, RulesAnswered DEF RulesLists, rows
  <2>2. CASE c.state # "done"
    <3>1. page' = page
      BY <1>6, <2>2 DEF Rules!Failed
    <3>2. RulesShown'
      BY <1>0, <2>2, <3>1 DEF RulesInv, RulesShown, Rules!Stored
    <3>3. Rules!Sent = {}
      BY <1>0 DEF Rules!Sent
    <3> QED BY <1>0, <3>1, <3>2, <3>3 DEF RulesInv, RulesSafe, Rules!SavesOpened, Rules!KeepsUntouched,
          Rules!SavesWhole
  <2> QED BY <2>1, <2>2
<1> QED BY <1>2, <1>3, <1>4, <1>5, <1>6 DEF Rules!Return

(* A load is read, lands or fails.                                          *)
LEMMA RulesLoads ==
  ASSUME RulesInv, NEW i \in DOMAIN Rules!LoadsOf(page.lists, page.live), Rules!ReadLoad(i) \/ Rules!LandLoad(i) \/ Rules!FailLoad(i)
  PROVE  RulesInv' /\ RulesSafe
<1> DEFINE m == server.multivariate
           list == page.lists["data"]
           rows == [data |-> SoundData]
<1>0. page \in Rules!Page /\ RulesPageOK(page) /\ server' = server /\ flight' = flight
  BY DEF RulesInv, RulesPageOK, Rules!ReadLoad, Rules!LandLoad, Rules!FailLoad
<1>1. ListsIn(page.lists, {"data"}, {Flag}, rows) /\ page.live = "data"
  BY <1>0 DEF RulesPageOK, RulesLists, Rules!Page
<1> HIDE DEF rows
<1>2. i \in DOMAIN list.loads /\ list \in ListOf({Flag}, rows["data"]) /\ list.loads[i] \in Load({Flag}, rows["data"])
  BY <1>1, LiveLoads, RulesSame
<1>3. rows["data"] = SoundData /\ Rules!Stored \in SoundData /\ list.loads[i].of = Flag /\ list.rows \in SoundData
  BY <1>2 DEF RulesInv, RulesServerOK, Rules!Stored, Load, ListOf, rows
<1>4. ASSUME NEW new \in ListOf({Flag}, rows["data"]), page' = [page EXCEPT !.lists = [page.lists EXCEPT !["data"] = new]],
             Current(list, RulesShows, Flag) => Current(new, RulesShows, Flag)
      PROVE  RulesInv' /\ RulesSafe
  <2> DEFINE lists == [page.lists EXCEPT !["data"] = new]
  <2>1. ListsIn(lists, {"data"}, {Flag}, rows) /\ lists["data"] = new
    <3>1. ListsIn(lists, {"data"}, {Flag}, rows)
      BY <1>1, <1>4, OneListTyped
    <3> QED BY <1>1, <3>1 DEF ListsIn
  <2> HIDE DEF lists
  <2>2. page' = [page EXCEPT !.lists = lists]
    BY <1>4 DEF lists
  <2>3. RulesPageOK(page') /\ page'.lists = lists
    BY <1>0, <2>1, <2>2, RulesListsSet DEF RulesLists, rows
  <2>4. RulesShown'
    <3>1. RulesShows' = RulesShows
      BY <1>0 DEF RulesShows, Rules!Stored
    <3> QED BY <1>0, <1>4, <2>1, <2>3, <3>1 DEF RulesInv, RulesShown, RulesShows
  <2>5. Rules!Sent = {}
    BY <1>0 DEF Rules!Sent
  <2> QED BY <1>0, <2>3, <2>4, <2>5 DEF RulesInv, RulesSafe, Rules!SavesOpened, Rules!KeepsUntouched,
        Rules!SavesWhole
<1> HIDE DEF list
<1>5. CASE Rules!ReadLoad(i)
  <2>1. page' = [page EXCEPT !.lists = [page.lists EXCEPT !["data"] = Read(list, i, Rules!Stored)]]
    BY <1>5, RulesSame DEF Rules!ReadLoad, list
  <2>2. Rules!Stored = RulesShows[list.loads[i].of]
    BY <1>3 DEF RulesShows
  <2>3. Read(list, i, Rules!Stored) \in ListOf({Flag}, rows["data"])
    BY <1>2, <1>3, ReadTyped
  <2>4. Current(list, RulesShows, Flag) => Current(Read(list, i, Rules!Stored), RulesShows, Flag)
    BY <1>2, <2>2, ReadCurrent
  <2> QED BY <1>4, <2>1, <2>3, <2>4
<1>6. CASE Rules!LandLoad(i)
  <2>1. page' = [page EXCEPT !.lists = [page.lists EXCEPT !["data"] = Land(list, i, Flag)]] /\ ~Unanswered(list, i)
    BY <1>6, RulesSame DEF Rules!LandLoad, list
  <2>2. Land(list, i, Flag) \in ListOf({Flag}, rows["data"])
    BY <1>2, <2>1, LandTyped
  <2>3. Current(list, RulesShows, Flag) => Current(Land(list, i, Flag), RulesShows, Flag)
    BY <1>2, <2>1, LandCurrent
  <2> QED BY <1>4, <2>1, <2>2, <2>3
<1>7. CASE Rules!FailLoad(i)
  <2>1. page' = [page EXCEPT !.lists = [page.lists EXCEPT !["data"] = FailTo(list, i, list.rows)]]
    BY <1>7, RulesSame DEF Rules!FailLoad, list
  <2>2. FailTo(list, i, list.rows) \in ListOf({Flag}, rows["data"])
    BY <1>2, <1>3, FailTyped
  <2>3. Current(list, RulesShows, Flag) => Current(FailTo(list, i, list.rows), RulesShows, Flag)
    BY <1>2, FailCurrent
  <2> QED BY <1>4, <2>1, <2>2, <2>3
<1> QED BY <1>5, <1>6, <1>7

(* No step breaks the invariant, and none does what a step may not.         *)
LEMMA RulesStep ==
  ASSUME RulesInv, Rules!Next \/ UNCHANGED vars
  PROVE  RulesInv' /\ RulesSafe
<1>1. CASE UNCHANGED vars
  <2>1. page' = page /\ UNCHANGED <<server, flight>>
    BY <1>1 DEF vars
  <2>2. RulesPageOK(page')
    BY <2>1 DEF RulesInv
  <2> QED BY <2>1, <2>2, RulesDialog
<1> QED BY <1>1, RulesRuleDialog, RulesConditionDialog, RulesVariantEditor, RulesHandle, RulesReturn,
      RulesLoads DEF Rules!Next

(* The invariant holds at first.                                            *)
LEMMA RulesInit == ASSUME Rules!Init PROVE RulesInv
<1>1. PICK start \in Starts :
        /\ server = [multivariate |-> start.multivariate, variants |-> start.variants,
                     rules |-> start.rules, conditions |-> start.conditions, writes |-> 0]
        /\ flight = {}
        /\ page = [doing |-> start.doing, live |-> "data", lists |-> [data |-> Rules!List(Rules!Stored)],
                   dialog |-> "none", opened |-> None,
                   editingRule |-> None, ruleForm |-> Rules!NoRule,
                   selectedRule |-> None, editingCondition |-> None, conditionForm |-> Rules!NoCondition,
                   isEditingVariants |-> FALSE, variantDrafts |-> <<>>, originalVariantIds |-> {}, variantsOpened |-> <<>>]
  BY DEF Rules!Init
<1>2. /\ start.multivariate \in BOOLEAN /\ start.variants \in Seq(Rules!VariantRow(VariantIds))
      /\ start.rules \in SUBSET Rules!StrategyRule /\ start.conditions \in SUBSET Rules!Condition
      /\ start.doing \in {"rules", "conditions", "variants"}
      /\ \A rule \in start.rules : SoundRule(rule)
      /\ \A c \in start.conditions : c.attribute # ""
  BY RulesAssumption, Zenon DEF SoundRule
<1>3. /\ server \in Rules!Server /\ server.rules = start.rules /\ server.conditions = start.conditions
      /\ server.variants = start.variants /\ server.multivariate = start.multivariate
  BY <1>1, <1>2 DEF Rules!Server
<1>4. Rules!Stored \in SoundData
  BY <1>2, <1>3, Zenon DEF Rules!Stored, SoundData, Rules!Data
<1>5. RulesServerOK(server)
  BY <1>3, <1>4 DEF RulesServerOK, Rules!Stored
<1> DEFINE lists == [n \in {"data"} |-> List([data |-> Rules!Stored][n])]
<1>6. RulesLists(lists)
  BY <1>4, FirstLists DEF RulesLists
<1>7. page.lists = lists /\ lists["data"] = List(Rules!Stored)
  BY <1>1, RulesSame
<1> HIDE DEF lists
<1>8. Rules!NoRule \in Rules!RuleFormRow /\ Rules!NoCondition \in Rules!ConditionFormRow
  BY FormsTyped
<1>9. page \in Rules!Page
  <2>1. lists \in [data : Rules!ListOf({Flag}, Rules!Data)]
    BY <1>6, RulesListsTyped
  <2>2. start.doing \in {"rules", "conditions", "variants"}
    BY <1>2
  <2>3. page = [doing |-> start.doing, live |-> "data", lists |-> lists,
                dialog |-> "none", opened |-> None,
                editingRule |-> None, ruleForm |-> Rules!NoRule,
                selectedRule |-> None, editingCondition |-> None, conditionForm |-> Rules!NoCondition,
                isEditingVariants |-> FALSE, variantDrafts |-> <<>>, originalVariantIds |-> {}, variantsOpened |-> <<>>]
    BY <1>1, <1>7
  <2>4. <<>> \in Seq(Rules!VariantRow(VariantIds \cup {None})) /\ <<>> \in Seq(Rules!VariantRow(VariantIds))
    OBVIOUS
  <2> QED BY <1>8, <2>1, <2>2, <2>3, <2>4 DEF Rules!Page
<1>10. RulesPageOK(page)
  <2>1. SoundDialogs(page) /\ SoundRows(page)
    BY <1>1 DEF SoundDialogs, SoundRows
  <2> QED BY <1>6, <1>7, <1>9, <2>1 DEF RulesPageOK
<1>11. RulesShown
  <2>1. Rules!Stored = RulesShows[Flag]
    BY DEF RulesShows
  <2> QED BY <1>7, <2>1, FirstCurrent DEF RulesShown, RulesShows
<1> QED BY <1>1, <1>3, <1>5, <1>10, <1>11 DEF RulesInv

(* It has the types.                                                        *)
LEMMA RulesTyped == ASSUME RulesInv PROVE Rules!TypeOK
  BY DEF RulesInv, RulesServerOK, RulesPageOK, SoundCall, Rules!TypeOK

(* At rest the page shows what is stored.                                   *)
LEMMA RulesSettle == ASSUME RulesInv PROVE Rules!Settles
<1>1. ASSUME flight = {} PROVE Settled(page.lists["data"], Rules!Stored)
  <2>1. Current(page.lists["data"], RulesShows, Flag)
    BY <1>1 DEF RulesInv, RulesShown, RulesShows
  <2>2. RulesShows[Flag] = Rules!Stored
    BY DEF RulesShows
  <2> QED BY <2>1, <2>2, CurrentSettled
<1> QED BY <1>1, RulesSame DEF Rules!Settles

-----------------------------------------------------------------------------
(* The flags page: types                                                    *)

(* The page's lists are lists.                                              *)
LEMMA FlagsSame ==
  /\ \A Of, Rows : FlagList!ListOf(Of, Rows) = ListOf(Of, Rows)
  /\ \A rows : FlagList!List(rows) = List(rows)
  /\ \A lists, live, of, at, stored, names : FlagList!Refetch(lists, live, of, at, stored, names) = Refetch(lists, live, of, at, stored, names)
  /\ \A lists, names : FlagList!ExcuseAll(lists, names) = ExcuseAll(lists, names)
  /\ \A lists, live : FlagList!Room(lists, live) = Room(lists, live)
  /\ \A lists, live : FlagList!LoadsOf(lists, live) = LoadsOf(lists, live)
  /\ \A list, rows, excused : FlagList!Replace(list, rows, excused) = Replace(list, rows, excused)
  /\ \A list, rows, excused : FlagList!Patch(list, rows, excused) = Patch(list, rows, excused)
  /\ \A list, i, rows : FlagList!Read(list, i, rows) = Read(list, i, rows)
  /\ \A list, i : FlagList!Unanswered(list, i) = Unanswered(list, i)
  /\ \A list, i, at : FlagList!Land(list, i, at) = Land(list, i, at)
  /\ \A list, i, rows : FlagList!FailTo(list, i, rows) = FailTo(list, i, rows)
  /\ \A list, stored : FlagList!Settled(list, stored) = Settled(list, stored)
  BY DEF Load, FlagList!Load, ListOf, FlagList!ListOf, List, FlagList!List, Overtaken, FlagList!Overtaken,
     Fetch, FlagList!Fetch, Replace, FlagList!Replace, Patch, FlagList!Patch, Read, FlagList!Read,
     Unanswered, FlagList!Unanswered, Settle, FlagList!Settle, Land, FlagList!Land, FailTo, FlagList!FailTo,
     Excuse, FlagList!Excuse, Refetch, FlagList!Refetch, ExcuseAll, FlagList!ExcuseAll, LoadsOf,
     FlagList!LoadsOf, Room, FlagList!Room, Settled, FlagList!Settled

(* So are its variant editor's rows.                                        *)
LEMMA FlagsSums ==
  /\ \A w, S : FlagList!SumFunctionOnSet(w, S) = SumFunctionOnSet(w, S)
  /\ \A S : FlagList!Cardinality(S) = Cardinality(S)
  /\ \A S : FlagList!Min(S) = Min(S)
<1>1. \A w, S : FlagList!SumFunctionOnSet(w, S) = SumFunctionOnSet(w, S)
  BY SumIs DEF FlagList!SumFunctionOnSet, FlagList!FoldFunctionOnSet, FlagList!MapThenFoldSet, SumsOf, Sums,
     Chosen
<1>2. \A S : FlagList!Cardinality(S) = Cardinality(S)
  BY DEF FlagList!Cardinality, Cardinality
<1>3. \A S : FlagList!Min(S) = Min(S)
  BY DEF FlagList!Min, Min
<1> QED BY <1>1, <1>2, <1>3

(* The editor of the flags page is the editor above.                        *)
LEMMA FlagsDrafts ==
  /\ \A rows, indices : FlagList!SharesOf(rows, indices) = SharesOf(rows, indices)
  /\ \A rows : FlagList!Controls(rows) = Controls(rows)
  /\ \A rows, id : FlagList!AddRow(rows, id) = AddRow(rows, id)
  /\ \A rows, i : FlagList!RemoveRow(rows, i) = RemoveRow(rows, i)
  /\ \A rows, i, name : FlagList!RenameRow(rows, i, name) = RenameRow(rows, i, name)
  /\ \A rows, i, share : FlagList!WeighRow(rows, i, share) = WeighRow(rows, i, share)
  /\ \A rows : FlagList!NamesGiven(rows) = NamesGiven(rows)
  /\ \A rows : FlagList!ValidSet(rows) = ValidSet(rows)
<1>1. \A rows, indices : FlagList!SharesOf(rows, indices) = SharesOf(rows, indices)
  BY FlagsSums DEF FlagList!SharesOf, SharesOf
<1>2. \A rows : FlagList!Controls(rows) = Controls(rows)
  BY DEF FlagList!Controls, Controls
<1>3. \A n, most : FlagList!Clamp(n, most) = Clamp(n, most)
  BY DEF FlagList!Clamp, Clamp
<1>4. \A rows : FlagList!recalcControlPercentage(rows) = recalcControlPercentage(rows)
  BY <1>1, <1>2, <1>3, FlagsSums DEF FlagList!recalcControlPercentage, recalcControlPercentage
<1>5. \A rows, i : FlagList!getNonControlHeadroom(rows, i) = getNonControlHeadroom(rows, i)
  BY <1>1 DEF FlagList!getNonControlHeadroom, getNonControlHeadroom
<1>6. \A rows, id : FlagList!AddRow(rows, id) = AddRow(rows, id)
  BY <1>4, Zenon DEF FlagList!AddRow, AddRow
<1>7. \A rows, i : FlagList!RemoveRow(rows, i) = RemoveRow(rows, i)
  BY <1>2, <1>4 DEF FlagList!RemoveRow, RemoveRow
<1>8. \A rows, i, name : FlagList!RenameRow(rows, i, name) = RenameRow(rows, i, name)
  BY <1>4 DEF FlagList!RenameRow, RenameRow
<1>9. \A rows, i, share : FlagList!WeighRow(rows, i, share) = WeighRow(rows, i, share)
  BY <1>3, <1>4, <1>5 DEF FlagList!WeighRow, WeighRow
<1>10. \A rows : FlagList!NamesGiven(rows) = NamesGiven(rows)
  BY DEF FlagList!NamesGiven, NamesGiven
<1>11. \A rows : FlagList!ValidSet(rows) = ValidSet(rows)
  BY <1>1, <1>2, FlagsSums DEF FlagList!ValidSet, ValidSet
<1> QED BY <1>1, <1>2, <1>6, <1>7, <1>8, <1>9, <1>10, <1>11


(* The rows of a selection.                                                 *)
LEMMA FlagsIn ==
  ASSUME NEW project \in Selections
  PROVE  FlagList!EnvironmentsIn(project) \subseteq FlagList!EnvironmentsIn(None)
  BY FlagsAssumption DEF FlagList!EnvironmentsIn

(* What is stored has the rows that the list has.                           *)
LEMMA FlagsStored ==
  ASSUME server \in FlagList!Server, NEW project \in Selections
  PROVE  FlagList!Stored(project) \in FlagList!Data
  BY FlagsIn DEF FlagList!Stored, FlagList!Data, FlagList!Server

FlagsLists(lists) == ListsIn(lists, {"data"}, Selections, [data |-> FlagList!Data])

(* The page's one list.                                                     *)
LEMMA FlagsListsTyped ==
  ASSUME NEW lists
  PROVE  FlagsLists(lists) <=> lists \in [data : FlagList!ListOf(Selections, FlagList!Data)]
  BY FlagsSame DEF FlagsLists, ListsIn

(* A page with another list is a page.                                      *)
LEMMA FlagsListsSet ==
  ASSUME NEW p \in FlagList!Page, NEW lists, FlagsLists(lists)
  PROVE  [p EXCEPT !.lists = lists] \in FlagList!Page /\ [p EXCEPT !.lists = lists].lists = lists
  BY FlagsListsTyped DEF FlagList!Page

(* The empty forms are forms.                                               *)
LEMMA FlagsFormsTyped ==
  /\ FlagList!NoFlag \in FlagList!Form
  /\ FlagList!VariantRows \in Seq(DraftRow({None}, 0..Whole))
<1>1. "" \in STRING
  BY StringsAssumption, Zenon
<1>2. FlagList!NoFlag \in FlagList!Form
  BY <1>1, Zenon DEF FlagList!NoFlag, FlagList!Form
<1>3. 0 \in 0..Whole /\ Whole \in 0..Whole
  BY WholeAssumption
<1>4. ASSUME NEW share \in 0..Whole, NEW is_control \in BOOLEAN
      PROVE  [id |-> None, name |-> "", share |-> share, is_control |-> is_control] \in DraftRow({None}, 0..Whole)
  BY <1>1, Zenon DEF DraftRow
<1>5. ASSUME NEW S, NEW x \in S, NEW y \in S PROVE <<x, y>> \in Seq(S)
  OBVIOUS
<1>6. /\ [id |-> None, name |-> "", share |-> Whole, is_control |-> TRUE] \in DraftRow({None}, 0..Whole)
      /\ [id |-> None, name |-> "", share |-> 0, is_control |-> FALSE] \in DraftRow({None}, 0..Whole)
  BY <1>3, <1>4, Zenon
<1>7. FlagList!VariantRows \in Seq(DraftRow({None}, 0..Whole))
  BY <1>5, <1>6, Zenon DEF FlagList!VariantRows
<1> QED BY <1>2, <1>7

(* An edit leaves the drafts drafts.                                        *)
LEMMA FlagsRows ==
  ASSUME NEW rows \in Seq(DraftRow({None}, 0..Whole)), NEW drafts \in FlagList!Edits(rows)
  PROVE  drafts \in Seq(DraftRow({None}, 0..Whole))
<1>0. \/ drafts = AddRow(rows, None)
      \/ \E i \in DOMAIN rows, name \in FlagNames : drafts = RenameRow(rows, i, name)
      \/ \E i \in DOMAIN rows \ Controls(rows) : drafts = RemoveRow(rows, i)
      \/ \E i \in DOMAIN rows \ Controls(rows), share \in Weights : drafts = WeighRow(rows, i, share)
  BY FlagsDrafts DEF FlagList!Edits
<1>1. FlagNames \subseteq STRING /\ Weights \subseteq Int /\ None \in {None} /\ 0..Whole \in Shares
  BY FlagsAssumption, RulesAssumption, Zenon DEF Shares
<1>2. CASE drafts = AddRow(rows, None)
  BY <1>1, <1>2, AddedRow
<1>3. CASE \E i \in DOMAIN rows, name \in FlagNames : drafts = RenameRow(rows, i, name)
  BY <1>1, <1>3, RenamedRow
<1>4. CASE \E i \in DOMAIN rows \ Controls(rows) : drafts = RemoveRow(rows, i)
  BY <1>1, <1>4, RemovedRow
<1>5. CASE \E i \in DOMAIN rows \ Controls(rows), share \in Weights : drafts = WeighRow(rows, i, share)
  BY <1>1, <1>5, WeighedRow
<1> QED BY <1>0, <1>2, <1>3, <1>4, <1>5

-----------------------------------------------------------------------------
(* The flags page: the invariant                                            *)

(* Switches and writes are not in flight together, and loads take their     *)
(* time only where there are switches.                                      *)
FlagsMode ==
  /\ page.live = IF page.doing = "toggles" THEN "data" ELSE "none"
  /\ \A c \in flight :
       c.op \in IF page.doing = "toggles" THEN {"toggle", "lift", "delete"} ELSE {"create", "bulk", "update"}

(* The dialog edits the flag it was opened on; one opened for a new flag     *)
(* edits what a creation that ended left in it, if anything.                 *)
FlagsOpened ==
  IF page.editingFlag = None THEN page.isDialogOpen => page.opened = None
  ELSE \/ page.crossed /\ (page.isDialogOpen => page.opened = None)
       \/ page.isDialogOpen /\ page.opened = page.editingFlag

(* The variants of a flag are on their way while its creation has yet to be *)
(* answered, or the call that stores them has yet to be carried out.        *)
FlagsFollow ==
  \A flag \in server.flags : flag.multivariate =>
    \/ flag.id \in server.sets \/ flag.id \in page.abandoned
    \/ \E c \in flight : /\ c.flag = flag.id
                         /\ \/ c.op = "create" /\ c.state = "done" /\ c.form.multivariate
                            \/ c.op = "bulk" /\ c.state # "done"

(* A toggle is refused because its flag is gone.                            *)
FlagsGone == \A c \in flight : c.op = "toggle" /\ c.state = "refused" => FlagList!FlagAt(c.flag) = {}

(* What is stored, for each selection; the calls whose answer loads it      *)
(* again; and the switches that are still to be carried out.                *)
FlagsShows == [at \in Selections |-> FlagList!Stored(at)]

Reloading(calls) ==
  \E c \in calls : c.op = "bulk" \/ (c.op \in {"create", "update", "lift", "delete"} /\ c.state = "done")

Switching(calls) == {c \in calls : c.op = "toggle"}

Waiting(calls) == {c \in calls : c.op = "toggle" /\ c.state = "sent"}

(* A flag as the switches will leave it.                                    *)
Moved(calls, flag) ==
  [flag EXCEPT !.is_enabled = IF \E c \in calls : c.flag = flag.id THEN \E c \in calls : c.flag = flag.id /\ c.next ELSE @]

MovedFlags(calls, flags) == {Moved(calls, flag) : flag \in flags}

(* While switches are in flight the page is ahead of what is stored, by one *)
(* switch of a flag at most, or excused.                                    *)
FlagsCurrent(list, switching, waiting, shows, at) ==
  IF switching = {} THEN Current(list, shows, at)
  ELSE list.loads = <<>> =>
         \/ list.excused
         \/ /\ \A c, d \in switching : c.flag = d.flag => c = d
            /\ list.rows = [shows[at] EXCEPT !.flags = MovedFlags(waiting, @)]

FlagsShown ==
  Reloading(flight) \/ FlagsCurrent(page.lists["data"], Switching(flight), Waiting(flight), FlagsShows, page.at)

FlagsInv == FlagList!TypeOK /\ FlagsMode /\ FlagsOpened /\ FlagsFollow /\ FlagsGone /\ FlagsShown

-----------------------------------------------------------------------------
(* What a typed state holds.                                                *)
LEMMA FlagsData ==
  ASSUME FlagList!TypeOK
  PROVE  /\ page \in FlagList!Page /\ server \in FlagList!Server /\ flight \subseteq FlagList!Call
         /\ page.at \in Selections /\ page.lists["data"] \in ListOf(Selections, FlagList!Data)
         /\ FlagsLists(page.lists)
         /\ FlagList!data \in FlagList!Data /\ FlagList!data.flags \subseteq FlagList!FlagRow
<1>1. /\ page \in FlagList!Page /\ server \in FlagList!Server /\ flight \subseteq FlagList!Call
      /\ page.at \in Selections /\ page.lists \in [data : FlagList!ListOf(Selections, FlagList!Data)]
  BY DEF FlagList!TypeOK, FlagList!Page
<1>2. page.lists["data"] \in ListOf(Selections, FlagList!Data)
  BY <1>1, FlagsSame
<1>3. FlagList!data \in FlagList!Data
  BY <1>2 DEF FlagList!data, ListOf
<1>4. FlagsLists(page.lists)
  BY <1>1, FlagsListsTyped
<1> QED BY <1>1, <1>2, <1>3, <1>4 DEF FlagList!Data

(* A step that changes the dialog alone.                                    *)
LEMMA FlagsDialog ==
  ASSUME FlagsInv, page' \in FlagList!Page, FlagsOpened', UNCHANGED <<server, flight>>,
         page'.lists = page.lists, page'.at = page.at, page'.live = page.live, page'.doing = page.doing,
         page'.abandoned = page.abandoned
  PROVE  FlagsInv' /\ FlagList!SavesOpened
<1>1. FlagList!TypeOK' /\ FlagsMode' /\ FlagsFollow' /\ FlagsGone'
  BY DEF FlagsInv, FlagList!TypeOK, FlagsMode, FlagsFollow, FlagsGone, FlagList!FlagAt
<1>2. FlagsShows' = FlagsShows
  BY DEF FlagsShows, FlagList!Stored
<1>3. FlagsShown'
  BY <1>2 DEF FlagsInv, FlagsShown
<1>4. FlagList!SavesOpened
  BY DEF FlagList!SavesOpened
<1> QED BY <1>1, <1>3, <1>4 DEF FlagsInv

(* A step that sends a call other than a switch.                            *)
LEMMA FlagsSend ==
  ASSUME FlagsInv, NEW call \in FlagList!Call, call.state = "sent", call.op # "toggle", call.op # "bulk",
         flight' = flight \cup {call}, UNCHANGED <<page, server>>,
         call.op \in IF page.doing = "toggles" THEN {"lift", "delete"} ELSE {"create", "update"},
         call.op = "update" => call.flag = page.editingFlag /\ page.editingFlag # None /\ page.isDialogOpen,
         call.op = "create" => page.editingFlag = None /\ page.isDialogOpen
  PROVE  FlagsInv' /\ FlagList!SavesOpened
<1>1. FlagList!TypeOK' /\ FlagsMode' /\ FlagsFollow' /\ FlagsGone' /\ FlagsOpened'
  BY DEF FlagsInv, FlagList!TypeOK, FlagsMode, FlagsFollow, FlagsGone, FlagsOpened, FlagList!FlagAt
<1>2. FlagsShows' = FlagsShows
  BY DEF FlagsShows, FlagList!Stored
<1>3. Switching(flight') = Switching(flight) /\ Waiting(flight') = Waiting(flight) /\ (Reloading(flight) => Reloading(flight'))
  BY DEF Switching, Waiting, Reloading
<1>4. FlagsShown'
  BY <1>2, <1>3 DEF FlagsInv, FlagsShown
<1>5. FlagList!SavesOpened
  BY DEF FlagList!SavesOpened, FlagsInv, FlagsOpened
<1> QED BY <1>1, <1>4, <1>5 DEF FlagsInv

(* The flag dialog: opening, typing, editing variants, sending.             *)
LEMMA FlagsCreation ==
  ASSUME FlagsInv, page.doing # "toggles",
         FlagList!FlagDialog \/ FlagList!EditVariantRows \/ \E flag \in FlagList!data.flags : FlagList!handleEdit(flag)
  PROVE  FlagsInv' /\ FlagList!SavesOpened
<1>0. /\ page \in FlagList!Page /\ page.form \in FlagList!Form /\ page.variantRows \in Seq(DraftRow({None}, 0..Whole))
      /\ FlagList!data.flags \subseteq FlagList!FlagRow
  BY FlagsData DEF FlagsInv, FlagList!Page, FlagList!Draft, DraftRow
<1>1. CASE FlagList!NewFlag
  <2>1. page' = [page EXCEPT !.isDialogOpen = TRUE, !.opened = None] /\ ~page.isDialogOpen /\ UNCHANGED <<server, flight>>
    BY <1>1 DEF FlagList!NewFlag, FlagList!Dialog
  <2>2. page' \in FlagList!Page
    BY <1>0, <2>1 DEF FlagList!Page
  <2>3. FlagsOpened'
    BY <1>0, <2>1 DEF FlagsInv, FlagsOpened, FlagList!Page
  <2> QED BY <1>0, <2>1, <2>2, <2>3, FlagsDialog DEF FlagList!Page
<1>2. CASE FlagList!CloseDialog
  <2>1. /\ page' = [page EXCEPT !.form = FlagList!NoFlag, !.variantRows = FlagList!VariantRows, !.isDialogOpen = FALSE,
                                 !.editingFlag = None, !.opened = None, !.crossed = FALSE]
        /\ UNCHANGED <<server, flight>>
    BY <1>2 DEF FlagList!CloseDialog, FlagList!Dialog, FlagList!resetFlagForm
  <2>2. page' \in FlagList!Page
    BY <1>0, <2>1, FlagsFormsTyped DEF FlagList!Page, FlagList!Draft, DraftRow
  <2>3. FlagsOpened'
    BY <1>0, <2>1 DEF FlagsOpened, FlagList!Page
  <2> QED BY <1>0, <2>1, <2>2, <2>3, FlagsDialog DEF FlagList!Page
<1>3. ASSUME NEW form \in FlagForms, FlagList!ChangeForm(form) PROVE FlagsInv' /\ FlagList!SavesOpened
  <2>1. page' = [page EXCEPT !.form = form] /\ UNCHANGED <<server, flight>> /\ form \in FlagList!Form
    BY <1>3, FlagsAssumption DEF FlagList!ChangeForm, FlagList!Dialog
  <2>2. page' \in FlagList!Page
    BY <1>0, <2>1 DEF FlagList!Page
  <2>3. FlagsOpened'
    BY <1>0, <2>1 DEF FlagsInv, FlagsOpened, FlagList!Page
  <2> QED BY <1>0, <2>1, <2>2, <2>3, FlagsDialog DEF FlagList!Page
<1>4. CASE FlagList!EditVariantRows
  <2>1. PICK rows : page' = [page EXCEPT !.variantRows = rows] /\ UNCHANGED <<server, flight>> /\ rows \in Seq(DraftRow({None}, 0..Whole))
    BY <1>0, <1>4, FlagsRows DEF FlagList!EditVariantRows, FlagList!Dialog
  <2>2. page' \in FlagList!Page
    BY <1>0, <2>1 DEF FlagList!Page, FlagList!Draft, DraftRow
  <2>3. FlagsOpened'
    BY <1>0, <2>1 DEF FlagsInv, FlagsOpened, FlagList!Page
  <2> QED BY <1>0, <2>1, <2>2, <2>3, FlagsDialog DEF FlagList!Page
<1>5. ASSUME NEW flag \in FlagList!data.flags, FlagList!handleEdit(flag) PROVE FlagsInv' /\ FlagList!SavesOpened
  <2>1. /\ page' = [page EXCEPT !.isDialogOpen = TRUE, !.editingFlag = flag, !.form = FlagList!FlagForm(flag),
                                !.opened = flag, !.crossed = FALSE]
        /\ UNCHANGED <<server, flight>> /\ flag \in FlagList!FlagRow
    BY <1>0, <1>5, Zenon DEF FlagList!handleEdit, FlagList!Dialog
  <2>2. FlagList!FlagForm(flag) \in FlagList!Form
    BY <2>1 DEF FlagList!FlagForm, FlagList!Form, FlagList!FlagRow
  <2>3. page' \in FlagList!Page
    BY <1>0, <2>1, <2>2 DEF FlagList!Page
  <2>4. FlagsOpened'
    BY <1>0, <2>1 DEF FlagsOpened, FlagList!Page
  <2> QED BY <1>0, <2>1, <2>3, <2>4, FlagsDialog DEF FlagList!Page
<1>6. CASE FlagList!handleCreate
  <2> DEFINE call == [op |-> "create", state |-> "sent", at |-> page.at, flag |-> None,
                      form |-> page.form, rows |-> page.variantRows]
  <2>1. call \in FlagList!Call
    BY <1>0 DEF FlagList!Call, FlagList!Page
  <2>2. flight' = flight \cup {call} /\ UNCHANGED <<page, server>> /\ page.editingFlag = None /\ page.isDialogOpen
    BY <1>6 DEF FlagList!handleCreate, FlagList!Send, FlagList!SaveEnabled
  <2> QED BY <2>1, <2>2, FlagsSend
<1> QED BY <1>1, <1>2, <1>3, <1>4, <1>5, <1>6 DEF FlagList!FlagDialog

-----------------------------------------------------------------------------
(* The flags page: switches                                                 *)

(* A switch that moves changes the state of its flag and nothing else.      *)
LEMMA MovedFlag ==
  ASSUME NEW flag \in FlagList!FlagRow, NEW calls, \A c \in calls : c.next \in BOOLEAN
  PROVE  /\ Moved(calls, flag) \in FlagList!FlagRow
         /\ Moved(calls, flag).id = flag.id /\ Moved(calls, flag).environment = flag.environment
         /\ (\A c \in calls : c.flag # flag.id) => Moved(calls, flag) = flag
<1> DEFINE moved == IF \E c \in calls : c.flag = flag.id THEN \E c \in calls : c.flag = flag.id /\ c.next ELSE flag.is_enabled
<1>1. moved \in BOOLEAN
  BY DEF FlagList!FlagRow
<1>2. (\A c \in calls : c.flag # flag.id) => moved = flag.is_enabled
  BY Zenon
<1>3. Moved(calls, flag) = [flag EXCEPT !.is_enabled = moved]
  BY DEF Moved
<1> HIDE DEF moved
<1> QED BY <1>1, <1>2, <1>3 DEF FlagList!FlagRow

(* The flag of a switch that is waiting, alone, is as it leaves it.         *)
LEMMA MovedTo ==
  ASSUME NEW flag \in FlagList!FlagRow, NEW calls, NEW call \in calls, call.flag = flag.id, call.next \in BOOLEAN,
         \A c \in calls : c.flag = call.flag => c = call
  PROVE  Moved(calls, flag) = [flag EXCEPT !.is_enabled = call.next]
<1>1. (\E c \in calls : c.flag = flag.id /\ c.next) <=> call.next
  OBVIOUS
<1>2. \E c \in calls : c.flag = flag.id
  OBVIOUS
<1>3. (IF \E c \in calls : c.flag = flag.id THEN \E c \in calls : c.flag = flag.id /\ c.next ELSE flag.is_enabled) = call.next
  BY <1>1, <1>2, Zenon
<1> QED BY <1>3 DEF Moved

(* The calls about other flags do not move this one.                        *)
LEMMA MovedElse ==
  ASSUME NEW flag, NEW calls, NEW others, NEW id, flag.id # id,
         \A c : c.flag # id => (c \in calls <=> c \in others)
  PROVE  Moved(calls, flag) = Moved(others, flag)
<1>1. (\E c \in calls : c.flag = flag.id) <=> (\E c \in others : c.flag = flag.id)
  OBVIOUS
<1>2. (\E c \in calls : c.flag = flag.id /\ c.next) <=> (\E c \in others : c.flag = flag.id /\ c.next)
  OBVIOUS
<1> QED BY <1>1, <1>2, Zenon DEF Moved

(* A switch is moved.                                                       *)
LEMMA SwitchSent ==
  ASSUME NEW flags \in SUBSET FlagList!FlagRow, NEW calls, NEW call, \A c \in calls : c.flag # call.flag,
         \A c \in calls \cup {call} : c.next \in BOOLEAN
  PROVE  FlagList!setFlagState(MovedFlags(calls, flags), call.flag, call.next) = MovedFlags(calls \cup {call}, flags)
<1> DEFINE state(flag) == IF flag.id = call.flag THEN [flag EXCEPT !.is_enabled = call.next] ELSE flag
<1>1. ASSUME NEW flag \in flags PROVE state(Moved(calls, flag)) = Moved(calls \cup {call}, flag)
  <2>1. flag \in FlagList!FlagRow /\ Moved(calls, flag).id = flag.id
    BY MovedFlag
  <2>2. CASE flag.id = call.flag
    <3>1. Moved(calls, flag) = flag
      BY <2>1, <2>2, MovedFlag
    <3>2. PICK all : all = calls \cup {call}
      OBVIOUS
    <3>3. call \in all /\ call.next \in BOOLEAN /\ \A c \in all : c.flag = call.flag => c = call
      BY <3>2
    <3>4. Moved(all, flag) = [flag EXCEPT !.is_enabled = call.next]
      BY <2>1, <2>2, <3>3, MovedTo
    <3> QED BY <2>2, <3>1, <3>2, <3>4
  <2>3. CASE flag.id # call.flag
    BY <2>1, <2>3, MovedElse
  <2> QED BY <2>2, <2>3
<1>2. FlagList!setFlagState(MovedFlags(calls, flags), call.flag, call.next) = {state(Moved(calls, flag)) : flag \in flags}
  BY DEF FlagList!setFlagState, MovedFlags
<1> HIDE DEF state
<1> QED BY <1>1, <1>2 DEF MovedFlags

(* A switch that was waiting is carried out.                                *)
LEMMA SwitchDone ==
  ASSUME NEW flags \in SUBSET FlagList!FlagRow, NEW calls, NEW call \in calls,
         \A c \in calls : c.flag = call.flag => c = call, \A c \in calls : c.next \in BOOLEAN
  PROVE  MovedFlags(calls \ {call}, FlagList!setFlagState(flags, call.flag, call.next)) = MovedFlags(calls, flags)
<1> DEFINE state(flag) == IF flag.id = call.flag THEN [flag EXCEPT !.is_enabled = call.next] ELSE flag
<1>1. ASSUME NEW flag \in flags PROVE Moved(calls \ {call}, state(flag)) = Moved(calls, flag)
  <2>1. flag \in FlagList!FlagRow /\ call.next \in BOOLEAN
    OBVIOUS
  <2>2. CASE flag.id = call.flag
    <3>1. state(flag) \in FlagList!FlagRow /\ state(flag).id = call.flag /\ state(flag) = [flag EXCEPT !.is_enabled = call.next]
      BY <2>1, <2>2 DEF FlagList!FlagRow
    <3> HIDE DEF state
    <3>2. PICK others : others = calls \ {call}
      OBVIOUS
    <3>3. \A c \in others : c.next \in BOOLEAN /\ c.flag # state(flag).id
      BY <3>1, <3>2
    <3>4. Moved(others, state(flag)) = state(flag)
      BY <3>1, <3>3, MovedFlag
    <3> QED BY <2>1, <2>2, <3>1, <3>2, <3>4, MovedTo
  <2>3. CASE flag.id # call.flag
    BY <2>3, MovedElse
  <2> QED BY <2>2, <2>3
<1>2. MovedFlags(calls \ {call}, FlagList!setFlagState(flags, call.flag, call.next)) = {Moved(calls \ {call}, state(flag)) : flag \in flags}
  BY DEF FlagList!setFlagState, MovedFlags
<1> HIDE DEF state
<1> QED BY <1>1, <1>2 DEF MovedFlags

(* A switch of a flag that is gone leaves every other.                      *)
LEMMA SwitchGone ==
  ASSUME NEW flags \in SUBSET FlagList!FlagRow, NEW calls, NEW call, \A flag \in flags : flag.id # call.flag,
         \A c \in calls : c.next \in BOOLEAN
  PROVE  /\ MovedFlags(calls \ {call}, flags) = MovedFlags(calls, flags)
         /\ \A state : FlagList!setFlagState(MovedFlags(calls, flags), call.flag, state) = MovedFlags(calls, flags)
<1>1. ASSUME NEW flag \in flags PROVE Moved(calls \ {call}, flag) = Moved(calls, flag) /\ Moved(calls, flag).id # call.flag
  <2>1. Moved(calls, flag).id = flag.id
    BY MovedFlag
  <2> QED BY <2>1, MovedElse
<1> QED BY <1>1 DEF MovedFlags, FlagList!setFlagState

(* With no toggle in flight nothing moves.                                  *)
LEMMA NothingWaiting ==
  ASSUME NEW flags \in SUBSET FlagList!FlagRow
  PROVE  MovedFlags({}, flags) = flags
<1>1. \A flag \in flags : Moved({}, flag) = flag
  BY MovedFlag
<1> QED BY <1>1 DEF MovedFlags

-----------------------------------------------------------------------------
(* The flags page: what the server makes of a call                          *)

(* The calls when one of them is answered.                                  *)
LEMMA FlagsBecome ==
  ASSUME flight \subseteq FlagList!Call, NEW c \in flight, c.state = "sent", NEW state \in {"done", "refused"},
         c.op = "create" => state = "refused"
  PROVE  /\ FlagList!Become(flight, c, state) \subseteq FlagList!Call
         /\ LET d == [c EXCEPT !.state = state] IN
            /\ FlagList!Become(flight, c, state) = (flight \ {c}) \cup {d}
            /\ d.state = state /\ d.op = c.op /\ d.flag = c.flag
            /\ c.op = "toggle" => d.next = c.next
<1> DEFINE d == [c EXCEPT !.state = state]
<1>1. c \in FlagList!Call
  OBVIOUS
<1>2. d \in FlagList!Call
  BY <1>1 DEF FlagList!Call, FlagList!CallStates
<1>3. d.state = state /\ d.op = c.op /\ d.flag = c.flag /\ (c.op = "toggle" => d.next = c.next)
  BY <1>1 DEF FlagList!Call
<1>4. FlagList!Become(flight, c, state) = (flight \ {c}) \cup {d}
  BY DEF FlagList!Become
<1> HIDE DEF d
<1>5. FlagList!Become(flight, c, state) \subseteq FlagList!Call
  BY <1>2, <1>4
<1> QED BY <1>3, <1>4, <1>5 DEF d

(* What the calls of a typed flight have.                                   *)
LEMMA FlagsOps ==
  ASSUME NEW c \in FlagList!Call
  PROVE  /\ c.at \in Selections
         /\ c.op \in {"create", "bulk", "update", "toggle", "lift", "delete"}
         /\ c.state \in {"sent", "done", "refused"}
         /\ c.op = "create" => c.form \in FlagList!Form /\ c.rows \in Seq(FlagList!Draft)
         /\ c.op = "create" /\ c.state = "done" => c.flag \in FlagIds
         /\ c.op = "create" /\ c.state # "done" => c.flag = None
         /\ c.op \in {"bulk", "toggle", "lift", "delete"} => c.flag \in FlagIds
         /\ c.op = "bulk" => c.form \in FlagList!Form /\ c.rows \in Seq(FlagList!Draft)
         /\ c.op = "update" => c.flag \in FlagList!FlagRow /\ c.name \in STRING
         /\ c.op = "toggle" => c.next \in BOOLEAN
  BY DEF FlagList!Call, FlagList!CallStates

(* A refusal: what is stored stays, and the flag is no longer ahead.        *)
LEMMA FlagsRefused ==
  ASSUME FlagsInv, NEW c \in flight, c.state = "sent", c.op = "toggle" => FlagList!FlagAt(c.flag) = {},
         flight' = FlagList!Become(flight, c, "refused"), UNCHANGED <<page, server>>
  PROVE  FlagsInv'
<1> DEFINE d == [c EXCEPT !.state = "refused"]
<1>0. page \in FlagList!Page /\ server \in FlagList!Server /\ flight \subseteq FlagList!Call /\ page.at \in Selections
  BY FlagsData DEF FlagsInv
<1>1. /\ flight' \subseteq FlagList!Call /\ flight' = (flight \ {c}) \cup {d}
      /\ d.state = "refused" /\ d.op = c.op /\ d.flag = c.flag
      /\ c.op = "toggle" => d.next = c.next
  BY <1>0, FlagsBecome
<1> HIDE DEF d
<1>2. FlagList!TypeOK'
  BY <1>0, <1>1 DEF FlagList!TypeOK
<1>3. FlagsMode' /\ FlagsOpened' /\ FlagsFollow' /\ FlagsGone'
  BY <1>1 DEF FlagsInv, FlagsMode, FlagsOpened, FlagsFollow, FlagsGone, FlagList!FlagAt
<1>4. FlagsShows' = FlagsShows
  BY DEF FlagsShows, FlagList!Stored
<1>5. Reloading(flight) => Reloading(flight')
  BY <1>1 DEF Reloading
<1>6. CASE c.op # "toggle"
  <2>1. Switching(flight') = Switching(flight) /\ Waiting(flight') = Waiting(flight)
    BY <1>1, <1>6 DEF Switching, Waiting
  <2>2. FlagsShown'
    BY <1>4, <1>5, <2>1 DEF FlagsInv, FlagsShown
  <2> QED BY <1>2, <1>3, <2>2 DEF FlagsInv
<1>7. CASE c.op = "toggle"
  <2> DEFINE stored == FlagList!Stored(page.at).flags
  <2>1. Waiting(flight') = Waiting(flight) \ {c} /\ Switching(flight') = (Switching(flight) \ {c}) \cup {d} /\ c \in Switching(flight)
    BY <1>1, <1>7 DEF Waiting, Switching
  <2>2. stored \in SUBSET FlagList!FlagRow /\ \A flag \in stored : flag.id # c.flag
    BY <1>0, <1>7 DEF FlagList!Stored, FlagList!Server, FlagList!FlagAt
  <2>3. \A w \in Waiting(flight) : w.next \in BOOLEAN
    BY <1>0, FlagsOps DEF Waiting
  <2> HIDE DEF stored
  <2>4. MovedFlags(Waiting(flight'), stored) = MovedFlags(Waiting(flight), stored)
    BY <2>1, <2>2, <2>3, SwitchGone
  <2>5. /\ Switching(flight') # {} /\ Switching(flight) # {}
        /\ (\A x, y \in Switching(flight) : x.flag = y.flag => x = y) => (\A x, y \in Switching(flight') : x.flag = y.flag => x = y)
    BY <1>1, <2>1
  <2>6. FlagsShows[page.at].flags = stored
    BY <1>0 DEF FlagsShows, stored
  <2>7. [FlagsShows[page.at] EXCEPT !.flags = MovedFlags(Waiting(flight'), @)] = [FlagsShows[page.at] EXCEPT !.flags = MovedFlags(Waiting(flight), @)]
    BY <2>4, <2>6
  <2>8. FlagsShown'
    BY <1>4, <1>5, <2>5, <2>7 DEF FlagsInv, FlagsShown, FlagsCurrent
  <2> QED BY <1>2, <1>3, <2>8 DEF FlagsInv
<1> QED BY <1>6, <1>7

(* A call other than a creation is carried out; the flags that are left are *)
(* the flags that were there, by identifier.                                *)
LEMMA FlagsDone ==
  ASSUME FlagsInv, NEW c \in flight, c.state = "sent", c.op # "create", UNCHANGED page, server' \in FlagList!Server,
         flight' = FlagList!Become(flight, c, "done"),
         \A flag \in server'.flags : \E was \in server.flags :
            /\ flag.id = was.id /\ flag.multivariate = was.multivariate
            /\ was.id \in server.sets => flag.id \in server'.sets,
         c.op = "bulk" => c.flag \in server'.sets,
         c.op = "toggle" => FlagsShown'
  PROVE  FlagsInv'
<1> DEFINE d == [c EXCEPT !.state = "done"]
<1>0. page \in FlagList!Page /\ flight \subseteq FlagList!Call
  BY FlagsData DEF FlagsInv
<1>1. /\ flight' \subseteq FlagList!Call /\ flight' = (flight \ {c}) \cup {d}
      /\ d.state = "done" /\ d.op = c.op /\ d.flag = c.flag
  BY <1>0, FlagsBecome
<1> HIDE DEF d
<1>2. FlagList!TypeOK'
  BY <1>0, <1>1 DEF FlagList!TypeOK
<1>3. FlagsMode' /\ FlagsOpened'
  BY <1>1 DEF FlagsInv, FlagsMode, FlagsOpened
<1>4. FlagsGone'
  BY <1>1 DEF FlagsInv, FlagsGone, FlagList!FlagAt
<1>5. FlagsFollow'
  <2> SUFFICES ASSUME NEW flag \in server'.flags, flag.multivariate
               PROVE  \/ flag.id \in server'.sets \/ flag.id \in page'.abandoned
                      \/ \E b \in flight' : /\ b.flag = flag.id
                                            /\ \/ b.op = "create" /\ b.state = "done" /\ b.form.multivariate
                                               \/ b.op = "bulk" /\ b.state # "done"
    BY DEF FlagsFollow
  <2>1. PICK was \in server.flags : /\ flag.id = was.id /\ was.multivariate
                                    /\ was.id \in server.sets => flag.id \in server'.sets
    OBVIOUS
  <2>2. CASE was.id \in server.sets \/ was.id \in page.abandoned
    BY <2>1, <2>2
  <2>3. ASSUME NEW b \in flight, b.flag = was.id, (b.op = "create" /\ b.state = "done" /\ b.form.multivariate) \/ (b.op = "bulk" /\ b.state # "done")
        PROVE  flag.id \in server'.sets \/ b \in flight'
    BY <1>1, <2>1, <2>3
  <2> QED BY <2>1, <2>2, <2>3 DEF FlagsInv, FlagsFollow
<1>6. c.op # "toggle" => Reloading(flight')
  <2>1. c.op \in {"bulk", "update", "lift", "delete", "toggle"}
    BY <1>0, FlagsOps
  <2> QED BY <1>1, <2>1 DEF Reloading
<1>7. FlagsShown'
  BY <1>6 DEF FlagsShown
<1> QED BY <1>2, <1>3, <1>4, <1>5, <1>7 DEF FlagsInv

(* What a call leaves stored.                                               *)
FlagsWith(flags, sets) == [server EXCEPT !.flags = flags, !.sets = sets, !.writes = server.writes + 1]

(* What is stored after a write is well typed.                              *)
LEMMA FlagsServer ==
  ASSUME server \in FlagList!Server, NEW flags \in SUBSET FlagList!FlagRow, NEW sets \in SUBSET FlagIds,
         server' = FlagsWith(flags, sets)
  PROVE  server' \in FlagList!Server /\ server'.flags = flags /\ server'.sets = sets
<1>1. /\ server = [flags |-> server.flags, sets |-> server.sets, writes |-> server.writes] /\ server.writes \in Nat
  BY DEF FlagList!Server
<1>2. PICK w \in Nat : w = server.writes + 1
  BY <1>1
<1>3. server' = [flags |-> flags, sets |-> sets, writes |-> w]
  BY <1>1, <1>2 DEF FlagsWith
<1> QED BY <1>3 DEF FlagList!Server

(* A flag is created.                                                       *)
LEMMA FlagsCreated ==
  ASSUME FlagsInv, NEW c \in flight, c.op = "create", c.state = "sent", NEW id \in FlagIds, FlagList!FlagAt(id) = {},
         server' = [server EXCEPT !.writes = @ + 1, !.flags = @ \cup
                      {[id |-> id, environment |-> c.form.environment, key |-> c.form.key, name |-> c.form.name,
                        is_enabled |-> FALSE, override |-> None, multivariate |-> c.form.multivariate]}],
         c.form.environment # None,
         flight' = (flight \ {c}) \cup {[c EXCEPT !.state = "done", !.flag = id]}, UNCHANGED page
  PROVE  FlagsInv'
<1> DEFINE d == [c EXCEPT !.state = "done", !.flag = id]
           flag == [id |-> id, environment |-> c.form.environment, key |-> c.form.key, name |-> c.form.name,
                    is_enabled |-> FALSE, override |-> None, multivariate |-> c.form.multivariate]
<1>0. page \in FlagList!Page /\ server \in FlagList!Server /\ flight \subseteq FlagList!Call /\ c \in FlagList!Call /\ c.form \in FlagList!Form
  BY FlagsData, FlagsOps DEF FlagsInv
<1>1. d \in FlagList!Call /\ d.op = "create" /\ d.state = "done" /\ d.flag = id /\ d.form = c.form
  BY <1>0 DEF FlagList!Call
<1>2. flag \in FlagList!FlagRow /\ flag.id = id /\ flag.multivariate = c.form.multivariate
  BY <1>0 DEF FlagList!Form, FlagList!FlagRow
<1>3. flight' = (flight \ {c}) \cup {d} /\ flight' \subseteq FlagList!Call
  BY <1>0, <1>1
<1>4. server'.flags = server.flags \cup {flag} /\ server'.sets = server.sets /\ server' \in FlagList!Server
  <2>1. server.flags \cup {flag} \subseteq FlagList!FlagRow /\ server.sets \subseteq FlagIds
    BY <1>0, <1>2 DEF FlagList!Server
  <2>2. server' = FlagsWith(server.flags \cup {flag}, server.sets)
    BY <1>0 DEF FlagList!Server, FlagsWith
  <2> HIDE DEF flag
  <2> QED BY <1>0, <2>1, <2>2, FlagsServer
<1> HIDE DEF d, flag
<1>5. FlagList!TypeOK'
  BY <1>0, <1>3, <1>4 DEF FlagList!TypeOK
<1>6. FlagsMode' /\ FlagsOpened'
  BY <1>1, <1>3 DEF FlagsInv, FlagsMode, FlagsOpened
<1>7. FlagsGone'
  <2>1. \A b \in flight' : b.op # "toggle"
    BY <1>1, <1>3 DEF FlagsInv, FlagsMode
  <2> QED BY <2>1 DEF FlagsGone
<1>8. FlagsFollow'
  BY <1>1, <1>2, <1>3, <1>4 DEF FlagsInv, FlagsFollow
<1>9. FlagsShown'
  BY <1>1, <1>3 DEF FlagsShown, Reloading
<1> QED BY <1>5, <1>6, <1>7, <1>8, <1>9 DEF FlagsInv

(* A switch is carried out: what is stored is one switch nearer to what the *)
(* page shows.                                                              *)
LEMMA FlagsToggled ==
  ASSUME FlagsInv, NEW c \in flight, c.op = "toggle", c.state = "sent", UNCHANGED page,
         server'.flags = FlagList!setFlagState(server.flags, c.flag, c.next),
         flight' = FlagList!Become(flight, c, "done")
  PROVE  FlagsShown'
<1> DEFINE d == [c EXCEPT !.state = "done"]
           stored == FlagList!Stored(page.at).flags
           list == page.lists["data"]
<1>0. /\ page \in FlagList!Page /\ server \in FlagList!Server /\ flight \subseteq FlagList!Call /\ page.at \in Selections
      /\ server.flags \subseteq FlagList!FlagRow /\ c.next \in BOOLEAN
  BY FlagsData, FlagsOps DEF FlagsInv, FlagList!Server
<1>1. /\ flight' = (flight \ {c}) \cup {d}
      /\ d.state = "done" /\ d.op = c.op /\ d.flag = c.flag
  BY <1>0, FlagsBecome
<1> HIDE DEF d
<1>2. Waiting(flight') = Waiting(flight) \ {c} /\ Switching(flight') = (Switching(flight) \ {c}) \cup {d}
      /\ c \in Switching(flight) /\ c \in Waiting(flight) /\ Waiting(flight) \subseteq Switching(flight)
  BY <1>1 DEF Waiting, Switching
<1>3. FlagList!Stored(page.at)' = [flags |-> FlagList!setFlagState(stored, c.flag, c.next), environments |-> FlagList!EnvironmentsIn(page.at)]
  <2> DEFINE state(flag) == IF flag.id = c.flag THEN [flag EXCEPT !.is_enabled = c.next] ELSE flag
             in == FlagList!EnvironmentsIn(page.at)
  <2>1. \A flag \in server.flags : state(flag).environment = flag.environment
    BY <1>0 DEF FlagList!FlagRow
  <2>2. server'.flags = {state(flag) : flag \in server.flags}
    BY DEF FlagList!setFlagState
  <2>3. FlagList!setFlagState({flag \in server.flags : flag.environment \in in}, c.flag, c.next)
          = {state(flag) : flag \in {f \in server.flags : f.environment \in in}}
    BY DEF FlagList!setFlagState
  <2> HIDE DEF state, in
  <2>4. {flag \in {state(f) : f \in server.flags} : flag.environment \in in} = {state(flag) : flag \in {f \in server.flags : f.environment \in in}}
    BY <2>1
  <2>5. {flag \in server'.flags : flag.environment \in in} = FlagList!setFlagState({flag \in server.flags : flag.environment \in in}, c.flag, c.next)
    BY <2>2, <2>3, <2>4, Zenon
  <2>6. stored = {flag \in server.flags : flag.environment \in in}
    BY DEF FlagList!Stored, in
  <2>7. FlagList!Stored(page.at)' = [flags |-> {flag \in server'.flags : flag.environment \in in}, environments |-> in]
    BY DEF FlagList!Stored, in
  <2> HIDE DEF stored
  <2> QED BY <2>5, <2>6, <2>7 DEF in
<1>4. /\ FlagsShows[page.at] = [flags |-> stored, environments |-> FlagList!EnvironmentsIn(page.at)]
      /\ FlagsShows'[page.at] = [flags |-> FlagList!setFlagState(stored, c.flag, c.next),
                                 environments |-> FlagList!EnvironmentsIn(page.at)]
  <2>1. FlagsShows[page.at] = FlagList!Stored(page.at) /\ FlagsShows'[page.at] = FlagList!Stored(page.at)'
    BY <1>0 DEF FlagsShows
  <2>2. FlagList!Stored(page.at) = [flags |-> stored, environments |-> FlagList!EnvironmentsIn(page.at)]
    BY DEF FlagList!Stored
  <2> QED BY <1>3, <2>1, <2>2
<1>5. stored \subseteq FlagList!FlagRow
  BY <1>0 DEF FlagList!Stored
<1> HIDE DEF stored, list
<1>6. ASSUME \A x, y \in Switching(flight) : x.flag = y.flag => x = y
      PROVE  /\ \A x, y \in Switching(flight') : x.flag = y.flag => x = y
             /\ MovedFlags(Waiting(flight'), FlagList!setFlagState(stored, c.flag, c.next)) = MovedFlags(Waiting(flight), stored)
  <2>1. \A x, y \in Switching(flight') : x.flag = y.flag => x = y
    BY <1>1, <1>2, <1>6
  <2>2. \A w \in Waiting(flight) : w.next \in BOOLEAN /\ (w.flag = c.flag => w = c)
    BY <1>0, <1>2, <1>6, FlagsOps DEF Waiting
  <2> QED BY <1>2, <1>5, <2>1, <2>2, SwitchDone, Zenon
<1>7. Reloading(flight) => Reloading(flight')
  BY <1>1 DEF Reloading
<1>8. ASSUME \A x, y \in Switching(flight) : x.flag = y.flag => x = y
      PROVE  [FlagsShows'[page.at] EXCEPT !.flags = MovedFlags(Waiting(flight'), @)] = [FlagsShows[page.at] EXCEPT !.flags = MovedFlags(Waiting(flight), @)]
  BY <1>4, <1>6, <1>8
<1>9. Switching(flight) # {} /\ Switching(flight') # {}
  BY <1>2
<1> QED BY <1>6, <1>7, <1>8, <1>9 DEF FlagsInv, FlagsShown, FlagsCurrent

(* The server carries a call out, or refuses it.                            *)
LEMMA FlagsHandled ==
  ASSUME FlagsInv, NEW c \in flight, FlagList!Handle(c)
  PROVE  FlagsInv' /\ FlagList!SavesOpened
<1>0. /\ page \in FlagList!Page /\ server \in FlagList!Server /\ flight \subseteq FlagList!Call /\ c \in FlagList!Call
      /\ server.flags \subseteq FlagList!FlagRow /\ server.sets \subseteq FlagIds
  BY FlagsData DEF FlagsInv, FlagList!Server
<1> DEFINE Written(flags, sets) ==
      /\ server' = FlagsWith(flags, sets)
      /\ flight' = FlagList!Become(flight, c, "done")
<1>1. ASSUME NEW flags \in SUBSET FlagList!FlagRow, NEW sets \in SUBSET FlagIds, Written(flags, sets)
      PROVE  server' \in FlagList!Server /\ server'.flags = flags /\ server'.sets = sets
  BY <1>0, <1>1, FlagsServer
<1>2. FlagList!SavesOpened
  <2>1. c.state = "sent" /\ c.op \in {"create", "bulk", "update", "toggle", "lift", "delete"}
    BY <1>0, FlagsOps, Zenon DEF FlagList!Handle, FlagList!HandleCreate, FlagList!HandleBulk,
       FlagList!HandleToggle, FlagList!HandleLift, FlagList!HandleWrite, FlagList!HandleUpdate,
       FlagList!HandleDelete
  <2>2. CASE flight' = FlagList!Become(flight, c, "refused")
    <3>1. flight' = (flight \ {c}) \cup {[c EXCEPT !.state = "refused"]} /\ [c EXCEPT !.state = "refused"].state = "refused"
      BY <1>0, <2>1, <2>2, FlagsBecome
    <3> QED BY <3>1 DEF FlagList!SavesOpened
  <2>3. CASE flight' = FlagList!Become(flight, c, "done") /\ c.op # "create"
    <3>1. flight' = (flight \ {c}) \cup {[c EXCEPT !.state = "done"]} /\ [c EXCEPT !.state = "done"].state = "done"
      BY <1>0, <2>1, <2>3, FlagsBecome
    <3> QED BY <3>1 DEF FlagList!SavesOpened
  <2>4. ASSUME NEW id, flight' = (flight \ {c}) \cup {[c EXCEPT !.state = "done", !.flag = id]}, c.op = "create"
        PROVE  FlagList!SavesOpened
    <3>1. [c EXCEPT !.state = "done", !.flag = id].state = "done"
      BY <1>0, <2>4 DEF FlagList!Call
    <3> QED BY <2>4, <3>1 DEF FlagList!SavesOpened
  <2> QED BY <2>2, <2>3, <2>4, Zenon DEF FlagList!Handle, FlagList!HandleCreate, FlagList!HandleBulk,
        FlagList!HandleToggle, FlagList!HandleLift, FlagList!HandleWrite, FlagList!HandleUpdate,
        FlagList!HandleDelete, FlagList!Done, FlagList!Refused
<1> SUFFICES FlagsInv'
  BY <1>2
<1>3. ASSUME c.state = "sent", FlagList!Refused(c), UNCHANGED page, c.op = "toggle" => FlagList!FlagAt(c.flag) = {} PROVE FlagsInv'
  BY <1>3, FlagsRefused DEF FlagList!Refused
<1>4. CASE FlagList!HandleCreate(c)
  <2>1. CASE FlagList!Refused(c)
    BY <1>3, <1>4, <2>1, Zenon DEF FlagList!HandleCreate
  <2>2. CASE ~FlagList!Refused(c)
    BY <1>4, <2>2, FlagsCreated, Zenon DEF FlagList!HandleCreate
  <2> QED BY <2>1, <2>2
<1>5. CASE FlagList!HandleBulk(c)
  <2>1. CASE FlagList!Refused(c)
    BY <1>3, <1>5, <2>1 DEF FlagList!HandleBulk
  <2>2. CASE ~FlagList!Refused(c)
    <3>1. Written(server.flags, server.sets \cup {c.flag}) /\ c.state = "sent" /\ c.op = "bulk" /\ UNCHANGED page
      BY <1>0, <1>5, <2>2 DEF FlagList!HandleBulk, FlagList!Done, FlagList!Server, FlagsWith
    <3>2. c.flag \in FlagIds
      BY <1>0, <3>1, FlagsOps
    <3>3. server' \in FlagList!Server /\ server'.flags = server.flags /\ server'.sets = server.sets \cup {c.flag}
      <4>1. server.sets \cup {c.flag} \subseteq FlagIds
        BY <1>0, <3>2
      <4> QED BY <1>0, <1>1, <3>1, <4>1, Zenon
    <3> QED BY <3>1, <3>3, FlagsDone
  <2> QED BY <2>1, <2>2
<1>6. CASE FlagList!HandleToggle(c)
  <2>1. CASE FlagList!FlagAt(c.flag) = {}
    BY <1>3, <1>6, <2>1 DEF FlagList!HandleToggle, FlagList!HandleWrite
  <2>2. CASE FlagList!FlagAt(c.flag) # {}
    <3> DEFINE flags == FlagList!setFlagState(server.flags, c.flag, c.next)
    <3>1. Written(flags, server.sets) /\ c.state = "sent" /\ c.op = "toggle" /\ UNCHANGED page
      BY <1>0, <1>6, <2>2 DEF FlagList!HandleToggle, FlagList!HandleWrite, FlagList!Done, FlagList!Server,
         FlagsWith
    <3>2. c.next \in BOOLEAN
      BY <1>0, <3>1, FlagsOps
    <3>3. flags \subseteq FlagList!FlagRow /\ \A flag \in flags : \E was \in server.flags : flag.id = was.id /\ flag.multivariate = was.multivariate
      BY <1>0, <3>2 DEF FlagList!setFlagState, FlagList!FlagRow
    <3>4. server' \in FlagList!Server /\ server'.flags = flags /\ server'.sets = server.sets
      BY <1>0, <1>1, <3>1, <3>3
    <3>5. FlagsShown'
      BY <3>1, <3>4, FlagsToggled
    <3> HIDE DEF flags
    <3> QED BY <3>1, <3>3, <3>4, <3>5, FlagsDone
  <2> QED BY <2>1, <2>2
<1>7. CASE FlagList!HandleLift(c)
  <2>1. CASE FlagList!FlagAt(c.flag) = {}
    BY <1>3, <1>7, <2>1 DEF FlagList!HandleLift, FlagList!HandleWrite
  <2>2. CASE FlagList!FlagAt(c.flag) # {}
    <3> DEFINE flags == {[flag EXCEPT !.override = IF flag.id = c.flag THEN None ELSE flag.override] : flag \in server.flags}
    <3>1. Written(flags, server.sets) /\ c.state = "sent" /\ c.op = "lift" /\ UNCHANGED page
      BY <1>0, <1>7, <2>2 DEF FlagList!HandleLift, FlagList!HandleWrite, FlagList!Done, FlagList!Server,
         FlagsWith
    <3>2. flags \subseteq FlagList!FlagRow /\ \A flag \in flags : \E was \in server.flags : flag.id = was.id /\ flag.multivariate = was.multivariate
      BY <1>0 DEF FlagList!FlagRow
    <3> HIDE DEF flags
    <3>3. server' \in FlagList!Server /\ server'.flags = flags /\ server'.sets = server.sets
      BY <1>0, <1>1, <3>1, <3>2
    <3> QED BY <3>1, <3>2, <3>3, FlagsDone
  <2> QED BY <2>1, <2>2
<1>8. CASE FlagList!HandleUpdate(c)
  <2>1. CASE FlagList!FlagAt(c.flag.id) = {} \/ c.name = ""
    BY <1>3, <1>8, <2>1, Zenon DEF FlagList!HandleUpdate
  <2>2. CASE ~(FlagList!FlagAt(c.flag.id) = {} \/ c.name = "")
    <3> DEFINE flags == {[flag EXCEPT !.name = IF flag.id = c.flag.id THEN c.name ELSE flag.name] : flag \in server.flags}
    <3>1. Written(flags, server.sets) /\ c.state = "sent" /\ c.op = "update" /\ UNCHANGED page
      BY <1>0, <1>8, <2>2, Zenon DEF FlagList!HandleUpdate, FlagList!Done, FlagList!Server, FlagsWith
    <3>2. c.name \in STRING
      BY <1>0, <3>1, FlagsOps
    <3>3. flags \subseteq FlagList!FlagRow /\ \A flag \in flags : \E was \in server.flags : flag.id = was.id /\ flag.multivariate = was.multivariate
      BY <1>0, <3>2 DEF FlagList!FlagRow
    <3> HIDE DEF flags
    <3>4. server' \in FlagList!Server /\ server'.flags = flags /\ server'.sets = server.sets
      BY <1>0, <1>1, <3>1, <3>3
    <3> QED BY <3>1, <3>3, <3>4, FlagsDone
  <2> QED BY <2>1, <2>2, Zenon
<1>9. CASE FlagList!HandleDelete(c)
  <2>1. CASE FlagList!FlagAt(c.flag) = {}
    BY <1>3, <1>9, <2>1 DEF FlagList!HandleDelete
  <2>2. CASE FlagList!FlagAt(c.flag) # {}
    <3> DEFINE flags == server.flags \ FlagList!FlagAt(c.flag)
               sets == server.sets \ {c.flag}
    <3>1. Written(flags, sets) /\ c.state = "sent" /\ c.op = "delete" /\ UNCHANGED page
      BY <1>0, <1>9, <2>2 DEF FlagList!HandleDelete, FlagList!Done, FlagList!Server, FlagsWith
    <3>2. flags \subseteq FlagList!FlagRow /\ sets \subseteq FlagIds /\ \A flag \in flags : flag \in server.flags /\ flag.id # c.flag
      BY <1>0 DEF FlagList!FlagAt
    <3>4. \A id \in server.sets : id # c.flag => id \in sets
      OBVIOUS
    <3> HIDE DEF flags, sets
    <3>3. server' \in FlagList!Server /\ server'.flags = flags /\ server'.sets = sets
      BY <1>0, <1>1, <3>1, <3>2
    <3> QED BY <3>1, <3>2, <3>3, <3>4, FlagsDone
  <2> QED BY <2>1, <2>2
<1> QED BY <1>2, <1>4, <1>5, <1>6, <1>7, <1>8, <1>9 DEF FlagList!Handle

-----------------------------------------------------------------------------
(* The flags page: answers and loads                                        *)

(* A list that was overtaken while it was excused.                          *)
LEMMA FlagsExcused ==
  ASSUME NEW Of, NEW Rows, NEW list \in ListOf(Of, Rows), NEW switching, NEW waiting, NEW shows, NEW at
  PROVE  FlagsCurrent(Excuse(list), switching, waiting, shows, at)
<1>1. Excuse(list).excused
  BY DEF Excuse, ListOf
<1> QED BY <1>1, ExcuseCurrent DEF FlagsCurrent

(* What is loaded again shows what is stored once it has landed.            *)
LEMMA FlagsReload ==
  ASSUME FlagsInv, Room(page.lists, page.live), NEW of \in Selections, NEW at \in Selections, NEW lists,
         lists = FlagList!Refetch(page.lists, page.live, of, at, [data |-> FlagList!Stored(of)], {"data"}),
         NEW switching, NEW waiting, page.doing = "toggles" \/ switching = {}
  PROVE  FlagsLists(lists) /\ FlagsCurrent(lists["data"], switching, waiting, FlagsShows, at)
<1> DEFINE stored == [data |-> FlagList!Stored(of)]
<1>0. FlagsLists(page.lists) /\ server \in FlagList!Server
  BY FlagsData DEF FlagsInv
<1>1. lists = Refetch(page.lists, page.live, of, at, stored, {"data"})
  BY FlagsSame
<1>2. \A n \in {"data"} : stored[n] \in [data |-> FlagList!Data][n]
  BY <1>0, FlagsStored
<1>3. stored["data"] = FlagsShows[of]
  BY DEF FlagsShows
<1> HIDE DEF stored
<1>4. FlagsLists(lists)
  BY <1>0, <1>1, <1>2, RefetchTyped DEF FlagsLists
<1>5. Current(lists["data"], FlagsShows, at)
  BY <1>0, <1>1, <1>3, RefetchCurrent DEF FlagsLists
<1>6. CASE page.doing = "toggles"
  <2>1. page.live = "data"
    BY <1>6 DEF FlagsInv, FlagsMode
  <2>2. page.lists["data"].loads \in Seq(Load(Selections, FlagList!Data)) /\ DOMAIN page.lists = {"data"}
        /\ page.lists["data"] \in ListOf(Selections, FlagList!Data)
    BY <1>0 DEF FlagsLists, ListsIn, ListOf
  <2>3. lists["data"] = Fetch(page.lists["data"], of)
    BY <1>1, <2>1, <2>2 DEF Refetch
  <2>4. lists["data"].loads = Append(page.lists["data"].loads, [of |-> of, rows |-> Unread, overtaken |-> FALSE])
    BY <2>2, <2>3 DEF Fetch, ListOf
  <2>5. ASSUME NEW S, NEW s \in Seq(S), NEW x PROVE Append(s, x) # <<>>
    OBVIOUS
  <2>6. lists["data"].loads # <<>>
    BY <2>2, <2>4, <2>5
  <2> QED BY <1>4, <1>5, <2>6 DEF FlagsCurrent
<1>7. CASE switching = {}
  BY <1>4, <1>5, <1>7 DEF FlagsCurrent
<1> QED BY <1>6, <1>7

(* Another project is loaded for, and the calls of the last one are let go. *)
LEMMA FlagsSelected ==
  ASSUME FlagsInv, NEW project \in Selections, FlagList!Select(project)
  PROVE  FlagsInv' /\ FlagList!SavesOpened
<1> DEFINE lists == FlagList!Refetch(page.lists, page.live, project, project, [data |-> FlagList!Stored(project)], {"data"})
           p == [page EXCEPT !.at = project]
<1>0. page \in FlagList!Page
  BY FlagsData DEF FlagsInv
<1>1. page' = [p EXCEPT !.lists = lists] /\ UNCHANGED <<server, flight>> /\ Room(page.lists, page.live)
  <2>1. page' = [page EXCEPT !.at = project, !.lists = lists] /\ UNCHANGED <<server, flight>> /\ Room(page.lists, page.live)
    BY FlagsSame DEF FlagList!Select
  <2> QED BY <2>1
<1>2. Switching(flight) = {} \/ page.doing = "toggles"
  BY DEF FlagsInv, FlagsMode, Switching
<1>3. FlagsLists(lists) /\ FlagsCurrent(lists["data"], Switching(flight), Waiting(flight), FlagsShows, project)
  BY <1>1, <1>2, FlagsReload
<1> HIDE DEF lists
<1>4. /\ p \in FlagList!Page /\ p.at = project /\ p.live = page.live /\ p.doing = page.doing /\ p.isDialogOpen = page.isDialogOpen
      /\ p.editingFlag = page.editingFlag /\ p.opened = page.opened /\ p.crossed = page.crossed /\ p.abandoned = page.abandoned
  BY <1>0 DEF FlagList!Page
<1> HIDE DEF p
<1>5. page' \in FlagList!Page /\ page'.lists = lists
  BY <1>1, <1>3, <1>4, FlagsListsSet
<1>6. /\ page'.at = project /\ page'.live = page.live /\ page'.doing = page.doing /\ page'.isDialogOpen = page.isDialogOpen
      /\ page'.editingFlag = page.editingFlag /\ page'.opened = page.opened /\ page'.crossed = page.crossed
      /\ page'.abandoned = page.abandoned
  BY <1>1, <1>4 DEF FlagList!Page
<1>7. FlagList!TypeOK' /\ FlagsMode' /\ FlagsOpened' /\ FlagsFollow' /\ FlagsGone'
  BY <1>1, <1>5, <1>6 DEF FlagsInv, FlagList!TypeOK, FlagsMode, FlagsOpened, FlagsFollow, FlagsGone,
     FlagList!FlagAt
<1>8. FlagsShows' = FlagsShows
  BY <1>1 DEF FlagsShows, FlagList!Stored
<1>9. FlagsShown'
  BY <1>1, <1>3, <1>5, <1>6, <1>8 DEF FlagsShown
<1> QED BY <1>1, <1>7, <1>9 DEF FlagsInv, FlagList!SavesOpened

(* A load is read, lands or fails.                                          *)
LEMMA FlagsLoads ==
  ASSUME FlagsInv, NEW i \in DOMAIN FlagList!LoadsOf(page.lists, page.live),
         FlagList!ReadLoad(i) \/ FlagList!LandLoad(i) \/ FlagList!FailLoad(i)
  PROVE  FlagsInv' /\ FlagList!SavesOpened
<1> DEFINE list == page.lists["data"]
<1>0. /\ page \in FlagList!Page /\ server \in FlagList!Server /\ FlagsLists(page.lists) /\ page.at \in Selections
      /\ UNCHANGED <<server, flight>>
  BY FlagsData DEF FlagsInv, FlagList!ReadLoad, FlagList!LandLoad, FlagList!FailLoad
<1>1. /\ list \in ListOf(Selections, FlagList!Data) /\ i \in DOMAIN list.loads /\ list.loads[i] \in Load(Selections, FlagList!Data)
      /\ list.rows \in FlagList!Data
  <2>1. /\ page.live \in {"data"} /\ page.lists[page.live] \in ListOf(Selections, [data |-> FlagList!Data][page.live])
        /\ i \in DOMAIN page.lists[page.live].loads
        /\ page.lists[page.live].loads[i] \in Load(Selections, [data |-> FlagList!Data][page.live])
    BY <1>0, LiveLoads, FlagsSame DEF FlagsLists
  <2> QED BY <2>1 DEF ListOf
<1>2. FlagsShows' = FlagsShows
  BY <1>0 DEF FlagsShows, FlagList!Stored
<1> HIDE DEF list
<1>3. ASSUME NEW new \in ListOf(Selections, FlagList!Data), page' = [page EXCEPT !.lists = [page.lists EXCEPT !["data"] = new]],
             Reloading(flight) \/ FlagsCurrent(new, Switching(flight), Waiting(flight), FlagsShows, page.at)
      PROVE  FlagsInv' /\ FlagList!SavesOpened
  <2>1. FlagsLists([page.lists EXCEPT !["data"] = new]) /\ [page.lists EXCEPT !["data"] = new]["data"] = new
    BY <1>0, <1>3, OneListTyped DEF FlagsLists, ListsIn
  <2>2. page' \in FlagList!Page /\ page'.lists["data"] = new
    BY <1>0, <1>3, <2>1, FlagsListsSet
  <2>3. /\ page'.at = page.at /\ page'.live = page.live /\ page'.doing = page.doing /\ page'.isDialogOpen = page.isDialogOpen
        /\ page'.editingFlag = page.editingFlag /\ page'.opened = page.opened /\ page'.crossed = page.crossed
        /\ page'.abandoned = page.abandoned
    BY <1>0, <1>3 DEF FlagList!Page
  <2>4. FlagList!TypeOK' /\ FlagsMode' /\ FlagsOpened' /\ FlagsFollow' /\ FlagsGone'
    BY <1>0, <2>2, <2>3 DEF FlagsInv, FlagList!TypeOK, FlagsMode, FlagsOpened, FlagsFollow, FlagsGone,
       FlagList!FlagAt
  <2>5. FlagsShown'
    BY <1>0, <1>2, <1>3, <2>2, <2>3 DEF FlagsShown
  <2> QED BY <1>0, <2>4, <2>5 DEF FlagsInv, FlagList!SavesOpened
<1>4. Reloading(flight) \/ FlagsCurrent(list, Switching(flight), Waiting(flight), FlagsShows, page.at)
  BY DEF FlagsInv, FlagsShown, list
<1>5. CASE FlagList!ReadLoad(i)
  <2> DEFINE rows == FlagsShows[list.loads[i].of]
             new == Read(list, i, rows)
  <2>1. list.loads[i].of \in Selections
    BY <1>1 DEF Load
  <2>2. rows = FlagList!Stored(list.loads[i].of) /\ rows \in FlagList!Data
    BY <1>0, <2>1, FlagsStored DEF FlagsShows
  <2>3. new \in ListOf(Selections, FlagList!Data)
    BY <1>1, <2>2, ReadTyped
  <2>4. Current(list, FlagsShows, page.at) => Current(new, FlagsShows, page.at)
    BY <1>1, ReadCurrent
  <2>5. new.loads # <<>>
    BY <1>1 DEF Read, ListOf
  <2>6. page' = [page EXCEPT !.lists = [page.lists EXCEPT !["data"] = new]]
    BY <1>5, <2>2, FlagsSame DEF FlagList!ReadLoad, list
  <2> HIDE DEF new
  <2> QED BY <1>3, <1>4, <2>3, <2>4, <2>5, <2>6 DEF FlagsCurrent
<1>6. CASE FlagList!LandLoad(i)
  <2> DEFINE landed == Land(list, i, page.at)
  <2>1. landed \in ListOf(Selections, FlagList!Data) /\ ~Unanswered(list, i)
    BY <1>1, <1>6, LandTyped, FlagsSame DEF FlagList!LandLoad, list
  <2>2. Current(list, FlagsShows, page.at) => Current(landed, FlagsShows, page.at)
    BY <1>1, <2>1, LandCurrent
  <2>3. FlagList!Busy(flight, {"toggle"}) <=> Switching(flight) # {}
    BY DEF FlagList!Busy, Switching
  <2>4. \A l : FlagList!Excuse(l) = Excuse(l)
    BY DEF FlagList!Excuse, Excuse, FlagList!Overtaken, Overtaken
  <2>5. page' = [page EXCEPT !.lists = [page.lists EXCEPT !["data"] = IF Switching(flight) # {} THEN Excuse(landed) ELSE landed]]
    BY <1>6, <2>3, <2>4, FlagsSame DEF FlagList!LandLoad, list
  <2> HIDE DEF landed
  <2>6. CASE Switching(flight) # {}
    <3>1. landed.rows \in FlagList!Data
      BY <2>1 DEF ListOf
    <3>2. Excuse(landed) \in ListOf(Selections, FlagList!Data)
      BY <2>1, <3>1, ReplaceTyped
    <3> QED BY <1>3, <2>1, <2>5, <2>6, <3>2, FlagsExcused
  <2>7. CASE Switching(flight) = {}
    BY <1>3, <1>4, <2>1, <2>2, <2>5, <2>7 DEF FlagsCurrent
  <2> QED BY <2>6, <2>7
<1>7. CASE FlagList!FailLoad(i)
  <2> DEFINE new == FailTo(list, i, list.rows)
  <2>1. new \in ListOf(Selections, FlagList!Data) /\ new.excused
    BY <1>1, FailTyped DEF FailTo, Settle
  <2>2. Current(list, FlagsShows, page.at) => Current(new, FlagsShows, page.at)
    BY <1>1, FailCurrent
  <2>3. page' = [page EXCEPT !.lists = [page.lists EXCEPT !["data"] = new]]
    BY <1>7, FlagsSame DEF FlagList!FailLoad, list
  <2> HIDE DEF new
  <2> QED BY <1>3, <1>4, <2>1, <2>2, <2>3 DEF FlagsCurrent
<1> QED BY <1>5, <1>6, <1>7

(* The page changes its rows ahead of the server, or back.                  *)
LEMMA FlagsPatched ==
  ASSUME FlagsInv, NEW rows \in FlagList!Data, NEW excused \in BOOLEAN, NEW toggling \in FlagIds \cup {None},
         page' = [page EXCEPT !.toggling = toggling, !.lists["data"] = Patch(page.lists["data"], rows, excused)],
         UNCHANGED server, flight' \subseteq FlagList!Call,
         \A c \in flight' : c \in flight \/ (c.op = "toggle" /\ c.state = "sent" /\ page.doing = "toggles"),
         \A c \in flight : c.op # "toggle" => c \in flight',
         FlagsCurrent(page.lists["data"], Switching(flight), Waiting(flight), FlagsShows, page.at) =>
           \/ page.lists["data"].excused \/ excused
           \/ page.lists["data"].loads = <<>> =>
                /\ \A c, d \in Switching(flight') : c.flag = d.flag => c = d
                /\ rows = [FlagsShows[page.at] EXCEPT !.flags = MovedFlags(Waiting(flight'), @)]
  PROVE  FlagsInv' /\ FlagList!SavesOpened
<1> DEFINE list == page.lists["data"]
           new == Patch(list, rows, excused)
           shown == FlagsShows[page.at]
<1>0. /\ page \in FlagList!Page /\ server \in FlagList!Server /\ FlagsLists(page.lists) /\ page.at \in Selections
      /\ list \in ListOf(Selections, FlagList!Data) /\ flight \subseteq FlagList!Call
  BY FlagsData DEF FlagsInv
<1>1. /\ new \in ListOf(Selections, FlagList!Data) /\ new.loads = Overtaken(list.loads)
      /\ new.excused = (list.excused \/ excused) /\ new.rows = rows
  <2>1. new \in ListOf(Selections, FlagList!Data)
    BY <1>0, ReplaceTyped
  <2> QED BY <1>0, <2>1 DEF Patch, ListOf
<1> HIDE DEF list, new
<1>2. page' \in FlagList!Page /\ page'.lists["data"] = new
  <2>1. [page.lists EXCEPT !["data"] = new] \in [data : FlagList!ListOf(Selections, FlagList!Data)]
        /\ [page.lists EXCEPT !["data"] = new]["data"] = new
    <3>1. page.lists \in [data : FlagList!ListOf(Selections, FlagList!Data)]
      BY <1>0 DEF FlagList!Page
    <3>2. new \in FlagList!ListOf(Selections, FlagList!Data)
      BY <1>1, FlagsSame
    <3> QED BY <3>1, <3>2
  <2>2. page' = [page EXCEPT !.toggling = toggling, !.lists = [page.lists EXCEPT !["data"] = new]]
    BY <1>0 DEF FlagList!Page, new, list
  <2> QED BY <1>0, <2>1, <2>2, Zenon DEF FlagList!Page
<1>3. /\ page'.at = page.at /\ page'.live = page.live /\ page'.doing = page.doing /\ page'.isDialogOpen = page.isDialogOpen
      /\ page'.editingFlag = page.editingFlag /\ page'.opened = page.opened /\ page'.crossed = page.crossed
      /\ page'.abandoned = page.abandoned
  BY <1>0 DEF FlagList!Page
<1>4. FlagList!TypeOK' /\ FlagsMode' /\ FlagsOpened' /\ FlagsFollow' /\ FlagsGone'
  BY <1>0, <1>2, <1>3 DEF FlagsInv, FlagList!TypeOK, FlagsMode, FlagsOpened, FlagsFollow, FlagsGone,
     FlagList!FlagAt
<1>5. FlagsShows' = FlagsShows
  BY DEF FlagsShows, FlagList!Stored
<1>6. Reloading(flight) => Reloading(flight')
  BY DEF Reloading
<1>7. Overtaken(list.loads) = <<>> => list.loads = <<>>
  <2>1. list.loads \in Seq(Load(Selections, FlagList!Data))
    BY <1>0 DEF ListOf
  <2>2. Len(Overtaken(list.loads)) = Len(list.loads)
    BY <2>1, OvertakenTyped
  <2> QED BY <2>1, <2>2
<1>8. FlagsCurrent(list, Switching(flight), Waiting(flight), FlagsShows, page.at)
        => FlagsCurrent(new, Switching(flight'), Waiting(flight'), FlagsShows, page.at)
  <2> SUFFICES ASSUME \/ new.excused
                      \/ list.loads = <<>> =>
                           /\ \A c, d \in Switching(flight') : c.flag = d.flag => c = d
                           /\ rows = [shown EXCEPT !.flags = MovedFlags(Waiting(flight'), @)]
               PROVE  FlagsCurrent(new, Switching(flight'), Waiting(flight'), FlagsShows, page.at)
    BY <1>1 DEF list
  <2>1. CASE Switching(flight') = {}
    <3>1. Waiting(flight') = {}
      BY <2>1 DEF Waiting, Switching
    <3>2. shown = FlagList!Stored(page.at) /\ shown.flags \subseteq FlagList!FlagRow /\ shown = [flags |-> shown.flags, environments |-> shown.environments]
      BY <1>0 DEF FlagsShows, FlagList!Stored, FlagList!Server
    <3> HIDE DEF shown
    <3>3. MovedFlags(Waiting(flight'), shown.flags) = shown.flags
      BY <3>1, <3>2, NothingWaiting
    <3>4. [shown EXCEPT !.flags = MovedFlags(Waiting(flight'), @)] = shown
      BY <3>2, <3>3
    <3>5. list.loads = <<>> => new.excused \/ new.rows = FlagsShows[page.at]
      BY <1>1, <3>4 DEF shown
    <3>6. Current(new, FlagsShows, page.at)
      BY <1>0, <1>1, <3>5, OvertakenCurrent
    <3> QED BY <2>1, <3>6 DEF FlagsCurrent
  <2>2. CASE Switching(flight') # {}
    BY <1>1, <1>7, <2>2 DEF FlagsCurrent
  <2> QED BY <2>1, <2>2
<1>9. FlagsShown'
  BY <1>2, <1>3, <1>5, <1>6, <1>8 DEF FlagsInv, FlagsShown, list
<1>10. FlagList!SavesOpened
  BY DEF FlagList!SavesOpened
<1> QED BY <1>4, <1>9, <1>10 DEF FlagsInv

(* While nothing is excused, what the page shows at rest is what the        *)
(* switches will make of what is stored.                                    *)
LEMMA FlagsAhead ==
  ASSUME FlagsInv, FlagsCurrent(page.lists["data"], Switching(flight), Waiting(flight), FlagsShows, page.at),
         page.lists["data"].loads = <<>>, ~page.lists["data"].excused
  PROVE  /\ \A c, d \in Switching(flight) : c.flag = d.flag => c = d
         /\ FlagList!data = [flags |-> MovedFlags(Waiting(flight), FlagsShows[page.at].flags),
                             environments |-> FlagsShows[page.at].environments]
         /\ FlagsShows[page.at] = [flags |-> FlagsShows[page.at].flags, environments |-> FlagsShows[page.at].environments]
         /\ FlagsShows[page.at].flags = {flag \in server.flags : flag.environment \in FlagList!EnvironmentsIn(page.at)}
         /\ FlagsShows[page.at].flags \subseteq FlagList!FlagRow
         /\ \A c \in Waiting(flight) : c.next \in BOOLEAN
<1> DEFINE shown == FlagsShows[page.at]
<1>0. server \in FlagList!Server /\ page.at \in Selections /\ flight \subseteq FlagList!Call
  BY FlagsData DEF FlagsInv
<1>1. /\ shown = FlagList!Stored(page.at) /\ shown.flags \subseteq FlagList!FlagRow
      /\ shown = [flags |-> shown.flags, environments |-> shown.environments]
      /\ shown.flags = {flag \in server.flags : flag.environment \in FlagList!EnvironmentsIn(page.at)}
  BY <1>0 DEF FlagsShows, FlagList!Stored, FlagList!Server
<1>2. \A c \in Waiting(flight) : c.next \in BOOLEAN
  BY <1>0, FlagsOps DEF Waiting
<1> HIDE DEF shown
<1>3. CASE Switching(flight) = {}
  <2>1. Waiting(flight) = {}
    BY <1>3 DEF Waiting, Switching
  <2>2. MovedFlags(Waiting(flight), shown.flags) = shown.flags
    BY <1>1, <2>1, NothingWaiting
  <2>3. FlagList!data = shown
    BY <1>3 DEF FlagsCurrent, Current, FlagList!data, shown
  <2> QED BY <1>1, <1>2, <1>3, <2>2, <2>3 DEF shown
<1>4. CASE Switching(flight) # {}
  <2>1. /\ \A c, d \in Switching(flight) : c.flag = d.flag => c = d
        /\ FlagList!data = [shown EXCEPT !.flags = MovedFlags(Waiting(flight), @)]
    BY <1>4 DEF FlagsCurrent, FlagList!data, shown
  <2> QED BY <1>1, <1>2, <2>1 DEF shown
<1> QED BY <1>3, <1>4

(* A row that is switched is a row.                                         *)
LEMMA FlagsStateTyped ==
  ASSUME NEW stored \in FlagList!Data, NEW id, NEW state \in BOOLEAN
  PROVE  [stored EXCEPT !.flags = FlagList!setFlagState(@, id, state)] \in FlagList!Data
<1>1. stored.flags \subseteq FlagList!FlagRow /\ stored = [flags |-> stored.flags, environments |-> stored.environments]
      /\ stored.environments \in SUBSET FlagList!EnvironmentsIn(None)
  BY DEF FlagList!Data
<1>2. FlagList!setFlagState(stored.flags, id, state) \subseteq FlagList!FlagRow
  BY <1>1 DEF FlagList!setFlagState, FlagList!FlagRow
<1>3. [stored EXCEPT !.flags = FlagList!setFlagState(@, id, state)]
        = [flags |-> FlagList!setFlagState(stored.flags, id, state), environments |-> stored.environments]
  BY <1>1
<1> QED BY <1>1, <1>2, <1>3 DEF FlagList!Data

(* The switch moves before the server answers.                              *)
LEMMA FlagsToggle ==
  ASSUME FlagsInv, page.doing = "toggles", NEW flag \in FlagList!data.flags, FlagList!toggleFlag(flag)
  PROVE  FlagsInv' /\ FlagList!SavesOpened
<1> DEFINE call == [op |-> "toggle", state |-> "sent", at |-> page.at, flag |-> flag.id, next |-> ~flag.is_enabled]
           list == page.lists["data"]
           rows == [FlagList!data EXCEPT !.flags = FlagList!setFlagState(@, flag.id, ~flag.is_enabled)]
           excused == FlagList!Toggles(flag.id) # {}
<1>0. /\ page.at \in Selections /\ flag \in FlagList!FlagRow /\ flight \subseteq FlagList!Call /\ FlagList!data \in FlagList!Data
      /\ FlagList!data.flags \subseteq FlagList!FlagRow
  BY FlagsData DEF FlagsInv
<1>1. flag.id \in FlagIds /\ flag.is_enabled \in BOOLEAN
  BY <1>0 DEF FlagList!FlagRow
<1>2. call \in FlagList!Call /\ call.op = "toggle" /\ call.state = "sent" /\ call.flag = flag.id /\ call.next = ~flag.is_enabled
  BY <1>0, <1>1 DEF FlagList!Call, FlagList!CallStates
<1>3. flight' = flight \cup {call} /\ UNCHANGED server
  BY DEF FlagList!toggleFlag, FlagList!Send
<1>4. page' = [page EXCEPT !.toggling = flag.id, !.lists["data"] = Patch(list, rows, excused)]
  BY FlagsSame DEF FlagList!toggleFlag
<1> HIDE DEF call
<1>5. rows \in FlagList!Data
  BY <1>0, <1>1, FlagsStateTyped
<1>6. ASSUME FlagsCurrent(list, Switching(flight), Waiting(flight), FlagsShows, page.at), list.loads = <<>>, ~list.excused, ~excused
      PROVE  /\ \A c, d \in Switching(flight') : c.flag = d.flag => c = d
             /\ rows = [FlagsShows[page.at] EXCEPT !.flags = MovedFlags(Waiting(flight'), @)]
  <2> DEFINE stored == FlagsShows[page.at].flags
             environments == FlagsShows[page.at].environments
  <2>1. /\ \A c, d \in Switching(flight) : c.flag = d.flag => c = d
        /\ FlagList!data = [flags |-> MovedFlags(Waiting(flight), stored), environments |-> environments]
        /\ FlagsShows[page.at] = [flags |-> stored, environments |-> environments]
        /\ stored \subseteq FlagList!FlagRow
        /\ \A c \in Waiting(flight) : c.next \in BOOLEAN
    BY <1>6, FlagsAhead
  <2>2. \A c \in Switching(flight) : c.flag # call.flag
    BY <1>2, <1>6 DEF FlagList!Toggles, Switching
  <2>3. Switching(flight') = Switching(flight) \cup {call} /\ Waiting(flight') = Waiting(flight) \cup {call}
        /\ Waiting(flight) \subseteq Switching(flight)
    BY <1>2, <1>3 DEF Switching, Waiting
  <2> HIDE DEF stored, environments
  <2>4. FlagList!setFlagState(MovedFlags(Waiting(flight), stored), flag.id, ~flag.is_enabled) = MovedFlags(Waiting(flight'), stored)
    <3>1. \A c \in Waiting(flight) \cup {call} : c.next \in BOOLEAN
      BY <1>1, <1>2, <2>1
    <3>2. \A c \in Waiting(flight) : c.flag # call.flag
      BY <2>2, <2>3
    <3>3. FlagList!setFlagState(MovedFlags(Waiting(flight), stored), call.flag, call.next) = MovedFlags(Waiting(flight) \cup {call}, stored)
      BY <2>1, <3>1, <3>2, SwitchSent
    <3> QED BY <1>2, <2>3, <3>3
  <2>5. rows = [flags |-> FlagList!setFlagState(MovedFlags(Waiting(flight), stored), flag.id, ~flag.is_enabled), environments |-> environments]
    BY <2>1
  <2>6. [FlagsShows[page.at] EXCEPT !.flags = MovedFlags(Waiting(flight'), @)] = [flags |-> MovedFlags(Waiting(flight'), stored), environments |-> environments]
    BY <2>1
  <2>7. \A c, d \in Switching(flight') : c.flag = d.flag => c = d
    BY <2>1, <2>2, <2>3
  <2> HIDE DEF rows
  <2> QED BY <2>4, <2>5, <2>6, <2>7
<1>7. excused \in BOOLEAN /\ flag.id \in FlagIds \cup {None} /\ flight' \subseteq FlagList!Call
  BY <1>0, <1>1, <1>2, <1>3
<1>8. /\ \A c \in flight' : c \in flight \/ (c.op = "toggle" /\ c.state = "sent" /\ page.doing = "toggles")
      /\ \A c \in flight : c.op # "toggle" => c \in flight'
  BY <1>2, <1>3
<1> HIDE DEF rows, excused
<1> QED BY <1>3, <1>4, <1>5, <1>6, <1>7, <1>8, FlagsPatched, Zenon

(* An answer that has the page load its flags again.                        *)
LEMMA FlagsReloaded ==
  ASSUME FlagsInv, NEW c \in flight, NEW p \in FlagList!Page, p.at = page.at, p.live = page.live, p.doing = page.doing,
         p.abandoned = page.abandoned,
         p.editingFlag = None \/ (p.editingFlag = page.editingFlag /\ p.crossed),
         p.isDialogOpen => p.opened = None,
         \/ c.op \in {"create", "bulk"} /\ c.state = "done" /\ (c.op = "create" => ~c.form.multivariate)
         \/ c.op = "update",
         Room(page.lists, page.live), flight' = flight \ {c}, FlagList!Reloaded(p, c)
  PROVE  FlagsInv' /\ FlagList!SavesOpened
<1> DEFINE lists == FlagList!LoadData(c.at)
<1>0. page \in FlagList!Page /\ flight \subseteq FlagList!Call /\ c \in FlagList!Call /\ c.at \in Selections /\ page.at \in Selections
  BY FlagsData, FlagsOps DEF FlagsInv
<1>1. page' = [p EXCEPT !.lists = lists] /\ UNCHANGED server
  BY DEF FlagList!Reloaded
<1>2. Switching(flight') = {}
  BY DEF FlagsInv, FlagsMode, Switching
<1>3. FlagsLists(lists) /\ FlagsCurrent(lists["data"], Switching(flight'), Waiting(flight'), FlagsShows, page.at)
  BY <1>0, <1>2, FlagsReload DEF FlagList!LoadData
<1> HIDE DEF lists
<1>4. page' \in FlagList!Page /\ page'.lists = lists
  BY <1>1, <1>3, FlagsListsSet
<1>5. /\ page'.at = page.at /\ page'.live = page.live /\ page'.doing = page.doing /\ page'.isDialogOpen = p.isDialogOpen
      /\ page'.editingFlag = p.editingFlag /\ page'.opened = p.opened /\ page'.crossed = p.crossed
      /\ page'.abandoned = page.abandoned
  BY <1>1 DEF FlagList!Page
<1>6. FlagList!TypeOK' /\ FlagsMode' /\ FlagsGone' /\ FlagsFollow'
  BY <1>0, <1>1, <1>4, <1>5 DEF FlagsInv, FlagList!TypeOK, FlagsMode, FlagsFollow, FlagsGone,
     FlagList!FlagAt
<1>7. FlagsOpened'
  BY <1>5 DEF FlagsOpened
<1>8. FlagsShows' = FlagsShows
  BY <1>1 DEF FlagsShows, FlagList!Stored
<1>9. FlagsShown'
  BY <1>3, <1>4, <1>5, <1>8 DEF FlagsShown
<1> QED BY <1>6, <1>7, <1>9 DEF FlagsInv, FlagList!SavesOpened

(* The two that reload where there are switches leave the dialog alone.     *)
LEMMA FlagsLifted ==
  ASSUME FlagsInv, NEW c \in flight, FlagList!LiftedOrDeleted(c)
  PROVE  FlagsInv' /\ FlagList!SavesOpened
<1> DEFINE lists == FlagList!LoadData(c.at)
<1>0. /\ page \in FlagList!Page /\ flight \subseteq FlagList!Call /\ c.at \in Selections /\ page.at \in Selections
      /\ c.op \in {"lift", "delete"} /\ flight' = flight \ {c} /\ Room(page.lists, page.live)
  BY FlagsData, FlagsOps, FlagsSame DEF FlagsInv, FlagList!LiftedOrDeleted, FlagList!Answered
<1>1. page' = [page EXCEPT !.lists = lists] /\ UNCHANGED server
  BY DEF FlagList!LiftedOrDeleted, FlagList!Reloaded
<1>2. page.doing = "toggles"
  BY <1>0 DEF FlagsInv, FlagsMode
<1>3. FlagsLists(lists) /\ FlagsCurrent(lists["data"], Switching(flight'), Waiting(flight'), FlagsShows, page.at)
  BY <1>0, <1>2, FlagsReload DEF FlagList!LoadData
<1> HIDE DEF lists
<1>4. page' \in FlagList!Page /\ page'.lists = lists
  BY <1>0, <1>1, <1>3, FlagsListsSet
<1>5. /\ page'.at = page.at /\ page'.live = page.live /\ page'.doing = page.doing /\ page'.isDialogOpen = page.isDialogOpen
      /\ page'.editingFlag = page.editingFlag /\ page'.opened = page.opened /\ page'.crossed = page.crossed
      /\ page'.abandoned = page.abandoned
  BY <1>0, <1>1 DEF FlagList!Page
<1>6. FlagList!TypeOK' /\ FlagsMode' /\ FlagsGone' /\ FlagsFollow' /\ FlagsOpened'
  BY <1>0, <1>1, <1>4, <1>5 DEF FlagsInv, FlagList!TypeOK, FlagsMode, FlagsFollow, FlagsGone, FlagsOpened,
     FlagList!FlagAt
<1>7. FlagsShows' = FlagsShows
  BY <1>1 DEF FlagsShows, FlagList!Stored
<1>8. FlagsShown'
  BY <1>3, <1>4, <1>5, <1>7 DEF FlagsShown
<1> QED BY <1>0, <1>6, <1>8 DEF FlagsInv, FlagList!SavesOpened

(* A multivariate flag is there, and its variants are sent.                 *)
LEMMA FlagsVariantsSent ==
  ASSUME FlagsInv, NEW c \in flight, FlagList!FlagCreated(c)
  PROVE  FlagsInv' /\ FlagList!SavesOpened
<1> DEFINE call == [op |-> "bulk", state |-> "sent", at |-> c.at, flag |-> c.flag, form |-> c.form, rows |-> c.rows]
<1>0. flight \subseteq FlagList!Call /\ c \in FlagList!Call /\ c.op = "create" /\ c.state = "done" /\ UNCHANGED <<page, server>>
  BY FlagsData DEF FlagsInv, FlagList!FlagCreated
<1>1. c.at \in Selections /\ c.flag \in FlagIds /\ c.form \in FlagList!Form /\ c.rows \in Seq(FlagList!Draft)
  BY <1>0, FlagsOps
<1>2. call \in FlagList!Call /\ call.op = "bulk" /\ call.state = "sent" /\ call.flag = c.flag
  BY <1>1 DEF FlagList!Call, FlagList!CallStates
<1>3. flight' = (flight \ {c}) \cup {call}
  BY DEF FlagList!FlagCreated
<1> HIDE DEF call
<1>4. FlagList!TypeOK' /\ FlagsMode' /\ FlagsGone' /\ FlagsFollow' /\ FlagsOpened'
  BY <1>0, <1>2, <1>3 DEF FlagsInv, FlagList!TypeOK, FlagsMode, FlagsFollow, FlagsGone, FlagsOpened,
     FlagList!FlagAt
<1>5. FlagsShown'
  BY <1>2, <1>3 DEF FlagsShown, Reloading
<1> QED BY <1>2, <1>3, <1>4, <1>5 DEF FlagsInv, FlagList!SavesOpened

(* A toggle that failed takes its switch back.                              *)
LEMMA FlagsFailed ==
  ASSUME FlagsInv, NEW c \in flight, FlagList!Failed(c)
  PROVE  FlagsInv' /\ FlagList!SavesOpened
<1> DEFINE reload == c.state = "done" \/ c.op = "bulk"
           lists == IF reload THEN ExcuseAll(page.lists, {"data"}) ELSE page.lists
           abandoned == IF c.op = "bulk" \/ (c.op = "create" /\ c.state = "done") THEN page.abandoned \cup {c.flag} ELSE page.abandoned
<1>0. /\ page \in FlagList!Page /\ server \in FlagList!Server /\ FlagsLists(page.lists) /\ page.at \in Selections
      /\ flight \subseteq FlagList!Call /\ c \in FlagList!Call /\ page.abandoned \subseteq FlagIds
      /\ page.lists["data"] \in ListOf(Selections, FlagList!Data)
  BY FlagsData DEF FlagsInv, FlagList!Page
<1>1. c.op # "toggle" /\ flight' = flight \ {c} /\ UNCHANGED server /\ page' = [page EXCEPT !.lists = lists, !.abandoned = abandoned]
  BY FlagsSame DEF FlagList!Failed
<1>2. abandoned \subseteq FlagIds /\ page.abandoned \subseteq abandoned
  BY <1>0, FlagsOps
<1>3. c.op = "bulk" \/ (c.op = "create" /\ c.state = "done") => c.flag \in abandoned
  OBVIOUS
<1>4. FlagsLists(lists)
  <2>1. FlagsLists(ExcuseAll(page.lists, {"data"}))
    BY <1>0, ExcuseAllTyped DEF FlagsLists
  <2> QED BY <1>0, <2>1
<1>5. ~reload => lists = page.lists
  OBVIOUS
<1>6. reload => lists["data"] = Excuse(page.lists["data"])
  BY <1>0 DEF ExcuseAll, FlagsLists, ListsIn
<1> HIDE DEF lists, abandoned
<1>7. page' \in FlagList!Page /\ page'.lists = lists /\ page'.abandoned = abandoned
  <2>1. lists \in [data : FlagList!ListOf(Selections, FlagList!Data)]
    BY <1>4, FlagsListsTyped
  <2> QED BY <1>0, <1>1, <1>2, <2>1 DEF FlagList!Page
<1>8. /\ page'.at = page.at /\ page'.live = page.live /\ page'.doing = page.doing /\ page'.isDialogOpen = page.isDialogOpen
      /\ page'.editingFlag = page.editingFlag /\ page'.opened = page.opened /\ page'.crossed = page.crossed
  BY <1>0, <1>1 DEF FlagList!Page
<1>9. FlagList!TypeOK' /\ FlagsMode' /\ FlagsGone' /\ FlagsOpened'
  BY <1>0, <1>1, <1>7, <1>8 DEF FlagsInv, FlagList!TypeOK, FlagsMode, FlagsGone, FlagsOpened,
     FlagList!FlagAt
<1>10. FlagsFollow'
  BY <1>1, <1>2, <1>3, <1>7 DEF FlagsInv, FlagsFollow
<1>11. FlagsShows' = FlagsShows
  BY <1>1 DEF FlagsShows, FlagList!Stored
<1>12. Switching(flight') = Switching(flight) /\ Waiting(flight') = Waiting(flight)
  BY <1>1 DEF Switching, Waiting
<1>13. FlagsShown'
  <2>1. CASE reload
    <3>1. FlagsCurrent(lists["data"], Switching(flight'), Waiting(flight'), FlagsShows, page.at)
      BY <1>0, <1>6, <2>1, FlagsExcused
    <3> QED BY <1>7, <1>8, <1>11, <3>1 DEF FlagsShown
  <2>2. CASE ~reload
    <3>1. Reloading(flight) => Reloading(flight')
      BY <1>1, <2>2 DEF Reloading
    <3> QED BY <1>5, <1>7, <1>8, <1>11, <1>12, <2>2, <3>1 DEF FlagsInv, FlagsShown
  <2> QED BY <2>1, <2>2
<1> QED BY <1>1, <1>9, <1>10, <1>13 DEF FlagsInv, FlagList!SavesOpened

(* A switch has been answered.                                              *)
LEMMA FlagsToggleAnswered ==
  ASSUME FlagsInv, NEW c \in flight, FlagList!Toggled(c) \/ FlagList!ToggleFailed(c)
  PROVE  FlagsInv' /\ FlagList!SavesOpened
<1> DEFINE list == page.lists["data"]
<1>0. /\ page \in FlagList!Page /\ flight \subseteq FlagList!Call /\ c \in FlagList!Call /\ FlagList!data \in FlagList!Data
      /\ c.op = "toggle" /\ flight' = flight \ {c} /\ UNCHANGED server
  BY FlagsData DEF FlagsInv, FlagList!Toggled, FlagList!ToggleFailed
<1>1. c.flag \in FlagIds /\ c.next \in BOOLEAN /\ flight' \subseteq FlagList!Call /\ None \in FlagIds \cup {None}
      /\ c.state \in {"sent", "done", "refused"}
  BY <1>0, FlagsOps
<1>2. /\ \A d \in flight' : d \in flight
      /\ \A d \in flight : d.op # "toggle" => d \in flight'
  BY <1>0
<1>3. c.state # "sent" => Waiting(flight') = Waiting(flight)
  BY <1>0 DEF Waiting
<1>4. Switching(flight') \subseteq Switching(flight)
  BY <1>0 DEF Switching
<1>5. ASSUME FlagsCurrent(list, Switching(flight), Waiting(flight), FlagsShows, page.at), list.loads = <<>>, ~list.excused,
             c.state # "sent"
      PROVE  /\ \A x, y \in Switching(flight') : x.flag = y.flag => x = y
             /\ FlagList!data = [FlagsShows[page.at] EXCEPT !.flags = MovedFlags(Waiting(flight'), @)]
  <2> DEFINE stored == FlagsShows[page.at].flags
             environments == FlagsShows[page.at].environments
  <2>1. /\ \A x, y \in Switching(flight) : x.flag = y.flag => x = y
        /\ FlagList!data = [flags |-> MovedFlags(Waiting(flight), stored), environments |-> environments]
        /\ FlagsShows[page.at] = [flags |-> stored, environments |-> environments]
    BY <1>5, FlagsAhead
  <2> HIDE DEF stored, environments
  <2>2. [FlagsShows[page.at] EXCEPT !.flags = MovedFlags(Waiting(flight'), @)] = [flags |-> MovedFlags(Waiting(flight'), stored), environments |-> environments]
    BY <2>1
  <2> QED BY <1>3, <1>4, <1>5, <2>1, <2>2
<1>6. CASE FlagList!Toggled(c)
  <2>1. page' = [page EXCEPT !.toggling = None, !.lists["data"] = Patch(list, FlagList!data, FALSE)] /\ c.state = "done"
    BY <1>6, FlagsSame DEF FlagList!Toggled, FlagList!data
  <2>2. FALSE \in BOOLEAN
    OBVIOUS
  <2> QED BY <1>0, <1>1, <1>2, <1>5, <2>1, <2>2, FlagsPatched, Zenon
<1>7. CASE FlagList!ToggleFailed(c)
  <2> DEFINE rows == [FlagList!data EXCEPT !.flags = FlagList!setFlagState(@, c.flag, ~c.next)]
             excused == c.state # "refused" \/ FlagList!Toggles(c.flag) # {c}
  <2>1. page' = [page EXCEPT !.toggling = None, !.lists["data"] = Patch(list, rows, excused)]
    BY <1>7, FlagsSame DEF FlagList!ToggleFailed
  <2>2. rows \in FlagList!Data /\ excused \in BOOLEAN
    BY <1>0, <1>1, FlagsStateTyped
  <2>3. ASSUME FlagsCurrent(list, Switching(flight), Waiting(flight), FlagsShows, page.at), list.loads = <<>>, ~list.excused, ~excused
        PROVE  rows = FlagList!data
    <3> DEFINE stored == FlagsShows[page.at].flags
               environments == FlagsShows[page.at].environments
    <3>1. /\ FlagList!data = [flags |-> MovedFlags(Waiting(flight), stored), environments |-> environments]
          /\ stored = {flag \in server.flags : flag.environment \in FlagList!EnvironmentsIn(page.at)}
          /\ stored \subseteq FlagList!FlagRow
          /\ \A w \in Waiting(flight) : w.next \in BOOLEAN
      BY <2>3, FlagsAhead
    <3>2. \A flag \in stored : flag.id # c.flag
      BY <1>0, <2>3, <3>1 DEF FlagsInv, FlagsGone, FlagList!FlagAt
    <3> HIDE DEF stored, environments
    <3>3. FlagList!setFlagState(MovedFlags(Waiting(flight), stored), c.flag, ~c.next) = MovedFlags(Waiting(flight), stored)
      BY <3>1, <3>2, SwitchGone, Zenon
    <3>4. rows = [flags |-> FlagList!setFlagState(MovedFlags(Waiting(flight), stored), c.flag, ~c.next), environments |-> environments]
      BY <3>1
    <3> QED BY <3>1, <3>3, <3>4
  <2>4. ~excused => c.state # "sent"
    OBVIOUS
  <2> HIDE DEF rows, excused
  <2> QED BY <1>0, <1>1, <1>2, <1>5, <2>1, <2>2, <2>3, <2>4, FlagsPatched, Zenon
<1> QED BY <1>6, <1>7

(* The page takes an answer in.                                             *)
LEMMA FlagsReturned ==
  ASSUME FlagsInv, NEW c \in flight, FlagList!Return(c)
  PROVE  FlagsInv' /\ FlagList!SavesOpened
<1>0. page \in FlagList!Page /\ flight \subseteq FlagList!Call
  BY FlagsData DEF FlagsInv
<1>1. FlagList!NoFlag \in FlagList!Form /\ FlagList!VariantRows \in Seq(FlagList!Draft)
  BY FlagsFormsTyped DEF FlagList!Draft, DraftRow
<1>2. CASE FlagList!Created(c)
  <2> DEFINE p == [page EXCEPT !.form = FlagList!NoFlag, !.variantRows = FlagList!VariantRows, !.isDialogOpen = FALSE,
                               !.crossed = page.crossed \/ page.editingFlag # None]
  <2>1. /\ p \in FlagList!Page /\ p.at = page.at /\ p.live = page.live /\ p.doing = page.doing /\ p.abandoned = page.abandoned
        /\ p.editingFlag = page.editingFlag /\ ~p.isDialogOpen /\ p.crossed = (page.crossed \/ page.editingFlag # None)
    BY <1>0, <1>1, Zenon DEF FlagList!Page
  <2>2. /\ FlagList!Reloaded(p, c) /\ Room(page.lists, page.live) /\ flight' = flight \ {c}
        /\ c.op \in {"create", "bulk"} /\ c.state = "done" /\ (c.op = "create" => ~c.form.multivariate)
    BY <1>0, <1>2, FlagsSame DEF FlagList!Created, FlagList!Answered, FlagList!resetFlagForm, FlagList!Page
  <2> HIDE DEF p
  <2> QED BY <2>1, <2>2, FlagsReloaded
<1>3. CASE FlagList!Updated(c)
  <2> DEFINE p == [page EXCEPT !.form = FlagList!NoFlag, !.variantRows = FlagList!VariantRows, !.isDialogOpen = FALSE,
                               !.editingFlag = None, !.crossed = FALSE]
  <2>1. /\ p \in FlagList!Page /\ p.at = page.at /\ p.live = page.live /\ p.doing = page.doing /\ p.abandoned = page.abandoned
        /\ p.editingFlag = None /\ ~p.isDialogOpen
    BY <1>0, <1>1 DEF FlagList!Page
  <2>2. /\ FlagList!Reloaded(p, c) /\ Room(page.lists, page.live) /\ flight' = flight \ {c} /\ c.op = "update"
    BY <1>0, <1>3, FlagsSame DEF FlagList!Updated, FlagList!Answered, FlagList!resetFlagForm, FlagList!Page
  <2> HIDE DEF p
  <2> QED BY <2>1, <2>2, FlagsReloaded
<1> QED BY <1>2, <1>3, FlagsVariantsSent, FlagsLifted, FlagsToggleAnswered, FlagsFailed DEF FlagList!Return

(* Lifting an override, deleting a flag and saving an edit.                 *)
LEMMA FlagsWrites ==
  ASSUME FlagsInv,
         \/ page.doing = "toggles" /\ \E flag \in FlagList!data.flags : FlagList!liftOverride(flag) \/ FlagList!deleteFlag(flag)
         \/ page.doing = "edits" /\ FlagList!handleUpdate
  PROVE  FlagsInv' /\ FlagList!SavesOpened
<1>0. page \in FlagList!Page /\ page.at \in Selections /\ FlagList!data.flags \subseteq FlagList!FlagRow
  BY FlagsData DEF FlagsInv
<1>1. ASSUME page.doing = "toggles", NEW flag \in FlagList!data.flags, FlagList!liftOverride(flag) \/ FlagList!deleteFlag(flag)
      PROVE  FlagsInv' /\ FlagList!SavesOpened
  <2>1. flag.id \in FlagIds
    BY <1>0 DEF FlagList!FlagRow
  <2>2. PICK op \in {"lift", "delete"} : /\ flight' = flight \cup {[op |-> op, state |-> "sent", at |-> page.at, flag |-> flag.id]}
                                         /\ UNCHANGED <<page, server>>
    BY <1>1 DEF FlagList!liftOverride, FlagList!deleteFlag, FlagList!Send
  <2>3. [op |-> op, state |-> "sent", at |-> page.at, flag |-> flag.id] \in FlagList!Call
    BY <1>0, <2>1 DEF FlagList!Call, FlagList!CallStates
  <2> QED BY <1>1, <2>2, <2>3, FlagsSend
<1>2. CASE page.doing = "edits" /\ FlagList!handleUpdate
  <2> DEFINE call == [op |-> "update", state |-> "sent", at |-> page.at, flag |-> page.editingFlag, name |-> page.form.name]
  <2>1. flight' = flight \cup {call} /\ UNCHANGED <<page, server>> /\ page.editingFlag # None /\ page.isDialogOpen
    BY <1>2 DEF FlagList!handleUpdate, FlagList!Send, FlagList!SaveEnabled
  <2>2. page.editingFlag \in FlagList!FlagRow /\ page.form.name \in STRING
    BY <1>0, <2>1 DEF FlagList!Page, FlagList!Form
  <2>3. call \in FlagList!Call
    BY <1>0, <2>2 DEF FlagList!Call, FlagList!CallStates
  <2> QED BY <1>2, <2>1, <2>3, FlagsSend
<1> QED BY <1>1, <1>2

(* No step breaks the invariant, and what is saved was opened.              *)
LEMMA FlagsStep ==
  ASSUME FlagsInv, FlagList!Next \/ UNCHANGED vars
  PROVE  FlagsInv' /\ FlagList!SavesOpened
<1>1. CASE UNCHANGED vars
  <2>1. UNCHANGED <<page, server, flight>>
    BY <1>1 DEF vars
  <2>2. FlagsOpened' /\ page' \in FlagList!Page
    BY <2>1, FlagsData DEF FlagsInv, FlagsOpened
  <2> QED BY <2>1, <2>2, FlagsDialog
<1>2. page.doing \in {"creation", "edits"} => page.doing # "toggles"
  OBVIOUS
<1> QED BY <1>1, <1>2, FlagsSelected, FlagsToggle, FlagsWrites, FlagsCreation, FlagsHandled, FlagsReturned,
      FlagsLoads DEF FlagList!Next

(* The invariant holds at first.                                            *)
LEMMA FlagsInit == ASSUME FlagList!Init PROVE FlagsInv
<1>1. server \in FlagList!Server /\ flight = {} /\ server.flags = InitialFlags /\ server.sets = InitialSets
  BY FlagsAssumption DEF FlagList!Init, FlagList!Server
<1>2. PICK at \in Selections, doing \in {"toggles", "creation", "edits"} :
        page = [doing |-> doing, live |-> IF doing = "toggles" THEN "data" ELSE "none", at |-> at,
                lists |-> [data |-> List(FlagList!Stored(at))], isDialogOpen |-> FALSE, editingFlag |-> None,
                form |-> FlagList!NoFlag, variantRows |-> FlagList!VariantRows, toggling |-> None, opened |-> None,
                crossed |-> FALSE, abandoned |-> {}]
  BY FlagsSame DEF FlagList!Init
<1>3. FlagList!Stored(at) \in FlagList!Data
  BY <1>1, FlagsStored
<1>4. List(FlagList!Stored(at)) \in FlagList!ListOf(Selections, FlagList!Data)
  BY <1>3, FirstTyped, FlagsSame
<1>5. FlagList!NoFlag \in FlagList!Form /\ FlagList!VariantRows \in Seq(FlagList!Draft)
  BY FlagsFormsTyped DEF FlagList!Draft, DraftRow
<1> DEFINE first == List(FlagList!Stored(at))
<1>6. page.lists["data"] = first /\ page.at = at
  BY <1>2
<1>7. first.rows = FlagsShows[at] /\ FlagsShows[at] = FlagList!Stored(at)
  BY DEF List, FlagsShows
<1>8. Current(first, FlagsShows, at)
  BY <1>7, FirstCurrent
<1> HIDE DEF first
<1>9. page \in FlagList!Page
  <2> DEFINE f == List(FlagList!Stored(at))
  <2>1. f \in FlagList!ListOf(Selections, FlagList!Data)
    BY <1>4
  <2> HIDE DEF f
  <2>2. page = [doing |-> doing, live |-> IF doing = "toggles" THEN "data" ELSE "none", at |-> at,
                lists |-> [data |-> f], isDialogOpen |-> FALSE, editingFlag |-> None,
                form |-> FlagList!NoFlag, variantRows |-> FlagList!VariantRows, toggling |-> None, opened |-> None,
                crossed |-> FALSE, abandoned |-> {}]
    BY <1>2 DEF f
  <2>3. [data |-> f] \in [data : FlagList!ListOf(Selections, FlagList!Data)]
    BY <2>1
  <2> QED BY <1>5, <2>2, <2>3 DEF FlagList!Page
<1>10. FlagList!TypeOK
  BY <1>1, <1>9 DEF FlagList!TypeOK
<1>11. FlagsMode /\ FlagsOpened /\ FlagsFollow /\ FlagsGone
  BY <1>1, <1>2, FlagsAssumption DEF FlagsMode, FlagsOpened, FlagsFollow, FlagsGone
<1>12. Switching(flight) = {}
  BY <1>1 DEF Switching
<1>13. FlagsShown
  BY <1>6, <1>8, <1>12 DEF FlagsShown, FlagsCurrent
<1> QED BY <1>10, <1>11, <1>13 DEF FlagsInv

(* It has the types, and that variants come with their flags.               *)
LEMMA FlagsTyped == ASSUME FlagsInv PROVE FlagList!TypeOK /\ FlagList!VariantsFollow
<1>1. FlagList!VariantsFollow
  BY DEF FlagsInv, FlagsFollow, FlagList!VariantsFollow
<1> QED BY <1>1 DEF FlagsInv

(* At rest the page shows what is stored.                                   *)
LEMMA FlagsSettle == ASSUME FlagsInv PROVE FlagList!Settles
<1> SUFFICES ASSUME flight = {} PROVE FlagList!Settled(page.lists["data"], FlagList!Stored(page.at))
  BY DEF FlagList!Settles
<1>1. Switching(flight) = {} /\ ~Reloading(flight) /\ page.at \in Selections
  BY FlagsData DEF Switching, Reloading, FlagsInv
<1>2. Current(page.lists["data"], FlagsShows, page.at)
  BY <1>1 DEF FlagsInv, FlagsShown, FlagsCurrent
<1>3. FlagsShows[page.at] = FlagList!Stored(page.at)
  BY <1>1 DEF FlagsShows
<1> QED BY <1>2, <1>3, CurrentSettled, FlagsSame
=============================================================================
