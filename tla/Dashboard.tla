------------------------------ MODULE Dashboard ------------------------------
(***************************************************************************)
(* The dashboard.  A page keeps its state to itself and starts anew when    *)
(* it is opened, so they are put side by side: route says which of them,    *)
(* the header or the session a behaviour is about.                          *)
(***************************************************************************)
EXTENDS Lists, Calls, VariantDrafts

CONSTANTS
  None,
  EnvironmentsOf, Selections, EnvironmentIds, InitialEnvironments,   \* of several pages
  Places, InitialMembers, InitialGrants, Roles, Invitations,         \* members page
  Flag, RuleIds, ConditionIds, VariantIds, Starts,
  RuleForms, ConditionForms, Weights, RuleNames,                     \* rules page
  FlagIds, InitialFlags, InitialSets, FlagForms, FlagNames, MaxRows, \* flags page
  MonitoredFlags, Registrations, ActiveWindow, Logs, PageSize,
  OverrideIds, InitialOverrides,                                     \* monitoring page
  EnvironmentSelections,                                             \* environments page
  OverviewFlags, Evaluations, Ranges, Most,                          \* overview
  OrganizationIds, ProjectIds, InitialOrganizations, InitialProjects,
  Rank, Capabilities, TenantNames,                                   \* header
  Slots, MaxTokens                                                   \* session

VARIABLES route, page, server, flight

vars == <<route, page, server, flight>>

Members      == INSTANCE MembersPage
Rules        == INSTANCE RulesPage WITH Names <- RuleNames
FlagList     == INSTANCE FlagsPage WITH Names <- FlagNames
Monitoring   == INSTANCE MonitoringPage WITH Flags <- MonitoredFlags
Environments == INSTANCE EnvironmentsPage WITH Selections <- EnvironmentSelections
Overview     == INSTANCE OverviewPage WITH Flags <- OverviewFlags
Header       == INSTANCE Tenancy WITH Names <- TenantNames
Login        == INSTANCE Session

(* What the members page starts with has its types; None is no grant and no *)
(* signature of one.                                                        *)
ASSUME MembersAssumption ==
  /\ InitialMembers \subseteq Members!OrganizationMembership
  /\ InitialGrants \subseteq Members!Grant
  /\ "VIEWER" \in Roles
  /\ None \notin Members!GrantForms /\ None \notin Members!Grant

(* What the flag of the rules page starts with is what the API stores: a    *)
(* rollout has a variant and a share or neither, a condition has an         *)
(* attribute, and the value of a split, and no other, is a split.           *)
ASSUME RulesAssumption ==
  /\ None \notin 0..Whole /\ None \notin Rules!StrategyRule /\ None \notin Rules!Condition
  /\ \A start \in Starts :
       /\ start.doing \in {"rules", "conditions", "variants"} /\ start.multivariate \in BOOLEAN
       /\ start.variants \in Seq(Rules!VariantRow(VariantIds))
       /\ start.rules \subseteq Rules!StrategyRule /\ start.conditions \subseteq Rules!Condition
       /\ \A rule \in start.rules : rule.variant = None <=> rule.share = None
       /\ \A c \in start.conditions :
            c.attribute # "" /\ (c.value.kind = "split" <=> c.operator = "PERCENTAGE_SPLIT")
  /\ RuleForms \subseteq Rules!RuleFormRow /\ ConditionForms \subseteq Rules!ConditionFormRow
  /\ Weights \subseteq Int /\ RuleNames \subseteq STRING

(* A selection is a project, or none; the flags page starts with flags that *)
(* have their types, and multivariate ones have their variants.             *)
ASSUME FlagsAssumption ==
  /\ Selections \ {None} \subseteq DOMAIN EnvironmentsOf
  /\ None \notin FlagIds /\ None \notin FlagList!FlagRow
  /\ InitialFlags \subseteq FlagList!FlagRow /\ InitialSets \subseteq FlagIds
  /\ \A flag \in InitialFlags : flag.multivariate => flag.id \in InitialSets
  /\ FlagForms \subseteq FlagList!Form /\ FlagNames \subseteq STRING

(* Registrations and the log are finite, and an override is of a flag whose *)
(* project has an environment.                                              *)
ASSUME MonitoringAssumption ==
  /\ IsFiniteSet(Registrations) /\ IsFiniteSet(Logs) /\ PageSize \in Nat \ {0}
  /\ InitialOverrides \subseteq Monitoring!FlagOverride
  /\ \A flag \in MonitoredFlags : flag.project \in DOMAIN EnvironmentsOf /\ EnvironmentsOf[flag.project] # {}

(* The environments are those of projects that can be selected. *)
ASSUME EnvironmentsAssumption == InitialEnvironments \subseteq Environments!EnvironmentRow

(* The overview counts flags of environments that there are, and            *)
(* evaluations, in some range of hours.                                     *)
ASSUME OverviewAssumption ==
  /\ IsFiniteSet(OverviewFlags) /\ IsFiniteSet(Evaluations) /\ Ranges # {}
  /\ InitialEnvironments \subseteq Overview!EnvironmentRow
  /\ \A flag \in OverviewFlags : \E e \in InitialEnvironments : e.id = flag.environment

(* The header starts with organizations and projects that have their types, *)
(* and there is an order to list them in; no id reads "user".               *)
ASSUME HeaderAssumption ==
  /\ "user" \notin OrganizationIds \cup ProjectIds
  /\ InitialOrganizations \subseteq Header!OrganizationRow /\ InitialProjects \subseteq Header!ProjectRow
  /\ \A id \in OrganizationIds \cup ProjectIds : Rank[id] \in Nat

(* These texts of the pages are strings, of which the provers know nothing. *)
ASSUME StringsAssumption ==
  {"", "EQUALS", "user_id", "0", "7", "null", "[object Object]"} \subseteq STRING

(* There is room for the check that a session starts with, and the cookie it *)
(* starts with is a token.                                                   *)
ASSUME SessionAssumption == Slots # {} /\ MaxTokens \in Nat \ {0}

-----------------------------------------------------------------------------
Init ==
  \/ route = "members" /\ Members!Init
  \/ route = "rules" /\ Rules!Init
  \/ route = "flags" /\ FlagList!Init
  \/ route = "monitoring" /\ Monitoring!Init
  \/ route = "environments" /\ Environments!Init
  \/ route = "overview" /\ Overview!Init
  \/ route = "header" /\ Header!Init
  \/ route = "session" /\ Login!Init

On(name) == route = name /\ UNCHANGED route

Next ==
  \/ On("members") /\ Members!Next
  \/ On("rules") /\ Rules!Next
  \/ On("flags") /\ FlagList!Next
  \/ On("monitoring") /\ Monitoring!Next
  \/ On("environments") /\ Environments!Next
  \/ On("overview") /\ Overview!Next
  \/ On("header") /\ Header!Next
  \/ On("session") /\ Login!Next

Spec == Init /\ [][Next]_vars

-----------------------------------------------------------------------------
(* Every page, the header and the session keep their types. *)
TypeOK ==
  CASE route = "members" -> Members!TypeOK
    [] route = "rules" -> Rules!TypeOK
    [] route = "flags" -> FlagList!TypeOK
    [] route = "monitoring" -> Monitoring!TypeOK
    [] route = "environments" -> Environments!TypeOK
    [] route = "overview" -> Overview!TypeOK
    [] route = "header" -> Header!TypeOK
    [] route = "session" -> Login!TypeOK

(* Every handler loads again each list that its call wrote to: a page at    *)
(* rest shows what is stored, for the selection and the filters it shows.   *)
(* Excepted is a list whose last answer was overtaken, was for a selection  *)
(* left since or landed while a switch was being moved, and one of which a  *)
(* load failed or the answer of a write was lost: these the pages do not    *)
(* notice, and a list is right again with the next load of it that is       *)
(* answered in order.                                                       *)
Settles ==
  /\ route = "members" => Members!Settles
  /\ route = "rules" => Rules!Settles
  /\ route = "flags" => FlagList!Settles
  /\ route = "monitoring" => Monitoring!Settles
  /\ route = "environments" => Environments!Settles
  /\ route = "overview" => Overview!Settles

(* A grant is sent as its preview on the screen asked for it. *)
GrantsPreviewed == [][route = "members" => Members!SendsPreviewed]_vars

(* A dialog that was opened on a row saves that row, and one that was       *)
(* opened for a new one creates it; on the flags page, one that is opened   *)
(* for a new flag after a creation's answer closed the dialog of another    *)
(* flag saves that flag.                                                    *)
EditsReach == [][(route = "rules" => Rules!SavesOpened) /\ (route = "flags" => FlagList!SavesOpened)]_vars

(* Opening a rule and saving it as it was opened changes nothing, nor does  *)
(* a condition whose value is one that the dialog writes itself.            *)
UntouchedKept == [][route = "rules" => Rules!KeepsUntouched]_vars

(* A variant editor saves a fair set as it opened it, or one that shares    *)
(* all of the weight.                                                       *)
SharesAddUp == [][route = "rules" => Rules!SavesWhole]_vars

(* A multivariate flag has its variants, will have them, or a call failed. *)
VariantsFollow == route = "flags" => FlagList!VariantsFollow

(* The evaluation log is asked for no page it does not have, unless the     *)
(* count on the screen is out of date (a load awaited, overtaken or failed). *)
PagesExist == [][route = "monitoring" => Monitoring!AsksForPages]_vars

(* At rest the selection is what the user selected last, and belongs        *)
(* together, but for a list that is excused (Tenancy).                      *)
SelectionSettles == route = "header" => Header!SelectionSettles

(* A deletion is sent while what it would take is on the screen. *)
ImpactOfNamed == [][route = "header" => Header!ShowsWhatItDeletes]_vars

(* A burst of 401s fires one refresh, and leaves no request waiting for none. *)
OneRefresh == route = "session" => Login!OneRefresh

(* Only a logout or a refresh that failed takes the user away. *)
SessionKept == [][route = "session" => Login!KeepsUser]_vars
=============================================================================
