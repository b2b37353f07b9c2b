----------------------------- MODULE MCDashboard -----------------------------
(* The dashboard on small instances. *)
EXTENDS Dashboard

CONSTANTS o1, o2, o3, p1, p2, p3, e1, e2, f1, f2, f3, r1, r2, c1, c2, c3, v1, v2, v3, x1, x2, alice, bob, i1

MCLimits ==
  [doing \in {"grants", "toggles", "conditions", "rules", "variants", "previews", "removals", "invitations", "creation", "edits",
              "reading", "overriding", "environments", "overview", "creating", "renaming", "deleting"} |->
     [calls |-> IF doing \in {"previews", "removals", "invitations", "rules", "conditions", "toggles", "deleting"} THEN 2 ELSE 1,
      writes |-> IF doing \in {"removals", "invitations", "rules", "edits"} THEN 2 ELSE 1]]

MCEnvironmentsOf == [p \in {p1, p2} |-> IF p = p1 THEN {e1} ELSE {}]
MCInitialEnvironments == {[id |-> e1, project |-> p1]}

-----------------------------------------------------------------------------
MCPlaces == {[organization |-> o1, project |-> p1], [organization |-> o2, project |-> p2]}
MCInitialMembers ==
  {[organization |-> o1, user |-> alice, role |-> "ADMIN"],
   [organization |-> o1, user |-> bob, role |-> "USER"],
   [organization |-> o2, user |-> alice, role |-> "ADMIN"]}
MCInitialGrants == {[user |-> bob, target |-> p1, role |-> "VIEWER"]}

-----------------------------------------------------------------------------
(* The rules of a flag with two variants, or of one that has become boolean; *)
(* conditions as the dialog writes them and as the API stores others; and    *)
(* sets of variants: whole, none yet, short of the whole after a deletion,   *)
(* and out of it with a negative weight.                                     *)

Pair(weight, control) ==
  << [id |-> v1, name |-> "a", share |-> weight, is_control |-> FALSE],
     [id |-> v2, name |-> "b", share |-> control, is_control |-> TRUE] >>

Rule(variant, share) == {[id |-> r1, priority |-> 1, variant |-> variant, share |-> share]}

On1(id, operator, value) == [id |-> id, rule |-> r1, attribute |-> "plan", operator |-> operator, value |-> value]

Written ==
  {On1(c1, "IN_LIST", [kind |-> "list", words |-> <<"word", "7">>, plain |-> TRUE]),
   On1(c2, "PERCENTAGE_SPLIT", [kind |-> "split", number |-> "7"])}

StoredElse ==
  {{On1(c1, "EQUALS", [kind |-> "wrapped", text |-> <<"word">>]), On1(c2, "EQUALS", [kind |-> "number", number |-> "7"])},
   {On1(c1, "IN_LIST", [kind |-> "list", words |-> <<>>, plain |-> TRUE])}}

MCStarts ==
  {[doing |-> "variants", multivariate |-> TRUE, variants |-> variants, rules |-> Rule(None, None), conditions |-> {}] :
     variants \in {<<>>, Pair(1, 1), Pair(-1, 5)}}
    \cup {[doing |-> "variants", multivariate |-> TRUE, variants |-> Pair(3, 1), rules |-> Rule(v1, 2), conditions |-> {}]}
    \cup {[doing |-> "rules", multivariate |-> TRUE, variants |-> Pair(3, 1), rules |-> Rule(None, None), conditions |-> Written],
          [doing |-> "rules", multivariate |-> FALSE, variants |-> Pair(3, 1), rules |-> Rule(v1, 2), conditions |-> {}]}
    \cup {[doing |-> "conditions", multivariate |-> FALSE, variants |-> <<>>, rules |-> Rule(None, None), conditions |-> conditions] :
           conditions \in {Written} \cup StoredElse}
MCRuleForms == {[priority |-> 2, variant |-> variant, share |-> 0] : variant \in {None, v1}}
MCConditionForms ==
  {[attribute |-> "plan", operator |-> "GREATER_THAN", text |-> <<"word", "7">>],
   [attribute |-> "", operator |-> "PERCENTAGE_SPLIT", text |-> <<"word">>],
   [attribute |-> "plan", operator |-> "EQUALS", text |-> <<"7">>]}

-----------------------------------------------------------------------------
MCInitialFlags ==
  {[id |-> f1, environment |-> e1, key |-> "a", name |-> "n", is_enabled |-> FALSE, override |-> None, multivariate |-> FALSE],
   [id |-> f2, environment |-> e1, key |-> "b", name |-> "n", is_enabled |-> FALSE, override |-> TRUE, multivariate |-> TRUE]}
MCInitialSets == {f2}
MCFlagForms ==
  {[environment |-> e1, key |-> "c", name |-> "m", multivariate |-> multivariate] : multivariate \in BOOLEAN}
    \cup {[environment |-> f.environment, key |-> f.key, name |-> "m", multivariate |-> f.multivariate] : f \in MCInitialFlags}
    \cup {[environment |-> None, key |-> "", name |-> "m", multivariate |-> FALSE]}

-----------------------------------------------------------------------------
MCMonitoredFlags == {[id |-> f1, project |-> p1]}
MCRegistrations == {[id |-> "old", environment |-> e1, age |-> 9], [id |-> "new", environment |-> e1, age |-> 1]}
MCLogs ==
  {[id |-> "hit", environment |-> e1, flag |-> f1, result |-> TRUE],
   [id |-> "miss", environment |-> e1, flag |-> f1, result |-> FALSE]}
MCInitialOverrides == {[id |-> x1, flag |-> f1, environment |-> e1, is_enabled |-> FALSE, is_active |-> TRUE]}

MCOverviewFlags ==
  {[id |-> f1, environment |-> e1, is_enabled |-> FALSE, forced |-> None],
   [id |-> f2, environment |-> e1, is_enabled |-> FALSE, forced |-> TRUE]}
MCEvaluations ==
  {[flag |-> f1, age |-> 1, result |-> TRUE], [flag |-> f1, age |-> 2, result |-> TRUE],
   [flag |-> f2, age |-> 2, result |-> TRUE]}

-----------------------------------------------------------------------------
MCInitialOrganizations == {[id |-> o1, name |-> "a", shared |-> FALSE], [id |-> o2, name |-> "b", shared |-> TRUE]}
MCInitialProjects == {[id |-> p1, organization |-> o1, name |-> "a"]}
MCRank == [id \in {o1, o2, o3, p1, p2, p3} |-> CASE id \in {o1, p1} -> 1 [] id \in {o2, p2} -> 2 [] OTHER -> 3]
MCCapabilities ==
  [o \in {o1, o2, o3} |-> IF o = o2 THEN {"org.delete"} ELSE {"org.delete", "org.manage", "project.create"}]
=============================================================================
