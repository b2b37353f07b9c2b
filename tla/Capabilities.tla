---------------------------- MODULE Capabilities ----------------------------
(***************************************************************************)
(* The frozen capability catalogue and the pure functions of               *)
(* tenancy/capabilities.py: what each role grants at its level, the union  *)
(* of the three levels, the inverted maps the queryset scoping is built    *)
(* on, and the ceilings of the plans.  No state: every module of the       *)
(* tenancy part reads its permissions from here.                           *)
(*                                                                         *)
(* A missing role is NoRole, a missing ceiling the empty set.              *)
(***************************************************************************)
EXTENDS Naturals

NoRole == "no role"

OrganizationRole == {"ADMIN", "USER"}
GrantRole        == {"ADMIN", "EDITOR", "OPERATOR", "VIEWER"}
Plan             == {"COMMUNITY", "FREE", "STARTER", "TEAM"}

OrganizationCapabilities ==
  {"org.view", "org.manage_members", "org.manage", "org.delete", "project.create"}
ProjectCapabilities ==
  {"project.view", "project.manage", "project.manage_members",
   "project.delete", "environment.create", "environment.delete"}
EnvironmentCapabilities ==
  {"environment.view", "environment.manage", "flag.edit", "override.manage", "analytics.view"}

ALL_CAPABILITIES ==
  OrganizationCapabilities \cup ProjectCapabilities \cup EnvironmentCapabilities

-----------------------------------------------------------------------------
(* Role -> capabilities, one map per level.  Each roster is cumulative.     *)

ORG_ROLE_CAPS == [ADMIN |-> ALL_CAPABILITIES, USER |-> {"org.view"}]

PROJECT_VIEWER_CAPS   == {"project.view", "environment.view", "analytics.view"}
PROJECT_OPERATOR_CAPS == PROJECT_VIEWER_CAPS \cup {"override.manage"}
PROJECT_EDITOR_CAPS   == PROJECT_OPERATOR_CAPS \cup {"flag.edit"}
PROJECT_ADMIN_CAPS    ==
  PROJECT_EDITOR_CAPS \cup (ProjectCapabilities \ {"project.view"}) \cup {"environment.manage"}

PROJECT_ROLE_CAPS ==
  [ADMIN    |-> PROJECT_ADMIN_CAPS,    EDITOR |-> PROJECT_EDITOR_CAPS,
   OPERATOR |-> PROJECT_OPERATOR_CAPS, VIEWER |-> PROJECT_VIEWER_CAPS]

ENV_VIEWER_CAPS   == {"environment.view", "analytics.view"}
ENV_OPERATOR_CAPS == ENV_VIEWER_CAPS \cup {"override.manage"}
ENV_EDITOR_CAPS   == ENV_OPERATOR_CAPS \cup {"flag.edit"}
ENV_ADMIN_CAPS    == ENV_EDITOR_CAPS \cup {"environment.manage"}

ENV_ROLE_CAPS ==
  [ADMIN    |-> ENV_ADMIN_CAPS,    EDITOR |-> ENV_EDITOR_CAPS,
   OPERATOR |-> ENV_OPERATOR_CAPS, VIEWER |-> ENV_VIEWER_CAPS]

(* dict.get(role, EMPTY) *)
CapsOf(roleCaps, role) == IF role \in DOMAIN roleCaps THEN roleCaps[role] ELSE {}

-----------------------------------------------------------------------------
(* Union role resolution: the levels only add up, and an environment grant  *)
(* of any role makes the parent project visible, nothing more of it.        *)
resolve_capabilities(orgRole, projectRole, envRole) ==
  CapsOf(ORG_ROLE_CAPS, orgRole)
    \cup CapsOf(PROJECT_ROLE_CAPS, projectRole)
    \cup CapsOf(ENV_ROLE_CAPS, envRole)
    \cup {c \in {"project.view"} : envRole # NoRole}

(* capability -> the roles of one level that grant it *)
RolesGranting(roleCaps, capability) ==
  {role \in DOMAIN roleCaps : capability \in roleCaps[role]}

ORG_ROLES_GRANTING(capability)     == RolesGranting(ORG_ROLE_CAPS, capability)
PROJECT_ROLES_GRANTING(capability) == RolesGranting(PROJECT_ROLE_CAPS, capability)
ENV_ROLES_GRANTING(capability)     == RolesGranting(ENV_ROLE_CAPS, capability)

-----------------------------------------------------------------------------
(* Plan ceilings: a set of at most one number, empty when there is none.    *)
max_seats(plan) ==
  CASE plan = "FREE" -> {3} [] plan = "STARTER" -> {5} [] plan = "TEAM" -> {25} [] OTHER -> {}
max_projects(plan) ==
  CASE plan = "FREE" -> {1} [] plan = "STARTER" -> {10} [] OTHER -> {}

(* mutant: off by one *)
FitsOneOver(count, ceiling) == \A limit \in ceiling : count <= limit

(* One more row fits under the ceiling when count rows exist. *)
Fits(count, ceiling) == \A limit \in ceiling : count < limit
=============================================================================
