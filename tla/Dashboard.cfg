SPECIFICATION Spec
CONSTANTS
  None = None
  Unread = Unread
  MaxLoads = 2
  Whole = 4
  Limits <- MCLimits
  o1 = o1
  o2 = o2
  o3 = o3
  p1 = p1
  p2 = p2
  p3 = p3
  e1 = e1
  e2 = e2
  f1 = f1
  f2 = f2
  f3 = f3
  r1 = r1
  r2 = r2
  c1 = c1
  c2 = c2
  c3 = c3
  v1 = v1
  v2 = v2
  v3 = v3
  x1 = x1
  x2 = x2
  alice = alice
  bob = bob
  i1 = i1
  EnvironmentsOf <- MCEnvironmentsOf
  Selections = {p1, p2}
  EnvironmentIds = {e1, e2}
  InitialEnvironments <- MCInitialEnvironments
  Places <- MCPlaces
  InitialMembers <- MCInitialMembers
  InitialGrants <- MCInitialGrants
  Roles = {"VIEWER", "EDITOR"}
  Invitations = {i1}
  Flag = f1
  RuleIds = {r1, r2}
  ConditionIds = {c1, c2, c3}
  VariantIds = {v1, v2, v3}
  Starts <- MCStarts
  RuleForms <- MCRuleForms
  ConditionForms <- MCConditionForms
  Weights = {2, 5}
  RuleNames = {"", "c"}
  FlagIds = {f1, f2, f3}
  InitialFlags <- MCInitialFlags
  InitialSets <- MCInitialSets
  FlagForms <- MCFlagForms
  FlagNames = {"c", "d"}
  MaxRows = 2
  MonitoredFlags <- MCMonitoredFlags
  Registrations <- MCRegistrations
  ActiveWindow = 5
  Logs <- MCLogs
  PageSize = 1
  OverrideIds = {x1, x2}
  InitialOverrides <- MCInitialOverrides
  EnvironmentSelections = {p1, None}
  OverviewFlags <- MCOverviewFlags
  Evaluations <- MCEvaluations
  Ranges = {1, 24}
  Most = 1
  OrganizationIds = {o1, o2, o3}
  ProjectIds = {p1, p2, p3}
  InitialOrganizations <- MCInitialOrganizations
  InitialProjects <- MCInitialProjects
  Rank <- MCRank
  Capabilities <- MCCapabilities
  TenantNames = {"a", "b", "c"}
  Slots = {1, 2}
  MaxTokens = 3
INVARIANTS TypeOK Settles VariantsFollow SelectionSettles OneRefresh
PROPERTIES GrantsPreviewed EditsReach UntouchedKept SharesAddUp PagesExist SessionKept
CHECK_DEADLOCK FALSE
