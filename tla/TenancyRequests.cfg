SPECIFICATION MCSpec
CONSTANTS
  u1 = u1
  u2 = u2
  u3 = u3
  p1 = p1
  e1 = e1
  r1 = r1
  r2 = r2
  Users = {u1, u2, u3}
  Nobody = Nobody
  Nothing = Nothing
  Requests = {r1, r2}
  Holders = {u1, u2}
  Founder = u1
  Projects = {p1}
  Environments = {e1}
  ParentOf <- OneProject
  GivenRoles <- GrantRole
  JoinRoles = {"USER"}
  MaxGrants = 2
  Invitations = {i1}
  Founding = Founding
  Operations <- AllOperations
  OfferedRoles = {"USER"}
  OrgPlan = "FREE"
  Database = "postgresql"
INVARIANTS
  AccessAgrees
PROPERTIES
  GrantsFollow
  LinksAdmitOnce
  RequestsAnswered
CHECK_DEADLOCK FALSE
