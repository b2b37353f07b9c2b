SPECIFICATION Spec
CONSTANTS
  u1 = u1
  u2 = u2
  u3 = u3
  u4 = u4
  i1 = i1
  i2 = i2
  i3 = i3
  r1 = r1
  r2 = r2
  Users = {u1, u2}
  Nobody = Nobody
  Invitations = {i1}
  Founding = Founding
  Requests = {r1, r2}
  Operations <- LastAdmin
  OfferedRoles <- OrganizationRole
  OrgPlan = "COMMUNITY"
  Database = "postgresql"
SYMMETRY Symmetry
INVARIANTS
  AdminInvariant
CHECK_DEADLOCK FALSE
