CONSTANTS
  u1 = u1
  u2 = u2
  u3 = u3
  a1 = a1
  m1 = m1
  c1 = c1
  a2 = a2
  m2 = m2
  e1 = e1
  e2 = e2
  e3 = e3
  e4 = e4
  Users = {u1, u2}
  Teams <- OneTeam
  Roles <- OneTeamRoles
  RoleTeam <- OneTeamRoleTeam
  AdminRole <- OneTeamAdmin
  MemberRole <- OneTeamMember
  Modules <- MCModules
  Perms <- SystemPerms
  Emails = {e1, e2}
  InitialEmail <- TwoAddresses
  Anonymised = Anonymised
  Requests = {q1, q2}
  Idle = Idle
  Enabled <- ErasureOps
  MaxTeamsPerUser = 2
  MaxRolesPerTeam = 3
SPECIFICATION Spec
INVARIANTS NobodyLockedOut
SYMMETRY Slots
CHECK_DEADLOCK FALSE
