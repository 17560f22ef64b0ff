CONSTANTS
  u1 = u1
  u2 = u2
  u3 = u3
  a1 = a1
  m1 = m1
  c1 = c1
  a2 = a2
  m2 = m2
  e1 = e1
  e2 = e2
  e3 = e3
  e4 = e4
  Users = {u1, u2}
  Teams <- TwoTeams
  Roles <- TwoTeamsRoles
  RoleTeam <- TwoTeamsRoleTeam
  AdminRole <- TwoTeamsAdmin
  MemberRole <- TwoTeamsMember
  Modules <- MCModules
  Perms <- SystemPerms
  Emails = {e1, e2}
  InitialEmail <- TwoAddresses
  Anonymised = Anonymised
  Requests = {q1, q2}
  Idle = Idle
  Enabled <- WaitOps
  MaxTeamsPerUser = 2
  MaxRolesPerTeam = 3
SPECIFICATION SharedFairSpec
INVARIANTS EveryTeamHasALivingAdmin
PROPERTIES WaitersServed
CHECK_DEADLOCK FALSE
