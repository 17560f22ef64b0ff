CONSTANTS
  u1 = u1
  u2 = u2
  u3 = u3
  a1 = a1
  m1 = m1
  c1 = c1
  a2 = a2
  m2 = m2
  e1 = e1
  e2 = e2
  e3 = e3
  e4 = e4
  Users = {u1, u2, u3}
  Teams <- OneTeam
  Roles <- OneTeamRoles
  RoleTeam <- OneTeamRoleTeam
  AdminRole <- OneTeamAdmin
  MemberRole <- OneTeamMember
  Modules <- MCModules
  Perms <- ScenePerms
  Emails = {e1, e2, e3, e4}
  InitialEmail <- ThreeAddresses
  Anonymised = Anonymised
  Requests = {q1, q2}
  Idle = Idle
  Enabled <- SceneOps
  MaxTeamsPerUser = 2
  MaxRolesPerTeam = 3
SPECIFICATION MCSpec
INVARIANTS Inv AdminKept NoDanglingRoles
PROPERTIES AccessSteps NoEscalation AdminsRemovedByAdmins AddressChangesAuthorised
ACTION_CONSTRAINT InScene
SYMMETRY Slots
CHECK_DEADLOCK FALSE
