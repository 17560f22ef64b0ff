CONSTANTS
  t1 = t1
  t2 = t2
  u1 = u1
  u2 = u2
  h1 = h1
  Teams = {t1, t2}
  Users = {u1, u2}
  Amounts = {1, 2}
  Ids = {1, 2, 3}
  Slots = {s1, s2}
  Idle = Idle
  MaxTransactionsPerTeam = 2
  MaxAssignmentsPerTeam = 2
  MaxContributionsPerTeam = 3
  MaxPenaltiesPerTeam = 2
  MaxOverviewRows = 3
  PhotoUsers = {p1}
  PhotoTeams = {t1}
  PhotoSlots = {s1, s2}
  Pictures <- MCPictures
  MaxDim = 4
  MaxPixels = 12
  MaxBytes = 2
  NoImage = NoImage
  PollUsers = {v1, v2}
  PollTeams = {t1}
  PollSlots = {s1, s2}
  MaxPollId = 3
  MaxPolls = 3
  MaxOptions = 2
  PollLimit = 1
  Nil = Nil
  RowIds = {1, 2, 3, 4}
  ListTeams = {t1}
  ListUsers = {m1, m2}
  Leads = {1, 2}
  Times = {1, 2}
  DefaultLimit = 1
  MaxLimit = 2
  Limits = {1, 3}
  MaxNews = 4
  Authors = {a1}
  Absent = Absent
  CalTeams = {t1, t2}
  CalUsers = {h1}
  CalSlots = {s1, s2}
  EventTypes = {"training", "event"}
  MaxLinks = 3
  LastDay = 2
  NoTeam = NoTeam
  StatOwners = {v1, v2}
  PresetSlots = {s1, s2}
  MaxPresetId = 2
  maxPresetsPerTeamUser = 1
  LastDate = 2
SPECIFICATION PhotosOnlySpec
PROPERTY OnlyOrphansTakenBack
SYMMETRY Symmetry
CHECK_DEADLOCK FALSE
