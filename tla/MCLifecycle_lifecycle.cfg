CONSTANTS
  p1 = p1
  p2 = p2
  Replicas = {p1, p2}
  Deployments <- MCDeployments
  Latest <- MCLatest
  MaxStarts = 4
  HTTPDrain = 5
  SoftStopTimeout = 4
  StopMargin = 4
  ObsFlush = 6
  RequestTimeout = 15
  JobTimeout = 120
  GracePeriod = 30
  Nobody = Nobody
  Tables <- MCTables
  PhaseTimeout = 1
  MaxBacklog = 2
  u1 = u1
  t1 = t1
  Users = {u1, u2}
  Teams = {t1, t2}
  Events = {e1}
  Targets <- MCTargets
  Notes = {}
  NoteTeam <- MCNoteTeam
  Actor <- MCActor
  Ticks = {k1}
  Devices = {d1}
  Workers = {w1}
  Horizon = 2
  MaxAttempts = 1
  MaxFaults = 1
  MaxChanges = 1
  Nothing = Nothing
SPECIFICATION MCSpec
INVARIANTS ProductionNeverFakes MigrationsNeverCollide StopsInTime CookiesAreRead EveryPhaseRuns
PROPERTIES StartsResolve RemindersGoOut
CHECK_DEADLOCK FALSE
