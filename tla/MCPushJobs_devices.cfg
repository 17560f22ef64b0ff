CONSTANTS
  u1 = u1
  t1 = t1
  Users = {u1, u2}
  Teams = {t1, t2}
  Events = {e1}
  Targets <- MCTargets
  Notes = {}
  NoteTeam <- MCNoteTeam
  Actor <- MCActor
  Ticks = {k1}
  Devices = {d1, d2}
  Workers = {w1, w2}
  Horizon = 2
  MaxAttempts = 2
  MaxFaults = 0
  MaxChanges = 0
  Nothing = Nothing
SPECIFICATION SettledSpec
PROPERTY EveryDeviceReminded
CHECK_DEADLOCK FALSE
