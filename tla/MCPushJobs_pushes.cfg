CONSTANTS
  u1 = u1
  t1 = t1
  Users = {u1, u2}
  Teams = {t1, t2}
  Events = {e1}
  Targets <- MCTargets
  Notes = {n1}
  NoteTeam <- MCNoteTeam
  Actor <- MCActor
  Ticks = {k1, k2}
  Devices = {d1}
  Workers = {w1, w2}
  Horizon = 2
  MaxAttempts = 2
  MaxFaults = 1
  MaxChanges = 1
  Nothing = Nothing
SPECIFICATION SettledSpec
INVARIANT PushedOnce
PROPERTY PushedToReaders
ACTION_CONSTRAINT OneKindAtATime
SYMMETRY Same
CHECK_DEADLOCK FALSE
