CONSTANTS
  u1 = u1
  u2 = u2
  e1 = e1
  e2 = e2
  e3 = e3
  s1 = s1
  s2 = s2
  a1 = a1
  a2 = a2
  c1 = c1
  c2 = c2
  c3 = c3
  q1 = q1
  q2 = q2
  Users = {u1, u2}
  Teams = {1, 2}
  Events = {e1, e2, e3}
  Series = {s1, s2}
  Absences = {a1, a2}
  Comments = {c1, c2, c3}
  Days <- MCDays
  Leads = {1}
  Creations <- MCCreations
  Patches <- MCPatches
  Requests = {q1, q2}
  MaxSpan = 10
  MaxWeeks = 3
  MaxComments = 1
  Null = Null
SPECIFICATION MCSpec
INVARIANTS SeriesIntact AbsencesDisjoint ViewsAgree StatsReconcile ForeignersRedacted
PROPERTIES PastKept AnswersInTime
SYMMETRY Symmetry
CHECK_DEADLOCK FALSE
