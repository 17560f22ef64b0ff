CONSTANTS
  u1 = u1
  u2 = u2
  e1 = e1
  p1 = p1
  p2 = p2
  s1 = s1
  k1 = k1
  k2 = k2
  Users = {u1}
  Mailboxes = {e1}
  Passwords = {p1, p2}
  Subjects = {s1}
  Vouches <- MCVouches
  Tokens = {k1, k2}
  Requests = {q1, q2}
  Enabled <- ResetOps
  BatchSize = 2
  Nothing = Nothing
SPECIFICATION Spec
PROPERTIES ResetEndsOtherSessions
CHECK_DEADLOCK FALSE
