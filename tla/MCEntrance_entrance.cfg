SPECIFICATION MCSpec
CHECK_DEADLOCK FALSE
CONSTANTS
  r1 = r1
  r2 = r2
  Slots = {r1, r2}
  c1 = c1
  c2 = c2
  c3 = c3
  h1 = h1
  h2 = h2
  Clients = {c1, c2, c3}
  Proxies = {h1, h2}
  Pair = {c2, c3}
  Ids = {"id", "mine"}
  Limit = 2
  Browsers = {u1, u2}
  LoginSlots = {r1, r2}
  CleanPaths = {"/join"}
  OtherPaths = {"//host"}
  StateTTL = 0
  MaxAttempts = 2
  MaxNow = 1
  u1 = u1
  u2 = u2
  e1 = e1
  p1 = p1
  p2 = p2
  s1 = s1
  k1 = k1
  k2 = k2
  Users = {u1, u2}
  Mailboxes = {e1}
  Passwords = {p1}
  Subjects = {s1}
  Vouches <- MCVouches
  Tokens = {k1}
  Requests = {r1, r2}
  Enabled <- AllOps
  BatchSize = 2
  Nothing = Nothing
SYMMETRY Symmetry
INVARIANTS
  JudgedByOwnRule
  LimitPerClient
  ExchangesOnlyItsOwn
  LandsWhereItLeft
  TypeOK
  OneUsePerToken
  ArmedOnlyByMail
