SPECIFICATION Spec
CONSTANTS
  Rows = {c1, c2}
  Keys = {k1, k2}
  Urls = {u1, u2}
  Emails = {e1}
  Requests = {q1}
  Workers = {w1, w2}
  MaxLost = 1
  Asks = {p1, p2}
  Managers = {m1}
  Cleaners = {x1}
  MaxTroubles = 1
  MaxTime = 3
  MaxDays = 2
  NoRow = NoRow
  NoUrl = NoUrl
  NoAsk = NoAsk
  NoRequest = NoRequest
SYMMETRY Symmetric
INVARIANTS
  PeopleTypeOK
  OneRowPerProfile
PROPERTIES
  SuppressedStayOut
  ErasureIsComplete
  RenewedSnapshotsStay
  RetentionHolds
CHECK_DEADLOCK FALSE
