SPECIFICATION FairSpec
CONSTANTS
  s1 = s1
  t1 = t1
  t2 = t2
  TwoTables = FALSE
  Session = {s1, s2}
  Table = {t1}
  Order = {o1, o2}
  Request = {r1, r2}
  NoSession = NoSession
  NoTable = NoTable
  NoRequest = NoRequest
  TableOf <- MCTableOf
  Enabled <- GuestsOnly
  MayFail = FALSE
CHECK_DEADLOCK FALSE
INVARIANTS ClosedSessionHasNoOpenOrder
PROPERTIES ImplementsOccupancy SettledSessionCloses
