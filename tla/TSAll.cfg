SPECIFICATION Spec
CONSTANTS
  s1 = s1
  t1 = t1
  t2 = t2
  TwoTables = TRUE
  Session = {s1, s2, s3}
  Table = {t1, t2}
  Order = {o1}
  Request = {r1, r2}
  NoSession = NoSession
  NoTable = NoTable
  NoRequest = NoRequest
  TableOf <- MCTableOf
  Enabled <- SavingEntryPoints
  MayFail = TRUE
CHECK_DEADLOCK FALSE
SYMMETRY Symmetric
INVARIANTS TypeOK JoinedSessionsShareTheirTable
