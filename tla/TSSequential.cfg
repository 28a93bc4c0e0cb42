SPECIFICATION Spec
CONSTANTS
  s1 = s1
  t1 = t1
  t2 = t2
  TwoTables = FALSE
  Session = {s1, s2, s3}
  Table = {t1}
  Order = {o1, o2}
  Request = {r1}
  NoSession = NoSession
  NoTable = NoTable
  NoRequest = NoRequest
  TableOf <- MCTableOf
  Enabled <- SessionManagement
  MayFail = FALSE
CHECK_DEADLOCK FALSE
INVARIANTS JoinsFormNoChain ReservedWhileOccupied
PROPERTIES WaiterCallsAreAnswered
