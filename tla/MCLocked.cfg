SPECIFICATION Spec
CONSTANTS
  o1 = o1
  o2 = o2
  s1 = s1
  DineIn = TRUE
  Order = {o1}
  Payment = {p1, p2, p3}
  Session = {s1}
  Request = {r1, r2}
  NoOrder = NoOrder
  NoPayment = NoPayment
  NoSession = NoSession
  TypeOf <- MCTypeOf
  SessionOf <- MCSessionOf
  Total = 1
  StaffAmounts = {1}
  ClientAmounts = {1}
  TipAmounts = {0, 1}
  GuestTipMax = 3
  MaxMoney = 2
  Enabled <- LockedOnly
  InitiateResults = {"manual"}
  AutoAccept = FALSE
  MayFail = TRUE
CHECK_DEADLOCK FALSE
SYMMETRY Symmetric
INVARIANTS TypeOK SettledOnce TipCacheExact SoldOnce
PROPERTIES ImplementsLifecycle
