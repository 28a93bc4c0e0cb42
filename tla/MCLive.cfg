SPECIFICATION FairSpec
CONSTANTS
  o1 = o1
  o2 = o2
  s1 = s1
  DineIn = TRUE
  Order = {o1}
  Payment = {p1, p2}
  Session = {s1}
  Request = {r1, r2}
  NoOrder = NoOrder
  NoPayment = NoPayment
  NoSession = NoSession
  TypeOf <- MCTypeOf
  SessionOf <- MCSessionOf
  Total = 2
  StaffAmounts = {1, 2}
  ClientAmounts = {2}
  TipAmounts = {0}
  GuestTipMax = 3
  MaxMoney = 20
  Enabled <- GuestLocked
  InitiateResults = {"manual"}
  AutoAccept = TRUE
  MayFail = FALSE
CHECK_DEADLOCK FALSE
PROPERTIES ServedReachesCashier SettledSessionCloses
