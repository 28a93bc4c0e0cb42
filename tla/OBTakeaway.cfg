SPECIFICATION Spec
CONSTANTS
  takeaway = takeaway
  Order = {takeaway}
  Guest = {g1}
  Request = {r1, r2}
  NoOrder = NoOrder
  TypeOf <- MCTypeOf
CHECK_DEADLOCK FALSE

INVARIANTS DisplayShowsDisplayable
