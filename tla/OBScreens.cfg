SPECIFICATION Spec
CONSTANTS
  takeaway = takeaway
  Order = {o1}
  Guest = {g1}
  Request = {r1, r2}
  NoOrder = NoOrder
  TypeOf <- MCTypeOf
CHECK_DEADLOCK FALSE
SYMMETRY Symmetric
CONSTRAINT OneScreen
VIEW View
INVARIANTS TypeOK OnlyCommittedIsShown DisplayShowsCommitted WitnessesAreInStep
