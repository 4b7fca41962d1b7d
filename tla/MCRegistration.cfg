CONSTANTS
  Users = {u1, u2, u3}
  Requests = {r1, r2}
  Amounts <- PlusMinusOne
  FirstAddresses <- BeforeCarry
  MaxBookings = 2
  MaxCrashes = 1
  NULL = NULL
SPECIFICATION Spec
INVARIANTS
  DistinctUnlessRaced
  BooksBalance
