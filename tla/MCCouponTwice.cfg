CONSTANTS
  c1 = c1
  c2 = c2
  Cards = {c1}
  Typed <- OneNumber
  Users = {u1}
  Names = {u1}
  Requests = {r1, r2}
  Worths = {2}
  Days = {30}
  Today = 1
  MaxCrashes = 0
SPECIFICATION Spec
INVARIANTS
  CreditedAtMostOnce
