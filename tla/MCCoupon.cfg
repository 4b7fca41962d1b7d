CONSTANTS
  c1 = c1
  c2 = c2
  Cards = {c1, c2}
  Typed <- NumbersAndPattern
  Users = {u1}
  Names = {u1, stranger}
  Requests = {r1, r2}
  Worths = {0, 2}
  Days = {30}
  Today = 1
  MaxCrashes = 1
SPECIFICATION FairSpec
INVARIANTS
  ValidCardIsUncredited
  LedgerFollowsCredit
  CreditedAtMostOncePerOverlap
PROPERTIES
  UsedIsCredited
