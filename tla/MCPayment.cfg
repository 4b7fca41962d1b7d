CONSTANTS
  Orders = {o1, o2}
  Users = {u1, u2}
  Requests = {r1, r2}
  Amounts <- SomeAmounts
  MaxCrashes = 1
SPECIFICATION FairSpec
INVARIANTS
  ChargedAtMostOnce
  CreditedOnlyIfPaid
  ChargedAsQuoted
PROPERTIES
  ImplementsOneTimeCredit
  PaidIsCredited
