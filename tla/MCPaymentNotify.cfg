CONSTANTS
  Orders = {o1}
  Users = {u1}
  Requests = {r1}
  Amounts = {2}
  MaxCrashes = 0
SPECIFICATION FairSpec
PROPERTIES
  NotifiedIsCredited
