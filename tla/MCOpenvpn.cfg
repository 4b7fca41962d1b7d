CONSTANTS
  u1 = u1
  Sessions = {x1, x2}
  Users = {u1}
  UserOf <- AllOfOne
  Credits = {1, 3}
  MaxInt = 3
  Packets = {2}
  MaxBytes = 4
  MaxFaults = 2
  NULL = NULL
SPECIFICATION FairSpec
INVARIANTS
  OncePerFault
  NeverOvercharged
  RecordedIsCharged
PROPERTIES
  GoneIsCharged
  OverdrawnIsCut
