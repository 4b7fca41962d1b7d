CONSTANTS
  Pppds = {p1, p2, p3}
  Users = {u1, u2}
  OptionFiles <- SomeFiles
  MaxFaults = 1
  NULL = NULL
SPECIFICATION FairSpec
INVARIANTS
  ExclusiveIfConditioned
  StatusFollowsLogins
PROPERTIES
  AttemptEnds
  MarkIsCleared
