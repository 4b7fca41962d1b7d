CONSTANTS
  Sessions = {s1, s2}
  Ifaces = {ppp0, ppp1}
  Users = {u1}
  Credit0 = 2
  Half = 2
  Limit = 3
  RxCounts = {1}
  TxCounts = {3}
  MaxFaults = 1
  NULL = NULL
SPECIFICATION FairSpec
INVARIANTS
  OneOpenRowPerInterface
  EndedIsCharged
PROPERTIES
  CutForItsInterface
  OverdrawnIsCut
