CONSTANTS
  SeqBacktrack = 2
  TimeBacktrack = 1
  ReapInterval = 1
  NFragBuf = 2
  NSeqId = 4
  MaxFrags = 3
  FragTtl = 1
  Payload = 40
  Lengths <- Traffic
  FirstSeqId = 3
  Epoch = 2
  MaxTime = 4
SPECIFICATION Spec
CHECK_DEADLOCK FALSE
INVARIANTS
  AcceptedOnce
  LatePacketsPass
  OneDatagram
  ReassembledUnlessDisturbed
  FragmentCountKept
