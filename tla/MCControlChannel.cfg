CONSTANTS
  SendSize = 2
  RecSize = 4
  AckSize = 2
  AckMax = 1
  PidMod = 22
  FlightEnd <- FourFlights
  MaxFaults = 2
SPECIFICATION FairSpec
CHECK_DEADLOCK FALSE
INVARIANTS
  ReleasedIsReceived
  ActiveIsKeyed
  NeededIsAccepted
PROPERTIES
  ImplementsStream
  NegotiationCompletes
