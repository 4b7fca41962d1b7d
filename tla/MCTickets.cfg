CONSTANTS
  Requests = {r1, r2, r3, r4}
  MaxDeaths = 1
SPECIFICATION TicketsSpec
SYMMETRY Processes
CHECK_DEADLOCK FALSE
INVARIANTS
  ClosedIsAnswered
  ConfirmedIsListed
