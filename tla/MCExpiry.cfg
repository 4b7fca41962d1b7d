CONSTANTS
  Users = {u1, u2}
  Trial = 0
  Grace = 2
  CardDays = 2
  Extensions <- NoneOrBack
  LastDay = 4
  LastDate = 3
  MaxCrashes = 1
  NULL = NULL
SPECIFICATION FairSpec
INVARIANTS
  EternalOnlyByAdmin
PROPERTIES
  SuspendedIfOverdue
  NoticeBeforeSuspension
  OverdueIsSuspended
