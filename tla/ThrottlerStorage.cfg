SPECIFICATION FairSpec
CONSTANTS
  Requests = {r1, r2}
  Ttl = 2
  Limit = 1
  BlockDuration = 2
  MaxAttempts = 2
  Grace = 1
  MaxClock = 3
  MaxChanges = 3
INVARIANTS
  WritesBuildOnStoredState
  WritesInClockOrder
  AdmittedWithinLimit
  LostRoundsAreChanges
PROPERTIES
  EveryRequestAnswered
  ImplementsCounter
CHECK_DEADLOCK FALSE
