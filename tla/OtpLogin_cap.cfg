SPECIFICATION Spec
CONSTANTS
  Requests = {r1}
  Verifies = {v1, v2, v3}
  OtpTtl = 2
  Cooldown = 1
  MaxAttempts = 2
  MaxClock = 3
  NoRow = NoRow
  Wrong = Wrong
INVARIANT GuessesAreCapped
CHECK_DEADLOCK FALSE
