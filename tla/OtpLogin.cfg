SPECIFICATION Spec
CONSTANTS
  Requests = {r1, r2}
  Verifies = {v1, v2}
  OtpTtl = 1
  Cooldown = 1
  MaxAttempts = 1
  MaxClock = 2
  NoRow = NoRow
  Wrong = Wrong
SYMMETRY HandlerSymmetry
INVARIANTS SpentCodesStaySpent DeliveredCodeKeepsWorking SerialGuessesAreCapped
CHECK_DEADLOCK FALSE
