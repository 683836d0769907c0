SPECIFICATION Spec
CONSTANTS
  Popups = {b1, b2}
  Providers = {google, github}
  Users = {u1, u2}
  LinkAge = 1
  AttemptAge = 2
  MaxClock = 3
  NoUser = NoUser
  NoPopup = NoPopup
SYMMETRY BrowserSymmetry
INVARIANT RefusalsHaveACause
PROPERTIES AnsweredAttemptsAreRefused LinksAreAskedFor
CHECK_DEADLOCK FALSE
