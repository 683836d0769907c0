SPECIFICATION SessionSpec
CONSTANTS
  Codes = {c1, c2}
  Exchanges = {x1, x2}
  Users = {u1}
  Logins = {l1}
  Visits = {v1}
  CodeTtl = 1
  TokenTtl = 2
  MaxClock = 2
  MaxRequests = 4
  NoCode = NoCode
  NoUser = NoUser
  NoToken = NoToken
SYMMETRY SessionSymmetry
INVARIANTS
  TokenCarriesCurrentRole
  UnspentCodesSurvive
PROPERTIES
  ImplementsOneTimeCode
  BannedAreTurnedAway
  AdminsActInTime
  ProfileIsCurrent
CHECK_DEADLOCK FALSE
