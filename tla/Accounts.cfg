SPECIFICATION Spec
CONSTANTS
  Requests = {r1, r2}
  MaxRequests = 4
  Users = {u1, u2}
  Emails = {e1, e2}
  Providers = {google, github}
  Ids = {i1, i2}
  Pictures = {k1, k2}
  Elsewhere = Elsewhere
  NoPicture = NoPicture
  NoUser = NoUser
  Gone = Gone
  AdminEmail = e1
SYMMETRY AccountSymmetry
INVARIANTS GrantsStick OnlyContestedRequestsFail OnlyDroppedPicturesAreErased
PROPERTY SignInEndsWithTheHolder
CHECK_DEADLOCK FALSE
