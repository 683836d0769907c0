SPECIFICATION Spec
CONSTANTS
  Requests = {r1, r2, r3}
  MaxRequests = 6
  Users = {reader, editor}
  Admins = {editor}
  Posts = {p1, p2}
  CommentIds = {c1, c2}
  None = None
  Gone = Gone
SYMMETRY CommentsSymmetry
INVARIANTS NothingIsOrphaned OnlyHinderedRequestsFail
PROPERTIES CommentsVanishForAReason
CHECK_DEADLOCK FALSE
