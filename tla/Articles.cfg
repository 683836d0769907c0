SPECIFICATION Spec
CONSTANTS
  Edits = {e1, e2}
  Removals = {d1}
  Covers = {cover}
  Bodies = {content}
  Keys = {k1, k2}
  NoKey = NoKey
  NoPost = NoPost
SYMMETRY RequestSymmetry
INVARIANTS
  ReferencedMediaIsAlive
  SerialEditsLeaveNoOrphans
  PublishedIsDated
PROPERTY LaterEditsKeepDate
CHECK_DEADLOCK FALSE
