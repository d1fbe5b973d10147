SPECIFICATION Spec
CONSTANTS
  u1 = u1
  u2 = u2
  nobody = nobody
  User <- Users
  NoUser = nobody
  Builder <- Builders
  MaxBuild = 2
  Chunks = 1
  Beyond <- Nothing
INVARIANTS PackIsWhole EndsClean WipedStaysGone
PROPERTIES SlotFrees
CHECK_DEADLOCK FALSE
