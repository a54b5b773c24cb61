\* Three chunks, as the program said; sizes below, at and above what a fragment holds.
CONSTANTS
  Chunks = 3
  Size = 4
  NoSplit = 0
  Hdr = 2
  Requests = {0, 1, 3, 4}
  MaxLive = 3
SPECIFICATION PoolSpec
INVARIANTS PoolSound ContentsSurvive RefusesRightly
PROPERTIES LockedStay CallsReturn
