\* Layers of four entries, ids of five bits: three layers, of which the last is incomplete.
CONSTANTS
  Bits = 2
  MaxShift = 5
  Chunk = 3
  Null = Null
  ptr1 = ptr1
  Ptrs <- TwoPtrs
  Ranges <- SomeRanges
  CyclicRanges <- TwoCyclicRanges
  Strangers <- SomeStrangers
  Kept <- SomeKept
  MaxLive = 2
  MaxLost = 1
SPECIFICATION IdrSpec
INVARIANTS Allocates Finds TreeSound
