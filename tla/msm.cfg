CONSTANTS
  foo = foo
  bar = bar
  longname = longname
  noid = noid
  noid2 = noid2
  MaxSources = 2
  MaxLen = 2
  MaxRefs = 2
CONSTANT Sources <- MCSources
CONSTANT LongNames <- MCLongNames
CONSTANT WithoutId <- MCWithoutId
SYMMETRY MCSymmetry
SPECIFICATION MsmSpec
INVARIANT PoolsFound
PROPERTIES LoadsAllOrNothing LoadsBack IdsLeadHome
