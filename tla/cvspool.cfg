CONSTANTS
  BlockSlots = 9
  TrunkBlocks = 2
  ObjSize = 2
  MaxTrunks = 2
CONSTANT SlotsAsked <- MCSlotsAsked
CONSTANT Counts <- MCCounts
CONSTANT Places <- MCPlaces
SPECIFICATION CvsPoolSpec
INVARIANTS CvsPoolSound EachBusyNodeOnce HangsForGood
