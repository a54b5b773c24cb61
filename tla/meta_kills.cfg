CONSTANTS
  MaxLevel = 2
  Total = 4
  Limit <- TwoLimits
  NoMore = NoMore
  NewFirst = NewFirst
  NameWord = 1
  MaxKills = 2
SPECIFICATION MetaSpec
INVARIANTS CountsDescribeLists HurtsOnlyInWindow LostOnePerKill
PROPERTIES LostForGood ImplementsBoxes
CHECK_DEADLOCK FALSE
