CONSTANTS
  MaxLevel = 5
  Total = 12
  Limit <- RealLimit
  MaxGo <- RealMaxGo
  ReloadMin = 4
  NumPerLoad = 30
  GoArgs <- Four
  LoadArgs <- Loads
  Answers <- AlwaysRight
  MaxAsks = 4
SPECIFICATION FairSessionSpec
PROPERTIES GetsBackToUser
