CONSTANTS
  MaxLevel = 5
  Total = 18
  Limit <- RealLimit
  MaxGo <- RealMaxGo
  ReloadMin = 4
  NumPerLoad = 30
  GoArgs <- NoNumber
  LoadArgs <- Loads
  Answers <- AlwaysRight
  MaxAsks = 200
SPECIFICATION StudiousSpec
INVARIANTS ComesBackDone
PROPERTIES SessionEnds
