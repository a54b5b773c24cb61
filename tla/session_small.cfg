CONSTANTS
  MaxLevel = 3
  Total = 4
  Limit <- SmallLimit
  MaxGo <- SmallMaxGo
  ReloadMin = 1
  NumPerLoad = 30
  GoArgs <- AnyNumber
  LoadArgs <- Loads
  Answers <- AnyAnswer
  MaxAsks = 5
SPECIFICATION FairSessionSpec
INVARIANTS SessionTypeOK EachOnce CountsAgree QuestionsAccounted FullIsRelieved
PROPERTIES BoxesSpec GetsBackWithoutNumber
