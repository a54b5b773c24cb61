CONSTANTS
  w1 = w1
  w2 = w2
  w3 = w3
  Comment = Comment
  NumBoxes = 2
  Limit = 2
  DefVsNum = 2
  MaxText = 4
  MaxKills = 1
CONSTANT Words <- MCWords
SYMMETRY Symmetry
SPECIFICATION VsSpec
INVARIANTS KeepsHome WildOnlyDisturbed NeverLoadedPast
