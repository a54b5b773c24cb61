CONSTANTS
  a = a
  ab = ab
  ba = ba
  MaxLines = 2
  MaxTags = 3
CONSTANT TagNames <- MCTagNames
CONSTANT Within <- MCWithin
CONSTANT Cmds <- MCCmds
CONSTANT Begins <- MCBegins
SPECIFICATION TagsSpec
INVARIANTS StageIsListed CompletesRight
