SPECIFICATION Spec
CONSTANTS
  Definitions <- Structs
  Trees <- MCTrees
  Children <- MCChildren
  Matches <- MCMatches
  NoField = NoField
  NoReading = NoReading
  MaxStray = 2
INVARIANTS TypeOK ChildrenUsedOnce RoundTrips NoneLeftBehind
