SPECIFICATION Spec
CONSTANTS
  Alphabets <- Typed
  MaxLength = 7
  MaxLine = 4
  MaxGroupDepth = 2
  Texts <- AllTexts
  Lines <- MCLines
  Frame <- MCFrame
  FirstOutcome <- MCFirstOutcome
INVARIANTS TypeOK NothingLost UnitsStandAlone StateTruthful 
PROPERTIES InvalidIsFinal
