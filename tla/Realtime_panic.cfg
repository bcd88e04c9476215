SPECIFICATION Spec
CONSTANTS
  Alphabets <- OnlyStatements
  MaxLength = 2
  MaxGroupDepth = 2
  Documents <- AllTexts
  Snippets <- OneSymbol
  Frame <- MCFrame
  Outcome <- MCOutcome
  Blank <- MCBlank
INVARIANTS EditsNeverPanic
CHECK_DEADLOCK FALSE
