SPECIFICATION Spec
CONSTANTS
  Alphabets <- Edited
  MaxLength = 4
  MaxGroupDepth = 2
  MaxPieces = 5
  MaxPieced = 7
  Documents <- AllTexts
  Snippets <- OneSymbol
  Frame <- MCFrame
  Outcome <- MCOutcome
  Blank <- MCBlank
INVARIANTS TypeOK RetainedText Ordered OnlyLastOpen CoveredMatchesFresh
CHECK_DEADLOCK FALSE
