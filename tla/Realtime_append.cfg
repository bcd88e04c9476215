SPECIFICATION AppendSpec
CONSTANTS
  Alphabets <- Grown
  MaxLength = 5
  MaxGroupDepth = 2
  MaxPieces = 5
  MaxPieced = 7
  Documents <- GrownTexts
  Snippets <- ShortTexts
  Frame <- GrownFrame
  Outcome <- GrownOutcome
  Blank <- MCBlank
INVARIANTS GrownLikeFresh
PROPERTIES PanicsOnlyBehindBlocks ConfirmedSurviveAppend
CHECK_DEADLOCK FALSE
