SPECIFICATION Spec
CONSTANTS
  Parses <- MCParses
  Spellings <- MCSpellings
INVARIANTS AllTokensKept
CHECK_DEADLOCK FALSE
