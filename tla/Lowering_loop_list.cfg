SPECIFICATION Spec
CONSTANTS
  Parses <- MCParses
  Spellings <- MCSpellings
INVARIANTS AllProgramsLower
CHECK_DEADLOCK FALSE
