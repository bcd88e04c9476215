SPECIFICATION Spec
CONSTANTS
  Parses <- MCParses
  Spellings <- MCSpellings
INVARIANTS TypeOK TextKept CellsTile ProgramsLower
CHECK_DEADLOCK FALSE
