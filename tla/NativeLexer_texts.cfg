SPECIFICATION Spec
CONSTANTS
  Alphabets = {{"(", ")", "[", "symbol", "x", "NL"},
               {"x", "NL", "SP", "LC", "("},
               {"x", "NL", "BO", "BC", "LC"},
               {"QT", "BS", "/", "NL", "FF"}}
  MaxLength = 5
  MaxGroupDepth = 2
  Texts <- MCTexts
INVARIANTS TypeOK LocalsAgree SymbolsKept RestartsAtLineBreaks
PROPERTIES Terminates
CHECK_DEADLOCK FALSE
