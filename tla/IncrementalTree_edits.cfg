SPECIFICATION Spec
CONSTANTS
  Alphabets = {{"x", "(", "[", "NL", "LC"},
               {"QT", "BS", "/", "("},
               {"(", ")", "symbol", "Core$", "if"},
               {"eacute", "egrave", "itilde", "("}}
  MaxLength = 3
  MaxGroupDepth = 3
  Encoding <- MCEncoding
  Documents <- MCDocuments
  Snippets <- MCSnippets
  Recovered <- MCRecovered
  NoCall = NoCall
INVARIANTS TypeOK EditCovers ViewFaithful
PROPERTIES EditsAreAtomic
