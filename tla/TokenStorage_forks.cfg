SPECIFICATION MCSpec
CONSTANTS
  Streams = {s1, s2}
  Cursors = {k1, k2}
  Cells = {c1, c2, c3, c4}
  Kinds = {paren}
  NoCell = NoCell
  MaxTrees = 2
INVARIANTS TypeOK CursorsSound
PROPERTIES SharingUnseen StreamsAreValues
SYMMETRY Symmetry
CHECK_DEADLOCK FALSE
