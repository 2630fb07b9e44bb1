SPECIFICATION ChainSpec
CONSTANTS
  Block = {b1, b2, b3, b4}
  Other = other
  SizeHalf = 8
  IntHalf = 4
  Iterator = {i, j}
SYMMETRY Symmetry
\* A null index entry that is dereferenced ends the process.
CHECK_DEADLOCK FALSE
INVARIANTS InPlace NullMeansEmpty LoopInOrder
PROPERTIES Differences
