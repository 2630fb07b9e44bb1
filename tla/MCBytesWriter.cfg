SPECIFICATION Spec
CONSTANTS
  Small = 6
  Factor = 4
  MaxSize = 40
  Piece <- Pieces
\* A null writer ends the process.
CHECK_DEADLOCK FALSE
INVARIANTS WithinBuffer LargerThanSmall NotWasteful Delivered NothingLeft
