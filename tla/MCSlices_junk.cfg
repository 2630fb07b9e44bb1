SPECIFICATION SliceSpec
CONSTANTS
  MaxLength = 3
  MaxDepth = 2
  Bound <- Bounds
  Step <- Steps
\* A call through an unassigned pointer has no next state.
CHECK_DEADLOCK FALSE
INVARIANTS CallsAssigned
