SPECIFICATION Spec
CONSTANTS
  Obj = {o1, o2, o3, o4, o5}
  Impl = {i1, i2}
  MaxHeld = 2
  MaxPins = 1
  NoObj = NoObj
  NoImpl = NoImpl
SYMMETRY Symmetry
\* A null pointer given to the library ends the process.
CHECK_DEADLOCK FALSE
INVARIANTS Counts OneOwner KeepsAlive OnlyViewedStay
