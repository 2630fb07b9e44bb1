SPECIFICATION Spec
CONSTANTS
  NameLen <- Table
  ObjectLen <- Lengths
  Capacity = 92
INVARIANTS NoOverrun LikeSnprintf LengthIsTotal WholeText
