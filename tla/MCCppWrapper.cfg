SPECIFICATION Spec
CONSTANTS
  Var = {v1, v2, v3, v4}
  Obj = {o1, o2, o3}
  Value <- AllValues
  Type <- Types
  PartOf <- Parts
  Raw <- Bytes
  Null = Null
  Garbage = "garbage"
SYMMETRY Symmetry
INVARIANTS OneOwner
PROPERTIES ImplementsOwnedValues
