SPECIFICATION Spec
CONSTANTS
  Inst = {i1, i2, i3, i4}
  Obj = {l1, l2, l3}
  Value <- AllValues
  Type <- Types
  PartOf <- Parts
  Raw <- Bytes
  MaxHeld = 2
  Null = Null
  Garbage = "garbage"
SYMMETRY Symmetry
INVARIANTS OneOwner
PROPERTIES ImplementsOwnedValues
