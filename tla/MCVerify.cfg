CONSTANTS
  Output = {o1, o2}
  Garbage = garbage
  Flag = {p2sh, witness, taproot}
  VERIFY_P2SH = p2sh
  VERIFY_WITNESS = witness
  VERIFY_TAPROOT = taproot
  VERIFY_CLEANSTACK = cleanstack
  MaxInputs = 2
SYMMETRY Symmetric
SPECIFICATION Spec
INVARIANTS ScriptCanRun ErrorsAreTrue OnlyArrayStays HeldAreRead
