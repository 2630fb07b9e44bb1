CONSTANTS
  Thread = {t1, t2}
  Code = {1, 5}
  Null = Null
  OOM = OOM
SPECIFICATION Spec
SYMMETRY Symmetry
INVARIANTS
  StaticAlive
  ErrorsReleased
  ExceptionsCross
PROPERTIES
  ReadsLive
