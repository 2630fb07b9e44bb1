CONSTANTS
  Thread = {t1, t2}
  Handle = {h1, h2}
  Body = {b1, b2, b3}
  Content = {c1, c2}
  MaxTxs = 2
  NoHandle = NoHandle
  NoBody = NoBody
  NoContent = NoContent
SPECIFICATION FairSpec
INVARIANTS
  RefCount
  NoDangling
  DestroyedOnce
  NoLeak
  Serialized
  CopyOfPart
PROPERTIES
  ImplementsValues
  CallsBounded
  CallsReturn
