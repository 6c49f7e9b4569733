CONSTANTS
  p1 = p1
  p2 = p2
  c1 = c1
  g1 = g1
  m1 = m1
  f1 = f1
  Push = {p1, p2}
  Get = {g1}
  Clean = {c1}
  Mover = {m1}
  File = {f1}
  NameOf <- MCNameOf
  Matching = {f1}
  SizeOf <- MCSizeOf
  Buffer = 1
  MaxRetries = 1
  Old = Old
SPECIFICATION Spec
INVARIANTS StoredFromBegun
PROPERTIES ImplementsFolder
CHECK_DEADLOCK FALSE
