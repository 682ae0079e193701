SPECIFICATION SafeSpec
CONSTANTS
  c1 = c1
  c2 = c2
  i1 = i1
  i2 = i2
  s1 = s1
  p1 = p1
  p2 = p2
  None = None
  Sources = {s1}
  Callers = {c1, c2}
  Relays = {p1, p2}
  Ids = {i1, i2}
  SrcOf <- OneSource
  QCap = 1
  MaxConsumers = 0
  Events = {"muxer"}
SYMMETRY Symm
INVARIANTS ClosedRelayIsEmpty NoStrandedRelay
PROPERTY NoDisplacement
CHECK_DEADLOCK FALSE
