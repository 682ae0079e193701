SPECIFICATION SafeSpec
CONSTANTS
  c1 = c1
  c2 = c2
  Consumers = {c1, c2}
  QueueSize = 1
  Kinds = {"key", "delta", "audio"}
  DtsSteps <- Mixed
  MaxPkts = 3
  MaxEvict = 1
  Events = {"close"}
SYMMETRY Symm
INVARIANTS DeliveredInOrder  BackpressureLosesNothing ResyncOnKeyframe
CHECK_DEADLOCK FALSE
