SPECIFICATION LoopSpec
CONSTANTS
  c1 = c1
  c2 = c2
  Consumers = {c1, c2}
  QueueSize = 1
  Kinds = {"key", "delta"}
  DtsSteps <- Forward
  MaxPkts = 2
  MaxEvict = 0
  Events = {"muxer", "done"}
PROPERTIES LeakyNeverStalls LoopEnds
CHECK_DEADLOCK FALSE
