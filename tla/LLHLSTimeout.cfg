SPECIFICATION MCSpec
CONSTANTS
  NoTime = NoTime
  Segs <- MCSegs
  GapAt = {3}
  MaxOpen = 3
  MaxClose = 1
  Readers = {"r1", "r2"}
  MaxAge = 1
  MaxPushes = 2
  MaxTime = 2
  Lags = {0, 1}
  MaxSent = 3
  MaxCancels = 2
  PartTarget = 1
  SegTarget = 2
  SegBufferCount = 1
  Clients = {"c1"}
  Asks <- MCAsks
  MaxTaken = 4
  MaxChanges = 1
PROPERTIES TimeoutAnswers
CHECK_DEADLOCK FALSE
