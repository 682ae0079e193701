SPECIFICATION Spec
CONSTANTS
  k1 = k1
  k2 = k2
  Closers = {k1, k2}
  QueueSize = 2
  CanChange = TRUE
  HasErrCh = FALSE
  Failures = {"codecs", "factory", "header", "change", "write"}
  MaxPkts = 3
  MaxMuxers = 3
INVARIANTS RotationLosesNothing OneMuxerOpen RemoverLast CloseIsFinal
PROPERTIES WriteInsideLifecycle CloseReturns ErrorEnds
CHECK_DEADLOCK FALSE
