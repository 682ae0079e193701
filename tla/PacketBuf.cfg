\* Two readers, one of which asks for packets from a later time on.
SPECIFICATION Spec
CONSTANTS
  r1 = r1
  r2 = r2
  Readers = {r1, r2}
  Since <- MCSince
  MaxAge = 0
  MaxTime = 2
  MaxPkts = 2
INVARIANTS NoLostWakeup OnlyEvictedOrOldMissed
PROPERTIES StreamSpec ReadReturns
CHECK_DEADLOCK FALSE
