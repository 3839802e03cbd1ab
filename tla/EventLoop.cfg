SPECIFICATION FairSpec
CONSTANTS
  Source <- MCSource
  Session <- MCSession
  BusCap = 1
  ChanCap = 1
  TimedDrain = TRUE
  MaxEvents = 4
  MayCancel = TRUE
INVARIANTS TypeOK InOrder StaleSuperseded
PROPERTIES DeliversInOrder EventuallyHeard WorkersStop
CHECK_DEADLOCK FALSE
