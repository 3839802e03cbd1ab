SPECIFICATION FairSpec
CONSTANTS
  greeting = greeting
  reminder = reminder
  Action <- One
  Execution = {1, 2}
  MaxRetries = 2
  RandomMinutes = 0
  MaxTime = 1
  MaxWrites = 2
  MaxFaults = 1
INVARIANTS TypeOK ClosedForAReason PostedOnce
PROPERTY DueIsHandled
CHECK_DEADLOCK FALSE
