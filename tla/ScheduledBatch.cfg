SPECIFICATION FairSpec
CONSTANTS
  greeting = greeting
  reminder = reminder
  Action <- Two
  Execution = {1}
  MaxRetries = 2
  RandomMinutes = 0
  MaxTime = 1
  MaxWrites = 2
  MaxFaults = 0
PROPERTY DueIsHandled
CHECK_DEADLOCK FALSE
