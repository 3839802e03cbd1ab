SPECIFICATION FairSpec
CONSTANTS
  ann = ann
  bob = bob
  browser = browser
  device = device
  esp = esp
  User = {ann, bob}
  Web = {browser}
  Device = {device}
  Esp = esp
  Owner = ann
  Limits <- Detectors
  Long = 3
  BusCap = 1
  MaxGap = 1
  MaxWords = 3
  MaxSessions = 2
  MaxMoved = 1
INVARIANTS TypeOK InOrder Attributed HeardOnce Accounted
PROPERTY EventuallyHeard
CHECK_DEADLOCK FALSE
