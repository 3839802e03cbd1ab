SPECIFICATION FairSpec
CONSTANTS
  Route <- AllRoutes
  MaxPieces = 4
  SentenceCap = 1
  PcmCap = 1
  MayCancel = TRUE
INVARIANTS TypeOK SpokenInOrder RecordedWasSaid
PROPERTY TurnEnds
CHECK_DEADLOCK FALSE
