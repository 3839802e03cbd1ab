SPECIFICATION Spec
CONSTANTS
  c1 = c1
  c2 = c2
  Channel <- TwoChannels
  HistoryLimit = 2
  MaxIter = 2
  MaxEvents = 2
  MaySelfPrompt = FALSE
  MaxForced = 0
  MayCrash = TRUE
INVARIANTS TypeOK ExtractsOnce ChainsIntact
PROPERTIES ForgetsOnlyHanded LogsThisTurn
SYMMETRY Channels
CHECK_DEADLOCK FALSE
