SPECIFICATION Spec
CONSTANTS
  c1 = c1
  c2 = c2
  Channel <- OneChannel
  HistoryLimit = 2
  MaxIter = 1
  MaxEvents = 2
  MaySelfPrompt = TRUE
  MaxForced = 1
  MayCrash = TRUE
PROPERTY LogsThisTurn
CHECK_DEADLOCK FALSE
