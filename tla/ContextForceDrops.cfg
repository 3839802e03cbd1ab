SPECIFICATION Spec
CONSTANTS
  c1 = c1
  c2 = c2
  Channel <- OneChannel
  HistoryLimit = 2
  MaxIter = 2
  MaxEvents = 2
  MaySelfPrompt = FALSE
  MaxForced = 1
  MayCrash = FALSE
PROPERTY AppendedPreserved
CHECK_DEADLOCK FALSE
