SPECIFICATION FairSpec
CONSTANTS
  hello = hello
  bye = bye
  hush = hush
  nothing = nothing
  Text <- OneWord
  NoText = nothing
  Silent <- NoWords
  Similar <- Alike
  Tool = {"search", "look", "post", "react", "unknown", "skip_response"}
  MaxCalls = 2
  MaxIter = 2
  Patience = 1
  MaxTurns = 1
INVARIANTS TypeOK EffectsInOrder AnsweredInOrder RequestsComplete FailuresShown
PROPERTY TurnEnds
CHECK_DEADLOCK FALSE
