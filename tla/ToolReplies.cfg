SPECIFICATION Spec
CONSTANTS
  hello = hello
  bye = bye
  hush = hush
  nothing = nothing
  Text <- Words
  NoText = nothing
  Silent <- Hush
  Similar <- Alike
  Tool = {"python_exec", "react", "skip_response"}
  MaxCalls = 1
  MaxIter = 2
  Patience = 1
  MaxTurns = 3
INVARIANT NeverRepeats
CHECK_DEADLOCK FALSE
