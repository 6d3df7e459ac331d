CONSTANTS
  a = a
  b = b
  g = g
  NoReq = NoReq
  Requests <- TextAndGraph
  Graphs <- OneGraph
  MaxTokens = 1
  Low = 0
  Critical = 1
  Exclusive = {TRUE, FALSE}
  MayThrow = TRUE
  ClientCancels <- TextAndGraph
  CallbackCancels <- None
SPECIFICATION FairSpec
INVARIANT TerminalExactlyOnce
PROPERTIES EveryAcceptedEnds ShutdownCompletes
CHECK_DEADLOCK FALSE
