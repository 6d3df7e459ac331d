CONSTANTS
  a = a
  b = b
  g = g
  NoReq = NoReq
  Requests <- Texts
  Graphs <- None
  MaxTokens = 2
  Low = 0
  Critical = 1
  Exclusive = {FALSE}
  MayThrow = FALSE
  ClientCancels <- OnlyA
  CallbackCancels <- OnlyB
SPECIFICATION FairSpec
PROPERTY EveryAcceptedEnds
CHECK_DEADLOCK FALSE
