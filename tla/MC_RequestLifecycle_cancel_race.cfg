CONSTANTS
  a = a
  b = b
  g = g
  NoReq = NoReq
  Requests <- Texts
  Graphs <- None
  MaxTokens = 1
  Low = 1
  Critical = 2
  Exclusive = {FALSE}
  MayThrow = FALSE
  ClientCancels <- OnlyA
  CallbackCancels <- None
SPECIFICATION Spec
INVARIANT CancelHonoured
CHECK_DEADLOCK FALSE
