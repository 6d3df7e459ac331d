CONSTANTS
  a = a
  b = b
  g = g
  NoReq = NoReq
  Requests <- Texts
  Graphs <- None
  MaxTokens = 2
  Low = 1
  Critical = 2
  Exclusive = {TRUE, FALSE}
  MayThrow = TRUE
  ClientCancels <- Texts
  CallbackCancels <- Texts
SPECIFICATION Spec
SYMMETRY Interchangeable
INVARIANTS TypeOK SingleOwner ShutdownResolvesAll ResultsBounded OneAtATime
PROPERTY ImplementsContract
CHECK_DEADLOCK FALSE
