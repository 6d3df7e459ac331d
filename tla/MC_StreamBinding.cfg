CONSTANTS
  a = a
  b = b
  NoReq = NoReq
  Requests <- Two
  Embeddings <- AtMostB
  Impatient <- OnlyA
  MaxTokens = 1
  Buffer = 1
  Exclusive = {TRUE, FALSE}
SPECIFICATION FairSpec
INVARIANTS TypeOK LosslessUnlessCancelled DoneIsLast
PROPERTIES ImplementsService NothingHangs
CHECK_DEADLOCK FALSE
