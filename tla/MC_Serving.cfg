CONSTANTS
  a = a
  b = b
  w1 = w1
  NoReq = NoReq
  NoSlot = NoSlot
  Requests <- Two
  Impatient <- OnlyA
  Workers <- OneWorker
  Slots = {1, 2}
  First = 1
  MaxSize = 1
  Priority <- Priorities
  ExpertCluster <- Experts
  MaxExperts = 2
  Exclusive = {TRUE}
  MaxLoads = 1
SPECIFICATION FairSpec
INVARIANTS TypeOK LeaseHasOneOwner NoUseAfterClose NoOrphanEngine AnsweredOnce NoLostWakeup PanicOnlyWhenForced StoppedMeansResolved
PROPERTIES EveryClientAnswered DetachedEnginesClose
CHECK_DEADLOCK FALSE
