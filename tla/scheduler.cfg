SPECIFICATION FairSchedSpec
CONSTANTS
  main = main
  sigint = sigint
  w1 = w1
  w2 = w2
  Handles = {a}
  n1 = n1
  n2 = n2
  Workers <- PoolWorkers
  Owner = main
  Handler = sigint
  Nulls <- PoolNulls
  Producers <- PoolProducers
  Consumers <- PoolWorkers
  Items <- PoolItems
  NoItem = NoItem
  Garbage = Garbage
  NoThread = NoThread
  INIT_SIZE = 1
INVARIANTS
  EnoughNulls
  NullNeverResumed
  QueueOutlivesCalls
PROPERTIES
  SigintStopsWorkers
  HandlesAreResumed
CHECK_DEADLOCK FALSE
