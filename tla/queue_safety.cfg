SPECIFICATION Spec
CONSTANTS
  main = main
  w1 = w1
  w2 = w2
  Producers <- SomeProducers
  Consumers <- SomeConsumers
  Items = {a, b, c, d}
  NoItem = NoItem
  Garbage = Garbage
  NoThread = NoThread
  INIT_SIZE = 1
INVARIANTS
  TypeOK
  NoLostWakeup
  ReferenceIntact
PROPERTY
  RefinesFifo
CHECK_DEADLOCK FALSE
