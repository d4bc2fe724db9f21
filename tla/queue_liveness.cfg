SPECIFICATION FairSpec
CONSTANTS
  main = main
  w1 = w1
  w2 = w2
  Producers <- SomeProducers
  Consumers <- SomeConsumers
  NoItem = NoItem
  Garbage = Garbage
  NoThread = NoThread
  INIT_SIZE = 1
  Items = {a, b, c}
PROPERTY
  EveryElementIsTaken
CHECK_DEADLOCK FALSE
