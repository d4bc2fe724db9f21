SPECIFICATION Spec
CONSTANTS
  main = main
  w1 = w1
  w2 = w2
  asker1 = asker1
  asker2 = asker2
  shared = shared
  leaf = leaf
  Workers <- TwoWorkers
  Main = main
  Coros <- Family
  Awaits <- FamilyAwaits
  Scheduled = {asker1, asker2, leaf}
  Yielders = {shared, leaf}
  Throwers = {asker1, leaf}
  Void = {asker1, asker2}
  NoThread = NoThread
  NoCoro = NoCoro
SYMMETRY WorkerSymmetry
INVARIANTS
  TypeOK
  ResumedOnce
  NeverLost
CHECK_DEADLOCK FALSE
