SPECIFICATION Spec
CONSTANTS
  Listeners = {l1, l2}
  Requests = {r1, r2}
  Pieces = 2
  Nobody = Nobody
SYMMETRY ServerSymmetry
INVARIANTS
  TypeOK
  
  LogLinesWhole
  LateOnlyAfterSignal
  MembersOutliveWorkers
CHECK_DEADLOCK FALSE
