SPECIFICATION FairSpec
CONSTANTS
  Listeners = {l1}
  Requests = {r1, r2}
  Pieces = 2
  Nobody = Nobody
PROPERTIES
  RequestsAnswered
  RequestsLogged
CHECK_DEADLOCK FALSE
