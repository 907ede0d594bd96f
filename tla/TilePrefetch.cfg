SPECIFICATION Spec
CONSTANTS
  Task = {t1, t2, t3}
  PoolSize = 2
  MaxRequests = 3
SYMMETRY MCSymmetry
INVARIANTS
  HonestEvents
  EventComes
  DeliveredAsAsked
  
CHECK_DEADLOCK FALSE
