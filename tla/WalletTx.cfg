\* Two handlers beside each other, any number in turn, and one expiry or reconnection.
CONSTANTS
  t1 = t1
  t2 = t2
  Nobody = Nobody
  Tasks <- MCTwoTasks
  MaxSurprises = 1
SPECIFICATION Spec
CHECK_DEADLOCK FALSE
INVARIANTS
  SentOnce
  ClaimsOverlapExplained
  PendingHeld
PROPERTIES
  PendingClears
