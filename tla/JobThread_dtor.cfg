SPECIFICATION FairSpec
CONSTANTS
  c1 = c1  c2 = c2
  j1 = j1  j2 = j2  j3 = j3  j4 = j4
  Clients = {c1, c2}
  Owner = c1
  Worker = worker
  NoThread = none
  Jobs = {j1, j2, j3, j4}
  Issuer <- IssuerFlat
  QUEUE_CAPACITY = 4
  MaxSpurious = 0
PROPERTY DestructorReturns
CHECK_DEADLOCK FALSE
