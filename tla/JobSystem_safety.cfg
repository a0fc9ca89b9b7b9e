SPECIFICATION Spec
CONSTANTS
  Clients = {c1, c2}
  Owner = c1
  ThreadCount = 3
  QUEUE_CAPACITY = 2
  NoLoad = 15
  MaxJobs = 4
INVARIANTS NoIdleOverlooked LeastLoaded
CHECK_DEADLOCK FALSE
