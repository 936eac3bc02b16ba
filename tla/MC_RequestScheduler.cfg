SPECIFICATION Spec
CONSTANTS
  r1 = r1
  r2 = r2
  r3 = r3
  Requests <- ThreeRequests
  Priority <- MixedPriority
  Policies = {"fcfs", "priority"}
  MaxQueueSize = 2
  BatchSizes = {1, 2}
INVARIANTS
  TypeOK
  OnePlace
  Ledger
PROPERTIES
  NoOvertaking
  NoStaleStart
  NothingForgotten
