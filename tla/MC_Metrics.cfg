SPECIFICATION Spec
CONSTANTS
  a = a
  b = b
  c = c
  Threads <- ThreeThreads
  NoThread = NoThread
  Window = 1
  TokenCounts = {1, 2}
  MaxTime = 2
  MaxCalls = 4
  SampleSizes = {1, 2, 3, 19, 20, 21, 99, 100, 101, 200}
SYMMETRY Symmetry
INVARIANTS
  TypeOK
  CountersExact
  WindowExact
  SnapshotOrdered
  Percentiles
PROPERTIES
  StaleOnlyOvertaken
CHECK_DEADLOCK FALSE
