SPECIFICATION BoundedSpec
CONSTANTS
  NumBlocks = 4
  BlockSize = 2
  SeqIds = {s1, s2, s3}
  TokenCounts = {0, 1, 3}
  MaxAllocated = 6
  MaxEvicted = 2
SYMMETRY SeqSymmetry
INVARIANTS
  TypeOK
  BlocksExclusive
  BlocksAccounted
  RefCountsExact
  LayoutDense
  EverySequenceEvictable
PROPERTIES
  Isolation
  PoolContract
