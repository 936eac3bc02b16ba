SPECIFICATION BoundedSpec
CONSTANTS
  NumBlocks = 3
  BlockSize = 2
  SeqIds = {s1, s2, s3}
  TokenCounts = {0, 1, 3}
  MaxAllocated = 5
  MaxEvicted = 2
SYMMETRY SeqSymmetry
INVARIANTS
  EvictionHasVictim
