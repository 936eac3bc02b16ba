-------------------------- MODULE MC_CacheManager --------------------------
(***************************************************************************)
(* CacheManager for TLC.  Sequence ids are interchangeable: no definition  *)
(* of CacheManager tells one from another.                                 *)
(***************************************************************************)
EXTENDS CacheManager

CONSTANTS
  MaxAllocated,   \* bound on totalAllocated
  MaxEvicted      \* bound on totalEvicted

\* The statistics only grow: calls stop before they pass their bounds.
BoundedNext == Next /\ totalAllocated' <= MaxAllocated /\ totalEvicted' <= MaxEvicted

BoundedSpec == Init /\ [][BoundedNext]_cacheVars

SeqSymmetry == Permutations(SeqIds)

=============================================================================
