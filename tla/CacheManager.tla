---------------------------- MODULE CacheManager ----------------------------
(***************************************************************************)
(* The KV-cache block pool: class CacheManager (src/src/cache/manager.py)  *)
(* and the PhysicalBlock and BlockTable classes it is built from           *)
(* (src/src/cache/block.py).                                               *)
(*                                                                         *)
(* A pool of NumBlocks blocks of BlockSize token slots is handed out to    *)
(* sequences from a LIFO free list.  Each sequence has a block table; an   *)
(* ordered dictionary keeps the sequences from least to most recently      *)
(* used.  One action is one call of a method; a method that raises has a   *)
(* second action for what the failed call leaves behind.  A call that      *)
(* changes nothing is a stuttering step and has no action.                 *)
(*                                                                         *)
(* A definition named Bug_X_... is a deliberately wrong variant of X.  No  *)
(* action uses it: each one shows that some property below can fail.       *)
(***************************************************************************)
EXTENDS Integers, Sequences, FiniteSets, SequencesExt

CONSTANTS
  NumBlocks,      \* size of the pool
  BlockSize,      \* token slots of a block
  SeqIds,         \* the sequence ids callers use
  TokenCounts     \* the token counts callers ask for

ASSUME CacheAssumption ==
  /\ NumBlocks \in Nat
  /\ BlockSize \in Nat \ {0}
  /\ TokenCounts \subseteq Nat

VARIABLES
  refCount,        \* blocks[b].ref_count; status is FREE exactly when it is 0
  filled,          \* blocks[b].num_tokens_filled
  freeIds,         \* _free_block_ids, popped and appended at its end
  tables,          \* _block_tables: sequence id -> physical_block_ids
  access,          \* keys of _access_order, least recently used first
  totalAllocated,  \* _total_allocated
  totalEvicted,    \* _total_evicted
  leaked           \* history: blocks of tables that allocate_sequence overwrote

poolVars  == <<refCount, filled, freeIds, tables>>
statVars  == <<totalAllocated, totalEvicted, leaked>>
cacheVars == <<poolVars, access, statVars>>

Blocks == 0 .. NumBlocks - 1

-----------------------------------------------------------------------------
(* Helpers                                                                 *)

Smaller(a, b) == IF a <= b THEN a ELSE b

TokensToBlocks(n) == (n + BlockSize - 1) \div BlockSize

\* The next n blocks that pop() returns, in that order, and what stays behind.
Bug_Popped_OtherEnd(n) == [i \in 1 .. n |-> freeIds[i]]
Bug_Unpopped_Peeks(n)  == freeIds

Popped(n)    == [i \in 1 .. n |-> freeIds[Len(freeIds) - i + 1]]
Unpopped(n)  == SubSeq(freeIds, 1, Len(freeIds) - n)

Bug_Share_NoCap(n, i) == n - (i - 1) * BlockSize

\* Slots the i-th block of a run of fresh blocks gets, out of n tokens.
Share(n, i) == Smaller(n - (i - 1) * BlockSize, BlockSize)

\* PhysicalBlock.allocate for each of ids, with n tokens spread over them.
RefsWith(ids) == [b \in Blocks |-> IF b \in Range(ids) THEN refCount[b] + 1
                                                       ELSE refCount[b]]
FilledWith(ids, n) ==
  [b \in Blocks |-> IF b \in Range(ids)
                    THEN Share(n, CHOOSE i \in DOMAIN ids : ids[i] = b)
                    ELSE filled[b]]

Bug_Touched_Twice(s) == Append(access, s)

\* _touch: s becomes the most recently used key, known to the cache or not.
Touched(s) == Append(RemoveFirst(access, s), s)

Bug_Keep_StopsShort(ids, S) == IF ids = <<>> THEN ids ELSE Front(ids)

\* The members of a block table that belong to S, in table order.
Keep(ids, S) == IF Range(ids) \subseteq S THEN ids
                ELSE SelectSeq(ids, LAMBDA b : b \in S)

-----------------------------------------------------------------------------
(* Operations                                                              *)

Init ==
  /\ refCount = [b \in Blocks |-> 0]
  /\ filled = [b \in Blocks |-> 0]
  /\ freeIds = [i \in 1 .. NumBlocks |-> i - 1]
  /\ tables = [s \in {} |-> <<>>]
  /\ access = <<>>
  /\ totalAllocated = 0
  /\ totalEvicted = 0
  /\ leaked = {}

CanAllocate(n) == TokensToBlocks(n) <= Len(freeIds)

\* allocate_sequence.  Nothing stops a caller from allocating an id twice: the
\* old table is overwritten and its blocks belong to nobody.
AllocateSequence(s, n) ==
  LET ids == Popped(TokensToBlocks(n))
  IN  /\ CanAllocate(n)
      /\ freeIds' = Unpopped(TokensToBlocks(n))
      /\ refCount' = RefsWith(ids)
      /\ filled' = FilledWith(ids, n)
      /\ tables' = [x \in DOMAIN tables \cup {s} |-> IF x = s THEN ids ELSE tables[x]]
      /\ access' = Touched(s)
      /\ totalAllocated' = totalAllocated + TokensToBlocks(n)
      /\ leaked' = leaked \cup (IF s \in DOMAIN tables THEN Range(tables[s]) ELSE {})
      /\ UNCHANGED totalEvicted

Bug_LastFit_FreshBlock(s, n) == 0

\* Tokens of an extension by n that fit into the last block of s, and the
\* blocks that the other tokens need.
LastFit(s, n) == IF tables[s] = <<>> THEN 0
                 ELSE Smaller(BlockSize - filled[Last(tables[s])], n)
ExtraBlocks(s, n) == TokensToBlocks(n - LastFit(s, n))

\* num_tokens_filled once the last block of s has been topped up.
ToppedUp(s, n) == [b \in Blocks |-> IF tables[s] # <<>> /\ b = Last(tables[s])
                                    THEN filled[b] + LastFit(s, n)
                                    ELSE filled[b]]

\* extend_sequence.
ExtendSequence(s, n) ==
  LET ids  == Popped(ExtraBlocks(s, n))
      rest == n - LastFit(s, n)
  IN  /\ s \in DOMAIN tables
      /\ ExtraBlocks(s, n) <= Len(freeIds)
      /\ freeIds' = Unpopped(ExtraBlocks(s, n))
      /\ refCount' = RefsWith(ids)
      /\ filled' = [b \in Blocks |-> IF b \in Range(ids) THEN FilledWith(ids, rest)[b]
                                                         ELSE ToppedUp(s, n)[b]]
      /\ tables' = [tables EXCEPT ![s] = @ \o ids]
      /\ access' = Touched(s)
      /\ totalAllocated' = totalAllocated + ExtraBlocks(s, n)
      /\ UNCHANGED <<totalEvicted, leaked>>

\* extend_sequence raising MemoryError: the last block has been topped up and
\* the sequence touched before the free list is looked at.
ExtendRaises(s, n) ==
  /\ s \in DOMAIN tables
  /\ ExtraBlocks(s, n) > Len(freeIds)
  /\ filled' = ToppedUp(s, n)
  /\ access' = Touched(s)
  /\ UNCHANGED <<refCount, freeIds, tables, statVars>>

Bug_Release_NoWipe(s) ==
  LET freed == {b \in Range(tables[s]) : refCount[b] <= 1}
  IN  /\ refCount' = [b \in Blocks |-> IF b \in Range(tables[s]) /\ refCount[b] > 0
                                       THEN refCount[b] - 1 ELSE refCount[b]]
      /\ freeIds' = freeIds \o Keep(tables[s], freed)
      /\ tables' = Restrict(tables, DOMAIN tables \ {s})
      /\ UNCHANGED filled

\* PhysicalBlock.release over a table: a block nobody else refers to is wiped
\* and goes back to the end of the free list.
Release(s) ==
  LET freed == {b \in Range(tables[s]) : refCount[b] <= 1}
  IN  /\ refCount' = [b \in Blocks |-> IF b \in Range(tables[s]) /\ refCount[b] > 0
                                       THEN refCount[b] - 1 ELSE refCount[b]]
      /\ filled' = [b \in Blocks |-> IF b \in freed THEN 0 ELSE filled[b]]
      /\ freeIds' = freeIds \o Keep(tables[s], freed)
      /\ tables' = Restrict(tables, DOMAIN tables \ {s})

\* free_sequence; an unknown id is ignored.
FreeSequence(s) ==
  /\ s \in DOMAIN tables
  /\ Release(s)
  /\ access' = RemoveFirst(access, s)
  /\ UNCHANGED statVars

\* evict_lru: the victim is popped from the access order, then freed.
EvictLRU ==
  /\ access # <<>>
  /\ Head(access) \in DOMAIN tables
  /\ Release(Head(access))
  /\ access' = RemoveFirst(Tail(access), Head(access))
  /\ totalEvicted' = totalEvicted + 1
  /\ UNCHANGED <<totalAllocated, leaked>>

\* evict_lru raising KeyError: the oldest key names no block table.
EvictRaises ==
  /\ access # <<>>
  /\ Head(access) \notin DOMAIN tables
  /\ access' = Tail(access)
  /\ UNCHANGED <<poolVars, statVars>>

\* get_block_table: a lookup touches its id even when there is no such table.
GetBlockTable(s) ==
  /\ access' = Touched(s)
  /\ UNCHANGED <<poolVars, statVars>>

-----------------------------------------------------------------------------
Next ==
  \/ \E s \in SeqIds, n \in TokenCounts :
       AllocateSequence(s, n) \/ ExtendSequence(s, n) \/ ExtendRaises(s, n)
  \/ \E s \in SeqIds : FreeSequence(s) \/ GetBlockTable(s)
  \/ EvictLRU \/ EvictRaises

Spec == Init /\ [][Next]_cacheVars

-----------------------------------------------------------------------------
(* Properties                                                              *)

\* Every variable has its type.
TypeOK ==
  /\ refCount \in [Blocks -> Nat]
  /\ filled \in [Blocks -> 0 .. BlockSize]
  /\ freeIds \in Seq(Blocks)
  /\ DOMAIN tables \subseteq SeqIds
  /\ \A s \in DOMAIN tables : tables[s] \in Seq(Blocks)
  /\ access \in Seq(SeqIds)
  /\ totalAllocated \in Nat
  /\ totalEvicted \in Nat
  /\ leaked \subseteq Blocks

\* No block is in the free list twice, under two logical indices of a table,
\* in the tables of two sequences, or both free and in use: whatever the order
\* of allocate, extend, free and evict, two sequences never share a block.
BlocksExclusive ==
  /\ IsInjective(freeIds)
  /\ \A s \in DOMAIN tables :
       /\ IsInjective(tables[s])
       /\ Range(tables[s]) \cap (Range(freeIds) \cup leaked) = {}
  /\ \A s, t \in DOMAIN tables : s # t => Range(tables[s]) \cap Range(tables[t]) = {}
  /\ Range(freeIds) \cap leaked = {}

\* Every block is free, mapped by a table, or was dropped by allocating a live
\* id again: no other sequence of calls can lose a block from the pool.
BlocksAccounted ==
  \A b \in Blocks : \/ b \in Range(freeIds) \cup leaked
                    \/ \E s \in DOMAIN tables : b \in Range(tables[s])

\* ref_count and the free list agree: a block is in the list exactly when its
\* count is 0, then its slots are wiped, and no count ever passes 1.
RefCountsExact ==
  \A b \in Blocks : /\ b \in Range(freeIds) <=> refCount[b] = 0
                    /\ refCount[b] <= 1
                    /\ refCount[b] = 0 => filled[b] = 0

\* Logical block i of a sequence holds tokens (i-1)*BlockSize onwards: every
\* block of a table but the last is full and the last is not empty, after any
\* mixture of allocations, extensions and extensions that failed half way.
LayoutDense ==
  \A s \in DOMAIN tables : \A i \in DOMAIN tables[s] :
    /\ i < Len(tables[s]) => filled[tables[s][i]] = BlockSize
    /\ filled[tables[s][i]] > 0

\* Every sequence that holds blocks has exactly one place in the LRU order, so
\* that eviction can reach it.
EverySequenceEvictable ==
  /\ IsInjective(access)
  /\ DOMAIN tables \subseteq Range(access)

\* The step is a call made for s: one its caller makes, or an eviction of s.
CalledFor(s) ==
  \/ FreeSequence(s) \/ GetBlockTable(s)
  \/ access # <<>> /\ s = Head(access) /\ (EvictLRU \/ EvictRaises)
  \/ \E n \in TokenCounts :
       AllocateSequence(s, n) \/ ExtendSequence(s, n) \/ ExtendRaises(s, n)

\* s keeps its table and what its blocks hold, or goes on having none.
Kept(s) ==
  /\ s \in DOMAIN tables <=> s \in DOMAIN tables'
  /\ s \in DOMAIN tables =>
       /\ tables'[s] = tables[s]
       /\ \A b \in Range(tables[s]) : refCount'[b] = refCount[b] /\ filled'[b] = filled[b]

\* A sequence changes through the calls made for it alone: whatever is allocated,
\* extended, freed or evicted for another, and when such a call raises half way,
\* it keeps its table and the reference counts and filled slots of its blocks.
Isolation == [][\A s \in SeqIds : Kept(s) \/ CalledFor(s)]_cacheVars

\* The cache is a pool of exclusive blocks: each call takes free blocks for one
\* sequence or gives all the blocks of one back, whatever happens to the order of
\* the free list, the slots and the LRU order meanwhile.
Pool == INSTANCE BlockPool WITH
          free <- Range(freeIds),
          held <- [s \in DOMAIN tables |-> Range(tables[s])],
          lost <- leaked
PoolContract == Pool!Spec

\* Code comment: evict_lru returns "the sequence_id that was evicted, or None if
\* no sequences" (src/src/cache/manager.py:209).  It needs a block table behind the
\* oldest key; get_block_table of an unknown id puts one there that has none.
EvictionHasVictim == access # <<>> => Head(access) \in DOMAIN tables

=============================================================================
