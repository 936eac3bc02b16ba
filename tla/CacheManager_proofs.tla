------------------------ MODULE CacheManager_proofs ------------------------
(***************************************************************************)
(* The safety invariants of CacheManager hold for every pool size, block   *)
(* size, set of sequence ids and set of token counts.  Their conjunction   *)
(* IInv is inductive: no part of it is inductive alone, because releasing  *)
(* a table returns exactly its own blocks only when every count is 1.      *)
(***************************************************************************)
EXTENDS CacheManager, CollectionFacts

IInv ==
  /\ TypeOK
  /\ BlocksExclusive
  /\ BlocksAccounted
  /\ RefCountsExact
  /\ LayoutDense
  /\ EverySequenceEvictable

-----------------------------------------------------------------------------
(* Arithmetic of blocks                                                    *)

\* _tokens_to_blocks is the least number of blocks that holds n tokens.
LEMMA BlocksNeeded ==
  ASSUME NEW n \in Nat
  PROVE  /\ TokensToBlocks(n) \in Nat
         /\ TokensToBlocks(n) * BlockSize >= n
         /\ n = 0 => TokensToBlocks(n) = 0
         /\ n > 0 => TokensToBlocks(n) > 0 /\ (TokensToBlocks(n) - 1) * BlockSize < n
PROOF
<1> DEFINE k == (n + BlockSize - 1) \div BlockSize
<1>1. BlockSize \in Nat \ {0}
  BY CacheAssumption
<1>2. /\ k \in Int
      /\ k * BlockSize <= n + BlockSize - 1
      /\ n + BlockSize - 1 < (k + 1) * BlockSize
  BY <1>1, Z3
<1> QED
  BY <1>1, <1>2, Z3 DEF TokensToBlocks

\* Of the fresh blocks for n tokens every one gets a token and all but the
\* last are full.
LEMMA ShareRange ==
  ASSUME NEW n \in Nat, NEW i \in 1 .. TokensToBlocks(n)
  PROVE  /\ Share(n, i) \in 1 .. BlockSize
         /\ i < TokensToBlocks(n) => Share(n, i) = BlockSize
PROOF
<1> DEFINE k == TokensToBlocks(n)
<1>1. /\ BlockSize \in Nat \ {0} /\ k \in Nat /\ i \in 1 .. k
      /\ n > 0 /\ (k - 1) * BlockSize < n
  BY BlocksNeeded, CacheAssumption
<1> HIDE DEF k
<1>2. \A a, b, c \in Nat : a <= b => a * c <= b * c
  BY Z3
<1>3. (i - 1) * BlockSize <= (k - 1) * BlockSize
  BY <1>1, <1>2
<1>4. i < k => i * BlockSize <= (k - 1) * BlockSize
  BY <1>1, <1>2
<1>5. (i - 1) * BlockSize \in Int /\ (k - 1) * BlockSize \in Int
      /\ i * BlockSize = (i - 1) * BlockSize + BlockSize
  BY <1>1, Z3
<1> QED
  BY <1>1, <1>3, <1>4, <1>5 DEF Share, Smaller, k

-----------------------------------------------------------------------------
(* The access order and the free list                                      *)

\* _touch keeps every key once and puts s among them.
LEMMA TouchedProperties ==
  ASSUME access \in Seq(SeqIds), IsInjective(access), NEW s \in SeqIds
  PROVE  /\ Touched(s) \in Seq(SeqIds)
         /\ IsInjective(Touched(s))
         /\ Range(Touched(s)) = Range(access) \cup {s}
PROOF
<1> DEFINE w == RemoveFirst(access, s)
<1>1. w \in Seq(SeqIds) /\ IsInjective(w) /\ Range(w) = Range(access) \ {s}
  BY RemoveFirstProperties
<1>2. Touched(s) = Append(w, s)
  BY DEF Touched
<1> HIDE DEF w
<1>3. /\ Append(w, s) \in Seq(SeqIds) /\ Len(Append(w, s)) = Len(w) + 1
      /\ Append(w, s)[Len(w) + 1] = s
      /\ \A i \in 1 .. Len(w) : Append(w, s)[i] = w[i]
  BY <1>1
<1>4. IsInjective(Append(w, s))
  BY <1>1, <1>3 DEF IsInjective, Range
<1>5. Range(Append(w, s)) = Range(w) \cup {s}
  BY <1>1, <1>3 DEF Range
<1> QED
  BY <1>1, <1>2, <1>3, <1>4, <1>5

\* Popping k blocks splits the free list into what is taken and what stays.
LEMMA PoppedProperties ==
  ASSUME freeIds \in Seq(Blocks), IsInjective(freeIds), NEW k \in 0 .. Len(freeIds)
  PROVE  /\ Popped(k) \in Seq(Blocks) /\ Len(Popped(k)) = k /\ IsInjective(Popped(k))
         /\ Unpopped(k) \in Seq(Blocks) /\ IsInjective(Unpopped(k))
         /\ Range(Popped(k)) \cap Range(Unpopped(k)) = {}
         /\ Range(Popped(k)) \cup Range(Unpopped(k)) = Range(freeIds)
PROOF
<1> DEFINE L == Len(freeIds)
<1>1. /\ Popped(k) \in Seq(Blocks) /\ Len(Popped(k)) = k /\ DOMAIN Popped(k) = 1 .. k
      /\ \A i \in 1 .. k : Popped(k)[i] = freeIds[L - i + 1]
  BY DEF Popped
<1>2. /\ Unpopped(k) \in Seq(Blocks) /\ Len(Unpopped(k)) = L - k
      /\ DOMAIN Unpopped(k) = 1 .. L - k
      /\ \A i \in 1 .. L - k : Unpopped(k)[i] = freeIds[i]
  BY DEF Unpopped
<1> L \in Nat /\ DOMAIN freeIds = 1 .. L
  OBVIOUS
<1> HIDE DEF L
<1>3. IsInjective(Popped(k))
  BY <1>1 DEF IsInjective
<1>4. IsInjective(Unpopped(k))
  BY <1>2 DEF IsInjective
<1>5. ASSUME NEW i \in 1 .. k, NEW j \in 1 .. L - k
      PROVE  Popped(k)[i] # Unpopped(k)[j]
  <2>1. L - i + 1 \in DOMAIN freeIds /\ j \in DOMAIN freeIds /\ L - i + 1 # j
    OBVIOUS
  <2> QED
    BY <1>1, <1>2, <2>1 DEF IsInjective
<1>6. /\ \A i \in 1 .. k : \E m \in 1 .. L : Popped(k)[i] = freeIds[m]
      /\ \A i \in 1 .. L - k : \E m \in 1 .. L : Unpopped(k)[i] = freeIds[m]
  <2>1. \A i \in 1 .. k : L - i + 1 \in 1 .. L
    OBVIOUS
  <2>2. \A i \in 1 .. L - k : i \in 1 .. L
    OBVIOUS
  <2> QED
    BY <1>1, <1>2, <2>1, <2>2
<1>7. ASSUME NEW j \in 1 .. L
      PROVE  freeIds[j] \in Range(Popped(k)) \cup Range(Unpopped(k))
  <2>1. CASE j <= L - k
    BY <1>2, <2>1 DEF Range
  <2>2. CASE j > L - k
    <3>1. L - j + 1 \in DOMAIN Popped(k) /\ Popped(k)[L - j + 1] = freeIds[j]
      BY <1>1, <2>2
    <3> QED
      BY <3>1 DEF Range
  <2> QED
    BY <2>1, <2>2
<1>8. Range(Popped(k)) \cap Range(Unpopped(k)) = {}
  BY <1>1, <1>2, <1>5 DEF Range
<1>9. /\ Range(Popped(k)) \subseteq Range(freeIds)
      /\ Range(Unpopped(k)) \subseteq Range(freeIds)
  <2>1. \A i \in DOMAIN Popped(k) : Popped(k)[i] \in Range(freeIds)
    BY <1>1, <1>6 DEF Range
  <2>2. \A i \in DOMAIN Unpopped(k) : Unpopped(k)[i] \in Range(freeIds)
    BY <1>2, <1>6 DEF Range
  <2> QED
    BY <2>1, <2>2 DEF Range
<1>10. Range(freeIds) \subseteq Range(Popped(k)) \cup Range(Unpopped(k))
  BY <1>7 DEF Range
<1> QED
  BY <1>1, <1>2, <1>3, <1>4, <1>8, <1>9, <1>10

-----------------------------------------------------------------------------
(* Slots of fresh blocks and of the last block                             *)

\* Fresh blocks hold at least one token each and only the last may have room;
\* every other block keeps what it had.
LEMMA FilledWithProperties ==
  ASSUME filled \in [Blocks -> 0 .. BlockSize], NEW n \in Nat,
         NEW ids \in Seq(Blocks), IsInjective(ids), Len(ids) = TokensToBlocks(n)
  PROVE  /\ FilledWith(ids, n) \in [Blocks -> 0 .. BlockSize]
         /\ \A b \in Blocks \ Range(ids) : FilledWith(ids, n)[b] = filled[b]
         /\ \A i \in 1 .. Len(ids) :
              /\ FilledWith(ids, n)[ids[i]] \in 1 .. BlockSize
              /\ i < Len(ids) => FilledWith(ids, n)[ids[i]] = BlockSize
PROOF
<1>1. BlockSize \in Nat \ {0} /\ DOMAIN ids = 1 .. Len(ids) /\ Len(ids) \in Nat
  BY CacheAssumption
<1>2. ASSUME NEW i \in 1 .. Len(ids)
      PROVE  ids[i] \in Blocks /\ FilledWith(ids, n)[ids[i]] = Share(n, i)
  <2>1. ids[i] \in Blocks /\ ids[i] \in Range(ids)
    BY <1>1 DEF Range
  <2>2. (CHOOSE m \in DOMAIN ids : ids[m] = ids[i]) = i
    BY <1>1 DEF IsInjective
  <2> QED
    BY <2>1, <2>2 DEF FilledWith
<1>3. \A i \in 1 .. Len(ids) : /\ Share(n, i) \in 1 .. BlockSize
                               /\ i < Len(ids) => Share(n, i) = BlockSize
  BY ShareRange
<1>4. \A b \in Blocks \ Range(ids) : FilledWith(ids, n)[b] = filled[b]
  BY DEF FilledWith
<1>5. \A b \in Range(ids) : FilledWith(ids, n)[b] \in 0 .. BlockSize
  BY <1>1, <1>2, <1>3 DEF Range
<1>6. FilledWith(ids, n) \in [Blocks -> 0 .. BlockSize]
  <2> DEFINE F(b) == IF b \in Range(ids)
                     THEN Share(n, CHOOSE i \in DOMAIN ids : ids[i] = b)
                     ELSE filled[b]
  <2>1. FilledWith(ids, n) = [b \in Blocks |-> F(b)]
    BY DEF FilledWith
  <2> HIDE DEF F
  <2>2. \A b \in Blocks : F(b) \in 0 .. BlockSize
    BY <1>4, <1>5, <2>1
  <2> QED
    BY <2>1, <2>2
<1> QED
  BY <1>2, <1>3, <1>4, <1>6

\* Topping up the last block takes no more tokens than it has room for, touches
\* no other block, and fills it when tokens are left over.
LEMMA ToppedUpProperties ==
  ASSUME TypeOK, NEW s \in DOMAIN tables, NEW n \in Nat
  PROVE  /\ LastFit(s, n) \in 0 .. n
         /\ ToppedUp(s, n) \in [Blocks -> 0 .. BlockSize]
         /\ \A b \in Blocks : ToppedUp(s, n)[b] >= filled[b]
         /\ \A b \in Blocks : ToppedUp(s, n)[b] # filled[b] =>
                tables[s] # <<>> /\ b = Last(tables[s])
         /\ tables[s] # <<>> /\ LastFit(s, n) < n =>
                ToppedUp(s, n)[Last(tables[s])] = BlockSize
PROOF
<1>1. BlockSize \in Nat \ {0} /\ tables[s] \in Seq(Blocks)
      /\ filled \in [Blocks -> 0 .. BlockSize]
  BY CacheAssumption DEF TypeOK
<1>2. CASE tables[s] = <<>>
  BY <1>1, <1>2 DEF LastFit, ToppedUp
<1>3. CASE tables[s] # <<>>
  <2>1. Last(tables[s]) \in Blocks
    BY <1>1, <1>3 DEF Last
  <2> DEFINE l == Last(tables[s])
             room == BlockSize - filled[l]
  <2> HIDE DEF l
  <2>2. room \in 0 .. BlockSize /\ l \in Blocks /\ filled[l] \in 0 .. BlockSize
    BY <1>1, <2>1 DEF l
  <2>3. LastFit(s, n) = IF room <= n THEN room ELSE n
    BY <1>3 DEF LastFit, Smaller, l
  <2>4. ToppedUp(s, n) = [b \in Blocks |-> IF b = l THEN filled[b] + LastFit(s, n)
                                                    ELSE filled[b]]
    BY <1>3 DEF ToppedUp, l
  <2> HIDE DEF room
  <2>5. /\ filled[l] + LastFit(s, n) \in filled[l] .. BlockSize
        /\ LastFit(s, n) \in 0 .. n
        /\ LastFit(s, n) < n => filled[l] + LastFit(s, n) = BlockSize
    BY <1>1, <2>2, <2>3 DEF room
  <2>6. ToppedUp(s, n) \in [Blocks -> 0 .. BlockSize]
    BY <1>1, <2>2, <2>4, <2>5
  <2>7. \A b \in Blocks : /\ ToppedUp(s, n)[b] >= filled[b]
                          /\ ToppedUp(s, n)[b] # filled[b] => b = l
    BY <1>1, <2>2, <2>4, <2>5
  <2>8. LastFit(s, n) < n => ToppedUp(s, n)[l] = BlockSize
    BY <2>2, <2>4, <2>5
  <2> QED
    BY <1>3, <2>5, <2>6, <2>7, <2>8 DEF l
<1> QED
  BY <1>2, <1>3

-----------------------------------------------------------------------------
(* The operations preserve the invariant                                   *)

\* A fresh pool satisfies the invariant.
LEMMA InitInv == Init => IInv
PROOF
<1> SUFFICES ASSUME Init PROVE IInv
  OBVIOUS
<1> USE DEF Init
<1>1. NumBlocks \in Nat /\ BlockSize \in Nat \ {0}
  BY CacheAssumption
<1>2. /\ freeIds \in Seq(Blocks) /\ DOMAIN freeIds = 1 .. NumBlocks
      /\ \A i \in 1 .. NumBlocks : freeIds[i] = i - 1
  BY <1>1 DEF Blocks
<1>3. Range(freeIds) = Blocks
  <2> HIDE DEF Init
  <2>1. \A b \in Blocks : b + 1 \in 1 .. NumBlocks /\ freeIds[b + 1] = b
    BY <1>1, <1>2 DEF Blocks
  <2>2. \A i \in 1 .. NumBlocks : freeIds[i] \in Blocks
    BY <1>1, <1>2 DEF Blocks
  <2> QED
    BY <1>2, <2>1, <2>2 DEF Range
<1>4. IsInjective(freeIds) /\ IsInjective(access)
  BY <1>1, <1>2 DEF IsInjective
<1>5. TypeOK
  BY <1>1, <1>2 DEF TypeOK
<1>6. BlocksExclusive
  BY <1>4 DEF BlocksExclusive
<1>7. BlocksAccounted /\ RefCountsExact
  <2>1. \A b \in Blocks : b \in Range(freeIds) /\ refCount[b] = 0 /\ filled[b] = 0
    BY <1>3
  <2> QED
    BY <2>1 DEF BlocksAccounted, RefCountsExact
<1>8. LayoutDense /\ EverySequenceEvictable
  BY <1>4 DEF LayoutDense, EverySequenceEvictable
<1> QED
  BY <1>5, <1>6, <1>7, <1>8 DEF IInv

\* allocate_sequence keeps the invariant, for a new id and for a live one.
LEMMA AllocateInv ==
  ASSUME IInv, NEW s \in SeqIds, NEW n \in TokenCounts, AllocateSequence(s, n)
  PROVE  IInv'
PROOF
<1> DEFINE k == TokensToBlocks(n)
           ids == Popped(k)
           old == IF s \in DOMAIN tables THEN Range(tables[s]) ELSE {}
<1>1. /\ n \in Nat /\ k \in 0 .. Len(freeIds)
      /\ TypeOK /\ BlocksExclusive /\ BlocksAccounted /\ RefCountsExact
      /\ LayoutDense /\ EverySequenceEvictable
  <2>1. n \in Nat /\ freeIds \in Seq(Blocks)
    BY CacheAssumption DEF IInv, TypeOK
  <2>2. k \in Nat /\ k <= Len(freeIds)
    BY <2>1, BlocksNeeded DEF AllocateSequence, CanAllocate
  <2> QED
    BY <2>1, <2>2 DEF IInv
<1>2. /\ ids \in Seq(Blocks) /\ Len(ids) = k /\ IsInjective(ids)
      /\ DOMAIN ids = 1 .. k
      /\ Unpopped(k) \in Seq(Blocks) /\ IsInjective(Unpopped(k))
      /\ Range(ids) \cap Range(Unpopped(k)) = {}
      /\ Range(ids) \cup Range(Unpopped(k)) = Range(freeIds)
  BY <1>1, PoppedProperties DEF TypeOK, BlocksExclusive
<1>3. /\ FilledWith(ids, n) \in [Blocks -> 0 .. BlockSize]
      /\ \A b \in Blocks \ Range(ids) : FilledWith(ids, n)[b] = filled[b]
      /\ \A i \in 1 .. Len(ids) :
           /\ FilledWith(ids, n)[ids[i]] \in 1 .. BlockSize
           /\ i < Len(ids) => FilledWith(ids, n)[ids[i]] = BlockSize
  BY <1>1, <1>2, FilledWithProperties DEF TypeOK
<1>4. /\ Touched(s) \in Seq(SeqIds) /\ IsInjective(Touched(s))
      /\ Range(Touched(s)) = Range(access) \cup {s}
  BY <1>1, TouchedProperties DEF TypeOK, EverySequenceEvictable
<1>5. /\ freeIds' = Unpopped(k)
      /\ refCount' = RefsWith(ids)
      /\ filled' = FilledWith(ids, n)
      /\ tables' = [x \in DOMAIN tables \cup {s} |-> IF x = s THEN ids ELSE tables[x]]
      /\ access' = Touched(s)
      /\ totalAllocated' = totalAllocated + k
      /\ leaked' = leaked \cup old
      /\ totalEvicted' = totalEvicted
  BY DEF AllocateSequence
<1> HIDE DEF ids, k
<1>6. /\ DOMAIN tables' = DOMAIN tables \cup {s}
      /\ tables'[s] = ids
      /\ \A x \in DOMAIN tables \ {s} : tables'[x] = tables[x]
  BY <1>5
<1>7. /\ Range(ids) \subseteq Blocks /\ Range(freeIds) \subseteq Blocks
      /\ \A x \in DOMAIN tables : Range(tables[x]) \subseteq Blocks
  BY <1>1, <1>2 DEF TypeOK, Range
<1>8. TypeOK'
  <2>1. refCount' \in [Blocks -> Nat]
    BY <1>1, <1>5 DEF TypeOK, RefsWith
  <2>2. leaked' \subseteq Blocks
    BY <1>1, <1>5, <1>7 DEF TypeOK
  <2>3. totalAllocated' \in Nat /\ totalEvicted' \in Nat
    BY <1>1, <1>5 DEF TypeOK
  <2> QED
    BY <1>1, <1>2, <1>3, <1>4, <1>5, <1>6, <2>1, <2>2, <2>3 DEF TypeOK
<1>9. BlocksExclusive'
  BY <1>1, <1>2, <1>5, <1>6 DEF BlocksExclusive
<1>10. BlocksAccounted'
  BY <1>1, <1>2, <1>5, <1>6 DEF BlocksAccounted
<1>11. RefCountsExact'
  BY <1>1, <1>2, <1>3, <1>5, <1>7 DEF RefCountsExact, RefsWith, TypeOK
<1>12. LayoutDense'
  <2> SUFFICES ASSUME NEW t \in DOMAIN tables', NEW i \in DOMAIN tables'[t]
               PROVE  /\ i < Len(tables'[t]) => filled'[tables'[t][i]] = BlockSize
                      /\ filled'[tables'[t][i]] > 0
    BY DEF LayoutDense
  <2>1. CASE t = s
    BY <1>1, <1>2, <1>3, <1>5, <1>6, <2>1, CacheAssumption
  <2>2. CASE t # s
    <3>1. t \in DOMAIN tables /\ tables'[t] = tables[t] /\ i \in DOMAIN tables[t]
      BY <1>6, <2>2
    <3>2. tables[t][i] \in Range(tables[t])
      BY <3>1 DEF Range
    <3>3. tables[t][i] \in Blocks \ Range(ids)
      BY <1>1, <1>2, <1>7, <3>1, <3>2 DEF BlocksExclusive
    <3> QED
      BY <1>1, <1>3, <1>5, <3>1, <3>3 DEF LayoutDense
  <2> QED
    BY <2>1, <2>2
<1>13. EverySequenceEvictable'
  BY <1>1, <1>4, <1>5, <1>6 DEF EverySequenceEvictable
<1> QED
  BY <1>8, <1>9, <1>10, <1>11, <1>12, <1>13 DEF IInv

\* extend_sequence keeps the invariant when the blocks are there.
LEMMA ExtendInv ==
  ASSUME IInv, NEW s \in SeqIds, NEW n \in TokenCounts, ExtendSequence(s, n)
  PROVE  IInv'
PROOF
<1> DEFINE k    == ExtraBlocks(s, n)
           rest == n - LastFit(s, n)
           ids  == Popped(k)
           tab  == tables[s] \o ids
<1>1. /\ n \in Nat /\ s \in DOMAIN tables
      /\ TypeOK /\ BlocksExclusive /\ BlocksAccounted /\ RefCountsExact
      /\ LayoutDense /\ EverySequenceEvictable
  BY CacheAssumption DEF IInv, ExtendSequence
<1>2. /\ rest \in Nat
      /\ ToppedUp(s, n) \in [Blocks -> 0 .. BlockSize]
      /\ \A b \in Blocks : ToppedUp(s, n)[b] >= filled[b]
      /\ \A b \in Blocks : ToppedUp(s, n)[b] # filled[b] =>
             tables[s] # <<>> /\ b = Last(tables[s])
      /\ tables[s] # <<>> /\ rest > 0 =>
             ToppedUp(s, n)[Last(tables[s])] = BlockSize
  BY <1>1, ToppedUpProperties
<1>3. /\ k = TokensToBlocks(rest) /\ k \in 0 .. Len(freeIds)
      /\ rest = 0 => k = 0
  <2>1. k \in Nat /\ rest = 0 => k = 0
    BY <1>2, BlocksNeeded DEF ExtraBlocks
  <2>2. k <= Len(freeIds) /\ freeIds \in Seq(Blocks)
    BY <1>1 DEF ExtendSequence, TypeOK
  <2> QED
    BY <1>2, <2>1, <2>2, BlocksNeeded DEF ExtraBlocks
<1>4. /\ ids \in Seq(Blocks) /\ Len(ids) = k /\ IsInjective(ids)
      /\ DOMAIN ids = 1 .. k
      /\ Unpopped(k) \in Seq(Blocks) /\ IsInjective(Unpopped(k))
      /\ Range(ids) \cap Range(Unpopped(k)) = {}
      /\ Range(ids) \cup Range(Unpopped(k)) = Range(freeIds)
  BY <1>1, <1>3, PoppedProperties DEF TypeOK, BlocksExclusive
<1> HIDE DEF ids, k, rest
<1>5. /\ FilledWith(ids, rest) \in [Blocks -> 0 .. BlockSize]
      /\ \A i \in 1 .. Len(ids) :
           /\ FilledWith(ids, rest)[ids[i]] \in 1 .. BlockSize
           /\ i < Len(ids) => FilledWith(ids, rest)[ids[i]] = BlockSize
  <2>1. filled \in [Blocks -> 0 .. BlockSize] /\ Len(ids) = TokensToBlocks(rest)
    BY <1>1, <1>3, <1>4 DEF TypeOK
  <2> QED
    BY <1>2, <1>4, <2>1, FilledWithProperties
<1>6. /\ Touched(s) \in Seq(SeqIds) /\ IsInjective(Touched(s))
      /\ Range(Touched(s)) = Range(access) \cup {s}
  BY <1>1, TouchedProperties DEF TypeOK, EverySequenceEvictable
<1>7. /\ freeIds' = Unpopped(k)
      /\ refCount' = RefsWith(ids)
      /\ filled' = [b \in Blocks |-> IF b \in Range(ids) THEN FilledWith(ids, rest)[b]
                                                          ELSE ToppedUp(s, n)[b]]
      /\ tables' = [tables EXCEPT ![s] = tab]
      /\ access' = Touched(s)
      /\ totalAllocated' = totalAllocated + k
      /\ leaked' = leaked
      /\ totalEvicted' = totalEvicted
  BY DEF ExtendSequence, ids, k, rest
<1>8. /\ tables[s] \in Seq(Blocks) /\ DOMAIN tables[s] = 1 .. Len(tables[s])
      /\ Len(tables[s]) \in Nat /\ k \in Nat
      /\ tables[s] # <<>> <=> Len(tables[s]) > 0
      /\ Last(tables[s]) = tables[s][Len(tables[s])]
  BY <1>1, <1>3 DEF TypeOK, Last
<1>9. Range(tables[s]) \cap Range(ids) = {}
  BY <1>1, <1>4 DEF BlocksExclusive
<1>10. IsInjective(tables[s])
  BY <1>1 DEF BlocksExclusive
<1>11. /\ tab \in Seq(Blocks) /\ IsInjective(tab)
       /\ Len(tab) = Len(tables[s]) + k
       /\ DOMAIN tab = 1 .. Len(tables[s]) + k
       /\ Range(tab) = Range(tables[s]) \cup Range(ids)
       /\ \A i \in 1 .. Len(tables[s]) : tab[i] = tables[s][i]
       /\ \A j \in 1 .. k : tab[Len(tables[s]) + j] = ids[j]
  <2> DEFINE p == tables[s]
             w == p \o ids
  <2>1. /\ p \in Seq(Blocks) /\ IsInjective(p) /\ Range(p) \cap Range(ids) = {}
        /\ ids \in Seq(Blocks) /\ IsInjective(ids) /\ Len(ids) = k
    BY <1>4, <1>8, <1>9, <1>10
  <2> HIDE DEF p
  <2>2. /\ w \in Seq(Blocks) /\ IsInjective(w)
        /\ Range(w) = Range(p) \cup Range(ids)
    BY <2>1, JoinProperties
  <2>3. Len(w) = Len(p) + Len(ids) /\ DOMAIN w = 1 .. Len(p) + Len(ids)
    BY <2>1, JoinProperties
  <2>4. \A i \in 1 .. Len(p) : w[i] = p[i]
    BY <2>1, JoinProperties
  <2>5. \A j \in 1 .. Len(ids) : w[Len(p) + j] = ids[j]
    BY <2>1, JoinProperties
  <2> QED
    BY <2>1, <2>2, <2>3, <2>4, <2>5 DEF p
<1> HIDE DEF tab
<1>12. /\ DOMAIN tables' = DOMAIN tables
       /\ tables'[s] = tab
       /\ \A x \in DOMAIN tables \ {s} : tables'[x] = tables[x]
  BY <1>1, <1>7
<1>13. /\ Range(ids) \subseteq Blocks /\ Range(freeIds) \subseteq Blocks
       /\ \A x \in DOMAIN tables : Range(tables[x]) \subseteq Blocks
  BY <1>1, <1>4 DEF TypeOK, Range
<1>14. ASSUME NEW i \in DOMAIN tab
       PROVE  i \in 1 .. Len(tables[s]) \/ \E j \in 1 .. k : i = Len(tables[s]) + j
  <2>1. CASE i > Len(tables[s])
    <3>1. i - Len(tables[s]) \in 1 .. k /\ i = Len(tables[s]) + (i - Len(tables[s]))
      BY <1>8, <1>11, <2>1
    <3> QED
      BY <3>1
  <2> QED
    BY <1>8, <1>11, <2>1
<1>15. TypeOK'
  <2>1. refCount' \in [Blocks -> Nat]
    BY <1>1, <1>7 DEF TypeOK, RefsWith
  <2>2. filled' \in [Blocks -> 0 .. BlockSize]
    BY <1>2, <1>5, <1>7
  <2>3. totalAllocated' \in Nat /\ totalEvicted' \in Nat
    BY <1>1, <1>7, <1>8 DEF TypeOK
  <2> QED
    BY <1>1, <1>4, <1>6, <1>7, <1>11, <1>12, <2>1, <2>2, <2>3 DEF TypeOK
<1>16. BlocksExclusive'
  BY <1>1, <1>4, <1>7, <1>11, <1>12 DEF BlocksExclusive
<1>17. BlocksAccounted'
  BY <1>1, <1>4, <1>7, <1>11, <1>12 DEF BlocksAccounted
<1>18. RefCountsExact'
  <2> SUFFICES ASSUME NEW b \in Blocks
               PROVE  /\ b \in Range(freeIds') <=> refCount'[b] = 0
                      /\ refCount'[b] <= 1
                      /\ refCount'[b] = 0 => filled'[b] = 0
    BY DEF RefCountsExact
  <2>1. b \in Range(freeIds) => ToppedUp(s, n)[b] = filled[b]
    <3>1. Len(tables[s]) > 0 => Last(tables[s]) \in Range(tables[s])
      BY <1>8 DEF Range
    <3> QED
      BY <1>1, <1>2, <1>8, <3>1 DEF BlocksExclusive
  <2> QED
    BY <1>1, <1>4, <1>7, <1>13, <2>1 DEF RefCountsExact, RefsWith, TypeOK
<1>19. LayoutDense'
  <2> SUFFICES ASSUME NEW t \in DOMAIN tables', NEW i \in DOMAIN tables'[t]
               PROVE  /\ i < Len(tables'[t]) => filled'[tables'[t][i]] = BlockSize
                      /\ filled'[tables'[t][i]] > 0
    BY DEF LayoutDense
  <2>0. BlockSize \in Nat \ {0}
    BY CacheAssumption
  <2>1. CASE t = s /\ i \in 1 .. Len(tables[s])
    <3>1. /\ tables[s][i] \in Range(tables[s]) /\ tables[s][i] \in Blocks
          /\ tables[s][i] \notin Range(ids)
      BY <1>1, <1>8, <1>9, <1>13, <2>1 DEF Range
    <3>2. filled'[tab[i]] = ToppedUp(s, n)[tables[s][i]]
      BY <1>7, <1>11, <2>1, <3>1
    <3>3. /\ filled[tables[s][i]] > 0
          /\ i < Len(tables[s]) => filled[tables[s][i]] = BlockSize
      BY <1>1, <1>8, <2>1 DEF LayoutDense
    <3>4. ToppedUp(s, n)[tables[s][i]] \in 0 .. BlockSize
          /\ ToppedUp(s, n)[tables[s][i]] >= filled[tables[s][i]]
      BY <1>2, <3>1
    <3>5. filled[tables[s][i]] \in 0 .. BlockSize
      BY <1>1, <3>1 DEF TypeOK
    <3>6. i = Len(tables[s]) /\ i < Len(tab) =>
              ToppedUp(s, n)[tables[s][i]] = BlockSize
      BY <1>2, <1>3, <1>8, <1>11, <2>1
    <3> QED
      BY <1>8, <1>11, <1>12, <2>0, <2>1, <3>2, <3>3, <3>4, <3>5, <3>6
  <2>2. CASE t = s /\ \E j \in 1 .. k : i = Len(tables[s]) + j
    <3>1. PICK j \in 1 .. k : i = Len(tables[s]) + j
      BY <2>2
    <3>2. ids[j] \in Range(ids) /\ ids[j] \in Blocks /\ tab[i] = ids[j]
      BY <1>4, <1>11, <1>13, <3>1 DEF Range
    <3>3. filled'[tab[i]] = FilledWith(ids, rest)[ids[j]]
      BY <1>7, <3>2
    <3>4. /\ FilledWith(ids, rest)[ids[j]] \in 1 .. BlockSize
          /\ j < k => FilledWith(ids, rest)[ids[j]] = BlockSize
      BY <1>4, <1>5
    <3>5. i < Len(tab) => j < k
      BY <1>8, <1>11, <3>1
    <3> QED
      BY <1>12, <2>0, <2>2, <3>3, <3>4, <3>5
  <2>3. CASE t # s
    <3>1. t \in DOMAIN tables /\ tables'[t] = tables[t] /\ i \in DOMAIN tables[t]
      BY <1>12, <2>3
    <3>2. tables[t][i] \in Range(tables[t])
      BY <3>1 DEF Range
    <3>3. /\ tables[t][i] \in Blocks \ Range(ids)
          /\ tables[t][i] \notin Range(tables[s])
      BY <1>1, <1>4, <1>13, <2>3, <3>1, <3>2 DEF BlocksExclusive
    <3>4. ToppedUp(s, n)[tables[t][i]] = filled[tables[t][i]]
      <4>1. Len(tables[s]) > 0 => Last(tables[s]) \in Range(tables[s])
        BY <1>8 DEF Range
      <4> QED
        BY <1>2, <1>8, <3>3, <4>1
    <3> QED
      BY <1>1, <1>7, <3>1, <3>3, <3>4 DEF LayoutDense
  <2> QED
    BY <1>12, <1>14, <2>1, <2>2, <2>3
<1>20. EverySequenceEvictable'
  BY <1>1, <1>6, <1>7, <1>12 DEF EverySequenceEvictable
<1> QED
  BY <1>15, <1>16, <1>17, <1>18, <1>19, <1>20 DEF IInv

\* extend_sequence keeps the invariant when it raises half way.
LEMMA ExtendRaisesInv ==
  ASSUME IInv, NEW s \in SeqIds, NEW n \in TokenCounts, ExtendRaises(s, n)
  PROVE  IInv'
PROOF
<1>1. /\ n \in Nat /\ s \in DOMAIN tables
      /\ TypeOK /\ BlocksExclusive /\ BlocksAccounted /\ RefCountsExact
      /\ LayoutDense /\ EverySequenceEvictable
  BY CacheAssumption DEF IInv, ExtendRaises
<1>2. /\ ToppedUp(s, n) \in [Blocks -> 0 .. BlockSize]
      /\ \A b \in Blocks : ToppedUp(s, n)[b] >= filled[b]
      /\ \A b \in Blocks : ToppedUp(s, n)[b] # filled[b] =>
             tables[s] # <<>> /\ b = Last(tables[s])
  BY <1>1, ToppedUpProperties
<1>3. /\ Touched(s) \in Seq(SeqIds) /\ IsInjective(Touched(s))
      /\ Range(Touched(s)) = Range(access) \cup {s}
  BY <1>1, TouchedProperties DEF TypeOK, EverySequenceEvictable
<1>4. /\ filled' = ToppedUp(s, n) /\ access' = Touched(s)
      /\ UNCHANGED <<refCount, freeIds, tables, totalAllocated, totalEvicted, leaked>>
  BY DEF ExtendRaises, statVars
<1>5. tables[s] # <<>> => Last(tables[s]) \in Range(tables[s])
  BY <1>1 DEF TypeOK, Last, Range
<1>6. TypeOK' /\ EverySequenceEvictable'
  BY <1>1, <1>2, <1>3, <1>4 DEF TypeOK, EverySequenceEvictable
<1>7. BlocksExclusive' /\ BlocksAccounted'
  BY <1>1, <1>4 DEF BlocksExclusive, BlocksAccounted
<1>8. RefCountsExact'
  BY <1>1, <1>2, <1>4, <1>5 DEF RefCountsExact, BlocksExclusive
<1>9. LayoutDense'
  <2> SUFFICES ASSUME NEW t \in DOMAIN tables, NEW i \in DOMAIN tables[t]
               PROVE  /\ i < Len(tables[t]) => filled'[tables[t][i]] = BlockSize
                      /\ filled'[tables[t][i]] > 0
    BY <1>4 DEF LayoutDense
  <2>1. /\ tables[t][i] \in Blocks
        /\ filled[tables[t][i]] \in 0 .. BlockSize
        /\ filled[tables[t][i]] > 0
        /\ i < Len(tables[t]) => filled[tables[t][i]] = BlockSize
    BY <1>1 DEF TypeOK, LayoutDense
  <2>2. /\ filled'[tables[t][i]] \in 0 .. BlockSize
        /\ filled'[tables[t][i]] >= filled[tables[t][i]]
    BY <1>2, <1>4, <2>1
  <2> QED
    BY <2>1, <2>2, CacheAssumption
<1> QED
  BY <1>6, <1>7, <1>8, <1>9 DEF IInv

\* Releasing the table of s returns exactly its blocks to the free list and
\* leaves every other block as it was.
LEMMA ReleaseProperties ==
  ASSUME IInv, NEW s \in DOMAIN tables, Release(s)
  PROVE  /\ freeIds' \in Seq(Blocks) /\ IsInjective(freeIds')
         /\ Range(freeIds') = Range(freeIds) \cup Range(tables[s])
         /\ DOMAIN tables' = DOMAIN tables \ {s}
         /\ \A t \in DOMAIN tables \ {s} : tables'[t] = tables[t]
         /\ refCount' \in [Blocks -> Nat] /\ filled' \in [Blocks -> 0 .. BlockSize]
         /\ \A b \in Range(tables[s]) : refCount'[b] = 0 /\ filled'[b] = 0
         /\ \A b \in Blocks \ Range(tables[s]) :
              refCount'[b] = refCount[b] /\ filled'[b] = filled[b]
PROOF
<1> DEFINE p == tables[s]
           freed == {b \in Range(p) : refCount[b] <= 1}
<1>1. TypeOK /\ BlocksExclusive /\ RefCountsExact
  BY DEF IInv
<1>2. /\ freeIds \in Seq(Blocks) /\ p \in Seq(Blocks)
      /\ IsInjective(freeIds) /\ IsInjective(p)
      /\ Range(freeIds) \cap Range(p) = {} /\ Range(p) \subseteq Blocks
  <2>1. freeIds \in Seq(Blocks) /\ p \in Seq(Blocks)
    BY <1>1 DEF TypeOK
  <2>2. Range(p) \subseteq Blocks
    BY <2>1 DEF Range
  <2> QED
    BY <1>1, <2>1, <2>2 DEF BlocksExclusive
<1>3. \A b \in Range(p) : refCount[b] = 1
  BY <1>1, <1>2 DEF RefCountsExact, TypeOK
<1>4. freed = Range(p)
  BY <1>3
<1>5. Keep(p, freed) = p
  BY <1>4 DEF Keep
<1>6. /\ refCount' = [b \in Blocks |-> IF b \in Range(p) /\ refCount[b] > 0
                                       THEN refCount[b] - 1 ELSE refCount[b]]
      /\ filled' = [b \in Blocks |-> IF b \in freed THEN 0 ELSE filled[b]]
      /\ freeIds' = freeIds \o Keep(p, freed)
      /\ tables' = Restrict(tables, DOMAIN tables \ {s})
  BY DEF Release
<1> HIDE DEF p, freed
<1>7. /\ freeIds' \in Seq(Blocks) /\ IsInjective(freeIds')
      /\ Range(freeIds') = Range(freeIds) \cup Range(p)
  BY <1>2, <1>5, <1>6, JoinProperties
<1>8. /\ DOMAIN tables' = DOMAIN tables \ {s}
      /\ \A t \in DOMAIN tables \ {s} : tables'[t] = tables[t]
  BY <1>6 DEF Restrict
<1>9. /\ refCount \in [Blocks -> Nat] /\ filled \in [Blocks -> 0 .. BlockSize]
      /\ BlockSize \in Nat
  BY <1>1, CacheAssumption DEF TypeOK
<1>10. refCount' \in [Blocks -> Nat]
  BY <1>2, <1>3, <1>6, <1>9
<1>11. filled' \in [Blocks -> 0 .. BlockSize]
  BY <1>6, <1>9
<1>12. \A b \in Range(p) : refCount'[b] = 0 /\ filled'[b] = 0
  BY <1>2, <1>3, <1>4, <1>6
<1>13. \A b \in Blocks \ Range(p) : refCount'[b] = refCount[b] /\ filled'[b] = filled[b]
  BY <1>4, <1>6
<1> QED
  BY <1>7, <1>8, <1>10, <1>11, <1>12, <1>13 DEF p

\* Whoever removes s from the access order together with its release keeps the
\* invariant: free_sequence and evict_lru.
LEMMA ReleaseInv ==
  ASSUME IInv, NEW s \in DOMAIN tables, Release(s),
         access' \in Seq(SeqIds), IsInjective(access'),
         Range(access') = Range(access) \ {s},
         totalEvicted' \in Nat, UNCHANGED <<totalAllocated, leaked>>
  PROVE  IInv'
PROOF
<1>1. /\ TypeOK /\ BlocksExclusive /\ BlocksAccounted /\ RefCountsExact
      /\ LayoutDense /\ EverySequenceEvictable
  BY DEF IInv
<1>2. /\ freeIds' \in Seq(Blocks) /\ IsInjective(freeIds')
      /\ Range(freeIds') = Range(freeIds) \cup Range(tables[s])
      /\ DOMAIN tables' = DOMAIN tables \ {s}
      /\ \A t \in DOMAIN tables \ {s} : tables'[t] = tables[t]
      /\ refCount' \in [Blocks -> Nat] /\ filled' \in [Blocks -> 0 .. BlockSize]
      /\ \A b \in Range(tables[s]) : refCount'[b] = 0 /\ filled'[b] = 0
      /\ \A b \in Blocks \ Range(tables[s]) :
           refCount'[b] = refCount[b] /\ filled'[b] = filled[b]
  BY ReleaseProperties
<1>3. TypeOK'
  BY <1>1, <1>2 DEF TypeOK
<1>4. BlocksExclusive'
  BY <1>1, <1>2 DEF BlocksExclusive
<1>5. BlocksAccounted'
  BY <1>1, <1>2 DEF BlocksAccounted
<1>6. RefCountsExact'
  <2> SUFFICES ASSUME NEW b \in Blocks
               PROVE  /\ b \in Range(freeIds') <=> refCount'[b] = 0
                      /\ refCount'[b] <= 1
                      /\ refCount'[b] = 0 => filled'[b] = 0
    BY DEF RefCountsExact
  <2>1. CASE b \in Range(tables[s])
    BY <1>2, <2>1
  <2>2. CASE b \notin Range(tables[s])
    <3>1. /\ b \in Range(freeIds') <=> b \in Range(freeIds)
          /\ refCount'[b] = refCount[b] /\ filled'[b] = filled[b]
      BY <1>2, <2>2
    <3> QED
      BY <1>1, <3>1 DEF RefCountsExact
  <2> QED
    BY <2>1, <2>2
<1>7. LayoutDense'
  <2> SUFFICES ASSUME NEW t \in DOMAIN tables', NEW i \in DOMAIN tables'[t]
               PROVE  /\ i < Len(tables'[t]) => filled'[tables'[t][i]] = BlockSize
                      /\ filled'[tables'[t][i]] > 0
    BY DEF LayoutDense
  <2>1. /\ t \in DOMAIN tables /\ t # s /\ tables'[t] = tables[t]
        /\ i \in DOMAIN tables[t]
    BY <1>2
  <2>2. tables[t][i] \in Range(tables[t]) /\ tables[t][i] \in Blocks
    BY <1>1, <2>1 DEF Range, TypeOK
  <2>3. filled'[tables[t][i]] = filled[tables[t][i]]
    BY <1>1, <1>2, <2>1, <2>2 DEF BlocksExclusive
  <2> QED
    BY <1>1, <2>1, <2>3 DEF LayoutDense
<1>8. EverySequenceEvictable'
  BY <1>1, <1>2 DEF EverySequenceEvictable
<1> QED
  BY <1>3, <1>4, <1>5, <1>6, <1>7, <1>8 DEF IInv

\* free_sequence keeps the invariant.
LEMMA FreeInv ==
  ASSUME IInv, NEW s \in SeqIds, FreeSequence(s)
  PROVE  IInv'
PROOF
<1>1. TypeOK /\ EverySequenceEvictable
  BY DEF IInv
<1>2. /\ s \in DOMAIN tables /\ Release(s) /\ access' = RemoveFirst(access, s)
      /\ UNCHANGED <<totalAllocated, totalEvicted, leaked>>
  BY DEF FreeSequence, statVars
<1>3. /\ access' \in Seq(SeqIds) /\ IsInjective(access')
      /\ Range(access') = Range(access) \ {s}
  BY <1>1, <1>2, RemoveFirstProperties DEF TypeOK, EverySequenceEvictable
<1> QED
  BY <1>1, <1>2, <1>3, ReleaseInv DEF TypeOK

\* evict_lru keeps the invariant when its victim has a table.
LEMMA EvictInv ==
  ASSUME IInv, EvictLRU
  PROVE  IInv'
PROOF
<1> DEFINE s == Head(access)
<1>1. TypeOK /\ EverySequenceEvictable
  BY DEF IInv
<1>2. /\ access # <<>> /\ s \in DOMAIN tables /\ Release(s)
      /\ access' = RemoveFirst(Tail(access), s)
      /\ totalEvicted' = totalEvicted + 1
      /\ UNCHANGED <<totalAllocated, leaked>>
  BY DEF EvictLRU
<1>3. /\ Tail(access) \in Seq(SeqIds) /\ IsInjective(Tail(access))
      /\ Range(Tail(access)) = Range(access) \ {s}
  BY <1>1, <1>2, TailProperties DEF TypeOK, EverySequenceEvictable
<1>4. /\ RemoveFirst(Tail(access), s) \in Seq(SeqIds)
      /\ IsInjective(RemoveFirst(Tail(access), s))
      /\ Range(RemoveFirst(Tail(access), s)) = Range(access) \ {s}
  <2> DEFINE w == Tail(access)
  <2>1. w \in Seq(SeqIds) /\ IsInjective(w) /\ Range(w) = Range(access) \ {s}
    BY <1>3
  <2> HIDE DEF w, s
  <2>2. /\ RemoveFirst(w, s) \in Seq(SeqIds) /\ IsInjective(RemoveFirst(w, s))
        /\ Range(RemoveFirst(w, s)) = Range(w) \ {s}
    BY <2>1, RemoveFirstProperties
  <2> QED
    BY <2>1, <2>2 DEF w
<1>5. totalEvicted' \in Nat
  BY <1>1, <1>2 DEF TypeOK
<1> HIDE DEF s
<1>6. /\ access' \in Seq(SeqIds) /\ IsInjective(access')
      /\ Range(access') = Range(access) \ {s}
  BY <1>2, <1>4
<1> QED
  BY <1>2, <1>5, <1>6, ReleaseInv

\* evict_lru keeps the invariant when it raises KeyError.
LEMMA EvictRaisesInv ==
  ASSUME IInv, EvictRaises
  PROVE  IInv'
PROOF
<1>1. /\ TypeOK /\ BlocksExclusive /\ BlocksAccounted /\ RefCountsExact
      /\ LayoutDense /\ EverySequenceEvictable
  BY DEF IInv
<1>2. /\ access # <<>> /\ Head(access) \notin DOMAIN tables
      /\ access' = Tail(access)
      /\ UNCHANGED <<refCount, filled, freeIds, tables>>
      /\ UNCHANGED <<totalAllocated, totalEvicted, leaked>>
  BY DEF EvictRaises, poolVars, statVars
<1>3. /\ access' \in Seq(SeqIds) /\ IsInjective(access')
      /\ Range(access') = Range(access) \ {Head(access)}
  BY <1>1, <1>2, TailProperties DEF TypeOK, EverySequenceEvictable
<1> QED
  BY <1>1, <1>2, <1>3 DEF IInv, TypeOK, BlocksExclusive, BlocksAccounted,
     RefCountsExact, LayoutDense, EverySequenceEvictable

\* get_block_table keeps the invariant, for unknown ids too.
LEMMA LookupInv ==
  ASSUME IInv, NEW s \in SeqIds, GetBlockTable(s)
  PROVE  IInv'
PROOF
<1>1. /\ TypeOK /\ BlocksExclusive /\ BlocksAccounted /\ RefCountsExact
      /\ LayoutDense /\ EverySequenceEvictable
  BY DEF IInv
<1>2. /\ access' = Touched(s)
      /\ UNCHANGED <<refCount, filled, freeIds, tables>>
      /\ UNCHANGED <<totalAllocated, totalEvicted, leaked>>
  BY DEF GetBlockTable, poolVars, statVars
<1>3. /\ access' \in Seq(SeqIds) /\ IsInjective(access')
      /\ Range(access') = Range(access) \cup {s}
  BY <1>1, <1>2, TouchedProperties DEF TypeOK, EverySequenceEvictable
<1> QED
  BY <1>1, <1>2, <1>3 DEF IInv, TypeOK, BlocksExclusive, BlocksAccounted,
     RefCountsExact, LayoutDense, EverySequenceEvictable

\* A step that changes no variable keeps the invariant.
LEMMA StutterInv == ASSUME IInv, UNCHANGED cacheVars PROVE IInv'
BY DEF cacheVars, poolVars, statVars, IInv, TypeOK, BlocksExclusive, BlocksAccounted,
       RefCountsExact, LayoutDense, EverySequenceEvictable

-----------------------------------------------------------------------------
(* Theorems                                                                *)

\* Every call of every operation keeps the invariant.
LEMMA StepInv == IInv /\ [Next]_cacheVars => IInv'
PROOF
<1> SUFFICES ASSUME IInv, [Next]_cacheVars PROVE IInv'
  OBVIOUS
<1>1. ASSUME NEW s \in SeqIds, NEW n \in TokenCounts, AllocateSequence(s, n) PROVE IInv'
  BY <1>1, AllocateInv
<1>2. ASSUME NEW s \in SeqIds, NEW n \in TokenCounts, ExtendSequence(s, n) PROVE IInv'
  BY <1>2, ExtendInv
<1>3. ASSUME NEW s \in SeqIds, NEW n \in TokenCounts, ExtendRaises(s, n) PROVE IInv'
  BY <1>3, ExtendRaisesInv
<1>4. ASSUME NEW s \in SeqIds, FreeSequence(s) PROVE IInv'
  BY <1>4, FreeInv
<1>5. ASSUME NEW s \in SeqIds, GetBlockTable(s) PROVE IInv'
  BY <1>5, LookupInv
<1>6. CASE EvictLRU
  BY <1>6, EvictInv
<1>7. CASE EvictRaises
  BY <1>7, EvictRaisesInv
<1>8. CASE UNCHANGED cacheVars
  BY <1>8, StutterInv
<1> QED
  BY <1>1, <1>2, <1>3, <1>4, <1>5, <1>6, <1>7, <1>8 DEF Next

\* After any sequence of calls the whole invariant holds: the block pool, the
\* tables, the reference counts and the access order agree.
THEOREM Invariance == Spec => []IInv
PROOF
<1>1. Init => IInv
  BY InitInv
<1>2. IInv /\ [Next]_cacheVars => IInv'
  BY StepInv
<1> QED
  BY <1>1, <1>2, PTL DEF Spec

\* The variables of the cache manager keep their types; in particular no block
\* ever counts more tokens than it has slots.
THEOREM TypeCorrect == Spec => []TypeOK
PROOF
<1>1. IInv => TypeOK
  BY DEF IInv
<1> QED
  BY <1>1, Invariance, PTL

\* allocate, extend, free and evict never give one block to two sequences, nor
\* hand out a block that is still in use.
THEOREM Exclusive == Spec => []BlocksExclusive
PROOF
<1>1. IInv => BlocksExclusive
  BY DEF IInv
<1> QED
  BY <1>1, Invariance, PTL

\* No block is lost, except those of a table that a second allocation of the
\* same id overwrote.
THEOREM Accounted == Spec => []BlocksAccounted
PROOF
<1>1. IInv => BlocksAccounted
  BY DEF IInv
<1> QED
  BY <1>1, Invariance, PTL

\* PhysicalBlock.ref_count and the free list of CacheManager always agree.
THEOREM CountsExact == Spec => []RefCountsExact
PROOF
<1>1. IInv => RefCountsExact
  BY DEF IInv
<1> QED
  BY <1>1, Invariance, PTL

\* Token i of a sequence is where its logical block says, whatever mixture of
\* allocations and extensions placed it.
THEOREM Dense == Spec => []LayoutDense
PROOF
<1>1. IInv => LayoutDense
  BY DEF IInv
<1> QED
  BY <1>1, Invariance, PTL

\* Eviction can reach every sequence that holds blocks.
THEOREM Evictable == Spec => []EverySequenceEvictable
PROOF
<1>1. IInv => EverySequenceEvictable
  BY DEF IInv
<1> QED
  BY <1>1, Invariance, PTL

-----------------------------------------------------------------------------
(* Isolation                                                               *)

\* Every sequence but s keeps its table and what its blocks hold, and none but s
\* gets a table.
OthersKept(s) ==
  /\ DOMAIN tables' \subseteq DOMAIN tables \cup {s}
  /\ \A t \in DOMAIN tables \ {s} :
       /\ t \in DOMAIN tables'
       /\ tables'[t] = tables[t]
       /\ \A b \in Range(tables[t]) : refCount'[b] = refCount[b] /\ filled'[b] = filled[b]

\* A block table maps into the pool.
LEMMA TableBlocks ==
  ASSUME TypeOK, NEW s \in DOMAIN tables
  PROVE  Range(tables[s]) \subseteq Blocks
PROOF
<1>1. tables[s] \in Seq(Blocks)
  BY DEF TypeOK
<1> QED
  BY <1>1 DEF Range

\* Fresh blocks come from the free list, so they belong to no sequence.
LEMMA AllocateIsolated ==
  ASSUME IInv, NEW s \in SeqIds, NEW n \in TokenCounts, AllocateSequence(s, n)
  PROVE  OthersKept(s)
PROOF
<1> DEFINE k == TokensToBlocks(n)
           ids == Popped(k)
<1>1. TypeOK /\ BlocksExclusive
  BY DEF IInv
<1>2. k \in 0 .. Len(freeIds)
  <2>1. n \in Nat /\ freeIds \in Seq(Blocks)
    BY <1>1, CacheAssumption DEF TypeOK
  <2> QED
    BY <2>1, BlocksNeeded DEF AllocateSequence, CanAllocate
<1>3. Range(ids) \subseteq Range(freeIds)
  BY <1>1, <1>2, PoppedProperties DEF TypeOK, BlocksExclusive
<1>4. /\ refCount' = RefsWith(ids)
      /\ filled' = FilledWith(ids, n)
      /\ tables' = [x \in DOMAIN tables \cup {s} |-> IF x = s THEN ids ELSE tables[x]]
  BY DEF AllocateSequence
<1> HIDE DEF ids, k
<1>5. ASSUME NEW t \in DOMAIN tables \ {s}
      PROVE  Range(tables[t]) \subseteq Blocks \ Range(ids)
  <2>1. Range(tables[t]) \subseteq Blocks
    BY <1>1, TableBlocks
  <2> QED
    BY <1>1, <1>3, <2>1 DEF BlocksExclusive
<1> QED
  BY <1>4, <1>5 DEF OthersKept, RefsWith, FilledWith

\* An extension adds to fresh blocks and to the sequence's own last block.
LEMMA ExtendIsolated ==
  ASSUME IInv, NEW s \in SeqIds, NEW n \in TokenCounts,
         ExtendSequence(s, n) \/ ExtendRaises(s, n)
  PROVE  OthersKept(s)
PROOF
<1>1. TypeOK /\ BlocksExclusive /\ n \in Nat /\ s \in DOMAIN tables
  BY CacheAssumption DEF IInv, ExtendSequence, ExtendRaises
<1>2. ASSUME NEW t \in DOMAIN tables \ {s}, NEW b \in Range(tables[t])
      PROVE  /\ b \in Blocks /\ b \notin Range(freeIds)
             /\ ToppedUp(s, n)[b] = filled[b]
  <2>1. b \in Blocks /\ b \notin Range(freeIds) /\ b \notin Range(tables[s])
    BY <1>1, TableBlocks DEF BlocksExclusive
  <2>2. tables[s] # <<>> => Last(tables[s]) \in Range(tables[s])
    BY <1>1 DEF TypeOK, Last, Range
  <2> QED
    BY <1>1, <2>1, <2>2, ToppedUpProperties
<1>3. CASE ExtendRaises(s, n)
  BY <1>2, <1>3 DEF ExtendRaises, OthersKept
<1>4. CASE ExtendSequence(s, n)
  <2> DEFINE k == ExtraBlocks(s, n)
             ids == Popped(k)
  <2>1. k \in 0 .. Len(freeIds)
    <3>1. LastFit(s, n) \in 0 .. n
      BY <1>1, ToppedUpProperties
    <3>2. n - LastFit(s, n) \in Nat /\ freeIds \in Seq(Blocks)
      BY <1>1, <3>1 DEF TypeOK
    <3> QED
      BY <1>4, <3>2, BlocksNeeded DEF ExtendSequence, ExtraBlocks
  <2>2. Range(ids) \subseteq Range(freeIds)
    BY <1>1, <2>1, PoppedProperties DEF TypeOK, BlocksExclusive
  <2>3. /\ refCount' = RefsWith(ids)
        /\ filled' = [b \in Blocks |-> IF b \in Range(ids)
                                       THEN FilledWith(ids, n - LastFit(s, n))[b]
                                       ELSE ToppedUp(s, n)[b]]
        /\ tables' = [tables EXCEPT ![s] = @ \o ids]
    BY <1>4 DEF ExtendSequence
  <2> HIDE DEF ids, k
  <2>4. \A t \in DOMAIN tables \ {s} : t \in DOMAIN tables' /\ tables'[t] = tables[t]
    BY <2>3
  <2> QED
    BY <1>2, <2>2, <2>3, <2>4 DEF OthersKept, RefsWith
<1> QED
  BY <1>3, <1>4

\* A release wipes the blocks of its own table only.
LEMMA ReleaseIsolated ==
  ASSUME IInv, NEW s \in DOMAIN tables, Release(s)
  PROVE  OthersKept(s)
PROOF
<1>1. TypeOK /\ BlocksExclusive
  BY DEF IInv
<1>2. ASSUME NEW t \in DOMAIN tables \ {s}
      PROVE  Range(tables[t]) \subseteq Blocks \ Range(tables[s])
  BY <1>1, TableBlocks DEF BlocksExclusive
<1>3. /\ DOMAIN tables' = DOMAIN tables \ {s}
      /\ \A t \in DOMAIN tables \ {s} : tables'[t] = tables[t]
      /\ \A b \in Blocks \ Range(tables[s]) :
           refCount'[b] = refCount[b] /\ filled'[b] = filled[b]
  BY ReleaseProperties
<1> QED
  BY <1>2, <1>3 DEF OthersKept

\* A sequence changes through the calls made for it alone: no call for another
\* one changes its table, or the counts and contents of its blocks.
THEOREM Isolated == Spec => Isolation
PROOF
<1>1. ASSUME IInv, Next, NEW t \in SeqIds, ~ CalledFor(t)
      PROVE  Kept(t)
  <2>1. ASSUME NEW s \in SeqIds, OthersKept(s), s # t PROVE Kept(t)
    BY <2>1 DEF OthersKept, Kept
  <2>2. ASSUME NEW s \in SeqIds, NEW n \in TokenCounts,
               AllocateSequence(s, n) \/ ExtendSequence(s, n) \/ ExtendRaises(s, n)
        PROVE  Kept(t)
    <3>1. OthersKept(s)
      BY <1>1, <2>2, AllocateIsolated, ExtendIsolated
    <3>2. s # t
      BY <1>1, <2>2 DEF CalledFor
    <3> QED
      BY <2>1, <3>1, <3>2
  <2>3. ASSUME NEW s \in SeqIds, FreeSequence(s) PROVE Kept(t)
    <3>1. OthersKept(s)
      BY <1>1, <2>3, ReleaseIsolated DEF FreeSequence
    <3>2. s # t
      BY <1>1, <2>3 DEF CalledFor
    <3> QED
      BY <2>1, <3>1, <3>2
  <2>4. CASE \E s \in SeqIds : GetBlockTable(s)
    BY <2>4 DEF GetBlockTable, Kept, poolVars
  <2>5. CASE EvictLRU
    <3>1. /\ Head(access) \in SeqIds /\ OthersKept(Head(access))
      BY <1>1, <2>5, ReleaseIsolated DEF EvictLRU, IInv, TypeOK
    <3>2. Head(access) # t
      BY <1>1, <2>5 DEF CalledFor, EvictLRU
    <3> QED
      BY <2>1, <3>1, <3>2
  <2>6. CASE EvictRaises
    BY <2>6 DEF EvictRaises, Kept, poolVars
  <2> QED
    BY <1>1, <2>2, <2>3, <2>4, <2>5, <2>6 DEF Next
<1>2. IInv /\ [Next]_cacheVars => [\A s \in SeqIds : Kept(s) \/ CalledFor(s)]_cacheVars
  BY <1>1
<1> QED
  BY <1>2, Invariance, PTL DEF Spec, Isolation

-----------------------------------------------------------------------------
(* The cache implements the abstract pool of exclusive blocks              *)

\* allocate_sequence takes free blocks for s; those of an overwritten table are
\* lost.
LEMMA AllocateTakes ==
  ASSUME IInv, NEW s \in SeqIds, NEW n \in TokenCounts, AllocateSequence(s, n)
  PROVE  Pool!Next
PROOF
<1> DEFINE k == TokensToBlocks(n)
           ids == Popped(k)
<1>1. TypeOK /\ BlocksExclusive
  BY DEF IInv
<1>2. k \in 0 .. Len(freeIds)
  <2>1. n \in Nat /\ freeIds \in Seq(Blocks)
    BY <1>1, CacheAssumption DEF TypeOK
  <2> QED
    BY <2>1, BlocksNeeded DEF AllocateSequence, CanAllocate
<1>3. /\ freeIds' = Unpopped(k)
      /\ tables' = [x \in DOMAIN tables \cup {s} |-> IF x = s THEN ids ELSE tables[x]]
      /\ leaked' = leaked \cup (IF s \in DOMAIN tables THEN Range(tables[s]) ELSE {})
  BY DEF AllocateSequence
<1>4. /\ Range(ids) \cap Range(Unpopped(k)) = {}
      /\ Range(ids) \cup Range(Unpopped(k)) = Range(freeIds)
  BY <1>1, <1>2, PoppedProperties DEF TypeOK, BlocksExclusive
<1> HIDE DEF ids, k
<1>5. Range(ids) \subseteq Range(freeIds) /\ Range(freeIds') = Range(freeIds) \ Range(ids)
  BY <1>3, <1>4
<1>6. Pool!Take(s, Range(ids), {})
  BY <1>3, <1>5 DEF Pool!Take
<1>7. Pool!Allocate(s, Range(ids))
  BY <1>3, <1>6 DEF Pool!Allocate
<1> QED
  BY <1>5, <1>7 DEF Pool!Next

\* extend_sequence takes free blocks for s, which keeps those it has.
LEMMA ExtendTakes ==
  ASSUME IInv, NEW s \in SeqIds, NEW n \in TokenCounts, ExtendSequence(s, n)
  PROVE  Pool!Next
PROOF
<1> DEFINE k == ExtraBlocks(s, n)
           ids == Popped(k)
<1>1. TypeOK /\ BlocksExclusive /\ n \in Nat /\ s \in DOMAIN tables
  BY CacheAssumption DEF IInv, ExtendSequence
<1>2. k \in 0 .. Len(freeIds)
  <2>1. LastFit(s, n) \in 0 .. n
    BY <1>1, ToppedUpProperties
  <2>2. n - LastFit(s, n) \in Nat /\ freeIds \in Seq(Blocks)
    BY <1>1, <2>1 DEF TypeOK
  <2> QED
    BY <2>2, BlocksNeeded DEF ExtendSequence, ExtraBlocks
<1>3. /\ freeIds' = Unpopped(k)
      /\ tables' = [tables EXCEPT ![s] = @ \o ids]
      /\ leaked' = leaked
  BY DEF ExtendSequence
<1>4. /\ ids \in Seq(Blocks) /\ IsInjective(ids)
      /\ Range(ids) \cap Range(Unpopped(k)) = {}
      /\ Range(ids) \cup Range(Unpopped(k)) = Range(freeIds)
  BY <1>1, <1>2, PoppedProperties DEF TypeOK, BlocksExclusive
<1> HIDE DEF ids, k
<1>5. Range(ids) \subseteq Range(freeIds) /\ Range(freeIds') = Range(freeIds) \ Range(ids)
  BY <1>3, <1>4
<1>6. /\ DOMAIN tables' = DOMAIN tables \cup {s}
      /\ \A t \in DOMAIN tables' :
           Range(tables'[t]) = IF t = s THEN Range(tables[s]) \cup Range(ids)
                                        ELSE Range(tables[t])
  <2>1. Range(tables[s] \o ids) = Range(tables[s]) \cup Range(ids)
    <3>1. /\ tables[s] \in Seq(Blocks) /\ IsInjective(tables[s])
          /\ Range(tables[s]) \cap Range(ids) = {}
      BY <1>1, <1>5 DEF TypeOK, BlocksExclusive
    <3> QED
      BY <1>4, <3>1, JoinProperties
  <2> QED
    BY <1>1, <1>3, <2>1
<1>7. Pool!Take(s, Range(ids), Range(tables[s]))
  BY <1>5, <1>6 DEF Pool!Take
<1>8. Pool!Extend(s, Range(ids))
  BY <1>1, <1>3, <1>7 DEF Pool!Extend
<1> QED
  BY <1>5, <1>8 DEF Pool!Next

\* A release gives all the blocks of its table back to the pool.
LEMMA ReleaseGivesBack ==
  ASSUME IInv, NEW s \in DOMAIN tables, Release(s), leaked' = leaked
  PROVE  Pool!Next
PROOF
<1>1. /\ Range(freeIds') = Range(freeIds) \cup Range(tables[s])
      /\ DOMAIN tables' = DOMAIN tables \ {s}
      /\ \A t \in DOMAIN tables \ {s} : tables'[t] = tables[t]
  BY ReleaseProperties
<1>2. Pool!GiveBack(s)
  BY <1>1 DEF Pool!GiveBack
<1>3. s \in SeqIds
  BY DEF IInv, TypeOK
<1> QED
  BY <1>2, <1>3 DEF Pool!Next

\* CacheManager implements BlockPool: whatever the free list, the LRU order and
\* the slots do, each call takes free blocks for one sequence or gives all of one
\* sequence's blocks back, and the others never notice.
THEOREM ImplementsPool == Spec => PoolContract
PROOF
<1>1. Init => Pool!Init
  <2> SUFFICES ASSUME Init PROVE Pool!Init
    OBVIOUS
  <2>1. Range(freeIds) = Blocks
    <3>1. NumBlocks \in Nat /\ freeIds = [j \in 1 .. NumBlocks |-> j - 1]
      BY CacheAssumption DEF Init
    <3>2. \A b \in Blocks : b + 1 \in 1 .. NumBlocks /\ (b + 1) - 1 = b
      BY <3>1 DEF Blocks
    <3>3. \A j \in 1 .. NumBlocks : j - 1 \in Blocks
      BY <3>1 DEF Blocks
    <3>4. Blocks \subseteq Range(freeIds)
      BY <3>1, <3>2 DEF Range
    <3> QED
      BY <3>1, <3>3, <3>4 DEF Range
  <2> QED
    BY <2>1 DEF Init, Pool!Init
<1>2. IInv /\ [Next]_cacheVars
      => [Pool!Next]_<<Range(freeIds), [s \in DOMAIN tables |-> Range(tables[s])], leaked>>
  <2> SUFFICES ASSUME IInv, [Next]_cacheVars
               PROVE  Pool!Next \/ UNCHANGED <<freeIds, tables, leaked>>
    OBVIOUS
  <2>1. ASSUME NEW s \in SeqIds, NEW n \in TokenCounts, AllocateSequence(s, n)
        PROVE  Pool!Next
    BY <2>1, AllocateTakes
  <2>2. ASSUME NEW s \in SeqIds, NEW n \in TokenCounts, ExtendSequence(s, n)
        PROVE  Pool!Next
    BY <2>2, ExtendTakes
  <2>3. ASSUME NEW s \in SeqIds, NEW n \in TokenCounts, ExtendRaises(s, n)
        PROVE  UNCHANGED <<freeIds, tables, leaked>>
    BY <2>3 DEF ExtendRaises, statVars
  <2>4. ASSUME NEW s \in SeqIds, FreeSequence(s) PROVE Pool!Next
    BY <2>4, ReleaseGivesBack DEF FreeSequence, statVars
  <2>5. ASSUME NEW s \in SeqIds, GetBlockTable(s) PROVE UNCHANGED <<freeIds, tables, leaked>>
    BY <2>5 DEF GetBlockTable, poolVars, statVars
  <2>6. CASE EvictLRU
    BY <2>6, ReleaseGivesBack DEF EvictLRU
  <2>7. CASE EvictRaises
    BY <2>7 DEF EvictRaises, poolVars, statVars
  <2>8. CASE UNCHANGED cacheVars
    BY <2>8 DEF cacheVars, poolVars, statVars
  <2> QED
    BY <2>1, <2>2, <2>3, <2>4, <2>5, <2>6, <2>7, <2>8 DEF Next
<1> QED
  BY <1>1, <1>2, Invariance, PTL DEF Spec, PoolContract, Pool!Spec

=============================================================================
