-------------------------- MODULE Sampling_proofs --------------------------
(***************************************************************************)
(* Proofs about Sampling: for every vocabulary, all weights and all        *)
(* parameters, top-k keeps the tokens of rank k or better, top-p keeps a   *)
(* smallest set of heaviest ones that reaches top_p, and the draw returns  *)
(* a token that survived both.                                             *)
(*                                                                         *)
(* The code works on positions of a sorted list, the properties speak of   *)
(* sets, ranks and masses: the lemmas relate the two.                      *)
(***************************************************************************)
EXTENDS Sampling, CollectionFacts

Types ==
  /\ weight \in [Tokens -> 1 .. MaxWeight]
  /\ topK \in 0 .. Vocab + 1 /\ topP \in 0 .. Scale
  /\ greedy \in BOOLEAN
  /\ pc \in {"topk", "topp", "draw", "done", "raised"}
  /\ kept \subseteq Tokens

IInv ==
  /\ Types
  /\ pc = "topk" => kept = Tokens
  /\ TopKExact
  /\ Nucleus
  /\ Drawn

-----------------------------------------------------------------------------
(* Tokens, weights and masses                                              *)

\* There are finitely many tokens, and at least one.
LEMMA TokensProperties ==
  /\ IsFiniteSet(Tokens) /\ Cardinality(Tokens) = Vocab
  /\ 0 \in Tokens
  /\ \A S \in SUBSET Tokens : IsFiniteSet(S)
PROOF
<1>1. IsFiniteSet(Tokens) /\ Cardinality(Tokens) = Vocab
  <2>1. Tokens = 0 .. Vocab - 1 /\ Vocab - 1 \in Int /\ 0 <= Vocab - 1
    BY SamplingAssumption DEF Tokens
  <2>2. IsFiniteSet(0 .. Vocab - 1) /\ Cardinality(0 .. Vocab - 1) = (Vocab - 1) - 0 + 1
    BY <2>1, FS_Interval
  <2> QED
    BY <2>1, <2>2, SamplingAssumption
<1>2. 0 \in Tokens
  BY SamplingAssumption DEF Tokens
<1> QED
  BY <1>1, <1>2, FS_Subset

\* The mass of a set of tokens: nothing weighs nothing, each token adds its own.
LEMMA MassProperties ==
  ASSUME Types, NEW S \in SUBSET Tokens
  PROVE  /\ Mass({}) = 0
         /\ Mass(S) \in Nat
         /\ \A t \in S : Mass(S) = weight[t] + Mass(S \ {t})
PROOF
<1>1. \A A : Mass(A) = SumOver(weight, A)
  BY SumDefinition DEF Mass
<1>2. IsFiniteSet(S)
  BY TokensProperties
<1>3. \A t \in S : weight[t] \in Nat
  BY DEF Types
<1> QED
  BY <1>1, <1>2, <1>3, SumProperties

\* A larger set weighs at least as much.
LEMMA MassGrows ==
  ASSUME Types, NEW S \in SUBSET Tokens, NEW A \in SUBSET S
  PROVE  Mass(A) <= Mass(S)
PROOF
<1> DEFINE U == S \ A
           H == {s \in SUBSET U : Mass(A) <= Mass(A \cup s)}
<1>1. ASSUME NEW s \in SUBSET U, \A r \in SUBSET s : r # s => r \in H
      PROVE  s \in H
  <2>1. CASE s = {}
    <3>1. A \cup s = A /\ Mass(A) \in Nat
      BY <2>1, MassProperties
    <3> QED
      BY <3>1
  <2>2. CASE s # {}
    <3>1. PICK t \in s : TRUE
      BY <2>2
    <3>2. s \ {t} \in H
      BY <1>1, <3>1
    <3>3. A \cup s \in SUBSET Tokens /\ t \in A \cup s /\ (A \cup s) \ {t} = A \cup (s \ {t})
      BY <3>1
    <3>4. Mass(A \cup s) = weight[t] + Mass((A \cup s) \ {t})
      BY <3>3, MassProperties
    <3>5. weight[t] \in Nat /\ Mass(A) \in Nat /\ Mass(A \cup (s \ {t})) \in Nat
      <4>1. A \in SUBSET Tokens /\ A \cup (s \ {t}) \in SUBSET Tokens /\ t \in Tokens
        BY <3>1
      <4>2. Mass(A) \in Nat
        BY <4>1, MassProperties
      <4>3. Mass(A \cup (s \ {t})) \in Nat
        BY <4>1, MassProperties
      <4> QED
        BY <4>1, <4>2, <4>3 DEF Types
    <3>6. Mass(A) <= Mass(A \cup s)
      BY <3>2, <3>3, <3>4, <3>5
    <3> QED
      BY <3>6
  <2> QED
    BY <2>1, <2>2
<1>2. H = SUBSET U
  <2>1. H \in SUBSET (SUBSET U) /\ IsFiniteSet(U)
    BY TokensProperties
  <2> HIDE DEF H, U
  <2> QED
    BY <1>1, <2>1, SubsetInduction
<1>3. A \cup U = S /\ U \in H
  BY <1>2
<1> QED
  BY <1>3

\* In any set of tokens there is one no other outweighs.
LEMMA HeaviestExists ==
  ASSUME Types, NEW S \in SUBSET Tokens, S # {}
  PROVE  Heaviest(S) # {} /\ Heaviest(S) \subseteq S
PROOF
<1>1. IsFiniteSet(S) /\ \A t \in S : weight[t] \in Nat
  BY TokensProperties DEF Types
<1>2. PICK t \in S : \A u \in S : weight[u] <= weight[t]
  BY <1>1, GreatestValue
<1>3. \A u \in S : weight[t] >= weight[u]
  BY <1>1, <1>2
<1> QED
  BY <1>3 DEF Heaviest

-----------------------------------------------------------------------------
(* Sorting                                                                 *)

\* A sorted list holds each token of the set once, and weights never rise in it.
LEMMA SortedProperties ==
  ASSUME Types, NEW S \in SUBSET Tokens, NEW q \in Sorted(S)
  PROVE  /\ q \in Seq(Tokens) /\ IsInjective(q) /\ Range(q) = S
         /\ \A i, j \in 1 .. Len(q) : i <= j => weight[q[i]] >= weight[q[j]]
PROOF
<1>1. IsFiniteSet(S) /\ Cardinality(S) \in Nat
  BY TokensProperties, FS_CardinalityType
<1>2. q \in [1 .. Cardinality(S) -> S] /\ IsInjective(q)
  BY <1>1 DEF Sorted, SetToSeqs, IsInjective
<1>3. q \in Seq(S) /\ Range(q) = S
  BY <1>1, <1>2, ListsAll
<1>4. q \in Seq(Tokens)
  BY <1>3
<1> DEFINE g == [i \in 1 .. Len(q) |-> 0 - weight[q[i]]]
<1>5. Len(q) \in Nat /\ \A i \in 1 .. Len(q) : q[i] \in Tokens /\ weight[q[i]] \in Int
  BY <1>4 DEF Types
<1>6. \A i \in 1 .. Len(q) : g[i] \in Int /\ g[i] = 0 - weight[q[i]]
  BY <1>5
<1>7. ASSUME NEW i \in 2 .. Len(q) PROVE g[i - 1] <= g[i]
  <2>1. weight[q[i - 1]] >= weight[q[i]] /\ i - 1 \in 1 .. Len(q) /\ i \in 1 .. Len(q)
    BY <1>5, <1>7 DEF Sorted
  <2> QED
    BY <1>5, <1>6, <2>1
<1> HIDE DEF g
<1>8. \A i, j \in 1 .. Len(q) : i <= j => g[i] <= g[j]
  BY <1>5, <1>6, <1>7, RisingFar
<1>9. \A i, j \in 1 .. Len(q) : i <= j => weight[q[i]] >= weight[q[j]]
  BY <1>5, <1>6, <1>8
<1> QED
  BY <1>2, <1>3, <1>4, <1>9

\* The first k tokens of a sorted list are k tokens.
LEMMA SortedPrefix ==
  ASSUME Types, NEW S \in SUBSET Tokens, NEW q \in Sorted(S), NEW k \in 0 .. Len(q)
  PROVE  /\ Range(SubSeq(q, 1, k)) = {q[i] : i \in 1 .. k}
         /\ {q[i] : i \in 1 .. k} \in SUBSET Tokens
         /\ Cardinality({q[i] : i \in 1 .. k}) = k
PROOF
<1> DEFINE u == SubSeq(q, 1, k)
<1>1. q \in Seq(Tokens) /\ IsInjective(q)
  BY SortedProperties
<1>2. /\ u \in Seq(Tokens) /\ IsInjective(u) /\ Len(u) = k
      /\ \A i \in 1 .. k : u[i] = q[i]
  BY <1>1, SplitProperties
<1> HIDE DEF u
<1>3. Range(u) = {q[i] : i \in 1 .. k} /\ Range(u) \in SUBSET Tokens
  BY <1>2 DEF Range
<1>4. Cardinality(Range(u)) = k
  BY <1>2, InjectiveLength
<1> QED
  BY <1>3, <1>4 DEF u

\* Whatever the weights are, the tokens of a set can be sorted.
LEMMA SortedExists ==
  ASSUME Types, NEW S \in SUBSET Tokens
  PROVE  Sorted(S) # {}
PROOF
<1> DEFINE f == [t \in Tokens |-> MaxWeight - weight[t]]
<1>1. \A t \in Tokens : weight[t] \in Nat /\ f[t] \in Nat /\ f[t] = MaxWeight - weight[t]
  BY SamplingAssumption DEF Types
<1> HIDE DEF f
<1>2. IsFiniteSet(S) /\ \A t \in S : f[t] \in Nat
  BY <1>1, TokensProperties
<1>3. PICK q \in SetToSeqs(S) : \A i \in 2 .. Len(q) : f[q[i - 1]] <= f[q[i]]
  BY <1>2, SortingExists
<1>4. Cardinality(S) \in Nat /\ q \in [1 .. Cardinality(S) -> S]
  BY <1>2, FS_CardinalityType DEF SetToSeqs
<1>5. ASSUME NEW i \in 2 .. Len(q) PROVE weight[q[i - 1]] >= weight[q[i]]
  <2>1. Len(q) = Cardinality(S) /\ i \in 1 .. Len(q) /\ i - 1 \in 1 .. Len(q)
    BY <1>4, <1>5
  <2>2. q[i - 1] \in Tokens /\ q[i] \in Tokens
    BY <1>4, <2>1
  <2>3. f[q[i - 1]] <= f[q[i]]
    BY <1>3, <1>5
  <2>4. /\ f[q[i - 1]] = MaxWeight - weight[q[i - 1]] /\ f[q[i]] = MaxWeight - weight[q[i]]
        /\ weight[q[i - 1]] \in Nat /\ weight[q[i]] \in Nat /\ MaxWeight \in Nat
    BY <1>1, <2>2, SamplingAssumption
  <2> QED
    BY <2>3, <2>4
<1> QED
  BY <1>3, <1>5 DEF Sorted

-----------------------------------------------------------------------------
(* The filters                                                             *)

\* Comparing with the k-th value of a sorted list keeps the tokens that fewer
\* than k others outweigh, wherever equal weights end up in the list.
LEMMA ThresholdIsRank ==
  ASSUME Types, 0 < topK, topK < Vocab, kept = Tokens, NEW q \in Sorted(kept)
  PROVE  AboveThreshold(q) = Candidates
PROOF
<1> DEFINE Above(t) == {u \in Tokens : weight[u] > weight[t]}
           n == Len(q)
<1>1. /\ q \in Seq(Tokens) /\ IsInjective(q) /\ Range(q) = Tokens
      /\ \A i, j \in 1 .. n : i <= j => weight[q[i]] >= weight[q[j]]
  BY SortedProperties
<1>2. n = Vocab /\ n \in Nat
  BY <1>1, InjectiveLength, TokensProperties
<1>3. /\ \A t \in Tokens : weight[t] \in Int
      /\ \A i \in 1 .. n : q[i] \in Tokens
      /\ \A t \in Tokens : \E i \in 1 .. n : t = q[i]
  BY <1>1 DEF Types, Range
<1>4. topK \in 1 .. n /\ topK \in Nat /\ topK - 1 \in 0 .. n /\ topK \in 0 .. n
  BY <1>2 DEF Types
<1>5. ASSUME NEW m \in 0 .. n
      PROVE  /\ {q[i] : i \in 1 .. m} \in SUBSET Tokens
             /\ Cardinality({q[i] : i \in 1 .. m}) = m
  BY <1>5, SortedPrefix
<1>6. ASSUME NEW t \in Tokens, weight[t] >= weight[q[topK]]
      PROVE  Cardinality(Above(t)) < topK
  <2> DEFINE F == {q[i] : i \in 1 .. topK - 1}
  <2>1. ASSUME NEW v \in Above(t) PROVE v \in F
    <3>1. v \in Tokens /\ weight[v] > weight[t]
      BY <2>1
    <3>2. PICK i \in 1 .. n : v = q[i]
      BY <1>3, <3>1
    <3>3. ASSUME topK <= i PROVE FALSE
      <4>1. weight[q[topK]] >= weight[q[i]]
        BY <1>1, <1>4, <3>3
      <4>2. /\ weight[q[topK]] \in Int /\ weight[q[i]] \in Int /\ weight[t] \in Int
            /\ weight[q[i]] > weight[t] /\ weight[t] >= weight[q[topK]]
        BY <1>3, <1>4, <1>6, <3>1, <3>2
      <4> QED
        BY <4>1, <4>2
    <3>4. i \in 1 .. topK - 1
      BY <1>4, <3>3
    <3> QED
      BY <3>2, <3>4
  <2>2. F \in SUBSET Tokens /\ Cardinality(F) = topK - 1
    BY <1>4, <1>5
  <2> HIDE DEF F
  <2>3. IsFiniteSet(F) /\ Above(t) \in SUBSET F
    BY <2>1, <2>2, TokensProperties
  <2>4. Cardinality(Above(t)) \in Nat /\ Cardinality(Above(t)) <= Cardinality(F)
    BY <2>3, CountGrows
  <2> HIDE DEF Above
  <2> QED
    BY <1>4, <2>2, <2>4
<1>7. ASSUME NEW t \in Tokens, ~ (weight[t] >= weight[q[topK]])
      PROVE  ~ (Cardinality(Above(t)) < topK)
  <2> DEFINE F == {q[i] : i \in 1 .. topK}
  <2>1. ASSUME NEW i \in 1 .. topK PROVE q[i] \in Above(t)
    <3>1. i \in 1 .. n /\ i <= topK
      BY <1>4
    <3>2. weight[q[i]] >= weight[q[topK]]
      BY <1>1, <1>4, <3>1
    <3> QED
      BY <1>3, <1>4, <1>7, <3>1, <3>2
  <2>2. Cardinality(F) = topK /\ F \in SUBSET Above(t)
    BY <1>4, <1>5, <2>1
  <2>3. IsFiniteSet(Above(t))
    BY TokensProperties
  <2> HIDE DEF F, Above
  <2>4. /\ Cardinality(F) <= Cardinality(Above(t))
        /\ Cardinality(Above(t)) \in Nat
    BY <2>2, <2>3, CountGrows
  <2> QED
    BY <1>4, <2>2, <2>4
<1>8. topK # 0
  BY <1>4
<1> QED
  BY <1>6, <1>7, <1>8 DEF AboveThreshold, Candidates

\* Some token is a candidate: one that no other outweighs.
LEMMA HeaviestIsCandidate ==
  ASSUME Types
  PROVE  Heaviest(Tokens) \subseteq Candidates /\ Heaviest(Tokens) # {}
PROOF
<1>1. Tokens # {} /\ Tokens \in SUBSET Tokens
  BY TokensProperties
<1>2. Heaviest(Tokens) # {} /\ Heaviest(Tokens) \subseteq Tokens
  BY <1>1, HeaviestExists
<1>3. ASSUME NEW t \in Heaviest(Tokens) PROVE t \in Candidates
  <2>1. \A u \in Tokens : weight[u] \in Int /\ weight[t] \in Int /\ weight[t] >= weight[u]
    BY <1>2 DEF Heaviest, Types
  <2>2. {u \in Tokens : weight[u] > weight[t]} = {}
    BY <2>1
  <2>3. Cardinality({u \in Tokens : weight[u] > weight[t]}) = 0
    BY <2>2, FS_EmptySet
  <2>4. topK = 0 \/ 0 < topK
    BY DEF Types
  <2> QED
    BY <1>2, <2>3, <2>4 DEF Candidates
<1> QED
  BY <1>2, <1>3

\* What top-p keeps of a sorted list is a beginning of it: the shortest whose mass
\* reaches top_p.
LEMMA NucleusIsPrefix ==
  ASSUME Types, NEW q \in Sorted(kept)
  PROVE  \E m \in 0 .. Len(q) :
           /\ InNucleus(q) = Range(SubSeq(q, 1, m))
           /\ m < Len(q) => Mass(Range(SubSeq(q, 1, m))) * Scale >= topP * Mass(kept)
           /\ m > 0 => Mass(Range(SubSeq(q, 1, m - 1))) * Scale < topP * Mass(kept)
PROOF
<1> DEFINE n == Len(q)
           P(k) == Range(SubSeq(q, 1, k))
           Low == {k \in 0 .. n : Mass(P(k)) * Scale < topP * Mass(kept)}
           Stop == {k \in 0 .. n : k = n \/ k \notin Low}
<1>1. /\ q \in Seq(Tokens) /\ IsInjective(q) /\ Range(q) = kept
      /\ n \in Nat /\ \A i \in 1 .. n : q[i] \in Tokens
  BY SortedProperties DEF Types
<1>2. ASSUME NEW k \in 0 .. n
      PROVE  P(k) \in SUBSET Tokens /\ P(k) = {q[i] : i \in 1 .. k}
  <2>1. kept \in SUBSET Tokens
    BY DEF Types
  <2>2. /\ Range(SubSeq(q, 1, k)) = {q[i] : i \in 1 .. k}
        /\ {q[i] : i \in 1 .. k} \in SUBSET Tokens
    BY <1>2, <2>1, SortedPrefix
  <2> QED
    BY <2>2
<1>3. \A k \in 0 .. n : Mass(P(k)) \in Nat
  BY <1>2, MassProperties
<1>4. Mass(kept) \in Nat /\ topP \in Nat /\ Scale \in Nat
  BY MassProperties, SamplingAssumption DEF Types
\* the masses of the beginnings grow, so the low ones are the short ones
<1>5. ASSUME NEW k \in 0 .. n, NEW j \in 0 .. n, k <= j, j \in Low PROVE k \in Low
  <2>1. Mass(P(k)) <= Mass(P(j))
    <3>1. P(k) \subseteq P(j) /\ P(j) \in SUBSET Tokens
      <4>1. 1 .. k \subseteq 1 .. j
        BY <1>5
      <4> QED
        BY <1>2, <4>1
    <3> HIDE DEF P
    <3> QED
      BY <3>1, MassGrows
  <2>2. Mass(P(j)) * Scale < topP * Mass(kept)
    BY <1>5
  <2>3. \A a, b, s, c \in Nat : a <= b /\ b * s < c => a * s < c
    <3>1. \A a, b, s \in Nat : a <= b => a * s <= b * s
      OBVIOUS
    <3>2. \A a, b, s \in Nat : a * s \in Nat
      OBVIOUS
    <3> QED
      BY <3>1, <3>2
  <2>4. topP * Mass(kept) \in Nat
    BY <1>4
  <2> HIDE DEF P
  <2>5. Mass(P(k)) * Scale < topP * Mass(kept)
    BY <1>3, <1>4, <2>1, <2>2, <2>3, <2>4
  <2> QED
    BY <2>5
<1>6. Stop \in SUBSET Nat /\ Stop # {}
  BY <1>1
<1> DEFINE m == Min(Stop)
<1>7. m \in Stop /\ \A k \in Stop : m <= k
  <2> HIDE DEF Stop
  <2> QED
    BY <1>6, LeastMember
<1> HIDE DEF m, P
<1>8. m \in 0 .. n /\ m \in Nat
  BY <1>1, <1>7
<1>9. \A k \in 0 .. n : k < m <=> (k \in Low /\ k < n)
  <2>1. ASSUME NEW k \in 0 .. n, k < m PROVE k \in Low /\ k < n
    BY <1>7, <1>8, <2>1
  <2>2. ASSUME NEW k \in 0 .. n, k \in Low, k < n, ~ (k < m) PROVE FALSE
    <3>1. m <= k /\ m # n
      BY <1>8, <2>2
    <3>2. m \in Low
      BY <1>5, <1>8, <2>2, <3>1
    <3> QED
      BY <1>7, <3>1, <3>2
  <2> QED
    BY <2>1, <2>2
<1>10. InNucleus(q) = P(m)
  <2>1. InNucleus(q) = {q[i] : i \in {j \in 1 .. n : Mass(P(j - 1)) * Scale < topP * Mass(kept)}}
    BY <1>1 DEF InNucleus, P
  <2>2. \A j \in 1 .. n : j - 1 \in 0 .. n /\ j - 1 < n
    BY <1>1
  <2>3. \A j \in 1 .. n : Mass(P(j - 1)) * Scale < topP * Mass(kept) <=> j - 1 < m
    BY <1>9, <2>2
  <2>4. {j \in 1 .. n : Mass(P(j - 1)) * Scale < topP * Mass(kept)} = 1 .. m
    <3>1. \A j \in 1 .. n : j - 1 < m <=> j <= m
      BY <1>1, <1>8
    <3>2. 1 .. m \subseteq 1 .. n
      BY <1>1, <1>8
    <3>3. \A j \in 1 .. n : j <= m <=> j \in 1 .. m
      BY <1>8
    <3> QED
      BY <2>3, <3>1, <3>2, <3>3
  <2> QED
    BY <1>2, <1>8, <2>1, <2>4 DEF P
<1>11. m < n => Mass(P(m)) * Scale >= topP * Mass(kept)
  <2>1. m < n => m \notin Low
    BY <1>7, <1>8
  <2>2. Mass(P(m)) * Scale \in Nat /\ topP * Mass(kept) \in Nat
    BY <1>3, <1>4, <1>8
  <2> QED
    BY <1>8, <2>1, <2>2
<1>12. m > 0 => Mass(P(m - 1)) * Scale < topP * Mass(kept)
  <2>1. m > 0 => m - 1 \in 0 .. n /\ m - 1 < m
    BY <1>8
  <2> QED
    BY <1>9, <2>1
<1> QED
  BY <1>8, <1>10, <1>11, <1>12 DEF P

\* A sorted list of the candidates, cut where top-p cuts it, leaves a smallest set
\* of heaviest candidates that reaches top_p.
LEMMA NucleusIsSmallest ==
  ASSUME Types, kept = Candidates, NEW q \in Sorted(kept)
  PROVE  LET S == InNucleus(q)
         IN  /\ S \subseteq Candidates
             /\ \A t \in S, u \in Candidates \ S : weight[t] >= weight[u]
             /\ Mass(S) * Scale >= topP * Mass(Candidates)
             /\ \A t \in S : Mass(S \ {t}) * Scale < topP * Mass(Candidates)
PROOF
<1> DEFINE S == InNucleus(q)
           n == Len(q)
<1>1. kept \in SUBSET Tokens
  BY DEF Types
<1>2. /\ q \in Seq(Tokens) /\ IsInjective(q) /\ Range(q) = kept
      /\ \A i, j \in 1 .. n : i <= j => weight[q[i]] >= weight[q[j]]
  BY <1>1, SortedProperties
<1>3. n \in Nat
  BY <1>2
<1>4. PICK m \in 0 .. n :
         /\ S = Range(SubSeq(q, 1, m))
         /\ m < n => Mass(Range(SubSeq(q, 1, m))) * Scale >= topP * Mass(kept)
         /\ m > 0 => Mass(Range(SubSeq(q, 1, m - 1))) * Scale < topP * Mass(kept)
  BY NucleusIsPrefix
<1>5. \A k \in 0 .. n : Range(SubSeq(q, 1, k)) = {q[i] : i \in 1 .. k}
  BY <1>1, SortedPrefix
<1>6. S = {q[i] : i \in 1 .. m}
  BY <1>4, <1>5
<1>7. kept = {q[i] : i \in 1 .. n} /\ \A i \in 1 .. n : q[i] \in kept
  BY <1>2 DEF Range
<1> HIDE DEF S
<1>8. S \subseteq kept
  BY <1>3, <1>6, <1>7
<1>9. S \in SUBSET Tokens /\ \A t \in Tokens : weight[t] \in Nat
  BY <1>1, <1>8 DEF Types
<1>10. /\ Mass(kept) \in Nat /\ Mass(S) \in Nat /\ topP \in Nat /\ Scale \in Nat
       /\ topP <= Scale
  <2>1. Mass(kept) \in Nat
    BY <1>1, MassProperties
  <2>2. Mass(S) \in Nat
    BY <1>9, MassProperties
  <2> QED
    BY <2>1, <2>2, SamplingAssumption DEF Types
\* only tokens behind the cut are left out
<1>11. ASSUME NEW t \in S, NEW u \in kept \ S PROVE weight[t] >= weight[u]
  <2>1. PICK i \in 1 .. m : t = q[i]
    BY <1>6
  <2>2. PICK j \in 1 .. n : u = q[j]
    BY <1>7
  <2>3. ~ (j <= m)
    BY <1>6, <2>2
  <2>4. i \in 1 .. n /\ i <= j
    BY <1>3, <2>3
  <2> QED
    BY <1>2, <2>1, <2>2, <2>4
<1>12. Mass(S) * Scale >= topP * Mass(kept)
  <2>1. CASE m < n
    BY <1>4, <2>1
  <2>2. CASE m = n
    <3>1. S = kept
      BY <1>6, <1>7, <2>2
    <3>2. \A a, b, c \in Nat : a <= b => c * b >= a * c
      OBVIOUS
    <3> QED
      BY <1>10, <3>1, <3>2
  <2> QED
    BY <1>3, <2>1, <2>2
\* without one of them, what is left weighs no more than without the last
<1>13. ASSUME NEW t \in S PROVE Mass(S \ {t}) * Scale < topP * Mass(kept)
  <2> DEFINE F == Range(SubSeq(q, 1, m - 1))
  <2>1. PICK i \in 1 .. m : t = q[i]
    BY <1>6
  <2>2. m > 0 /\ m - 1 \in 0 .. n /\ m \in 1 .. n /\ i \in 1 .. n /\ i <= m
    BY <1>3, <2>1
  <2>3. Mass(F) * Scale < topP * Mass(kept)
    BY <1>4, <2>2
  <2>4. F = {q[k] : k \in 1 .. m - 1}
    BY <1>5, <2>2
  <2>5. F = S \ {q[m]} /\ q[m] \in S
    <3>1. \A k \in 1 .. m - 1 : q[k] # q[m]
      <4>1. \A k \in 1 .. m - 1 : k \in DOMAIN q /\ m \in DOMAIN q /\ k # m
        BY <1>2, <1>3, <2>2
      <4> QED
        BY <1>2, <4>1 DEF IsInjective
    <3>2. 1 .. m = (1 .. m - 1) \cup {m}
      BY <2>2
    <3> QED
      BY <1>6, <2>4, <3>1, <3>2
  <2> HIDE DEF F
  <2>6. weight[t] >= weight[q[m]]
    BY <1>2, <2>1, <2>2
  <2>7. Mass(S) = weight[t] + Mass(S \ {t}) /\ Mass(S) = weight[q[m]] + Mass(S \ {q[m]})
    BY <1>9, <2>5, MassProperties
  <2>8. Mass(S \ {t}) \in Nat /\ Mass(F) \in Nat
    <3>1. S \ {t} \in SUBSET Tokens /\ F \in SUBSET Tokens
      BY <1>9, <2>5
    <3>2. Mass(S \ {t}) \in Nat
      BY <3>1, MassProperties
    <3>3. Mass(F) \in Nat
      BY <3>1, MassProperties
    <3> QED
      BY <3>2, <3>3
  <2>9. weight[t] \in Nat /\ weight[q[m]] \in Nat
    BY <1>9, <2>5
  <2>10. Mass(S \ {t}) <= Mass(F)
    BY <2>5, <2>6, <2>7, <2>8, <2>9
  <2>11. Mass(S \ {t}) * Scale <= Mass(F) * Scale
    <3>1. \A a, b, c \in Nat : a <= b => a * c <= b * c
      OBVIOUS
    <3> QED
      BY <1>10, <2>8, <2>10, <3>1
  <2>12. \A a, b \in Nat : a * b \in Nat
    OBVIOUS
  <2>13. /\ Mass(S \ {t}) * Scale \in Nat /\ Mass(F) * Scale \in Nat
         /\ topP * Mass(kept) \in Nat
    BY <1>10, <2>8, <2>12
  <2> QED
    BY <2>3, <2>11, <2>13
<1> QED
  BY <1>8, <1>11, <1>12, <1>13 DEF S

\* When all candidates may stay, or few, something is left unless top_p is 0, and
\* then nothing is.
LEMMA SomethingKept ==
  ASSUME Types, TopKExact, Nucleus, pc \in {"draw", "done", "raised"}
  PROVE  /\ topP > 0 => kept # {}
         /\ topP = 0 => kept = {}
         /\ \A t \in Heaviest(kept) : topP > 0 => t \in Heaviest(Tokens)
PROOF
<1>1. Candidates \in SUBSET Tokens /\ Mass({}) = 0 /\ Mass(Candidates) \in Nat
  <2>1. Candidates \in SUBSET Tokens
    BY DEF Candidates
  <2> QED
    BY <2>1, MassProperties
<1>2. PICK h \in Heaviest(Tokens) : h \in Candidates /\ h \in Tokens
  BY <1>1, HeaviestIsCandidate
<1>3. Mass(Candidates) > 0
  <2>1. Mass(Candidates) = weight[h] + Mass(Candidates \ {h})
    BY <1>1, <1>2, MassProperties
  <2>2. Mass(Candidates \ {h}) \in Nat
    <3>1. Candidates \ {h} \in SUBSET Tokens
      BY <1>1
    <3> QED
      BY <3>1, MassProperties
  <2>3. weight[h] \in Nat /\ weight[h] > 0
    BY <1>2, SamplingAssumption DEF Types
  <2> QED
    BY <2>1, <2>2, <2>3
<1>4. topP \in Nat /\ Scale \in Nat /\ Scale > 0
  BY SamplingAssumption DEF Types
<1>5. ASSUME topP > 0 PROVE kept # {}
  <2>1. SUFFICES ASSUME kept = {} PROVE FALSE
    OBVIOUS
  <2>2. 0 * Scale >= topP * Mass(Candidates)
    BY <1>1, <2>1 DEF Nucleus
  <2>3. \A a, b \in Nat : a > 0 /\ b > 0 => a * b > 0 /\ a * b \in Nat
    OBVIOUS
  <2>4. topP * Mass(Candidates) > 0 /\ topP * Mass(Candidates) \in Nat
    BY <1>1, <1>3, <1>4, <1>5, <2>3
  <2> QED
    BY <1>4, <2>2, <2>4
<1>6. ASSUME topP = 0 PROVE kept = {}
  <2>1. SUFFICES ASSUME NEW t \in kept PROVE FALSE
    OBVIOUS
  <2>2. Mass(kept \ {t}) * Scale < 0 * Mass(Candidates)
    BY <1>4, <1>6 DEF Nucleus
  <2>3. kept \ {t} \in SUBSET Tokens
    BY DEF Types
  <2>4. Mass(kept \ {t}) \in Nat
    BY <2>3, MassProperties
  <2>5. \A a, b \in Nat : a * b \in Nat
    OBVIOUS
  <2>6. Mass(kept \ {t}) * Scale \in Nat /\ 0 * Mass(Candidates) = 0
    BY <1>1, <1>4, <2>4, <2>5
  <2> QED
    BY <2>2, <2>6
<1>7. ASSUME NEW t \in Heaviest(kept), topP > 0 PROVE t \in Heaviest(Tokens)
  <2>1. t \in kept /\ t \in Tokens /\ \A u \in kept : weight[t] >= weight[u]
    BY <1>7 DEF Heaviest, Types
  <2>2. weight[t] >= weight[h]
    <3>1. CASE h \in kept
      BY <2>1, <3>1
    <3>2. CASE h \notin kept
      BY <1>2, <2>1, <3>2 DEF Nucleus
    <3> QED
      BY <3>1, <3>2
  <2>3. \A u \in Tokens : weight[h] >= weight[u] /\ weight[u] \in Int
    BY <1>2 DEF Heaviest, Types
  <2> QED
    BY <1>2, <2>1, <2>2, <2>3 DEF Heaviest
<1> QED
  BY <1>5, <1>6, <1>7

-----------------------------------------------------------------------------
(* The invariant is inductive                                              *)

LEMMA InitInv == Init => IInv
PROOF
<1> SUFFICES ASSUME Init PROVE IInv
  OBVIOUS
<1>1. Types
  BY DEF Init, Types
<1> QED
  BY <1>1 DEF Init, IInv, TopKExact, Nucleus, Drawn

\* The filters' marks depend on the parameters and on what is kept only.
LEMMA SameParameters ==
  ASSUME UNCHANGED <<weight, topK, topP, greedy>>
  PROVE  /\ Candidates' = Candidates
         /\ \A S : Heaviest(S)' = Heaviest(S)
         /\ Mass(kept)' = Mass(kept') /\ Mass(Candidates)' = Mass(Candidates)
         /\ \A t : Mass(kept \ {t})' = Mass(kept' \ {t})
PROOF
<1>1. Candidates' = Candidates
  BY DEF Candidates
<1>2. \A S : Heaviest(S)' = Heaviest(S)
  BY DEF Heaviest
<1>3. \A S : Mass(S) = SumOver(weight, S)
  BY SumDefinition DEF Mass
<1>4. Mass(kept)' = SumOver(weight', kept')
  BY DEF Mass, MapThenSumSet, MapThenFoldSet, SumOver, Adds, Chosen
<1>5. Mass(Candidates)' = SumOver(weight', Candidates')
  BY DEF Mass, MapThenSumSet, MapThenFoldSet, SumOver, Adds, Chosen
<1>6. \A t : Mass(kept \ {t})' = SumOver(weight', kept' \ {t})
  BY DEF Mass, MapThenSumSet, MapThenFoldSet, SumOver, Adds, Chosen
<1> QED
  BY <1>1, <1>2, <1>3, <1>4, <1>5, <1>6

\* Once cut, the nucleus stays what it is.
LEMMA SameNucleus ==
  ASSUME Nucleus, pc \in {"draw", "done", "raised"},
         UNCHANGED <<weight, topK, topP, greedy>>, UNCHANGED kept
  PROVE  Nucleus'
PROOF
<1>1. /\ Mass(kept)' = Mass(kept') /\ Mass(Candidates)' = Mass(Candidates)
      /\ \A t : Mass(kept \ {t})' = Mass(kept' \ {t})
      /\ Candidates' = Candidates
  BY SameParameters
<1> QED
  BY <1>1 DEF Nucleus

LEMMA TopKInv == IInv /\ TopK => IInv'
PROOF
<1> SUFFICES ASSUME IInv, TopK PROVE IInv'
  OBVIOUS
<1>1. /\ Types /\ pc = "topk" /\ kept = Tokens /\ pc' = "topp"
      /\ UNCHANGED <<weight, topK, topP, greedy, token>>
  BY DEF IInv, TopK
<1>2. kept' = Candidates
  <2>1. CASE 0 < topK /\ topK < Vocab
    <3>1. Sorted(kept) # {}
      BY <1>1, SortedExists
    <3>2. PICK q \in Sorted(kept) : kept' = AboveThreshold(q)
      BY <2>1, <3>1 DEF TopK
    <3> QED
      BY <1>1, <2>1, <3>2, ThresholdIsRank
  <2>2. CASE ~ (0 < topK /\ topK < Vocab)
    <3>1. kept' = Tokens
      BY <1>1, <2>2 DEF TopK
    <3>2. topK = 0 \/ topK >= Vocab
      BY <1>1, <2>2, SamplingAssumption DEF Types
    \* a token never outweighs itself, so at most Vocab - 1 tokens outweigh it
    <3>3. ASSUME NEW t \in Tokens, topK >= Vocab
          PROVE  Cardinality({u \in Tokens : weight[u] > weight[t]}) < topK
      <4> DEFINE A == {u \in Tokens : weight[u] > weight[t]}
      <4>1. A \in SUBSET Tokens /\ A # Tokens
        <5>1. weight[t] \in Int
          BY <1>1 DEF Types
        <5> QED
          BY <5>1
      <4> HIDE DEF A
      <4>2. Cardinality(A) \in Nat /\ Cardinality(A) + 1 <= Vocab
        BY <4>1, CountGrows, TokensProperties
      <4>3. topK \in Nat /\ Vocab \in Nat
        BY <1>1, SamplingAssumption DEF Types
      <4>4. Cardinality(A) < topK
        BY <3>3, <4>2, <4>3
      <4> QED
        BY <4>4 DEF A
    <3> QED
      BY <3>1, <3>2, <3>3 DEF Candidates
  <2> QED
    BY <2>1, <2>2
<1>3. Types' /\ TopKExact'
  <2>1. Candidates \subseteq Tokens
    BY DEF Candidates
  <2> QED
    BY <1>1, <1>2, <2>1, SameParameters DEF Types, TopKExact, Tokens
<1> QED
  BY <1>1, <1>3 DEF IInv, Nucleus, Drawn

LEMMA TopPInv == IInv /\ TopP => IInv'
PROOF
<1> SUFFICES ASSUME IInv, TopP PROVE IInv'
  OBVIOUS
<1>1. /\ Types /\ pc = "topp" /\ kept = Candidates /\ pc' = "draw"
      /\ UNCHANGED <<weight, topK, topP, greedy, token>>
  BY DEF IInv, TopP, TopKExact
<1>2. Candidates \in SUBSET Tokens
  BY DEF Candidates
<1>3. /\ kept' \subseteq Candidates
      /\ \A t \in kept', u \in Candidates \ kept' : weight[t] >= weight[u]
      /\ Mass(kept') * Scale >= topP * Mass(Candidates)
      /\ topP < Scale => \A t \in kept' : Mass(kept' \ {t}) * Scale < topP * Mass(Candidates)
  <2>1. CASE topP < Scale
    <3>1. PICK q \in Sorted(kept) : kept' = InNucleus(q)
      BY <2>1 DEF TopP
    <3> QED
      BY <1>1, <3>1, NucleusIsSmallest
  <2>2. CASE ~ (topP < Scale)
    <3>1. kept' = Candidates
      BY <1>1, <2>2 DEF TopP
    <3>2. topP = Scale /\ Scale \in Nat /\ Mass(Candidates) \in Nat
      <4>1. Mass(Candidates) \in Nat
        BY <1>1, <1>2, MassProperties
      <4> QED
        BY <1>1, <2>2, <4>1, SamplingAssumption DEF Types
    <3>3. \A a, b \in Nat : a * b >= b * a
      OBVIOUS
    <3>4. Mass(kept') * Scale >= topP * Mass(Candidates)
      BY <3>1, <3>2, <3>3
    <3> QED
      BY <2>2, <3>1, <3>4
  <2> QED
    BY <2>1, <2>2
<1>4. Types'
  BY <1>1, <1>2, <1>3 DEF Types, Tokens
<1>5. Nucleus'
  <2>1. /\ Mass(kept)' = Mass(kept') /\ Mass(Candidates)' = Mass(Candidates)
        /\ \A t : Mass(kept \ {t})' = Mass(kept' \ {t})
        /\ Candidates' = Candidates /\ weight' = weight /\ topP' = topP
    BY <1>1, SameParameters
  <2> QED
    BY <1>3, <2>1 DEF Nucleus
<1> QED
  BY <1>1, <1>4, <1>5 DEF IInv, TopKExact, Drawn

LEMMA DrawInv == IInv /\ Draw => IInv'
PROOF
<1> SUFFICES ASSUME IInv, Draw PROVE IInv'
  OBVIOUS
<1>1. /\ Types /\ TopKExact /\ Nucleus /\ pc = "draw" /\ pc' \in {"done", "raised"}
      /\ UNCHANGED <<weight, topK, topP, greedy, kept>>
  BY DEF IInv, Draw
<1>2. /\ topP > 0 => kept # {}
      /\ topP = 0 => kept = {}
      /\ \A t \in Heaviest(kept) : topP > 0 => t \in Heaviest(Tokens)
  BY <1>1, SomethingKept
<1>3. kept \in SUBSET Tokens /\ topP \in Nat
  BY <1>1, SamplingAssumption DEF Types
<1>4. Types'
  BY <1>1 DEF Types, Tokens
<1>5. Nucleus'
  BY <1>1, SameNucleus
<1>6. /\ pc' = "done" /\ topP > 0 => token' \in kept
      /\ pc' = "done" /\ topP > 0 /\ greedy => token' \in Heaviest(Tokens)
      /\ pc' = "done" /\ topP = 0 => greedy /\ token' = 0
      /\ pc' = "raised" <=> topP = 0 /\ ~ greedy
  <2>1. CASE greedy /\ kept # {} /\ token' = Min(Heaviest(kept)) /\ pc' = "done"
    <3>1. Heaviest(kept) # {} /\ Heaviest(kept) \subseteq kept
      BY <1>1, <1>3, <2>1, HeaviestExists
    <3>2. Heaviest(kept) \in SUBSET Nat
      <4>1. Tokens \subseteq Nat
        BY SamplingAssumption DEF Tokens
      <4> QED
        BY <1>3, <3>1, <4>1
    <3>3. token' \in Heaviest(kept)
      BY <2>1, <3>1, <3>2, LeastMember
    <3> QED
      BY <1>2, <2>1, <3>1, <3>3
  <2>2. CASE greedy /\ kept = {} /\ token' = 0 /\ pc' = "done"
    BY <1>2, <2>2
  <2>3. CASE ~ greedy /\ token' \in kept /\ pc' = "done"
    BY <1>2, <2>3
  <2>4. CASE ~ greedy /\ kept = {} /\ pc' = "raised"
    BY <1>2, <1>3, <2>4
  <2> QED
    BY <2>1, <2>2, <2>3, <2>4 DEF Draw
<1>7. Drawn'
  <2>1. Heaviest(Tokens)' = Heaviest(Tokens)
    BY <1>1 DEF Heaviest, Tokens
  <2> QED
    BY <1>1, <1>6, <2>1 DEF Drawn
<1> QED
  BY <1>1, <1>4, <1>5, <1>7 DEF IInv, TopKExact

LEMMA StepInv == IInv /\ [Next]_samplingVars => IInv'
PROOF
<1> SUFFICES ASSUME IInv, [Next]_samplingVars PROVE IInv'
  OBVIOUS
<1>1. CASE Next
  BY <1>1, TopKInv, TopPInv, DrawInv DEF Next
<1>2. CASE UNCHANGED samplingVars
  <2>1. /\ UNCHANGED <<weight, topK, topP, greedy, pc, kept, token>>
        /\ UNCHANGED <<weight, topK, topP, greedy>>
    BY <1>2 DEF samplingVars
  <2>2. Nucleus'
    <3>1. CASE pc \in {"draw", "done", "raised"}
      BY <2>1, <3>1, SameNucleus DEF IInv
    <3>2. CASE pc \notin {"draw", "done", "raised"}
      BY <2>1, <3>2 DEF Nucleus
    <3> QED
      BY <3>1, <3>2
  <2>3. Candidates' = Candidates /\ Heaviest(Tokens)' = Heaviest(Tokens)
    BY <2>1, SameParameters DEF Tokens
  <2> QED
    BY <2>1, <2>2, <2>3 DEF IInv, Types, TopKExact, Drawn, Tokens
<1> QED
  BY <1>1, <1>2

-----------------------------------------------------------------------------
(* Theorems                                                                *)

\* Each filter leaves what its place in the function promises, for every
\* vocabulary, all weights and all parameters.
THEOREM Invariance == Spec => []IInv
PROOF
  BY InitInv, StepInv, PTL DEF Spec

\* The threshold comparison of the top-k filter keeps exactly the tokens of rank
\* top_k or better, ties with the last one included.
THEOREM TopKIsExact == Spec => []TopKExact
PROOF
<1>1. IInv => TopKExact
  BY DEF IInv
<1> QED
  BY <1>1, Invariance, PTL

\* The top-p filter keeps a smallest set of heaviest candidates whose mass reaches
\* top_p, however equal logits are sorted.
THEOREM NucleusIsExact == Spec => []Nucleus
PROOF
<1>1. IInv => Nucleus
  BY DEF IInv
<1> QED
  BY <1>1, Invariance, PTL

\* For top_p > 0 the token drawn survived both filters, and greedy decoding returns
\* a heaviest token of all; for top_p = 0 greedy decoding returns token 0 whatever
\* the logits, and drawing raises, as it does for no other parameters.
THEOREM DrawnSurvived == Spec => []Drawn
PROOF
<1>1. IInv => Drawn
  BY DEF IInv
<1> QED
  BY <1>1, Invariance, PTL

=============================================================================
