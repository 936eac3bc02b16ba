-------------------------- MODULE CollectionFacts --------------------------
(***************************************************************************)
(* What the proofs need to know about the data of the models: sequences    *)
(* without repetition (block tables, access orders, queues, batches) and   *)
(* sums over finite sets (tokens).  The library's induction theorems take  *)
(* the property as an operator; here it is a set, and an induction is the  *)
(* choice of a least element outside of it.                                *)
(***************************************************************************)
EXTENDS Integers, Sequences, FiniteSets, SequencesExt, SequenceTheorems,
        FiniteSetTheorems, WellFoundedInduction, NaturalsInduction, TLAPS

-----------------------------------------------------------------------------
(* Sequences without repetition                                            *)

\* Removing a member keeps the others, each once and in their order.
LEMMA RemoveFirstProperties ==
  ASSUME NEW S, NEW q \in Seq(S), IsInjective(q), NEW s
  PROVE  /\ RemoveFirst(q, s) \in Seq(S)
         /\ IsInjective(RemoveFirst(q, s))
         /\ Range(RemoveFirst(q, s)) = Range(q) \ {s}
         /\ \A a, b \in DOMAIN RemoveFirst(q, s) : a < b =>
              \E k, m \in DOMAIN q : /\ k < m /\ RemoveFirst(q, s)[a] = q[k]
                                     /\ RemoveFirst(q, s)[b] = q[m]
PROOF
<1>1. CASE s \notin Range(q)
  <2>1. ~ \E i \in 1 .. Len(q) : q[i] = s
    BY <1>1 DEF Range
  <2> QED
    BY <1>1, <2>1 DEF RemoveFirst, RemoveAt, SelectInSeq
<1>2. CASE s \in Range(q)
  <2>1. PICK j \in DOMAIN q : q[j] = s
    BY <1>2 DEF Range
  <2> DEFINE n == Len(q)
             u == SubSeq(q, 1, j - 1)
             v == SubSeq(q, j + 1, n)
             w == u \o v
  <2>2. RemoveFirst(q, s) = w
    <3>1. {i \in 1 .. n : q[i] = s} = {j}
      BY <2>1 DEF IsInjective
    <3>2. Min({j}) = j
      BY <2>1 DEF Min
    <3> QED
      BY <2>1, <3>1, <3>2 DEF RemoveFirst, RemoveAt, SelectInSeq
  <2>3. n \in Nat /\ DOMAIN q = 1 .. n /\ j \in 1 .. n
    OBVIOUS
  <2>4. u \in Seq(S) /\ Len(u) = j - 1 /\ \A i \in 1 .. j - 1 : u[i] = q[i]
    OBVIOUS
  <2>5. v \in Seq(S) /\ Len(v) = n - j /\ \A i \in 1 .. n - j : v[i] = q[i + j]
    OBVIOUS
  <2> HIDE DEF u, v
  <2>6. /\ w \in Seq(S) /\ Len(w) = Len(u) + Len(v)
        /\ \A i \in 1 .. Len(u) + Len(v) :
             w[i] = IF i <= Len(u) THEN u[i] ELSE v[i - Len(u)]
    BY <2>4, <2>5, ConcatProperties
  <2> HIDE DEF n, w
  <2>7. /\ Len(w) = n - 1 /\ DOMAIN w = 1 .. n - 1
        /\ \A i \in 1 .. j - 1 : w[i] = q[i]
    BY <2>3, <2>4, <2>5, <2>6
  <2>8. ASSUME NEW i \in j + 1 .. n PROVE w[i - 1] = q[i]
    <3>1. /\ i - 1 \in 1 .. Len(u) + Len(v) /\ ~ (i - 1 <= Len(u))
          /\ (i - 1) - Len(u) = i - j /\ i - j \in 1 .. n - j /\ (i - j) + j = i
      BY <2>3, <2>4, <2>5
    <3>2. w[i - 1] = v[i - j]
      BY <2>6, <3>1
    <3>3. v[i - j] = q[(i - j) + j]
      BY <2>5, <3>1
    <3> QED
      BY <3>1, <3>2, <3>3
  <2>9. ASSUME NEW i \in 1 .. n - 1
        PROVE  \E k \in 1 .. n : /\ k # j /\ w[i] = q[k]
                                 /\ i < j => k = i
                                 /\ i >= j => k = i + 1
    <3>1. CASE i < j
      BY <2>3, <2>7, <3>1
    <3>2. CASE i >= j
      <4>1. i + 1 \in j + 1 .. n /\ (i + 1) - 1 = i
        BY <2>3, <3>2
      <4> QED
        BY <2>3, <2>8, <3>2, <4>1
    <3> QED
      BY <2>3, <3>1, <3>2
  <2>10. IsInjective(w)
    <3> SUFFICES ASSUME NEW a \in 1 .. n - 1, NEW b \in 1 .. n - 1, w[a] = w[b]
                 PROVE  a = b
      BY <2>7 DEF IsInjective
    <3>1. PICK k \in 1 .. n : /\ k # j /\ w[a] = q[k]
                              /\ a < j => k = a
                              /\ a >= j => k = a + 1
      BY <2>9
    <3>2. PICK m \in 1 .. n : /\ m # j /\ w[b] = q[m]
                              /\ b < j => m = b
                              /\ b >= j => m = b + 1
      BY <2>9
    <3>3. k = m
      BY <2>3, <3>1, <3>2 DEF IsInjective
    <3> QED
      BY <2>3, <3>1, <3>2, <3>3
  <2>11. Range(w) \subseteq Range(q) \ {s}
    BY <2>1, <2>3, <2>7, <2>9 DEF IsInjective, Range
  <2>12. ASSUME NEW i \in 1 .. n, q[i] # s PROVE \E k \in 1 .. n - 1 : w[k] = q[i]
    <3>1. CASE i < j
      BY <2>3, <2>7, <3>1
    <3>2. CASE i > j
      <4>1. i - 1 \in 1 .. n - 1 /\ i \in j + 1 .. n
        BY <2>3, <3>2
      <4> QED
        BY <2>8, <4>1
    <3> QED
      BY <2>1, <2>3, <2>12, <3>1, <3>2
  <2>13. Range(q) \ {s} \subseteq Range(w)
    BY <2>3, <2>7, <2>12 DEF Range
  <2>14. ASSUME NEW a \in 1 .. n - 1, NEW b \in 1 .. n - 1, a < b
         PROVE  \E k, m \in 1 .. n : k < m /\ w[a] = q[k] /\ w[b] = q[m]
    <3>1. PICK k \in 1 .. n : /\ k # j /\ w[a] = q[k]
                              /\ a < j => k = a
                              /\ a >= j => k = a + 1
      BY <2>9
    <3>2. PICK m \in 1 .. n : /\ m # j /\ w[b] = q[m]
                              /\ b < j => m = b
                              /\ b >= j => m = b + 1
      BY <2>9
    <3>3. k < m
      BY <2>3, <2>14, <3>1, <3>2
    <3> QED
      BY <3>1, <3>2, <3>3
  <2>15. \A a, b \in DOMAIN w : a < b =>
           \E k, m \in DOMAIN q : k < m /\ w[a] = q[k] /\ w[b] = q[m]
    <3> SUFFICES ASSUME NEW a \in DOMAIN w, NEW b \in DOMAIN w, a < b
                 PROVE  \E k, m \in DOMAIN q : k < m /\ w[a] = q[k] /\ w[b] = q[m]
      OBVIOUS
    <3>1. a \in 1 .. n - 1 /\ b \in 1 .. n - 1
      BY <2>7
    <3>2. PICK k \in 1 .. n, m \in 1 .. n : k < m /\ w[a] = q[k] /\ w[b] = q[m]
      BY <2>14, <3>1
    <3> QED
      BY <2>3, <3>2
  <2>16. w \in Seq(S) /\ Range(w) = Range(q) \ {s}
    BY <2>6, <2>11, <2>13
  <2> HIDE DEF w
  <2> QED
    BY <2>2, <2>10, <2>15, <2>16
<1> QED
  BY <1>1, <1>2

\* Two sequences without repetition and without a common member, one after the
\* other.
LEMMA JoinProperties ==
  ASSUME NEW S, NEW p \in Seq(S), NEW q \in Seq(S), IsInjective(p), IsInjective(q),
         Range(p) \cap Range(q) = {}
  PROVE  /\ p \o q \in Seq(S) /\ IsInjective(p \o q)
         /\ Len(p \o q) = Len(p) + Len(q) /\ DOMAIN (p \o q) = 1 .. Len(p) + Len(q)
         /\ Range(p \o q) = Range(p) \cup Range(q)
         /\ \A i \in 1 .. Len(p) : (p \o q)[i] = p[i]
         /\ \A j \in 1 .. Len(q) : (p \o q)[Len(p) + j] = q[j]
PROOF
<1> DEFINE w == p \o q
           m == Len(p)
           n == Len(q)
<1>1. m \in Nat /\ n \in Nat /\ DOMAIN p = 1 .. m /\ DOMAIN q = 1 .. n
  OBVIOUS
<1>2. /\ w \in Seq(S) /\ Len(w) = m + n
      /\ \A i \in 1 .. m + n : w[i] = IF i <= m THEN p[i] ELSE q[i - m]
  BY ConcatProperties
<1>3. DOMAIN w = 1 .. m + n
  BY <1>2
<1> HIDE DEF w, m, n
<1>4. \A i \in 1 .. m : i \in 1 .. m + n /\ w[i] = p[i]
  BY <1>1, <1>2
<1>5. ASSUME NEW j \in 1 .. n PROVE m + j \in 1 .. m + n /\ w[m + j] = q[j]
  <2>1. m + j \in 1 .. m + n /\ ~ (m + j <= m) /\ (m + j) - m = j
    BY <1>1
  <2> QED
    BY <1>2, <2>1
<1>6. ASSUME NEW i \in 1 .. m + n
      PROVE  \/ i \in 1 .. m /\ w[i] = p[i]
             \/ \E j \in 1 .. n : i = m + j /\ w[i] = q[j]
  <2>1. CASE i <= m
    BY <1>1, <1>2, <2>1
  <2>2. CASE i > m
    <3>1. i - m \in 1 .. n /\ i = m + (i - m)
      BY <1>1, <2>2
    <3> QED
      BY <1>2, <2>2, <3>1
  <2> QED
    BY <1>1, <2>1, <2>2
<1>7. Range(w) \subseteq Range(p) \cup Range(q)
  <2> SUFFICES ASSUME NEW i \in 1 .. m + n PROVE w[i] \in Range(p) \cup Range(q)
    BY <1>3 DEF Range
  <2> QED
    BY <1>1, <1>6 DEF Range
<1>8. Range(p) \subseteq Range(w) /\ Range(q) \subseteq Range(w)
  BY <1>1, <1>3, <1>4, <1>5 DEF Range
<1>9. IsInjective(w)
  <2> SUFFICES ASSUME NEW a \in 1 .. m + n, NEW b \in 1 .. m + n, w[a] = w[b]
               PROVE  a = b
    BY <1>3 DEF IsInjective
  <2>1. \A i \in 1 .. m, j \in 1 .. n : p[i] # q[j]
    BY <1>1 DEF Range
  <2>2. /\ \A i, j \in 1 .. m : p[i] = p[j] => i = j
        /\ \A i, j \in 1 .. n : q[i] = q[j] => i = j
    BY <1>1 DEF IsInjective
  <2> QED
    BY <1>6, <2>1, <2>2
<1> QED
  BY <1>2, <1>3, <1>4, <1>5, <1>7, <1>8, <1>9 DEF w, m, n

\* What is left of a sequence once its first member is popped.
LEMMA TailProperties ==
  ASSUME NEW S, NEW q \in Seq(S), IsInjective(q), q # <<>>
  PROVE  /\ Head(q) \in S
         /\ Tail(q) \in Seq(S) /\ IsInjective(Tail(q))
         /\ Range(Tail(q)) = Range(q) \ {Head(q)}
PROOF
<1> DEFINE w == Tail(q)
           n == Len(q)
<1>1. n \in Nat \ {0} /\ DOMAIN q = 1 .. n /\ Head(q) = q[1]
  OBVIOUS
<1>2. /\ w \in Seq(S) /\ DOMAIN w = 1 .. n - 1
      /\ \A i \in 1 .. n - 1 : w[i] = q[i + 1]
  OBVIOUS
<1> HIDE DEF w, n
<1>4. IsInjective(w)
  <2> SUFFICES ASSUME NEW a \in 1 .. n - 1, NEW b \in 1 .. n - 1, w[a] = w[b]
               PROVE  a = b
    BY <1>2 DEF IsInjective
  <2>1. /\ a + 1 \in DOMAIN q /\ b + 1 \in DOMAIN q
        /\ q[a + 1] = q[b + 1]
    BY <1>1, <1>2
  <2> QED
    BY <2>1 DEF IsInjective
<1>5. Range(w) \subseteq Range(q) \ {q[1]}
  <2> SUFFICES ASSUME NEW i \in 1 .. n - 1
               PROVE  w[i] \in Range(q) \ {q[1]}
    BY <1>2 DEF Range
  <2>1. i + 1 \in 1 .. n /\ i + 1 # 1 /\ 1 \in 1 .. n /\ w[i] = q[i + 1]
    BY <1>1, <1>2
  <2> QED
    BY <1>1, <2>1 DEF IsInjective, Range
<1>6. Range(q) \ {q[1]} \subseteq Range(w)
  <2> SUFFICES ASSUME NEW i \in 2 .. n PROVE q[i] \in Range(w)
    BY <1>1 DEF Range
  <2>1. i - 1 \in 1 .. n - 1 /\ (i - 1) + 1 = i
    BY <1>1
  <2>2. w[i - 1] = q[(i - 1) + 1]
    BY <1>2, <2>1
  <2> QED
    BY <1>2, <2>1, <2>2 DEF Range
<1> QED
  BY <1>1, <1>2, <1>4, <1>5, <1>6 DEF w

\* What is left of a sequence once a new member is appended.
LEMMA AppendFresh ==
  ASSUME NEW S, NEW q \in Seq(S), IsInjective(q), NEW s \in S \ Range(q)
  PROVE  /\ Append(q, s) \in Seq(S) /\ Len(Append(q, s)) = Len(q) + 1
         /\ IsInjective(Append(q, s))
         /\ Range(Append(q, s)) = Range(q) \cup {s}
         /\ Append(q, s)[Len(q) + 1] = s
         /\ \A i \in 1 .. Len(q) : Append(q, s)[i] = q[i]
PROOF
<1> DEFINE w == Append(q, s)
<1>1. /\ w \in Seq(S) /\ Len(w) = Len(q) + 1 /\ DOMAIN w = 1 .. Len(q) + 1
      /\ w[Len(q) + 1] = s
      /\ \A i \in 1 .. Len(q) : w[i] = q[i]
      /\ DOMAIN q = 1 .. Len(q) /\ Len(q) \in Nat
  OBVIOUS
<1> HIDE DEF w
<1>2. IsInjective(w)
  BY <1>1 DEF IsInjective, Range
<1>3. Range(w) = Range(q) \cup {s}
  BY <1>1 DEF Range
<1> QED
  BY <1>1, <1>2, <1>3 DEF w

\* What is left after two cuts at the front is left after one.
LEMMA SuffixOfSuffix ==
  ASSUME NEW S, NEW s \in Seq(S), NEW g \in 0 .. Len(s), NEW k \in 0 .. Len(s) - g
  PROVE  SubSeq(SubSeq(s, g + 1, Len(s)), k + 1, Len(s) - g) = SubSeq(s, g + k + 1, Len(s))
PROOF
<1> DEFINE u == SubSeq(s, g + 1, Len(s))
           v == SubSeq(u, k + 1, Len(s) - g)
           w == SubSeq(s, g + k + 1, Len(s))
<1>1. Len(s) \in Nat
  OBVIOUS
<1>2. u \in Seq(S) /\ Len(u) = Len(s) - g /\ \A n \in 1 .. Len(u) : u[n] = s[g + n]
  OBVIOUS
<1>3. w \in Seq(S) /\ Len(w) = Len(s) - (g + k) /\ \A n \in 1 .. Len(w) : w[n] = s[g + k + n]
  <2>1. g + k \in 0 .. Len(s)
    OBVIOUS
  <2> QED
    BY <2>1
<1> HIDE DEF u, w
<1>4. v \in Seq(S) /\ Len(v) = Len(u) - k /\ \A n \in 1 .. Len(v) : v[n] = u[k + n]
  <2>1. k \in 0 .. Len(u) /\ Len(u) \in Nat /\ v = SubSeq(u, k + 1, Len(u))
    BY <1>2
  <2> HIDE DEF v
  <2> QED
    BY <1>2, <2>1
<1> HIDE DEF v
<1>5. \A n \in 1 .. Len(v) : v[n] = w[n]
  <2> SUFFICES ASSUME NEW n \in 1 .. Len(v) PROVE v[n] = w[n]
    OBVIOUS
  <2>1. k + n \in 1 .. Len(u) /\ n \in 1 .. Len(w) /\ g + (k + n) = g + k + n
    BY <1>1, <1>2, <1>3, <1>4
  <2> QED
    BY <1>2, <1>3, <1>4, <2>1
<1>6. Len(v) = Len(w)
  BY <1>1, <1>2, <1>3, <1>4
<1>7. v = w
  BY <1>3, <1>4, <1>5, <1>6, SeqEqual
<1> QED
  BY <1>7 DEF v, w, u

\* A sequence cut after its first m members.
LEMMA SplitProperties ==
  ASSUME NEW S, NEW q \in Seq(S), IsInjective(q), NEW m \in 0 .. Len(q)
  PROVE  LET u == SubSeq(q, 1, m)
             v == SubSeq(q, m + 1, Len(q))
         IN  /\ u \in Seq(S) /\ IsInjective(u) /\ Len(u) = m
             /\ v \in Seq(S) /\ IsInjective(v) /\ Len(v) = Len(q) - m
             /\ \A i \in 1 .. m : u[i] = q[i]
             /\ \A i \in 1 .. Len(q) - m : v[i] = q[m + i]
             /\ Range(u) \cap Range(v) = {}
             /\ Range(u) \cup Range(v) = Range(q)
PROOF
<1> DEFINE n == Len(q)
           u == SubSeq(q, 1, m)
           v == SubSeq(q, m + 1, n)
<1>1. n \in Nat /\ DOMAIN q = 1 .. n /\ m \in 0 .. n
  OBVIOUS
<1>2. /\ u \in Seq(S) /\ Len(u) = m /\ DOMAIN u = 1 .. m
      /\ \A i \in 1 .. m : u[i] = q[i]
  OBVIOUS
<1>3. /\ v \in Seq(S) /\ Len(v) = n - m /\ DOMAIN v = 1 .. n - m
      /\ \A i \in 1 .. n - m : v[i] = q[m + i]
  OBVIOUS
<1> HIDE DEF n, u, v
<1>4. IsInjective(u)
  BY <1>1, <1>2 DEF IsInjective
<1>5. \A i \in 1 .. n - m : m + i \in 1 .. n /\ m + i \notin 1 .. m
  BY <1>1
<1>6. IsInjective(v)
  <2> SUFFICES ASSUME NEW a \in 1 .. n - m, NEW b \in 1 .. n - m, v[a] = v[b]
               PROVE  a = b
    BY <1>3 DEF IsInjective
  <2>1. m + a = m + b
    BY <1>1, <1>3, <1>5 DEF IsInjective
  <2> QED
    BY <1>1, <2>1
<1>7. Range(u) \cap Range(v) = {}
  <2> SUFFICES ASSUME NEW a \in 1 .. m, NEW b \in 1 .. n - m, u[a] = v[b]
               PROVE  FALSE
    BY <1>2, <1>3 DEF Range
  <2>1. a \in 1 .. n /\ m + b \in 1 .. n /\ q[a] = q[m + b]
    BY <1>1, <1>2, <1>3, <1>5
  <2> QED
    BY <1>1, <1>5, <2>1 DEF IsInjective
<1>8. Range(u) \cup Range(v) \subseteq Range(q)
  BY <1>1, <1>2, <1>3, <1>5 DEF Range
<1>9. ASSUME NEW i \in 1 .. n PROVE q[i] \in Range(u) \cup Range(v)
  <2>1. CASE i <= m
    BY <1>1, <1>2, <2>1 DEF Range
  <2>2. CASE i > m
    <3>1. i - m \in 1 .. n - m /\ m + (i - m) = i
      BY <1>1, <2>2
    <3> QED
      BY <1>3, <3>1 DEF Range
  <2> QED
    BY <1>1, <2>1, <2>2
<1>10. Range(q) \subseteq Range(u) \cup Range(v)
  BY <1>1, <1>9 DEF Range
<1> QED
  BY <1>2, <1>3, <1>4, <1>6, <1>7, <1>8, <1>10 DEF n, u, v

\* Without repetition the length counts the members.
LEMMA InjectiveLength ==
  ASSUME NEW S, NEW q \in Seq(S), IsInjective(q)
  PROVE  IsFiniteSet(Range(q)) /\ Cardinality(Range(q)) = Len(q)
PROOF
<1>1. Len(q) \in Nat /\ DOMAIN q = 1 .. Len(q)
  OBVIOUS
<1>2. q \in [1 .. Len(q) -> Range(q)]
  BY <1>1 DEF Range
<1>3. q \in Bijection(1 .. Len(q), Range(q))
  BY <1>1, <1>2 DEF Bijection, Injection, Surjection, Range
<1>4. ExistsBijection(1 .. Len(q), Range(q))
  BY <1>3 DEF ExistsBijection
<1> QED
  BY <1>1, <1>4, FS_NatBijection, FS_CountingElements

\* An injection from the first Cardinality(S) numbers into a finite set S lists
\* the whole of S.
LEMMA ListsAll ==
  ASSUME NEW S, IsFiniteSet(S), NEW q \in [1 .. Cardinality(S) -> S], IsInjective(q)
  PROVE  q \in Seq(S) /\ Len(q) = Cardinality(S) /\ Range(q) = S
PROOF
<1>1. Cardinality(S) \in Nat
  BY FS_CardinalityType
<1>2. q \in Seq(S) /\ Len(q) = Cardinality(S)
  BY <1>1
<1>3. Range(q) \in SUBSET S
  BY DEF Range
<1>4. Cardinality(Range(q)) = Cardinality(S)
  BY <1>2, InjectiveLength
<1> QED
  BY <1>2, <1>3, <1>4, FS_Subset

\* Sets without a common member count together.
LEMMA CountApart ==
  ASSUME NEW S, NEW T, IsFiniteSet(S), IsFiniteSet(T), S \cap T = {}
  PROVE  Cardinality(S \cup T) = Cardinality(S) + Cardinality(T)
PROOF
<1>1. Cardinality(S \cup T) = Cardinality(S) + Cardinality(T) - Cardinality(S \cap T)
  BY FS_Union, Zenon
<1>2. Cardinality(S \cap T) = 0 /\ Cardinality(S) \in Nat /\ Cardinality(T) \in Nat
  BY FS_EmptySet, FS_CardinalityType
<1> QED
  BY <1>1, <1>2

\* Removing the first member leaves the tail, removing a stranger leaves all, and
\* removing any member makes the sequence one shorter.
LEMMA RemoveWhere ==
  ASSUME NEW S, NEW q \in Seq(S), IsInjective(q)
  PROVE  /\ \A s : s \notin Range(q) => RemoveFirst(q, s) = q
         /\ \A s : s \in Range(q) => Len(RemoveFirst(q, s)) = Len(q) - 1
         /\ q # <<>> => /\ Head(q) \in Range(q) /\ Len(Tail(q)) = Len(q) - 1
                        /\ RemoveFirst(q, Head(q)) = Tail(q)
                        /\ RemoveFirst(Tail(q), Head(q)) = Tail(q)
PROOF
<1>1. ASSUME NEW p \in Seq(S), NEW s, s \notin Range(p) PROVE RemoveFirst(p, s) = p
  <2>1. ~ \E i \in 1 .. Len(p) : p[i] = s
    BY <1>1 DEF Range
  <2> QED
    BY <2>1 DEF RemoveFirst
<1>2. ASSUME NEW s \in Range(q) PROVE Len(RemoveFirst(q, s)) = Len(q) - 1
  <2>1. /\ Cardinality(Range(RemoveFirst(q, s))) = Len(RemoveFirst(q, s))
        /\ Range(RemoveFirst(q, s)) = Range(q) \ {s}
    BY RemoveFirstProperties, InjectiveLength
  <2>2. Cardinality(Range(q)) = Len(q) /\ IsFiniteSet(Range(q))
    BY InjectiveLength
  <2>3. Cardinality(Range(q) \ {s}) = Cardinality(Range(q)) - 1
    BY <2>2, FS_RemoveElement
  <2> QED
    BY <2>1, <2>2, <2>3
<1>3. ASSUME q # <<>>
      PROVE  /\ Head(q) \in Range(q) /\ Len(Tail(q)) = Len(q) - 1
             /\ RemoveFirst(q, Head(q)) = Tail(q)
             /\ RemoveFirst(Tail(q), Head(q)) = Tail(q)
  <2>1. /\ Len(q) \in Nat \ {0} /\ DOMAIN q = 1 .. Len(q) /\ Head(q) = q[1] /\ 1 \in DOMAIN q
        /\ Len(Tail(q)) = Len(q) - 1
    BY <1>3
  <2>2. {i \in 1 .. Len(q) : q[i] = Head(q)} = {1}
    BY <2>1 DEF IsInjective
  <2>3. Min({1}) = 1
    BY DEF Min
  <2>4. RemoveFirst(q, Head(q)) = SubSeq(q, 1, 0) \o SubSeq(q, 2, Len(q))
    <3> DEFINE s == Head(q)
    <3>1. \E i \in 1 .. Len(q) : q[i] = s
      BY <2>1
    <3>2. {i \in 1 .. Len(q) : q[i] = s} = {1} /\ {1} # {}
      BY <2>2
    <3> HIDE DEF s
    <3>3. RemoveFirst(q, s) = SubSeq(q, 1, 1 - 1) \o SubSeq(q, 1 + 1, Len(q))
      BY <2>3, <3>1, <3>2 DEF RemoveFirst, RemoveAt, SelectInSeq
    <3> QED
      BY <3>3 DEF s
  <2>5. SubSeq(q, 1, 0) = <<>> /\ SubSeq(q, 2, Len(q)) = Tail(q) /\ Tail(q) \in Seq(S)
    BY <1>3, TailIsSubSeq, SubSeqEmpty
  <2>6. RemoveFirst(q, Head(q)) = Tail(q)
    BY <2>4, <2>5
  <2>7. Head(q) \notin Range(Tail(q))
    BY <1>3, TailProperties
  <2>8. RemoveFirst(Tail(q), Head(q)) = Tail(q)
    BY <1>1, <2>5, <2>7
  <2> QED
    BY <2>1, <2>6, <2>8 DEF Range
<1> QED
  BY <1>1, <1>2, <1>3

\* A set that grows has at least as many members, and more if one is new.
LEMMA CountGrows ==
  ASSUME NEW T, IsFiniteSet(T), NEW S \in SUBSET T
  PROVE  /\ Cardinality(S) \in Nat /\ Cardinality(T) \in Nat
         /\ Cardinality(S) <= Cardinality(T)
         /\ T # S => Cardinality(S) + 1 <= Cardinality(T)
PROOF
<1>1. /\ IsFiniteSet(S) /\ Cardinality(S) <= Cardinality(T)
      /\ Cardinality(T) = Cardinality(S) => S = T
  BY FS_Subset
<1>2. Cardinality(S) \in Nat /\ Cardinality(T) \in Nat
  BY <1>1, FS_CardinalityType
<1> QED
  BY <1>1, <1>2

-----------------------------------------------------------------------------
(* Induction                                                               *)

\* A set of numbers with 0 that has the successor of each of its members.
LEMMA SetInduction ==
  ASSUME NEW T \in SUBSET Nat, 0 \in T, \A n \in T : n + 1 \in T
  PROVE  T = Nat
PROOF
<1> SUFFICES ASSUME Nat \ T # {} PROVE FALSE
  OBVIOUS
<1>1. PICK x \in Nat \ T : \A y \in Nat \ T : ~ (<<y, x>> \in OpToRel(<, Nat))
  BY NatLessThanWellFounded, WFMin, Zenon
<1>2. \A y \in Nat \ T : ~ (y < x)
  BY <1>1, Zenon DEF OpToRel
<1>3. x # 0
  OBVIOUS
<1>4. x - 1 \in T
  BY <1>2, <1>3
<1> QED
  BY <1>4

\* A set of numbers that is not empty has a least member.
LEMMA LeastMember ==
  ASSUME NEW T \in SUBSET Nat, T # {}
  PROVE  Min(T) \in T /\ \A n \in T : Min(T) <= n
PROOF
<1>1. PICK x \in T : \A y \in T : ~ (<<y, x>> \in OpToRel(<, Nat))
  BY NatLessThanWellFounded, WFMin, Zenon
<1>2. \A y \in T : ~ (y < x)
  BY <1>1, Zenon DEF OpToRel
<1>3. x \in T /\ \A n \in T : x <= n
  BY <1>2
<1> QED
  BY <1>3 DEF Min

\* A set of parts of S that has each part all of whose own parts it has.
LEMMA SubsetInduction ==
  ASSUME NEW S, IsFiniteSet(S), NEW H \in SUBSET (SUBSET S),
         \A s \in SUBSET S : (\A r \in SUBSET s : r # s => r \in H) => s \in H
  PROVE  H = SUBSET S
PROOF
<1> SUFFICES ASSUME (SUBSET S) \ H # {} PROVE FALSE
  OBVIOUS
<1>1. IsWellFoundedOn(StrictSubsetOrdering(S), SUBSET S)
  <2>1. IsWellFoundedOn(StrictSubsetOrdering(S), FiniteSubsetsOf(S))
    BY FS_StrictSubsetOrderingWellFounded, Zenon
  <2>2. FiniteSubsetsOf(S) = SUBSET S
    BY FS_FiniteSubsetsOfFinite, Zenon
  <2> QED
    BY <2>1, <2>2
<1>2. PICK s \in (SUBSET S) \ H :
        \A r \in (SUBSET S) \ H : ~ (<<r, s>> \in StrictSubsetOrdering(S))
  <2> DEFINE R == StrictSubsetOrdering(S)
             T == (SUBSET S) \ H
             U == SUBSET S
  <2>1. IsWellFoundedOn(R, U) /\ T \subseteq U /\ T # {}
    BY <1>1
  <2> HIDE DEF R, T, U
  <2>2. \E s \in T : \A r \in T : ~ (<<r, s>> \in R)
    BY <2>1, WFMin
  <2> QED
    BY <2>2, Zenon DEF R, T
<1>3. \A r \in (SUBSET S) \ H : ~ (r \subseteq s /\ r # s)
  BY <1>2 DEF StrictSubsetOrdering
<1> QED
  BY <1>3

-----------------------------------------------------------------------------
(* Sums                                                                    *)

\* How MapThenSumSet adds up: g has the sum of f over each part of S.
Chosen(s) == CHOOSE x \in s : TRUE

Adds(f, S, g) ==
  g = [s \in SUBSET S |-> IF s = {} THEN 0 ELSE f[Chosen(s)] + g[s \ {Chosen(s)}]]

SumOver(f, S) == (CHOOSE g : Adds(f, S, g))[S]

\* MapThenSumSet of the community modules, its recursion unfolded.
LEMMA SumDefinition ==
  ASSUME NEW f, NEW S
  PROVE  MapThenSumSet(LAMBDA x : f[x], S) = SumOver(f, S)
PROOF
  BY DEF MapThenSumSet, MapThenFoldSet, SumOver, Adds, Chosen

\* The recursion has a solution: one for all parts with n members gives one for
\* those with n + 1.
LEMMA AddsUpTo ==
  ASSUME NEW f, NEW S, IsFiniteSet(S)
  PROVE  \E g : Adds(f, S, g)
PROOF
<1> DEFINE D(n) == {s \in SUBSET S : Cardinality(s) <= n}
           Body(g, s) == IF s = {} THEN 0 ELSE f[Chosen(s)] + g[s \ {Chosen(s)}]
           T == {n \in Nat : \E g : g = [s \in D(n) |-> Body(g, s)]}
<1>1. \A s \in SUBSET S : IsFiniteSet(s) /\ Cardinality(s) \in Nat
  BY FS_Subset, FS_CardinalityType
<1>2. \A s \in SUBSET S : s # {} => Chosen(s) \in s
  BY DEF Chosen
<1>3. ASSUME NEW n \in Nat, NEW s \in D(n + 1), s # {} PROVE s \ {Chosen(s)} \in D(n)
  <2>1. Cardinality(s \ {Chosen(s)}) = Cardinality(s) - 1
    BY <1>1, <1>2, <1>3, FS_RemoveElement
  <2> QED
    BY <1>1, <1>3, <2>1
<1>4. 0 \in T
  <2> DEFINE g == [s \in D(0) |-> 0]
  <2>1. \A s \in D(0) : s = {}
    <3> SUFFICES ASSUME NEW s \in SUBSET S, Cardinality(s) <= 0 PROVE s = {}
      OBVIOUS
    <3> QED
      BY <1>1, FS_EmptySet
  <2>2. g = [s \in D(0) |-> Body(g, s)]
    BY <2>1
  <2> QED
    BY <2>2
<1>5. ASSUME NEW n \in T PROVE n + 1 \in T
  <2>1. n \in Nat
    OBVIOUS
  <2>2. PICK g : g = [s \in D(n) |-> Body(g, s)]
    OBVIOUS
  <2> DEFINE h == [s \in D(n + 1) |-> Body(g, s)]
  <2>3. \A s \in D(n) : s \in D(n + 1)
    BY <1>1, <2>1
  <2>4. \A s \in D(n) : g[s] = Body(g, s)
    BY <2>2, Zenon
  <2>5. \A s \in D(n) : h[s] = g[s]
    BY <2>3, <2>4
  <2>6. \A s \in D(n + 1) : Body(g, s) = Body(h, s)
    BY <1>3, <2>1, <2>5
  <2>7. h = [s \in D(n + 1) |-> Body(h, s)]
    BY <2>6
  <2>8. n + 1 \in Nat
    BY <2>1
  <2> HIDE DEF h
  <2> QED
    BY <2>7, <2>8, Zenon
<1>6. T = Nat
  <2> HIDE DEF T
  <2>1. T \subseteq Nat
    BY DEF T
  <2> QED
    BY <1>4, <1>5, <2>1, SetInduction
<1>7. PICK g : g = [s \in D(Cardinality(S)) |-> Body(g, s)]
  BY <1>1, <1>6
<1>8. D(Cardinality(S)) = SUBSET S
  <2>1. \A s \in SUBSET S : Cardinality(s) <= Cardinality(S)
    BY FS_Subset
  <2> QED
    BY <2>1
<1> QED
  BY <1>7, <1>8 DEF Adds

\* Whichever member is chosen first, the sum is the same.
LEMMA AddsOne ==
  ASSUME NEW S, IsFiniteSet(S), NEW f, \A x \in S : f[x] \in Int,
         NEW g, Adds(f, S, g)
  PROVE  /\ g[{}] = 0
         /\ \A s \in SUBSET S : /\ g[s] \in Int
                               /\ \A a \in s : g[s] = f[a] + g[s \ {a}]
PROOF
<1> DEFINE Sound(s) == g[s] \in Int /\ \A a \in s : g[s] = f[a] + g[s \ {a}]
           H == {s \in SUBSET S : Sound(s)}
<1>1. /\ g[{}] = 0
      /\ \A s \in SUBSET S : s # {} =>
           /\ Chosen(s) \in s
           /\ g[s] = f[Chosen(s)] + g[s \ {Chosen(s)}]
  BY DEF Adds, Chosen
<1>2. ASSUME NEW s \in SUBSET S, \A r \in SUBSET s : r # s => r \in H
      PROVE  Sound(s)
  <2>1. CASE s = {}
    BY <1>1, <2>1
  <2>2. CASE s # {}
    <3> DEFINE x == Chosen(s)
    <3>1. x \in s /\ g[s] = f[x] + g[s \ {x}]
      BY <1>1, <2>2
    <3> HIDE DEF x
    <3>2. \A r \in SUBSET s : r # s => Sound(r)
      BY <1>2
    <3>3. \A a \in s : Sound(s \ {a}) /\ f[a] \in Int
      BY <3>2
    <3>4. g[s] \in Int
      BY <3>1, <3>3
    <3>5. ASSUME NEW a \in s, a # x PROVE g[s] = f[a] + g[s \ {a}]
      <4> DEFINE r == (s \ {a}) \ {x}
      <4>1. r = (s \ {x}) \ {a} /\ r \in SUBSET s /\ r # s
        BY <3>1
      <4>2. g[s \ {a}] = f[x] + g[r]
        BY <3>1, <3>3, <3>5
      <4>3. g[s \ {x}] = f[a] + g[r]
        BY <3>1, <3>3, <3>5, <4>1
      <4>4. g[r] \in Int /\ f[a] \in Int /\ f[x] \in Int
        BY <3>1, <3>2, <3>3, <4>1
      <4> HIDE DEF r
      <4> QED
        BY <3>1, <4>2, <4>3, <4>4
    <3>6. \A a \in s : g[s] = f[a] + g[s \ {a}]
      BY <3>1, <3>5
    <3> QED
      BY <3>4, <3>6
  <2> QED
    BY <2>1, <2>2
<1>3. H = SUBSET S
  <2> HIDE DEF Sound
  <2>1. \A s \in SUBSET S : (\A r \in SUBSET s : r # s => r \in H) => s \in H
    BY <1>2
  <2>2. H \in SUBSET (SUBSET S)
    OBVIOUS
  <2> HIDE DEF H
  <2> QED
    BY <2>1, <2>2, SubsetInduction
<1>4. \A s \in SUBSET S : Sound(s)
  BY <1>3
<1> QED
  BY <1>1, <1>4

\* Two functions that agree on S, added up over T and over a part S of it.
LEMMA AddsSame ==
  ASSUME NEW T, IsFiniteSet(T), NEW S \in SUBSET T,
         NEW f, NEW h, \A x \in S : f[x] = h[x],
         NEW g, Adds(f, S, g), NEW k, Adds(h, T, k)
  PROVE  g[S] = k[S]
PROOF
<1> DEFINE H == {s \in SUBSET S : g[s] = k[s]}
<1>1. ASSUME NEW s \in SUBSET S, s # {}
      PROVE  /\ Chosen(s) \in s
             /\ g[s] = f[Chosen(s)] + g[s \ {Chosen(s)}]
             /\ k[s] = f[Chosen(s)] + k[s \ {Chosen(s)}]
  <2>1. Chosen(s) \in s
    BY <1>1 DEF Chosen
  <2>2. g[s] = f[Chosen(s)] + g[s \ {Chosen(s)}]
    BY <1>1 DEF Adds
  <2>3. k[s] = h[Chosen(s)] + k[s \ {Chosen(s)}]
    BY <1>1 DEF Adds
  <2> QED
    BY <2>1, <2>2, <2>3
<1>2. ASSUME NEW s \in SUBSET S, \A r \in SUBSET s : r # s => r \in H
      PROVE  s \in H
  <2>1. CASE s = {}
    <3>1. g[{}] = 0 /\ k[{}] = 0
      BY DEF Adds
    <3> QED
      BY <2>1, <3>1
  <2>2. CASE s # {}
    <3>1. g[s \ {Chosen(s)}] = k[s \ {Chosen(s)}]
      BY <1>1, <1>2, <2>2
    <3> QED
      BY <1>1, <2>2, <3>1
  <2> QED
    BY <2>1, <2>2
<1>3. H = SUBSET S
  <2>1. IsFiniteSet(S) /\ H \in SUBSET (SUBSET S)
    BY FS_Subset
  <2> HIDE DEF H
  <2> QED
    BY <1>2, <2>1, SubsetInduction
<1> QED
  BY <1>3

\* The sum over no member, over one member more, and over the same values.
LEMMA SumProperties ==
  ASSUME NEW S, IsFiniteSet(S), NEW f, \A x \in S : f[x] \in Nat
  PROVE  /\ SumOver(f, {}) = 0
         /\ SumOver(f, S) \in Nat
         /\ \A a \in S : SumOver(f, S) = f[a] + SumOver(f, S \ {a})
PROOF
<1>1. PICK g : Adds(f, S, g)
  BY AddsUpTo
<1>2. /\ g[{}] = 0
      /\ \A s \in SUBSET S : /\ g[s] \in Int
                            /\ \A a \in s : g[s] = f[a] + g[s \ {a}]
  BY <1>1, AddsOne
<1>3. ASSUME NEW s \in SUBSET S PROVE SumOver(f, s) = g[s]
  <2>1. IsFiniteSet(s)
    BY FS_Subset
  <2>2. \E h : Adds(f, s, h)
    BY <2>1, AddsUpTo
  <2> DEFINE h == CHOOSE h : Adds(f, s, h)
  <2>3. Adds(f, s, h)
    BY <2>2
  <2> HIDE DEF h
  <2>4. h[s] = g[s]
    BY <1>1, <2>3, AddsSame
  <2> QED
    BY <2>4 DEF h, SumOver
<1> DEFINE H == {s \in SUBSET S : g[s] \in Nat}
<1>4. ASSUME NEW s \in SUBSET S, \A r \in SUBSET s : r # s => r \in H
      PROVE  s \in H
  <2>1. CASE s = {}
    BY <1>2, <2>1
  <2>2. CASE s # {}
    <3>1. PICK a : a \in s
      BY <2>2
    <3>2. s \ {a} \in H
      BY <1>4, <3>1
    <3>3. g[s] = f[a] + g[s \ {a}] /\ f[a] \in Nat
      BY <1>2, <3>1
    <3> QED
      BY <3>2, <3>3
  <2> QED
    BY <2>1, <2>2
<1>5. H = SUBSET S
  <2>1. H \in SUBSET (SUBSET S)
    OBVIOUS
  <2> HIDE DEF H
  <2> QED
    BY <1>4, <2>1, SubsetInduction
<1>6. SumOver(f, S) \in Nat
  BY <1>3, <1>5
<1>7. SumOver(f, {}) = 0
  BY <1>2, <1>3
<1>8. ASSUME NEW a \in S PROVE SumOver(f, S) = f[a] + SumOver(f, S \ {a})
  BY <1>2, <1>3
<1> QED
  BY <1>6, <1>7, <1>8

\* The sum only depends on the values in S.
LEMMA SumSame ==
  ASSUME NEW S, IsFiniteSet(S), NEW f, NEW h, \A x \in S : f[x] = h[x]
  PROVE  SumOver(f, S) = SumOver(h, S)
PROOF
<1> DEFINE g == CHOOSE g : Adds(f, S, g)
           k == CHOOSE k : Adds(h, S, k)
<1>1. Adds(f, S, g)
  BY AddsUpTo
<1>2. Adds(h, S, k)
  BY AddsUpTo
<1> HIDE DEF g, k
<1>3. g[S] = k[S]
  BY <1>1, <1>2, AddsSame
<1> QED
  BY <1>3 DEF g, k, SumOver

\* Nothing adds up to nothing.
LEMMA SumOfZeros ==
  ASSUME NEW S, IsFiniteSet(S), NEW f, \A x \in S : f[x] = 0
  PROVE  SumOver(f, S) = 0
PROOF
<1> DEFINE H == {s \in SUBSET S : SumOver(f, s) = 0}
<1>1. ASSUME NEW s \in SUBSET S, \A r \in SUBSET s : r # s => r \in H
      PROVE  s \in H
  <2>1. CASE s = {}
    BY <2>1, FS_EmptySet, SumProperties
  <2>2. CASE s # {}
    <3>1. PICK a : a \in s
      BY <2>2
    <3>2. SumOver(f, s \ {a}) = 0
      BY <1>1, <3>1
    <3>3. IsFiniteSet(s) /\ f[a] = 0 /\ \A x \in s : f[x] \in Nat
      BY <3>1, FS_Subset
    <3>4. SumOver(f, s) = f[a] + SumOver(f, s \ {a})
      BY <3>1, <3>3, SumProperties
    <3> QED
      BY <3>2, <3>3, <3>4
  <2> QED
    BY <2>1, <2>2
<1>2. H = SUBSET S
  <2>1. H \in SUBSET (SUBSET S)
    OBVIOUS
  <2> HIDE DEF H
  <2> QED
    BY <1>1, <2>1, SubsetInduction
<1> QED
  BY <1>2

\* Adding one to every value in A adds the size of A to the sum.
LEMMA SumOfMore ==
  ASSUME NEW S, IsFiniteSet(S), NEW f, \A x \in S : f[x] \in Nat, NEW A \in SUBSET S,
         NEW h, \A x \in S : h[x] = f[x] + (IF x \in A THEN 1 ELSE 0)
  PROVE  SumOver(h, S) = SumOver(f, S) + Cardinality(A)
PROOF
<1> DEFINE H == {s \in SUBSET S : SumOver(h, s) = SumOver(f, s) + Cardinality(A \cap s)}
<1>1. \A x \in S : h[x] \in Nat
  OBVIOUS
<1>2. \A s \in SUBSET S : IsFiniteSet(s) /\ IsFiniteSet(A \cap s)
  BY FS_Subset
<1>3. \A s \in SUBSET S : SumOver(f, s) \in Nat /\ SumOver(h, s) \in Nat
  BY <1>1, <1>2, SumProperties
<1>4. ASSUME NEW s \in SUBSET S, \A r \in SUBSET s : r # s => r \in H
      PROVE  s \in H
  <2>1. CASE s = {}
    <3>1. SumOver(h, {}) = 0 /\ SumOver(f, {}) = 0 /\ Cardinality(A \cap {}) = 0
      BY <1>1, SumProperties, FS_EmptySet
    <3> QED
      BY <2>1, <3>1
  <2>2. CASE s # {}
    <3>1. PICK a : a \in s
      BY <2>2
    <3> DEFINE r == s \ {a}
    <3>2. SumOver(h, r) = SumOver(f, r) + Cardinality(A \cap r) /\ r \in SUBSET S
      BY <1>4, <3>1
    <3>3. SumOver(h, s) = h[a] + SumOver(h, r) /\ SumOver(f, s) = f[a] + SumOver(f, r)
      BY <1>1, <1>2, <3>1, SumProperties
    <3>4. Cardinality(A \cap s) = Cardinality(A \cap r) + (IF a \in A THEN 1 ELSE 0)
      <4>1. CASE a \in A
        <5>1. A \cap s = (A \cap r) \cup {a} /\ a \notin A \cap r /\ IsFiniteSet(A \cap r)
          BY <1>2, <3>1, <3>2, <4>1
        <5> QED
          BY <4>1, <5>1, FS_AddElement
      <4>2. CASE a \notin A
        <5>1. A \cap s = A \cap r
          BY <4>2
        <5> HIDE DEF r
        <5>2. Cardinality(A \cap r) \in Nat
          BY <1>2, <3>2, FS_CardinalityType
        <5>3. Cardinality(A \cap r) + 0 = Cardinality(A \cap r)
          BY <5>2
        <5> QED
          BY <4>2, <5>1, <5>3
      <4> QED
        BY <4>1, <4>2
    <3>5. /\ f[a] \in Nat /\ h[a] = f[a] + (IF a \in A THEN 1 ELSE 0)
          /\ SumOver(f, r) \in Nat /\ Cardinality(A \cap r) \in Nat
      BY <1>2, <1>3, <3>1, <3>2, FS_CardinalityType
    <3> HIDE DEF r
    <3> QED
      BY <3>2, <3>3, <3>4, <3>5
  <2> QED
    BY <2>1, <2>2
<1>5. H = SUBSET S
  <2>1. H \in SUBSET (SUBSET S)
    OBVIOUS
  <2> HIDE DEF H
  <2> QED
    BY <1>4, <2>1, SubsetInduction
<1>6. A \cap S = A
  OBVIOUS
<1> QED
  BY <1>5, <1>6

-----------------------------------------------------------------------------
(* Sorting                                                                 *)

\* In a finite set that is not empty some member has the greatest value.
LEMMA GreatestValue ==
  ASSUME NEW S, IsFiniteSet(S), S # {}, NEW f, \A x \in S : f[x] \in Nat
  PROVE  \E x \in S : \A y \in S : f[y] <= f[x]
PROOF
<1> DEFINE G(s) == \E x \in s : \A y \in s : f[y] <= f[x]
           H == {s \in SUBSET S : s = {} \/ G(s)}
<1>1. ASSUME NEW s \in SUBSET S, \A r \in SUBSET s : r # s => r \in H
      PROVE  s \in H
  <2>1. SUFFICES ASSUME s # {} PROVE G(s)
    OBVIOUS
  <2>2. PICK t \in s : TRUE
    BY <2>1
  <2>3. s \ {t} \in H
    BY <1>1, <2>2
  <2>4. CASE s \ {t} = {}
    <3>1. \A y \in s : y = t
      BY <2>4
    <3> QED
      BY <2>2, <3>1
  <2>5. CASE G(s \ {t})
    <3>1. PICK x \in s \ {t} : \A y \in s \ {t} : f[y] <= f[x]
      BY <2>5
    <3>2. f[x] <= f[t] \/ f[t] <= f[x]
      BY <2>2, <3>1
    <3>3. CASE f[x] <= f[t]
      <4>1. \A y \in s : f[y] <= f[t]
        BY <2>2, <3>1, <3>3
      <4> QED
        BY <2>2, <4>1
    <3>4. CASE f[t] <= f[x]
      <4>1. \A y \in s : f[y] <= f[x]
        BY <2>2, <3>1, <3>4
      <4> QED
        BY <3>1, <4>1
    <3> QED
      BY <3>2, <3>3, <3>4
  <2> QED
    BY <2>3, <2>4, <2>5
<1>2. H = SUBSET S
  <2>1. H \in SUBSET (SUBSET S)
    OBVIOUS
  <2> HIDE DEF H
  <2> QED
    BY <1>1, <2>1, SubsetInduction
<1>3. S \in H
  BY <1>2
<1> QED
  BY <1>3

\* A finite set can be listed in the order of its members' values.
LEMMA SortingExists ==
  ASSUME NEW S, IsFiniteSet(S), NEW f, \A x \in S : f[x] \in Nat
  PROVE  \E q \in SetToSeqs(S) : \A i \in 2 .. Len(q) : f[q[i - 1]] <= f[q[i]]
PROOF
<1> DEFINE Rising(q) == \A i \in 2 .. Len(q) : f[q[i - 1]] <= f[q[i]]
           H == {s \in SUBSET S : \E q \in SetToSeqs(s) : Rising(q)}
<1>1. ASSUME NEW s \in SUBSET S, \A r \in SUBSET s : r # s => r \in H
      PROVE  s \in H
  <2>1. CASE s = {}
    <3>1. Cardinality(s) = 0
      BY <2>1, FS_EmptySet
    <3>2. <<>> \in [1 .. 0 -> s] /\ Len(<<>>) = 0
      OBVIOUS
    <3>3. <<>> \in SetToSeqs(s)
      BY <3>1, <3>2 DEF SetToSeqs
    <3>4. Rising(<<>>)
      BY <3>2
    <3> QED
      BY <3>3, <3>4
  <2>2. CASE s # {}
    \* the last of the list: a member whose value no other exceeds
    <3>1. PICK t \in s : \A u \in s : f[u] <= f[t]
      BY <2>2, GreatestValue, FS_Subset
    <3> DEFINE r == s \ {t}
    <3>2. r \in SUBSET s /\ r # s /\ r \in SUBSET S /\ t \in S
      BY <3>1
    <3>3. PICK q \in SetToSeqs(r) : Rising(q)
      BY <1>1, <3>2
    <3>4. q \in Seq(S) /\ IsInjective(q) /\ Range(q) = r
      <4>1. IsFiniteSet(r)
        BY <3>2, FS_Subset
      <4>2. q \in [1 .. Cardinality(r) -> r] /\ IsInjective(q)
        BY <4>1, FS_CardinalityType DEF SetToSeqs, IsInjective
      <4>3. q \in Seq(r) /\ Range(q) = r
        BY <4>1, <4>2, ListsAll
      <4>4. q \in Seq(S)
        BY <3>2, <4>3
      <4> QED
        BY <4>2, <4>3, <4>4
    <3> DEFINE w == Append(q, t)
    <3>5. /\ w \in Seq(S) /\ Len(w) = Len(q) + 1
          /\ IsInjective(w) /\ Range(w) = r \cup {t}
          /\ w[Len(q) + 1] = t
          /\ \A i \in 1 .. Len(q) : w[i] = q[i]
      <4>1. t \in S \ Range(q)
        BY <3>2, <3>4
      <4> QED
        BY <3>4, <4>1, AppendFresh
    <3>6. r \cup {t} = s
      BY <3>1
    <3> HIDE DEF w
    <3>7. w \in SetToSeqs(s)
      <4>1. w \in Seq(S) /\ IsInjective(w) /\ Range(w) = s
        BY <3>5, <3>6
      <4>2. Cardinality(s) = Len(w)
        BY <4>1, InjectiveLength
      <4>3. w \in [1 .. Cardinality(s) -> s]
        BY <4>1, <4>2 DEF Range
      <4> QED
        BY <4>1, <4>2, <4>3 DEF SetToSeqs, IsInjective
    <3>8. ASSUME NEW i \in 2 .. Len(w) PROVE f[w[i - 1]] <= f[w[i]]
      <4>1. Len(q) \in Nat /\ Len(w) = Len(q) + 1 /\ i \in Int /\ 2 <= i /\ i <= Len(q) + 1
        BY <3>4, <3>5, <3>8
      <4>2. i - 1 \in 1 .. Len(q) /\ w[i - 1] = q[i - 1]
        BY <3>5, <4>1
      <4>3. CASE i <= Len(q)
        <5>1. i \in 2 .. Len(q) /\ i \in 1 .. Len(q)
          BY <4>1, <4>3
        <5>2. w[i] = q[i]
          BY <3>5, <5>1
        <5> QED
          BY <3>3, <4>2, <5>1, <5>2
      <4>4. CASE i = Len(q) + 1
        <5>1. w[i] = t
          BY <3>5, <4>4
        <5>2. q[i - 1] \in s
          BY <3>4, <4>2 DEF Range
        <5> QED
          BY <3>1, <4>2, <5>1, <5>2
      <4> QED
        BY <4>1, <4>3, <4>4
    <3> QED
      BY <3>7, <3>8
  <2> QED
    BY <2>1, <2>2
<1>2. H = SUBSET S
  <2>1. H \in SUBSET (SUBSET S)
    OBVIOUS
  <2> HIDE DEF H
  <2> QED
    BY <1>1, <2>1, SubsetInduction
<1>3. S \in H
  BY <1>2
<1> QED
  BY <1>3

\* Values that never fall from one position to the next never fall at all.
LEMMA RisingFar ==
  ASSUME NEW n \in Nat, NEW g, \A i \in 1 .. n : g[i] \in Int,
         \A i \in 2 .. n : g[i - 1] <= g[i]
  PROVE  \A i, j \in 1 .. n : i <= j => g[i] <= g[j]
PROOF
<1> DEFINE D == {d \in Nat : \A i \in 1 .. n : i + d <= n => g[i] <= g[i + d]}
<1>1. 0 \in D
  OBVIOUS
<1>2. ASSUME NEW d \in D PROVE d + 1 \in D
  <2> SUFFICES ASSUME NEW i \in 1 .. n, i + (d + 1) <= n
               PROVE  g[i] <= g[i + (d + 1)]
    OBVIOUS
  <2>1. /\ i + d \in 1 .. n /\ i + (d + 1) \in 2 .. n
        /\ (i + (d + 1)) - 1 = i + d /\ i + (d + 1) \in 1 .. n
    OBVIOUS
  <2>2. g[i] <= g[i + d]
    BY <2>1
  <2>3. g[i + d] <= g[i + (d + 1)]
    BY <2>1
  <2> QED
    BY <2>1, <2>2, <2>3
<1>3. D = Nat
  <2>1. D \in SUBSET Nat
    OBVIOUS
  <2> HIDE DEF D
  <2> QED
    BY <1>1, <1>2, <2>1, SetInduction
<1>4. ASSUME NEW i \in 1 .. n, NEW j \in 1 .. n, i <= j PROVE g[i] <= g[j]
  <2>1. j - i \in Nat /\ i + (j - i) = j
    BY <1>4
  <2>2. j - i \in D
    BY <1>3, <2>1
  <2> QED
    BY <2>1, <2>2
<1> QED
  BY <1>4

=============================================================================
