--------------------------- MODULE Metrics_proofs ---------------------------
(***************************************************************************)
(* The metrics collector is exact for every number of threads, every window*)
(* and every interleaving.  CountersExact says nothing while the lock is   *)
(* held; inductive is what the holder of the lock has still to add.        *)
(* SnapshotOrdered needs that no counter ever falls below what a thread    *)
(* has copied or read.                                                     *)
(***************************************************************************)
EXTENDS Metrics, CollectionFacts

Rec    == [stamp : Nat, tokens : Nat]
Places == {"idle", "stamped", "load", "store", "prune", "release", "read"}

Typed ==
  /\ now \in Nat /\ lock \in Threads \cup {NoThread}
  /\ records \in Seq(Rec) /\ entered \in Seq(Rec)
  /\ counter \in [Counters -> Nat]
  /\ pc \in [Threads -> Places]
  /\ record \in [Threads -> Rec]
  /\ todo \in [Threads -> Seq(Counters)]
  /\ reg \in [Threads -> Nat]
  /\ samples \in [Threads -> Seq(Rec)] /\ report \in [Threads -> Seq(Nat)]
  /\ calls \in Nat /\ failures \in Nat

\* Only the owner of the lock is where the lock is needed.
Exclusive ==
  \A t \in Threads : pc[t] \in {"load", "store", "prune", "release"} <=> lock = t

\* What a thread has left to do where it is.
ToDo ==
  \A t \in Threads :
    /\ pc[t] \in {"load", "store"} =>
         todo[t] \in {<<"requests", "tokens">>, <<"tokens">>, <<"errors">>}
    /\ pc[t] = "store" => reg[t] = counter[Head(todo[t])]
    /\ pc[t] = "read" => /\ Len(report[t]) < Len(Fields)
                         /\ todo[t] = SubSeq(Fields, Len(report[t]) + 1, Len(Fields))

\* What the owner of the lock has still to add to counter c.
Due(c) ==
  IF \E t \in Threads : lock = t /\ pc[t] \in {"load", "store"} /\ c \in Range(todo[t])
  THEN IF c = "tokens" THEN record[lock].tokens ELSE 1
  ELSE 0

\* What is counted and what is due are what was recorded.
Counted ==
  /\ counter["requests"] + Due("requests") = Len(entered)
  /\ counter["tokens"] + Due("tokens") = TokensOf(entered)
  /\ counter["errors"] + Due("errors") = failures

\* The window is a suffix of all records, what precedes it is old.
Suffix ==
  \E gone \in 0 .. Len(entered) :
    /\ records = SubSeq(entered, gone + 1, Len(entered))
    /\ \A n \in 1 .. gone : entered[n].stamp + Window < now

\* The counters are past what any thread has copied and read.
Behind ==
  \A t \in Threads :
    /\ Len(samples[t]) <= counter["requests"]
    /\ TokensOf(samples[t]) <= counter["tokens"]
    /\ Len(report[t]) >= 1 => report[t][1] <= counter["requests"]

IInv == Typed /\ Exclusive /\ ToDo /\ Counted /\ Suffix /\ Behind /\ SnapshotOrdered

-----------------------------------------------------------------------------
(* Tokens of a sequence of records                                         *)

TokensAt(rs) == [n \in DOMAIN rs |-> rs[n].tokens]

\* TokensOf adds the tokens up, in whatever order.
LEMMA TokensSum ==
  ASSUME NEW rs \in Seq(Rec)
  PROVE  TokensOf(rs) = SumOver(TokensAt(rs), DOMAIN rs)
PROOF
<1> DEFINE D == DOMAIN rs
           Body(g, s) == IF s = {} THEN 0 ELSE rs[Chosen(s)].tokens + g[s \ {Chosen(s)}]
           k == CHOOSE g : g = [s \in SUBSET D |-> Body(g, s)]
           h == CHOOSE g : Adds(TokensAt(rs), D, g)
<1>1. TokensOf(rs) = k[D]
  BY DEF TokensOf, MapThenSumSet, MapThenFoldSet, Chosen
<1>2. IsFiniteSet(D)
  BY FS_Interval
<1>3. ASSUME NEW g
      PROVE  Adds(TokensAt(rs), D, g) <=> g = [s \in SUBSET D |-> Body(g, s)]
  <2>1. \A s \in SUBSET D : s # {} => TokensAt(rs)[Chosen(s)] = rs[Chosen(s)].tokens
    BY DEF TokensAt, Chosen
  <2>2. [s \in SUBSET D |-> Body(g, s)]
          = [s \in SUBSET D |-> IF s = {} THEN 0
                                 ELSE TokensAt(rs)[Chosen(s)] + g[s \ {Chosen(s)}]]
    BY <2>1
  <2> QED
    BY <2>2 DEF Adds
<1>4. Adds(TokensAt(rs), D, h)
  BY <1>2, AddsUpTo
<1> HIDE DEF h
<1>5. k = [s \in SUBSET D |-> Body(k, s)]
  BY <1>3, <1>4
<1> HIDE DEF k
<1>6. Adds(TokensAt(rs), D, k)
  BY <1>3, <1>5
<1> HIDE DEF D
<1>7. k[D] = h[D]
  BY <1>2, <1>4, <1>6, AddsSame
<1> QED
  BY <1>1, <1>7 DEF h, SumOver, D

\* No record, one record more.
LEMMA TokensProperties ==
  /\ TokensOf(<<>>) = 0
  /\ \A rs \in Seq(Rec) :
       /\ TokensOf(rs) \in Nat
       /\ \A r \in Rec : TokensOf(Append(rs, r)) = TokensOf(rs) + r.tokens
PROOF
<1>1. ASSUME NEW rs \in Seq(Rec)
      PROVE  /\ IsFiniteSet(DOMAIN rs)
             /\ \A n \in DOMAIN rs : TokensAt(rs)[n] \in Nat
  <2>1. DOMAIN rs = 1 .. Len(rs) /\ Len(rs) \in Nat
    OBVIOUS
  <2>2. IsFiniteSet(DOMAIN rs)
    BY <2>1, FS_Interval
  <2>3. \A r \in Rec : r.tokens \in Nat
    BY DEF Rec
  <2>4. \A n \in DOMAIN rs : rs[n] \in Rec
    BY <2>1
  <2> QED
    BY <2>2, <2>3, <2>4 DEF TokensAt
<1>2. ASSUME NEW rs \in Seq(Rec) PROVE TokensOf(rs) \in Nat
  BY <1>1, TokensSum, SumProperties
<1>3. TokensOf(<<>>) = 0
  <2>1. <<>> \in Seq(Rec) /\ DOMAIN <<>> = {}
    OBVIOUS
  <2>2. TokensOf(<<>>) = SumOver(TokensAt(<<>>), {})
    BY <2>1, TokensSum
  <2>3. SumOver(TokensAt(<<>>), {}) = 0
    BY FS_EmptySet, SumProperties
  <2> QED
    BY <2>2, <2>3
<1>4. ASSUME NEW rs \in Seq(Rec), NEW r \in Rec
      PROVE  TokensOf(Append(rs, r)) = TokensOf(rs) + r.tokens
  <2> DEFINE w == Append(rs, r)
             m == Len(rs)
  <2>1. /\ w \in Seq(Rec) /\ m \in Nat /\ DOMAIN rs = 1 .. m /\ DOMAIN w = 1 .. m + 1
        /\ w[m + 1] = r /\ \A n \in 1 .. m : w[n] = rs[n]
    OBVIOUS
  <2> HIDE DEF w, m
  <2>2. m + 1 \in DOMAIN w /\ DOMAIN w \ {m + 1} = DOMAIN rs
    BY <2>1
  <2>3. SumOver(TokensAt(w), DOMAIN w)
          = TokensAt(w)[m + 1] + SumOver(TokensAt(w), DOMAIN rs)
    <3>1. \A n \in DOMAIN w : SumOver(TokensAt(w), DOMAIN w)
                                = TokensAt(w)[n] + SumOver(TokensAt(w), DOMAIN w \ {n})
      BY <1>1, <2>1, SumProperties
    <3> QED
      BY <2>2, <3>1
  <2>4. SumOver(TokensAt(w), DOMAIN rs) = SumOver(TokensAt(rs), DOMAIN rs)
    <3>1. \A n \in DOMAIN rs : TokensAt(w)[n] = TokensAt(rs)[n]
      BY <2>1 DEF TokensAt
    <3> QED
      BY <1>1, <3>1, SumSame
  <2>5. TokensAt(w)[m + 1] = r.tokens
    BY <2>1, <2>2 DEF TokensAt
  <2>6. r.tokens \in Nat /\ TokensOf(rs) \in Nat
    BY <1>2 DEF Rec
  <2>7. TokensOf(w) = r.tokens + TokensOf(rs)
    BY <2>1, <2>3, <2>4, <2>5, TokensSum
  <2> QED
    BY <2>6, <2>7 DEF w
<1> QED
  BY <1>2, <1>3, <1>4

\* A suffix has no more tokens than the whole.
LEMMA SuffixTokens ==
  ASSUME NEW rs \in Seq(Rec), NEW k \in 0 .. Len(rs)
  PROVE  /\ SubSeq(rs, k + 1, Len(rs)) \in Seq(Rec)
         /\ Len(SubSeq(rs, k + 1, Len(rs))) = Len(rs) - k
         /\ TokensOf(SubSeq(rs, k + 1, Len(rs))) <= TokensOf(rs)
PROOF
<1> DEFINE Cut(m, n) == SubSeq(rs, m + 1, n)
           N == {n \in Nat : k <= n /\ n <= Len(rs) =>
                                TokensOf(Cut(k, n)) <= TokensOf(Cut(0, n))}
<1>1. \A m, n \in 0 .. Len(rs) : m <= n => /\ Cut(m, n) \in Seq(Rec)
                                          /\ Len(Cut(m, n)) = n - m
                                          /\ \A i \in 1 .. n - m : Cut(m, n)[i] = rs[m + i]
  OBVIOUS
<1>2. \A m, n \in 0 .. Len(rs) : m <= n /\ n < Len(rs) =>
        Cut(m, n + 1) = Append(Cut(m, n), rs[n + 1]) /\ rs[n + 1] \in Rec
  OBVIOUS
<1>3. Cut(k, k) = <<>> /\ Cut(0, 0) = <<>> /\ Cut(0, Len(rs)) = rs
  OBVIOUS
<1>4. \A r \in Rec : r.tokens \in Nat
  BY DEF Rec
<1> HIDE DEF Cut
<1>5. 0 \in N
  <2>1. k <= 0 => k = 0
    OBVIOUS
  <2> QED
    BY <1>3, <2>1, TokensProperties
<1>6. ASSUME NEW n \in N PROVE n + 1 \in N
  <2>1. n \in Nat
    OBVIOUS
  <2> SUFFICES ASSUME k <= n + 1, n + 1 <= Len(rs)
               PROVE  TokensOf(Cut(k, n + 1)) <= TokensOf(Cut(0, n + 1))
    BY <2>1
  <2>2. n \in 0 .. Len(rs) /\ 0 \in 0 .. Len(rs) /\ 0 <= n /\ n < Len(rs)
        /\ k \in 0 .. Len(rs) /\ n + 1 \in 0 .. Len(rs)
    BY <2>1
  <2>3. CASE k <= n
    <3>1. TokensOf(Cut(k, n)) <= TokensOf(Cut(0, n))
      BY <2>2, <2>3
    <3>2. /\ TokensOf(Cut(k, n + 1)) = TokensOf(Cut(k, n)) + rs[n + 1].tokens
          /\ TokensOf(Cut(0, n + 1)) = TokensOf(Cut(0, n)) + rs[n + 1].tokens
      <4>1. ASSUME NEW m \in 0 .. Len(rs), m <= n
            PROVE  TokensOf(Cut(m, n + 1)) = TokensOf(Cut(m, n)) + rs[n + 1].tokens
        <5>1. /\ Cut(m, n + 1) = Append(Cut(m, n), rs[n + 1])
              /\ Cut(m, n) \in Seq(Rec) /\ rs[n + 1] \in Rec
          BY <1>1, <1>2, <2>2, <4>1
        <5> QED
          BY <5>1, TokensProperties
      <4> QED
        BY <2>2, <2>3, <4>1
    <3>3. /\ TokensOf(Cut(k, n)) \in Nat /\ TokensOf(Cut(0, n)) \in Nat
          /\ rs[n + 1].tokens \in Nat
      BY <1>1, <1>2, <1>4, <2>2, <2>3, TokensProperties
    <3> QED
      BY <3>1, <3>2, <3>3
  <2>4. CASE k = n + 1
    <3>1. TokensOf(Cut(k, n + 1)) = 0
      BY <1>3, <2>4, TokensProperties
    <3>2. TokensOf(Cut(0, n + 1)) \in Nat
      BY <1>1, <2>2, TokensProperties
    <3> QED
      BY <3>1, <3>2
  <2> QED
    BY <2>1, <2>3, <2>4
<1>7. N = Nat
  <2>1. N \subseteq Nat
    OBVIOUS
  <2> HIDE DEF N
  <2> QED
    BY <1>5, <1>6, <2>1, SetInduction
<1>8. TokensOf(Cut(k, Len(rs))) <= TokensOf(Cut(0, Len(rs)))
  <2>1. Len(rs) \in N /\ Len(rs) \in Nat
    BY <1>7
  <2> QED
    BY <2>1
<1>9. Cut(k, Len(rs)) \in Seq(Rec) /\ Len(Cut(k, Len(rs))) = Len(rs) - k
  <2>1. Len(rs) \in 0 .. Len(rs) /\ k <= Len(rs)
    OBVIOUS
  <2> QED
    BY <1>1, <2>1
<1> QED
  BY <1>3, <1>8, <1>9 DEF Cut

-----------------------------------------------------------------------------
(* The invariant is inductive                                              *)

\* Pruning cuts the old records off at the front, up to the first young one.
LEMMA PrunedProperties ==
  ASSUME NEW rs \in Seq(Rec)
  PROVE  \E k \in 0 .. Len(rs) :
           /\ Pruned(rs) = SubSeq(rs, k + 1, Len(rs))
           /\ \A n \in 1 .. k : IsOld(rs[n])
           /\ k < Len(rs) => ~ IsOld(rs[k + 1])
PROOF
<1> DEFINE young == {n \in DOMAIN rs : ~ IsOld(rs[n])}
<1>1. DOMAIN rs = 1 .. Len(rs) /\ Len(rs) \in Nat
  OBVIOUS
<1>2. CASE young = {}
  <2>1. Pruned(rs) = <<>> /\ SubSeq(rs, Len(rs) + 1, Len(rs)) = <<>>
    BY <1>2 DEF Pruned
  <2>2. \A n \in 1 .. Len(rs) : IsOld(rs[n])
    BY <1>1, <1>2
  <2> QED
    BY <1>1, <2>1, <2>2
<1>3. CASE young # {}
  <2> DEFINE m == Min(young)
  <2>1. Pruned(rs) = SubSeq(rs, m, Len(rs))
    BY <1>3 DEF Pruned
  <2>2. young \in SUBSET Nat
    BY <1>1
  <2>3. m \in young /\ \A n \in young : m <= n
    <3> HIDE DEF young
    <3> QED
      BY <1>3, <2>2, LeastMember
  <2> HIDE DEF m
  <2>4. /\ m - 1 \in 0 .. Len(rs) /\ (m - 1) + 1 = m
        /\ \A n \in 1 .. m - 1 : IsOld(rs[n])
        /\ ~ IsOld(rs[m])
    BY <1>1, <2>3
  <2> QED
    BY <2>1, <2>4
<1> QED
  BY <1>2, <1>3

\* The lists of counters that calls go through.
LEMMA Lists ==
  /\ Head(<<"requests", "tokens">>) = "requests" /\ Tail(<<"requests", "tokens">>) = <<"tokens">>
  /\ Head(<<"tokens">>) = "tokens" /\ Tail(<<"tokens">>) = <<>>
  /\ Head(<<"errors">>) = "errors" /\ Tail(<<"errors">>) = <<>>
  /\ Range(<<"requests", "tokens">>) = {"requests", "tokens"}
  /\ Range(<<"tokens">>) = {"tokens"} /\ Range(<<"errors">>) = {"errors"}
PROOF
  BY DEF Range

\* What is due depends on the holder of the lock alone.
LEMMA DueProperties ==
  ASSUME Exclusive, NEW c \in Counters
  PROVE  /\ lock = NoThread => Due(c) = 0
         /\ \A t \in Threads : lock = t =>
              Due(c) = IF pc[t] \in {"load", "store"} /\ c \in Range(todo[t])
                       THEN IF c = "tokens" THEN record[t].tokens ELSE 1
                       ELSE 0
PROOF
  BY MetricsAssumption DEF Due, Exclusive

\* A new collector.
LEMMA InitInv == Init => IInv
PROOF
<1> SUFFICES ASSUME Init PROVE IInv
  OBVIOUS
<1> USE DEF Init
<1>1. Typed
  BY DEF Typed, Places, Counters, Rec, NoRecord
<1>2. Exclusive /\ ToDo
  BY MetricsAssumption DEF Exclusive, ToDo
<1>3. Counted
  <2>1. Due("requests") = 0 /\ Due("tokens") = 0 /\ Due("errors") = 0
    BY <1>2, DueProperties DEF Counters
  <2>2. /\ counter["requests"] = 0 /\ counter["tokens"] = 0 /\ counter["errors"] = 0
        /\ Len(entered) = 0 /\ entered = <<>>
    BY DEF Counters
  <2> QED
    BY <2>1, <2>2, TokensProperties DEF Counted
<1>4. Suffix
  BY DEF Suffix
<1>5. Behind
  BY TokensProperties DEF Behind, Counters
<1>6. SnapshotOrdered
  BY DEF SnapshotOrdered
<1> QED
  BY <1>1, <1>2, <1>3, <1>4, <1>5, <1>6 DEF IInv

\* A call is made, time passes, or a counter is loaded: nothing is recorded, and
\* what is due stays due.
LEMMA QuietInv ==
  ASSUME IInv, Typed', Exclusive', ToDo', now <= now',
         UNCHANGED <<lock, records, counter, samples, report, entered, failures>>,
         \A c \in Counters : Due(c)' = Due(c)
  PROVE  IInv'
PROOF
<1>1. Typed /\ Counted /\ Suffix /\ Behind /\ SnapshotOrdered
  BY DEF IInv
<1>2. Counted'
  BY <1>1 DEF Counted, Counters
<1>3. Suffix'
  <2>1. PICK gone \in 0 .. Len(entered) :
          /\ records = SubSeq(entered, gone + 1, Len(entered))
          /\ \A n \in 1 .. gone : entered[n].stamp + Window < now
    BY <1>1 DEF Suffix
  <2>2. \A n \in 1 .. gone : entered[n].stamp + Window < now'
    <3> SUFFICES ASSUME NEW n \in 1 .. gone PROVE entered[n].stamp + Window < now'
      OBVIOUS
    <3>1. entered[n] \in Rec /\ now \in Nat /\ now' \in Nat /\ Window \in Nat
      BY <1>1, MetricsAssumption DEF Typed
    <3>2. entered[n].stamp \in Nat
      BY <3>1 DEF Rec
    <3> QED
      BY <2>1, <3>1, <3>2
  <2> QED
    BY <2>1, <2>2 DEF Suffix
<1>4. Behind' /\ SnapshotOrdered'
  BY <1>1 DEF Behind, SnapshotOrdered
<1> QED
  BY <1>2, <1>3, <1>4 DEF IInv

\* The clock.
LEMMA TickInv == ASSUME IInv, Tick PROVE IInv'
PROOF
<1>1. Typed /\ Exclusive /\ ToDo
  BY DEF IInv
<1>2. /\ now' = now + 1
      /\ UNCHANGED <<lock, records, counter, pc, record, todo, reg, samples, report,
                     calls, entered, failures>>
  BY DEF Tick, collector, threadVars, snapVars, history
<1>3. Typed' /\ Exclusive' /\ ToDo' /\ now <= now'
  BY <1>1, <1>2 DEF Typed, Exclusive, ToDo
<1>4. \A c \in Counters : Due(c)' = Due(c)
  BY <1>2 DEF Due
<1> QED
  BY <1>2, <1>3, <1>4, QuietInv

\* record_request is called.
LEMMA StampInv == ASSUME IInv, NEW t \in Threads, Stamp(t) PROVE IInv'
PROOF
<1>1. Typed /\ Exclusive /\ ToDo
  BY DEF IInv
<1>2. /\ pc[t] = "idle" /\ pc' = [pc EXCEPT ![t] = "stamped"] /\ calls' = calls + 1
      /\ UNCHANGED <<now, lock, records, counter, todo, reg, samples, report,
                     entered, failures>>
  BY DEF Stamp, Goto, collector, snapVars
<1>3. PICK n \in TokenCounts : record' = [record EXCEPT ![t] = [stamp |-> now, tokens |-> n]]
  BY DEF Stamp
<1>4. Typed'
  <2>1. [stamp |-> now, tokens |-> n] \in Rec
    BY <1>1, MetricsAssumption DEF Rec, Typed
  <2> QED
    BY <1>1, <1>2, <1>3, <2>1 DEF Typed, Places
<1>5. Exclusive' /\ ToDo' /\ now <= now'
  BY <1>1, <1>2 DEF Typed, Exclusive, ToDo
<1>6. \A u \in Threads \ {t} : pc'[u] = pc[u] /\ record'[u] = record[u]
  BY <1>1, <1>2, <1>3 DEF Typed
<1>7. pc'[t] = "stamped"
  BY <1>1, <1>2 DEF Typed
<1>8. \A c \in Counters : Due(c)' = Due(c)
  BY <1>2, <1>6, <1>7 DEF Due
<1> QED
  BY <1>2, <1>4, <1>5, <1>8, QuietInv

\* The first half of an increment.
LEMMA LoadInv == ASSUME IInv, NEW t \in Threads, Load(t) PROVE IInv'
PROOF
<1>1. Typed /\ Exclusive /\ ToDo
  BY DEF IInv
<1>2. /\ pc[t] = "load" /\ pc' = [pc EXCEPT ![t] = "store"]
      /\ reg' = [reg EXCEPT ![t] = counter[Head(todo[t])]]
      /\ UNCHANGED <<now, lock, records, counter, record, todo, samples, report,
                     calls, entered, failures>>
  BY DEF Load, Goto, collector, snapVars, history
<1>3. Head(todo[t]) \in Counters
  BY <1>1, <1>2, Lists DEF ToDo, Counters
<1>4. Typed'
  BY <1>1, <1>2, <1>3 DEF Typed, Places
<1>5. Exclusive' /\ now <= now'
  BY <1>1, <1>2 DEF Typed, Exclusive
<1>6. /\ pc'[t] = "store" /\ reg'[t] = counter[Head(todo[t])]
      /\ \A u \in Threads \ {t} : pc'[u] = pc[u] /\ reg'[u] = reg[u]
  BY <1>1, <1>2 DEF Typed
<1>7. ToDo'
  BY <1>1, <1>2, <1>6 DEF ToDo
<1>8. \A c \in Counters : Due(c)' = Due(c)
  BY <1>2, <1>6 DEF Due
<1> QED
  BY <1>2, <1>4, <1>5, <1>7, <1>8, QuietInv

\* A record enters: it is due in two counters.
LEMMA EnterInv == ASSUME IInv, NEW t \in Threads, Enter(t) PROVE IInv'
PROOF
<1>1. Typed /\ Exclusive /\ ToDo /\ Counted /\ Suffix /\ Behind /\ SnapshotOrdered
  BY DEF IInv
<1>2. /\ pc[t] = "stamped" /\ lock = NoThread /\ lock' = t
      /\ records' = Append(records, record[t]) /\ entered' = Append(entered, record[t])
      /\ todo' = [todo EXCEPT ![t] = <<"requests", "tokens">>]
      /\ pc' = [pc EXCEPT ![t] = "load"]
      /\ UNCHANGED <<now, counter, record, reg, samples, report, calls, failures>>
  BY DEF Enter, Goto, snapVars
<1>3. record[t] \in Rec /\ <<"requests", "tokens">> \in Seq(Counters)
  BY <1>1 DEF Typed, Counters
<1>4. Typed'
  BY <1>1, <1>2, <1>3 DEF Typed, Places
<1>5. /\ pc'[t] = "load" /\ todo'[t] = <<"requests", "tokens">>
      /\ \A u \in Threads \ {t} : pc'[u] = pc[u] /\ todo'[u] = todo[u]
  BY <1>1, <1>2 DEF Typed
<1>6. Exclusive'
  BY <1>1, <1>2, <1>5, MetricsAssumption DEF Exclusive
<1>7. ToDo'
  BY <1>1, <1>2, <1>5 DEF ToDo
<1>8. Counted'
  <2>1. Due("requests") = 0 /\ Due("tokens") = 0 /\ Due("errors") = 0
    BY <1>1, <1>2, DueProperties DEF Counters
  <2>2. Due("requests")' = 1 /\ Due("tokens")' = record[t].tokens /\ Due("errors")' = 0
    BY <1>2, <1>5, Lists DEF Due
  <2>3. /\ Len(entered') = Len(entered) + 1
        /\ TokensOf(entered') = TokensOf(entered) + record[t].tokens
    BY <1>1, <1>2, <1>3, TokensProperties DEF Typed
  <2>4. /\ counter["requests"] \in Nat /\ counter["tokens"] \in Nat /\ counter["errors"] \in Nat
    BY <1>1 DEF Typed, Counters
  <2>5. /\ counter["requests"] = Len(entered) /\ counter["tokens"] = TokensOf(entered)
        /\ counter["errors"] = failures
    BY <1>1, <2>1, <2>4 DEF Counted
  <2> QED
    BY <1>2, <2>2, <2>3, <2>4, <2>5 DEF Counted
<1>9. Suffix'
  <2>1. PICK gone \in 0 .. Len(entered) :
          /\ records = SubSeq(entered, gone + 1, Len(entered))
          /\ \A n \in 1 .. gone : entered[n].stamp + Window < now
    BY <1>1 DEF Suffix
  <2>2. entered \in Seq(Rec) /\ Len(entered) \in Nat
    BY <1>1 DEF Typed
  <2>3. /\ Len(entered') = Len(entered) + 1
        /\ \A n \in 1 .. Len(entered) : entered'[n] = entered[n]
        /\ records' = SubSeq(entered', gone + 1, Len(entered'))
    BY <1>2, <1>3, <2>1, <2>2
  <2>4. gone \in 0 .. Len(entered') /\ \A n \in 1 .. gone : n \in 1 .. Len(entered)
    BY <2>2, <2>3
  <2>5. \A n \in 1 .. gone : entered'[n].stamp + Window < now'
    BY <1>2, <2>1, <2>3, <2>4
  <2> QED
    BY <2>3, <2>4, <2>5 DEF Suffix
<1>10. Behind' /\ SnapshotOrdered'
  BY <1>1, <1>2 DEF Behind, SnapshotOrdered
<1> QED
  BY <1>4, <1>6, <1>7, <1>8, <1>9, <1>10 DEF IInv

\* record_error takes the lock: one error is due.
LEMMA EnterErrorInv == ASSUME IInv, NEW t \in Threads, EnterError(t) PROVE IInv'
PROOF
<1>1. Typed /\ Exclusive /\ ToDo /\ Counted /\ Suffix /\ Behind /\ SnapshotOrdered
  BY DEF IInv
<1>2. /\ pc[t] = "idle" /\ lock = NoThread /\ lock' = t
      /\ calls' = calls + 1 /\ failures' = failures + 1
      /\ todo' = [todo EXCEPT ![t] = <<"errors">>] /\ pc' = [pc EXCEPT ![t] = "load"]
      /\ UNCHANGED <<now, records, counter, record, reg, samples, report, entered>>
  BY DEF EnterError, Goto, snapVars
<1>3. Typed'
  BY <1>1, <1>2 DEF Typed, Places, Counters
<1>4. /\ pc'[t] = "load" /\ todo'[t] = <<"errors">>
      /\ \A u \in Threads \ {t} : pc'[u] = pc[u] /\ todo'[u] = todo[u]
  BY <1>1, <1>2 DEF Typed
<1>5. Exclusive'
  BY <1>1, <1>2, <1>4, MetricsAssumption DEF Exclusive
<1>6. ToDo'
  BY <1>1, <1>2, <1>4 DEF ToDo
<1>7. Counted'
  <2>1. Due("requests") = 0 /\ Due("tokens") = 0 /\ Due("errors") = 0
    BY <1>1, <1>2, DueProperties DEF Counters
  <2>2. Due("requests")' = 0 /\ Due("tokens")' = 0 /\ Due("errors")' = 1
    BY <1>2, <1>4, Lists DEF Due
  <2>3. counter["errors"] \in Nat /\ failures \in Nat
    BY <1>1 DEF Typed, Counters
  <2> QED
    BY <1>1, <1>2, <2>1, <2>2, <2>3 DEF Counted
<1>8. Suffix' /\ Behind' /\ SnapshotOrdered'
  BY <1>1, <1>2 DEF Suffix, Behind, SnapshotOrdered
<1> QED
  BY <1>3, <1>5, <1>6, <1>7, <1>8 DEF IInv

\* The second half of an increment: nobody else has stored meanwhile.
LEMMA StoreInv == ASSUME IInv, NEW t \in Threads, Store(t) PROVE IInv'
PROOF
<1> DEFINE c == Head(todo[t])
           amount == IF c = "tokens" THEN record[t].tokens ELSE 1
           place == IF Tail(todo[t]) # <<>> THEN "load"
                    ELSE IF c = "tokens" THEN "prune" ELSE "release"
<1>1. Typed /\ Exclusive /\ ToDo /\ Counted /\ Suffix /\ Behind /\ SnapshotOrdered
  BY DEF IInv
<1>2. /\ pc[t] = "store" /\ reg[t] = counter[c]
      /\ todo[t] \in {<<"requests", "tokens">>, <<"tokens">>, <<"errors">>}
  BY <1>1 DEF Store, ToDo
<1>3. lock = t
  BY <1>1, <1>2 DEF Exclusive
<1>4. /\ counter' = [counter EXCEPT ![c] = counter[c] + amount]
      /\ reg' = [reg EXCEPT ![t] = 0] /\ todo' = [todo EXCEPT ![t] = Tail(@)]
      /\ pc' = [pc EXCEPT ![t] = place]
      /\ UNCHANGED <<now, lock, records, record, samples, report, calls, entered, failures>>
  BY <1>1, <1>2 DEF Store, Goto, Amount, snapVars, history, Typed
<1>5. c \in Counters /\ amount \in Nat /\ Tail(todo[t]) \in Seq(Counters) /\ place \in Places
  <2>1. record[t].tokens \in Nat
    BY <1>1 DEF Typed, Rec
  <2>2. c \in Counters
    BY <1>2, Lists DEF Counters
  <2>3. amount \in Nat
    BY <2>1
  <2>4. <<"tokens">> \in Seq(Counters) /\ <<>> \in Seq(Counters)
    BY DEF Counters
  <2>5. Tail(todo[t]) \in {<<"tokens">>, <<>>}
    BY <1>2, Lists
  <2>6. Tail(todo[t]) \in Seq(Counters)
    BY <2>4, <2>5
  <2>7. place \in Places
    BY DEF Places
  <2> QED
    BY <2>2, <2>3, <2>6, <2>7
<1>6. /\ pc'[t] = place /\ todo'[t] = Tail(todo[t])
      /\ \A u \in Threads \ {t} : pc'[u] = pc[u] /\ todo'[u] = todo[u] /\ reg'[u] = reg[u]
  BY <1>1, <1>4 DEF Typed
<1>7. Typed'
  <2>1. counter[c] \in Nat
    BY <1>1, <1>5 DEF Typed
  <2> HIDE DEF c, amount, place
  <2>2. counter' \in [Counters -> Nat]
    <3>1. counter[c] + amount \in Nat
      BY <1>5, <2>1
    <3> QED
      BY <1>1, <1>4, <3>1 DEF Typed
  <2> QED
    BY <1>1, <1>4, <1>5, <2>2 DEF Typed
<1>8. place \in {"load", "prune", "release"}
  OBVIOUS
<1>9. Exclusive'
  <2> HIDE DEF place
  <2> QED
    BY <1>1, <1>3, <1>4, <1>6, <1>8 DEF Exclusive
<1>10. ToDo'
  <2>1. place = "load" => todo'[t] = <<"tokens">>
    BY <1>2, <1>6, Lists
  <2>2. \A u \in Threads \ {t} : pc[u] # "store"
    BY <1>1, <1>3 DEF Exclusive
  <2> HIDE DEF place
  <2> QED
    BY <1>1, <1>4, <1>6, <1>8, <2>1, <2>2 DEF ToDo
<1>11. Counted'
  <2>1. /\ counter["requests"] \in Nat /\ counter["tokens"] \in Nat /\ counter["errors"] \in Nat
        /\ counter["requests"] + Due("requests") = Len(entered)
        /\ counter["tokens"] + Due("tokens") = TokensOf(entered)
        /\ counter["errors"] + Due("errors") = failures
    BY <1>1 DEF Typed, Counters, Counted
  <2>2. \A d \in Counters : Due(d) = IF d \in Range(todo[t])
                                   THEN IF d = "tokens" THEN record[t].tokens ELSE 1
                                   ELSE 0
    BY <1>1, <1>2, <1>3, DueProperties
  <2>3. record[t].tokens \in Nat
    BY <1>1 DEF Typed, Rec
  <2>4. CASE todo[t] = <<"requests", "tokens">>
    <3>1. c = "requests" /\ place = "load" /\ todo'[t] = <<"tokens">> /\ amount = 1
      BY <1>6, <2>4, Lists
    <3>2. Due("requests")' = 0 /\ Due("tokens")' = record[t].tokens /\ Due("errors")' = 0
      BY <1>3, <1>4, <1>6, <3>1, Lists DEF Due
    <3>3. Due("requests") = 1 /\ Due("tokens") = record[t].tokens /\ Due("errors") = 0
      BY <2>2, <2>4, Lists DEF Counters
    <3>4. /\ counter'["requests"] = counter["requests"] + 1
          /\ counter'["tokens"] = counter["tokens"] /\ counter'["errors"] = counter["errors"]
      BY <1>1, <1>4, <3>1 DEF Typed, Counters
    <3> QED
      BY <1>4, <2>1, <2>3, <3>2, <3>3, <3>4 DEF Counted
  <2>5. CASE todo[t] = <<"tokens">>
    <3>1. c = "tokens" /\ place = "prune" /\ todo'[t] = <<>> /\ amount = record[t].tokens
      BY <1>6, <2>5, Lists
    <3>2. Due("requests")' = 0 /\ Due("tokens")' = 0 /\ Due("errors")' = 0
      BY <1>3, <1>4, <1>6, <3>1 DEF Due
    <3>3. Due("requests") = 0 /\ Due("tokens") = record[t].tokens /\ Due("errors") = 0
      BY <2>2, <2>5, Lists DEF Counters
    <3>4. /\ counter'["tokens"] = counter["tokens"] + record[t].tokens
          /\ counter'["requests"] = counter["requests"] /\ counter'["errors"] = counter["errors"]
      BY <1>1, <1>4, <3>1 DEF Typed, Counters
    <3> QED
      BY <1>4, <2>1, <2>3, <3>2, <3>3, <3>4 DEF Counted
  <2>6. CASE todo[t] = <<"errors">>
    <3>1. c = "errors" /\ place = "release" /\ todo'[t] = <<>> /\ amount = 1
      BY <1>6, <2>6, Lists
    <3>2. Due("requests")' = 0 /\ Due("tokens")' = 0 /\ Due("errors")' = 0
      BY <1>3, <1>4, <1>6, <3>1 DEF Due
    <3>3. Due("requests") = 0 /\ Due("tokens") = 0 /\ Due("errors") = 1
      BY <2>2, <2>6, Lists DEF Counters
    <3>4. /\ counter'["errors"] = counter["errors"] + 1
          /\ counter'["requests"] = counter["requests"] /\ counter'["tokens"] = counter["tokens"]
      BY <1>1, <1>4, <3>1 DEF Typed, Counters
    <3> QED
      BY <1>4, <2>1, <3>2, <3>3, <3>4 DEF Counted
  <2> QED
    BY <1>2, <2>4, <2>5, <2>6
<1>12. \A d \in Counters : counter[d] <= counter'[d] /\ counter[d] \in Nat /\ counter'[d] \in Nat
  <2> SUFFICES ASSUME NEW d \in Counters
               PROVE  counter[d] <= counter'[d] /\ counter[d] \in Nat /\ counter'[d] \in Nat
    OBVIOUS
  <2>1. counter[d] \in Nat /\ counter'[d] \in Nat /\ amount \in Nat
    BY <1>1, <1>5, <1>7 DEF Typed
  <2> HIDE DEF c, amount
  <2>2. counter'[d] = IF d = c THEN counter[d] + amount ELSE counter[d]
    BY <1>1, <1>4 DEF Typed
  <2> QED
    BY <2>1, <2>2
<1>13. Behind'
  <2> SUFFICES ASSUME NEW u \in Threads
               PROVE  /\ Len(samples[u]) <= counter'["requests"]
                      /\ TokensOf(samples[u]) <= counter'["tokens"]
                      /\ Len(report[u]) >= 1 => report[u][1] <= counter'["requests"]
    BY <1>4 DEF Behind
  <2>1. /\ samples[u] \in Seq(Rec) /\ Len(samples[u]) \in Nat /\ TokensOf(samples[u]) \in Nat
        /\ Len(report[u]) >= 1 => report[u][1] \in Nat
    <3>1. samples[u] \in Seq(Rec) /\ report[u] \in Seq(Nat)
      BY <1>1 DEF Typed
    <3>2. TokensOf(samples[u]) \in Nat
      BY <3>1, TokensProperties
    <3>3. Len(samples[u]) \in Nat /\ (Len(report[u]) >= 1 => report[u][1] \in Nat)
      BY <3>1
    <3> QED
      BY <3>1, <3>2, <3>3
  <2>2. /\ counter["requests"] <= counter'["requests"] /\ counter["tokens"] <= counter'["tokens"]
        /\ counter["requests"] \in Nat /\ counter["tokens"] \in Nat
        /\ counter'["requests"] \in Nat /\ counter'["tokens"] \in Nat
    BY <1>12 DEF Counters
  <2>3. /\ Len(samples[u]) <= counter["requests"]
        /\ TokensOf(samples[u]) <= counter["tokens"]
        /\ Len(report[u]) >= 1 => report[u][1] <= counter["requests"]
    BY <1>1 DEF Behind
  <2> QED
    BY <2>1, <2>2, <2>3
<1>14. Suffix' /\ SnapshotOrdered'
  BY <1>1, <1>4 DEF Suffix, SnapshotOrdered
<1> QED
  BY <1>7, <1>9, <1>10, <1>11, <1>13, <1>14 DEF IInv

\* Pruning leaves a suffix of all records, past which everything is old.
LEMMA PruningInv ==
  ASSUME Typed, Suffix, records' = Pruned(records), UNCHANGED <<now, entered>>
  PROVE  /\ Suffix' /\ records' \in Seq(Rec)
         /\ Len(records') <= Len(entered) /\ TokensOf(records') <= TokensOf(entered)
PROOF
<1>1. PICK gone \in 0 .. Len(entered) :
        /\ records = SubSeq(entered, gone + 1, Len(entered))
        /\ \A n \in 1 .. gone : entered[n].stamp + Window < now
  BY DEF Suffix
<1>2. records \in Seq(Rec) /\ entered \in Seq(Rec) /\ Len(entered) \in Nat /\ gone \in Nat
  BY DEF Typed
<1>3. /\ Len(records) = Len(entered) - gone
      /\ \A n \in 1 .. Len(records) : records[n] = entered[gone + n]
  BY <1>1, <1>2
<1>4. PICK k \in 0 .. Len(records) :
        /\ Pruned(records) = SubSeq(records, k + 1, Len(records))
        /\ \A n \in 1 .. k : IsOld(records[n])
  BY <1>2, PrunedProperties
<1>5. gone + k \in 0 .. Len(entered)
  BY <1>2, <1>3
<1>6. records' = SubSeq(entered, gone + k + 1, Len(entered))
  <2>1. k \in 0 .. Len(entered) - gone
    BY <1>3
  <2> QED
    BY <1>1, <1>2, <1>3, <1>4, <2>1, SuffixOfSuffix
<1>7. \A n \in 1 .. gone + k : entered[n].stamp + Window < now
  <2> SUFFICES ASSUME NEW n \in 1 .. gone + k PROVE entered[n].stamp + Window < now
    OBVIOUS
  <2>1. CASE n \in 1 .. gone
    BY <1>1, <2>1
  <2>2. CASE n \notin 1 .. gone
    <3>1. n - gone \in 1 .. k /\ n - gone \in 1 .. Len(records) /\ gone + (n - gone) = n
      BY <1>2, <1>3, <2>2
    <3>2. IsOld(entered[n])
      BY <1>3, <1>4, <3>1
    <3>3. entered[n] \in Rec
      BY <1>2, <1>5
    <3>4. entered[n].stamp \in Nat
      BY <3>3 DEF Rec
    <3> QED
      BY <3>2, <3>4, MetricsAssumption DEF IsOld, Typed
  <2> QED
    BY <2>1, <2>2
<1>8. Suffix'
  BY <1>5, <1>6, <1>7 DEF Suffix
<1>9. /\ records' \in Seq(Rec) /\ Len(records') = Len(entered) - (gone + k)
      /\ TokensOf(records') <= TokensOf(entered)
  BY <1>2, <1>5, <1>6, SuffixTokens
<1> QED
  BY <1>2, <1>5, <1>8, <1>9

\* The lock is free again: nothing is due any more.
LEMMA ReleaseInv == ASSUME IInv, NEW t \in Threads, Release(t) PROVE IInv'
PROOF
<1>1. Typed /\ Exclusive /\ ToDo /\ Counted /\ Suffix /\ Behind /\ SnapshotOrdered
  BY DEF IInv
<1>2. /\ pc[t] \in {"prune", "release"}
      /\ records' = Pruned(records) \/ records' = records
      /\ lock' = NoThread /\ record' = [record EXCEPT ![t] = NoRecord]
      /\ pc' = [pc EXCEPT ![t] = "idle"]
      /\ UNCHANGED <<now, counter, todo, reg, samples, report, calls, entered, failures>>
  BY DEF Release, Goto, snapVars, history
<1>3. lock = t
  BY <1>1, <1>2 DEF Exclusive
<1>4. Suffix' /\ records' \in Seq(Rec)
  <2>1. CASE records' = Pruned(records)
    BY <1>1, <1>2, <2>1, PruningInv
  <2>2. CASE records' = records
    BY <1>1, <1>2, <2>2 DEF Suffix, Typed
  <2> QED
    BY <1>2, <2>1, <2>2
<1>5. Typed'
  BY <1>1, <1>2, <1>4 DEF Typed, Places, NoRecord, Rec
<1>6. pc'[t] = "idle" /\ \A u \in Threads \ {t} : pc'[u] = pc[u] /\ lock # u
  BY <1>1, <1>2, <1>3 DEF Typed
<1>7. Exclusive'
  BY <1>1, <1>2, <1>6, MetricsAssumption DEF Exclusive
<1>8. ToDo'
  BY <1>1, <1>2, <1>6 DEF ToDo
<1>9. Counted'
  <2>1. Due("requests") = 0 /\ Due("tokens") = 0 /\ Due("errors") = 0
    BY <1>1, <1>2, <1>3, DueProperties DEF Counters
  <2>2. Due("requests")' = 0 /\ Due("tokens")' = 0 /\ Due("errors")' = 0
    BY <1>2, MetricsAssumption DEF Due
  <2> QED
    BY <1>1, <1>2, <2>1, <2>2 DEF Counted
<1>10. Behind' /\ SnapshotOrdered'
  BY <1>1, <1>2 DEF Behind, SnapshotOrdered
<1> QED
  BY <1>4, <1>5, <1>7, <1>8, <1>9, <1>10 DEF IInv

\* get_metrics copies the window while nothing is due: what it copies is counted.
LEMMA CopyInv == ASSUME IInv, NEW t \in Threads, Copy(t) PROVE IInv'
PROOF
<1>1. Typed /\ Exclusive /\ ToDo /\ Counted /\ Suffix /\ Behind /\ SnapshotOrdered
  BY DEF IInv
<1>2. /\ pc[t] = "idle" /\ lock = NoThread /\ records' = Pruned(records)
      /\ calls' = calls + 1
      /\ samples' = [samples EXCEPT ![t] = records'] /\ report' = [report EXCEPT ![t] = <<>>]
      /\ todo' = [todo EXCEPT ![t] = Fields] /\ pc' = [pc EXCEPT ![t] = "read"]
      /\ UNCHANGED <<now, lock, counter, record, reg, entered, failures>>
  BY DEF Copy, Goto
<1>3. /\ Suffix' /\ records' \in Seq(Rec)
      /\ Len(records') <= Len(entered) /\ TokensOf(records') <= TokensOf(entered)
  BY <1>1, <1>2, PruningInv
<1>4. Typed'
  <2>1. Fields \in Seq(Counters) /\ <<>> \in Seq(Nat)
    BY DEF Fields, Counters
  <2> QED
    BY <1>1, <1>2, <1>3, <2>1 DEF Typed, Places
<1>5. /\ pc'[t] = "read" /\ todo'[t] = Fields /\ samples'[t] = records' /\ report'[t] = <<>>
      /\ \A u \in Threads \ {t} : /\ pc'[u] = pc[u] /\ todo'[u] = todo[u]
                                  /\ samples'[u] = samples[u] /\ report'[u] = report[u]
  BY <1>1, <1>2 DEF Typed
<1>6. Exclusive'
  BY <1>1, <1>2, <1>5, MetricsAssumption DEF Exclusive
<1>7. ToDo'
  <2>1. Len(<<>>) < Len(Fields) /\ Fields = SubSeq(Fields, Len(<<>>) + 1, Len(Fields))
    BY DEF Fields
  <2> QED
    BY <1>1, <1>2, <1>5, <2>1 DEF ToDo
<1>8. Due("requests") = 0 /\ Due("tokens") = 0 /\ Due("errors") = 0
  BY <1>1, <1>2, DueProperties DEF Counters
<1>9. Counted'
  <2>1. Due("requests")' = 0 /\ Due("tokens")' = 0 /\ Due("errors")' = 0
    BY <1>2, MetricsAssumption DEF Due
  <2> QED
    BY <1>1, <1>2, <1>8, <2>1 DEF Counted
<1>10. counter["requests"] = Len(entered) /\ counter["tokens"] = TokensOf(entered)
  BY <1>1, <1>8 DEF Counted, Typed, Counters
<1>11. Behind'
  <2> SUFFICES ASSUME NEW u \in Threads
               PROVE  /\ Len(samples'[u]) <= counter["requests"]
                      /\ TokensOf(samples'[u]) <= counter["tokens"]
                      /\ Len(report'[u]) >= 1 => report'[u][1] <= counter["requests"]
    BY <1>2 DEF Behind
  <2>1. CASE u = t
    BY <1>3, <1>5, <1>10, <2>1
  <2>2. CASE u # t
    BY <1>1, <1>5, <2>2 DEF Behind
  <2> QED
    BY <2>1, <2>2
<1>12. SnapshotOrdered'
  BY <1>1, <1>5 DEF SnapshotOrdered
<1> QED
  BY <1>3, <1>4, <1>6, <1>7, <1>9, <1>11, <1>12 DEF IInv

\* The counters get_metrics still reads after the first n of them.
LEMMA FieldsProperties ==
  ASSUME NEW n \in Nat, n < 4
  PROVE  /\ Head(SubSeq(Fields, n + 1, 4)) = Fields[n + 1] /\ Fields[n + 1] \in Counters
         /\ Tail(SubSeq(Fields, n + 1, 4)) = SubSeq(Fields, n + 2, 4)
         /\ SubSeq(Fields, n + 2, 4) \in Seq(Counters)
         /\ SubSeq(Fields, n + 2, 4) # <<>> => n < 3
PROOF
<1>1. CASE n = 0
  BY <1>1 DEF Fields, Counters
<1>2. CASE n = 1
  BY <1>2 DEF Fields, Counters
<1>3. CASE n = 2
  BY <1>3 DEF Fields, Counters
<1>4. CASE n = 3
  BY <1>4 DEF Fields, Counters
<1> QED
  BY <1>1, <1>2, <1>3, <1>4

\* A counter read later is at least what was copied or read before.
LEMMA ReadInv == ASSUME IInv, NEW t \in Threads, Read(t) PROVE IInv'
PROOF
<1> DEFINE seen == report[t]
           c == Head(todo[t])
           place == IF Tail(todo[t]) = <<>> THEN "idle" ELSE "read"
<1>1. Typed /\ Exclusive /\ ToDo /\ Counted /\ Suffix /\ Behind /\ SnapshotOrdered
  BY DEF IInv
<1>2. /\ pc[t] = "read"
      /\ report' = [report EXCEPT ![t] = Append(seen, counter[c])]
      /\ todo' = [todo EXCEPT ![t] = Tail(todo[t])]
      /\ pc' = [pc EXCEPT ![t] = place]
      /\ UNCHANGED <<now, lock, records, counter, record, reg, samples, calls, entered, failures>>
  BY <1>1 DEF Read, Goto, Typed, collector, history
<1>3. /\ Len(seen) < 4 /\ todo[t] = SubSeq(Fields, Len(seen) + 1, 4) /\ seen \in Seq(Nat)
      /\ Len(seen) \in Nat
  BY <1>1, <1>2 DEF ToDo, Typed, Fields
<1>4. /\ c = Fields[Len(seen) + 1] /\ c \in Counters
      /\ Tail(todo[t]) = SubSeq(Fields, Len(seen) + 2, 4) /\ Tail(todo[t]) \in Seq(Counters)
      /\ Tail(todo[t]) # <<>> => Len(seen) < 3
  <2> HIDE DEF seen
  <2>1. Len(seen) \in Nat /\ Len(seen) < 4
    BY <1>3
  <2> QED
    BY <1>3, <2>1, FieldsProperties
<1>5. /\ pc'[t] = place /\ todo'[t] = Tail(todo[t]) /\ report'[t] = Append(seen, counter[c])
      /\ \A u \in Threads \ {t} : /\ pc'[u] = pc[u] /\ todo'[u] = todo[u]
                                  /\ report'[u] = report[u]
  BY <1>1, <1>2 DEF Typed
<1>6. counter["requests"] \in Nat /\ counter[c] \in Nat
  BY <1>1, <1>4 DEF Typed, Counters
<1>7. place \in {"idle", "read"} /\ (place = "read" => Tail(todo[t]) # <<>>)
  OBVIOUS
<1> HIDE DEF c, place
<1>8. /\ report'[t] \in Seq(Nat) /\ Len(report'[t]) = Len(seen) + 1
      /\ report'[t][Len(seen) + 1] = counter[c]
      /\ \A n \in 1 .. Len(seen) : report'[t][n] = seen[n]
  BY <1>3, <1>5, <1>6
<1>9. Typed'
  <2>1. report' \in [Threads -> Seq(Nat)]
    BY <1>1, <1>2, <1>5, <1>8 DEF Typed
  <2> QED
    BY <1>1, <1>2, <1>4, <1>7, <2>1 DEF Typed, Places
<1>10. Exclusive'
  BY <1>1, <1>2, <1>5, <1>7 DEF Exclusive
<1>11. ToDo'
  <2>1. place = "read" => /\ Len(report'[t]) < 4
                          /\ todo'[t] = SubSeq(Fields, Len(report'[t]) + 1, 4)
    <3>1. place = "read" => Len(seen) < 3 /\ todo'[t] = SubSeq(Fields, Len(seen) + 2, 4)
      BY <1>4, <1>5, <1>7
    <3>2. Len(seen) + 2 = Len(report'[t]) + 1 /\ (Len(seen) < 3 => Len(report'[t]) < 4)
      BY <1>3, <1>8
    <3> QED
      BY <3>1, <3>2
  <2>2. Len(Fields) = 4
    BY DEF Fields
  <2> QED
    BY <1>1, <1>2, <1>5, <1>7, <2>1, <2>2 DEF ToDo
<1>12. Counted'
  <2>1. \A d \in Counters : Due(d)' = Due(d)
    <3>1. \A u \in Threads : lock = u => u # t
      BY <1>1, <1>2 DEF Exclusive
    <3> QED
      BY <1>1, <1>2, <1>5, <3>1 DEF Due
  <2> QED
    BY <1>1, <1>2, <2>1 DEF Counted, Counters
<1>13. Suffix'
  BY <1>1, <1>2 DEF Suffix
<1>14. Behind'
  <2>1. Len(report'[t]) >= 1 => report'[t][1] <= counter["requests"]
    <3>1. CASE Len(seen) = 0
      BY <1>4, <1>6, <1>8, <3>1 DEF Fields
    <3>2. CASE Len(seen) > 0
      BY <1>1, <1>3, <1>8, <3>2 DEF Behind
    <3> QED
      BY <1>3, <3>1, <3>2
  <2> QED
    BY <1>1, <1>2, <1>5, <2>1 DEF Behind
<1>15. SnapshotOrdered'
  <2>1. /\ Len(report'[t]) >= 1 => Len(samples[t]) <= report'[t][1]
        /\ Len(report'[t]) >= 2 => TokensOf(samples[t]) <= report'[t][2]
        /\ Len(report'[t]) >= 4 => report'[t][1] <= report'[t][4]
    <3>1. /\ Len(samples[t]) <= counter["requests"] /\ TokensOf(samples[t]) <= counter["tokens"]
          /\ Len(seen) >= 1 => seen[1] <= counter["requests"]
      BY <1>1 DEF Behind
    <3>2. /\ Len(seen) >= 1 => Len(samples[t]) <= seen[1]
          /\ Len(seen) >= 2 => TokensOf(samples[t]) <= seen[2]
      BY <1>1 DEF SnapshotOrdered
    <3>3. Fields[1] = "requests" /\ Fields[2] = "tokens" /\ Fields[4] = "requests"
      BY DEF Fields
    <3>4. CASE Len(seen) = 0
      BY <1>4, <1>8, <3>1, <3>3, <3>4
    <3>5. CASE Len(seen) = 1
      BY <1>4, <1>8, <3>1, <3>2, <3>3, <3>5
    <3>6. CASE Len(seen) = 2
      BY <1>8, <3>2, <3>6
    <3>7. CASE Len(seen) = 3
      BY <1>4, <1>8, <3>1, <3>2, <3>3, <3>7
    <3> DEFINE L == Len(seen)
    <3>8. L \in Nat /\ L < 4
      BY <1>3
    <3> HIDE DEF L
    <3>9. L = 0 \/ L = 1 \/ L = 2 \/ L = 3
      BY <3>8
    <3> QED
      BY <3>4, <3>5, <3>6, <3>7, <3>9 DEF L
  <2> QED
    BY <1>1, <1>2, <1>5, <2>1 DEF SnapshotOrdered
<1> QED
  BY <1>9, <1>10, <1>11, <1>12, <1>13, <1>14, <1>15 DEF IInv

\* Every step keeps the invariant.
LEMMA StepInv == IInv /\ [Next]_metricsVars => IInv'
PROOF
<1> SUFFICES ASSUME IInv, [Next]_metricsVars PROVE IInv'
  OBVIOUS
<1>1. CASE UNCHANGED metricsVars
  <2>1. /\ now \in Nat
        /\ UNCHANGED <<now, lock, records, counter, pc, record, todo, reg, samples, report,
                       calls, entered, failures>>
    BY <1>1 DEF IInv, Typed, metricsVars, collector, threadVars, snapVars, history
  <2>2. Typed' /\ Exclusive' /\ ToDo'
    BY <2>1 DEF IInv, Typed, Exclusive, ToDo
  <2>3. now <= now' /\ \A c \in Counters : Due(c)' = Due(c)
    BY <2>1 DEF Due
  <2> QED
    BY <2>1, <2>2, <2>3, QuietInv
<1>2. CASE Tick
  BY <1>2, TickInv
<1>3. ASSUME NEW t \in Threads, \/ Stamp(t) \/ Enter(t) \/ EnterError(t) \/ Load(t)
                                \/ Store(t) \/ Release(t) \/ Copy(t) \/ Read(t)
      PROVE  IInv'
  BY <1>3, StampInv, EnterInv, EnterErrorInv, LoadInv, StoreInv, ReleaseInv, CopyInv, ReadInv
<1> QED
  BY <1>1, <1>2, <1>3 DEF Next

-----------------------------------------------------------------------------
(* The theorems                                                            *)

\* The inductive invariant holds in every reachable state.
THEOREM Invariance == Spec => []IInv
PROOF
  BY InitInv, StepInv, PTL DEF Spec

\* Every variable keeps its type, and nobody but the owner of the lock is at a
\* place that needs it.
THEOREM TypeCorrect == Spec => []TypeOK
PROOF
<1>1. IInv => TypeOK
  BY DEF IInv, Typed, Exclusive, TypeOK, Places
<1> QED
  BY <1>1, Invariance, PTL

\* No increment is lost, by any number of threads that record requests and
\* errors at the same time.
THEOREM NoUpdateLost == Spec => []CountersExact
PROOF
<1>1. IInv => CountersExact
  <2> SUFFICES ASSUME IInv, lock = NoThread
               PROVE  /\ counter["requests"] = Len(entered)
                      /\ counter["tokens"] = TokensOf(entered)
                      /\ counter["errors"] = failures
    BY DEF CountersExact
  <2>1. Due("requests") = 0 /\ Due("tokens") = 0 /\ Due("errors") = 0
    BY DueProperties DEF IInv, Counters
  <2>2. counter["requests"] \in Nat /\ counter["tokens"] \in Nat /\ counter["errors"] \in Nat
    BY DEF IInv, Typed, Counters
  <2> QED
    BY <2>1, <2>2 DEF IInv, Counted
<1> QED
  BY <1>1, Invariance, PTL

\* The window drops records in the order they entered, and only past ones.
THEOREM WindowLosesNothing == Spec => []WindowExact
PROOF
<1>1. IInv => WindowExact
  <2> SUFFICES ASSUME IInv PROVE WindowExact
    OBVIOUS
  <2>1. PICK gone \in 0 .. Len(entered) :
          /\ records = SubSeq(entered, gone + 1, Len(entered))
          /\ \A n \in 1 .. gone : entered[n].stamp + Window < now
    BY DEF IInv, Suffix
  <2>2. entered \in Seq(Rec) /\ Len(entered) \in Nat
    BY DEF IInv, Typed
  <2>3. Len(entered) - Len(records) = gone
    BY <2>1, <2>2
  <2> QED
    BY <2>1, <2>3 DEF WindowExact
<1> QED
  BY <1>1, Invariance, PTL

\* What get_metrics reports mixes moments in one direction only, although it
\* reads the counters after it let go of the lock.
THEOREM SnapshotsAreOrdered == Spec => []SnapshotOrdered
PROOF
<1>1. IInv => SnapshotOrdered
  BY DEF IInv
<1> QED
  BY <1>1, Invariance, PTL

\* Who prunes: a request being recorded, and a snapshot.
LEMMA OnlyTheyPrune ==
  ASSUME Typed, [Next]_metricsVars, NEW t \in Threads, Pruning(t)
  PROVE  records' = Pruned(records)
PROOF
<1>1. pc[t] # pc'[t] /\ pc \in [Threads -> Places]
  BY DEF Pruning, Typed
<1>2. PICK u \in Threads : \/ Stamp(u) \/ Enter(u) \/ EnterError(u) \/ Load(u)
                           \/ Store(u) \/ Release(u) \/ Copy(u) \/ Read(u)
  BY <1>1 DEF Next, Tick, metricsVars, threadVars
<1>3. \E place \in Places \cup {"load"} : pc' = [pc EXCEPT ![u] = place]
  BY <1>2 DEF Stamp, Enter, EnterError, Load, Store, Release, Copy, Read, Goto, Places
<1>4. u = t
  BY <1>1, <1>3
<1>5. CASE pc[t] = "prune" /\ pc'[t] = "idle"
  BY <1>2, <1>4, <1>5 DEF Stamp, Enter, EnterError, Load, Store, Release, Copy, Read
<1>6. CASE pc[t] = "idle" /\ pc'[t] = "read"
  BY <1>1, <1>2, <1>4, <1>6 DEF Stamp, Enter, EnterError, Load, Store, Release, Copy, Read, Goto
<1> QED
  BY <1>5, <1>6 DEF Pruning

\* A record past the window survives pruning only behind one with a later stamp:
\* pruning stops at a record that is not past it.
THEOREM OnlyTheOvertakenSurvive == Spec => StaleOnlyOvertaken
PROOF
<1>1. ASSUME IInv, [Next]_metricsVars
      PROVE  [(\E t \in Threads : Pruning(t)) =>
                \A n \in DOMAIN records' : records'[n].stamp + Window < now =>
                  \E m \in 1 .. n - 1 : records'[m].stamp > records'[n].stamp]_metricsVars
  <2> SUFFICES ASSUME NEW t \in Threads, Pruning(t),
                      NEW n \in DOMAIN records', records'[n].stamp + Window < now
               PROVE  \E m \in 1 .. n - 1 : records'[m].stamp > records'[n].stamp
    OBVIOUS
  <2>1. records' = Pruned(records) /\ records \in Seq(Rec) /\ now \in Nat
    BY <1>1, OnlyTheyPrune DEF IInv, Typed
  <2>2. PICK k \in 0 .. Len(records) :
          /\ Pruned(records) = SubSeq(records, k + 1, Len(records))
          /\ k < Len(records) => ~ IsOld(records[k + 1])
    BY <2>1, PrunedProperties
  <2>3. /\ n \in 1 .. Len(records) - k /\ records'[n] = records[k + n]
        /\ records'[1] = records[k + 1] /\ k < Len(records)
        /\ records[k + n] \in Rec /\ records[k + 1] \in Rec
    BY <2>1, <2>2
  <2>4. records'[1].stamp \in Nat /\ records'[n].stamp \in Nat
    BY <2>3 DEF Rec
  <2>5. records'[1].stamp + Window >= now
    BY <2>1, <2>2, <2>3, <2>4, MetricsAssumption DEF IsOld
  <2>6. records'[1].stamp > records'[n].stamp
    BY <2>1, <2>4, <2>5, MetricsAssumption
  <2>7. n # 1 /\ 1 \in 1 .. n - 1
    BY <2>3, <2>4, <2>6
  <2> QED
    BY <2>6, <2>7
<1> QED
  BY <1>1, Invariance, PTL DEF Spec, StaleOnlyOvertaken

-----------------------------------------------------------------------------
(* Percentiles                                                             *)

\* The samples below a value, and those that do not exceed it.
Below(s, v) == {n \in DOMAIN s : s[n] < v}
UpTo(s, v)  == {n \in DOMAIN s : s[n] <= v}

\* In a rising list the samples before a position do not exceed its sample, and
\* those below it stand before it; so the position fixes the percentile.
LEMMA RankOfPosition ==
  ASSUME NEW s \in Seq(Nat), \A n \in 2 .. Len(s) : s[n - 1] <= s[n],
         NEW k \in 0 .. Len(s) - 1
  PROVE  /\ Cardinality(Below(s, s[k + 1])) \in 0 .. k
         /\ Cardinality(UpTo(s, s[k + 1])) \in Nat
         /\ k + 1 <= Cardinality(UpTo(s, s[k + 1]))
PROOF
<1> DEFINE B == Below(s, s[k + 1])
           U == UpTo(s, s[k + 1])
<1>1. /\ Len(s) \in Nat /\ DOMAIN s = 1 .. Len(s) /\ k + 1 \in 1 .. Len(s)
      /\ k \in Nat /\ \A n \in 1 .. Len(s) : s[n] \in Nat
  OBVIOUS
<1>2. \A i, j \in 1 .. Len(s) : i <= j => s[i] <= s[j]
  <2>1. \A i \in 1 .. Len(s) : s[i] \in Int
    BY <1>1
  <2> QED
    BY <1>1, <2>1, RisingFar
<1>3. ASSUME NEW n \in B PROVE n \in 1 .. k
  <2>1. n \in 1 .. Len(s) /\ s[n] < s[k + 1]
    BY <1>1, <1>3 DEF Below
  <2>2. ~ (k + 1 <= n)
    BY <1>1, <1>2, <2>1
  <2> QED
    BY <1>1, <2>1, <2>2
<1>4. ASSUME NEW n \in 1 .. k + 1 PROVE n \in U
  <2>1. n \in 1 .. Len(s) /\ n <= k + 1
    BY <1>1
  <2> QED
    BY <1>1, <1>2, <2>1 DEF UpTo
<1>5. U \in SUBSET (1 .. Len(s))
  BY <1>1 DEF UpTo
<1> HIDE DEF B, U
<1>6. /\ IsFiniteSet(1 .. k) /\ Cardinality(1 .. k) = k
      /\ IsFiniteSet(1 .. k + 1) /\ Cardinality(1 .. k + 1) = k + 1
  <2>1. ASSUME NEW j \in Nat PROVE IsFiniteSet(1 .. j) /\ Cardinality(1 .. j) = j
    <3>1. Cardinality(1 .. j) = IF 1 > j THEN 0 ELSE j - 1 + 1
      BY FS_Interval
    <3> QED
      BY <3>1, FS_Interval
  <2> QED
    BY <1>1, <2>1
<1>7. Cardinality(B) \in Nat /\ Cardinality(B) <= k
  <2>1. B \in SUBSET (1 .. k)
    BY <1>3
  <2> QED
    BY <1>6, <2>1, CountGrows
<1>8. Cardinality(U) \in Nat /\ k + 1 <= Cardinality(U)
  <2>1. (1 .. k + 1) \in SUBSET U
    BY <1>4
  <2>2. IsFiniteSet(U)
    <3>1. IsFiniteSet(1 .. Len(s))
      BY <1>1, FS_Interval
    <3> QED
      BY <1>5, <3>1, FS_Subset
  <2>3. Cardinality(1 .. k + 1) <= Cardinality(U) /\ Cardinality(U) \in Nat
    BY <2>1, <2>2, CountGrows
  <2> QED
    BY <1>6, <2>3
<1> QED
  BY <1>1, <1>7, <1>8 DEF B, U

\* The index the code computes is that of a percentile, for every rising list.
LEMMA PercentileFits ==
  ASSUME NEW s \in Seq(Nat), s # <<>>, \A n \in 2 .. Len(s) : s[n - 1] <= s[n]
  PROVE  Fits(s)
PROOF
<1> SUFFICES ASSUME NEW p \in {50, 95, 99}
             PROVE  /\ 100 * Cardinality(Below(s, Percentile(s, p))) <= Len(s) * p
                    /\ Len(s) * p <= 100 * Cardinality(UpTo(s, Percentile(s, p)))
  BY DEF Fits, Below, UpTo
<1> DEFINE n == Len(s)
           a == (n * p) \div 100
           k == Min({a, n - 1})
<1>1. n \in Nat /\ n >= 1 /\ p \in Nat /\ p <= 99
  <2>1. n \in Nat /\ n # 0
    OBVIOUS
  <2> QED
    BY <2>1
<1>2. n * p \in Nat /\ n * p <= 100 * n /\ (p = 50 \/ p = 95 \/ p = 99)
  BY <1>1
<1>3. a \in Nat /\ 100 * a <= n * p /\ n * p < 100 * (a + 1)
  <2>1. \A m \in Nat : /\ m \div 100 \in Nat /\ 100 * (m \div 100) <= m
                       /\ m < 100 * (m \div 100 + 1)
    OBVIOUS
  <2> QED
    BY <1>2, <2>1
<1> HIDE DEF n, a
<1>4. k \in {a, n - 1} /\ k <= a /\ k <= n - 1
  <2>1. {a, n - 1} \in SUBSET Nat /\ {a, n - 1} # {}
    BY <1>1, <1>3
  <2> QED
    BY <2>1, LeastMember
<1> HIDE DEF k
<1>5. k \in 0 .. Len(s) - 1 /\ k \in Nat
  BY <1>1, <1>3, <1>4 DEF n
<1>6. Percentile(s, p) = s[k + 1]
  BY DEF Percentile, k, a, n
<1> DEFINE below == Cardinality(Below(s, s[k + 1]))
           upTo  == Cardinality(UpTo(s, s[k + 1]))
<1>7. below \in 0 .. k /\ upTo \in Nat /\ k + 1 <= upTo
  BY <1>5, RankOfPosition
<1> HIDE DEF below, upTo
<1>8. 100 * below <= n * p /\ n * p <= 100 * upTo
  <2>1. 100 * k <= n * p /\ n * p <= 100 * (k + 1)
    BY <1>1, <1>2, <1>3, <1>4
  <2>2. \A c, d \in Nat : c <= d => 100 * c <= 100 * d
    OBVIOUS
  <2> QED
    BY <1>2, <1>5, <1>7, <2>1, <2>2
<1> QED
  BY <1>6, <1>8 DEF below, upTo, n

\* The samples of a list of records can be sorted, and Measured is one of the ways.
LEMMA MeasuredProperties ==
  ASSUME NEW rs \in Seq(Rec)
  PROVE  /\ Measured(rs) \in Seq(Nat) /\ Len(Measured(rs)) = Len(rs)
         /\ \A n \in 2 .. Len(Measured(rs)) : Measured(rs)[n - 1] <= Measured(rs)[n]
PROOF
<1> DEFINE Listed(q) == [n \in DOMAIN rs |-> rs[q[n]].tokens]
           Rising(s) == \A n \in 2 .. Len(s) : s[n - 1] <= s[n]
           f == [n \in DOMAIN rs |-> rs[n].tokens]
<1>1. DOMAIN rs = 1 .. Len(rs) /\ Len(rs) \in Nat /\ \A n \in DOMAIN rs : rs[n] \in Rec
  OBVIOUS
<1>2. \A n \in DOMAIN rs : f[n] = rs[n].tokens /\ f[n] \in Nat
  BY <1>1 DEF Rec
<1>3. IsFiniteSet(DOMAIN rs) /\ Cardinality(DOMAIN rs) = Len(rs)
  <2>1. IsFiniteSet(1 .. Len(rs)) /\ Cardinality(1 .. Len(rs)) = Len(rs)
    BY <1>1, FS_Interval
  <2> QED
    BY <1>1, <2>1
<1> HIDE DEF f
<1>4. PICK q \in SetToSeqs(DOMAIN rs) : \A i \in 2 .. Len(q) : f[q[i - 1]] <= f[q[i]]
  BY <1>2, <1>3, SortingExists
<1>5. \A r \in SetToSeqs(DOMAIN rs) : r \in [1 .. Len(rs) -> DOMAIN rs] /\ Len(r) = Len(rs)
  BY <1>1, <1>3 DEF SetToSeqs
<1>6. ASSUME NEW r \in SetToSeqs(DOMAIN rs)
      PROVE  /\ Listed(r) \in Seq(Nat) /\ Len(Listed(r)) = Len(rs)
             /\ \A n \in 1 .. Len(rs) : r[n] \in DOMAIN rs /\ Listed(r)[n] = f[r[n]]
  <2>1. \A n \in 1 .. Len(rs) : r[n] \in DOMAIN rs
    BY <1>5
  <2>2. \A n \in 1 .. Len(rs) : rs[r[n]].tokens = f[r[n]] /\ f[r[n]] \in Nat
    BY <1>2, <2>1
  <2>3. Listed(r) \in [1 .. Len(rs) -> Nat]
    BY <1>1, <2>2
  <2>4. Listed(r) \in Seq(Nat) /\ Len(Listed(r)) = Len(rs)
    BY <1>1, <2>3
  <2> QED
    BY <1>1, <2>1, <2>2, <2>4
<1>7. Rising(Listed(q))
  <2> SUFFICES ASSUME NEW n \in 2 .. Len(Listed(q)) PROVE Listed(q)[n - 1] <= Listed(q)[n]
    OBVIOUS
  <2>1. n \in 2 .. Len(q) /\ n \in 1 .. Len(rs) /\ n - 1 \in 1 .. Len(rs)
    BY <1>1, <1>5, <1>6
  <2>2. Listed(q)[n - 1] = f[q[n - 1]] /\ Listed(q)[n] = f[q[n]]
    BY <1>6, <2>1
  <2> QED
    BY <1>4, <2>1, <2>2
<1> HIDE DEF Rising
<1>8. \E s \in {Listed(r) : r \in SetToSeqs(DOMAIN rs)} : Rising(s)
  BY <1>7
<1>9. Measured(rs) = CHOOSE s \in {Listed(r) : r \in SetToSeqs(DOMAIN rs)} : Rising(s)
  BY DEF Measured, Rising
<1>10. Measured(rs) \in {Listed(r) : r \in SetToSeqs(DOMAIN rs)} /\ Rising(Measured(rs))
  <2> DEFINE All == {Listed(r) : r \in SetToSeqs(DOMAIN rs)}
  <2> HIDE DEF All
  <2>1. \E s \in All : Rising(s)
    BY <1>8 DEF All
  <2>2. Measured(rs) = CHOOSE s \in All : Rising(s)
    BY <1>9 DEF All
  <2>3. Measured(rs) \in All /\ Rising(Measured(rs))
    BY <2>1, <2>2
  <2> QED
    BY <2>3 DEF All
<1>11. PICK r \in SetToSeqs(DOMAIN rs) : Measured(rs) = Listed(r)
  BY <1>10
<1>12. Measured(rs) \in Seq(Nat) /\ Len(Measured(rs)) = Len(rs)
  BY <1>6, <1>11
<1> QED
  BY <1>10, <1>12 DEF Rising

\* The percentiles of every snapshot, whatever it copied: at most p percent of the
\* samples are below the reported one, at least p percent do not exceed it.
THEOREM PercentilesFit == Spec => []Percentiles
PROOF
<1>1. ASSUME IInv PROVE Percentiles
  <2>1. ASSUME NEW t \in Threads, samples[t] # <<>> PROVE Fits(Measured(samples[t]))
    <3>1. samples[t] \in Seq(Rec)
      BY <1>1 DEF IInv, Typed
    <3>2. Len(samples[t]) # 0
      BY <2>1, <3>1
    <3> DEFINE s == Measured(samples[t])
    <3>3. /\ s \in Seq(Nat) /\ Len(s) = Len(samples[t])
          /\ \A n \in 2 .. Len(s) : s[n - 1] <= s[n]
      BY <3>1, MeasuredProperties
    <3> HIDE DEF s
    <3>4. s # <<>>
      BY <3>2, <3>3
    <3>5. Fits(s)
      BY <3>3, <3>4, PercentileFits
    <3> QED
      BY <3>5 DEF s
  <2>2. ASSUME NEW size \in SampleSizes PROVE Fits([n \in 1 .. size |-> n \div 3])
    <3>1. size \in Nat /\ size >= 1
      BY MetricsAssumption
    <3> DEFINE s == [n \in 1 .. size |-> n \div 3]
    <3>2. \A n \in Nat : n \div 3 \in Nat /\ (n - 1) \div 3 <= n \div 3
      OBVIOUS
    <3>3. s \in [1 .. size -> Nat]
      BY <3>1, <3>2
    <3>4. s \in Seq(Nat) /\ Len(s) = size
      BY <3>1, <3>3
    <3>5. ASSUME NEW n \in 2 .. Len(s) PROVE s[n - 1] <= s[n]
      <4>1. n \in 1 .. size /\ n - 1 \in 1 .. size /\ n \in Nat
        BY <3>1, <3>4
      <4> QED
        BY <3>2, <4>1
    <3> HIDE DEF s
    <3>6. s # <<>>
      BY <3>1, <3>4
    <3>7. Fits(s)
      BY <3>4, <3>5, <3>6, PercentileFits
    <3> QED
      BY <3>7 DEF s
  <2> QED
    BY <2>1, <2>2 DEF Percentiles
<1> QED
  BY <1>1, Invariance, PTL

=============================================================================
