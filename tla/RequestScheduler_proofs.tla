---------------------- MODULE RequestScheduler_proofs ----------------------
(***************************************************************************)
(* The request queue keeps its promises for every finite set of requests,  *)
(* every priority of each, every queue bound and every batch size.  OnePlace*)
(* and Ledger are not inductive alone: a request must be new to the        *)
(* containers when it is submitted, and under the fcfs policy nobody is    *)
(* overtaken only because the queue stays in the order of the arrivals.    *)
(***************************************************************************)
EXTENDS RequestScheduler, CollectionFacts

\* The queue knows each request by one life: it is constructed once, accepted at
\* most once, and what was never accepted has never been touched.
Lives ==
  /\ IsInjective(created) /\ IsInjective(arrivals)
  /\ Range(arrivals) = Placed
  /\ Placed \subseteq Range(created)
  /\ \A r \in Requests \ Placed : status[r] = "pending" /\ r \notin started

\* Unless a policy sorts it, the queue waits in the order of the arrivals.
ArrivalOrder ==
  policy # "priority" =>
    \A i, j \in DOMAIN pending :
      i < j => Position(arrivals, pending[i]) < Position(arrivals, pending[j])

IInv == TypeOK /\ OnePlace /\ Ledger /\ Lives /\ ArrivalOrder

-----------------------------------------------------------------------------
(* Positions in a sequence without repetition                              *)

\* Each member is found where it is, and appending a new one moves nobody.
LEMMA PositionProperties ==
  ASSUME NEW S, NEW q \in Seq(S), IsInjective(q)
  PROVE  /\ \A i \in DOMAIN q : Position(q, q[i]) = i
         /\ \A r \in S \ Range(q) :
              /\ Position(Append(q, r), r) = Len(q) + 1
              /\ \A x \in Range(q) : /\ Position(Append(q, r), x) = Position(q, x)
                                     /\ Position(q, x) \in 1 .. Len(q)
PROOF
<1>1. ASSUME NEW p \in Seq(S), IsInjective(p), NEW i \in DOMAIN p
      PROVE  Position(p, p[i]) = i
  BY <1>1 DEF IsInjective, Position
<1>2. ASSUME NEW r \in S \ Range(q)
      PROVE  /\ Position(Append(q, r), r) = Len(q) + 1
             /\ \A x \in Range(q) : /\ Position(Append(q, r), x) = Position(q, x)
                                    /\ Position(q, x) \in 1 .. Len(q)
  <2> DEFINE w == Append(q, r)
  <2>1. /\ w \in Seq(S) /\ IsInjective(w) /\ Len(w) = Len(q) + 1
        /\ w[Len(q) + 1] = r
        /\ \A i \in 1 .. Len(q) : w[i] = q[i]
    BY AppendFresh
  <2>2. /\ Len(q) \in Nat /\ DOMAIN q = 1 .. Len(q) /\ DOMAIN w = 1 .. Len(q) + 1
    BY <2>1
  <2> HIDE DEF w
  <2>3. Position(w, r) = Len(q) + 1
    BY <1>1, <2>1, <2>2
  <2>4. ASSUME NEW i \in 1 .. Len(q)
        PROVE  Position(w, q[i]) = i /\ Position(q, q[i]) = i
    <3>1. i \in DOMAIN w /\ w[i] = q[i] /\ i \in DOMAIN q
      BY <2>1, <2>2
    <3> QED
      BY <1>1, <2>1, <3>1
  <2> QED
    BY <2>2, <2>3, <2>4 DEF Range, w
<1> QED
  BY <1>1, <1>2

-----------------------------------------------------------------------------
(* The invariant is inductive                                              *)

\* Counting sets of requests: every such set is finite.
LEMMA Counting ==
  ASSUME NEW S \in SUBSET Requests
  PROVE  IsFiniteSet(S) /\ Cardinality(S) \in Nat
PROOF
  BY SchedulerAssumption, FS_Subset, FS_CardinalityType

\* A new scheduler is empty.
LEMMA InitInv == Init => IInv
PROOF
<1> SUFFICES ASSUME Init PROVE IInv
  OBVIOUS
<1>1. /\ Range(pending) = {} /\ Range(arrivals) = {} /\ Range(created) = {}
      /\ Placed = {}
  BY DEF Init, Range, Placed
<1>2. TypeOK
  BY SchedulerAssumption DEF Init, TypeOK, Statuses
<1>3. OnePlace
  BY <1>1 DEF Init, OnePlace, IsInjective
<1>4. Ledger
  BY FS_EmptySet DEF Init, Ledger
<1>5. Lives
  BY <1>1 DEF Init, Lives, IsInjective
<1>6. ArrivalOrder
  BY DEF Init, ArrivalOrder
<1> QED
  BY <1>2, <1>3, <1>4, <1>5, <1>6 DEF IInv

\* Constructing a request and letting its timeout pass touch no container.
LEMMA WaitingInv ==
  ASSUME IInv, NEW r \in Requests, Create(r) \/ Expire(r)
  PROVE  IInv'
PROOF
<1>1. TypeOK /\ OnePlace /\ Ledger /\ Lives /\ ArrivalOrder
  BY DEF IInv
<1>2. UNCHANGED <<policy, status, started, queueVars, countVars>>
  BY DEF Create, Expire
<1>3. /\ created' \in Seq(Requests) /\ IsInjective(created')
      /\ Range(created) \subseteq Range(created')
      /\ expired' \subseteq Requests
  <2>1. CASE Create(r)
    BY <1>1, <2>1, AppendFresh DEF Create, TypeOK, Lives
  <2>2. CASE Expire(r)
    BY <1>1, <2>2 DEF Expire, TypeOK, Lives
  <2> QED
    BY <2>1, <2>2
<1>4. TypeOK'
  BY <1>1, <1>2, <1>3 DEF TypeOK, queueVars, countVars
<1>5. OnePlace' /\ Ledger' /\ ArrivalOrder'
  BY <1>1, <1>2 DEF OnePlace, Ledger, ArrivalOrder, queueVars, countVars
<1>6. Lives'
  BY <1>1, <1>2, <1>3 DEF Lives, Placed, queueVars
<1> QED
  BY <1>4, <1>5, <1>6 DEF IInv

\* submit puts a new request at the end of the queue and of the arrivals.
LEMMA SubmitInv ==
  ASSUME IInv, NEW r \in Requests, Submit(r)
  PROVE  IInv'
PROOF
<1>1. TypeOK /\ OnePlace /\ Ledger /\ Lives /\ ArrivalOrder
  BY DEF IInv
<1>2. /\ r \in Range(created) \ Placed /\ Len(pending) < MaxQueueSize
      /\ pending' = Append(pending, r) /\ arrivals' = Append(arrivals, r)
      /\ totalSubmitted' = totalSubmitted + 1
      /\ UNCHANGED <<policy, created, expired, status, started, running, completed,
                     totalCompleted, totalCancelled, totalTimedOut>>
  BY <1>1, SchedulerAssumption DEF Submit, QueueFull, lifeVars, TypeOK
<1>3. r \notin Range(pending) /\ r \notin running /\ r \notin completed
  BY <1>2 DEF Placed
<1>4. /\ pending' \in Seq(Requests) /\ Len(pending') = Len(pending) + 1
      /\ IsInjective(pending') /\ Range(pending') = Range(pending) \cup {r}
      /\ pending'[Len(pending) + 1] = r
      /\ \A i \in 1 .. Len(pending) : pending'[i] = pending[i]
  BY <1>1, <1>2, <1>3, AppendFresh DEF TypeOK, OnePlace
<1>5. /\ arrivals' \in Seq(Requests) /\ Len(arrivals') = Len(arrivals) + 1
      /\ IsInjective(arrivals') /\ Range(arrivals') = Range(arrivals) \cup {r}
  BY <1>1, <1>2, AppendFresh DEF TypeOK, Lives
<1>6. Len(pending) \in Nat /\ Len(arrivals) \in Nat /\ MaxQueueSize \in Nat
      /\ DOMAIN pending = 1 .. Len(pending) /\ DOMAIN pending' = 1 .. Len(pending) + 1
  BY <1>1, <1>4, SchedulerAssumption DEF TypeOK
<1>7. TypeOK'
  BY <1>1, <1>2, <1>4, <1>5, <1>6 DEF TypeOK
<1>8. OnePlace'
  BY <1>1, <1>2, <1>3, <1>4 DEF OnePlace, Lives
<1>9. Ledger'
  <2>1. Cardinality(running) \in Nat /\ Cardinality(completed) \in Nat
    BY <1>1, Counting DEF TypeOK
  <2> QED
    BY <1>1, <1>2, <1>4, <1>5, <1>6, <2>1 DEF Ledger
<1>10. Placed' = Placed \cup {r}
  BY <1>2, <1>4 DEF Placed
<1>11. Lives'
  BY <1>1, <1>2, <1>5, <1>10 DEF Lives
<1>12. ArrivalOrder'
  <2> SUFFICES ASSUME policy # "priority", NEW i \in 1 .. Len(pending) + 1,
                      NEW j \in 1 .. Len(pending) + 1, i < j
               PROVE  Position(arrivals', pending'[i]) < Position(arrivals', pending'[j])
    BY <1>2, <1>6 DEF ArrivalOrder
  <2>1. i \in DOMAIN pending
    BY <1>6
  <2>2. r \in Requests \ Range(arrivals)
    BY <1>1, <1>2 DEF Lives
  <2>3. /\ Position(arrivals', r) = Len(arrivals) + 1
        /\ \A x \in Range(arrivals) : /\ Position(arrivals', x) = Position(arrivals, x)
                                      /\ Position(arrivals, x) \in 1 .. Len(arrivals)
    BY <1>1, <1>2, <2>2, PositionProperties DEF TypeOK, Lives
  <2>4. \A k \in DOMAIN pending : pending[k] \in Range(arrivals)
    BY <1>1 DEF Lives, Placed, Range
  <2>5. CASE j = Len(pending) + 1
    BY <1>4, <1>6, <2>1, <2>3, <2>4, <2>5
  <2>6. CASE j # Len(pending) + 1
    <3>1. j \in DOMAIN pending
      BY <1>6, <2>6
    <3>2. Position(arrivals, pending[i]) < Position(arrivals, pending[j])
      BY <1>1, <2>1, <3>1 DEF ArrivalOrder
    <3> QED
      BY <1>4, <1>6, <2>1, <2>3, <2>4, <3>1, <3>2
  <2> QED
    BY <2>5, <2>6
<1> QED
  BY <1>7, <1>8, <1>9, <1>11, <1>12 DEF IInv

\* get_next_batch deals the queue out: what has timed out, the batch, and what is
\* left behind, nobody twice, the batch ahead of the rest.
LEMMA Dealt ==
  ASSUME TypeOK, OnePlace, NEW n \in Nat, NEW q \in Orderings(Range(pending) \ TimedOut)
  PROVE  /\ Batch(n, q) \in Seq(Requests) /\ IsInjective(Batch(n, q))
         /\ LeftBehind(n, q) \in Seq(Requests) /\ IsInjective(LeftBehind(n, q))
         /\ Range(Batch(n, q)) \cap Range(LeftBehind(n, q)) = {}
         /\ Range(Batch(n, q)) \cup Range(LeftBehind(n, q)) = Range(pending) \ TimedOut
         /\ Len(Batch(n, q)) <= n
         /\ Len(pending) = Len(Batch(n, q)) + Len(LeftBehind(n, q)) + Cardinality(TimedOut)
         /\ Len(pending) <= n => LeftBehind(n, q) = <<>>
         /\ \A a \in Range(Batch(n, q)), b \in Range(LeftBehind(n, q)) : Ahead(a, b)
         /\ \A i, j \in DOMAIN LeftBehind(n, q) :
              i < j => Ahead(LeftBehind(n, q)[i], LeftBehind(n, q)[j])
PROOF
<1> DEFINE S == Range(pending) \ TimedOut
           m == BatchSize(n, q)
           u == Batch(n, q)
           v == LeftBehind(n, q)
<1>1. /\ pending \in Seq(Requests) /\ IsInjective(pending)
      /\ Range(pending) \in SUBSET Requests /\ TimedOut \in SUBSET Requests
      /\ S \in SUBSET Requests
  BY DEF TypeOK, OnePlace, Range, TimedOut
<1>2. /\ q \in [1 .. Cardinality(S) -> S] /\ IsInjective(q)
      /\ \A i, j \in DOMAIN q : i < j => Ahead(q[i], q[j])
  BY DEF Orderings
<1>3. q \in Seq(S) /\ Len(q) = Cardinality(S) /\ Range(q) = S
  BY <1>1, <1>2, Counting, ListsAll
<1>4. q \in Seq(Requests) /\ Len(q) \in Nat /\ DOMAIN q = 1 .. Len(q)
  BY <1>1, <1>3
<1>5. m \in 0 .. Len(q) /\ m <= n
  BY <1>4 DEF BatchSize
<1>6. u = SubSeq(q, 1, m) /\ v = SubSeq(q, m + 1, Len(q))
  BY DEF Batch, LeftBehind
<1> HIDE DEF S, m, u, v
<1>7. /\ u \in Seq(Requests) /\ IsInjective(u) /\ Len(u) = m
      /\ v \in Seq(Requests) /\ IsInjective(v) /\ Len(v) = Len(q) - m
      /\ \A i \in 1 .. m : u[i] = q[i]
      /\ \A i \in 1 .. Len(q) - m : v[i] = q[m + i]
      /\ Range(u) \cap Range(v) = {}
      /\ Range(u) \cup Range(v) = Range(q)
  <2>1. LET x == SubSeq(q, 1, m)
            y == SubSeq(q, m + 1, Len(q))
        IN  /\ x \in Seq(Requests) /\ IsInjective(x) /\ Len(x) = m
            /\ y \in Seq(Requests) /\ IsInjective(y) /\ Len(y) = Len(q) - m
            /\ \A i \in 1 .. m : x[i] = q[i]
            /\ \A i \in 1 .. Len(q) - m : y[i] = q[m + i]
            /\ Range(x) \cap Range(y) = {}
            /\ Range(x) \cup Range(y) = Range(q)
    BY <1>2, <1>4, <1>5, SplitProperties
  <2> QED
    BY <1>6, <2>1, Zenon
<1>8. DOMAIN u = 1 .. m /\ DOMAIN v = 1 .. Len(q) - m
  BY <1>7
<1>9. Len(pending) = Len(u) + Len(v) + Cardinality(TimedOut)
  <2>1. IsFiniteSet(Range(pending)) /\ Cardinality(Range(pending)) = Len(pending)
    BY <1>1, InjectiveLength
  <2>2. Range(pending) \cap TimedOut = TimedOut
    BY DEF TimedOut
  <2>3. Cardinality(S) = Cardinality(Range(pending)) - Cardinality(TimedOut)
    <3>1. Cardinality(Range(pending) \ TimedOut)
            = Cardinality(Range(pending)) - Cardinality(Range(pending) \cap TimedOut)
      BY <2>1, FS_Difference, Zenon
    <3> QED
      BY <2>2, <3>1, Zenon DEF S
  <2>4. Cardinality(TimedOut) \in Nat /\ Len(pending) \in Nat
    BY <1>1, Counting
  <2> QED
    BY <1>3, <1>4, <1>5, <1>7, <2>1, <2>3, <2>4
<1>10. Len(pending) <= n => v = <<>>
  <2>1. Cardinality(TimedOut) \in Nat /\ Len(pending) \in Nat /\ Len(u) \in Nat /\ Len(v) \in Nat
    BY <1>1, <1>7, Counting
  <2>2. m = IF n <= Len(q) THEN n ELSE Len(q)
    BY DEF m, BatchSize
  <2>3. Len(q) <= n => m = Len(q)
    <3>1. \A k \in Nat : k <= n /\ n <= k => k = n
      OBVIOUS
    <3> QED
      BY <1>4, <2>2, <3>1
  <2>4. Len(pending) = Len(q) + Cardinality(TimedOut) /\ Len(v) = Len(q) - m
    BY <1>4, <1>5, <1>7, <1>9
  <2>5. Len(pending) <= n => Len(v) = 0
    BY <1>4, <2>1, <2>3, <2>4
  <2> QED
    BY <1>7, <2>5
<1>11. ASSUME NEW a \in Range(u), NEW b \in Range(v) PROVE Ahead(a, b)
  <2>1. PICK i \in DOMAIN u, j \in DOMAIN v : a = u[i] /\ b = v[j]
    BY DEF Range
  <2>2. i \in 1 .. m /\ j \in 1 .. Len(q) - m
    BY <1>8, <2>1
  <2>3. i \in DOMAIN q /\ m + j \in DOMAIN q /\ i < m + j
    BY <1>4, <1>5, <2>2
  <2>4. a = q[i] /\ b = q[m + j]
    BY <1>7, <2>1, <2>2
  <2> QED
    BY <1>2, <2>3, <2>4
<1>12. ASSUME NEW i \in DOMAIN v, NEW j \in DOMAIN v, i < j PROVE Ahead(v[i], v[j])
  <2>1. /\ m + i \in DOMAIN q /\ m + j \in DOMAIN q /\ m + i < m + j
        /\ v[i] = q[m + i] /\ v[j] = q[m + j]
    BY <1>4, <1>5, <1>7, <1>8, <1>12
  <2> QED
    BY <1>2, <2>1
<1> QED
  BY <1>3, <1>5, <1>7, <1>9, <1>10, <1>11, <1>12 DEF S, u, v

\* get_next_batch keeps the invariant.
LEMMA BatchInv ==
  ASSUME IInv, NEW n \in Nat, NEW q, GetNextBatch(n, q)
  PROVE  IInv'
PROOF
<1> DEFINE u == Batch(n, q)
           v == LeftBehind(n, q)
<1>1. TypeOK /\ OnePlace /\ Ledger /\ Lives /\ ArrivalOrder
  BY DEF IInv
<1>2. /\ q \in Orderings(Range(pending) \ TimedOut)
      /\ pending' = v
      /\ running' = running \cup Range(u)
      /\ started' = started \cup Range(u)
      /\ completed' = completed \cup TimedOut
      /\ status' = [r \in Requests |->
                      IF r \in Range(u) THEN "running"
                      ELSE IF r \in TimedOut THEN "cancelled" ELSE status[r]]
      /\ totalTimedOut' = totalTimedOut + Cardinality(TimedOut)
      /\ UNCHANGED <<policy, created, expired, arrivals,
                     totalSubmitted, totalCompleted, totalCancelled>>
  BY DEF GetNextBatch
<1>3. /\ u \in Seq(Requests) /\ IsInjective(u) /\ v \in Seq(Requests) /\ IsInjective(v)
      /\ Range(u) \cap Range(v) = {}
      /\ Range(u) \cup Range(v) = Range(pending) \ TimedOut
      /\ Len(pending) = Len(u) + Len(v) + Cardinality(TimedOut)
      /\ \A i, j \in DOMAIN v : i < j => Ahead(v[i], v[j])
  BY <1>1, <1>2, Dealt
<1>4. TimedOut \subseteq Range(pending)
  BY DEF TimedOut
<1> HIDE DEF u, v
<1>5. /\ Range(u) \subseteq Requests /\ Range(pending) \subseteq Requests
      /\ Len(u) \in Nat /\ Len(v) \in Nat /\ Cardinality(TimedOut) \in Nat
  <2>1. Range(u) \subseteq Requests /\ Range(pending) \subseteq Requests
    BY <1>1, <1>3, RangeOfSeq DEF TypeOK
  <2> QED
    BY <1>3, <1>4, <2>1, Counting
<1>6. TypeOK'
  <2>1. status' \in [Requests -> Statuses]
    BY <1>1, <1>2 DEF TypeOK, Statuses
  <2>2. Len(v) <= MaxQueueSize
    BY <1>1, <1>3, <1>5, SchedulerAssumption DEF TypeOK
  <2> QED
    BY <1>1, <1>2, <1>3, <1>4, <1>5, <2>1, <2>2 DEF TypeOK
<1>7. /\ Range(u) \cap TimedOut = {} /\ Range(v) \cap TimedOut = {}
      /\ Range(v) \subseteq Range(pending) /\ Range(u) \subseteq Range(pending)
  BY <1>3
<1>8. OnePlace'
  <2>1. /\ Range(v) \cap (running' \cup completed') = {}
        /\ running' \cap completed' = {}
    BY <1>1, <1>2, <1>3, <1>4, <1>7 DEF OnePlace
  <2>2. ASSUME NEW r \in Requests
        PROVE  /\ r \in Range(v) => status'[r] = "pending" /\ r \notin started'
               /\ r \in running' => r \in started'
               /\ status'[r] = "running" => r \in running'
               /\ r \in completed' => status'[r] \notin {"pending", "running"}
    <3>1. /\ r \in Range(pending) => status[r] = "pending" /\ r \notin started
          /\ r \in running => r \in started
          /\ status[r] = "running" => r \in running
          /\ r \in completed => status[r] \notin {"pending", "running"}
      BY <1>1 DEF OnePlace
    <3>2. CASE r \in Range(u)
      BY <1>1, <1>2, <1>3, <1>7, <3>2 DEF OnePlace
    <3>3. CASE r \in TimedOut
      BY <1>2, <1>4, <1>7, <3>1, <3>3
    <3>4. CASE r \notin Range(u) /\ r \notin TimedOut
      BY <1>2, <1>7, <3>1, <3>4
    <3> QED
      BY <3>2, <3>3, <3>4
  <2> QED
    BY <1>2, <1>3, <2>1, <2>2 DEF OnePlace
<1>9. Ledger'
  <2>1. /\ IsFiniteSet(running) /\ Cardinality(running) \in Nat
        /\ IsFiniteSet(completed) /\ Cardinality(completed) \in Nat
        /\ IsFiniteSet(TimedOut)
    BY <1>1, <1>4, <1>5, Counting DEF TypeOK
  <2>2. IsFiniteSet(Range(u)) /\ Cardinality(Range(u)) = Len(u)
    BY <1>3, InjectiveLength
  <2>3. running \cap Range(u) = {} /\ completed \cap TimedOut = {}
    BY <1>1, <1>4, <1>7 DEF OnePlace
  <2>4. Cardinality(running') = Cardinality(running) + Len(u)
    BY <1>2, <2>1, <2>2, <2>3, CountApart, Zenon
  <2>5. Cardinality(completed') = Cardinality(completed) + Cardinality(TimedOut)
    BY <1>2, <2>1, <2>3, CountApart, Zenon
  <2>6. /\ pending' = v /\ totalTimedOut' = totalTimedOut + Cardinality(TimedOut)
        /\ UNCHANGED <<arrivals, totalSubmitted, totalCompleted, totalCancelled>>
    BY <1>2
  <2>7. /\ Len(pending) = Len(u) + Len(v) + Cardinality(TimedOut)
        /\ Cardinality(completed) = totalCompleted + totalCancelled + totalTimedOut
        /\ totalSubmitted = Len(pending) + Cardinality(running) + Cardinality(completed)
        /\ totalSubmitted = Len(arrivals)
        /\ totalCompleted \in Nat /\ totalCancelled \in Nat /\ totalTimedOut \in Nat
    BY <1>1, <1>3 DEF Ledger, TypeOK
  <2>8. Cardinality(completed') = totalCompleted + totalCancelled + totalTimedOut'
    BY <1>5, <2>5, <2>6, <2>7
  <2>9. totalSubmitted = Len(v) + Cardinality(running') + Cardinality(completed')
    BY <1>5, <2>1, <2>4, <2>5, <2>7
  <2> QED
    BY <2>6, <2>7, <2>8, <2>9 DEF Ledger
<1>10. Placed' = Placed
  BY <1>2, <1>3, <1>4 DEF Placed
<1>11. Lives'
  <2>1. ASSUME NEW r \in Requests \ Placed PROVE status'[r] = "pending" /\ r \notin started'
    <3>1. status[r] = "pending" /\ r \notin started /\ r \notin Range(pending)
      BY <1>1 DEF Lives, Placed
    <3> QED
      BY <1>2, <1>4, <1>7, <3>1
  <2> QED
    BY <1>1, <1>2, <1>10, <2>1 DEF Lives
<1>12. ArrivalOrder'
  <2> SUFFICES ASSUME policy # "priority", NEW i \in DOMAIN v, NEW j \in DOMAIN v, i < j
               PROVE  Position(arrivals, v[i]) < Position(arrivals, v[j])
    BY <1>2 DEF ArrivalOrder
  <2>1. Position(pending, v[i]) < Position(pending, v[j])
    BY <1>3 DEF Ahead
  <2>2. v[i] \in Range(pending) /\ v[j] \in Range(pending)
    BY <1>7 DEF Range
  <2>3. PICK a \in DOMAIN pending, b \in DOMAIN pending :
          v[i] = pending[a] /\ v[j] = pending[b]
    BY <2>2 DEF Range
  <2>4. Position(pending, v[i]) = a /\ Position(pending, v[j]) = b
    BY <1>1, <2>3, PositionProperties DEF TypeOK, OnePlace
  <2> QED
    BY <1>1, <2>1, <2>3, <2>4 DEF ArrivalOrder
<1> QED
  BY <1>6, <1>8, <1>9, <1>11, <1>12 DEF IInv

\* A request that ends while it runs, completed or cancelled.
LEMMA LeavesRunning ==
  ASSUME IInv, NEW r \in running, NEW what \in {"completed", "cancelled"},
         running' = running \ {r}, completed' = completed \cup {r},
         status' = [status EXCEPT ![r] = what],
         \/ totalCompleted' = totalCompleted + 1 /\ UNCHANGED totalCancelled
         \/ totalCancelled' = totalCancelled + 1 /\ UNCHANGED totalCompleted,
         UNCHANGED <<policy, created, expired, started, pending, arrivals,
                     totalSubmitted, totalTimedOut>>
  PROVE  IInv'
PROOF
<1>1. TypeOK /\ OnePlace /\ Ledger /\ Lives /\ ArrivalOrder
  BY DEF IInv
<1>2. r \in Requests /\ r \notin completed /\ r \notin Range(pending)
  BY <1>1 DEF TypeOK, OnePlace
<1>3. TypeOK'
  BY <1>1, <1>2 DEF TypeOK, Statuses
<1>4. OnePlace'
  BY <1>1, <1>2 DEF OnePlace, TypeOK
<1>5. Ledger'
  <2>1. /\ IsFiniteSet(running) /\ Cardinality(running) \in Nat
        /\ IsFiniteSet(completed) /\ Cardinality(completed) \in Nat
    BY <1>1, Counting DEF TypeOK
  <2>2. Cardinality(running') = Cardinality(running) - 1
    BY <2>1, FS_RemoveElement
  <2>3. Cardinality(completed') = Cardinality(completed) + 1
    BY <1>2, <2>1, FS_AddElement
  <2>4. /\ Cardinality(completed) = totalCompleted + totalCancelled + totalTimedOut
        /\ totalSubmitted = Len(pending) + Cardinality(running) + Cardinality(completed)
        /\ totalSubmitted = Len(arrivals) /\ Len(pending) \in Nat
        /\ totalCompleted \in Nat /\ totalCancelled \in Nat /\ totalTimedOut \in Nat
    BY <1>1 DEF Ledger, TypeOK
  <2>5. Cardinality(completed') = totalCompleted' + totalCancelled' + totalTimedOut
    BY <2>3, <2>4
  <2>6. totalSubmitted = Len(pending) + Cardinality(running') + Cardinality(completed')
    BY <2>1, <2>2, <2>3, <2>4
  <2> QED
    BY <2>4, <2>5, <2>6 DEF Ledger
<1>6. Placed' = Placed
  BY DEF Placed
<1>7. Lives'
  BY <1>1, <1>6 DEF Lives, Placed, TypeOK
<1>8. ArrivalOrder'
  BY <1>1 DEF ArrivalOrder
<1> QED
  BY <1>3, <1>4, <1>5, <1>7, <1>8 DEF IInv

\* A request that is cancelled while it waits; the queue keeps its order.
LEMMA LeavesPending ==
  ASSUME IInv, NEW r \in Range(pending), pending' = RemoveFirst(pending, r),
         completed' = completed \cup {r}, status' = [status EXCEPT ![r] = "cancelled"],
         totalCancelled' = totalCancelled + 1,
         UNCHANGED <<policy, created, expired, started, running, arrivals,
                     totalSubmitted, totalCompleted, totalTimedOut>>
  PROVE  IInv'
PROOF
<1>1. TypeOK /\ OnePlace /\ Ledger /\ Lives /\ ArrivalOrder
  BY DEF IInv
<1>2. /\ r \in Requests /\ r \notin completed /\ r \notin running
      /\ pending \in Seq(Requests) /\ IsInjective(pending)
  BY <1>1, RangeOfSeq DEF TypeOK, OnePlace
<1>3. /\ pending' \in Seq(Requests) /\ IsInjective(pending')
      /\ Range(pending') = Range(pending) \ {r}
      /\ \A a, b \in DOMAIN pending' : a < b =>
           \E k, m \in DOMAIN pending : /\ k < m /\ pending'[a] = pending[k]
                                        /\ pending'[b] = pending[m]
  BY <1>2, RemoveFirstProperties
<1>4. Len(pending') = Len(pending) - 1 /\ Len(pending) \in Nat
  <2>1. /\ IsFiniteSet(Range(pending)) /\ Cardinality(Range(pending)) = Len(pending)
        /\ Cardinality(Range(pending')) = Len(pending')
    BY <1>2, <1>3, InjectiveLength
  <2>2. Cardinality(Range(pending) \ {r}) = Cardinality(Range(pending)) - 1
    BY <2>1, FS_RemoveElement
  <2> QED
    BY <1>2, <1>3, <2>1, <2>2
<1>5. TypeOK'
  BY <1>1, <1>2, <1>3, <1>4, SchedulerAssumption DEF TypeOK, Statuses
<1>6. OnePlace'
  BY <1>1, <1>2, <1>3 DEF OnePlace, TypeOK
<1>7. Ledger'
  <2>1. /\ Cardinality(running) \in Nat
        /\ IsFiniteSet(completed) /\ Cardinality(completed) \in Nat
    BY <1>1, Counting DEF TypeOK
  <2>2. Cardinality(completed') = Cardinality(completed) + 1
    BY <1>2, <2>1, FS_AddElement
  <2> QED
    BY <1>1, <1>4, <2>1, <2>2 DEF Ledger, TypeOK
<1>8. Placed' = Placed
  BY <1>3 DEF Placed
<1>9. Lives'
  BY <1>1, <1>8 DEF Lives, Placed, TypeOK
<1>10. ArrivalOrder'
  BY <1>1, <1>3 DEF ArrivalOrder
<1> QED
  BY <1>5, <1>6, <1>7, <1>9, <1>10 DEF IInv

\* Every call keeps the invariant.
LEMMA StepInv == IInv /\ [Next]_schedVars => IInv'
PROOF
<1> SUFFICES ASSUME IInv, [Next]_schedVars PROVE IInv'
  OBVIOUS
<1>1. TypeOK /\ OnePlace /\ Ledger /\ Lives /\ ArrivalOrder
  BY DEF IInv
<1>2. ASSUME NEW r \in Requests, Create(r) \/ Expire(r) PROVE IInv'
  BY <1>2, WaitingInv
<1>3. ASSUME NEW r \in Requests, Submit(r) PROVE IInv'
  BY <1>3, SubmitInv
<1>4. ASSUME NEW r \in Requests, CompleteRequest(r) PROVE IInv'
  <2>1. /\ r \in running /\ running' = running \ {r} /\ completed' = completed \cup {r}
        /\ status' = [status EXCEPT ![r] = "completed"]
        /\ totalCompleted' = totalCompleted + 1
        /\ UNCHANGED <<policy, created, expired, started, pending, arrivals,
                       totalSubmitted, totalCancelled, totalTimedOut>>
    BY <1>4 DEF CompleteRequest
  <2> QED
    BY <2>1, LeavesRunning
<1>5. ASSUME NEW r \in Requests, CancelRequest(r) PROVE IInv'
  <2>1. CASE r \in Range(pending) /\ pending' = RemoveFirst(pending, r) /\ UNCHANGED running
    BY <1>5, <2>1, LeavesPending DEF CancelRequest
  <2>2. CASE r \in running \ Range(pending) /\ running' = running \ {r} /\ UNCHANGED pending
    <3>1. /\ completed' = completed \cup {r}
          /\ status' = [status EXCEPT ![r] = "cancelled"]
          /\ totalCancelled' = totalCancelled + 1
          /\ UNCHANGED <<policy, created, expired, started, arrivals,
                         totalSubmitted, totalCompleted, totalTimedOut>>
      BY <1>5 DEF CancelRequest
    <3> QED
      BY <2>2, <3>1, LeavesRunning
  <2> QED
    BY <1>5, <2>1, <2>2 DEF CancelRequest
<1>6. ASSUME NEW r \in Requests, Fail(r) PROVE IInv'
  <2>1. /\ r \in started /\ status' = [status EXCEPT ![r] = "failed"]
        /\ UNCHANGED <<policy, created, expired, started, queueVars, countVars>>
    BY <1>6 DEF Fail
  <2>2. r \in Placed
    BY <1>1, <2>1 DEF Lives
  <2>3. TypeOK'
    BY <1>1, <2>1 DEF TypeOK, Statuses, queueVars, countVars
  <2>4. OnePlace'
    BY <1>1, <2>1 DEF OnePlace, TypeOK, queueVars
  <2>5. Ledger' /\ ArrivalOrder'
    BY <1>1, <2>1 DEF Ledger, ArrivalOrder, queueVars, countVars
  <2>6. Lives'
    BY <1>1, <2>1, <2>2 DEF Lives, Placed, TypeOK, queueVars
  <2> QED
    BY <2>3, <2>4, <2>5, <2>6 DEF IInv
<1>7. ASSUME NEW n \in BatchSizes, NEW q, GetNextBatch(n, q) PROVE IInv'
  BY <1>7, BatchInv, SchedulerAssumption
<1>8. CASE UNCHANGED schedVars
  BY <1>1, <1>8 DEF IInv, TypeOK, OnePlace, Ledger, Lives, Placed, ArrivalOrder,
     schedVars, lifeVars, queueVars, countVars
<1> QED
  BY <1>2, <1>3, <1>4, <1>5, <1>6, <1>7, <1>8 DEF Next

-----------------------------------------------------------------------------
(* What holds in every state                                               *)

\* After any sequence of calls the containers, the statuses, the counters and the
\* order of the queue agree.
THEOREM Invariance == Spec => []IInv
PROOF
<1>1. Init => IInv
  BY InitInv
<1>2. IInv /\ [Next]_schedVars => IInv'
  BY StepInv
<1> QED
  BY <1>1, <1>2, PTL DEF Spec

\* The variables of the scheduler keep their types; the queue never outgrows
\* max_queue_size.
THEOREM TypeCorrect == Spec => []TypeOK
PROOF
<1>1. IInv => TypeOK
  BY DEF IInv
<1> QED
  BY <1>1, Invariance, PTL

\* However batches, completions, cancellations and timeouts follow each other, a
\* request is in one container, and its status says which.
THEOREM InOnePlace == Spec => []OnePlace
PROOF
<1>1. IInv => OnePlace
  BY DEF IInv
<1> QED
  BY <1>1, Invariance, PTL

\* The counters of get_stats balance: what was submitted waits, runs or was
\* counted as finished exactly once.
THEOREM Balanced == Spec => []Ledger
PROOF
<1>1. IInv => Ledger
  BY DEF IInv
<1> QED
  BY <1>1, Invariance, PTL

-----------------------------------------------------------------------------
(* What no step does                                                       *)

\* Only get_next_batch starts requests: those of its batch, which have not timed
\* out.
LEMMA OnlyBatchStarts ==
  ASSUME IInv, Next, started' # started
  PROVE  \E n \in Nat, q \in Orderings(Range(pending) \ TimedOut) :
           /\ pending' = LeftBehind(n, q)
           /\ started' = started \cup Range(Batch(n, q))
PROOF
<1>1. ASSUME NEW r \in Requests,
             \/ Create(r) \/ Expire(r) \/ Submit(r) \/ CompleteRequest(r)
             \/ CancelRequest(r) \/ Fail(r)
      PROVE  started' = started
  BY <1>1 DEF Create, Expire, Submit, CompleteRequest, CancelRequest, Fail, lifeVars
<1>2. PICK n \in BatchSizes : \E q \in Orderings(Range(pending) \ TimedOut) :
                                GetNextBatch(n, q)
  BY <1>1 DEF Next
<1> QED
  BY <1>2, SchedulerAssumption DEF GetNextBatch

\* get_next_batch never starts a request whose timeout has passed.
THEOREM NothingStaleStarts == Spec => NoStaleStart
PROOF
<1>1. IInv /\ [Next]_schedVars => [(started' \ started) \cap expired = {}]_schedVars
  <2> SUFFICES ASSUME IInv, Next, started' # started
               PROVE  (started' \ started) \cap expired = {}
    OBVIOUS
  <2>1. PICK n \in Nat, q \in Orderings(Range(pending) \ TimedOut) :
          started' = started \cup Range(Batch(n, q))
    BY OnlyBatchStarts
  <2>2. Range(Batch(n, q)) \subseteq Range(pending) \ TimedOut
    BY Dealt DEF IInv
  <2> QED
    BY <2>1, <2>2 DEF TimedOut
<1> QED
  BY <1>1, Invariance, PTL DEF Spec, NoStaleStart

\* Whatever was batched, cancelled or timed out before, a request that starts
\* precedes every request that goes on waiting: by priority and then creation, or
\* by submission under fcfs.
THEOREM NobodyOvertaken == Spec => NoOvertaking
PROOF
<1>1. IInv /\ [Next]_schedVars
      => [\A r \in started' \ started, w \in Range(pending') : Precedes(r, w)]_schedVars
  <2> SUFFICES ASSUME IInv, Next, NEW r \in started' \ started, NEW w \in Range(pending')
               PROVE  Precedes(r, w)
    OBVIOUS
  <2>1. TypeOK /\ OnePlace /\ Lives /\ ArrivalOrder
    BY DEF IInv
  <2>2. PICK n \in Nat, q \in Orderings(Range(pending) \ TimedOut) :
          /\ pending' = LeftBehind(n, q)
          /\ started' = started \cup Range(Batch(n, q))
    BY OnlyBatchStarts
  <2>3. r \in Range(Batch(n, q)) /\ w \in Range(LeftBehind(n, q))
    BY <2>2
  <2>4. Ahead(r, w) /\ r \in Range(pending) /\ w \in Range(pending)
    BY <2>1, <2>3, Dealt
  <2>5. CASE policy = "priority"
    BY <2>4, <2>5 DEF Ahead, Precedes
  <2>6. CASE policy # "priority"
    <3>1. PICK i \in DOMAIN pending, j \in DOMAIN pending :
            r = pending[i] /\ w = pending[j]
      BY <2>4 DEF Range
    <3>2. Position(pending, r) = i /\ Position(pending, w) = j
      BY <2>1, <3>1, PositionProperties DEF TypeOK, OnePlace
    <3>3. i < j
      BY <2>4, <2>6, <3>2 DEF Ahead
    <3> QED
      BY <2>1, <2>6, <3>1, <3>3 DEF ArrivalOrder, Precedes
  <2> QED
    BY <2>5, <2>6
<1> QED
  BY <1>1, Invariance, PTL DEF Spec, NoOvertaking

\* No call drops a request that was accepted, and none revives one that has ended.
THEOREM NobodyForgotten == Spec => NothingForgotten
PROOF
<1>1. IInv /\ [Next]_schedVars
      => [Placed \subseteq Placed' /\ completed \subseteq completed']_schedVars
  <2> SUFFICES ASSUME IInv, Next
               PROVE  Placed \subseteq Placed' /\ completed \subseteq completed'
    OBVIOUS
  <2>1. TypeOK /\ OnePlace
    BY DEF IInv
  <2>2. ASSUME NEW r \in Requests, Create(r) \/ Expire(r) \/ Fail(r)
        PROVE  Placed' = Placed /\ completed' = completed
    BY <2>2 DEF Create, Expire, Fail, Placed, queueVars
  <2>3. ASSUME NEW r \in Requests, Submit(r)
        PROVE  Placed \subseteq Placed' /\ completed' = completed
    <3>1. /\ pending' = Append(pending, r) /\ r \notin Range(pending)
          /\ UNCHANGED <<running, completed>>
      BY <2>3 DEF Submit, Placed
    <3>2. Range(pending') = Range(pending) \cup {r}
      BY <2>1, <3>1, AppendFresh DEF TypeOK, OnePlace
    <3> QED
      BY <3>1, <3>2 DEF Placed
  <2>4. ASSUME NEW r \in Requests, CompleteRequest(r)
        PROVE  Placed \subseteq Placed' /\ completed \subseteq completed'
    BY <2>4 DEF CompleteRequest, Placed
  <2>5. ASSUME NEW r \in Requests, CancelRequest(r)
        PROVE  Placed \subseteq Placed' /\ completed \subseteq completed'
    <3>1. Range(RemoveFirst(pending, r)) = Range(pending) \ {r}
      BY <2>1, RemoveFirstProperties DEF TypeOK, OnePlace
    <3> QED
      BY <2>5, <3>1 DEF CancelRequest, Placed
  <2>6. ASSUME NEW n \in BatchSizes, NEW q \in Orderings(Range(pending) \ TimedOut),
               GetNextBatch(n, q)
        PROVE  Placed \subseteq Placed' /\ completed \subseteq completed'
    <3>1. Range(Batch(n, q)) \cup Range(LeftBehind(n, q)) = Range(pending) \ TimedOut
      BY <2>1, Dealt, SchedulerAssumption
    <3>2. /\ pending' = LeftBehind(n, q) /\ running' = running \cup Range(Batch(n, q))
          /\ completed' = completed \cup TimedOut
      BY <2>6 DEF GetNextBatch
    <3> QED
      BY <3>1, <3>2 DEF Placed
  <2> QED
    BY <2>2, <2>3, <2>4, <2>5, <2>6 DEF Next
<1> QED
  BY <1>1, Invariance, PTL DEF Spec, NothingForgotten

=============================================================================
