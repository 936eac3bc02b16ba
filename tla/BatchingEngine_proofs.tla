----------------------- MODULE BatchingEngine_proofs -----------------------
(***************************************************************************)
(* The engine keeps its books for every batch limit, pool, queue and set of*)
(* requests.  What the queue promises is not proved again: the engine's    *)
(* steps are steps of the queue (SchedContract), so the invariant of       *)
(* RequestScheduler_proofs holds inside the engine.  What is added is which*)
(* part of the engine holds a request that was started.                    *)
(***************************************************************************)
EXTENDS BatchingEngine, CollectionFacts

\* The proofs about the queue, for the batch sizes the engine asks for.
SP == INSTANCE RequestScheduler_proofs WITH
        BatchSizes <- UNION {1 .. n : n \in BatchLimits}

\* A request that was started is in one part of the engine at most: about to
\* join, in the batch, or returned.  What was returned runs no more.
Held ==
  /\ IsInjective(active) /\ IsInjective(toAdmit) /\ IsInjective(finishing)
  /\ SeqSet \cap Range(toAdmit) = {}
  /\ Range(returned) \cap (SeqSet \cup Range(toAdmit) \cup running) = {}
  /\ SeqSet \cup Range(toAdmit) \cup Range(returned) \subseteq started
  /\ Range(finishing) \subseteq SeqSet

\* What is left of each loop of step() where step() is.
Stages ==
  /\ pc = "retry" => toAdmit # <<>>
  /\ pc \in {"idle", "forward", "finish"} => toAdmit = <<>>
  /\ pc = "finish" <=> finishing # <<>>

\* Nothing was generated for a request before it joined.
Untouched ==
  \A r \in Requests : r \notin started \/ r \in Range(toAdmit) => generated[r] = 0

\* The books; the tokens as a sum that can be reasoned about.
Counted ==
  /\ IsInjective(returned) /\ totalRequests = Len(returned)
  /\ totalTokens = SumOver(generated, Requests)
  /\ \A r \in Requests :
       /\ status[r] = "completed" => r \in Range(returned)
       /\ generated[r] <= MaxTokens[r]
       /\ r \in SeqSet /\ generated[r] = MaxTokens[r] => r \in Range(finishing)

\* What evictions cost.
Costs ==
  /\ refused \subseteq Dropped
  /\ totalEvicted \in Nat /\ totalEvicted = Cardinality(Dropped \ refused)
  /\ \A r \in Dropped : status[r] \in {"failed", "cancelled"}
  /\ \A r \in Range(returned) : status[r] \in {"completed", "cancelled"}

IInv ==
  /\ SP!IInv /\ TypeOK /\ CacheFollowsBatch /\ Held /\ Stages /\ Untouched
  /\ RunningIsServed /\ Counted /\ Costs

-----------------------------------------------------------------------------
(* The queue inside the engine                                             *)

\* The queue's own constants are what it assumes of them.
LEMMA QueueAssumption == SP!SchedulerAssumption
PROOF
<1>1. UNION {1 .. n : n \in BatchLimits} \subseteq Nat
  BY EngineAssumption
<1> QED
  BY <1>1, EngineAssumption DEF SP!SchedulerAssumption, SP!IsFiniteSet, IsFiniteSet

\* The three copies of the module's operators say the same.
LEMMA SameRange == /\ \A q : SP!Range(q) = Range(q)
                   /\ \A q : Sched!Range(q) = Range(q)
                   /\ \A q : Cache!Range(q) = Range(q)
PROOF
  BY DEF SP!Range, Sched!Range, Cache!Range, Range

\* The instances' copies of a library operator are the operator itself.
LEMMA SameRemoveFirst == /\ \A q, s : SP!RemoveFirst(q, s) = RemoveFirst(q, s)
                         /\ \A q, s : Sched!RemoveFirst(q, s) = RemoveFirst(q, s)
                         /\ \A q, s : Cache!RemoveFirst(q, s) = RemoveFirst(q, s)
PROOF
<1>1. \A q, s : SP!RemoveFirst(q, s) = RemoveFirst(q, s)
  BY DEF SP!RemoveFirst, SP!RemoveAt, SP!SelectInSeq, SP!Min,
         RemoveFirst, RemoveAt, SelectInSeq, Min
<1>2. \A q, s : Sched!RemoveFirst(q, s) = RemoveFirst(q, s)
  BY DEF Sched!RemoveFirst, Sched!RemoveAt, Sched!SelectInSeq, Sched!Min,
         RemoveFirst, RemoveAt, SelectInSeq, Min
<1>3. \A q, s : Cache!RemoveFirst(q, s) = RemoveFirst(q, s)
  BY DEF Cache!RemoveFirst, Cache!RemoveAt, Cache!SelectInSeq, Cache!Min,
         RemoveFirst, RemoveAt, SelectInSeq, Min
<1> QED
  BY <1>1, <1>2, <1>3

\* The two instances of the queue order and cut the waiting requests alike.
LEMMA SameOrderings ==
  /\ SP!TimedOut = Sched!TimedOut
  /\ \A S : SP!Orderings(S) = Sched!Orderings(S)
  /\ \A n, q : SP!Batch(n, q) = Sched!Batch(n, q) /\ SP!LeftBehind(n, q) = Sched!LeftBehind(n, q)
PROOF
<1>1. SP!TimedOut = Sched!TimedOut
  BY DEF SP!TimedOut, Sched!TimedOut, SP!Range, Sched!Range
<1>2. \A S : SP!Cardinality(S) = Sched!Cardinality(S)
  BY DEF SP!Cardinality, Sched!Cardinality
<1>3. \A S : SP!Orderings(S) = Sched!Orderings(S)
  BY <1>2 DEF SP!Orderings, Sched!Orderings, SP!IsInjective, Sched!IsInjective,
         SP!Ahead, Sched!Ahead, SP!Position, Sched!Position
<1>4. \A n, q : SP!Batch(n, q) = Sched!Batch(n, q) /\ SP!LeftBehind(n, q) = Sched!LeftBehind(n, q)
  BY DEF SP!Batch, Sched!Batch, SP!LeftBehind, Sched!LeftBehind, SP!BatchSize, Sched!BatchSize
<1> QED
  BY <1>1, <1>3, <1>4

\* A step of the engine's queue is a step of the queue the theorems are about.
LEMMA SameQueue == [Sched!Next]_(Sched!schedVars) => [SP!Next]_(SP!schedVars)
PROOF
<1> USE DEF SP!lifeVars, SP!queueVars, SP!countVars, Sched!lifeVars, Sched!queueVars,
            Sched!countVars
<1>1. SP!schedVars = Sched!schedVars /\ SP!schedVars' = Sched!schedVars'
  BY DEF SP!schedVars, Sched!schedVars
<1>2. ASSUME NEW r \in Requests, Sched!Create(r) \/ Sched!Expire(r) \/ Sched!Submit(r)
      PROVE  SP!Create(r) \/ SP!Expire(r) \/ SP!Submit(r)
  BY <1>2, SameRange DEF SP!Create, SP!Expire, SP!Submit, Sched!Create, Sched!Expire, Sched!Submit,
         SP!Placed, Sched!Placed, SP!QueueFull, Sched!QueueFull
<1>3. ASSUME NEW r \in Requests,
             Sched!CompleteRequest(r) \/ Sched!CancelRequest(r) \/ Sched!Fail(r)
      PROVE  SP!CompleteRequest(r) \/ SP!CancelRequest(r) \/ SP!Fail(r)
  BY <1>3, SameRange, SameRemoveFirst
     DEF SP!CompleteRequest, SP!CancelRequest, SP!Fail,
         Sched!CompleteRequest, Sched!CancelRequest, Sched!Fail
<1>4. ASSUME NEW n, NEW q, Sched!GetNextBatch(n, q)
      PROVE  SP!GetNextBatch(n, q)
  <2>1. SP!Cardinality(SP!TimedOut) = Sched!Cardinality(Sched!TimedOut)
    BY SameOrderings DEF SP!Cardinality, Sched!Cardinality
  <2> QED
    BY <1>4, <2>1, SameRange, SameOrderings DEF SP!GetNextBatch, Sched!GetNextBatch
<1>5. ASSUME Sched!Next PROVE SP!Next
  <2>1. CASE \E r \in Requests : Sched!Create(r) \/ Sched!Expire(r) \/ Sched!Submit(r)
    BY <1>2, <2>1 DEF SP!Next
  <2>2. CASE \E r \in Requests :
               Sched!CompleteRequest(r) \/ Sched!CancelRequest(r) \/ Sched!Fail(r)
    BY <1>3, <2>2 DEF SP!Next
  <2>3. ASSUME NEW n \in UNION {1 .. m : m \in BatchLimits},
               NEW q \in Sched!Orderings(Sched!Range(pending) \ Sched!TimedOut),
               Sched!GetNextBatch(n, q)
        PROVE  SP!Next
    <3>1. q \in SP!Orderings(SP!Range(pending) \ SP!TimedOut)
      BY SameOrderings, SameRange
    <3> QED
      BY <1>4, <2>3, <3>1 DEF SP!Next
  <2> QED
    BY <1>5, <2>1, <2>2, <2>3 DEF Sched!Next
<1> QED
  BY <1>1, <1>5

\* What the engine needs to know about the queue.
LEMMA QueueFacts ==
  ASSUME SP!IInv
  PROVE  /\ pending \in Seq(Requests) /\ IsInjective(pending)
         /\ status \in [Requests -> {"pending", "running", "completed", "cancelled", "failed"}]
         /\ started \subseteq Requests /\ running \subseteq started
         /\ \A r \in Requests :
              /\ r \in Range(pending) => status[r] = "pending" /\ r \notin started
              /\ status[r] = "running" => r \in running
PROOF
  BY SameRange DEF SP!IInv, SP!TypeOK, SP!OnePlace, SP!Statuses, SP!IsInjective, IsInjective

\* What a batch does to the queue.
LEMMA BatchFacts ==
  ASSUME SP!IInv, NEW n \in Nat, NEW q, Sched!GetNextBatch(n, q)
  PROVE  LET b == Sched!Batch(n, q)
         IN  /\ b \in Seq(Requests) /\ IsInjective(b) /\ Len(b) <= n
             /\ Range(b) \subseteq Range(pending)
             /\ Range(pending') \subseteq Range(pending) \ Range(b)
             /\ Range(pending) \subseteq Range(pending') \cup Range(b) \cup completed'
             /\ Len(pending) <= n => pending' = <<>>
             /\ started' = started \cup Range(b) /\ running' = running \cup Range(b)
             /\ completed \subseteq completed'
             /\ \A r \in Requests :
                  status'[r] = IF r \in Range(b) THEN "running"
                               ELSE IF r \in Range(pending) /\ r \in expired THEN "cancelled"
                               ELSE status[r]
PROOF
<1>1. q \in SP!Orderings(SP!Range(pending) \ SP!TimedOut)
  BY SameOrderings, SameRange DEF Sched!GetNextBatch
<1>2. /\ SP!Batch(n, q) \in Seq(Requests) /\ SP!IsInjective(SP!Batch(n, q))
      /\ SP!Range(SP!Batch(n, q)) \cup SP!Range(SP!LeftBehind(n, q))
           = SP!Range(pending) \ SP!TimedOut
      /\ SP!Range(SP!Batch(n, q)) \cap SP!Range(SP!LeftBehind(n, q)) = {}
      /\ Len(SP!Batch(n, q)) <= n
      /\ Len(pending) <= n => SP!LeftBehind(n, q) = <<>>
  BY <1>1, QueueAssumption, SP!Dealt DEF SP!IInv
<1> DEFINE b == Sched!Batch(n, q)
<1>3. /\ b \in Seq(Requests) /\ IsInjective(b) /\ Len(b) <= n
      /\ Range(b) \subseteq Range(pending)
  BY <1>2, SameOrderings, SameRange DEF SP!IsInjective, IsInjective
<1>4. /\ started' = started \cup Range(b) /\ running' = running \cup Range(b)
      /\ completed' = completed \cup (Range(pending) \cap expired)
      /\ pending' = Sched!LeftBehind(n, q)
      /\ status' = [r \in Requests |->
                      IF r \in Range(b) THEN "running"
                      ELSE IF r \in Range(pending) \cap expired THEN "cancelled" ELSE status[r]]
  BY SameRange DEF Sched!GetNextBatch, Sched!TimedOut
<1>5. /\ Range(b) \cup Range(pending') = Range(pending) \ expired
      /\ Range(b) \cap Range(pending') = {}
      /\ Len(pending) <= n => pending' = <<>>
  <2>1. SP!Range(pending) \ SP!TimedOut = Range(pending) \ expired
    BY SameRange DEF SP!TimedOut
  <2> QED
    BY <1>2, <1>4, <2>1, SameOrderings, SameRange
<1> HIDE DEF b
<1> QED
  BY <1>3, <1>4, <1>5 DEF b

\* Every step of the engine is one of the queue, or leaves the queue alone.
LEMMA QueueStep ==
  ASSUME IInv, [Next]_engineVars
  PROVE  [Sched!Next]_(Sched!schedVars) /\ SP!IInv'
PROOF
<1> USE DEF Sched!lifeVars, Sched!queueVars, Sched!countVars
<1>1. (UNCHANGED schedVars) => UNCHANGED Sched!schedVars
  BY DEF schedVars, Sched!schedVars
<1>2. toAdmit \in Seq(Requests) /\ finishing \in Seq(Requests) /\ access \in Seq(Requests)
  BY DEF IInv, TypeOK, CacheFollowsBatch
<1>3. ASSUME NEW r \in Requests, Calls(r) \/ TimePasses(r) PROVE Sched!Next
  BY <1>3 DEF Calls, TimePasses, Sched!Next
<1>4. ASSUME BeginStep PROVE Sched!Next \/ UNCHANGED schedVars
  <2>1. CASE Free <= 0 /\ UNCHANGED schedVars
    BY <2>1
  <2>2. ASSUME Free > 0, NEW q \in Sched!Orderings(Range(pending) \ Sched!TimedOut),
               Sched!GetNextBatch(Free, q)
        PROVE  Sched!Next
    <3>1. Len(active) \in Nat /\ maxBatchSize \in BatchLimits /\ BatchLimits \subseteq Nat
      BY EngineAssumption DEF IInv, TypeOK
    <3>2. Free \in 1 .. maxBatchSize
      BY <2>2, <3>1 DEF Free
    <3>3. Free \in UNION {1 .. n : n \in BatchLimits}
      BY <3>1, <3>2
    <3> QED
      BY <2>2, <3>3, SameRange DEF Sched!Next
  <2> QED
    BY <1>4, <2>1, <2>2 DEF BeginStep
<1>5. ASSUME Admit \/ Retry PROVE Sched!Next \/ UNCHANGED schedVars
  <2>1. CASE Join
    BY <2>1 DEF Join
  <2>2. ASSUME Refuse, toAdmit # <<>> PROVE Sched!Next
    <3>1. Head(toAdmit) \in Requests
      BY <1>2, <2>2
    <3> QED
      BY <2>2, <3>1 DEF Refuse, Sched!Next
  <2>3. ASSUME Evict PROVE Sched!Next \/ UNCHANGED schedVars
    <3>1. access # <<>>
      BY <2>3 DEF Evict, Cache!EvictLRU
    <3>2. Head(access) \in Requests
      BY <1>2, <3>1
    <3> QED
      BY <2>3, <3>2 DEF Evict, Sched!Next
  <2> QED
    BY <1>5, <2>1, <2>2, <2>3 DEF Admit, Retry, IInv, Stages
<1>6. ASSUME Finish PROVE Sched!Next \/ UNCHANGED schedVars
  <2>1. Head(finishing) \in Requests
    BY <1>2, <1>6 DEF Finish, IInv, Stages
  <2> QED
    BY <1>6, <2>1 DEF Finish, Sched!Next
<1>7. ASSUME Admitted \/ Forward \/ ForwardRaises PROVE UNCHANGED schedVars
  BY <1>7 DEF Admitted, Forward, ForwardRaises
<1>8. (UNCHANGED engineVars) => UNCHANGED schedVars
  BY DEF engineVars, schedVars
<1>9. [Sched!Next]_(Sched!schedVars)
  <2>1. CASE UNCHANGED engineVars
    BY <1>1, <1>8, <2>1
  <2>2. CASE Next
    <3>1. Sched!Next \/ UNCHANGED schedVars
      BY <1>3, <1>4, <1>5, <1>6, <1>7, <2>2 DEF Next, Step, Advance
    <3> QED
      BY <1>1, <3>1
  <2> QED
    BY <2>1, <2>2
<1>10. SP!IInv'
  <2>1. SP!IInv /\ [SP!Next]_(SP!schedVars)
    BY <1>9, SameQueue DEF IInv
  <2> QED
    BY <2>1, QueueAssumption, SP!StepInv
<1> QED
  BY <1>9, <1>10

-----------------------------------------------------------------------------
(* The invariant is inductive                                              *)

\* A new engine has an empty batch over an empty queue and a full pool.
LEMMA InitInv == Init => IInv
PROOF
<1> SUFFICES ASSUME Init PROVE IInv
  OBVIOUS
<1>1. SP!IInv
  <2>1. SP!Init
    BY DEF Init, Sched!Init, SP!Init
  <2> QED
    BY <2>1, QueueAssumption, SP!InitInv
<1>2. Range(active) = {} /\ Range(toAdmit) = {} /\ Range(returned) = {} /\ Range(finishing) = {}
  BY DEF Init, Range
<1>3. /\ started = {} /\ status = [r \in Requests |-> "pending"]
      /\ DOMAIN tables = {} /\ access = <<>> /\ leaked = {} /\ totalEvicted = 0
      /\ refused = {}
  BY DEF Init, Sched!Init, Cache!Init
<1>4. TypeOK
  BY EngineAssumption DEF Init, TypeOK
<1>5. CacheFollowsBatch /\ Held /\ Stages /\ Untouched
  BY <1>2, <1>3 DEF Init, CacheFollowsBatch, Held, Stages, Untouched, SeqSet, IsInjective
<1>6. RunningIsServed
  BY <1>2, <1>3 DEF RunningIsServed, SeqSet
<1>7. Counted
  <2>1. SumOver(generated, Requests) = 0
    BY EngineAssumption, SumOfZeros DEF Init
  <2> QED
    BY <1>2, <1>3, <2>1, EngineAssumption DEF Init, Counted, SeqSet, IsInjective
<1>8. Costs
  <2>1. Dropped = {}
    BY <1>3 DEF Dropped
  <2> QED
    BY <1>2, <1>3, <2>1, FS_EmptySet DEF Costs
<1> QED
  BY <1>1, <1>4, <1>5, <1>6, <1>7, <1>8 DEF IInv

\* Callers and the clock only touch requests that no part of the engine starts.
LEMMA CallsInv ==
  ASSUME IInv, [Next]_engineVars, UNCHANGED <<cacheVars, batchVars, stepVars>>,
         \/ UNCHANGED schedVars
         \/ \E r \in Requests : \/ Sched!Create(r) \/ Sched!Submit(r)
                                \/ Sched!CancelRequest(r) \/ Sched!Expire(r)
  PROVE  IInv'
PROOF
<1>1. SP!IInv'
  BY QueueStep
<1>2. /\ TypeOK /\ CacheFollowsBatch /\ Held /\ Stages /\ Untouched
      /\ RunningIsServed /\ Counted /\ Costs
  BY DEF IInv
<1>3. UNCHANGED <<maxBatchSize, tables, access, leaked, totalEvicted, refused, active,
                  generated, totalRequests, totalTokens, pc, toAdmit, finishing, returned>>
  BY DEF cacheVars, batchVars, bookVars, stepVars
<1>4. /\ started' = started /\ running' \subseteq running
      /\ \A r \in Requests : status'[r] \in {status[r], "cancelled"}
  <2>1. status \in [Requests -> {"pending", "running", "completed", "cancelled", "failed"}]
    BY QueueFacts DEF IInv
  <2> QED
    BY <2>1 DEF Sched!Create, Sched!Submit, Sched!CancelRequest, Sched!Expire,
                Sched!lifeVars, Sched!queueVars, schedVars
<1>5. /\ started \subseteq Requests /\ Range(returned) \subseteq Requests
      /\ Range(active) = SeqSet
  BY <1>2, QueueFacts DEF IInv, TypeOK, SeqSet, Range
<1>6. TypeOK' /\ CacheFollowsBatch' /\ Stages' /\ Untouched'
  BY <1>2, <1>3, <1>4 DEF TypeOK, CacheFollowsBatch, Stages, Untouched, SeqSet
<1>7. Held'
  BY <1>2, <1>3, <1>4 DEF Held, SeqSet
<1>8. RunningIsServed'
  BY <1>2, <1>3, <1>4 DEF RunningIsServed, SeqSet
<1>9. Counted'
  BY <1>2, <1>3, <1>4 DEF Counted, SeqSet
<1>10. Costs'
  <2>1. Dropped' = Dropped /\ Dropped \subseteq Requests
    BY <1>3, <1>4, <1>5 DEF Dropped, SeqSet
  <2> QED
    BY <1>2, <1>3, <1>4, <1>5, <2>1 DEF Costs
<1> QED
  BY <1>1, <1>6, <1>7, <1>8, <1>9, <1>10 DEF IInv

\* The batch the queue hands over was waiting: the engine holds none of it yet.
LEMMA BeginStepInv == ASSUME IInv, BeginStep PROVE IInv'
PROOF
<1>1. SP!IInv'
  <2>1. Next
    BY DEF Next, Step, Advance
  <2> QED
    BY <2>1, QueueStep
<1>2. /\ TypeOK /\ CacheFollowsBatch /\ Held /\ Stages /\ Untouched
      /\ RunningIsServed /\ Counted /\ Costs
  BY DEF IInv
<1>3. UNCHANGED <<maxBatchSize, tables, access, leaked, totalEvicted, refused, active,
                  generated, totalRequests, totalTokens, finishing, returned>>
  BY DEF BeginStep, cacheVars, batchVars, bookVars
<1>4. toAdmit = <<>> /\ finishing = <<>> /\ Range(toAdmit) = {}
  BY <1>2 DEF BeginStep, Stages, Range
<1>5. CASE Free <= 0 /\ pc' = "forward" /\ UNCHANGED <<toAdmit, schedVars>>
  <2>1. UNCHANGED <<started, running, status>> /\ Dropped' = Dropped
    BY <1>3, <1>5 DEF schedVars, Dropped, SeqSet
  <2>2. TypeOK' /\ CacheFollowsBatch' /\ Held' /\ Stages' /\ Untouched'
    BY <1>2, <1>3, <1>4, <1>5, <2>1 DEF TypeOK, CacheFollowsBatch, Held, Stages, Untouched, SeqSet
  <2>3. RunningIsServed' /\ Counted' /\ Costs'
    BY <1>2, <1>3, <1>5, <2>1 DEF RunningIsServed, Counted, Costs, SeqSet
  <2> QED
    BY <1>1, <2>2, <2>3 DEF IInv
<1>6. ASSUME Free > 0, NEW q, Sched!GetNextBatch(Free, q), toAdmit' = Sched!Batch(Free, q),
             pc' = "admit"
      PROVE  IInv'
  <2> DEFINE b == toAdmit'
  <2>1. Len(active) \in Nat /\ maxBatchSize \in Nat /\ Free = maxBatchSize - Len(active)
    BY <1>2, EngineAssumption DEF TypeOK, Free
  <2>2. /\ b \in Seq(Requests) /\ IsInjective(b) /\ Len(b) <= Free
        /\ Range(b) \subseteq Range(pending)
        /\ started' = started \cup Range(b) /\ running' = running \cup Range(b)
        /\ \A r \in Requests :
             status'[r] = IF r \in Range(b) THEN "running"
                          ELSE IF r \in Range(pending) /\ r \in expired THEN "cancelled"
                          ELSE status[r]
    <3>1. Free \in Nat
      BY <1>6, <2>1
    <3> QED
      BY <1>6, <3>1, BatchFacts DEF IInv
  <2>3. /\ started \subseteq Requests /\ Range(pending) \subseteq Requests
        /\ \A r \in Range(pending) : status[r] = "pending" /\ r \notin started
    BY QueueFacts DEF IInv, Range
  <2>4. Len(active) + Len(b) <= maxBatchSize /\ Len(b) \in Nat
    BY <2>1, <2>2
  <2> HIDE DEF b
  <2>5. TypeOK'
    BY <1>2, <1>3, <1>6, <2>2, <2>4 DEF TypeOK, b
  <2>6. SeqSet \cup Range(returned) \subseteq started /\ SeqSet' = SeqSet
    BY <1>2, <1>3 DEF Held, SeqSet
  <2>7. CacheFollowsBatch' /\ Stages'
    BY <1>2, <1>3, <1>4, <1>6, <2>6 DEF CacheFollowsBatch, Stages
  <2>8. Held'
    BY <1>2, <1>3, <1>4, <2>2, <2>3, <2>6 DEF Held, b
  <2>9. Untouched'
    BY <1>2, <1>3, <2>2, <2>3 DEF Untouched, b
  <2>10. RunningIsServed'
    BY <1>2, <1>4, <2>2, <2>3, <2>6 DEF RunningIsServed, b
  <2>11. Counted'
    BY <1>2, <1>3, <2>2, <2>6 DEF Counted
  <2>12. Costs'
    <3>1. Dropped' = Dropped
      BY <1>3, <1>4, <2>2, <2>3, <2>6 DEF Dropped, b
    <3>2. Dropped \subseteq started /\ Range(returned) \subseteq started
      BY <2>6 DEF Dropped
    <3> QED
      BY <1>2, <1>3, <2>2, <2>3, <3>1, <3>2 DEF Costs
  <2> QED
    BY <1>1, <2>5, <2>7, <2>8, <2>9, <2>10, <2>11, <2>12 DEF IInv
<1> QED
  BY <1>5, <1>6 DEF BeginStep

\* A request that joins moves from the list to the batch.
LEMMA JoinInv == ASSUME IInv, Admit \/ Retry, toAdmit # <<>>, Join PROVE IInv'
PROOF
<1> DEFINE r == Head(toAdmit)
<1>1. SP!IInv'
  <2>1. Next
    BY DEF Next, Step, Advance
  <2> QED
    BY <2>1, QueueStep
<1>2. /\ TypeOK /\ CacheFollowsBatch /\ Held /\ Stages /\ Untouched
      /\ RunningIsServed /\ Counted /\ Costs
  BY DEF IInv
<1>3. /\ active' = Append(active, r) /\ toAdmit' = Tail(toAdmit) /\ pc' = "admit"
      /\ UNCHANGED <<maxBatchSize, totalEvicted, refused, generated, totalRequests,
                     totalTokens, finishing, returned, status, started, running>>
  BY DEF Join, bookVars, schedVars, Cache!AllocateSequence
<1>4. pc \in {"admit", "retry"}
  BY DEF Admit, Retry
<1>5. /\ active \in Seq(Requests) /\ toAdmit \in Seq(Requests)
      /\ Len(active) \in Nat /\ Len(toAdmit) \in Nat
      /\ IsInjective(active) /\ IsInjective(toAdmit)
  BY <1>2 DEF TypeOK, Held
<1>6. /\ r \in Requests /\ r \in Range(toAdmit)
      /\ Tail(toAdmit) \in Seq(Requests) /\ IsInjective(Tail(toAdmit))
      /\ Range(Tail(toAdmit)) = Range(toAdmit) \ {r} /\ Len(Tail(toAdmit)) = Len(toAdmit) - 1
  BY <1>5, TailProperties, RemoveWhere
<1>7. r \notin SeqSet /\ SeqSet = Range(active)
  BY <1>2, <1>6 DEF Held, SeqSet
<1> HIDE DEF r
<1>8. /\ Append(active, r) \in Seq(Requests) /\ Len(Append(active, r)) = Len(active) + 1
      /\ IsInjective(Append(active, r)) /\ Range(Append(active, r)) = Range(active) \cup {r}
  BY <1>5, <1>6, <1>7, AppendFresh
<1>9. SeqSet' = SeqSet \cup {r} /\ Range(toAdmit') = Range(toAdmit) \ {r}
  BY <1>3, <1>6, <1>8 DEF SeqSet
<1>10. SeqSet' \cup Range(toAdmit') = SeqSet \cup Range(toAdmit)
  BY <1>6, <1>9
<1>11. /\ DOMAIN tables' = DOMAIN tables \cup {r}
       /\ access' = Append(RemoveFirst(access, r), r)
       /\ leaked' = leaked \cup (IF r \in DOMAIN tables THEN Cache!Range(tables[r]) ELSE {})
  BY SameRemoveFirst DEF Join, Cache!AllocateSequence, Cache!Touched, r
<1>12. TypeOK'
  BY <1>2, <1>3, <1>5, <1>6, <1>8 DEF TypeOK
<1>13. CacheFollowsBatch'
  <2>1. RemoveFirst(active, r) = active
    BY <1>5, <1>7, RemoveWhere
  <2> QED
    BY <1>2, <1>3, <1>7, <1>9, <1>11, <2>1 DEF CacheFollowsBatch
<1>14. Held'
  BY <1>2, <1>3, <1>6, <1>8, <1>9, <1>10 DEF Held
<1>15. Stages' /\ Untouched'
  BY <1>2, <1>3, <1>4, <1>9 DEF Stages, Untouched
<1>16. RunningIsServed'
  BY <1>2, <1>3, <1>10 DEF RunningIsServed
<1>17. Counted'
  <2>1. generated[r] = 0 /\ MaxTokens[r] \in Nat \ {0}
    BY <1>2, <1>6, EngineAssumption DEF Untouched
  <2> QED
    BY <1>2, <1>3, <1>9, <2>1 DEF Counted
<1>18. Costs'
  <2>1. Dropped' = Dropped
    BY <1>3, <1>10 DEF Dropped
  <2> QED
    BY <1>2, <1>3, <2>1 DEF Costs
<1> QED
  BY <1>1, <1>12, <1>13, <1>14, <1>15, <1>16, <1>17, <1>18 DEF IInv

\* Failing a request the engine gives up: it is dropped, for good.
LEMMA FailFacts ==
  ASSUME SP!IInv, NEW r \in Requests, Sched!Fail(r)
  PROVE  /\ UNCHANGED <<started, running>>
         /\ \A x \in Requests : status'[x] = IF x = r THEN "failed" ELSE status[x]
PROOF
<1>1. status \in [Requests -> {"pending", "running", "completed", "cancelled", "failed"}]
  BY QueueFacts
<1> QED
  BY <1>1 DEF Sched!Fail, Sched!queueVars

\* Whoever is given up joins the dropped, who were none of the engine's.
LEMMA DroppedGrows ==
  ASSUME IInv, NEW r \in SeqSet \cup Range(toAdmit),
         UNCHANGED <<started, returned>>,
         SeqSet' \cup Range(toAdmit') = (SeqSet \cup Range(toAdmit)) \ {r}
  PROVE  /\ Dropped' = Dropped \cup {r} /\ r \notin Dropped /\ Dropped' \subseteq Requests
         /\ Cardinality(Dropped' \ refused) = Cardinality(Dropped \ refused) + 1
PROOF
<1>1. Dropped' = Dropped \cup {r} /\ r \notin Dropped
  BY DEF Dropped, IInv, Held
<1>2. Dropped' \subseteq Requests
  <2>1. started \subseteq Requests
    BY QueueFacts DEF IInv
  <2> QED
    BY <2>1 DEF Dropped
<1>3. Dropped' \ refused = (Dropped \ refused) \cup {r} /\ r \notin Dropped \ refused
  BY <1>1 DEF IInv, Costs
<1>4. IsFiniteSet(Dropped \ refused)
  BY <1>1, <1>2, EngineAssumption, FS_Subset
<1>5. Cardinality((Dropped \ refused) \cup {r}) = Cardinality(Dropped \ refused) + 1
  BY <1>3, <1>4, FS_AddElement
<1> QED
  BY <1>1, <1>2, <1>3, <1>5

\* A request that is refused leaves the list and joins nothing.
LEMMA RefuseInv == ASSUME IInv, Admit \/ Retry, toAdmit # <<>>, Refuse PROVE IInv'
PROOF
<1> DEFINE r == Head(toAdmit)
<1>1. SP!IInv'
  <2>1. Next
    BY DEF Next, Step, Advance
  <2> QED
    BY <2>1, QueueStep
<1>2. /\ TypeOK /\ CacheFollowsBatch /\ Held /\ Stages /\ Untouched
      /\ RunningIsServed /\ Counted /\ Costs
  BY DEF IInv
<1>3. /\ toAdmit' = Tail(toAdmit) /\ pc' = "admit" /\ pc \in {"admit", "retry"}
      /\ refused' = refused \cup {r}
      /\ UNCHANGED <<maxBatchSize, tables, access, leaked, totalEvicted, active, generated,
                     totalRequests, totalTokens, finishing, returned>>
  BY DEF Refuse, cacheVars, bookVars, Admit, Retry
<1>4. /\ r \in Requests /\ r \in Range(toAdmit)
      /\ Tail(toAdmit) \in Seq(Requests) /\ IsInjective(Tail(toAdmit))
      /\ Range(Tail(toAdmit)) = Range(toAdmit) \ {r} /\ Len(Tail(toAdmit)) = Len(toAdmit) - 1
  BY <1>2, TailProperties, RemoveWhere DEF TypeOK, Held
<1>5. /\ UNCHANGED <<started, running>>
      /\ \A x \in Requests : status'[x] = IF x = r THEN "failed" ELSE status[x]
  BY <1>4, FailFacts DEF Refuse, IInv
<1> HIDE DEF r
<1>6. /\ SeqSet' = SeqSet /\ Range(toAdmit') = Range(toAdmit) \ {r} /\ r \notin SeqSet
      /\ r \notin Range(returned)
  BY <1>2, <1>3, <1>4 DEF SeqSet, Held
<1>7. SeqSet' \cup Range(toAdmit') = (SeqSet \cup Range(toAdmit)) \ {r}
  BY <1>6
<1>8. TypeOK'
  <2>1. Len(active) \in Nat /\ Len(toAdmit) \in Nat /\ maxBatchSize \in Nat
    BY <1>2, EngineAssumption DEF TypeOK
  <2> QED
    BY <1>2, <1>3, <1>4, <2>1 DEF TypeOK
<1>9. CacheFollowsBatch' /\ Stages'
  BY <1>2, <1>3, <1>6 DEF CacheFollowsBatch, Stages
<1>10. Held' /\ Untouched'
  BY <1>2, <1>3, <1>4, <1>5, <1>6 DEF Held, Untouched
<1>11. RunningIsServed'
  BY <1>2, <1>5, <1>7 DEF RunningIsServed
<1>12. Counted'
  BY <1>2, <1>3, <1>5, <1>6 DEF Counted
<1>13. Costs'
  <2>1. Dropped' = Dropped \cup {r} /\ r \notin Dropped /\ Dropped' \subseteq Requests
    BY <1>3, <1>4, <1>5, <1>7, DroppedGrows
  <2>2. Range(returned) \subseteq Requests
    BY <1>2 DEF TypeOK, Range
  <2>3. refused' \subseteq Dropped' /\ Dropped' \ refused' = Dropped \ refused
    BY <1>2, <1>3, <2>1 DEF Costs
  <2>4. totalEvicted' \in Nat /\ totalEvicted' = Cardinality(Dropped' \ refused')
    BY <1>2, <1>3, <2>3 DEF Costs
  <2> QED
    BY <1>2, <1>3, <1>5, <1>6, <2>1, <2>2, <2>3, <2>4 DEF Costs
<1> QED
  BY <1>1, <1>8, <1>9, <1>10, <1>11, <1>12, <1>13 DEF IInv

\* The victim is the head of the batch: it leaves the batch, the cache and the
\* access order together.
LEMMA EvictInv == ASSUME IInv, Admit, toAdmit # <<>>, Evict PROVE IInv'
PROOF
<1> DEFINE r == Head(access)
<1>1. SP!IInv'
  <2>1. Next
    BY DEF Next, Step, Advance
  <2> QED
    BY <2>1, QueueStep
<1>2. /\ TypeOK /\ CacheFollowsBatch /\ Held /\ Stages /\ Untouched
      /\ RunningIsServed /\ Counted /\ Costs
  BY DEF IInv
<1>3. /\ access # <<>> /\ access = active /\ DOMAIN tables = SeqSet
      /\ pc = "admit" /\ pc' = "retry" /\ active' = RemoveFirst(active, r)
      /\ DOMAIN tables' = DOMAIN tables \ {r}
      /\ access' = RemoveFirst(Tail(access), r) /\ totalEvicted' = totalEvicted + 1
      /\ UNCHANGED <<leaked, maxBatchSize, refused, generated, totalRequests, totalTokens,
                     toAdmit, finishing, returned>>
  <2>1. DOMAIN tables' = DOMAIN tables \ {r}
    BY DEF Evict, Cache!EvictLRU, Cache!Release, Cache!Restrict
  <2> QED
    BY <1>2, <2>1, SameRemoveFirst DEF Evict, Admit, Cache!EvictLRU, CacheFollowsBatch, bookVars
<1>4. /\ r \in Requests /\ r \in SeqSet
      /\ active' = Tail(active) /\ access' = Tail(active)
      /\ Tail(active) \in Seq(Requests) /\ IsInjective(Tail(active))
      /\ Range(Tail(active)) = SeqSet \ {r} /\ Len(Tail(active)) = Len(active) - 1
  BY <1>2, <1>3, TailProperties, RemoveWhere DEF TypeOK, Held, SeqSet
<1>5. /\ UNCHANGED <<started, running>>
      /\ \A x \in Requests : status'[x] = IF x = r THEN "failed" ELSE status[x]
  <2>1. Sched!Fail(r)
    BY <1>4 DEF Evict
  <2> QED
    BY <1>4, <2>1, FailFacts DEF IInv
<1> HIDE DEF r
<1>6. /\ SeqSet' = SeqSet \ {r} /\ r \notin Range(toAdmit) /\ r \notin Range(returned)
  BY <1>2, <1>4 DEF SeqSet, Held
<1>7. SeqSet' \cup Range(toAdmit') = (SeqSet \cup Range(toAdmit)) \ {r}
  BY <1>3, <1>6
<1>8. finishing = <<>> /\ Range(finishing) = {}
  BY <1>2, <1>3 DEF Stages, Range
<1>9. TypeOK'
  <2>1. Len(active) \in Nat /\ Len(toAdmit) \in Nat /\ maxBatchSize \in Nat
    BY <1>2, EngineAssumption DEF TypeOK
  <2> QED
    BY <1>2, <1>3, <1>4, <2>1 DEF TypeOK
<1>10. CacheFollowsBatch' /\ Stages'
  BY <1>2, <1>3, <1>4, <1>6, <1>8 DEF CacheFollowsBatch, Stages
<1>11. Held' /\ Untouched'
  BY <1>2, <1>3, <1>4, <1>5, <1>6, <1>8 DEF Held, Untouched
<1>12. RunningIsServed'
  BY <1>2, <1>5, <1>7 DEF RunningIsServed
<1>13. Counted'
  BY <1>2, <1>3, <1>5, <1>6 DEF Counted
<1>14. Costs'
  <2>1. /\ Dropped' = Dropped \cup {r} /\ Dropped' \subseteq Requests
        /\ Cardinality(Dropped' \ refused) = Cardinality(Dropped \ refused) + 1
    BY <1>3, <1>4, <1>5, <1>7, DroppedGrows
  <2>2. Range(returned) \subseteq Requests
    BY <1>2 DEF TypeOK, Range
  <2>3. refused' \subseteq Dropped'
    BY <1>2, <1>3, <2>1 DEF Costs
  <2>4. totalEvicted' \in Nat /\ totalEvicted' = Cardinality(Dropped' \ refused')
    BY <1>2, <1>3, <2>1 DEF Costs
  <2> QED
    BY <1>2, <1>3, <1>5, <1>6, <2>1, <2>2, <2>3, <2>4 DEF Costs
<1> QED
  BY <1>1, <1>9, <1>10, <1>11, <1>12, <1>13, <1>14 DEF IInv

\* Going on to the forward pass and leaving step() on an exception change nothing.
LEMMA GoOnInv == ASSUME IInv, Admitted \/ ForwardRaises PROVE IInv'
PROOF
<1>1. SP!IInv'
  <2>1. Next
    BY DEF Next, Step, Advance
  <2> QED
    BY <2>1, QueueStep
<1>2. /\ TypeOK /\ CacheFollowsBatch /\ Held /\ Stages /\ Untouched
      /\ RunningIsServed /\ Counted /\ Costs
  BY DEF IInv
<1>3. /\ UNCHANGED <<maxBatchSize, tables, access, leaked, totalEvicted, refused, active,
                     generated, totalRequests, totalTokens, toAdmit, finishing, returned,
                     started, running, status>>
      /\ toAdmit = <<>> /\ finishing = <<>> /\ pc' \in {"idle", "forward"}
  BY <1>2 DEF Admitted, ForwardRaises, cacheVars, batchVars, bookVars, schedVars, Stages
<1>4. TypeOK' /\ CacheFollowsBatch' /\ Held' /\ Stages' /\ Untouched'
  BY <1>2, <1>3 DEF TypeOK, CacheFollowsBatch, Held, Stages, Untouched, SeqSet
<1>5. RunningIsServed' /\ Counted' /\ Costs'
  BY <1>2, <1>3 DEF RunningIsServed, Counted, Costs, Dropped, SeqSet
<1> QED
  BY <1>1, <1>4, <1>5 DEF IInv

\* The forward pass gives every sequence of the batch one token, and lists those
\* that end with it.
LEMMA ForwardInv == ASSUME IInv, Forward PROVE IInv'
PROOF
<1>1. SP!IInv'
  <2>1. Next
    BY DEF Next, Step, Advance
  <2> QED
    BY <2>1, QueueStep
<1>2. /\ TypeOK /\ CacheFollowsBatch /\ Held /\ Stages /\ Untouched
      /\ RunningIsServed /\ Counted /\ Costs
  BY DEF IInv
<1>3. PICK eos \in SUBSET SeqSet : finishing' \in InBatchOrder(Finished(eos))
  BY DEF Forward
<1> DEFINE F == Finished(eos)
<1>4. /\ UNCHANGED <<maxBatchSize, tables, access, leaked, totalEvicted, refused, active,
                     totalRequests, toAdmit, returned, started, running, status>>
      /\ generated' = [r \in Requests |-> generated[r] + (IF r \in SeqSet THEN 1 ELSE 0)]
      /\ totalTokens' = totalTokens + Len(active)
      /\ pc' = IF finishing' = <<>> THEN "idle" ELSE "finish"
      /\ pc = "forward"
  BY DEF Forward, cacheVars, schedVars
<1>5. toAdmit = <<>> /\ finishing = <<>> /\ Range(finishing) = {} /\ Range(toAdmit) = {}
  BY <1>2, <1>4 DEF Stages, Range
<1>6. /\ active \in Seq(Requests) /\ generated \in [Requests -> Nat] /\ totalTokens \in Nat
      /\ SeqSet \subseteq Requests /\ IsInjective(active)
  BY <1>2 DEF TypeOK, SeqSet, Held, Range
<1>7. IsFiniteSet(SeqSet) /\ Cardinality(SeqSet) = Len(active) /\ Len(active) \in Nat
  BY <1>6, InjectiveLength DEF SeqSet
<1>8. F \subseteq SeqSet /\ \A r \in SeqSet : generated[r] + 1 >= MaxTokens[r] => r \in F
  BY DEF Finished
<1>9. finishing' \in [1 .. Cardinality(F) -> F] /\ IsInjective(finishing')
  BY <1>3 DEF InBatchOrder
<1> HIDE DEF F
<1>10. IsFiniteSet(F)
  BY <1>7, <1>8, FS_Subset
<1>11. finishing' \in Seq(F) /\ Range(finishing') = F
  BY <1>9, <1>10, ListsAll
<1>12. finishing' \in Seq(Requests)
  BY <1>6, <1>8, <1>11
<1>13. generated' \in [Requests -> Nat]
  BY <1>4, <1>6
<1>14. SeqSet' = SeqSet /\ Dropped' = Dropped
  BY <1>4 DEF SeqSet, Dropped
<1>15. TypeOK'
  <2>1. totalTokens' \in Nat
    BY <1>4, <1>6, <1>7
  <2> QED
    BY <1>2, <1>4, <1>12, <1>13, <2>1 DEF TypeOK
<1>16. CacheFollowsBatch' /\ Held' /\ Stages'
  BY <1>2, <1>4, <1>5, <1>8, <1>9, <1>11, <1>14
     DEF CacheFollowsBatch, Held, Stages
<1>17. Untouched'
  <2>1. SeqSet \subseteq started
    BY <1>2 DEF Held
  <2> QED
    BY <1>2, <1>4, <1>5, <1>6, <2>1 DEF Untouched
<1>18. RunningIsServed' /\ Costs'
  BY <1>2, <1>4, <1>14 DEF RunningIsServed, Costs
<1>19. Counted'
  <2>1. SumOver(generated', Requests) = SumOver(generated, Requests) + Len(active)
    <3>1. SumOver(generated', Requests) = SumOver(generated, Requests) + Cardinality(SeqSet)
      <4>1. /\ \A x \in Requests : generated[x] \in Nat
            /\ \A x \in Requests :
                 generated'[x] = generated[x] + (IF x \in SeqSet THEN 1 ELSE 0)
        BY <1>4, <1>6
      <4>2. IsFiniteSet(Requests) /\ SeqSet \in SUBSET Requests
        BY <1>6, EngineAssumption
      <4> QED
        BY <4>1, <4>2, SumOfMore
    <3> QED
      BY <1>7, <3>1
  <2>2. ASSUME NEW r \in Requests
        PROVE  /\ generated'[r] <= MaxTokens[r]
               /\ r \in SeqSet /\ generated'[r] = MaxTokens[r] => r \in F
    <3>1. MaxTokens[r] \in Nat /\ generated[r] \in Nat /\ generated[r] <= MaxTokens[r]
          /\ (r \in SeqSet => generated[r] # MaxTokens[r])
      BY <1>2, <1>5, <1>6, EngineAssumption DEF Counted
    <3>2. CASE r \in SeqSet
      <4>1. generated'[r] = generated[r] + 1
        BY <1>4, <3>2
      <4> QED
        BY <1>8, <3>1, <3>2, <4>1
    <3>3. CASE r \notin SeqSet
      <4>1. generated'[r] = generated[r]
        BY <1>4, <1>6, <3>3
      <4> QED
        BY <3>1, <3>3, <4>1
    <3> QED
      BY <3>2, <3>3
  <2> QED
    BY <1>2, <1>4, <1>11, <1>14, <2>1, <2>2 DEF Counted
<1> QED
  BY <1>1, <1>15, <1>16, <1>17, <1>18, <1>19 DEF IInv

\* A finished sequence leaves the batch and the cache together, and is returned.
LEMMA FinishInv == ASSUME IInv, Finish PROVE IInv'
PROOF
<1> DEFINE r == Head(finishing)
<1>1. SP!IInv'
  <2>1. Next
    BY DEF Next, Step, Advance
  <2> QED
    BY <2>1, QueueStep
<1>2. /\ TypeOK /\ CacheFollowsBatch /\ Held /\ Stages /\ Untouched
      /\ RunningIsServed /\ Counted /\ Costs
  BY DEF IInv
<1>3. /\ pc = "finish" /\ active' = RemoveFirst(active, r)
      /\ Sched!CompleteRequest(r) \/ (r \notin running /\ UNCHANGED schedVars)
      /\ Cache!FreeSequence(r)
      /\ returned' = Append(returned, r) /\ totalRequests' = totalRequests + 1
      /\ finishing' = Tail(finishing)
      /\ pc' = IF finishing' = <<>> THEN "idle" ELSE "finish"
      /\ UNCHANGED <<maxBatchSize, refused, generated, totalTokens, toAdmit>>
  BY DEF Finish
<1>4. toAdmit = <<>> /\ finishing # <<>> /\ Range(toAdmit) = {} /\ Range(toAdmit') = {}
  BY <1>2, <1>3 DEF Stages, Range
<1>5. /\ active \in Seq(Requests) /\ IsInjective(active)
      /\ finishing \in Seq(Requests) /\ IsInjective(finishing)
      /\ returned \in Seq(Requests) /\ IsInjective(returned)
      /\ Range(finishing) \subseteq SeqSet /\ Range(active) = SeqSet
      /\ Range(returned) \cap SeqSet = {}
  BY <1>2 DEF TypeOK, Held, Counted, SeqSet
<1>6. /\ r \in Requests /\ r \in Range(finishing)
      /\ Tail(finishing) \in Seq(Requests) /\ IsInjective(Tail(finishing))
      /\ Range(Tail(finishing)) = Range(finishing) \ {r}
  BY <1>4, <1>5, TailProperties, RemoveWhere
<1>7. r \in SeqSet /\ r \notin Range(returned)
  BY <1>5, <1>6
<1>8. /\ DOMAIN tables' = DOMAIN tables \ {r} /\ access' = RemoveFirst(access, r)
      /\ UNCHANGED <<leaked, totalEvicted>>
  BY <1>2, <1>3, <1>7, SameRemoveFirst
     DEF Cache!FreeSequence, Cache!Release, Cache!Restrict, Cache!statVars, CacheFollowsBatch
<1>9. /\ started' = started /\ running' = running \ {r}
      /\ \A x \in Requests : x # r => status'[x] = status[x]
      /\ status'[r] \in {"completed", "cancelled"}
  <2>1. CASE Sched!CompleteRequest(r)
    <3>1. status \in [Requests -> {"pending", "running", "completed", "cancelled", "failed"}]
      BY QueueFacts DEF IInv
    <3> QED
      BY <1>6, <2>1, <3>1 DEF Sched!CompleteRequest, Sched!lifeVars, Sched!queueVars
  <2>2. CASE r \notin running /\ UNCHANGED schedVars
    <3>1. started' = started /\ running' = running /\ status' = status
      BY <2>2 DEF schedVars
    <3>2. status[r] # "running"
      BY <1>6, <2>2, QueueFacts DEF IInv
    <3>3. status[r] \in {"running", "cancelled"}
      BY <1>2, <1>6, <1>7 DEF RunningIsServed
    <3> QED
      BY <2>2, <3>1, <3>2, <3>3
  <2> QED
    BY <1>3, <2>1, <2>2
<1> HIDE DEF r
<1>10. /\ active' \in Seq(Requests) /\ IsInjective(active')
       /\ Range(active') = Range(active) \ {r} /\ Len(active') = Len(active) - 1
  BY <1>3, <1>5, <1>7, RemoveFirstProperties, RemoveWhere
<1>11. /\ returned' \in Seq(Requests) /\ IsInjective(returned')
       /\ Range(returned') = Range(returned) \cup {r} /\ Len(returned') = Len(returned) + 1
  BY <1>3, <1>5, <1>6, <1>7, AppendFresh
<1>12. SeqSet' = SeqSet \ {r} /\ Range(finishing') = Range(finishing) \ {r}
  BY <1>3, <1>5, <1>6, <1>10 DEF SeqSet
<1>13. Dropped' = Dropped
  BY <1>4, <1>7, <1>9, <1>11, <1>12 DEF Dropped
<1>14. TypeOK'
  <2>1. Len(active) \in Nat /\ Len(toAdmit) \in Nat /\ maxBatchSize \in Nat
    BY <1>2, EngineAssumption DEF TypeOK
  <2>2. Len(active') + Len(toAdmit') <= maxBatchSize'
    BY <1>2, <1>3, <1>10, <2>1 DEF TypeOK
  <2>3. refused' \subseteq Requests
    BY <1>2, <1>3 DEF TypeOK
  <2> QED
    BY <1>2, <1>3, <1>6, <1>10, <1>11, <2>2, <2>3 DEF TypeOK
<1>15. CacheFollowsBatch'
  BY <1>2, <1>3, <1>8, <1>12 DEF CacheFollowsBatch
<1>16. Held'
  BY <1>2, <1>3, <1>4, <1>6, <1>7, <1>9, <1>10, <1>11, <1>12 DEF Held
<1>17. Stages' /\ Untouched'
  BY <1>2, <1>3, <1>4, <1>9 DEF Stages, Untouched
<1>18. RunningIsServed'
  BY <1>2, <1>4, <1>7, <1>9, <1>12 DEF RunningIsServed
<1>19. Counted'
  <2>1. totalRequests' = Len(returned')
    BY <1>2, <1>3, <1>11 DEF Counted
  <2> QED
    BY <1>2, <1>3, <1>7, <1>9, <1>11, <1>12, <2>1 DEF Counted
<1>20. Costs'
  <2>1. Dropped \subseteq Requests /\ r \notin Dropped /\ Range(returned) \subseteq Requests
    <3>1. started \subseteq Requests
      BY QueueFacts DEF IInv
    <3> QED
      BY <1>5, <1>7, <3>1 DEF Dropped, Range
  <2> QED
    BY <1>2, <1>3, <1>8, <1>9, <1>11, <1>13, <2>1 DEF Costs
<1> QED
  BY <1>1, <1>14, <1>15, <1>16, <1>17, <1>18, <1>19, <1>20 DEF IInv

\* Every step of the engine keeps the invariant.
LEMMA StepInv == IInv /\ [Next]_engineVars => IInv'
PROOF
<1> SUFFICES ASSUME IInv, [Next]_engineVars PROVE IInv'
  OBVIOUS
<1>1. CASE UNCHANGED engineVars
  BY <1>1, CallsInv DEF engineVars
<1>2. ASSUME NEW r \in Requests, Calls(r) \/ TimePasses(r) PROVE IInv'
  BY <1>2, CallsInv DEF Calls, TimePasses
<1>3. CASE Admit
  BY <1>3, JoinInv, RefuseInv, EvictInv DEF Admit
<1>4. CASE Retry
  <2>1. toAdmit # <<>>
    BY <1>4 DEF Retry, IInv, Stages
  <2> QED
    BY <1>4, <2>1, JoinInv, RefuseInv DEF Retry
<1>5. CASE BeginStep \/ Admitted \/ Forward \/ ForwardRaises \/ Finish
  BY <1>5, BeginStepInv, GoOnInv, ForwardInv, FinishInv
<1> QED
  BY <1>1, <1>2, <1>3, <1>4, <1>5 DEF Next, Step, Advance

-----------------------------------------------------------------------------
(* Theorems                                                                *)

\* The invariant holds in every reachable state of every engine.
THEOREM Invariance == Spec => []IInv
PROOF
<1>1. Init => IInv
  BY InitInv
<1>2. IInv /\ [Next]_engineVars => IInv'
  BY StepInv
<1> QED
  BY <1>1, <1>2, PTL DEF Spec

\* The engine's variables keep their types, and the batch and the list of those
\* about to join it never outgrow max_batch_size together.
THEOREM TypeCorrect == Spec => []TypeOK
PROOF
<1>1. IInv => TypeOK
  BY DEF IInv
<1> QED
  BY <1>1, Invariance, PTL

\* The cache holds blocks for the sequences of the batch and for no other, in the
\* order they joined, and no block was lost.
THEOREM CacheFollows == Spec => []CacheFollowsBatch
PROOF
<1>1. IInv => CacheFollowsBatch
  BY DEF IInv
<1> QED
  BY <1>1, Invariance, PTL

\* Whatever runs is in the batch or about to join it.
THEOREM Served == Spec => []RunningIsServed
PROOF
<1>1. IInv => RunningIsServed
  BY DEF IInv
<1> QED
  BY <1>1, Invariance, PTL

\* The books balance: requests are returned once, tokens counted once, and no
\* sequence passes its max_tokens.
THEOREM BooksBalance == Spec => []Books
PROOF
<1>1. IInv => Books
  <2> SUFFICES ASSUME IInv PROVE Books
    OBVIOUS
  <2>1. Counted /\ Range(returned) \cap SeqSet = {}
    BY DEF IInv, Held
  <2>2. MapThenSumSet(LAMBDA r : generated[r], Requests) = SumOver(generated, Requests)
    BY SumDefinition
  <2> QED
    BY <2>1, <2>2 DEF Counted, Books
<1> QED
  BY <1>1, Invariance, PTL

\* An eviction costs exactly one request: those given up are the refused ones and
\* one for each eviction, and none of them is ever returned as a result.
THEOREM EvictionsAreCounted == Spec => []EvictionsCost
PROOF
<1>1. IInv => EvictionsCost
  BY DEF IInv, Costs, CacheFollowsBatch, EvictionsCost, Dropped
<1> QED
  BY <1>1, Invariance, PTL

\* The engine uses the queue only as RequestScheduler allows.
THEOREM UsesQueue == Spec => SchedContract
PROOF
<1>1. Init => Sched!Init
  BY DEF Init
<1>2. IInv /\ [Next]_engineVars => [Sched!Next]_(Sched!schedVars)
  BY QueueStep
<1> QED
  BY <1>1, <1>2, Invariance, PTL DEF Spec, SchedContract, Sched!Spec

\* Every step of the engine is one call of the cache, or leaves it alone.
LEMMA CacheStep ==
  ASSUME IInv, [Next]_engineVars
  PROVE  [Cache!Next]_(Cache!cacheVars)
PROOF
<1> USE DEF Cache!poolVars, Cache!statVars
<1>1. (UNCHANGED cacheVars) => UNCHANGED Cache!cacheVars
  BY DEF cacheVars, Cache!cacheVars
<1>2. toAdmit \in Seq(Requests) /\ finishing \in Seq(Requests)
  BY DEF IInv, TypeOK
<1>3. ASSUME Join, toAdmit # <<>> PROVE Cache!Next
  <2>1. Head(toAdmit) \in Requests /\ DOMAIN PromptTokens = Requests
    BY <1>2, <1>3, EngineAssumption
  <2>2. Prompt \in Range(PromptTokens)
    BY <2>1 DEF Prompt, Range
  <2> QED
    BY <1>3, <2>1, <2>2 DEF Join, Cache!Next
<1>4. ASSUME Finish PROVE Cache!Next
  <2>1. Head(finishing) \in Requests
    BY <1>2, <1>4 DEF Finish, IInv, Stages
  <2> QED
    BY <1>4, <2>1 DEF Finish, Cache!Next
<1>5. ASSUME Admit \/ Retry PROVE Cache!Next \/ UNCHANGED cacheVars
  <2>1. toAdmit # <<>>
    BY <1>5 DEF Admit, Retry, IInv, Stages
  <2> QED
    BY <1>3, <1>5, <2>1 DEF Admit, Retry, Refuse, Evict, Cache!Next
<1>6. ASSUME NEW r \in Requests, Calls(r) \/ TimePasses(r) PROVE UNCHANGED cacheVars
  BY <1>6 DEF Calls, TimePasses
<1>7. ASSUME BeginStep \/ Admitted \/ Forward \/ ForwardRaises PROVE UNCHANGED cacheVars
  BY <1>7 DEF BeginStep, Admitted, Forward, ForwardRaises
<1>8. (UNCHANGED engineVars) => UNCHANGED cacheVars
  BY DEF engineVars, cacheVars
<1>9. CASE UNCHANGED engineVars
  BY <1>1, <1>8, <1>9
<1>10. CASE Next
  <2>1. Cache!Next \/ UNCHANGED cacheVars
    BY <1>4, <1>5, <1>6, <1>7, <1>10 DEF Next, Step, Advance
  <2> QED
    BY <1>1, <2>1
<1> QED
  BY <1>9, <1>10

\* The engine uses the cache only as CacheManager allows.
THEOREM UsesCache == Spec => CacheContract
PROOF
<1>1. Init => Cache!Init
  BY DEF Init
<1>2. IInv /\ [Next]_engineVars => [Cache!Next]_(Cache!cacheVars)
  BY CacheStep
<1> QED
  BY <1>1, <1>2, Invariance, PTL DEF Spec, CacheContract, Cache!Spec

-----------------------------------------------------------------------------
(* The pool inside the engine                                              *)

\* The proofs about the pool, for the sequences and the prompts of the engine.
CP == INSTANCE CacheManager_proofs WITH
        SeqIds <- Requests, TokenCounts <- Range(PromptTokens)

\* The pool's own constants are what it assumes of them.
LEMMA PoolAssumption == CP!CacheAssumption
PROOF
<1>1. Range(PromptTokens) \subseteq Nat
  BY EngineAssumption DEF Range
<1> QED
  BY <1>1, EngineAssumption DEF CP!CacheAssumption

\* The two copies of the pool do the same to its blocks.
LEMMA SameBlocks ==
  /\ \A q : CP!Range(q) = Cache!Range(q)
  /\ \A n : CP!Popped(n) = Cache!Popped(n) /\ CP!Unpopped(n) = Cache!Unpopped(n)
  /\ \A ids : CP!RefsWith(ids) = Cache!RefsWith(ids)
  /\ \A ids, n : CP!FilledWith(ids, n) = Cache!FilledWith(ids, n)
  /\ \A n : CP!TokensToBlocks(n) = Cache!TokensToBlocks(n)
  /\ \A s : CP!Touched(s) = Cache!Touched(s)
PROOF
<1>1. \A q : CP!Range(q) = Cache!Range(q)
  BY DEF CP!Range, Cache!Range
<1>2. \A n : CP!Popped(n) = Cache!Popped(n) /\ CP!Unpopped(n) = Cache!Unpopped(n)
  BY DEF CP!Popped, Cache!Popped, CP!Unpopped, Cache!Unpopped
<1>3. \A ids : CP!RefsWith(ids) = Cache!RefsWith(ids)
  BY DEF CP!RefsWith, Cache!RefsWith, CP!Range, Cache!Range, CP!Blocks, Cache!Blocks
<1>4. \A ids, n : CP!FilledWith(ids, n) = Cache!FilledWith(ids, n)
  BY DEF CP!FilledWith, Cache!FilledWith, CP!Range, Cache!Range, CP!Share, Cache!Share, CP!Smaller,
         Cache!Smaller, CP!Blocks, Cache!Blocks
<1>5. \A n : CP!TokensToBlocks(n) = Cache!TokensToBlocks(n)
  BY DEF CP!TokensToBlocks, Cache!TokensToBlocks
<1>6. \A s : CP!Touched(s) = Cache!Touched(s)
  BY DEF CP!RemoveFirst, CP!RemoveAt, CP!SelectInSeq, CP!Min, CP!Touched, Cache!Touched,
         Cache!RemoveFirst, Cache!RemoveAt, Cache!SelectInSeq, Cache!Min
<1> QED
  BY <1>1, <1>2, <1>3, <1>4, <1>5, <1>6

\* A released table goes back to the same places.
LEMMA SameRelease ==
  /\ \A ids, S : CP!Keep(ids, S) = Cache!Keep(ids, S)
  /\ \A s : Cache!Release(s) => CP!Release(s)
PROOF
<1>1. \A ids, S : CP!Keep(ids, S) = Cache!Keep(ids, S)
  BY DEF CP!Keep, Cache!Keep, CP!Range, Cache!Range
<1>2. ASSUME NEW s, Cache!Release(s) PROVE CP!Release(s)
  BY <1>1, <1>2, SameBlocks
     DEF CP!Release, Cache!Release, CP!Restrict, Cache!Restrict, CP!Blocks, Cache!Blocks
<1> QED
  BY <1>1, <1>2

\* A step of the engine's cache is a step of the pool the theorems are about.
LEMMA SamePool == [Cache!Next]_(Cache!cacheVars) => [CP!Next]_(CP!cacheVars)
PROOF
<1> USE DEF CP!poolVars, CP!statVars, Cache!poolVars, Cache!statVars
<1>1. CP!cacheVars = Cache!cacheVars /\ CP!cacheVars' = Cache!cacheVars'
  BY DEF CP!cacheVars, Cache!cacheVars
<1>2. \A s, n : /\ CP!LastFit(s, n) = Cache!LastFit(s, n)
                /\ CP!ToppedUp(s, n) = Cache!ToppedUp(s, n)
  BY DEF CP!LastFit, Cache!LastFit, CP!ToppedUp, Cache!ToppedUp, CP!Smaller, Cache!Smaller,
         CP!Last, Cache!Last, CP!Blocks, Cache!Blocks
<1>3. \A s, n : CP!ExtraBlocks(s, n) = Cache!ExtraBlocks(s, n)
  BY <1>2, SameBlocks DEF CP!ExtraBlocks, Cache!ExtraBlocks
<1>4. ASSUME NEW s, NEW n, Cache!AllocateSequence(s, n) PROVE CP!AllocateSequence(s, n)
  BY <1>4, SameBlocks
     DEF CP!AllocateSequence, Cache!AllocateSequence, CP!CanAllocate, Cache!CanAllocate
<1>5. ASSUME NEW s, NEW n, Cache!ExtendSequence(s, n) PROVE CP!ExtendSequence(s, n)
  BY <1>2, <1>3, <1>5, SameBlocks
     DEF CP!ExtendSequence, Cache!ExtendSequence, CP!Blocks, Cache!Blocks
<1>6. ASSUME NEW s, NEW n, Cache!ExtendRaises(s, n) PROVE CP!ExtendRaises(s, n)
  BY <1>2, <1>3, <1>6, SameBlocks DEF CP!ExtendRaises, Cache!ExtendRaises
<1>7. \A q, s : CP!RemoveFirst(q, s) = Cache!RemoveFirst(q, s)
  BY DEF CP!RemoveFirst, CP!RemoveAt, CP!SelectInSeq, CP!Min,
         Cache!RemoveFirst, Cache!RemoveAt, Cache!SelectInSeq, Cache!Min
<1>8. ASSUME NEW s, Cache!FreeSequence(s) \/ Cache!GetBlockTable(s)
      PROVE  CP!FreeSequence(s) \/ CP!GetBlockTable(s)
  BY <1>7, <1>8, SameRelease, SameBlocks
     DEF CP!FreeSequence, Cache!FreeSequence, CP!GetBlockTable, Cache!GetBlockTable
<1>9. ASSUME Cache!EvictLRU \/ Cache!EvictRaises PROVE CP!EvictLRU \/ CP!EvictRaises
  BY <1>7, <1>9, SameRelease
     DEF CP!EvictLRU, Cache!EvictLRU, CP!EvictRaises, Cache!EvictRaises
<1>10. Range(PromptTokens) = Cache!Range(PromptTokens)
  BY DEF Range, Cache!Range
<1>11. Cache!Next => CP!Next
  BY <1>4, <1>5, <1>6, <1>8, <1>9 DEF Cache!Next, CP!Next
<1> QED
  BY <1>1, <1>11

\* Every block is free or held by one sequence of the batch: the pool alone may
\* lose blocks by allocating a live id again, the engine never does that.
PoolInBatch ==
  /\ IsInjective(freeIds)
  /\ \A b \in Cache!Blocks :
       \/ b \in Range(freeIds) /\ \A s \in SeqSet : b \notin Range(tables[s])
       \/ /\ b \notin Range(freeIds)
          /\ \E s \in SeqSet : \A t \in SeqSet : b \in Range(tables[t]) <=> t = s

\* The invariant of the pool is one of the engine.
LEMMA PoolInit == Init => CP!IInv
PROOF
<1>1. Init => CP!Init
  BY DEF Init, Cache!Init, CP!Init, Cache!Blocks, CP!Blocks
<1> QED
  BY <1>1, PoolAssumption, CP!InitInv

\* Each step of the engine keeps the invariant of the pool.
LEMMA PoolStep == IInv /\ CP!IInv /\ [Next]_engineVars => CP!IInv'
PROOF
  BY CacheStep, SamePool, PoolAssumption, CP!StepInv

\* Both invariants hold in every state of the engine.
LEMMA PoolInvariance == Spec => [](IInv /\ CP!IInv)
PROOF
  BY PoolInit, PoolStep, Invariance, PTL DEF Spec

\* Whatever is evicted, refused, cancelled or finished, and whenever a forward
\* pass raises, no block is lost and none is held twice.
THEOREM NoBlockLost == Spec => []PoolInBatch
PROOF
<1>1. IInv /\ CP!IInv => PoolInBatch
  <2> SUFFICES ASSUME IInv, CP!IInv PROVE PoolInBatch
    OBVIOUS
  <2>1. DOMAIN tables = SeqSet /\ leaked = {}
    BY DEF IInv, CacheFollowsBatch
  <2>2. \A q : CP!Range(q) = Range(q)
    BY DEF CP!Range, Range
  <2>3. /\ IsInjective(freeIds)
        /\ \A s \in SeqSet : Range(tables[s]) \cap Range(freeIds) = {}
        /\ \A s, t \in SeqSet : s # t => Range(tables[s]) \cap Range(tables[t]) = {}
        /\ \A b \in Cache!Blocks : b \in Range(freeIds) \/ \E s \in SeqSet : b \in Range(tables[s])
    BY <2>1, <2>2 DEF CP!IInv, CP!BlocksExclusive, CP!BlocksAccounted, CP!IsInjective, IsInjective,
                      CP!Blocks, Cache!Blocks
  <2> QED
    BY <2>3 DEF PoolInBatch
<1> QED
  BY <1>1, PoolInvariance, PTL

=============================================================================
