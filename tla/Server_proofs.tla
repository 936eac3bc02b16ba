---------------------------- MODULE Server_proofs ----------------------------
(***************************************************************************)
(* The server keeps its promises for every set of requests, every mode,    *)
(* batch limit, pool and queue.  The handlers use the engine only as it    *)
(* allows, so the engine's invariant and the pool's hold inside the server.*)
(* What is added is how far the handler has driven the engine, and whom the*)
(* engine still works for.                                                 *)
(***************************************************************************)
EXTENDS Server, BatchingEngine_proofs

\* The requests the queue has accepted, and those the engine has work to do for.
Accepted == Range(pending) \cup running \cup completed
InEngine == Range(pending) \cup Range(toAdmit) \cup SeqSet

Replies == {"none", "stream", "ok", "failed", "rejected", "notFound", "error"}

\* Where the handler is, and that it holds the engine only while it runs it.
Control ==
  /\ mode \in {"naive", "batching"} /\ iterations \in Nat
  /\ leftover \in BOOLEAN /\ gaveUp \subseteq Requests
  /\ answer \in [Requests -> Replies] /\ usage \in [Requests -> Nat]
  /\ phase \in {"free", "submit", "run", "answer"}
  /\ IF phase = "free" THEN caller = NoRequest
     ELSE caller \in Requests /\ mode = "batching" /\ answer[caller] = "none"
  /\ phase \in {"free", "submit"} => iterations = 0
  /\ phase # "run" => pc = "idle"
  /\ phase = "submit" => caller \notin Accepted
  /\ phase \in {"run", "answer"} => caller \in Accepted

\* An engine that was left empty takes the caller's request with its first batch, and
\* when the loop is over it is empty, unless the loop gave up.
Drained ==
  /\ ~ leftover /\ phase = "run" =>
       \/ pending = <<>>
       \/ iterations = 0 /\ pc = "idle" /\ active = <<>> /\ Len(pending) <= 1
  /\ phase = "answer" => \/ pending = <<>> /\ active = <<>>
                         \/ leftover /\ caller \in gaveUp

\* Every iteration gives every sequence of the batch a token, so that the caller's
\* limit bounds the iterations when the engine works for nobody else.
Worked ==
  ~ leftover /\ phase = "run" =>
    /\ iterations < MaxTokens[caller]
    /\ \A r \in SeqSet : generated[r] >= iterations + (IF pc = "finish" THEN 1 ELSE 0)
    /\ iterations > 0 => active # <<>> /\ toAdmit = <<>>

\* The engine works for nobody but the caller unless the last run left requests
\* behind, and it takes an exception before a run does.
Alone ==
  /\ ~ leftover => InEngine \subseteq {caller}
  /\ Told("error") = {} => /\ ~ leftover /\ gaveUp = {}
                           /\ gauges = [batch |-> 0, queue |-> 0, used |-> 0]

\* Whom the engine can be working for, and whom its results can be for.
Origin ==
  /\ InEngine \subseteq {caller} \cup Told("error") \cup gaveUp
  /\ Range(returned) \subseteq {caller} \cup Told("ok") \cup Told("error") \cup gaveUp

\* Nobody cancels what was started, and what ends has tokens.
Lived ==
  /\ \A r \in started : status[r] # "cancelled"
  /\ \A r \in Range(finishing) \cup Range(returned) : generated[r] > 0

\* What a client was told stays true: the engine is done with its request, unless
\* the loop gave up on it.
Clients ==
  \A r \in Requests :
    /\ answer[r] = "ok" /\ mode = "batching" => r \in Range(returned) /\ usage[r] = generated[r]
    /\ answer[r] = "rejected" => r \notin InEngine /\ r \notin started
    /\ answer[r] = "notFound" /\ r \notin gaveUp =>
         r \notin InEngine /\ status[r] \in {"failed", "cancelled"}

\* The metrics; the tokens as a sum that can be reasoned about.
Counters ==
  /\ served = Cardinality(Told("ok"))
  /\ errors = Cardinality(Told("notFound") \cup Told("failed"))
  /\ servedTokens = SumOver(usage, Told("ok"))
  /\ naiveCount = IF mode = "naive" THEN served + errors ELSE 0

HInv == Control /\ Drained /\ Worked /\ Alone /\ Origin /\ Lived /\ Clients /\ Counters

SInv == IInv /\ CP!IInv /\ HInv

-----------------------------------------------------------------------------
(* What the engine does to the server's requests                           *)

\* Steps that leave the batch alone: the handler's own, the construction of a
\* request, and the clock.
LEMMA Quiet ==
  ASSUME IInv,
         \/ UNCHANGED schedVars
         \/ \E r \in Requests : Sched!Create(r) \/ Sched!Expire(r),
         UNCHANGED <<cacheVars, batchVars, stepVars>>
  PROVE  /\ UNCHANGED <<status, started, pending, running, completed, maxBatchSize, active,
                        generated, returned, pc, toAdmit, finishing, freeIds>>
         /\ SeqSet' = SeqSet /\ InEngine' = InEngine /\ Accepted' = Accepted
         /\ Lived => Lived'
PROOF
<1>1. UNCHANGED <<status, started, pending, running, completed, maxBatchSize, active,
                  generated, returned, pc, toAdmit, finishing, freeIds>>
  BY DEF schedVars, cacheVars, batchVars, bookVars, stepVars, Sched!Create, Sched!Expire,
         Sched!queueVars
<1>2. SeqSet' = SeqSet /\ InEngine' = InEngine /\ Accepted' = Accepted
  BY <1>1 DEF SeqSet, InEngine, Accepted
<1>3. Lived => Lived'
  BY <1>1 DEF Lived
<1> QED
  BY <1>1, <1>2, <1>3

\* A step() of the engine works only for the requests it holds; it forgets none,
\* returns what was in the batch, and starts what waited.
LEMMA StepFacts ==
  ASSUME IInv, Lived, Step
  PROVE  /\ InEngine' \subseteq InEngine /\ Accepted \subseteq Accepted'
         /\ Range(returned) \subseteq Range(returned')
         /\ Range(returned') \subseteq Range(returned) \cup SeqSet
         /\ started' \subseteq started \cup InEngine
         /\ \A r \in Requests \ InEngine : status'[r] = status[r] /\ generated'[r] = generated[r]
         /\ Lived'
PROOF
<1>1. /\ TypeOK /\ CacheFollowsBatch /\ Held /\ Stages /\ RunningIsServed /\ SP!IInv
  BY DEF IInv
<1>2. /\ active \in Seq(Requests) /\ toAdmit \in Seq(Requests) /\ finishing \in Seq(Requests)
      /\ returned \in Seq(Requests) /\ generated \in [Requests -> Nat]
      /\ IsInjective(active) /\ IsInjective(toAdmit) /\ IsInjective(finishing)
      /\ Range(active) = SeqSet /\ Range(finishing) \subseteq SeqSet
      /\ SeqSet \subseteq Requests
  <2>1. active \in Seq(Requests) /\ SeqSet = Range(active)
    BY <1>1 DEF TypeOK, SeqSet
  <2>2. SeqSet \subseteq Requests
    BY <2>1 DEF Range
  <2> QED
    BY <1>1, <2>1, <2>2 DEF TypeOK, Held
<1>3. CASE BeginStep
  <2>1. UNCHANGED <<active, generated, returned, finishing>> /\ SeqSet' = SeqSet
    BY <1>3 DEF BeginStep, batchVars, bookVars, SeqSet
  <2>2. CASE UNCHANGED <<toAdmit, schedVars>>
    BY <2>1, <2>2 DEF schedVars, InEngine, Accepted, Lived
  <2>3. ASSUME Free > 0, NEW q, Sched!GetNextBatch(Free, q), toAdmit' = Sched!Batch(Free, q)
        PROVE  /\ InEngine' \subseteq InEngine /\ Accepted \subseteq Accepted'
               /\ started' \subseteq started \cup InEngine
               /\ \A r \in Requests \ InEngine : status'[r] = status[r]
               /\ Lived'
    <3>1. Free \in Nat
      BY <1>1, <1>2, <2>3, EngineAssumption DEF Free, TypeOK
    <3>2. /\ Range(toAdmit') \subseteq Range(pending)
          /\ Range(pending') \subseteq Range(pending) \ Range(toAdmit')
          /\ Range(pending) \subseteq Range(pending') \cup Range(toAdmit') \cup completed'
          /\ started' = started \cup Range(toAdmit')
          /\ running' = running \cup Range(toAdmit') /\ completed \subseteq completed'
          /\ \A r \in Requests :
               status'[r] = IF r \in Range(toAdmit') THEN "running"
                            ELSE IF r \in Range(pending) /\ r \in expired THEN "cancelled"
                            ELSE status[r]
      BY <1>1, <2>3, <3>1, BatchFacts
    <3>3. started \subseteq Requests /\ \A r \in Requests : r \in Range(pending) => r \notin started
      BY <1>1, QueueFacts
    <3>4. toAdmit = <<>> /\ Range(toAdmit) = {}
      BY <1>1, <1>3 DEF Stages, BeginStep, Range
    <3>5. Range(pending) \subseteq Requests
      BY <1>1, QueueFacts DEF Range
    <3>6. InEngine' \subseteq InEngine /\ Accepted \subseteq Accepted'
          /\ started' \subseteq started \cup InEngine
      BY <2>1, <3>2 DEF InEngine, Accepted
    <3>7. Lived'
      BY <2>1, <3>2, <3>3, <3>5 DEF Lived
    <3> QED
      BY <3>2, <3>6, <3>7 DEF InEngine
  <2> QED
    BY <1>3, <2>1, <2>2, <2>3 DEF BeginStep
<1>4. ASSUME Join, toAdmit # <<>>
      PROVE  /\ UNCHANGED <<status, started, pending, running, completed, generated, returned,
                            finishing>>
             /\ InEngine' = InEngine
  <2>1. UNCHANGED <<status, started, pending, running, completed, generated, returned, finishing>>
        /\ active' = Append(active, Head(toAdmit)) /\ toAdmit' = Tail(toAdmit)
    BY <1>4 DEF Join, schedVars, bookVars
  <2>2. Head(toAdmit) \in Range(toAdmit) /\ Head(toAdmit) \in Requests
        /\ Range(Tail(toAdmit)) = Range(toAdmit) \ {Head(toAdmit)}
    BY <1>2, <1>4, TailProperties, RemoveWhere
  <2>3. Head(toAdmit) \notin Range(active)
    BY <1>1, <1>2, <2>2 DEF Held
  <2>4. Range(active') = Range(active) \cup {Head(toAdmit)}
    BY <1>2, <2>1, <2>2, <2>3, AppendFresh
  <2> QED
    BY <2>1, <2>2, <2>4 DEF InEngine, SeqSet
<1>5. ASSUME NEW r \in Requests, Sched!Fail(r)
      PROVE  /\ UNCHANGED <<started, pending, running, completed>>
             /\ \A x \in Requests : status'[x] = IF x = r THEN "failed" ELSE status[x]
  BY <1>1, <1>5, FailFacts DEF Sched!Fail, Sched!queueVars
<1>6. ASSUME Refuse, toAdmit # <<>>
      PROVE  \E r \in InEngine \cap Requests :
               /\ UNCHANGED <<started, pending, running, completed, generated, returned, finishing>>
               /\ \A x \in Requests : status'[x] = IF x = r THEN "failed" ELSE status[x]
               /\ InEngine' \subseteq InEngine
  <2>1. Head(toAdmit) \in Range(toAdmit) /\ Head(toAdmit) \in Requests
        /\ Range(Tail(toAdmit)) = Range(toAdmit) \ {Head(toAdmit)}
    BY <1>2, <1>6, TailProperties, RemoveWhere
  <2>2. Sched!Fail(Head(toAdmit)) /\ toAdmit' = Tail(toAdmit)
        /\ UNCHANGED <<active, generated, returned, finishing>>
    BY <1>6 DEF Refuse, batchVars, bookVars
  <2>3. UNCHANGED pending
    BY <1>5, <2>1, <2>2
  <2>4. InEngine' \subseteq InEngine /\ Head(toAdmit) \in InEngine
    BY <2>1, <2>2, <2>3 DEF InEngine, SeqSet
  <2> QED
    BY <1>5, <2>1, <2>2, <2>4
<1>7. ASSUME Evict
      PROVE  \E r \in InEngine \cap Requests :
               /\ UNCHANGED <<started, pending, running, completed, generated, returned, finishing>>
               /\ \A x \in Requests : status'[x] = IF x = r THEN "failed" ELSE status[x]
               /\ InEngine' \subseteq InEngine
  <2>1. active # <<>> /\ active' = RemoveFirst(active, Head(active))
        /\ (Head(active) \in SeqSet => Sched!Fail(Head(active)))
        /\ UNCHANGED <<generated, returned, finishing, toAdmit>>
    BY <1>1, <1>7 DEF Evict, Cache!EvictLRU, CacheFollowsBatch, bookVars
  <2>2. Head(active) \in SeqSet /\ Head(active) \in Requests /\ Range(active') \subseteq SeqSet
    BY <1>2, <2>1, TailProperties, RemoveWhere
  <2>3. UNCHANGED pending
    BY <1>5, <2>1, <2>2
  <2>4. InEngine' \subseteq InEngine /\ Head(active) \in InEngine
    BY <2>1, <2>2, <2>3 DEF InEngine, SeqSet
  <2> QED
    BY <1>5, <2>1, <2>2, <2>4
<1>8. CASE Admit \/ Retry
  <2>1. toAdmit # <<>>
    BY <1>1, <1>8 DEF Admit, Retry, Stages
  <2>2. Join \/ Refuse \/ Evict
    BY <1>8 DEF Admit, Retry
  <2>3. CASE Join
    BY <1>4, <2>1, <2>3 DEF Accepted, Lived
  <2>4. CASE Refuse \/ Evict
    <3>1. PICK r \in InEngine \cap Requests :
            /\ UNCHANGED <<started, pending, running, completed, generated, returned, finishing>>
            /\ \A x \in Requests : status'[x] = IF x = r THEN "failed" ELSE status[x]
            /\ InEngine' \subseteq InEngine
      BY <1>6, <1>7, <2>1, <2>4
    <3>2. started \subseteq Requests
      BY <1>1, QueueFacts
    <3> QED
      BY <3>1, <3>2 DEF Accepted, Lived
  <2> QED
    BY <2>2, <2>3, <2>4
<1>9. CASE Admitted \/ ForwardRaises
  <2>1. UNCHANGED <<status, started, pending, running, completed, active, generated, returned,
                    toAdmit, finishing>>
    BY <1>9 DEF Admitted, ForwardRaises, schedVars, batchVars, bookVars
  <2> QED
    BY <2>1 DEF InEngine, Accepted, SeqSet, Lived
<1>10. CASE Forward
  <2>1. /\ UNCHANGED <<status, started, pending, running, completed, active, returned, toAdmit>>
        /\ generated' = [r \in Requests |-> generated[r] + (IF r \in SeqSet THEN 1 ELSE 0)]
    BY <1>10 DEF Forward, schedVars
  <2>2. IInv'
    BY <1>10, ForwardInv
  <2>3. Range(finishing') \subseteq SeqSet
    BY <2>1, <2>2 DEF IInv, Held, SeqSet
  <2>4. InEngine' = InEngine /\ Accepted' = Accepted
    BY <2>1 DEF InEngine, Accepted, SeqSet
  <2>5. \A r \in Requests \ InEngine : generated'[r] = generated[r]
    BY <1>2, <2>1 DEF InEngine
  <2>6. Range(returned) \subseteq Requests /\ Range(returned) \cap SeqSet = {}
    BY <1>1, <1>2 DEF Range, Held
  <2>7. \A r \in Range(finishing') \cup Range(returned') : generated'[r] > 0
    BY <1>2, <2>1, <2>3, <2>6 DEF Lived
  <2> QED
    BY <2>1, <2>4, <2>5, <2>7 DEF Lived
<1>11. CASE Finish
  <2> DEFINE r == Head(finishing)
  <2>1. /\ active' = RemoveFirst(active, r) /\ returned' = Append(returned, r)
        /\ finishing' = Tail(finishing) /\ UNCHANGED <<generated, toAdmit>>
        /\ Sched!CompleteRequest(r) \/ (r \notin running /\ UNCHANGED schedVars)
        /\ finishing # <<>>
    BY <1>1, <1>11 DEF Finish, Stages
  <2>2. /\ r \in Requests /\ r \in SeqSet /\ r \in Range(finishing)
        /\ Range(Tail(finishing)) \subseteq Range(finishing)
    BY <1>2, <2>1, TailProperties, RemoveWhere
  <2>3. /\ UNCHANGED <<started, pending>>
        /\ running \cup completed \subseteq running' \cup completed'
        /\ \A x \in Requests : status'[x] = status[x] \/ (x = r /\ status'[x] = "completed")
    <3>1. status \in [Requests -> {"pending", "running", "completed", "cancelled", "failed"}]
      BY <1>1, QueueFacts
    <3>2. CASE Sched!CompleteRequest(r)
      BY <2>2, <3>1, <3>2 DEF Sched!CompleteRequest
    <3>3. CASE UNCHANGED schedVars
      BY <3>3 DEF schedVars
    <3> QED
      BY <2>1, <3>2, <3>3
  <2> HIDE DEF r
  <2>4. Range(active') \subseteq SeqSet
    BY <1>2, <2>1, RemoveFirstProperties
  <2>5. r \notin Range(returned) /\ IsInjective(returned)
    BY <1>1, <2>2 DEF Held, IInv, Counted
  <2>6. Range(returned') = Range(returned) \cup {r}
    BY <1>2, <2>1, <2>2, <2>5, AppendFresh
  <2>7. started \subseteq Requests
    BY <1>1, QueueFacts
  <2>8. InEngine' \subseteq InEngine /\ Accepted \subseteq Accepted' /\ r \in InEngine
    BY <2>1, <2>2, <2>3, <2>4 DEF InEngine, Accepted, SeqSet
  <2>9. Lived'
    BY <2>1, <2>2, <2>3, <2>6, <2>7 DEF Lived
  <2> QED
    BY <2>1, <2>2, <2>3, <2>6, <2>8, <2>9
<1> QED
  BY <1>3, <1>8, <1>9, <1>10, <1>11 DEF Step, Advance

-----------------------------------------------------------------------------
(* The engine inside the server                                            *)

\* A handler calls the engine between two of its steps, and drives its steps.
LEMMA EngineStep ==
  ASSUME IInv, Control, [ServerNext]_allVars
  PROVE  [Next]_engineVars
PROOF
<1>1. (UNCHANGED <<schedVars, cacheVars, batchVars, stepVars>>) => UNCHANGED engineVars
  BY DEF engineVars
<1>2. ASSUME NEW r \in Requests, GenerateStream(r) \/ GenerateNaive(r) PROVE UNCHANGED engineVars
  BY <1>2 DEF GenerateStream, GenerateNaive
<1>3. ASSUME NEW r \in Requests, Arrive(r) PROVE Calls(r)
  BY <1>3 DEF Arrive, New, Control, Calls
<1>4. CASE Submit
  <2>1. pc = "idle" /\ caller \in Requests
    BY <1>4 DEF Submit, Control
  <2>2. Sched!Submit(caller) => Calls(caller)
    BY <1>4, <2>1 DEF Submit, Calls
  <2>3. Sched!Submit(caller) => Next
    BY <2>1, <2>2 DEF Next
  <2> QED
    BY <1>1, <1>4, <2>3 DEF Submit
<1>5. (RunStep \/ RunRaises) => Next
  BY DEF RunStep, RunRaises, Step, Next
<1>6. (Respond \/ Scrape) => UNCHANGED engineVars
  BY DEF Respond, Scrape
<1>7. ASSUME NEW r \in Requests, Clock(r) PROVE TimePasses(r)
  BY <1>7 DEF Clock
<1>8. (UNCHANGED allVars) => UNCHANGED engineVars
  BY DEF allVars
<1>9. CASE Handler
  BY <1>4, <1>5, <1>6, <1>9 DEF Handler
<1>10. ASSUME NEW r \in Requests,
              GenerateStream(r) \/ GenerateNaive(r) \/ Arrive(r) \/ Clock(r)
       PROVE  [Next]_engineVars
  BY <1>2, <1>3, <1>7, <1>10 DEF Next
<1> QED
  BY <1>6, <1>8, <1>9, <1>10 DEF ServerNext

\* The requests of the queue in terms of the engine.
LEMMA Known ==
  ASSUME IInv
  PROVE  /\ started \subseteq Accepted /\ Accepted \subseteq Range(created)
         /\ SeqSet \cup Range(toAdmit) \cup Range(returned) \subseteq started
         /\ InEngine \subseteq Accepted /\ InEngine \subseteq Requests
         /\ Range(returned) \cap InEngine = {} /\ Range(returned) \subseteq Requests
PROOF
<1>1. /\ SP!Placed = Accepted
  BY SameRange DEF SP!Placed, Accepted
<1>2. /\ started \subseteq Requests /\ Range(pending) \subseteq Requests
      /\ \A r \in Range(pending) : r \notin started
  BY QueueFacts DEF IInv, Range
<1>3. started \subseteq Accepted /\ Accepted \subseteq Range(created)
  BY <1>1, <1>2, SameRange DEF IInv, SP!IInv, SP!Lives
<1>4. /\ SeqSet \cup Range(toAdmit) \cup Range(returned) \subseteq started
      /\ Range(returned) \cap (SeqSet \cup Range(toAdmit)) = {}
  BY DEF IInv, Held
<1> QED
  BY <1>2, <1>3, <1>4 DEF InEngine, Accepted

\* Once the engine is empty every request it accepted has ended, and whatever was
\* completed has been returned.
LEMMA Outcome ==
  ASSUME IInv, NEW r \in Requests \cap Accepted, InEngine = {}
  PROVE  /\ status[r] \in {"completed", "failed", "cancelled"}
         /\ status[r] = "completed" => r \in Range(returned)
PROOF
<1>1. status[r] = "completed" => r \in Range(returned)
  BY DEF IInv, Counted
<1>2. CASE r \in completed
  <2>1. status[r] \notin {"pending", "running"}
    BY <1>2 DEF IInv, SP!IInv, SP!OnePlace
  <2>2. status \in [Requests -> {"pending", "running", "completed", "cancelled", "failed"}]
    BY QueueFacts DEF IInv
  <2> QED
    BY <1>1, <2>1, <2>2
<1>3. CASE r \in running
  <2>1. r \in started /\ r \notin SeqSet \cup Range(toAdmit)
    BY <1>3, QueueFacts DEF IInv, InEngine
  <2>2. r \in Dropped \/ r \in Range(returned)
    BY <2>1 DEF Dropped
  <2> QED
    BY <1>1, <2>2 DEF IInv, Costs
<1> QED
  BY <1>2, <1>3 DEF Accepted, InEngine

\* A sequence with no members is empty.
LEMMA EmptySequence ==
  ASSUME NEW S, NEW q \in Seq(S), Range(q) = {}
  PROVE  q = <<>>
PROOF
<1>1. DOMAIN q = {}
  BY DEF Range
<1>2. DOMAIN q = 1 .. Len(q) /\ Len(q) \in Nat
  OBVIOUS
<1> QED
  BY <1>1, <1>2

\* An empty engine shows in the gauges: every block is back in the free list.
LEMMA EmptyGauges ==
  ASSUME IInv, CP!IInv, InEngine = {}
  PROVE  EngineGauges = [batch |-> 0, queue |-> 0, used |-> 0]
PROOF
<1>1. active \in Seq(Requests) /\ pending \in Seq(Requests)
  BY QueueFacts DEF IInv, TypeOK
<1>2. Range(active) = {} /\ Range(pending) = {}
  BY DEF InEngine, SeqSet
<1>3. active = <<>> /\ pending = <<>>
  BY <1>1, <1>2, EmptySequence
<1>4. DOMAIN tables = {} /\ leaked = {}
  BY <1>2 DEF IInv, CacheFollowsBatch, SeqSet
<1>5. \A q : CP!Range(q) = Range(q)
  BY DEF CP!Range, Range
<1>6. /\ freeIds \in Seq(0 .. NumBlocks - 1) /\ IsInjective(freeIds)
      /\ 0 .. NumBlocks - 1 \subseteq Range(freeIds)
  BY <1>4, <1>5 DEF CP!IInv, CP!TypeOK, CP!BlocksExclusive, CP!BlocksAccounted, CP!Blocks,
                    CP!IsInjective, IsInjective
<1>7. Range(freeIds) = 0 .. NumBlocks - 1
  <2>1. \A S : freeIds \in Seq(S) => Range(freeIds) \subseteq S
    BY DEF Range
  <2> QED
    BY <1>6, <2>1
<1>8. Len(freeIds) = NumBlocks
  <2>1. Cardinality(0 .. NumBlocks - 1) = Len(freeIds)
    BY <1>6, <1>7, InjectiveLength
  <2>2. NumBlocks \in Nat
    BY EngineAssumption
  <2>3. \A a, b \in Int : Cardinality(a .. b) = IF a > b THEN 0 ELSE b - a + 1
    BY FS_Interval
  <2>4. Cardinality(0 .. NumBlocks - 1) = NumBlocks
    BY <2>2, <2>3
  <2> QED
    BY <2>1, <2>4
<1> QED
  BY <1>3, <1>8, EngineAssumption DEF EngineGauges

\* An engine with nothing in its batch and its queue knows no request.
LEMMA NobodyInEngine ==
  ASSUME IInv, pc = "idle"
  PROVE  (pending = <<>> /\ active = <<>>) <=> InEngine = {}
PROOF
<1>1. toAdmit = <<>>
  BY DEF IInv, Stages
<1>2. active \in Seq(Requests) /\ pending \in Seq(Requests)
  BY QueueFacts DEF IInv, TypeOK
<1>3. ASSUME InEngine = {} PROVE pending = <<>> /\ active = <<>>
  <2>1. Range(active) = {} /\ Range(pending) = {}
    BY <1>3 DEF InEngine, SeqSet
  <2> QED
    BY <1>2, <2>1, EmptySequence
<1>4. ASSUME pending = <<>>, active = <<>> PROVE InEngine = {}
  BY <1>1, <1>4 DEF InEngine, SeqSet, Range
<1> QED
  BY <1>3, <1>4

\* One more client was told something.
LEMMA TellFacts ==
  ASSUME Control, NEW r \in Requests, NEW what \in Replies,
         answer' = [answer EXCEPT ![r] = what], answer[r] = "none"
  PROVE  /\ answer' \in [Requests -> Replies]
         /\ \A x \in Requests : answer'[x] = IF x = r THEN what ELSE answer[x]
         /\ \A w : w # what /\ w # "none" => Told(w)' = Told(w)
         /\ what # "none" => Told(what) \subseteq Requests /\ r \notin Told(what)
         /\ Told(what)' = Told(what) \cup {r}
PROOF
<1>1. answer \in [Requests -> Replies]
  BY DEF Control
<1>2. \A x \in Requests : answer'[x] = IF x = r THEN what ELSE answer[x]
  BY <1>1
<1>3. Told(what)' = Told(what) \cup {r}
  BY <1>2 DEF Told
<1>4. ASSUME NEW w, w # what, w # "none" PROVE Told(w)' = Told(w)
  BY <1>2, <1>4 DEF Told
<1> QED
  BY <1>1, <1>2, <1>3, <1>4 DEF Told

\* Counting one client more, and adding one client's tokens.
LEMMA OneMore ==
  ASSUME NEW S \in SUBSET Requests, NEW r \in Requests, r \notin S
  PROVE  /\ Cardinality(S) \in Nat /\ Cardinality(S \cup {r}) = Cardinality(S) + 1
         /\ \A f \in [Requests -> Nat] : SumOver(f, S \cup {r}) = SumOver(f, S) + f[r]
PROOF
<1>1. IsFiniteSet(S) /\ IsFiniteSet({r}) /\ Cardinality({r}) = 1 /\ S \cap {r} = {}
      /\ IsFiniteSet(S \cup {r})
  <2>1. IsFiniteSet(S) /\ IsFiniteSet(S \cup {r})
    BY EngineAssumption, FS_Subset
  <2> QED
    BY <2>1, FS_Singleton
<1>2. Cardinality(S \cup {r}) = Cardinality(S) + 1
  BY <1>1, CountApart
<1>3. Cardinality(S) \in Nat
  BY <1>1, FS_CardinalityType
<1>4. ASSUME NEW f \in [Requests -> Nat] PROVE SumOver(f, S \cup {r}) = SumOver(f, S) + f[r]
  <2> DEFINE U == S \cup {r}
  <2>1. IsFiniteSet(U) /\ r \in U /\ U \ {r} = S /\ (\A x \in U : f[x] \in Nat)
    BY <1>1
  <2>2. \A x \in S : f[x] \in Nat
    OBVIOUS
  <2>3. SumOver(f, S) \in Nat /\ f[r] \in Nat
    BY <1>1, <2>2, SumProperties
  <2> HIDE DEF U
  <2>4. SumOver(f, U) = f[r] + SumOver(f, U \ {r})
    BY <2>1, SumProperties
  <2>5. SumOver(f, U) = SumOver(f, S) + f[r]
    BY <2>1, <2>3, <2>4
  <2> QED
    BY <2>5 DEF U
<1> QED
  BY <1>2, <1>3, <1>4

\* One more client was given its tokens, and the success recorded.
LEMMA DeliverFacts ==
  ASSUME Control, Counters, NEW r \in Requests, NEW n \in Nat, answer[r] = "none",
         Deliver(r, n), RecordRequest(n)
  PROVE  /\ usage' \in [Requests -> Nat]
         /\ \A x \in Requests : usage'[x] = IF x = r THEN n ELSE usage[x]
         /\ served' = Cardinality(Told("ok")') /\ served' = served + 1 /\ served \in Nat
         /\ servedTokens' = SumOver(usage, Told("ok"))'
         /\ errors' = errors /\ errors' = Cardinality((Told("notFound") \cup Told("failed"))')
         /\ errors \in Nat
PROOF
<1>1. /\ usage \in [Requests -> Nat] /\ usage' = [usage EXCEPT ![r] = n]
      /\ answer' = [answer EXCEPT ![r] = "ok"]
      /\ served' = served + 1 /\ servedTokens' = servedTokens + n /\ errors' = errors
  BY DEF Control, Deliver, RecordRequest
<1>2. usage' \in [Requests -> Nat]
      /\ \A x \in Requests : usage'[x] = IF x = r THEN n ELSE usage[x]
  BY <1>1
<1>3. /\ \A w : w # "ok" /\ w # "none" => Told(w)' = Told(w)
      /\ Told("ok") \in SUBSET Requests /\ r \notin Told("ok")
      /\ Told("ok")' = Told("ok") \cup {r}
  BY <1>1, TellFacts DEF Replies
<1>4. /\ Cardinality(Told("ok")) \in Nat
      /\ Cardinality(Told("ok") \cup {r}) = Cardinality(Told("ok")) + 1
      /\ SumOver(usage', Told("ok") \cup {r}) = SumOver(usage', Told("ok")) + usage'[r]
  BY <1>2, <1>3, OneMore
<1>5. SumOver(usage', Told("ok")) = SumOver(usage, Told("ok"))
  <2>1. IsFiniteSet(Told("ok"))
    BY <1>3, EngineAssumption, FS_Subset
  <2>2. \A x \in Told("ok") : usage'[x] = usage[x]
    BY <1>2, <1>3
  <2> QED
    BY <2>1, <2>2, SumSame
<1>6. Told("notFound")' = Told("notFound") /\ Told("failed")' = Told("failed")
  BY <1>3
<1>7. errors \in Nat
  <2>1. Told("notFound") \cup Told("failed") \in SUBSET Requests
    BY DEF Told
  <2>2. \A S \in SUBSET Requests : Cardinality(S) \in Nat
    BY EngineAssumption, FS_Subset, FS_CardinalityType
  <2> QED
    BY <2>1, <2>2 DEF Counters
<1> QED
  BY <1>1, <1>2, <1>3, <1>4, <1>5, <1>6, <1>7 DEF Counters

\* One more client was told of a failure, and the error recorded.
LEMMA ErrorFacts ==
  ASSUME Control, Counters, NEW r \in Requests, NEW what \in {"failed", "notFound"},
         answer[r] = "none", Tell(r, what), RecordError
  PROVE  /\ served' = served /\ served' = Cardinality(Told("ok")')
         /\ servedTokens' = SumOver(usage, Told("ok"))'
         /\ errors' = errors + 1 /\ errors' = Cardinality((Told("notFound") \cup Told("failed"))')
         /\ served \in Nat /\ errors \in Nat
PROOF
<1> DEFINE S == Told("notFound") \cup Told("failed")
<1>1. /\ answer' = [answer EXCEPT ![r] = what] /\ usage' = usage
      /\ served' = served /\ servedTokens' = servedTokens /\ errors' = errors + 1
  BY DEF Tell, RecordError
<1>2. /\ \A w : w # what /\ w # "none" => Told(w)' = Told(w)
      /\ Told(what)' = Told(what) \cup {r}
  BY <1>1, TellFacts DEF Replies
<1>3. S \in SUBSET Requests /\ r \notin S /\ S' = S \cup {r}
  <2>1. S \in SUBSET Requests /\ r \notin S
    BY DEF Told
  <2>2. S' = S \cup {r}
    BY <1>2
  <2> QED
    BY <2>1, <2>2
<1>4. Told("ok")' = Told("ok") /\ Told("ok") \in SUBSET Requests
  BY <1>2 DEF Told
<1>5. errors = Cardinality(S) /\ served = Cardinality(Told("ok"))
      /\ servedTokens = SumOver(usage, Told("ok"))
  BY DEF Counters
<1> HIDE DEF S
<1>6. Cardinality(S) \in Nat /\ Cardinality(S') = errors + 1
  BY <1>3, <1>5, OneMore
<1>7. Cardinality(Told("ok")) \in Nat
  BY <1>4, EngineAssumption, FS_Subset, FS_CardinalityType
<1> QED
  BY <1>1, <1>4, <1>5, <1>6, <1>7 DEF S

-----------------------------------------------------------------------------
(* The invariant is inductive                                              *)

\* The invariant holds before the first call.
LEMMA ServerInitInv == ServerInit => SInv
PROOF
<1> SUFFICES ASSUME ServerInit PROVE SInv
  OBVIOUS
<1>1. IInv /\ CP!IInv
  BY InitInv, PoolInit DEF ServerInit
<1>2. Range(pending) = {} /\ Range(returned) = {} /\ Range(toAdmit) = {} /\ SeqSet = {}
      /\ Range(finishing) = {}
  BY DEF ServerInit, Init, Sched!Init, Range, SeqSet
<1>3. pending = <<>> /\ active = <<>> /\ pc = "idle" /\ started = {}
  BY DEF ServerInit, Init, Sched!Init
<1>4. Control /\ Drained /\ Worked
  BY <1>3 DEF ServerInit, Control, Drained, Worked, Replies
<1>5. Alone /\ Origin /\ Lived
  BY <1>2, <1>3 DEF ServerInit, Alone, Origin, Lived, InEngine
<1>6. Clients
  BY DEF ServerInit, Clients
<1>7. Counters
  <2>1. Told("ok") = {} /\ Told("notFound") \cup Told("failed") = {}
    BY DEF ServerInit, Told
  <2>2. SumOver(usage, {}) = 0
    BY FS_EmptySet, SumOfZeros
  <2> QED
    BY <2>1, <2>2, FS_EmptySet DEF ServerInit, Counters
<1> QED
  BY <1>1, <1>4, <1>5, <1>6, <1>7 DEF SInv, HInv

\* A request that streams, or that the naive engine serves, leaves the batching
\* engine alone.
LEMMA ElsewhereInv ==
  ASSUME SInv, NEW r \in Requests, GenerateStream(r) \/ GenerateNaive(r)
  PROVE  HInv'
PROOF
<1>1. IInv /\ Control /\ Drained /\ Worked /\ Alone /\ Origin /\ Lived /\ Clients /\ Counters
  BY DEF SInv, HInv
<1>2. /\ UNCHANGED <<schedVars, cacheVars, batchVars, stepVars>>
      /\ UNCHANGED <<mode, caller, phase, iterations, leftover, gaveUp, gauges>>
      /\ phase = "free" /\ answer[r] = "none"
  BY DEF GenerateStream, GenerateNaive, New, engineVars, handlerVars
<1>3. /\ UNCHANGED <<status, started, pending, running, completed, maxBatchSize, active,
                     generated, returned, pc, toAdmit, finishing>>
      /\ SeqSet' = SeqSet /\ InEngine' = InEngine /\ Accepted' = Accepted /\ Lived'
  BY <1>1, <1>2, Quiet
<1>4. PICK what \in {"stream", "ok", "failed"} :
        /\ answer' = [answer EXCEPT ![r] = what]
        /\ what = "ok" => mode = "naive"
  BY DEF GenerateStream, GenerateNaive, Tell, Deliver
<1>5. /\ answer' \in [Requests -> Replies]
      /\ \A x \in Requests : answer'[x] = IF x = r THEN what ELSE answer[x]
      /\ \A w : w # what /\ w # "none" => Told(w)' = Told(w)
      /\ Told(what)' = Told(what) \cup {r}
  <2>1. what \in Replies /\ what # "none"
    BY <1>4 DEF Replies
  <2> QED
    BY <1>1, <1>2, <1>4, <2>1, TellFacts
<1>6. usage' \in [Requests -> Nat] /\ Counters'
  <2>1. CASE GenerateStream(r)
    <3>1. UNCHANGED <<usage, served, servedTokens, errors, naiveCount>>
      BY <2>1 DEF GenerateStream, Tell, metricVars
    <3>2. Told("ok")' = Told("ok") /\ Told("notFound")' = Told("notFound")
          /\ Told("failed")' = Told("failed")
      <4>1. answer'[r] = "stream" /\ \A x \in Requests : x # r => answer'[x] = answer[x]
        BY <1>1, <2>1 DEF GenerateStream, Tell, Control
      <4> QED
        BY <1>2, <4>1 DEF Told
    <3> QED
      BY <1>1, <1>2, <3>1, <3>2 DEF Counters, Control
  <2>2. CASE GenerateNaive(r)
    <3>1. PICK n \in 0 .. MaxTokens[r] :
            /\ naiveCount' = naiveCount + 1 /\ mode = "naive" /\ n \in Nat
            /\ \/ RecordRequest(n) /\ Deliver(r, n)
               \/ RecordError /\ Tell(r, "failed")
      BY <2>2 DEF GenerateNaive, NaiveGenerate
    <3>2. naiveCount = served + errors
      BY <1>1, <3>1 DEF Counters
    <3>3. CASE RecordRequest(n) /\ Deliver(r, n)
      <4>1. /\ usage' \in [Requests -> Nat]
            /\ served' = Cardinality(Told("ok")') /\ served' = served + 1 /\ served \in Nat
            /\ servedTokens' = SumOver(usage, Told("ok"))'
            /\ errors' = errors /\ errors' = Cardinality((Told("notFound") \cup Told("failed"))')
            /\ errors \in Nat
        BY <1>1, <1>2, <3>1, <3>3, DeliverFacts
      <4> QED
        BY <1>2, <3>1, <3>2, <4>1 DEF Counters
    <3>4. CASE RecordError /\ Tell(r, "failed")
      <4>1. /\ served' = served /\ served' = Cardinality(Told("ok")')
            /\ servedTokens' = SumOver(usage, Told("ok"))'
            /\ errors' = errors + 1
            /\ errors' = Cardinality((Told("notFound") \cup Told("failed"))')
            /\ served \in Nat /\ errors \in Nat
        BY <1>1, <1>2, <3>4, ErrorFacts
      <4>2. usage' \in [Requests -> Nat]
        BY <1>1, <3>4 DEF Tell, Control
      <4> QED
        BY <1>2, <3>1, <3>2, <4>1, <4>2 DEF Counters
    <3> QED
      BY <3>1, <3>3, <3>4
  <2> QED
    BY <2>1, <2>2
<1>7. Control' /\ Drained' /\ Worked'
  BY <1>1, <1>2, <1>3, <1>5, <1>6 DEF Control, Drained, Worked
<1>8. Told("error")' = Told("error") /\ Told("ok") \subseteq Told("ok")'
  BY <1>5
<1>9. Alone' /\ Origin'
  BY <1>1, <1>2, <1>3, <1>8 DEF Alone, Origin
<1>10. Clients'
  <2>1. \A x \in Requests : x # r /\ mode = "batching" => usage'[x] = usage[x]
    BY <1>1 DEF GenerateStream, GenerateNaive, Tell
  <2> QED
    BY <1>1, <1>2, <1>3, <1>4, <1>5, <2>1 DEF Clients
<1> QED
  BY <1>3, <1>6, <1>7, <1>9, <1>10 DEF HInv

\* The handler of a request that is new to the queue starts.
LEMMA ArriveInv == ASSUME SInv, NEW r \in Requests, Arrive(r) PROVE HInv'
PROOF
<1>1. IInv /\ Control /\ Drained /\ Worked /\ Alone /\ Origin /\ Lived /\ Clients /\ Counters
  BY DEF SInv, HInv
<1>2. /\ UNCHANGED <<cacheVars, batchVars, stepVars>> /\ Sched!Create(r)
      /\ UNCHANGED <<mode, iterations, leftover, gaveUp, gauges, answer, usage, served,
                     servedTokens, errors, naiveCount>>
      /\ mode = "batching" /\ phase = "free" /\ answer[r] = "none"
      /\ caller' = r /\ phase' = "submit"
  BY DEF Arrive, New, metricVars, clientVars
<1>3. /\ UNCHANGED <<status, started, pending, running, completed, maxBatchSize, active,
                     generated, returned, pc, toAdmit, finishing>>
      /\ SeqSet' = SeqSet /\ InEngine' = InEngine /\ Accepted' = Accepted /\ Lived'
  BY <1>1, <1>2, Quiet
<1>4. \A w : Told(w)' = Told(w)
  BY <1>2 DEF Told
<1>5. r \notin Accepted
  BY <1>1, <1>2, Known, SameRange DEF Sched!Create
<1>6. Control' /\ Drained' /\ Worked'
  BY <1>1, <1>2, <1>3, <1>5 DEF Control, Drained, Worked
<1>7. Alone' /\ Origin'
  <2>1. caller \notin Requests /\ InEngine \subseteq Requests /\ Range(returned) \subseteq Requests
    BY <1>1, <1>2, Known, ServerAssumption DEF Control
  <2> QED
    BY <1>1, <1>2, <1>3, <1>4, <2>1 DEF Alone, Origin
<1>8. Clients' /\ Counters'
  BY <1>1, <1>2, <1>3, <1>4 DEF Clients, Counters
<1> QED
  BY <1>3, <1>6, <1>7, <1>8 DEF HInv

\* The queue accepts the request, or the client is told that it is full.
LEMMA SubmitServerInv == ASSUME SInv, Submit PROVE HInv'
PROOF
<1>1. IInv /\ Control /\ Drained /\ Worked /\ Alone /\ Origin /\ Lived /\ Clients /\ Counters
  BY DEF SInv, HInv
<1>2. /\ phase = "submit" /\ UNCHANGED <<cacheVars, batchVars, stepVars>>
      /\ UNCHANGED <<mode, gauges, leftover, gaveUp, usage, served, servedTokens, errors,
                     naiveCount>>
  BY DEF Submit, metricVars, clientVars, Tell
<1>3. caller \in Requests /\ answer[caller] = "none" /\ caller \notin Accepted /\ iterations = 0
      /\ pc = "idle" /\ mode = "batching"
  BY <1>1, <1>2 DEF Control
<1>4. UNCHANGED <<maxBatchSize, active, generated, returned, pc, toAdmit, finishing>>
      /\ SeqSet' = SeqSet
  BY <1>2 DEF batchVars, bookVars, stepVars, SeqSet
<1>5. ~ leftover => pending = <<>> /\ active = <<>>
  <2>1. ~ leftover => InEngine = {}
    BY <1>1, <1>3, Known DEF Alone
  <2> QED
    BY <1>1, <1>3, <2>1, NobodyInEngine
<1>6. ASSUME Sched!Submit(caller), phase' = "run", UNCHANGED <<caller, iterations, clientVars>>
      PROVE  HInv'
  <2>1. /\ UNCHANGED <<status, started, running, completed>>
        /\ pending' = Append(pending, caller) /\ UNCHANGED <<answer, caller, iterations>>
    BY <1>6 DEF Sched!Submit, Sched!lifeVars, clientVars
  <2>2. pending \in Seq(Requests) /\ Range(pending') = Range(pending) \cup {caller}
        /\ Len(pending') = Len(pending) + 1
    <3>1. pending \in Seq(Requests) /\ IsInjective(pending) /\ caller \notin Range(pending)
      BY <1>1, <1>3, QueueFacts DEF IInv, Accepted
    <3> QED
      BY <1>3, <2>1, <3>1, AppendFresh
  <2>3. InEngine' = InEngine \cup {caller} /\ Accepted' = Accepted \cup {caller}
    BY <1>4, <2>1, <2>2 DEF InEngine, Accepted
  <2>4. \A w : Told(w)' = Told(w)
    BY <2>1 DEF Told
  <2>5. Control'
    BY <1>1, <1>2, <1>3, <1>6, <2>1, <2>3 DEF Control
  <2>6. Drained'
    <3>1. ~ leftover => Len(pending') <= 1
      BY <1>5, <2>2
    <3> QED
      BY <1>2, <1>3, <1>4, <1>5, <1>6, <2>1, <3>1 DEF Drained
  <2>7. Worked'
    <3>1. 0 < MaxTokens[caller]
      BY <1>3, EngineAssumption
    <3>2. ~ leftover => SeqSet = {}
      BY <1>5 DEF SeqSet, Range
    <3> QED
      BY <1>2, <1>3, <1>4, <2>1, <3>1, <3>2 DEF Worked
  <2>8. Alone' /\ Origin'
    BY <1>1, <1>2, <1>4, <2>1, <2>3, <2>4 DEF Alone, Origin
  <2>9. Lived'
    BY <1>1, <1>4, <2>1 DEF Lived
  <2>10. Clients'
    BY <1>1, <1>2, <1>3, <1>4, <2>1, <2>3 DEF Clients
  <2>11. Counters'
    BY <1>1, <1>2, <2>4 DEF Counters
  <2> QED
    BY <2>5, <2>6, <2>7, <2>8, <2>9, <2>10, <2>11 DEF HInv
<1>7. ASSUME Tell(caller, "rejected"), Hangup, UNCHANGED schedVars
      PROVE  HInv'
  <2>1. /\ UNCHANGED <<status, started, pending, running, completed>>
        /\ InEngine' = InEngine /\ Accepted' = Accepted /\ Lived'
    BY <1>1, <1>2, <1>7, Quiet
  <2>2. /\ answer' \in [Requests -> Replies]
        /\ \A x \in Requests : answer'[x] = IF x = caller THEN "rejected" ELSE answer[x]
        /\ \A w : w # "rejected" /\ w # "none" => Told(w)' = Told(w)
    BY <1>1, <1>3, <1>7, TellFacts DEF Replies, Tell
  <2>3. phase' = "free" /\ caller' = NoRequest /\ iterations' = 0
    BY <1>7 DEF Hangup
  <2>4. caller \notin InEngine /\ caller \notin started /\ caller \notin Range(returned)
    BY <1>1, <1>3, Known
  <2>5. Control' /\ Worked' /\ Drained'
    BY <1>1, <1>2, <1>3, <1>4, <2>2, <2>3 DEF Control, Worked, Drained
  <2>6. Alone' /\ Origin'
    BY <1>1, <1>2, <1>4, <2>1, <2>2, <2>4 DEF Alone, Origin
  <2>7. Clients'
    BY <1>1, <1>2, <1>4, <2>1, <2>2, <2>4 DEF Clients
  <2>8. Counters'
    <3>1. Told("ok")' = Told("ok") /\ Told("notFound")' = Told("notFound")
          /\ Told("failed")' = Told("failed")
      BY <2>2
    <3> QED
      BY <1>1, <1>2, <3>1 DEF Counters
  <2> QED
    BY <2>1, <2>5, <2>6, <2>7, <2>8 DEF HInv
<1> QED
  BY <1>6, <1>7 DEF Submit

\* How far one step drives an engine that works for the caller alone: it empties the
\* queue, and an iteration gives every sequence a token.
LEMMA RunFacts ==
  ASSUME SInv, phase = "run", ~ leftover, Advance
  PROVE  /\ pending' = <<>>
         /\ \A r \in SeqSet' :
              generated'[r] >= iterations + (IF pc' \in {"idle", "finish"} THEN 1 ELSE 0)
         /\ pc' # "idle" /\ iterations > 0 => active' # <<>> /\ toAdmit' = <<>>
         /\ pc' = "idle" => toAdmit' = <<>>
PROOF
<1>1. IInv /\ Control /\ Drained /\ Worked
  BY DEF SInv, HInv
<1>2. /\ TypeOK /\ CacheFollowsBatch /\ Held /\ Stages /\ SP!IInv
  BY <1>1 DEF IInv
<1>3. IInv'
  BY <1>1, StepInv DEF Next, Step
<1>4. /\ iterations \in Nat
      /\ \/ pending = <<>>
         \/ iterations = 0 /\ pc = "idle" /\ active = <<>> /\ Len(pending) <= 1
      /\ \A r \in SeqSet : generated[r] >= iterations + (IF pc = "finish" THEN 1 ELSE 0)
      /\ iterations > 0 => active # <<>> /\ toAdmit = <<>>
  BY <1>1 DEF Control, Drained, Worked
<1>5. /\ active \in Seq(Requests) /\ generated \in [Requests -> Nat] /\ pending \in Seq(Requests)
      /\ SeqSet = Range(active) /\ SeqSet \subseteq Requests
  <2>1. active \in Seq(Requests) /\ SeqSet = Range(active)
    BY <1>2 DEF TypeOK, SeqSet
  <2>2. SeqSet \subseteq Requests
    BY <2>1 DEF Range
  <2> QED
    BY <1>2, <2>1, <2>2, QueueFacts DEF TypeOK
<1>6. pc' = "idle" => toAdmit' = <<>>
  BY <1>3 DEF IInv, Stages
<1>7. CASE BeginStep
  <2>1. pc = "idle" /\ UNCHANGED <<active, maxBatchSize, generated>> /\ SeqSet' = SeqSet
        /\ pc' \in {"forward", "admit"} /\ toAdmit = <<>>
    BY <1>2, <1>7 DEF BeginStep, batchVars, bookVars, SeqSet, Stages
  <2>2. \A r \in SeqSet' :
          generated'[r] >= iterations + (IF pc' \in {"idle", "finish"} THEN 1 ELSE 0)
    BY <1>4, <2>1
  <2>3. CASE Free <= 0 /\ UNCHANGED <<toAdmit, schedVars>>
    <3>1. UNCHANGED <<pending, toAdmit>>
      BY <2>3 DEF schedVars
    <3>2. active # <<>>
      BY <1>2, <2>3, EngineAssumption DEF TypeOK, Free
    <3> QED
      BY <1>4, <2>1, <2>2, <3>1, <3>2
  <2>4. ASSUME Free > 0, NEW q, Sched!GetNextBatch(Free, q), toAdmit' = Sched!Batch(Free, q)
        PROVE  pending' = <<>> /\ (pending = <<>> => toAdmit' = <<>>)
    <3>1. Free \in Nat
      BY <1>2, <1>5, <2>4, EngineAssumption DEF TypeOK, Free
    <3>2. /\ Len(pending) <= Free => pending' = <<>>
          /\ toAdmit' \in Seq(Requests) /\ Range(toAdmit') \subseteq Range(pending)
      BY <1>2, <2>4, <3>1, BatchFacts
    <3>3. Len(pending) <= 1
      BY <1>4, <1>5
    <3>4. pending = <<>> => Range(pending) = {}
      BY DEF Range
    <3>5. pending = <<>> => toAdmit' = <<>>
      BY <3>2, <3>4, EmptySequence
    <3> QED
      BY <1>5, <2>4, <3>1, <3>2, <3>3, <3>5
  <2>5. CASE ~ (Free <= 0 /\ UNCHANGED <<toAdmit, schedVars>>)
    <3>1. pending' = <<>> /\ (pending = <<>> => toAdmit' = <<>>)
      BY <1>7, <2>4, <2>5 DEF BeginStep
    <3>2. iterations > 0 => pending = <<>>
      BY <1>4
    <3> QED
      BY <1>4, <2>1, <2>2, <3>1, <3>2
  <2> QED
    BY <2>3, <2>5
<1>8. CASE Admit \/ Retry
  <2>1. toAdmit # <<>> /\ pc \in {"admit", "retry"} /\ pc' \in {"admit", "retry"}
    BY <1>2, <1>8 DEF Admit, Retry, Stages, Join, Refuse, Evict
  <2>2. iterations = 0 /\ pending = <<>>
    BY <1>4, <2>1
  <2>3. UNCHANGED pending
    <3>1. \A r : Sched!Fail(r) => UNCHANGED pending
      BY DEF Sched!Fail, Sched!queueVars
    <3> QED
      BY <1>8, <3>1 DEF Admit, Retry, Join, Refuse, Evict, schedVars
  <2>4. SeqSet' \subseteq Requests /\ generated' \in [Requests -> Nat]
    <3>1. active' \in Seq(Requests) /\ generated' \in [Requests -> Nat]
      BY <1>3 DEF IInv, TypeOK
    <3> QED
      BY <3>1 DEF SeqSet, Range
  <2> QED
    BY <2>1, <2>2, <2>3, <2>4
<1>9. CASE Admitted
  <2>1. /\ pc = "admit" /\ pc' = (IF active = <<>> THEN "idle" ELSE "forward")
        /\ UNCHANGED <<pending, active, generated, toAdmit>> /\ SeqSet' = SeqSet
    BY <1>9 DEF Admitted, schedVars, batchVars, bookVars, SeqSet
  <2>2. pending = <<>>
    BY <1>4, <2>1
  <2>3. active = <<>> => SeqSet = {}
    BY <1>5 DEF Range
  <2> QED
    BY <1>4, <1>6, <2>1, <2>2, <2>3
<1>10. CASE Forward
  <2>1. /\ pc = "forward" /\ UNCHANGED <<pending, active, toAdmit>> /\ SeqSet' = SeqSet
        /\ generated' = [r \in Requests |-> generated[r] + (IF r \in SeqSet THEN 1 ELSE 0)]
    BY <1>10 DEF Forward, schedVars, SeqSet
  <2>2. pending = <<>>
    BY <1>4, <2>1
  <2>3. \A r \in SeqSet : generated[r] >= iterations /\ generated'[r] = generated[r] + 1
    BY <1>4, <1>5, <2>1
  <2>4. \A r \in SeqSet : generated[r] \in Nat
    BY <1>5
  <2>5. \A r \in SeqSet' :
          generated'[r] >= iterations + (IF pc' \in {"idle", "finish"} THEN 1 ELSE 0)
    BY <1>4, <2>1, <2>3, <2>4
  <2> QED
    BY <1>4, <1>6, <2>1, <2>2, <2>5
<1>11. CASE Finish
  <2> DEFINE r == Head(finishing)
  <2>1. /\ pc = "finish" /\ UNCHANGED generated /\ active' = RemoveFirst(active, r)
        /\ UNCHANGED pending /\ UNCHANGED toAdmit /\ pc' \in {"idle", "finish"}
    <3>1. Sched!CompleteRequest(r) => UNCHANGED pending
      BY DEF Sched!CompleteRequest
    <3> QED
      BY <1>11, <3>1 DEF Finish, schedVars
  <2> HIDE DEF r
  <2>2. pending = <<>> /\ toAdmit = <<>>
    BY <1>2, <1>4, <2>1 DEF Stages
  <2>3. SeqSet' \subseteq SeqSet
    BY <1>2, <1>5, <2>1, RemoveFirstProperties DEF SeqSet, Held
  <2>4. \A x \in SeqSet' : generated'[x] >= iterations + 1
    BY <1>4, <2>1, <2>3
  <2>5. pc' = "finish" => active' # <<>>
    <3>1. pc' = "finish" => finishing' # <<>>
      BY <1>3 DEF IInv, Stages
    <3>2. Range(finishing') \subseteq SeqSet' /\ finishing' \in Seq(Requests)
      BY <1>3 DEF IInv, Held, TypeOK
    <3>3. active' = <<>> => SeqSet' = {}
      BY DEF SeqSet, Range
    <3>4. Range(finishing') = {} => finishing' = <<>>
      BY <3>2, EmptySequence
    <3> QED
      BY <3>1, <3>2, <3>3, <3>4
  <2> QED
    BY <2>1, <2>2, <2>4, <2>5
<1> QED
  BY <1>7, <1>8, <1>9, <1>10, <1>11 DEF Advance

\* When the engine works for the caller alone, the loop ends only with an idle engine,
\* and goes on only while the caller has not its tokens.
LEMMA LoopFacts ==
  ASSUME SInv, RunStep, ~ leftover
  PROVE  /\ phase' = "answer" => Idle' /\ ~ leftover' /\ gaveUp' = gaveUp
         /\ phase' = "run" /\ pc' = "idle" =>
              active' # <<>> /\ iterations' < MaxTokens[caller]
PROOF
<1>1. IInv /\ Control /\ Drained /\ Worked /\ Alone /\ Lived
  BY DEF SInv, HInv
<1>2. /\ phase = "run" /\ Advance
      /\ pc' = "idle" => iterations' = iterations + 1
      /\ (pc' = "idle" /\ (Idle' \/ iterations' >= MaxIterations)) <=> phase' = "answer"
      /\ phase' = "answer" =>
           leftover' = ~ Idle' /\ gaveUp' = IF Idle' THEN gaveUp ELSE gaveUp \cup {caller}
  BY DEF RunStep
<1>3. /\ caller \in Requests /\ iterations \in Nat /\ iterations < MaxTokens[caller]
      /\ MaxTokens[caller] \in Nat /\ MaxIterations \in Nat /\ MaxTokens[caller] < MaxIterations
  BY <1>1, <1>2, ServerAssumption, EngineAssumption DEF Control, Worked
<1>4. pc' = "idle" => iterations' < MaxIterations
  BY <1>2, <1>3
<1>5. phase' = "answer" => Idle'
  BY <1>2, <1>3, <1>4
<1>6. ASSUME phase' = "run", pc' = "idle"
      PROVE  active' # <<>> /\ iterations' < MaxTokens[caller]
  <2>1. ~ Idle'
    BY <1>2, <1>6
  <2>2. pending' = <<>> /\ \A r \in SeqSet' : generated'[r] >= iterations + 1
    BY <1>2, <1>6, RunFacts
  <2>3. active' # <<>>
    BY <2>1, <2>2 DEF Idle
  <2>4. IInv'
    BY <1>1, <1>2, StepInv DEF Next, Step
  <2>5. PICK r \in SeqSet' : TRUE
    <3>1. active' \in Seq(Requests)
      BY <2>4 DEF IInv, TypeOK
    <3> QED
      BY <2>3, <3>1, EmptySequence DEF SeqSet
  <2>6. r = caller
    <3>1. InEngine' \subseteq InEngine
      BY <1>1, <1>2, StepFacts DEF Step
    <3> QED
      BY <1>1, <2>5, <3>1 DEF Alone, InEngine
  <2>7. generated'[caller] <= MaxTokens[caller] /\ generated'[caller] # MaxTokens[caller]
        /\ generated'[caller] \in Nat
    <3>1. finishing' = <<>>
      BY <1>6, <2>4 DEF IInv, Stages
    <3>2. Range(finishing') = {}
      BY <3>1 DEF Range
    <3> QED
      BY <1>3, <2>4, <2>5, <2>6, <3>2 DEF IInv, Counted, TypeOK
  <2>8. generated'[caller] >= iterations + 1
    BY <2>2, <2>5, <2>6
  <2> QED
    BY <1>2, <1>3, <1>6, <2>3, <2>7, <2>8
<1> QED
  BY <1>2, <1>5, <1>6

\* A step of run_until_empty.
LEMMA RunInv == ASSUME SInv, RunStep PROVE HInv'
PROOF
<1>1. IInv /\ Control /\ Drained /\ Worked /\ Alone /\ Origin /\ Lived /\ Clients /\ Counters
  BY DEF SInv, HInv
<1>2. /\ phase = "run" /\ Advance
      /\ UNCHANGED <<mode, caller, answer, usage, served, servedTokens, errors, gauges,
                     naiveCount>>
      /\ iterations' = IF pc' = "idle" THEN iterations + 1 ELSE iterations
      /\ \/ phase' = "run" /\ UNCHANGED <<leftover, gaveUp>>
         \/ /\ phase' = "answer" /\ pc' = "idle"
            /\ leftover' = ~ Idle'
            /\ gaveUp' = IF Idle' THEN gaveUp ELSE gaveUp \cup {caller}
  BY DEF RunStep, metricVars, clientVars
<1>3. /\ InEngine' \subseteq InEngine /\ Accepted \subseteq Accepted'
      /\ Range(returned) \subseteq Range(returned')
      /\ Range(returned') \subseteq Range(returned) \cup SeqSet
      /\ started' \subseteq started \cup InEngine
      /\ \A r \in Requests \ InEngine : status'[r] = status[r] /\ generated'[r] = generated[r]
      /\ Lived'
  BY <1>1, <1>2, StepFacts DEF Step
<1>4. /\ iterations \in Nat /\ iterations' \in Nat /\ caller \in Requests /\ mode = "batching"
      /\ answer[caller] = "none" /\ caller \in Accepted /\ phase' \in {"run", "answer"}
  BY <1>1, <1>2 DEF Control
<1>5. ~ leftover =>
        /\ phase' = "answer" => Idle' /\ ~ leftover' /\ gaveUp' = gaveUp
        /\ phase' = "run" /\ pc' = "idle" => active' # <<>> /\ iterations' < MaxTokens[caller]
  BY LoopFacts
<1>6. ~ leftover =>
        /\ pending' = <<>>
        /\ \A r \in SeqSet' :
             generated'[r] >= iterations + (IF pc' \in {"idle", "finish"} THEN 1 ELSE 0)
        /\ pc' # "idle" /\ iterations > 0 => active' # <<>> /\ toAdmit' = <<>>
        /\ pc' = "idle" => toAdmit' = <<>>
  BY <1>2, RunFacts
<1>7. IInv'
  BY <1>1, <1>2, StepInv DEF Next, Step
<1>8. Control'
  <2>1. leftover' \in BOOLEAN /\ gaveUp' \subseteq Requests
    BY <1>1, <1>2 DEF Control
  <2> QED
    BY <1>1, <1>2, <1>3, <1>4, <2>1 DEF Control
<1>9. Drained'
  <2>1. phase' = "answer" => \/ pending' = <<>> /\ active' = <<>>
                             \/ leftover' /\ caller' \in gaveUp'
    BY <1>2 DEF Idle
  <2>2. ~ leftover' /\ phase' = "run" => pending' = <<>>
    BY <1>2, <1>6
  <2> QED
    BY <2>1, <2>2 DEF Drained
<1>10. Worked'
  <2>1. SUFFICES ASSUME ~ leftover, phase' = "run" PROVE Worked'
    BY <1>2 DEF Worked
  <2>2. iterations < MaxTokens[caller]
    BY <1>1, <1>2, <2>1 DEF Worked
  <2>3. CASE pc' = "idle"
    <3>1. iterations' = iterations + 1 /\ active' # <<>> /\ iterations' < MaxTokens[caller]
          /\ toAdmit' = <<>>
      BY <1>2, <1>5, <1>6, <2>1, <2>3
    <3>2. \A r \in SeqSet' : generated'[r] >= iterations + 1
      BY <1>6, <2>1, <2>3
    <3>3. \A n \in Nat : n + 0 = n
      OBVIOUS
    <3>4. iterations' + 0 = iterations + 1
      BY <1>4, <3>1, <3>3
    <3>5. pc' # "finish"
      BY <2>3
    <3> QED
      BY <1>2, <3>1, <3>2, <3>4, <3>5 DEF Worked
  <2>4. CASE pc' # "idle"
    <3>1. iterations' = iterations
      BY <1>2, <2>4
    <3>2. \A r \in SeqSet' : generated'[r] >= iterations + (IF pc' = "finish" THEN 1 ELSE 0)
      BY <1>6, <2>1, <2>4
    <3> QED
      BY <1>2, <1>6, <2>1, <2>2, <2>4, <3>1, <3>2 DEF Worked
  <2> QED
    BY <2>3, <2>4
<1>11. \A w : Told(w)' = Told(w)
  BY <1>2 DEF Told
<1>12. Alone'
  <2>1. ~ leftover => ~ leftover' /\ gaveUp' = gaveUp
    BY <1>2, <1>5
  <2>2. ~ leftover' /\ leftover => InEngine' = {}
    <3>1. SUFFICES ASSUME ~ leftover', leftover PROVE InEngine' = {}
      OBVIOUS
    <3>2. pending' = <<>> /\ active' = <<>> /\ toAdmit' = <<>>
      BY <1>2, <1>7, <3>1 DEF Idle, IInv, Stages
    <3> QED
      BY <3>2 DEF InEngine, SeqSet, Range
  <2> QED
    BY <1>1, <1>2, <1>3, <1>11, <2>1, <2>2 DEF Alone
<1>13. Origin'
  <2>1. gaveUp \subseteq gaveUp' /\ SeqSet \subseteq InEngine
    BY <1>2 DEF InEngine
  <2> QED
    BY <1>1, <1>2, <1>3, <1>11, <2>1 DEF Origin
<1>14. Clients'
  <2>1. gaveUp \subseteq gaveUp' /\ Range(returned) \cap InEngine = {}
    BY <1>1, <1>2, Known
  <2> QED
    BY <1>1, <1>2, <1>3, <2>1 DEF Clients
<1>15. Counters'
  BY <1>1, <1>2, <1>11 DEF Counters
<1> QED
  BY <1>3, <1>8, <1>9, <1>10, <1>12, <1>13, <1>14, <1>15 DEF HInv

\* An exception leaves the engine as it was and the server without a handler.
LEMMA RaiseInv == ASSUME SInv, RunRaises PROVE HInv'
PROOF
<1>1. IInv /\ Control /\ Drained /\ Worked /\ Alone /\ Origin /\ Lived /\ Clients /\ Counters
  BY DEF SInv, HInv
<1>2. /\ phase = "run" /\ pc' = "idle" /\ leftover' = TRUE /\ UNCHANGED <<gaveUp, usage>>
      /\ answer' = [answer EXCEPT ![caller] = "error"]
      /\ caller' = NoRequest /\ phase' = "free" /\ iterations' = 0
      /\ UNCHANGED <<status, started, pending, running, completed, maxBatchSize, active,
                     generated, returned, toAdmit, finishing, mode, served, servedTokens, errors,
                     gauges, naiveCount>>
  BY DEF RunRaises, ForwardRaises, Hangup, Tell, schedVars, batchVars, bookVars, metricVars
<1>3. /\ SeqSet' = SeqSet /\ InEngine' = InEngine /\ Accepted' = Accepted
  BY <1>2 DEF SeqSet, InEngine, Accepted
<1>4. caller \in Requests /\ answer[caller] = "none"
  BY <1>1, <1>2 DEF Control
<1>5. /\ answer' \in [Requests -> Replies]
      /\ \A x \in Requests : answer'[x] = IF x = caller THEN "error" ELSE answer[x]
      /\ \A w : w # "error" /\ w # "none" => Told(w)' = Told(w)
      /\ Told("error")' = Told("error") \cup {caller}
  BY <1>1, <1>2, <1>4, TellFacts DEF Replies
<1>6. Control' /\ Worked' /\ Drained'
  BY <1>1, <1>2, <1>3, <1>5 DEF Control, Worked, Drained
<1>7. Alone' /\ Origin' /\ Lived'
  BY <1>1, <1>2, <1>3, <1>5 DEF Alone, Origin, Lived
<1>8. Clients' /\ Counters'
  BY <1>1, <1>2, <1>3, <1>5 DEF Clients, Counters
<1> QED
  BY <1>6, <1>7, <1>8 DEF HInv

\* run_until_empty has returned: the caller's request has ended in one way or
\* another, unless the loop gave up.
LEMMA RespondInv == ASSUME SInv, Respond PROVE HInv'
PROOF
<1>1. IInv /\ Control /\ Drained /\ Worked /\ Alone /\ Origin /\ Lived /\ Clients /\ Counters
  BY DEF SInv, HInv
<1>2. /\ phase = "answer" /\ UNCHANGED <<schedVars, cacheVars, batchVars, stepVars>>
      /\ caller' = NoRequest /\ phase' = "free" /\ iterations' = 0
      /\ UNCHANGED <<mode, leftover, gaveUp, gauges, naiveCount>>
  BY DEF Respond, engineVars, Hangup
<1>3. /\ UNCHANGED <<status, started, pending, running, completed, maxBatchSize, active,
                     generated, returned, pc, toAdmit, finishing>>
      /\ SeqSet' = SeqSet /\ InEngine' = InEngine /\ Accepted' = Accepted /\ Lived'
  BY <1>1, <1>2, Quiet
<1>4. /\ caller \in Requests /\ caller \in Accepted /\ answer[caller] = "none"
      /\ pc = "idle" /\ mode = "batching"
  BY <1>1, <1>2 DEF Control
<1>5. InEngine = {} \/ (leftover /\ caller \in gaveUp)
  BY <1>1, <1>2, <1>4, NobodyInEngine DEF Drained
<1>6. /\ InEngine = {} /\ caller \notin Range(returned) =>
           status[caller] \in {"failed", "cancelled"}
      /\ caller \in Range(returned) => status[caller] # "failed" /\ caller \notin InEngine
  <2>1. InEngine = {} =>
          /\ status[caller] \in {"completed", "failed", "cancelled"}
          /\ status[caller] = "completed" => caller \in Range(returned)
    BY <1>1, <1>4, Outcome
  <2>2. caller \in Range(returned) => status[caller] # "failed" /\ caller \notin InEngine
    BY <1>1, Known DEF IInv, Costs
  <2> QED
    BY <2>1, <2>2
<1>7. Drained' /\ Worked'
  BY <1>2, <1>3, <1>4 DEF Drained, Worked
<1>8. CASE Found /\ RecordRequest(generated[caller]) /\ Deliver(caller, generated[caller])
  <2>1. generated[caller] \in Nat
    BY <1>1, <1>4 DEF IInv, TypeOK
  <2>2. /\ usage' \in [Requests -> Nat]
        /\ \A x \in Requests : usage'[x] = IF x = caller THEN generated[caller] ELSE usage[x]
        /\ served' = Cardinality(Told("ok")')
        /\ servedTokens' = SumOver(usage, Told("ok"))'
        /\ errors' = Cardinality((Told("notFound") \cup Told("failed"))')
    BY <1>1, <1>4, <1>8, <2>1, DeliverFacts
  <2>3. /\ answer' \in [Requests -> Replies]
        /\ \A x \in Requests : answer'[x] = IF x = caller THEN "ok" ELSE answer[x]
        /\ \A w : w # "ok" /\ w # "none" => Told(w)' = Told(w)
        /\ Told("ok")' = Told("ok") \cup {caller}
    BY <1>1, <1>4, <1>8, TellFacts DEF Replies, Deliver
  <2>4. caller \in Range(returned) /\ caller \notin InEngine
    BY <1>6, <1>8 DEF Found
  <2>5. Control'
    BY <1>1, <1>2, <1>3, <2>2, <2>3 DEF Control
  <2>6. Alone' /\ Origin'
    BY <1>1, <1>2, <1>3, <2>3, <2>4 DEF Alone, Origin
  <2>7. Clients'
    BY <1>1, <1>2, <1>3, <2>2, <2>3, <2>4 DEF Clients
  <2>8. Counters'
    BY <1>1, <1>2, <1>4, <2>2 DEF Counters
  <2> QED
    BY <1>3, <1>7, <2>5, <2>6, <2>7, <2>8 DEF HInv
<1>9. CASE ~ Found /\ RecordError /\ Tell(caller, "notFound")
  <2>1. /\ answer' \in [Requests -> Replies] /\ usage' = usage
        /\ \A x \in Requests : answer'[x] = IF x = caller THEN "notFound" ELSE answer[x]
        /\ \A w : w # "notFound" /\ w # "none" => Told(w)' = Told(w)
    BY <1>1, <1>4, <1>9, TellFacts DEF Replies, Tell
  <2>2. /\ served' = Cardinality(Told("ok")')
        /\ servedTokens' = SumOver(usage, Told("ok"))'
        /\ errors' = Cardinality((Told("notFound") \cup Told("failed"))')
    BY <1>1, <1>4, <1>9, ErrorFacts
  <2>3. caller \notin Range(returned)
    BY <1>6, <1>9 DEF Found
  <2>4. \/ caller \notin InEngine /\ status[caller] \in {"failed", "cancelled"}
        \/ leftover /\ caller \in gaveUp
    BY <1>5, <1>6, <2>3
  <2>5. Control'
    BY <1>1, <1>2, <1>3, <2>1 DEF Control
  <2>6. Alone' /\ Origin'
    <3>1. ~ leftover => InEngine = {}
      BY <1>5
    <3>2. InEngine \subseteq Told("error") \cup gaveUp
      BY <1>1, <1>5 DEF Origin
    <3> QED
      BY <1>1, <1>2, <1>3, <2>1, <2>3, <3>1, <3>2 DEF Alone, Origin
  <2>7. Clients'
    BY <1>1, <1>2, <1>3, <2>1, <2>4 DEF Clients
  <2>8. Counters'
    BY <1>1, <1>2, <1>4, <2>2 DEF Counters
  <2> QED
    BY <1>3, <1>7, <2>5, <2>6, <2>7, <2>8 DEF HInv
<1> QED
  BY <1>8, <1>9 DEF Respond

\* A scrape between two handlers reads an engine that is empty until an exception
\* has left requests behind; the clock changes nothing the handlers look at.
LEMMA IdleInv ==
  ASSUME SInv, Scrape \/ (\E r \in Requests : Clock(r)) \/ UNCHANGED allVars
  PROVE  HInv'
PROOF
<1>1. IInv /\ CP!IInv /\ Control /\ Drained /\ Worked /\ Alone /\ Origin /\ Lived /\ Clients
      /\ Counters
  BY DEF SInv, HInv
<1>2. /\ UNCHANGED <<mode, caller, phase, iterations, leftover, gaveUp, answer, usage, served,
                     servedTokens, errors, naiveCount>>
      /\ UNCHANGED <<cacheVars, batchVars, stepVars>>
      /\ UNCHANGED schedVars \/ \E r \in Requests : Sched!Expire(r)
      /\ \/ UNCHANGED gauges
         \/ phase = "free" /\ gauges' = EngineGauges
  BY DEF Scrape, UpdateGauges, Clock, TimePasses, allVars, engineVars, serverVars, handlerVars,
         metricVars, clientVars
<1>3. /\ UNCHANGED <<status, started, pending, running, completed, maxBatchSize, active,
                     generated, returned, pc, toAdmit, finishing>>
      /\ SeqSet' = SeqSet /\ InEngine' = InEngine /\ Accepted' = Accepted /\ Lived'
  BY <1>1, <1>2, Quiet
<1>4. \A w : Told(w)' = Told(w)
  BY <1>2 DEF Told
<1>5. Control' /\ Drained' /\ Worked'
  BY <1>1, <1>2, <1>3 DEF Control, Drained, Worked
<1>6. Clients' /\ Counters' /\ Origin'
  BY <1>1, <1>2, <1>3, <1>4 DEF Clients, Counters, Origin
<1>7. Alone'
  <2>1. phase = "free" /\ ~ leftover => InEngine = {}
    BY <1>1, Known, ServerAssumption DEF Control, Alone
  <2>2. phase = "free" /\ ~ leftover => EngineGauges = [batch |-> 0, queue |-> 0, used |-> 0]
    BY <1>1, <2>1, EmptyGauges
  <2> QED
    BY <1>1, <1>2, <1>3, <1>4, <2>2 DEF Alone
<1> QED
  BY <1>3, <1>5, <1>6, <1>7 DEF HInv

\* Every step of the server keeps the invariant.
LEMMA ServerStepInv == SInv /\ [ServerNext]_allVars => SInv'
PROOF
<1> SUFFICES ASSUME SInv, [ServerNext]_allVars PROVE SInv'
  OBVIOUS
<1>1. IInv' /\ CP!IInv'
  BY EngineStep, StepInv, PoolStep DEF SInv, HInv
<1>2. ASSUME NEW r \in Requests, GenerateStream(r) \/ GenerateNaive(r) \/ Arrive(r)
      PROVE  HInv'
  BY <1>2, ElsewhereInv, ArriveInv
<1>3. ASSUME Handler PROVE HInv'
  BY <1>3, SubmitServerInv, RunInv, RaiseInv, RespondInv DEF Handler
<1>4. ASSUME Scrape \/ (\E r \in Requests : Clock(r)) \/ UNCHANGED allVars PROVE HInv'
  BY <1>4, IdleInv
<1>5. HInv'
  BY <1>2, <1>3, <1>4 DEF ServerNext
<1> QED
  BY <1>1, <1>5 DEF SInv

-----------------------------------------------------------------------------
(* Theorems                                                                *)

\* The invariant holds in every reachable state of every server.
THEOREM ServerInvariance == ServerSpec => []SInv
PROOF
<1>1. ServerInit => SInv
  BY ServerInitInv
<1>2. SInv /\ [ServerNext]_allVars => SInv'
  BY ServerStepInv
<1> QED
  BY <1>1, <1>2, PTL DEF ServerSpec

\* The handlers use the engine only as BatchingEngine allows.
THEOREM UsesEngine == ServerSpec => EngineContract
PROOF
<1>1. ServerInit => Init
  BY DEF ServerInit
<1>2. SInv /\ [ServerNext]_allVars => [Next]_engineVars
  BY EngineStep DEF SInv, HInv
<1> QED
  BY <1>1, <1>2, ServerInvariance, PTL DEF ServerSpec, EngineContract, Spec

\* Clients are told the truth: an "ok" is the client's own completed request with the
\* tokens it generated, a 429 was never started, and what was not found stays so
\* unless run_until_empty gave up on it.
THEOREM AnswersAreHonest == ServerSpec => []AnswersHonest
PROOF
<1>1. SInv => AnswersHonest
  <2> SUFFICES ASSUME SInv PROVE AnswersHonest
    OBVIOUS
  <2>1. IInv /\ Control /\ Origin /\ Lived /\ Clients
    BY DEF SInv, HInv
  <2>2. ASSUME mode = "batching", NEW r \in Told("ok")
        PROVE  /\ r \in Range(returned) /\ status[r] = "completed"
               /\ usage[r] = generated[r] /\ usage[r] > 0
    <3>1. r \in Range(returned) /\ usage[r] = generated[r]
      BY <2>1, <2>2 DEF Told, Clients
    <3>2. status[r] \in {"completed", "cancelled"} /\ r \in started
      BY <2>1, <3>1, Known DEF IInv, Costs
    <3> QED
      BY <2>1, <3>1, <3>2 DEF Lived
  <2>3. Told("rejected") \cap started = {}
    BY <2>1 DEF Told, Clients
  <2>4. \A r \in Told("notFound") \ gaveUp : status[r] \in {"failed", "cancelled"}
    BY <2>1 DEF Told, Clients
  <2>5. ASSUME phase = "free"
        PROVE  Range(returned) \subseteq Told("ok") \cup Told("error") \cup gaveUp
    <3>1. caller \notin Requests /\ Range(returned) \subseteq Requests
      BY <2>1, <2>5, Known, ServerAssumption DEF Control
    <3> QED
      BY <2>1, <3>1 DEF Origin
  <2> QED
    BY <2>2, <2>3, <2>4, <2>5 DEF AnswersHonest
<1> QED
  BY <1>1, ServerInvariance, PTL

\* /metrics counts every answer of the engine once, with the tokens of the answer.
THEOREM LedgerBalances == ServerSpec => []MetricsLedger
PROOF
<1>1. SInv => MetricsLedger
  <2>1. MapThenSumSet(LAMBDA r : usage[r], Told("ok")) = SumOver(usage, Told("ok"))
    BY SumDefinition
  <2> QED
    BY <2>1 DEF SInv, HInv, Counters, MetricsLedger
<1> QED
  BY <1>1, ServerInvariance, PTL

\* As long as no run left requests behind, which takes an exception, the engine never
\* holds two requests and run_until_empty stays below its limit.
THEOREM EngineNeverBatches == ServerSpec => []NeverBatched
PROOF
<1>1. SInv => NeverBatched
  <2> SUFFICES ASSUME SInv PROVE NeverBatched
    OBVIOUS
  <2>1. IInv /\ CP!IInv /\ Control /\ Worked /\ Alone
    BY DEF SInv, HInv
  <2>2. ASSUME ~ leftover
        PROVE  /\ Len(active) + Len(pending) + Len(toAdmit) <= 1
               /\ SeqSet \subseteq {caller}
    <3>1. SeqSet \subseteq {caller} /\ Range(pending) \subseteq {caller}
          /\ Range(toAdmit) \subseteq {caller}
      BY <2>1, <2>2 DEF Alone, InEngine
    <3>2. /\ active \in Seq(Requests) /\ pending \in Seq(Requests) /\ toAdmit \in Seq(Requests)
          /\ IsInjective(active) /\ IsInjective(pending) /\ IsInjective(toAdmit)
          /\ SeqSet = Range(active)
      BY <2>1, QueueFacts DEF IInv, TypeOK, Held, SeqSet
    <3>3. ASSUME NEW q \in Seq(Requests), IsInjective(q), Range(q) \subseteq {caller}
          PROVE  Len(q) \in {0, 1} /\ (caller \notin Range(q) => Len(q) = 0)
      <4>1. Cardinality(Range(q)) = Len(q)
        BY <3>3, InjectiveLength
      <4>2. CASE Range(q) = {}
        BY <4>1, <4>2, FS_EmptySet
      <4>3. CASE Range(q) = {caller}
        BY <4>1, <4>3, FS_Singleton
      <4> QED
        BY <3>3, <4>2, <4>3
    <3>4. /\ SeqSet \cap Range(toAdmit) = {}
          /\ Range(pending) \cap (SeqSet \cup Range(toAdmit)) = {}
      <4>1. SeqSet \cup Range(toAdmit) \subseteq started /\ SeqSet \cap Range(toAdmit) = {}
        BY <2>1 DEF IInv, Held
      <4>2. /\ started \subseteq Requests
            /\ \A r \in Requests : r \in Range(pending) => r \notin started
        BY <2>1, QueueFacts DEF IInv
      <4> QED
        BY <4>1, <4>2
    <3>5. /\ Len(active) \in {0, 1} /\ (caller \notin Range(active) => Len(active) = 0)
          /\ Len(pending) \in {0, 1} /\ (caller \notin Range(pending) => Len(pending) = 0)
          /\ Len(toAdmit) \in {0, 1} /\ (caller \notin Range(toAdmit) => Len(toAdmit) = 0)
      BY <3>1, <3>2, <3>3
    <3>6. \/ caller \notin Range(active) /\ caller \notin Range(pending)
          \/ caller \notin Range(active) /\ caller \notin Range(toAdmit)
          \/ caller \notin Range(pending) /\ caller \notin Range(toAdmit)
      BY <3>2, <3>4
    <3> QED
      BY <3>1, <3>5, <3>6
  <2>3. ~ leftover /\ phase = "run" => iterations < MaxTokens[caller]
    BY <2>1 DEF Worked
  <2>4. ASSUME ~ leftover, phase = "free"
        PROVE  EngineGauges = [batch |-> 0, queue |-> 0, used |-> 0]
    <3>1. InEngine = {}
      BY <2>1, <2>4, Known, ServerAssumption DEF Control, Alone
    <3> QED
      BY <2>1, <3>1, EmptyGauges
  <2> QED
    BY <2>1, <2>2, <2>3, <2>4 DEF Alone, NeverBatched
<1> QED
  BY <1>1, ServerInvariance, PTL

=============================================================================
