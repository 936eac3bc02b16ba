--------------------------- MODULE BatchingEngine ---------------------------
(***************************************************************************)
(* Continuous batching: class ContinuousBatchingEngine of                  *)
(* src/src/engine/batching.py, composed with the request queue             *)
(* (RequestScheduler) and the KV-cache block pool (CacheManager) it drives.*)
(*                                                                         *)
(* One call of step() is a run of actions from pc = "idle" back to "idle": *)
(* the queue is asked for a batch, its requests are admitted one by one    *)
(* (evicting when blocks run out), one forward pass gives every active     *)
(* sequence a token, and finished sequences are removed one by one.  step  *)
(* is synchronous, so callers submit and cancel only between two steps.    *)
(*                                                                         *)
(* A definition named Bug_X_... is a deliberately wrong variant of X.  No  *)
(* action uses it: each one shows that some property below can fail.       *)
(***************************************************************************)
EXTENDS Integers, Sequences, FiniteSets, SequencesExt

CONSTANTS
  Requests, Priority, Policies, MaxQueueSize,   \* of the scheduler
  NumBlocks, BlockSize,                         \* of the cache
  BatchLimits,      \* values of max_batch_size a deployment may configure
  PromptTokens,     \* tokens of each prompt, after truncation
  MaxTokens,        \* max_tokens of each request
  MaxPositions,     \* positions the model has embeddings for
  Unsampleable      \* requests whose top_p leaves no token to sample

ASSUME EngineAssumption ==
  /\ IsFiniteSet(Requests)
  /\ Priority \in [Requests -> 0 .. 2]
  /\ Policies \subseteq {"fcfs", "priority"}
  /\ MaxQueueSize \in Nat
  /\ NumBlocks \in Nat
  /\ BlockSize \in Nat \ {0}
  /\ BatchLimits \subseteq Nat \ {0}
  /\ PromptTokens \in [Requests -> Nat \ {0}]
  /\ MaxTokens \in [Requests -> Nat \ {0}]
  /\ MaxPositions \in Nat
  /\ Unsampleable \subseteq Requests

VARIABLES
  maxBatchSize,     \* max_batch_size, fixed at construction
  policy, created, expired, status, started, pending, running, completed,
  totalSubmitted, totalCompleted, totalCancelled, totalTimedOut, arrivals,
  refCount, filled, freeIds, tables, access, totalAllocated, totalEvicted, leaked,
  active,           \* keys of _active_sequences, in insertion order
  refused,          \* requests whose error is "Insufficient KV-cache memory"
  generated,        \* len(generated_ids) of each request
  totalRequests,    \* _total_requests
  totalTokens,      \* _total_tokens_generated
  pc,               \* where step() is
  toAdmit,          \* what is left of the batch in _admit_new_sequences
  finishing,        \* what is left of finished_ids in step
  returned          \* history: requests that step() has returned

Sched == INSTANCE RequestScheduler WITH
           BatchSizes <- UNION {1 .. n : n \in BatchLimits}
Cache == INSTANCE CacheManager WITH
           SeqIds <- Requests, TokenCounts <- Range(PromptTokens)

schedVars  == <<policy, created, expired, status, started, pending, running,
                completed, totalSubmitted, totalCompleted, totalCancelled,
                totalTimedOut, arrivals>>
cacheVars  == <<refCount, filled, freeIds, tables, access, totalAllocated,
                totalEvicted, leaked>>
bookVars   == <<maxBatchSize, generated, totalRequests, totalTokens, returned>>
batchVars  == <<active, refused, bookVars>>
stepVars   == <<pc, toAdmit, finishing>>
engineVars == <<schedVars, cacheVars, batchVars, stepVars>>

SeqSet == Range(active)

Bug_Free_IgnoresBatch == maxBatchSize

\* Slots of the batch that _admit_new_sequences may fill.
Free == maxBatchSize - Len(active)

-----------------------------------------------------------------------------
(* Callers, between two calls of step()                                    *)

Init ==
  /\ maxBatchSize \in BatchLimits
  /\ Sched!Init /\ Cache!Init
  /\ active = <<>> /\ refused = {}
  /\ generated = [r \in Requests |-> 0]
  /\ totalRequests = 0 /\ totalTokens = 0
  /\ returned = <<>>
  /\ pc = "idle" /\ toAdmit = <<>> /\ finishing = <<>>

Calls(r) ==
  /\ pc = "idle"
  /\ Sched!Create(r) \/ Sched!Submit(r) \/ Sched!CancelRequest(r)
  /\ UNCHANGED <<cacheVars, batchVars, stepVars>>

\* Time goes on during a step as well.
TimePasses(r) ==
  /\ Sched!Expire(r)
  /\ UNCHANGED <<cacheVars, batchVars, stepVars>>

-----------------------------------------------------------------------------
(* step(): admission                                                       *)

\* _admit_new_sequences: the queue is asked only if the batch has a free slot.
BeginStep ==
  /\ pc = "idle"
  /\ \/ Free <= 0 /\ pc' = "forward" /\ UNCHANGED <<toAdmit, schedVars>>
     \/ /\ Free > 0
        /\ \E q \in Sched!Orderings(Range(pending) \ Sched!TimedOut) :
             /\ Sched!GetNextBatch(Free, q)
             /\ toAdmit' = Sched!Batch(Free, q)
        /\ pc' = "admit"
  /\ UNCHANGED <<cacheVars, batchVars, finishing>>

Prompt == PromptTokens[Head(toAdmit)]

\* The request at the head of the batch gets its blocks and joins.
Join ==
  /\ Cache!AllocateSequence(Head(toAdmit), Prompt)
  /\ active' = Append(active, Head(toAdmit))
  /\ pc' = "admit" /\ toAdmit' = Tail(toAdmit)
  /\ UNCHANGED <<schedVars, refused, bookVars, finishing>>

Bug_Refuse_Requeues ==
  /\ pending' = Append(pending, Head(toAdmit))
  /\ running' = running \ {Head(toAdmit)}
  /\ status' = [status EXCEPT ![Head(toAdmit)] = "pending"]
  /\ UNCHANGED <<policy, created, expired, started, completed, totalSubmitted,
                 totalCompleted, totalCancelled, totalTimedOut, arrivals>>
  /\ pc' = "admit" /\ toAdmit' = Tail(toAdmit)
  /\ UNCHANGED <<cacheVars, batchVars, finishing>>

\* Its blocks are not there: "Insufficient KV-cache memory".
Refuse ==
  /\ Sched!Fail(Head(toAdmit))
  /\ refused' = refused \cup {Head(toAdmit)}
  /\ pc' = "admit" /\ toAdmit' = Tail(toAdmit)
  /\ UNCHANGED <<cacheVars, active, bookVars, finishing>>

Bug_Evict_StillRunning ==
  /\ Cache!EvictLRU
  /\ active' = RemoveFirst(active, Head(access))
  /\ pc' = "retry"
  /\ UNCHANGED <<schedVars, refused, bookVars, toAdmit, finishing>>

Bug_Evict_StaysInBatch ==
  /\ Cache!EvictLRU
  /\ pc' = "retry"
  /\ UNCHANGED <<schedVars, batchVars, toAdmit, finishing>>

Bug_Evict_KeepsBlocks ==
  /\ access' = Tail(access)
  /\ active' = RemoveFirst(active, Head(access))
  /\ Sched!Fail(Head(access))
  /\ pc' = "retry"
  /\ UNCHANGED <<refCount, filled, freeIds, tables, totalAllocated, totalEvicted,
                 leaked, refused, bookVars, toAdmit, finishing>>

\* The first allocation raised MemoryError: the least recently used sequence
\* gives up its blocks and its place in the batch.
Evict ==
  /\ Cache!EvictLRU
  /\ active' = RemoveFirst(active, Head(access))
  /\ IF Head(access) \in SeqSet THEN Sched!Fail(Head(access))
                                ELSE UNCHANGED schedVars
  /\ pc' = "retry"
  /\ UNCHANGED <<refused, bookVars, toAdmit, finishing>>

Admit ==
  /\ pc = "admit" /\ toAdmit # <<>>
  /\ \/ Join
     \/ ~ Cache!CanAllocate(Prompt) /\ access # <<>> /\ Evict
     \/ ~ Cache!CanAllocate(Prompt) /\ access = <<>> /\ Refuse

\* The one retry after an eviction.
Retry ==
  /\ pc = "retry"
  /\ Join \/ (~ Cache!CanAllocate(Prompt) /\ Refuse)

Admitted ==
  /\ pc = "admit" /\ toAdmit = <<>>
  /\ pc' = IF active = <<>> THEN "idle" ELSE "forward"
  /\ UNCHANGED <<schedVars, cacheVars, batchVars, toAdmit, finishing>>

-----------------------------------------------------------------------------
(* step(): forward pass and completion                                     *)

\* The batch is one tensor: a sequence that has outgrown the position embeddings,
\* or whose distribution is empty, makes the pass raise at each attempt.
PassRaises == \E r \in SeqSet : \/ PromptTokens[r] + generated[r] > MaxPositions
                                \/ r \in Unsampleable

Bug_Finished_OneTooMany(eos) == {r \in SeqSet : r \in eos \/ generated[r] >= MaxTokens[r]}

\* Sequences that end with this token: those that sampled EOS and those at
\* their limit.
Finished(eos) == {r \in SeqSet : r \in eos \/ generated[r] + 1 >= MaxTokens[r]}

\* The sequences in S, in the order of the batch.
InBatchOrder(S) ==
  {q \in [1 .. Cardinality(S) -> S] :
     /\ IsInjective(q)
     /\ \A i, j \in DOMAIN q :
          i < j => Sched!Position(active, q[i]) < Sched!Position(active, q[j])}

\* Forward pass and sampling; eos are the sequences whose token is EOS.
Forward ==
  /\ pc = "forward" /\ ~ PassRaises
  /\ generated' = [r \in Requests |-> generated[r] + (IF r \in SeqSet THEN 1 ELSE 0)]
  /\ totalTokens' = totalTokens + Len(active)
  /\ \E eos \in SUBSET SeqSet :
       finishing' \in InBatchOrder(Finished(eos))
  /\ pc' = IF finishing' = <<>> THEN "idle" ELSE "finish"
  /\ UNCHANGED <<schedVars, cacheVars, maxBatchSize, active, refused,
                 totalRequests, returned, toAdmit>>

\* The exception leaves step() before any sequence was updated.  A pass may also
\* raise for reasons that are not in the batch and go away again, such as device
\* memory that a stream holds.
ForwardRaises ==
  /\ pc = "forward"
  /\ pc' = "idle"
  /\ UNCHANGED <<schedVars, cacheVars, batchVars, toAdmit, finishing>>

Bug_Finish_KeepsBlocks ==
  LET r == Head(finishing)
  IN  /\ pc = "finish"
      /\ active' = RemoveFirst(active, r)
      /\ \/ Sched!CompleteRequest(r)
         \/ r \notin running /\ UNCHANGED schedVars
      /\ returned' = Append(returned, r)
      /\ totalRequests' = totalRequests + 1
      /\ finishing' = Tail(finishing)
      /\ pc' = IF finishing' = <<>> THEN "idle" ELSE "finish"
      /\ UNCHANGED <<cacheVars, maxBatchSize, refused, generated, totalTokens,
                     toAdmit>>

\* A finished sequence leaves the batch; complete_request ignores it when it
\* was cancelled meanwhile, and it is returned all the same.
Finish ==
  LET r == Head(finishing)
  IN  /\ pc = "finish"
      /\ active' = RemoveFirst(active, r)
      /\ \/ Sched!CompleteRequest(r)
         \/ r \notin running /\ UNCHANGED schedVars
      /\ Cache!FreeSequence(r)
      /\ returned' = Append(returned, r)
      /\ totalRequests' = totalRequests + 1
      /\ finishing' = Tail(finishing)
      /\ pc' = IF finishing' = <<>> THEN "idle" ELSE "finish"
      /\ UNCHANGED <<maxBatchSize, refused, generated, totalTokens, toAdmit>>

-----------------------------------------------------------------------------
\* What step() does unless it raises.
Advance == BeginStep \/ Admit \/ Retry \/ Admitted \/ Forward \/ Finish

Step == Advance \/ ForwardRaises

Next == Step \/ \E r \in Requests : Calls(r) \/ TimePasses(r)

Spec == Init /\ [][Next]_engineVars

\* run_until_empty calls step() again and again, and after an exception the next
\* caller does.  An exception whose reason is not in the batch does not come back
\* for ever.
FairSpec == Spec /\ WF_engineVars(Step) /\ SF_engineVars(Forward)

-----------------------------------------------------------------------------
(* Properties                                                              *)

\* The engine's own variables have their types; no batch outgrows its limit,
\* evictions and admissions included.
TypeOK ==
  /\ active \in Seq(Requests) /\ refused \subseteq Requests
  /\ maxBatchSize \in BatchLimits
  /\ Len(active) + Len(toAdmit) <= maxBatchSize
  /\ generated \in [Requests -> Nat]
  /\ totalRequests \in Nat /\ totalTokens \in Nat
  /\ pc \in {"idle", "admit", "retry", "forward", "finish"}
  /\ toAdmit \in Seq(Requests) /\ finishing \in Seq(Requests)
  /\ returned \in Seq(Requests)

\* The engine leaks no KV blocks: the sequences of the cache are those of the
\* batch, through evictions, refusals, failed passes and cancellations; and
\* since a sequence is only touched when it joins, the LRU order is the order
\* of admission.
CacheFollowsBatch ==
  /\ DOMAIN tables = SeqSet
  /\ access = active
  /\ leaked = {}

\* No request is orphaned: what is RUNNING is in the batch or about to join it,
\* and what is FAILED or COMPLETED is neither.
RunningIsServed ==
  \A r \in Requests :
    /\ status[r] = "running" => r \in SeqSet \cup Range(toAdmit)
    /\ r \in SeqSet \cup Range(toAdmit) => status[r] \in {"running", "cancelled"}

\* The books of the engine: every completed request was returned, none twice;
\* tokens are counted once; no request passes its max_tokens, and one that has
\* reached it leaves the batch in the same step.
Books ==
  /\ IsInjective(returned) /\ totalRequests = Len(returned)
  /\ Range(returned) \cap SeqSet = {}
  /\ \A r \in Requests : status[r] = "completed" => r \in Range(returned)
  /\ totalTokens = MapThenSumSet(LAMBDA r : generated[r], Requests)
  /\ \A r \in Requests :
       /\ generated[r] <= MaxTokens[r]
       /\ r \in SeqSet /\ generated[r] = MaxTokens[r] => r \in Range(finishing)

\* A started request that the engine gave up: evicted or refused.
Dropped == started \ (SeqSet \cup Range(toAdmit) \cup Range(returned))

\* Each eviction costs exactly one request: a request is given up because it was
\* refused, or because it was the victim of one of the evictions counted.  It is
\* FAILED, unless cancel_request turned it into CANCELLED later, and however it is
\* cancelled and failed it never comes back as a result.
EvictionsCost ==
  /\ refused \subseteq Dropped /\ totalEvicted = Cardinality(Dropped \ refused)
  /\ \A r \in Dropped : status[r] \in {"failed", "cancelled"} /\ r \notin DOMAIN tables
  /\ \A r \in Range(returned) : status[r] \in {"completed", "cancelled"}

\* The engine uses the cache and the queue only as their modules allow.
CacheContract == Cache!Spec
SchedContract == Sched!Spec

\* run_until_empty steps "until all pending and active requests are done"
\* (src/src/engine/batching.py:173): a request that waits is eventually done.
\* It holds as long as no request in the batch makes each forward pass raise.
Done(r) == status[r] \in {"completed", "cancelled", "failed"}
EveryRequestDone == \A r \in Requests : (r \in Range(pending)) ~> Done(r)

\* Doc comment: cancel_request "cancel[s] a pending or running request"
\* (src/src/engine/scheduler.py:218), with a finish_reason "cancelled" for the
\* sequence (src/src/engine/batching.py:43).  A cancelled sequence would get no more
\* tokens.
CancelStops ==
  [][\A r \in Requests :
       status[r] = "cancelled" => generated'[r] = generated[r]]_engineVars

=============================================================================
