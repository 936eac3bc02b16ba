# TLA+ models of the model-serving infrastructure

This directory holds TLA+ specifications of the inference server under `src/`
(the Python package itself is `src/src/`): its KV-cache block pool, request queue,
continuous-batching engine, HTTP handlers, streams, metrics and sampling. TLC checks
them on small instances, and TLAPS proves their safety for every value of the constants.

Run the tools in this directory: `tlc -config MC_CacheManager.cfg MC_CacheManager`
(likewise for the other `.cfg` files), `tlapm CacheManager_proofs.tla` (likewise for the
other modules with theorems).

## 1. The system

A FastAPI server loads one language model and generates text. Three engines share
the model: a naive one (a request at a time), a streaming one (server-sent events),
and the continuous-batching engine, which is the core.

| Component | Source | State | Operations | Status |
|---|---|---|---|---|
| KV-cache block pool | `cache/manager.py`, `cache/block.py` | blocks (reference count, filled slots), LIFO free list, block table per sequence, LRU order, two counters | `allocate_sequence`, `extend_sequence`, `free_sequence`, `evict_lru`, `get_block_table` | modelled |
| Request queue | `engine/scheduler.py` | `_pending`, `_running`, `_completed`, four counters; status and times of each request | `submit`, `get_next_batch` (timeouts, sort, pick), `complete_request`, `cancel_request`; `fail` on the request | modelled |
| Continuous-batching engine | `engine/batching.py` | the active sequences, tokens of each, three counters | `submit_request`, `step`, `run_until_empty`; sampling | modelled |
| API server | `api/server.py`, `api/schemas.py` | the engines, `ENGINE_MODE`, metrics | `/generate`, `/metrics`; `/engine/stats`, `/health`, `/model/info` only read | modelled |
| Streaming | `api/streaming.py` | per stream: position, input, KV cache, count | `generate_stream` | modelled |
| Metrics | `api/metrics.py` | sliding window, counters, gauges, a lock | `record_request`, `record_error`, `update_gauges`, `get_metrics` | modelled |
| Naive engine | `engine/naive.py` | one counter | `generate`, a single library call | modelled, in `Server` |
| Quantization | `engine/quantization.py` | none | numeric conversion of weights | not modelled: no state machine |
| Config, loader | `models/`, `configs/` | the loaded model | read once at start-up | not modelled: I/O |
| Benchmarks | `benchmarks/` | none | clients that measure | not modelled |

**Interaction.** A handler of the server constructs a `ScheduledRequest`, submits it
to the queue and calls `run_until_empty`, which calls `step()` again and again. A
step asks the queue for a batch as large as its free slots, allocates blocks for each
prompt (evicting the least recently used sequence once if there are none), runs one
forward pass over all active sequences, and gives finished ones back to the queue
(`complete_request`) and to the pool (`free_sequence`). Everything runs in one thread
of an event loop, so `step()` is atomic for callers; only the wall clock moves during
a step. A handler keeps the event loop from its submit to its response. Streams run
between handlers, share no state with each other or the engine, and record no metrics.

**What is hard, and what makes each part correct.**

- *Pool*: a block must have one owner through any mixture of calls, among them calls
  that raise half way; reference counts, free list, tables and LRU order are four
  records that must agree.
- *Queue*: a request moves between three containers while it may time out, be
  cancelled, fail or finish; it must be in one of them and counted once, it must not
  overtake, and it must not start when its time is over.
- *Engine*: evictions and refusals in the middle of an admission loop, exceptions in
  the forward pass, cancellations between steps. Batch, pool and queue must agree
  between steps, no request may be lost, and each must end.
- *Server*: the engine returns whatever finished, of any caller, and an exception leaves
  requests behind; what each client is told, and what the metrics count, must agree with
  what the engine did, and each call must be answered.
- *Streams*: suspended at each event, where the client may leave; input, KV cache and
  count must stay in step, and one finish event and one summary must end the stream.
- *Metrics*: timestamps and reads outside the lock; no update may be lost, and what a
  snapshot mixes must be bounded.
- *Sampling*: ties, and parameters at the ends of their ranges.

The hazards are listed line by line in `PROJECT.json`.

## 2. Modules

| Module | What it is |
|---|---|
| `CacheManager` | the block pool: state, one action per method, invariants |
| `RequestScheduler` | the queue and the life cycle of a request |
| `BatchingEngine` | the engine, with `Sched == INSTANCE RequestScheduler` and `Cache == INSTANCE CacheManager` over shared variables |
| `Server` | extends `BatchingEngine` with the handlers of `/generate` and `/metrics` |
| `Streaming` | `generate_stream` for several clients |
| `Metrics` | the collector, called by several threads |
| `Sampling` | top-k, top-p and the draw |
| `BlockPool` | abstract: blocks are free, held by one sequence, or lost; implemented by `CacheManager` |
| `StreamProtocol` | abstract: the events a client may count on; implemented by `Streaming` |
| `MC_*` | values of the constants for TLC; `MC_CacheManager` also bounds the pool's two statistics, which only grow |
| `X_proofs` | theorems about `X`, proved by TLAPS: one for each of the seven components |
| `CollectionFacts` | lemmas about sequences without repetition, sums over finite sets and sorting, used by all of them |

Definitions called `Bug_X_...` are wrong variants of `X` that no action uses. Each
stands for a plausible slip in that code, and with `X` replaced by it one of the
properties fails; they document what each property guards against.

### CacheManager

One action is one call of a method. `refCount` and `filled` are the two counters of
`PhysicalBlock` (its `status` is `FREE` exactly when the count is 0, because `allocate`
and `release` set both). `freeIds` is the free list with its end at the right, so that
`Popped(n)` are the blocks `n` calls of `pop()` return. `tables` maps a sequence to its
physical block ids. `access` keeps the keys of the ordered dictionary, without their
times, which are never read.

A method that can raise has a second action: `ExtendRaises` (a `MemoryError` after the
last block was topped up) and `EvictRaises` (a `KeyError` when the oldest key has no
table). `allocate_sequence` raises before it changes anything, so its failure is a
stuttering step, and so are a `free_sequence` or `extend_sequence` of an unknown id.

`leaked` is a history variable: blocks of tables that were overwritten by allocating a
live id again. The code does not prevent it; with the variable, `BlocksAccounted` can say
that there is no other way to lose a block. `CalledFor(s)` says that a step is a call made
for the sequence `s`; `Isolation` says that every sequence a step is not made for keeps its
table, its blocks and its place in the LRU order, so that an allocation over blocks of a live
sequence violates it.

### RequestScheduler

`created` is the order of `created_at` (set when the object is constructed, before it is
submitted: the two orders can differ). `Expire` is the passing of `timeout_seconds`; only
requests that wait are ever asked. `GetNextBatch(n, q)` is the whole method: timed-out
requests are cancelled, the rest is sorted into `q` (`Orderings` has exactly one member),
and the first `n` start. `Fail` is `ScheduledRequest.fail`: the engine calls it on the
object, the scheduler is not told, and the request stays in `_running`. Each request
object is submitted at most once, which is what the server does (a fresh id per call).

### BatchingEngine

One call of `step()` is a run of actions between two states with `pc = "idle"`:

    BeginStep -> (Admit [-> Retry])* -> Admitted -> Forward | ForwardRaises -> Finish*

Callers create, submit and cancel only while `pc = "idle"`; `TimePasses` may happen at any
moment. `Join`, `Refuse` and `Evict` are the three ways an admission goes on. `active` is
the insertion order of `_active_sequences`. The sampled token is abstracted to whether it
is EOS, chosen freely. `ForwardRaises` may happen at any forward pass: an exception can have
a cause that goes away again, such as device memory that a stream holds. `PassRaises` are the
causes that stay with the batch, where no pass succeeds: a sequence has outgrown the
position embeddings or has a distribution with no mass (`top_p = 0.0`); both come from
outside the code, from the model and from `torch.multinomial`. The tokenizer is assumed not to
raise. `refused` holds the requests whose error is "Insufficient KV-cache memory", so that
`EvictionsCost` can tell them from the victims of evictions and count the latter exactly.

The engine's use of its parts is checked as refinement: `CacheContract == Cache!Spec` and
`SchedContract == Sched!Spec` say that every step of the engine is, for each part, one
of its own actions or a stuttering step. So what is proved of `CacheManager` holds in
the engine.

### Server

`caller` is the request whose handler has the event loop and `phase` how far
`_generate_batching` is:

    Arrive -> Submit (429 | run) -> RunStep* -> Respond, or RunRaises on an exception

`RunStep` is a step of the engine; when it returns, the loop of `run_until_empty` goes on
unless the engine is `Idle` or the loop is at its limit. `Respond` looks for the caller's request among those returned.
`GenerateStream` and `GenerateNaive` are whole handlers; `mode` is `ENGINE_MODE`, fixed at
start-up. `answer` records what a client was told: `ok`, `rejected` (429), `notFound` (500
"Request not found"), `failed` (500 of the naive engine), `error` (the 500 of an exception
nobody caught) or `stream`; `usage` is the number of tokens reported with an `ok`. `leftover`
and `gaveUp` are history variables: whether the last `run_until_empty` left requests in the
engine, and the callers whose `run_until_empty` met its limit. The naive engine's
generation is one call of the transformers library: some tokens, or an exception.

`EngineContract == Spec` says that the server uses the engine only as `BatchingEngine`
allows, so what is checked of the engine holds under the server.

### Streaming and StreamProtocol

An action of `Streaming` runs from one suspension point of the generator to the next: an
event is sent (`PassToken`, `PassEos`, `Summary`) or the loop sleeps (`AppendToken`).
`inputLen` and `cacheLen` are the lengths of `input_ids` and `past_key_values`; `Fed` is
what the next pass gets. `Disconnect` closes the generator where it is suspended, `Raise`
is an exception of the model or the sampler. `StreamProtocol` knows only the events each client got
and which streams are over; `Protocol` maps `log` to `events` and `over` to the streams
closed or broken.

### Metrics

Each thread has a `pc`. `record_request` is `Stamp` (the timestamp, before the lock),
`Enter`, then a `Load` and a `Store` for each counter, then `Release`, which prunes;
`record_error` is `EnterError` and the same increments. `get_metrics` is `Copy`, under the
lock, and four `Read`s without it. The server calls the collector from one event loop; that
threads may call it is what its class documentation promises. `entered` and `failures` are
history variables.

### Sampling

Weights stand for probabilities at the request's temperature, and arithmetic is exact.
`Sorted` leaves the order of equal logits open, as `torch.sort` does. The engine and the
streams hold two copies of this code that differ in tensor shapes only; `PROJECT.json`
maps the definitions to both.

## 3. What the runs check

| Run | Configuration | Question | Distinct states |
|---|---|---|---|
| `cache_pool` | 4 blocks of 2 slots, 3 sequences, requests of 0, 1 and 3 tokens, at most 6 allocations and 2 evictions | does any order of calls share, lose or miscount a block? | 203,946 |
| `cache_phantom` | 3 blocks | does eviction always have a victim? **No** | – |
| `request_queue` | 3 requests, one of high priority, a queue of 2, batches of 1 or 2, both policies | is every request in one place, counted once, in order, in time? | 70,406 |
| `engine_safety` | 3 blocks, prompts of 1, 2 and 3 blocks, batches of at most 2 or 3, a queue of 2, at most 5 positions | do batch, pool and queue agree through evictions, refusals, failing passes, cancellations? | 577,034 |
| `engine_progress` | 2 blocks, batches of at most 2 or 3, passes raise but none for good, fair | is every waiting request eventually done? | 293,338 |
| `engine_stuck` | 3 blocks, batch of 2, one request cannot be sampled, fair | the same. **No** | – |
| `engine_cancel` | 2 blocks, batch of 2 | does a cancelled sequence stop? **No** | – |
| `sampling` | 4 tokens of weight 1 to 3, `top_k` 0 to 5, `top_p` in quarters, greedy or not | do the filters keep what they should? | 26,966 |
| `streams` | 3 streams: one within the model's positions, one that outgrows them, one that cannot be sampled; fair | does each client see the protocol, and does each stream end? | 1,275 |
| `metrics` | 3 threads, 4 calls, a window of 1 in a clock of 2 | are counters exact, snapshots one-sided, the window right? | 809,285 |
| `server` | 5 requests: two of two tokens, one that fits no cache, one that raises, one stream; a queue of 2, batches of 1 or 3, 3 blocks, both modes, fair | do answers and metrics agree with the engine, is everybody answered? | 217,808 |
| `server_errors` | the same | is every 500 counted? **No** | – |

**Why the bounds are enough.** Four blocks hold tables of two blocks beside others, so
that a table spans a full and a partial block, a table is split by another one's release,
and the pool runs empty with three, two or one sequences in it. Token counts 0, 1 and 3
with two slots per block give an empty table, a partial last block, a full one after an
extension, and an extension that spans blocks. Six allocations and two evictions let the
LIFO list be permuted and reused; the two counters are the only unbounded variables of
the pool, and the proofs need no such bound. In the engine the prompts need one, two and
three blocks: with three blocks there is an admission that evicts and succeeds, one that
evicts and is refused all the same (its victim was too small), and a victim admitted in
the same step. With two blocks the largest prompt fits no empty pool and is refused
without a victim. Five positions make one prompt plus its tokens outgrow the model.
Requests are submitted once, so the engine's counters are bounded; `MaxAllocated` and
`MaxEvicted` exist in `MC_CacheManager` only, and the pool inside the engine has no bound.

In the server a batch of one keeps the request that raises for ever, so that the queue of
two fills and a 429 follows; in a batch of three others join it and fail with it, until a
later prompt evicts it, and then requests that were answered with an error finish in the call of
another client. A pass that raises once does the same to requests that could be served.
`MaxIterations` is 3, which is more than the 2 tokens of a request, as 10000 is more than the
2048 that the schema allows, but less than batch and queue can hold together, as 10000 is less
than a queue of 100 requests with 2048 tokens each: the run reaches states in which the loop
gives up, its caller is told "Request not found", and the request is served later. In `metrics` two
threads that record and one that reads, or three that record, can interleave at every
step; the clock lets a record become old, and a thread wait for the lock while its stamp
does. Percentiles are checked for the samples of each snapshot, and for lists of
1, 2, 3, 19, 20, 21, 99, 100, 101 and 200 with equal values. In `sampling` four tokens of
three weights give ties at, before and after each threshold; weights are never zero, so
probabilities that underflow are left out. In `streams` there are tokens before, at and
after the position limit and the token limit.

**Fairness.** `FairSpec` assumes weak fairness of `Step`: `run_until_empty` calls `step()`
in a loop as long as something is pending or active, and after an exception the next caller
does. It also assumes strong fairness of `Forward`: an exception whose cause is not in the
batch does not come back for ever. Where the cause is in the batch, `Forward` is disabled and
nothing is assumed (`engine_stuck`). `EveryRequestDone` is about an engine that somebody goes
on stepping; in the server that is the next caller whom the queue accepts. `ServerSpec`
assumes weak fairness of `Handler`: a handler awaits nothing, so nothing else can take the
event loop. `Streaming` assumes weak fairness of each generator, which the event loop resumes
in its turn as long as its client goes on reading (one that stops without closing is left
out). No fairness is assumed of callers, `Open`, `Disconnect` or time, and none of `Metrics`.

**Deadlock** is checked in the runs of the pool, the queue and the engine, which cannot
stop. The others do stop: a token is drawn once, streams end, calls and requests are
finitely many.

### Disagreements between code and text

1. `evict_lru` returns "the sequence_id that was evicted, or None if no sequences"
   (`manager.py:209`). `get_block_table` touches an id it does not know, and the eviction
   that meets it raises `KeyError` and evicts nothing (`cache_phantom`).
2. `run_until_empty` keeps "stepping until all pending and active requests are done"
   (`batching.py:173`). An exception in the forward pass leaves the batch as it was, so
   each later step raises again if the cause is in it, and unless an eviction happens to remove the
   culprit its batch and everybody behind it wait for ever (`engine_stuck`). The request
   schema admits `top_p = 0.0`, and 2048 tokens for a model of 1024 positions.
3. `cancel_request` cancels "a pending or running request" (`scheduler.py:218`). A running
   one stays in the batch, keeps its blocks, generates to its end and is returned by
   `step()`; the finish reason "cancelled" (`batching.py:43`) is never set
   (`engine_cancel`).
4. `inference_errors_total` is the "Total number of failed requests" (`metrics.py:160`).
   An exception out of `run_until_empty` is answered with a 500 that no handler counts,
   unlike one of the naive engine (`server_errors`).

Smaller ones, which no run is spent on: the stream's documentation ends it with an empty
token with the reason "length" (`streaming.py:11`), where the code puts the reason on the
last real token (`Protocol` states what the code does), and it mentions no stream that
breaks off without `[DONE]`, as one does when the model or the sampler raises; the schema
says of `top_p` "cumulative prob <= top_p" (`schemas.py:31`) and of `top_k` "only sample from top k tokens"
(`schemas.py:26`), where the code keeps the token that crosses the limit and all ties with
the k-th (`Nucleus`, `TopKExact`); "percentiles computed over the sliding window"
(`metrics.py:100`) may include older records, of threads that were overtaken on their way to the
lock (`StaleOnlyOvertaken` says no others); `repetition_penalty` has an effect in the naive engine only; the schema says of the temperature
"0 = greedy" (`schemas.py:20`), but with `top_p = 0.0` every token is masked, the softmax of the
masked logits has no number in it, and greedy decoding returns token 0 whatever the logits
(`Drawn` says both); "as the sequence generates more tokens, new physical blocks are appended"
(`block.py:79-80`) and "when a sequence generates more tokens and fills its last block, we need
to allocate new blocks" (`manager.py:132`), but the engine never extends a sequence, so the pool
counts prompts only.

What the server makes of "continuous batching": since each handler drains the engine before
the next one starts, a batch never holds two requests, and the gauges of `/metrics` always
read zero, until an exception has left requests behind (`NeverBatched`). Only then do
requests share a batch: whoever was answered with an error may finish all the same in the
call of another client, and its result is dropped. Once many have been left behind, by a cause
that lasted a while, a single call has to serve them all and can meet the limit of
`run_until_empty`; its caller reads "Request not found" although the request still waits and
is served later (`gaveUp` in `AnswersHonest`). And once the queue is full of such requests every
call is answered with a 429 before it reaches `run_until_empty`, so that nothing is drained, and
nothing times out, any more.

Other facts of the code that the models show and that no text contradicts: a request that was evicted
or refused stays in `_running`, so `running_count` never drops again; it may then be
cancelled, which turns FAILED into CANCELLED; a cancelled sequence that is evicted turns
from CANCELLED into FAILED; a prompt that fits no pool evicts a victim before it is
refused; and the LRU order is the order of admission (`CacheFollowsBatch`).

## 4. What is proved

Every invariant that a run checks, and every action property and refinement, is also a
theorem: it holds for all values of the constants, and not only in the instance of the
run. The three liveness properties are the exception.

### Assumptions

A theorem holds under the `ASSUME`s of its module, which TLC evaluates in the runs.
They say that numbers are natural, that a block, a prompt and `max_tokens` are not empty
(the schema asks for `max_tokens >= 1`, a tokenizer returns at least one token for the
prompts it admits), that there are finitely many requests, and that `MaxIterations` is
larger than every `max_tokens`. Nothing relates it to what batch and queue hold together: the
loop may meet it, and no theorem says that it does not once an exception has left requests
behind. No size is bounded: `MaxTime`
and `MaxCalls` of `Metrics` and `MaxWeight` of `Sampling` appear in the theorems as
arbitrary natural numbers, and the pool has no bound at all.

### The inductive invariants

Each theorem rests on one inductive invariant, `IInv`, of which the checked properties
are parts or consequences. In each module there is one lemma per action.

- **Pool** (`CacheManager_proofs`). The conjunction of its six properties: none of them is
  inductive alone. Releasing a table returns exactly its blocks to the free list only if
  each has count 1 (`RefCountsExact`) and is in no other table (`BlocksExclusive`); a
  topped-up block stays within its slots only if the type invariant bounds its fill; an
  extension leaves a dense table only if the old one was dense up to its last block.
  `Isolated` (an action property: each call with the sequence it was made for) and `ImplementsPool` (each call is a step of the
  abstract pool `BlockPool`, or stutters) follow from it.
- **Queue** (`RequestScheduler_proofs`). `OnePlace` and `Ledger` need `Lives`: a request is
  constructed once and submitted once, and one never accepted was never touched.
  `NobodyOvertaken` needs `ArrivalOrder`: under `fcfs` the queue waits in the order of
  arrival although no line of the code sorts it, because requests are appended, cut off
  at the front and filtered. `NothingStaleStarts` and `NobodyForgotten` are action
  properties.
- **Engine** (`BatchingEngine_proofs`). Its steps are steps of the queue (`UsesQueue`) and of
  the pool (`UsesCache`), so the invariants of both are not proved again: they come from
  their modules by `SP == INSTANCE RequestScheduler_proofs` and `CP == INSTANCE
  CacheManager_proofs`. What is added: `Held`, that a started request is in one of batch,
  `toAdmit` and `returned` at most; `Stages`, what is left of each loop of `step()` at each
  `pc`; `Untouched`, that nothing is generated before a request joins, so that the books
  start at 0; `Counted` and `Costs`, the books themselves, with sums and cardinalities.
  `NoBlockLost` says what neither part can say alone: in the engine each block is free or
  held by exactly one sequence. The pool alone can lose blocks, when a live id is
  allocated again, and `CacheFollowsBatch` with `Held` shows that the engine never does
  that.
- **Server** (`Server_proofs`). `UsesEngine` carries the engine's invariant over. What is added
  depends on `leftover`. If the last run left the engine empty, `Alone` says that it works for
  nobody but the caller, `Drained` that its first batch takes the caller's request, and `Worked`
  that each iteration gives it a token, so that the loop ends below its `max_tokens` and leaves the
  engine empty again (`LoopFacts`). If not, nothing bounds what is in the engine, and `Origin`
  says whose it is: of clients told of an exception, or given up by the loop. `Clients` and
  `Counters` say that what was said and counted stays true. `AnswersAreHonest`,
  `LedgerBalances` and `EngineNeverBatches` follow. Nothing is assumed about how long an
  exception lasts.
- **Streams** (`Streaming_proofs`). `Suspended` says where position, input and cache stand at
  each suspension point; `Sent` that the events of a stream are a function of how many
  tokens it has generated, from which each step refines `StreamProtocol`.
- **Metrics** (`Metrics_proofs`). `CountersExact` says nothing while the lock is held; inductive
  is `Counted`: a counter and what the owner of the lock has still to add to it (`Due`)
  are together what was recorded. `Behind` says that no counter falls below what a
  thread has read, which gives `SnapshotOrdered`; `Suffix` that the window is the end of the
  list of all records. `PercentilesFit` is about the index alone: `RankOfPosition` counts
  the samples on either side of a position of a sorted list.
- **Sampling** (`Sampling_proofs`). The filters work on positions of a sorted list, the
  properties on sets, ranks and masses. `ThresholdIsRank` and `NucleusIsPrefix` relate
  them: tokens at or above the k-th value are those that fewer than k others outweigh,
  and the masses of the beginnings of the list grow, so what the mask keeps is a beginning.
  That a sorted list exists at all is a lemma (`SortingExists`).

### How, where the provers need help

Sums over sets (`MapThenSumSet`) unfold to `SumOver`, a `CHOOSE` of the recursive function,
about which `CollectionFacts` proves that it exists, adds each member once in any order,
and grows by 1 for each member whose summand does. The library's induction theorems take
the property as an operator, which the provers cannot instantiate; here the property is a
set (`SetInduction`, `SubsetInduction`), and an induction is the choice of a least element
outside of it.

Proofs led to two changes of the models. `PoolContract` and `CacheContract` could not
be theorems while the pool's `Next` carried the bounds of its statistics, so these moved
to `MC_CacheManager`; and `EngineAssumption` states what the engine needs of its constants, as
its parts do.

### What stays with TLC

- Liveness: `EveryRequestDone`, `EveryStreamEnds`, `EveryCallAnswered`. Their fairness is
  beyond the prover; `Protocol` and `EngineContract` are proved as the safety formulas they are.
- The four runs that expect a violation, by their nature.


## 5. What is left out

- *Quantization*: it converts weights by one library call and measures; no state machine.
- *Configuration and model loading*: read once at start-up, I/O only. The models take the
  values it sets (queue, batch and pool size, policy) as constants.
- *Benchmarks*: clients that measure.
- Text, tokenization, padding and the formatting of events and metrics. In the engine and
  the streams a token is EOS or not; which token it is, is the subject of `Sampling`.
- `_total_iterations` (a statistic nothing else reads), log lines, `get_stats`, and the
  endpoints that only read. A body the schema rejects reaches no handler.
- Two requests with one id in the engine (ids are eight hex digits of a UUID). The pool
  alone is checked with them.
- `extend_sequence` and `get_block_table` are modelled in the pool; the engine does not
  call them. `cancel_request` is modelled in the engine; no handler calls it.
- `default_timeout` of the scheduler: it only replaces a timeout of zero, and a request
  has its own from its construction.
- The memory the model and the KV tensors of `transformers` really use.

## 6. Plan

Every component with a state machine is modelled, and the safety of each is proved. What
could still be added is the safety core of the liveness properties as theorems: measures
that every step of a handler lowers (`Worked` is one: iterations below `max_tokens`), the
number of events a stream has still to send, and for the engine that an iteration with a
batch that does not raise always finishes or advances each of its sequences.
