------------------------------- MODULE Server -------------------------------
(***************************************************************************)
(* The HTTP handlers of src/src/api/server.py on top of the batching       *)
(* engine: POST /generate in its three forms and GET /metrics.  The        *)
(* handlers are coroutines of one event loop that await nothing between    *)
(* submit_request and the response, so `caller` has the server to itself   *)
(* while run_until_empty goes through its steps.  The requests of earlier  *)
(* callers may still be in the engine.                                     *)
(***************************************************************************)
EXTENDS BatchingEngine

CONSTANTS
  StreamRequests,   \* requests with stream = true
  MaxIterations,    \* max_iterations of run_until_empty
  NoRequest

ASSUME ServerAssumption ==
  /\ StreamRequests \subseteq Requests
  /\ NoRequest \notin Requests
  /\ MaxIterations \in Nat /\ \A r \in Requests : MaxTokens[r] < MaxIterations

VARIABLES
  mode,          \* _engine_mode
  caller,        \* the request whose handler runs
  phase,         \* where _generate_batching is
  iterations,    \* steps of the current run_until_empty
  leftover,      \* history: the last run_until_empty left requests in the engine
  gaveUp,        \* history: callers whose run_until_empty met its limit
  answer,        \* what each client was told
  usage,         \* usage.generated_tokens of each answer "ok"
  served, servedTokens, errors,   \* counters of the MetricsCollector
  gauges,        \* its gauges
  naiveCount     \* _request_count of the naive engine

metricVars  == <<served, servedTokens, errors>>
handlerVars == <<caller, phase, iterations, leftover, gaveUp>>
clientVars  == <<answer, usage>>
serverVars  == <<mode, handlerVars, clientVars, metricVars, gauges, naiveCount>>
allVars     == <<engineVars, serverVars>>

\* batch_size, pending_count and the used blocks behind utilization.
EngineGauges == [batch |-> Len(active), queue |-> Len(pending),
                 used |-> NumBlocks - Len(freeIds)]

ServerInit ==
  /\ Init
  /\ mode \in {"naive", "batching"}
  /\ caller = NoRequest /\ phase = "free" /\ iterations = 0
  /\ leftover = FALSE /\ gaveUp = {}
  /\ answer = [r \in Requests |-> "none"] /\ usage = [r \in Requests |-> 0]
  /\ served = 0 /\ servedTokens = 0 /\ errors = 0
  /\ gauges = [batch |-> 0, queue |-> 0, used |-> 0]
  /\ naiveCount = 0

New(r) == phase = "free" /\ answer[r] = "none"

\* The response: a text of n tokens, or something else.
Deliver(r, n) == /\ answer' = [answer EXCEPT ![r] = "ok"]
                 /\ usage' = [usage EXCEPT ![r] = n]
Tell(r, what) == answer' = [answer EXCEPT ![r] = what] /\ UNCHANGED usage

\* update_gauges.
UpdateGauges(g) == gauges' = g

Hangup == caller' = NoRequest /\ phase' = "free" /\ iterations' = 0

\* record_request, and record_error.
RecordRequest(tokens) ==
  served' = served + 1 /\ servedTokens' = servedTokens + tokens /\ UNCHANGED errors
RecordError == errors' = errors + 1 /\ UNCHANGED <<served, servedTokens>>

-----------------------------------------------------------------------------
(* /generate: streaming and naive                                          *)

\* _generate_stream: the generator runs while the response is sent (module
\* Streaming), and no metric is recorded.
GenerateStream(r) ==
  /\ New(r) /\ r \in StreamRequests
  /\ Tell(r, "stream")
  /\ UNCHANGED <<engineVars, mode, handlerVars, metricVars, gauges, naiveCount>>

\* NaiveEngine.generate counts the request, then returns n tokens, or raises (n = 0).
NaiveGenerate(n) == n \in Nat /\ naiveCount' = naiveCount + 1

\* _generate_naive.
GenerateNaive(r) ==
  /\ mode = "naive" /\ New(r) /\ r \notin StreamRequests
  /\ \E n \in 0 .. MaxTokens[r] :
       /\ NaiveGenerate(n)
       /\ \/ n > 0 /\ RecordRequest(n) /\ Deliver(r, n)
          \/ n = 0 /\ RecordError /\ Tell(r, "failed")
  /\ UNCHANGED <<engineVars, mode, handlerVars, gauges>>

-----------------------------------------------------------------------------
(* /generate: _generate_batching                                           *)

\* The ScheduledRequest is constructed.
Arrive(r) ==
  /\ mode = "batching" /\ New(r) /\ r \notin StreamRequests
  /\ Sched!Create(r)
  /\ caller' = r /\ phase' = "submit"
  /\ UNCHANGED <<cacheVars, batchVars, stepVars, mode, iterations, leftover, gaveUp,
                 clientVars, metricVars, gauges, naiveCount>>

\* submit_request: True, or False and 429 "Request queue is full".
Submit ==
  /\ phase = "submit"
  /\ \/ /\ Sched!Submit(caller)
        /\ phase' = "run"
        /\ UNCHANGED <<caller, iterations, clientVars>>
     \/ /\ Sched!QueueFull
        /\ Tell(caller, "rejected") /\ Hangup
        /\ UNCHANGED schedVars
  /\ UNCHANGED <<cacheVars, batchVars, stepVars, mode, leftover, gaveUp, metricVars,
                 gauges, naiveCount>>

Bug_Idle_QueueOnly == pending = <<>>

\* Nothing is pending or active.
Idle == pending = <<>> /\ active = <<>>

\* A step of run_until_empty goes on, or returns; then the loop stops when the
\* engine is idle, or gives up at its limit.
RunStep ==
  /\ phase = "run"
  /\ Advance
  /\ IF pc' = "idle"
     THEN /\ iterations' = iterations + 1
          /\ IF Idle' \/ iterations' >= MaxIterations
             THEN /\ phase' = "answer"
                  /\ leftover' = ~ Idle'
                  /\ gaveUp' = IF Idle' THEN gaveUp ELSE gaveUp \cup {caller}
             ELSE UNCHANGED <<phase, leftover, gaveUp>>
     ELSE UNCHANGED <<iterations, phase, leftover, gaveUp>>
  /\ UNCHANGED <<mode, caller, clientVars, metricVars, gauges, naiveCount>>

Bug_RunRaises_DropsCaller ==
  /\ phase = "run"
  /\ pc = "forward" /\ pc' = "idle"
  /\ active' = RemoveFirst(active, caller)
  /\ leftover' = TRUE
  /\ Tell(caller, "error") /\ Hangup
  /\ UNCHANGED <<schedVars, cacheVars, refused, bookVars, toAdmit, finishing, mode,
                 gaveUp, metricVars, gauges, naiveCount>>

\* No handler catches what step() raises: a bare 500, no metric, and the batch
\* stays as it was.
RunRaises ==
  /\ phase = "run"
  /\ ForwardRaises
  /\ leftover' = TRUE
  /\ Tell(caller, "error") /\ Hangup
  /\ UNCHANGED <<mode, gaveUp, metricVars, gauges, naiveCount>>

Found == caller \in Range(returned) /\ status[caller] # "failed"

Bug_Respond_LastResult ==
  /\ phase = "answer"
  /\ \/ /\ returned # <<>>
        /\ RecordRequest(generated[Last(returned)])
        /\ Deliver(caller, generated[Last(returned)])
     \/ returned = <<>> /\ RecordError /\ Tell(caller, "notFound")
  /\ Hangup
  /\ UNCHANGED <<engineVars, mode, leftover, gaveUp, gauges, naiveCount>>

Bug_Respond_NoError ==
  /\ phase = "answer"
  /\ \/ Found /\ RecordRequest(generated[caller]) /\ Deliver(caller, generated[caller])
     \/ ~ Found /\ UNCHANGED metricVars /\ Tell(caller, "notFound")
  /\ Hangup
  /\ UNCHANGED <<engineVars, mode, leftover, gaveUp, gauges, naiveCount>>

Bug_Respond_WaitsForResult ==
  /\ phase = "answer"
  /\ Found /\ RecordRequest(generated[caller]) /\ Deliver(caller, generated[caller])
  /\ Hangup
  /\ UNCHANGED <<engineVars, mode, leftover, gaveUp, gauges, naiveCount>>

\* The caller's own result is looked for among all that were returned; it may
\* have been evicted, refused or timed out, or still be waiting when the loop gave
\* up: 500 "Request not found".
Respond ==
  /\ phase = "answer"
  /\ \/ Found /\ RecordRequest(generated[caller]) /\ Deliver(caller, generated[caller])
     \/ ~ Found /\ RecordError /\ Tell(caller, "notFound")
  /\ Hangup
  /\ UNCHANGED <<engineVars, mode, leftover, gaveUp, gauges, naiveCount>>

-----------------------------------------------------------------------------
(* /metrics, and time                                                      *)

Scrape ==
  /\ phase = "free"
  /\ UpdateGauges(EngineGauges)
  /\ UNCHANGED <<engineVars, mode, handlerVars, clientVars, metricVars, naiveCount>>

Clock(r) == TimePasses(r) /\ UNCHANGED serverVars

-----------------------------------------------------------------------------
Handler == Submit \/ RunStep \/ RunRaises \/ Respond

ServerNext ==
  \/ Handler \/ Scrape
  \/ \E r \in Requests : GenerateStream(r) \/ GenerateNaive(r) \/ Arrive(r) \/ Clock(r)

\* A handler that has started runs on: nothing else can take the event loop.
ServerSpec == ServerInit /\ [][ServerNext]_allVars /\ WF_allVars(Handler)

-----------------------------------------------------------------------------
(* Properties                                                              *)

Told(what) == {r \in Requests : answer[r] = what}

\* Clients are told the truth: "ok" is their own completed request, with the
\* number of tokens it generated, however many results of other callers the engine
\* returned; a 429 was never started; a request that is "not found" will not be
\* served later, unless run_until_empty gave up on it; and a result is thrown away
\* only if its client was told an error, by an exception or because the loop gave up.
AnswersHonest ==
  /\ mode = "batching" => \A r \in Told("ok") :
       /\ r \in Range(returned) /\ status[r] = "completed"
       /\ usage[r] = generated[r] /\ usage[r] > 0
  /\ Told("rejected") \cap started = {}
  /\ \A r \in Told("notFound") \ gaveUp : status[r] \in {"failed", "cancelled"}
  /\ phase = "free" => Range(returned) \subseteq Told("ok") \cup Told("error") \cup gaveUp

\* /metrics counts each answer of the engine once, success or error, in either
\* mode, with the tokens the client was told; streams, 429s and uncaught exceptions
\* are not counted at all.
MetricsLedger ==
  /\ served = Cardinality(Told("ok"))
  /\ errors = Cardinality(Told("notFound") \cup Told("failed"))
  /\ servedTokens = MapThenSumSet(LAMBDA r : usage[r], Told("ok"))
  /\ naiveCount = IF mode = "naive" THEN served + errors ELSE 0

\* A handler drains the engine before the next one starts.  So as long as the last
\* one left nothing behind, the engine never holds two requests, the loop goes on
\* only below max_tokens iterations, and /metrics would read an empty engine; and
\* before the first exception it always does, and the loop never gives up.
NeverBatched ==
  /\ ~ leftover =>
       /\ Len(active) + Len(pending) + Len(toAdmit) <= 1
       /\ SeqSet \subseteq {caller}
       /\ phase = "run" => iterations < MaxTokens[caller]
       /\ phase = "free" => EngineGauges = [batch |-> 0, queue |-> 0, used |-> 0]
  /\ Told("error") = {} =>
       /\ ~ leftover /\ gaveUp = {}
       /\ gauges = [batch |-> 0, queue |-> 0, used |-> 0]

\* The handlers use the engine only as BatchingEngine allows.
EngineContract == Spec

\* Every call is answered, after an exception too: however long the requests that
\* earlier callers left behind keep the engine busy, run_until_empty gives up.
EveryCallAnswered == \A r \in Requests : (caller = r) ~> (answer[r] # "none")

\* Doc string: inference_errors_total is the "Total number of failed requests"
\* (src/src/api/metrics.py:160).  Each request answered with a 500 would be counted.
ErrorsCounted ==
  errors = Cardinality(Told("notFound") \cup Told("failed") \cup Told("error"))

=============================================================================
