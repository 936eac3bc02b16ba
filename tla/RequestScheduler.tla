-------------------------- MODULE RequestScheduler --------------------------
(***************************************************************************)
(* The request queue: class RequestScheduler of src/src/engine/scheduler.py*)
(* and the life cycle of its ScheduledRequest.                             *)
(*                                                                         *)
(* A request is constructed, submitted to a bounded queue, picked into a   *)
(* batch under the scheduling policy, and ends completed, cancelled, timed *)
(* out or failed.  One action is one call of a method by its caller; time  *)
(* passes between calls (Expire).  A call that changes nothing (a rejected *)
(* submit, an unknown id) is a stuttering step.                            *)
(*                                                                         *)
(* A definition named Bug_X_... is a deliberately wrong variant of X.  No  *)
(* action uses it: each one shows that some property below can fail.       *)
(***************************************************************************)
EXTENDS Integers, Sequences, FiniteSets, SequencesExt

CONSTANTS
  Requests,       \* the request objects
  Priority,       \* RequestPriority of each, 0 = HIGH .. 2 = LOW
  Policies,       \* scheduling policies a deployment may configure
  MaxQueueSize,   \* max_queue_size
  BatchSizes      \* max_batch_size arguments of get_next_batch

ASSUME SchedulerAssumption ==
  /\ IsFiniteSet(Requests)
  /\ Priority \in [Requests -> 0 .. 2]
  /\ Policies \subseteq {"fcfs", "priority"}
  /\ MaxQueueSize \in Nat
  /\ BatchSizes \subseteq Nat

VARIABLES
  policy,          \* scheduling_policy, fixed at construction
  created,         \* requests in the order of their created_at
  expired,         \* waiting requests whose is_timed_out has become true
  status,          \* ScheduledRequest.status
  started,         \* requests whose started_at is set
  pending,         \* _pending
  running,         \* keys of _running
  completed,       \* keys of _completed
  totalSubmitted, totalCompleted, totalCancelled, totalTimedOut,
  arrivals         \* history: accepted requests in the order of their submit

lifeVars  == <<created, expired, status, started>>
queueVars == <<pending, running, completed, arrivals>>
countVars == <<totalSubmitted, totalCompleted, totalCancelled, totalTimedOut>>
schedVars == <<policy, lifeVars, queueVars, countVars>>

Statuses == {"pending", "running", "completed", "cancelled", "failed"}

-----------------------------------------------------------------------------
(* Helpers                                                                 *)

\* Every request the scheduler has accepted is in one of its containers.
Placed == Range(pending) \cup running \cup completed

Position(q, r) == CHOOSE i \in DOMAIN q : q[i] = r

Bug_QueueFull_OffByOne == Len(pending) > MaxQueueSize

QueueFull == Len(pending) >= MaxQueueSize

Bug_TimedOut_Skipped == {}

TimedOut == Range(pending) \cap expired

Bug_Ahead_NoTieBreak(a, b) ==
  IF policy = "priority" THEN Priority[a] <= Priority[b]
                         ELSE Position(pending, a) < Position(pending, b)

\* The sort key (priority, created_at) under the priority policy; any other
\* policy leaves the queue in the order it has.
Ahead(a, b) ==
  IF policy = "priority"
  THEN \/ Priority[a] < Priority[b]
       \/ Priority[a] = Priority[b] /\ Position(created, a) < Position(created, b)
  ELSE Position(pending, a) < Position(pending, b)

\* The queue once the timed-out requests are gone and it has been sorted: the
\* one sequence of the requests in S that respects Ahead.
Orderings(S) ==
  {q \in [1 .. Cardinality(S) -> S] :
     IsInjective(q) /\ \A i, j \in DOMAIN q : i < j => Ahead(q[i], q[j])}

BatchSize(n, q) == IF n <= Len(q) THEN n ELSE Len(q)

Bug_LeftBehind_OneShort(n, q) == SubSeq(q, BatchSize(n, q) + 2, Len(q))

Batch(n, q)      == SubSeq(q, 1, BatchSize(n, q))
LeftBehind(n, q) == SubSeq(q, BatchSize(n, q) + 1, Len(q))

-----------------------------------------------------------------------------
(* Operations                                                              *)

Init ==
  /\ policy \in Policies
  /\ created = <<>>
  /\ expired = {}
  /\ status = [r \in Requests |-> "pending"]
  /\ started = {}
  /\ pending = <<>>
  /\ running = {}
  /\ completed = {}
  /\ totalSubmitted = 0 /\ totalCompleted = 0
  /\ totalCancelled = 0 /\ totalTimedOut = 0
  /\ arrivals = <<>>

\* A caller constructs the request, which sets created_at.
Create(r) ==
  /\ r \notin Range(created)
  /\ created' = Append(created, r)
  /\ UNCHANGED <<policy, expired, status, started, queueVars, countVars>>

\* More than timeout_seconds have passed since created_at.  Only waiting
\* requests are ever asked.
Expire(r) ==
  /\ r \in Range(created) \ (expired \cup running \cup completed)
  /\ expired' = expired \cup {r}
  /\ UNCHANGED <<policy, created, status, started, queueVars, countVars>>

\* submit, returning True.
Submit(r) ==
  /\ r \in Range(created) \ Placed
  /\ ~ QueueFull
  /\ pending' = Append(pending, r)
  /\ arrivals' = Append(arrivals, r)
  /\ totalSubmitted' = totalSubmitted + 1
  /\ UNCHANGED <<policy, lifeVars, running, completed,
                 totalCompleted, totalCancelled, totalTimedOut>>

\* get_next_batch(n): timed-out requests are cancelled, the others sorted into
\* q, and the first of q started.
GetNextBatch(n, q) ==
  /\ q \in Orderings(Range(pending) \ TimedOut)
  /\ pending' = LeftBehind(n, q)
  /\ running' = running \cup Range(Batch(n, q))
  /\ started' = started \cup Range(Batch(n, q))
  /\ completed' = completed \cup TimedOut
  /\ status' = [r \in Requests |->
                  IF r \in Range(Batch(n, q)) THEN "running"
                  ELSE IF r \in TimedOut THEN "cancelled" ELSE status[r]]
  /\ totalTimedOut' = totalTimedOut + Cardinality(TimedOut)
  /\ UNCHANGED <<policy, created, expired, arrivals,
                 totalSubmitted, totalCompleted, totalCancelled>>

Bug_CompleteRequest_Unchecked(r) ==
  /\ r \in started
  /\ running' = running \ {r}
  /\ completed' = completed \cup {r}
  /\ status' = [status EXCEPT ![r] = "completed"]
  /\ totalCompleted' = totalCompleted + 1
  /\ UNCHANGED <<policy, created, expired, started, pending, arrivals,
                 totalSubmitted, totalCancelled, totalTimedOut>>

\* complete_request; an id that is not running is ignored.
CompleteRequest(r) ==
  /\ r \in running
  /\ running' = running \ {r}
  /\ completed' = completed \cup {r}
  /\ status' = [status EXCEPT ![r] = "completed"]
  /\ totalCompleted' = totalCompleted + 1
  /\ UNCHANGED <<policy, created, expired, started, pending, arrivals,
                 totalSubmitted, totalCancelled, totalTimedOut>>

Bug_CancelRequest_StaysRunning(r) ==
  /\ r \in Range(pending) \cup running
  /\ pending' = RemoveFirst(pending, r)
  /\ running' = running
  /\ completed' = completed \cup {r}
  /\ status' = [status EXCEPT ![r] = "cancelled"]
  /\ totalCancelled' = totalCancelled + 1
  /\ UNCHANGED <<policy, created, expired, started, arrivals,
                 totalSubmitted, totalCompleted, totalTimedOut>>

\* cancel_request, returning True: the queue is searched first, then _running,
\* where a request that failed is found as well.
CancelRequest(r) ==
  /\ \/ r \in Range(pending) /\ pending' = RemoveFirst(pending, r) /\ UNCHANGED running
     \/ r \in running \ Range(pending) /\ running' = running \ {r} /\ UNCHANGED pending
  /\ completed' = completed \cup {r}
  /\ status' = [status EXCEPT ![r] = "cancelled"]
  /\ totalCancelled' = totalCancelled + 1
  /\ UNCHANGED <<policy, created, expired, started, arrivals,
                 totalSubmitted, totalCompleted, totalTimedOut>>

\* ScheduledRequest.fail.  The guard is its caller's side: the engine fails what
\* it holds, a request that runs or was cancelled while it ran.  The scheduler
\* is not told: the request stays in the container it was in.
Fail(r) ==
  /\ r \in started
  /\ status[r] \in {"running", "cancelled"}
  /\ status' = [status EXCEPT ![r] = "failed"]
  /\ UNCHANGED <<policy, created, expired, started, queueVars, countVars>>

-----------------------------------------------------------------------------
Next ==
  \/ \E r \in Requests :
       Create(r) \/ Expire(r) \/ Submit(r) \/ CompleteRequest(r)
       \/ CancelRequest(r) \/ Fail(r)
  \/ \E n \in BatchSizes :
       \E q \in Orderings(Range(pending) \ TimedOut) : GetNextBatch(n, q)

Spec == Init /\ [][Next]_schedVars

-----------------------------------------------------------------------------
(* Properties                                                              *)

\* Every variable has its type, and the queue its bound.
TypeOK ==
  /\ policy \in Policies
  /\ created \in Seq(Requests)
  /\ expired \subseteq Requests
  /\ status \in [Requests -> Statuses]
  /\ started \subseteq Requests
  /\ pending \in Seq(Requests) /\ Len(pending) <= MaxQueueSize
  /\ running \subseteq Requests
  /\ completed \subseteq Requests
  /\ totalSubmitted \in Nat /\ totalCompleted \in Nat
  /\ totalCancelled \in Nat /\ totalTimedOut \in Nat
  /\ arrivals \in Seq(Requests)

\* A request is in one container at a time, whatever the race between being
\* picked, completing, timing out and being cancelled, and the container agrees
\* with its status: what waits is PENDING and not started, what is RUNNING is in
\* _running, and what is in _completed neither waits nor runs.
OnePlace ==
  /\ IsInjective(pending)
  /\ Range(pending) \cap (running \cup completed) = {}
  /\ running \cap completed = {}
  /\ \A r \in Requests :
       /\ r \in Range(pending) => status[r] = "pending" /\ r \notin started
       /\ r \in running => r \in started
       /\ status[r] = "running" => r \in running
       /\ r \in completed => status[r] \notin {"pending", "running"}

\* The counters of get_stats are a ledger: what was submitted is waiting,
\* running, or was counted as finished in exactly one way.
Ledger ==
  /\ Cardinality(completed) = totalCompleted + totalCancelled + totalTimedOut
  /\ totalSubmitted = Len(pending) + Cardinality(running) + Cardinality(completed)
  /\ totalSubmitted = Len(arrivals)

\* a was to be started before b: by (priority, created_at) under the priority
\* policy, in the order of their submit under any other.
Precedes(a, b) ==
  IF policy = "priority"
  THEN \/ Priority[a] < Priority[b]
       \/ Priority[a] = Priority[b] /\ Position(created, a) < Position(created, b)
  ELSE Position(arrivals, a) < Position(arrivals, b)

\* Nobody is overtaken: a request that starts precedes every request that goes
\* on waiting, after any number of batches, cancellations and timeouts.
NoOvertaking ==
  [][\A r \in started' \ started, w \in Range(pending') : Precedes(r, w)]_schedVars

\* A request whose timeout has passed when the batch is asked for is never started;
\* the check of the timeouts and the start are one instant here.
NoStaleStart == [][(started' \ started) \cap expired = {}]_schedVars

\* The scheduler forgets no request it accepted: get_request_status finds it
\* for ever, and finished requests stay finished.
NothingForgotten ==
  [][Placed \subseteq Placed' /\ completed \subseteq completed']_schedVars

=============================================================================
