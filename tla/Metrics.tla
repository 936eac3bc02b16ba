------------------------------- MODULE Metrics -------------------------------
(***************************************************************************)
(* MetricsCollector of src/src/api/metrics.py, "Thread-safe for concurrent *)
(* request recording": threads record requests and errors and take         *)
(* snapshots.  A counter is incremented by a load and a store; _lock keeps *)
(* them together, but get_metrics reads the counters without it.           *)
(***************************************************************************)
EXTENDS Integers, Sequences, FiniteSets, SequencesExt

CONSTANTS
  Threads, NoThread,
  Window,       \* window_seconds
  TokenCounts,  \* tokens a recorded request may have generated
  MaxTime,      \* bound on the clock, for model checking
  MaxCalls,     \* bound on the number of calls, for model checking
  SampleSizes   \* numbers of samples percentiles are checked for

ASSUME MetricsAssumption ==
  /\ NoThread \notin Threads
  /\ Window \in Nat /\ MaxTime \in Nat /\ MaxCalls \in Nat
  /\ TokenCounts \subseteq Nat
  /\ SampleSizes \subseteq Nat \ {0}

VARIABLES
  now,       \* time.monotonic()
  lock,      \* owner of _lock
  records,   \* _records
  counter,   \* total_requests, total_tokens_generated, total_errors
  pc,
  record,    \* LatencyRecord a thread is about to append
  todo,      \* counters a call has still to add to, or to read
  reg,       \* value loaded by an increment under way
  samples,   \* records a thread copied in get_metrics
  report,    \* counters it has read since
  calls,     \* number of calls begun
  entered,   \* history: every record appended
  failures   \* history: number of record_error calls that took the lock

collector   == <<lock, records, counter>>
threadVars  == <<pc, record, todo, reg>>
snapVars    == <<samples, report>>
history     == <<calls, entered, failures>>
metricsVars == <<now, collector, threadVars, snapVars, history>>

Counters == {"requests", "tokens", "errors"}
Fields   == <<"requests", "tokens", "errors", "requests">>

NoRecord == [stamp |-> 0, tokens |-> 0]

Goto(t, place) == pc' = [pc EXCEPT ![t] = place]

Init ==
  /\ now = 0 /\ lock = NoThread /\ records = <<>>
  /\ counter = [c \in Counters |-> 0]
  /\ pc = [t \in Threads |-> "idle"]
  /\ record = [t \in Threads |-> NoRecord]
  /\ todo = [t \in Threads |-> <<>>]
  /\ reg = [t \in Threads |-> 0]
  /\ samples = [t \in Threads |-> <<>>] /\ report = [t \in Threads |-> <<>>]
  /\ calls = 0 /\ entered = <<>> /\ failures = 0

-----------------------------------------------------------------------------
(* The sliding window and percentiles                                      *)

Bug_IsOld_Early(r) == r.stamp <= now - Window

IsOld(r) == r.stamp < now - Window

Bug_Pruned_Once(rs) == IF rs # <<>> /\ IsOld(Head(rs)) THEN Tail(rs) ELSE rs

\* _prune_old_records: old records are popped until the first young one.
Pruned(rs) ==
  LET young == {n \in DOMAIN rs : ~ IsOld(rs[n])}
  IN  IF young = {} THEN <<>> ELSE SubSeq(rs, Min(young), Len(rs))

\* sorted(): the samples of a list of records in rising order.
Measured(rs) ==
  CHOOSE s \in {[n \in DOMAIN rs |-> rs[q[n]].tokens] : q \in SetToSeqs(DOMAIN rs)} :
    \A n \in 2 .. Len(s) : s[n - 1] <= s[n]

Bug_Percentile_NextIndex(sorted, p) ==
  sorted[Min({(Len(sorted) * p) \div 100 + 1, Len(sorted) - 1}) + 1]

\* _percentile of a list that is not empty, p in hundredths.
Percentile(sorted, p) ==
  sorted[Min({(Len(sorted) * p) \div 100, Len(sorted) - 1}) + 1]

-----------------------------------------------------------------------------
(* record_request and record_error                                         *)

\* record_request is called: the record is stamped before the lock is taken.
Stamp(t) ==
  /\ pc[t] = "idle" /\ calls < MaxCalls
  /\ \E n \in TokenCounts :
       record' = [record EXCEPT ![t] = [stamp |-> now, tokens |-> n]]
  /\ calls' = calls + 1
  /\ Goto(t, "stamped")
  /\ UNCHANGED <<now, collector, todo, reg, snapVars, entered, failures>>

Bug_Enter_NoLock(t) ==
  /\ pc[t] = "stamped"
  /\ lock' = t
  /\ records' = Append(records, record[t])
  /\ entered' = Append(entered, record[t])
  /\ todo' = [todo EXCEPT ![t] = <<"requests", "tokens">>]
  /\ Goto(t, "load")
  /\ UNCHANGED <<now, counter, record, reg, snapVars, calls, failures>>

\* The lock is taken and the record appended.
Enter(t) ==
  /\ pc[t] = "stamped" /\ lock = NoThread
  /\ lock' = t
  /\ records' = Append(records, record[t])
  /\ entered' = Append(entered, record[t])
  /\ todo' = [todo EXCEPT ![t] = <<"requests", "tokens">>]
  /\ Goto(t, "load")
  /\ UNCHANGED <<now, counter, record, reg, snapVars, calls, failures>>

Bug_EnterError_NoLock(t) ==
  /\ pc[t] = "idle" /\ calls < MaxCalls
  /\ calls' = calls + 1 /\ failures' = failures + 1
  /\ todo' = [todo EXCEPT ![t] = <<"errors">>]
  /\ Goto(t, "load")
  /\ UNCHANGED <<now, collector, record, reg, snapVars, entered>>

\* record_error takes the lock.
EnterError(t) ==
  /\ pc[t] = "idle" /\ lock = NoThread /\ calls < MaxCalls
  /\ lock' = t
  /\ calls' = calls + 1 /\ failures' = failures + 1
  /\ todo' = [todo EXCEPT ![t] = <<"errors">>]
  /\ Goto(t, "load")
  /\ UNCHANGED <<now, records, counter, record, reg, snapVars, entered>>

\* The two halves of counter += amount.
Load(t) ==
  /\ pc[t] = "load" /\ todo[t] # <<>>
  /\ reg' = [reg EXCEPT ![t] = counter[Head(todo[t])]]
  /\ Goto(t, "store")
  /\ UNCHANGED <<now, collector, record, todo, snapVars, history>>

Amount(t) == IF Head(todo[t]) = "tokens" THEN record[t].tokens ELSE 1

Store(t) ==
  /\ pc[t] = "store"
  /\ counter' = [counter EXCEPT ![Head(todo[t])] = reg[t] + Amount(t)]
  /\ reg' = [reg EXCEPT ![t] = 0]
  /\ todo' = [todo EXCEPT ![t] = Tail(@)]
  /\ Goto(t, IF todo'[t] # <<>> THEN "load"
             ELSE IF Head(todo[t]) = "tokens" THEN "prune" ELSE "release")
  /\ UNCHANGED <<now, lock, records, record, snapVars, history>>

\* record_request prunes before it lets go of the lock, record_error does not.
Release(t) ==
  /\ \/ pc[t] = "prune" /\ records' = Pruned(records)
     \/ pc[t] = "release" /\ UNCHANGED records
  /\ lock' = NoThread
  /\ record' = [record EXCEPT ![t] = NoRecord]
  /\ Goto(t, "idle")
  /\ UNCHANGED <<now, counter, todo, reg, snapVars, history>>

-----------------------------------------------------------------------------
(* get_metrics                                                             *)

Bug_Copy_NoLock(t) ==
  /\ pc[t] = "idle" /\ calls < MaxCalls
  /\ calls' = calls + 1
  /\ records' = Pruned(records)
  /\ samples' = [samples EXCEPT ![t] = records']
  /\ report' = [report EXCEPT ![t] = <<>>]
  /\ todo' = [todo EXCEPT ![t] = Fields]
  /\ Goto(t, "read")
  /\ UNCHANGED <<now, lock, counter, record, reg, entered, failures>>

\* Under the lock, the window is pruned and copied.
Copy(t) ==
  /\ pc[t] = "idle" /\ lock = NoThread /\ calls < MaxCalls
  /\ calls' = calls + 1
  /\ records' = Pruned(records)
  /\ samples' = [samples EXCEPT ![t] = records']
  /\ report' = [report EXCEPT ![t] = <<>>]
  /\ todo' = [todo EXCEPT ![t] = Fields]
  /\ Goto(t, "read")
  /\ UNCHANGED <<now, lock, counter, record, reg, entered, failures>>

\* Then the counters are read one by one, the requests again for their rate.
Read(t) ==
  /\ pc[t] = "read"
  /\ report' = [report EXCEPT ![t] = Append(@, counter[Head(todo[t])])]
  /\ todo' = [todo EXCEPT ![t] = Tail(@)]
  /\ Goto(t, IF todo'[t] = <<>> THEN "idle" ELSE "read")
  /\ UNCHANGED <<now, collector, record, reg, samples, history>>

Tick ==
  /\ now < MaxTime
  /\ now' = now + 1
  /\ UNCHANGED <<collector, threadVars, snapVars, history>>

Next ==
  \/ Tick
  \/ \E t \in Threads : \/ Stamp(t) \/ Enter(t) \/ EnterError(t) \/ Load(t)
                        \/ Store(t) \/ Release(t) \/ Copy(t) \/ Read(t)

Spec == Init /\ [][Next]_metricsVars

-----------------------------------------------------------------------------
(* Properties                                                              *)

TokensOf(rs) == MapThenSumSet(LAMBDA n : rs[n].tokens, DOMAIN rs)

\* Every variable has its type, and only the owner of the lock is at a place
\* that needs it.
TypeOK ==
  /\ now \in Nat /\ lock \in Threads \cup {NoThread}
  /\ counter \in [Counters -> Nat]
  /\ pc \in [Threads -> {"idle", "stamped", "load", "store", "prune", "release", "read"}]
  /\ \A t \in Threads : pc[t] \in {"load", "store", "prune", "release"} <=> lock = t

\* No update is lost: whenever nobody holds the lock the counters are exactly
\* what was recorded, in any interleaving of record_request and record_error.
CountersExact ==
  lock = NoThread =>
    /\ counter["requests"] = Len(entered)
    /\ counter["tokens"] = TokensOf(entered)
    /\ counter["errors"] = failures

\* The window loses nothing early: what is gone from it entered first, and every
\* record of it is past the window.
WindowExact ==
  LET gone == Len(entered) - Len(records)
  IN  /\ records = SubSeq(entered, gone + 1, Len(entered))
      /\ \A n \in 1 .. gone : entered[n].stamp + Window < now

\* A snapshot mixes moments in one direction only: its counters are at least as
\* new as its samples, the rate at least as new as the count, so there are never
\* more samples than requests or more tokens in the samples than were counted.
SnapshotOrdered ==
  \A t \in Threads :
    LET seen == report[t]
    IN  /\ Len(seen) >= 1 => Len(samples[t]) <= seen[1]
        /\ Len(seen) >= 2 => TokensOf(samples[t]) <= seen[2]
        /\ Len(seen) >= 4 => seen[1] <= seen[4]

Pruning(t) == \/ pc[t] = "prune" /\ pc'[t] = "idle"
              \/ pc[t] = "idle" /\ pc'[t] = "read"

\* Pruning trusts that records entered in the order of their stamps, which are
\* taken before the lock: a record past the window survives it only when its
\* thread was overtaken, behind a record with a later stamp.
StaleOnlyOvertaken ==
  [][(\E t \in Threads : Pruning(t)) =>
       \A n \in DOMAIN records' : records'[n].stamp + Window < now =>
         \E m \in 1 .. n - 1 : records'[m].stamp > records'[n].stamp]_metricsVars

Fits(sorted) ==
  \A p \in {50, 95, 99} :
    LET value == Percentile(sorted, p)
    IN  /\ 100 * Cardinality({n \in DOMAIN sorted : sorted[n] < value}) <= Len(sorted) * p
        /\ Len(sorted) * p <= 100 * Cardinality({n \in DOMAIN sorted : sorted[n] <= value})

\* A percentile is a sample that at least p percent of the samples do not exceed
\* and at most p percent stay below: for the samples of any snapshot, and (looked
\* at once, before the first call) for lists with equal values whose lengths are
\* one, multiples of 1/p and their neighbours.
Percentiles ==
  /\ \A t \in Threads : samples[t] # <<>> /\ pc[t] = "read" => Fits(Measured(samples[t]))
  /\ calls = 0 => \A size \in SampleSizes : Fits([n \in 1 .. size |-> n \div 3])

=============================================================================
