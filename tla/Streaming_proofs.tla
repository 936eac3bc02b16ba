-------------------------- MODULE Streaming_proofs --------------------------
(***************************************************************************)
(* A streamed generation keeps its promises for every number of streams,   *)
(* every prompt and every max_tokens.  What makes CacheAligned inductive is*)
(* where the loop variable, the input and the KV cache stand at each       *)
(* suspension; what makes the protocol hold is that the events of a stream *)
(* are determined by how many tokens it has generated.                     *)
(***************************************************************************)
EXTENDS Streaming, CollectionFacts

Typed ==
  /\ pc \in [Streams -> {"new", "loop", "yielded", "left", "closed", "broken"}]
  /\ i \in [Streams -> Nat] /\ inputLen \in [Streams -> Nat]
  /\ cacheLen \in [Streams -> Nat] /\ generated \in [Streams -> Nat]
  /\ DOMAIN events = Streams
  /\ \A s \in Streams : /\ cacheLen[s] <= MaxPositions
                        /\ generated[s] <= MaxTokens[s] /\ i[s] <= MaxTokens[s]

\* Between two passes all of the input but its last token is cached, during the
\* yield all of it.
Suspended(s) ==
  /\ pc[s] \in {"new", "loop"} =>
       /\ i[s] = generated[s]
       /\ inputLen[s] = PromptTokens[s] + generated[s]
       /\ cacheLen[s] = IF generated[s] = 0 THEN 0 ELSE inputLen[s] - 1
  /\ pc[s] = "yielded" =>
       /\ generated[s] = i[s] + 1
       /\ inputLen[s] = PromptTokens[s] + i[s]
       /\ cacheLen[s] = inputLen[s]

\* The n-th event with a token, counted from 1.
TokenOf(s, n) == TokenEvent(n - 1, IF n = MaxTokens[s] THEN "length" ELSE "none")

\* Until its summary a stream has sent an event for each token, and then perhaps
\* EOS.
Sent(s) ==
  pc[s] \in {"new", "loop", "yielded", "left"} =>
    /\ events[s] = [n \in 1 .. Len(events[s]) |->
                      IF n <= generated[s] THEN TokenOf(s, n) ELSE EosEvent(n - 1)]
    /\ Len(events[s]) = IF pc[s] = "left" THEN generated[s] + 1 ELSE generated[s]

IInv == Typed /\ \A s \in Streams : Suspended(s) /\ Sent(s)

-----------------------------------------------------------------------------
(* The invariant is inductive                                              *)

\* Every stream starts with an empty cache and nothing sent.
LEMMA InitInv == Init => IInv
PROOF
<1> SUFFICES ASSUME Init PROVE IInv
  OBVIOUS
<1>1. Typed
  BY StreamAssumption DEF Init, Typed
<1>2. ASSUME NEW s \in Streams PROVE Suspended(s) /\ Sent(s)
  <2>1. Suspended(s)
    BY StreamAssumption DEF Init, Suspended
  <2>2. pc[s] = "new" /\ events[s] = <<>> /\ generated[s] = 0
    BY DEF Init
  <2> QED
    BY <2>1, <2>2 DEF Sent
<1> QED
  BY <1>1, <1>2 DEF IInv

\* The other streams are left alone, so a step is judged by its own stream.
LEMMA OneStream ==
  ASSUME IInv, NEW s \in Streams, Typed', Suspended(s)', Sent(s)',
         \A t \in Streams \ {s} :
           /\ pc'[t] = pc[t] /\ i'[t] = i[t] /\ inputLen'[t] = inputLen[t]
           /\ cacheLen'[t] = cacheLen[t] /\ generated'[t] = generated[t]
           /\ events'[t] = events[t]
  PROVE  IInv'
PROOF
<1>1. ASSUME NEW t \in Streams \ {s} PROVE Suspended(t)' /\ Sent(t)'
  <2>1. Suspended(t) /\ Sent(t)
    BY DEF IInv
  <2> QED
    BY <2>1 DEF Suspended, Sent, TokenOf, TokenEvent, EosEvent
<1> QED
  BY <1>1 DEF IInv

\* One event more, a token or EOS, in its place.
LEMMA OneEventMore ==
  ASSUME NEW m \in Nat, NEW F, NEW q, q = [n \in 1 .. m |-> F[n]],
         NEW e, F[m + 1] = e
  PROVE  Append(q, e) = [n \in 1 .. m + 1 |-> F[n]] /\ Len(Append(q, e)) = m + 1
PROOF
<1> DEFINE S == {F[n] : n \in 1 .. m} \cup {e}
<1>1. q \in Seq(S) /\ Len(q) = m /\ e \in S
  OBVIOUS
<1> HIDE DEF S
<1>2. /\ Append(q, e) \in Seq(S) /\ Len(Append(q, e)) = m + 1
      /\ \A n \in 1 .. m : Append(q, e)[n] = q[n]
      /\ Append(q, e)[m + 1] = e
  BY <1>1, AppendProperties
<1> QED
  BY <1>2

\* A pass that sends a token: the loop variable is the number of tokens sent.
LEMMA TokenInv ==
  ASSUME IInv, NEW s \in Streams, PassToken(s)
  PROVE  IInv'
PROOF
<1>1. /\ Typed /\ Suspended(s) /\ Sent(s)
  BY DEF IInv
<1>2. /\ pc[s] = "loop" /\ i[s] < MaxTokens[s]
      /\ cacheLen[s] + Fed(s) <= MaxPositions
      /\ pc' = [pc EXCEPT ![s] = "yielded"]
      /\ cacheLen' = [cacheLen EXCEPT ![s] = @ + Fed(s)]
      /\ generated' = [generated EXCEPT ![s] = @ + 1]
      /\ events' = [events EXCEPT ![s] = Append(@, TokenEvent(i[s],
                       IF i[s] = MaxTokens[s] - 1 THEN "length" ELSE "none"))]
      /\ UNCHANGED <<i, inputLen>>
  <2>1. Fed(s) \in Nat
    BY <1>1 DEF Fed, Typed
  <2> QED
    BY <1>1, <2>1, StreamAssumption
       DEF PassToken, Forward, InLoop, PassRaises, Yield, Goto, Typed
<1>3. /\ i[s] = generated[s] /\ generated[s] \in Nat /\ MaxTokens[s] \in Nat
      /\ PromptTokens[s] \in Nat \ {0} /\ MaxPositions \in Nat
      /\ inputLen[s] = PromptTokens[s] + generated[s]
      /\ cacheLen[s] = IF generated[s] = 0 THEN 0 ELSE inputLen[s] - 1
  BY <1>1, <1>2, StreamAssumption DEF Suspended, Typed
<1>4. cacheLen[s] + Fed(s) = inputLen[s]
  BY <1>3 DEF Fed
<1>5. /\ pc'[s] = "yielded" /\ i'[s] = generated[s] /\ generated'[s] = generated[s] + 1
      /\ inputLen'[s] = PromptTokens[s] + generated[s] /\ cacheLen'[s] = inputLen[s]
  BY <1>1, <1>2, <1>3, <1>4 DEF Typed
<1>6. Typed'
  BY <1>1, <1>2, <1>3, <1>4, <1>5 DEF Typed
<1>7. Suspended(s)'
  BY <1>3, <1>5 DEF Suspended
<1>8. Sent(s)'
  <2> DEFINE m == generated[s]
             F == [n \in 1 .. m + 1 |-> IF n <= m + 1 THEN TokenOf(s, n) ELSE EosEvent(n - 1)]
             e == TokenEvent(m, IF m = MaxTokens[s] - 1 THEN "length" ELSE "none")
  <2>1. /\ Len(events[s]) = m
        /\ events[s] = [n \in 1 .. m |-> IF n <= m THEN TokenOf(s, n) ELSE EosEvent(n - 1)]
    BY <1>1, <1>2 DEF Sent
  <2>2. events[s] = [n \in 1 .. m |-> F[n]]
    BY <1>3, <2>1
  <2>3. F[m + 1] = e
    <3>1. m + 1 \in 1 .. m + 1 /\ (m + 1) - 1 = m
          /\ (m + 1 = MaxTokens[s] <=> m = MaxTokens[s] - 1)
      BY <1>3
    <3>2. F[m + 1] = TokenOf(s, m + 1)
      BY <1>3, <3>1
    <3> QED
      BY <3>1, <3>2 DEF TokenOf
  <2>4. events'[s] = Append(events[s], e)
    BY <1>1, <1>2, <1>3 DEF Typed
  <2> HIDE DEF F, e
  <2>5. events'[s] = [n \in 1 .. m + 1 |-> F[n]] /\ Len(events'[s]) = m + 1
    BY <1>3, <2>2, <2>3, <2>4, OneEventMore
  <2>6. events'[s] = [n \in 1 .. m + 1 |-> IF n <= m + 1 THEN TokenOf(s, n) ELSE EosEvent(n - 1)]
    BY <2>5 DEF F
  <2> QED
    BY <1>5, <2>5, <2>6 DEF Sent, TokenOf
<1> QED
  BY <1>1, <1>2, <1>6, <1>7, <1>8, OneStream DEF Typed

\* A pass that samples EOS.
LEMMA EosInv ==
  ASSUME IInv, NEW s \in Streams, PassEos(s)
  PROVE  IInv'
PROOF
<1>1. /\ Typed /\ Suspended(s) /\ Sent(s)
  BY DEF IInv
<1>2. /\ pc[s] = "loop" /\ cacheLen[s] + Fed(s) <= MaxPositions
      /\ pc' = [pc EXCEPT ![s] = "left"]
      /\ cacheLen' = [cacheLen EXCEPT ![s] = @ + Fed(s)]
      /\ events' = [events EXCEPT ![s] = Append(@, EosEvent(i[s]))]
      /\ UNCHANGED <<i, inputLen, generated>>
  <2>1. Fed(s) \in Nat
    BY <1>1 DEF Fed, Typed
  <2> QED
    BY <1>1, <2>1, StreamAssumption
       DEF PassEos, Forward, InLoop, PassRaises, Yield, Goto, Typed
<1>3. i[s] = generated[s] /\ generated[s] \in Nat
  BY <1>1, <1>2 DEF Suspended, Typed
<1>4. Typed'
  BY <1>1, <1>2 DEF Typed, Fed
<1>5. pc'[s] = "left" /\ generated'[s] = generated[s]
  BY <1>1, <1>2 DEF Typed
<1>6. Suspended(s)'
  BY <1>5 DEF Suspended
<1>7. Sent(s)'
  <2> DEFINE m == generated[s]
             F == [n \in 1 .. m + 1 |-> IF n <= m THEN TokenOf(s, n) ELSE EosEvent(n - 1)]
             e == EosEvent(m)
  <2>1. /\ Len(events[s]) = m
        /\ events[s] = [n \in 1 .. m |-> IF n <= m THEN TokenOf(s, n) ELSE EosEvent(n - 1)]
    BY <1>1, <1>2 DEF Sent
  <2>2. events[s] = [n \in 1 .. m |-> F[n]]
    BY <1>3, <2>1
  <2>3. F[m + 1] = e
    <3>1. m + 1 \in 1 .. m + 1 /\ (m + 1) - 1 = m /\ ~ (m + 1 <= m)
      BY <1>3
    <3> QED
      BY <3>1
  <2>4. events'[s] = Append(events[s], e)
    BY <1>1, <1>2, <1>3 DEF Typed
  <2> HIDE DEF F, e
  <2>5. events'[s] = [n \in 1 .. m + 1 |-> F[n]] /\ Len(events'[s]) = m + 1
    BY <1>3, <2>2, <2>3, <2>4, OneEventMore
  <2>6. events'[s] = [n \in 1 .. m + 1 |-> IF n <= m THEN TokenOf(s, n) ELSE EosEvent(n - 1)]
    BY <2>5 DEF F
  <2> QED
    BY <1>5, <2>5, <2>6 DEF Sent, TokenOf
<1> QED
  BY <1>1, <1>2, <1>4, <1>6, <1>7, OneStream DEF Typed

\* After the yield the token joins the input, and loop variable and count agree
\* again.
LEMMA AppendTokenInv ==
  ASSUME IInv, NEW s \in Streams, AppendToken(s)
  PROVE  IInv'
PROOF
<1>1. /\ Typed /\ Suspended(s) /\ Sent(s)
  BY DEF IInv
<1>2. /\ pc[s] = "yielded" /\ pc' = [pc EXCEPT ![s] = "loop"]
      /\ inputLen' = [inputLen EXCEPT ![s] = @ + 1] /\ i' = [i EXCEPT ![s] = @ + 1]
      /\ UNCHANGED <<cacheLen, generated, events>>
  BY DEF AppendToken, Goto
<1>3. /\ generated[s] = i[s] + 1 /\ generated[s] <= MaxTokens[s] /\ i[s] \in Nat
      /\ inputLen[s] = PromptTokens[s] + i[s] /\ cacheLen[s] = inputLen[s]
      /\ PromptTokens[s] \in Nat /\ MaxTokens[s] \in Nat
  BY <1>1, <1>2, StreamAssumption DEF Suspended, Typed
<1>4. /\ pc'[s] = "loop" /\ i'[s] = i[s] + 1 /\ inputLen'[s] = inputLen[s] + 1
      /\ cacheLen'[s] = cacheLen[s] /\ generated'[s] = generated[s]
      /\ events'[s] = events[s]
  BY <1>1, <1>2 DEF Typed
<1>5. Typed'
  BY <1>1, <1>2, <1>3, <1>4 DEF Typed
<1>6. Suspended(s)'
  BY <1>3, <1>4 DEF Suspended
<1>7. Sent(s)'
  BY <1>1, <1>2, <1>4 DEF Sent, TokenOf
<1> QED
  BY <1>1, <1>2, <1>5, <1>6, <1>7, OneStream DEF Typed

\* A stream that is over keeps nothing but the types.
LEMMA OverInv ==
  ASSUME IInv, NEW s \in Streams, NEW place \in {"closed", "broken"}, Goto(s, place),
         UNCHANGED loopVars,
         UNCHANGED events \/ \E event : Yield(s, event)
  PROVE  IInv'
PROOF
<1>1. Typed
  BY DEF IInv
<1>2. pc'[s] = place /\ DOMAIN events' = Streams
      /\ \A t \in Streams \ {s} : pc'[t] = pc[t] /\ events'[t] = events[t]
  BY <1>1 DEF Typed, Goto, Yield
<1>3. Typed'
  BY <1>1, <1>2 DEF Typed, Goto, loopVars
<1>4. Suspended(s)' /\ Sent(s)'
  BY <1>2 DEF Suspended, Sent
<1> QED
  BY <1>2, <1>3, <1>4, OneStream DEF loopVars

\* Every step keeps the invariant.
LEMMA StepInv == IInv /\ [Next]_streamVars => IInv'
PROOF
<1> SUFFICES ASSUME IInv, [Next]_streamVars PROVE IInv'
  OBVIOUS
<1>1. ASSUME NEW s \in Streams, Open(s) PROVE IInv'
  <2>1. Typed /\ Suspended(s) /\ Sent(s)
    BY DEF IInv
  <2>2. /\ pc[s] = "new" /\ pc' = [pc EXCEPT ![s] = "loop"]
        /\ UNCHANGED <<i, inputLen, cacheLen, generated, events>>
    BY <1>1 DEF Open, Goto, loopVars
  <2>3. Typed'
    BY <2>1, <2>2 DEF Typed
  <2>4. Suspended(s)' /\ Sent(s)'
    BY <2>1, <2>2 DEF Typed, Suspended, Sent, TokenOf
  <2> QED
    BY <2>1, <2>2, <2>3, <2>4, OneStream DEF Typed
<1>2. ASSUME NEW s \in Streams, Summary(s) PROVE IInv'
  BY <1>2, OverInv DEF Summary
<1>3. ASSUME NEW s \in Streams, Raise(s) PROVE IInv'
  BY <1>3, OverInv DEF Raise
<1>4. ASSUME NEW s \in Streams, Disconnect(s) PROVE IInv'
  BY <1>4, OverInv DEF Disconnect
<1>5. CASE UNCHANGED streamVars
  BY <1>5 DEF streamVars, loopVars, IInv, Typed, Suspended, Sent, TokenOf
<1> QED
  BY <1>1, <1>2, <1>3, <1>4, <1>5, TokenInv, EosInv, AppendTokenInv DEF Next, Run

-----------------------------------------------------------------------------
(* What holds in every state                                               *)

\* Wherever the streams are suspended or cut, loop variable, input, cache and
\* events stand as the invariant says.
THEOREM Invariance == Spec => []IInv
PROOF
<1>1. Init => IInv
  BY InitInv
<1>2. IInv /\ [Next]_streamVars => IInv'
  BY StepInv
<1> QED
  BY <1>1, <1>2, PTL DEF Spec

\* The variables keep their types; no stream sends more than max_tokens tokens,
\* and no cache outgrows the positions of the model.
THEOREM TypeCorrect == Spec => []TypeOK
PROOF
<1>1. IInv => TypeOK
  BY StreamAssumption DEF IInv, Typed, TypeOK
<1> QED
  BY <1>1, Invariance, PTL

\* Before each pass the KV cache holds all of the input but its last token, or
\* nothing: feeding that token alone, or the prompt, continues the text.
THEOREM CacheStaysAligned == Spec => []CacheAligned
PROOF
<1>1. IInv => CacheAligned
  <2> SUFFICES ASSUME IInv, NEW s \in Streams, pc[s] = "loop"
               PROVE  /\ inputLen[s] = PromptTokens[s] + generated[s]
                      /\ cacheLen[s] + Fed(s) = inputLen[s]
    BY DEF CacheAligned, InLoop
  <2>1. /\ inputLen[s] = PromptTokens[s] + generated[s]
        /\ cacheLen[s] = IF generated[s] = 0 THEN 0 ELSE inputLen[s] - 1
        /\ PromptTokens[s] \in Nat \ {0} /\ generated[s] \in Nat
    BY StreamAssumption DEF IInv, Typed, Suspended
  <2> QED
    BY <2>1 DEF Fed
<1> QED
  BY <1>1, Invariance, PTL

-----------------------------------------------------------------------------
(* Streaming implements StreamProtocol                                     *)

\* The summary counts the events with a token.
LEMMA TokensCounted ==
  ASSUME IInv, NEW s \in Streams, pc[s] \in {"loop", "left"}
  PROVE  Client!TokensIn(events[s]) = generated[s]
PROOF
<1> DEFINE m == generated[s]
           q == events[s]
<1>1. m \in Nat /\ Sent(s)
  BY DEF IInv, Typed
<1>2. /\ DOMAIN q = 1 .. Len(q) /\ Len(q) \in {m, m + 1}
      /\ \A n \in 1 .. Len(q) : q[n] = IF n <= m THEN TokenOf(s, n) ELSE EosEvent(n - 1)
  BY <1>1 DEF Sent
<1>3. \A n \in 1 .. Len(q) : Client!IsToken(q[n]) <=> n <= m
  <2> SUFFICES ASSUME NEW n \in 1 .. Len(q) PROVE Client!IsToken(q[n]) <=> n <= m
    OBVIOUS
  <2>1. CASE n <= m
    <3>1. \E reason : q[n] = [index |-> n - 1, token |-> TRUE, finish |-> reason]
      BY <1>2, <2>1 DEF TokenOf, TokenEvent
    <3>2. PICK reason : q[n] = [index |-> n - 1, token |-> TRUE, finish |-> reason]
      BY <3>1
    <3> QED
      BY <2>1, <3>2 DEF Client!IsToken
  <2>2. CASE ~ (n <= m)
    <3>1. q[n] = [index |-> n - 1, token |-> FALSE, finish |-> "eos"]
      BY <1>2, <2>2 DEF EosEvent
    <3> QED
      BY <2>2, <3>1 DEF Client!IsToken
  <2> QED
    BY <2>1, <2>2
<1>4. {n \in DOMAIN q : Client!IsToken(q[n])} = 1 .. m
  BY <1>1, <1>2, <1>3
<1>5. Cardinality(1 .. m) = m
  BY <1>1, FS_Interval
<1> QED
  BY <1>4, <1>5 DEF Client!TokensIn, Client!Cardinality, Cardinality

\* A finish reason has been sent exactly when EOS was, or the last token.
LEMMA FinishedWhen ==
  ASSUME IInv, NEW s \in Streams, pc[s] \in {"loop", "left"}
  PROVE  Client!Finished(events[s]) <=> pc[s] = "left" \/ generated[s] = MaxTokens[s]
PROOF
<1> DEFINE m == generated[s]
           q == events[s]
<1>1. m \in Nat /\ MaxTokens[s] \in Nat \ {0} /\ Sent(s)
  BY StreamAssumption DEF IInv, Typed
<1>2. /\ Len(q) = IF pc[s] = "left" THEN m + 1 ELSE m
      /\ q = [n \in 1 .. Len(q) |-> IF n <= m THEN TokenOf(s, n) ELSE EosEvent(n - 1)]
  BY <1>1 DEF Sent
<1>3. CASE pc[s] = "left"
  <2>1. Last(q) = EosEvent(m) /\ q # <<>>
    BY <1>1, <1>2, <1>3 DEF Last
  <2> QED
    BY <1>3, <2>1 DEF Client!Finished, Client!Last, Last, EosEvent
<1>4. CASE pc[s] = "loop" /\ m = 0
  <2>1. q = <<>>
    BY <1>2, <1>4
  <2> QED
    BY <1>1, <1>4, <2>1 DEF Client!Finished
<1>5. CASE pc[s] = "loop" /\ m # 0
  <2>1. Last(q) = TokenOf(s, m) /\ q # <<>>
    BY <1>1, <1>2, <1>5 DEF Last
  <2> QED
    BY <1>5, <2>1 DEF Client!Finished, Client!Last, Last, TokenOf, TokenEvent
<1> QED
  BY <1>3, <1>4, <1>5

Ended == {s \in Streams : Over(s)}

\* What each step is to the client.
LEMMA StepToClient ==
  ASSUME IInv, [Next]_streamVars
  PROVE  Client!Next \/ UNCHANGED <<events, Ended>>
PROOF
<1>1. Typed
  BY DEF IInv
<1>2. ASSUME NEW s \in Streams, PassToken(s) PROVE Client!Token(s)
  <2>1. /\ pc[s] = "loop" /\ i[s] < MaxTokens[s] /\ i[s] = generated[s]
        /\ i[s] \in Nat /\ MaxTokens[s] \in Nat
    BY <1>1, <1>2, StreamAssumption
       DEF IInv, Typed, Suspended, PassToken, Forward, InLoop
  <2>2. Len(events[s]) = i[s]
    BY <2>1 DEF IInv, Sent
  <2>3. ~ Client!Finished(events[s])
    BY <2>1, FinishedWhen
  <2>4. s \notin Ended /\ Ended' = Ended
    BY <1>1, <1>2, <2>1 DEF Ended, Over, PassToken, Goto, Typed
  <2>5. i[s] + 1 = MaxTokens[s] <=> i[s] = MaxTokens[s] - 1
    BY <2>1
  <2>6. events' = [events EXCEPT ![s] = Append(@, TokenEvent(i[s],
                     IF i[s] + 1 = MaxTokens[s] THEN "length" ELSE "none"))]
    BY <1>2, <2>5 DEF PassToken, Yield
  <2> QED
    BY <2>2, <2>3, <2>4, <2>6
       DEF Client!Token, Client!Receive, Client!TokenEvent, TokenEvent, Ended
<1>3. ASSUME NEW s \in Streams, PassEos(s) PROVE Client!Eos(s)
  <2>1. /\ pc[s] = "loop" /\ i[s] < MaxTokens[s] /\ i[s] = generated[s]
        /\ i[s] \in Nat /\ MaxTokens[s] \in Nat
    BY <1>1, <1>3, StreamAssumption
       DEF IInv, Typed, Suspended, PassEos, Forward, InLoop
  <2>2. Len(events[s]) = i[s]
    BY <2>1 DEF IInv, Sent
  <2>3. ~ Client!Finished(events[s])
    BY <2>1, FinishedWhen
  <2>4. s \notin Ended /\ Ended' = Ended
    BY <1>1, <1>3, <2>1 DEF Ended, Over, PassEos, Goto, Typed
  <2> QED
    BY <1>3, <2>2, <2>3, <2>4
       DEF PassEos, Yield, Client!Eos, Client!Receive, Client!EosEvent, EosEvent, Ended
<1>4. ASSUME NEW s \in Streams, Summary(s) PROVE Client!Done(s)
  <2>1. /\ pc[s] \in {"loop", "left"}
        /\ pc[s] = "left" \/ generated[s] = MaxTokens[s]
    BY <1>4 DEF Summary, IInv, Suspended
  <2>2. Client!Finished(events[s]) /\ Client!TokensIn(events[s]) = generated[s]
    BY <2>1, FinishedWhen, TokensCounted
  <2>3. s \notin Ended /\ Ended' = Ended \cup {s}
    BY <1>1, <1>4, <2>1 DEF Ended, Over, Summary, Goto, Typed
  <2> QED
    BY <1>4, <2>2, <2>3
       DEF Summary, Yield, Client!Done, Client!Receive, Client!DoneEvent, DoneEvent, Ended
<1>5. ASSUME NEW s \in Streams, Raise(s) \/ Disconnect(s) PROVE Client!Cut(s)
  <2>1. s \notin Ended /\ Ended' = Ended \cup {s} /\ events' = events
    BY <1>1, <1>5 DEF Ended, Over, Raise, InLoop, Disconnect, Goto, Typed
  <2> QED
    BY <2>1 DEF Client!Cut, Ended
<1>6. ASSUME NEW s \in Streams, Open(s) \/ AppendToken(s)
      PROVE  UNCHANGED <<events, Ended>>
  BY <1>1, <1>6 DEF Ended, Over, Open, AppendToken, Goto, Typed
<1>7. CASE UNCHANGED streamVars
  BY <1>7 DEF streamVars, Ended, Over
<1> QED
  BY <1>2, <1>3, <1>4, <1>5, <1>6, <1>7 DEF Next, Run, Client!Next

\* Each client sees what StreamProtocol allows, whatever the other streams do and
\* wherever a stream is cut.
THEOREM ImplementsProtocol == Spec => Protocol
PROOF
<1>1. Init => Client!Init
  BY DEF Init, Client!Init, Over
<1>2. IInv /\ [Next]_streamVars => [Client!Next]_<<events, Ended>>
  BY StepToClient
<1> QED
  BY <1>1, <1>2, Invariance, PTL DEF Spec, Protocol, Client!Spec, Ended

=============================================================================
