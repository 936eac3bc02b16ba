------------------------------ MODULE Streaming ------------------------------
(***************************************************************************)
(* StreamingGenerator.generate_stream of src/src/api/streaming.py: the     *)
(* async generators of several clients on one event loop.  An action runs  *)
(* from one suspension point (yield, await) to the next, where other       *)
(* streams run and where the client may go away.                           *)
(***************************************************************************)
EXTENDS Integers, Sequences, FiniteSets, SequencesExt

CONSTANTS
  Streams,
  PromptTokens,   \* tokens of each prompt, after truncation
  MaxTokens,      \* max_tokens of each request
  MaxPositions,   \* positions the model has embeddings for
  Unsampleable    \* streams whose top_p leaves no token to sample

ASSUME StreamAssumption ==
  /\ PromptTokens \in [Streams -> Nat \ {0}]
  /\ MaxTokens \in [Streams -> Nat \ {0}]
  /\ MaxPositions \in Nat
  /\ Unsampleable \subseteq Streams

VARIABLES
  pc,         \* where each generator is suspended
  i,          \* the loop variable
  inputLen,   \* length of input_ids
  cacheLen,   \* tokens in past_key_values, 0 for None
  generated,  \* generated_count
  events      \* events yielded, in order

loopVars   == <<i, inputLen, cacheLen, generated>>
streamVars == <<pc, loopVars, events>>

TokenEvent(n, reason) == [index |-> n, token |-> TRUE, finish |-> reason]
EosEvent(n)           == [index |-> n, token |-> FALSE, finish |-> "eos"]
DoneEvent(n)          == [generated |-> n]

Goto(s, place)  == pc' = [pc EXCEPT ![s] = place]
Yield(s, event) == events' = [events EXCEPT ![s] = Append(@, event)]

Init ==
  /\ pc = [s \in Streams |-> "new"]
  /\ i = [s \in Streams |-> 0]
  /\ inputLen = PromptTokens
  /\ cacheLen = [s \in Streams |-> 0]
  /\ generated = [s \in Streams |-> 0]
  /\ events = [s \in Streams |-> <<>>]

\* The response starts to be sent: the generator is entered.
Open(s) ==
  /\ pc[s] = "new" /\ Goto(s, "loop")
  /\ UNCHANGED <<loopVars, events>>

Bug_Fed_WholeInput(s) == inputLen[s]

\* Tokens of this pass: the prompt without a cache, the last token with one.
Fed(s) == IF cacheLen[s] = 0 THEN inputLen[s] ELSE 1

InLoop(s) == pc[s] = "loop" /\ i[s] < MaxTokens[s]

PassRaises(s) == cacheLen[s] + Fed(s) > MaxPositions \/ s \in Unsampleable

Forward(s) ==
  /\ InLoop(s) /\ ~ PassRaises(s)
  /\ cacheLen' = [cacheLen EXCEPT ![s] = @ + Fed(s)]

\* A token is sampled and sent.
PassToken(s) ==
  /\ Forward(s)
  /\ generated' = [generated EXCEPT ![s] = @ + 1]
  /\ Yield(s, TokenEvent(i[s], IF i[s] = MaxTokens[s] - 1 THEN "length" ELSE "none"))
  /\ Goto(s, "yielded")
  /\ UNCHANGED <<i, inputLen>>

Bug_PassEos_GoesOn(s) ==
  /\ Forward(s)
  /\ Yield(s, EosEvent(i[s]))
  /\ Goto(s, "yielded")
  /\ UNCHANGED <<i, inputLen, generated>>

\* EOS is sampled: an event without text, and the loop is left.
PassEos(s) ==
  /\ Forward(s)
  /\ Yield(s, EosEvent(i[s]))
  /\ Goto(s, "left")
  /\ UNCHANGED <<i, inputLen, generated>>

\* The model or the sampler raises: the response breaks off.
Raise(s) ==
  /\ InLoop(s) /\ PassRaises(s)
  /\ Goto(s, "broken")
  /\ UNCHANGED <<loopVars, events>>

Bug_AppendToken_NoCount(s) ==
  /\ pc[s] = "yielded"
  /\ inputLen' = [inputLen EXCEPT ![s] = @ + 1]
  /\ Goto(s, "loop")
  /\ UNCHANGED <<i, cacheLen, generated, events>>

\* After the yield the token joins the input; then sleep(0).
AppendToken(s) ==
  /\ pc[s] = "yielded"
  /\ inputLen' = [inputLen EXCEPT ![s] = @ + 1]
  /\ i' = [i EXCEPT ![s] = @ + 1]
  /\ Goto(s, "loop")
  /\ UNCHANGED <<cacheLen, generated, events>>

Bug_Summary_AtLimitOnly(s) ==
  /\ pc[s] = "loop" /\ i[s] = MaxTokens[s]
  /\ Yield(s, DoneEvent(generated[s]))
  /\ Goto(s, "closed")
  /\ UNCHANGED loopVars

\* The summary, after the last token or after EOS.
Summary(s) ==
  /\ pc[s] = "left" \/ (pc[s] = "loop" /\ i[s] = MaxTokens[s])
  /\ Yield(s, DoneEvent(generated[s]))
  /\ Goto(s, "closed")
  /\ UNCHANGED loopVars

\* The client goes away: the generator is closed where it is suspended.
Disconnect(s) ==
  /\ pc[s] \in {"loop", "yielded", "left"}
  /\ Goto(s, "broken")
  /\ UNCHANGED <<loopVars, events>>

Run(s) == PassToken(s) \/ PassEos(s) \/ Raise(s) \/ AppendToken(s) \/ Summary(s)

Next == \E s \in Streams : Open(s) \/ Run(s) \/ Disconnect(s)

\* The event loop resumes every suspended generator in its turn.
Spec == Init /\ [][Next]_streamVars /\ \A s \in Streams : WF_streamVars(Run(s))

-----------------------------------------------------------------------------
(* Properties                                                              *)

Over(s) == pc[s] \in {"closed", "broken"}

\* Every variable has its type, and no stream sends more tokens than asked for.
TypeOK ==
  /\ pc \in [Streams -> {"new", "loop", "yielded", "left", "closed", "broken"}]
  /\ i \in [Streams -> Nat] /\ inputLen \in [Streams -> Nat]
  /\ cacheLen \in [Streams -> 0 .. MaxPositions]
  /\ \A s \in Streams : generated[s] \in 0 .. MaxTokens[s] /\ i[s] <= MaxTokens[s]

\* The KV cache and the input stay one token apart across suspensions, so that
\* feeding the last token alone continues the text: before each pass the cache
\* holds all of the input but its last token, or nothing.
CacheAligned ==
  \A s \in Streams : InLoop(s) =>
    /\ inputLen[s] = PromptTokens[s] + generated[s]
    /\ cacheLen[s] + Fed(s) = inputLen[s]

\* Each client sees the events StreamProtocol allows, whatever the other streams
\* do and wherever a stream is cut: indexes without gaps, one finish reason, at
\* the limit or on EOS, then one summary whose count is the number of tokens.
Client == INSTANCE StreamProtocol WITH
            log <- events, over <- {s \in Streams : Over(s)}
Protocol == Client!Spec

\* A stream that was opened ends, with its summary or cut, if its client goes on
\* reading or closes.
EveryStreamEnds == \A s \in Streams : (pc[s] = "loop") ~> Over(s)

=============================================================================
