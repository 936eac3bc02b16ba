--------------------------- MODULE StreamProtocol ---------------------------
(***************************************************************************)
(* What a client of a streamed generation may count on: tokens numbered    *)
(* from 0, then one event with a finish reason, then one summary with the  *)
(* number of tokens; a cut stream is a prefix of that.  Streams do not     *)
(* affect each other.  Streaming implements it.                            *)
(***************************************************************************)
EXTENDS Integers, Sequences, FiniteSets, SequencesExt

CONSTANTS Streams, MaxTokens

VARIABLES
  log,    \* events each client has received
  over    \* streams that have ended, complete or cut

TokenEvent(n, reason) == [index |-> n, token |-> TRUE, finish |-> reason]
EosEvent(n)           == [index |-> n, token |-> FALSE, finish |-> "eos"]
DoneEvent(n)          == [generated |-> n]

IsToken(event)   == "token" \in DOMAIN event /\ event.token
TokensIn(events) == Cardinality({n \in DOMAIN events : IsToken(events[n])})
Finished(events) == events # <<>> /\ Last(events).finish # "none"

Receive(s, event) == log' = [log EXCEPT ![s] = Append(@, event)]

Init == log = [s \in Streams |-> <<>>] /\ over = {}

Token(s) ==
  LET n == Len(log[s])
  IN  /\ s \notin over /\ ~ Finished(log[s])
      /\ Receive(s, TokenEvent(n, IF n + 1 = MaxTokens[s] THEN "length" ELSE "none"))
      /\ UNCHANGED over

Eos(s) ==
  /\ s \notin over /\ ~ Finished(log[s])
  /\ Receive(s, EosEvent(Len(log[s])))
  /\ UNCHANGED over

Done(s) ==
  /\ s \notin over /\ Finished(log[s])
  /\ Receive(s, DoneEvent(TokensIn(log[s])))
  /\ over' = over \cup {s}

Cut(s) ==
  /\ s \notin over
  /\ over' = over \cup {s}
  /\ UNCHANGED log

Next == \E s \in Streams : Token(s) \/ Eos(s) \/ Done(s) \/ Cut(s)

Spec == Init /\ [][Next]_<<log, over>>

=============================================================================
