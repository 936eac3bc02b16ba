------------------------------ MODULE Sampling ------------------------------
(***************************************************************************)
(* Choosing one token: top-k filter, top-p filter, draw.  The same code    *)
(* stands in StreamingGenerator._sample (src/src/api/streaming.py) and in  *)
(* ContinuousBatchingEngine._sample_tokens (src/src/engine/batching.py).   *)
(*                                                                         *)
(* A token's weight stands for its probability at the request's            *)
(* temperature: only order and ratios matter to the filters, and the       *)
(* arithmetic is exact (rounding of the softmax is not modelled).          *)
(***************************************************************************)
EXTENDS Integers, Sequences, SequencesExt

CONSTANTS
  Vocab,       \* vocabulary size
  MaxWeight,   \* bound on weights, for model checking
  Scale        \* top_p counts in steps of 1/Scale

ASSUME SamplingAssumption ==
  Vocab \in Nat \ {0} /\ MaxWeight \in Nat \ {0} /\ Scale \in Nat \ {0}

VARIABLES
  weight, topK, topP, greedy,   \* logits and sampling parameters
  pc,                           \* where the function is
  kept,                         \* tokens whose logit is not -inf
  token                         \* the result

samplingVars == <<weight, topK, topP, greedy, pc, kept, token>>

Tokens  == 0 .. Vocab - 1
Mass(S) == MapThenSumSet(LAMBDA t : weight[t], S)

\* torch.sort: heaviest first, ties in any order.
Sorted(S) == {q \in SetToSeqs(S) : \A i \in 2 .. Len(q) : weight[q[i - 1]] >= weight[q[i]]}

Init ==
  /\ weight \in [Tokens -> 1 .. MaxWeight]
  /\ topK \in 0 .. Vocab + 1 /\ topP \in 0 .. Scale
  /\ greedy \in BOOLEAN
  /\ pc = "topk" /\ kept = Tokens /\ token = 0

Bug_AboveThreshold_Strict(q) == {t \in kept : weight[t] > weight[q[topK]]}

\* What is not below the topK-th heaviest value: ties with it all stay.
AboveThreshold(q) == {t \in kept : weight[t] >= weight[q[topK]]}

TopK ==
  /\ pc = "topk"
  /\ kept' = IF 0 < topK /\ topK < Vocab
             THEN AboveThreshold(CHOOSE q \in Sorted(kept) : TRUE)
             ELSE kept
  /\ pc' = "topp"
  /\ UNCHANGED <<weight, topK, topP, greedy, token>>

Bug_InNucleus_CountsItself(q) ==
  {q[i] : i \in {j \in DOMAIN q : Mass(Range(SubSeq(q, 1, j))) * Scale < topP * Mass(kept)}}

\* mask: a token stays while the mass in front of it has not reached top_p.
InNucleus(q) ==
  {q[i] : i \in {j \in DOMAIN q : Mass(Range(SubSeq(q, 1, j - 1))) * Scale < topP * Mass(kept)}}

TopP ==
  /\ pc = "topp"
  /\ kept' \in IF topP < Scale THEN {InNucleus(q) : q \in Sorted(kept)} ELSE {kept}
  /\ pc' = "draw"
  /\ UNCHANGED <<weight, topK, topP, greedy, token>>

Bug_Heaviest_Last(S) == {t \in S : \A u \in S : weight[t] <= weight[u]}

Heaviest(S) == {t \in S : \A u \in S : weight[t] >= weight[u]}

\* With nothing kept every probability is NaN: argmax returns index 0,
\* multinomial raises.
Draw ==
  /\ pc = "draw"
  /\ \/ /\ greedy /\ kept # {}
        /\ token' = Min(Heaviest(kept)) /\ pc' = "done"
     \/ /\ greedy /\ kept = {}
        /\ token' = 0 /\ pc' = "done"
     \/ /\ ~ greedy
        /\ token' \in kept /\ pc' = "done"
     \/ /\ ~ greedy /\ kept = {}
        /\ pc' = "raised" /\ UNCHANGED token
  /\ UNCHANGED <<weight, topK, topP, greedy, kept>>

Next == TopK \/ TopP \/ Draw

Spec == Init /\ [][Next]_samplingVars

-----------------------------------------------------------------------------
(* Properties                                                              *)

\* The tokens that fewer than topK tokens outweigh; 0 and sizes past the
\* vocabulary turn the filter off.
Candidates == {t \in Tokens : \/ topK = 0
                              \/ Cardinality({u \in Tokens : weight[u] > weight[t]}) < topK}

\* Top-k keeps exactly the tokens of rank topK or better, ties with the last
\* one included, although the code only compares with a threshold.
TopKExact == pc = "topp" => kept = Candidates

\* Top-p keeps a smallest set of heaviest candidates whose mass reaches top_p:
\* with the token that crosses the limit, without any token after it, however
\* equal logits are sorted.  Only top_p = 0 keeps nothing.
Nucleus ==
  pc \in {"draw", "done", "raised"} =>
    /\ kept \subseteq Candidates
    /\ \A t \in kept, u \in Candidates \ kept : weight[t] >= weight[u]
    /\ Mass(kept) * Scale >= topP * Mass(Candidates)
    /\ topP < Scale => \A t \in kept : Mass(kept \ {t}) * Scale < topP * Mass(Candidates)

\* A drawn token survived both filters, and greedy decoding returns a token that is
\* heaviest of all, whatever top_k and however small top_p; except that top_p = 0
\* leaves nothing to choose from: then greedy decoding returns token 0, whatever
\* the logits, and drawing raises.  Nothing else raises.
Drawn ==
  /\ pc = "done" /\ topP > 0 => token \in kept
  /\ pc = "done" /\ topP > 0 /\ greedy => token \in Heaviest(Tokens)
  /\ pc = "done" /\ topP = 0 => greedy /\ token = 0
  /\ pc = "raised" <=> pc \notin {"topk", "topp", "draw"} /\ topP = 0 /\ ~ greedy

=============================================================================
