------------------------- MODULE MC_BatchingEngine -------------------------
(***************************************************************************)
(* BatchingEngine for TLC: three requests whose prompts take one, two and  *)
(* three blocks.                                                           *)
(***************************************************************************)
EXTENDS BatchingEngine

CONSTANTS r1, r2, r3

ThreeRequests == {r1, r2, r3}
SamePriority  == [r \in ThreeRequests |-> 1]
Prompts == [r \in ThreeRequests |-> CASE r = r1 -> 1 [] r = r2 -> 3 [] r = r3 -> 5]
Limits  == [r \in ThreeRequests |-> IF r = r2 THEN 3 ELSE 2]
OneUnsampleable == {r1}

=============================================================================
