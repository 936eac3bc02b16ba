------------------------------ MODULE MC_Server ------------------------------
(* Two requests of two tokens, one whose prompt fits no cache, one that      *)
(* makes the forward pass raise (top_p = 0) and a stream; any other pass may *)
(* raise as well.  With one slot the request that raises keeps it for ever,  *)
(* with three a later request may evict it; those that failed with it are    *)
(* then completed in the call of another client.  A queue of two lets so     *)
(* many be left behind that the loop meets its limit with work to do.        *)
EXTENDS Server

CONSTANTS r1, r2, r3, r4, r5

AllRequests  == {r1, r2, r3, r4, r5}
SamePriority == [r \in AllRequests |-> 0]
Prompts == [r \in AllRequests |-> CASE r = r2 -> 3 [] r = r4 -> 7 [] OTHER -> 1]
Limits  == [r \in AllRequests |-> IF r \in {r2, r3} THEN 2 ELSE 1]
OneUnsampleable == {r1}
OneStream == {r5}
=============================================================================
