------------------------ MODULE MC_RequestScheduler ------------------------
(***************************************************************************)
(* RequestScheduler for TLC: three requests, one of a higher priority than *)
(* the other two, in a queue with room for two.                            *)
(***************************************************************************)
EXTENDS RequestScheduler

CONSTANTS r1, r2, r3

ThreeRequests == {r1, r2, r3}
MixedPriority == [r \in ThreeRequests |-> IF r = r3 THEN 0 ELSE 1]

=============================================================================
