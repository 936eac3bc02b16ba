---------------------------- MODULE MC_Streaming ----------------------------
(* Three streams: one within the positions of the model, one that outgrows   *)
(* them, one whose sampler raises.                                           *)
EXTENDS Streaming

CONSTANTS short, long, empty

ThreeStreams == {short, long, empty}
Prompts == [s \in ThreeStreams |-> IF s = long THEN 3 ELSE 1]
Limits  == [s \in ThreeStreams |-> IF s = empty THEN 1 ELSE 3]
OneUnsampleable == {empty}
=============================================================================
