----------------------------- MODULE MC_Sampling -----------------------------
(* Sampling over four tokens of weight 1 to 3, with top_p in quarters.       *)
EXTENDS Sampling
=============================================================================
