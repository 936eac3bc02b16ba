----------------------------- MODULE BlockPool -----------------------------
(***************************************************************************)
(* What a pool of KV blocks promises, without block order, slots, counts   *)
(* or eviction policy: a sequence gets blocks nobody has, keeps them until *)
(* it gives all of them back at once, and other sequences never notice.    *)
(* Blocks of a table that is overwritten are lost.  CacheManager           *)
(* implements it.                                                          *)
(***************************************************************************)
CONSTANTS Blocks, SeqIds

VARIABLES
  free,   \* blocks nobody has
  held,   \* sequence -> its blocks
  lost    \* blocks nobody can give back

Init == free = Blocks /\ held = [s \in {} |-> {}] /\ lost = {}

\* Blocks B of the pool go to s, which had the blocks `before`.
Take(s, B, before) ==
  /\ B \subseteq free
  /\ free' = free \ B
  /\ held' = [t \in DOMAIN held \cup {s} |-> IF t = s THEN before \cup B ELSE held[t]]

\* A sequence starts afresh; what it held before is lost.
Allocate(s, B) ==
  /\ Take(s, B, {})
  /\ lost' = lost \cup (IF s \in DOMAIN held THEN held[s] ELSE {})

Extend(s, B) == s \in DOMAIN held /\ Take(s, B, held[s]) /\ UNCHANGED lost

GiveBack(s) ==
  /\ s \in DOMAIN held
  /\ free' = free \cup held[s]
  /\ held' = [t \in DOMAIN held \ {s} |-> held[t]]
  /\ UNCHANGED lost

Next == \E s \in SeqIds : \/ GiveBack(s)
                          \/ \E B \in SUBSET free : Allocate(s, B) \/ Extend(s, B)

Spec == Init /\ [][Next]_<<free, held, lost>>

=============================================================================
