---------------------------- MODULE MCHashTable ----------------------------
(* Instances of HashTable for TLC.                                         *)
EXTENDS HashTable, TLC

CONSTANTS k1, k2, k3, k4, k5

(* All keys in one place, at the last bucket of the first array (so that   *)
(* the probes wrap round), and a spread in which growing the table sends   *)
(* two colliding keys to different halves.                                 *)
Collide == [k \in Keys |-> 4]
Spread == [k \in Keys |-> CASE k = k1 -> 4 [] k = k2 -> 9 [] k = k3 -> 4 [] k = k4 -> 5 [] OTHER -> 3]
MCHashFunctions == {Collide, Spread}
MCSpread == {Spread}
=============================================================================
