----------------------------- MODULE MCHashTable -----------------------------
(* Two callers, three items over two colliding keys and one key of its own  *)
(* bucket: enough for an insert, a replacement at the head and one behind   *)
(* it, two puts of one key, and (Max = 2) the put that finds the table full. *)
EXTENDS HashTable

CONSTANTS k1, k2, k3

MCHash == [k \in Keys |-> IF k = k3 THEN 1 ELSE 0]
===============================================================================
