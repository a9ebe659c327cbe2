----------------------------- MODULE MCSSTManager -----------------------------
(* Tables of one item and three items over two keys: a put that replaces, a   *)
(* put that finds its table full and rotates it, several puts that find the   *)
(* same table full, and a put whose new table is already full again.  Every   *)
(* full table holds an item that is in no other, so four tables are enough    *)
(* in a first run.                                                            *)
EXTENDS SSTManager, TLC

CONSTANTS i1, i2, i3, k1, k2

MCKeyOf == [x \in Items |-> IF x = i2 THEN k2 ELSE k1]

\* The callers are alike, and so are the two items of k1.
MCSymmetry == Permutations(Threads) \cup Permutations({i1, i3})
===============================================================================
