--------------------------- MODULE MCSortedTable ---------------------------
(* Three keys: two share a hash and one of these is the beginning of the   *)
(* other.  A small buffer, so that it grows inside an item and is emptied  *)
(* between two.  One version with a byte above 127 below its last one.     *)
EXTENDS SortedTable

MCKeys == {<<1>>, <<1, 1>>, <<2>>}
MCValues == {<<5>>, <<200, 5, 6>>}
MCHash == [k \in MCKeys |-> IF k = <<2>> THEN 3 ELSE 8]
MCTimes == {<<1, 2, 0, 0, 0, 0, 0, 0>>, <<1, 200, 3, 0, 0, 0, 0, 0>>}
=============================================================================
