---------------------------- MODULE MCCompaction ----------------------------
(* Three tables of up to five keys over three buckets; keys a and b have   *)
(* one hash.  The contents are the cases of hashtable_nextdata: chains of  *)
(* two, an empty bucket behind the first one and between, a bucket that is *)
(* passed over, an item alone in the last bucket, and items that come      *)
(* twice.  New tables take two items.                                      *)
EXTENDS Compaction

a == <<1>>  b == <<1, 1>>  c == <<2>>  d == <<3>>  e == <<4>>
MCKeys == {a, b, c, d, e}
MCHash == [k \in MCKeys |-> CASE k \in {a, b} -> 3 [] k = c -> 1 [] k = d -> 4 [] k = e -> 2]
MCValues == {<<7>>}
Old == <<1, 1, 0, 0, 0, 0, 0, 0>>
New == <<1, 2, 0, 0, 0, 0, 0, 0>>
Odd == <<200, 1, 0, 0, 0, 0, 0, 0>>
Of(keys, now) == {create_data(k, <<7>>, "s", now) : k \in keys}
MCContents ==
  {{}, Of({a}, Old), Of({b}, New), Of({a, b}, New), Of({e}, Old), Of({a, b, e}, Old),
   Of({a}, New) \cup Of({b, e}, Old), Of({a, c, d, e}, Old), Of({c, d}, New), Of({c, e}, Odd),
   Of({a, b}, Odd)}
=============================================================================
