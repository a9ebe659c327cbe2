--------------------------- MODULE MCBloomFilter ---------------------------
(* Two filters, keys of up to MaxFed bytes, one size that gives no word   *)
(* and one that gives two, and a hash that mixes what it was computed from.*)
EXTENDS BloomFilter, Functions, TLC

CONSTANTS f1, f2

Mix(seq) == FoldFunctionOnSet(LAMBDA x, acc : x + acc, 0,
              [i \in DOMAIN seq |-> IF seq[i] = NoByte THEN 0 ELSE i * i * seq[i]], DOMAIN seq)

MCHashNumber(r) ==
  Mix([i \in DOMAIN r.blocks |-> Mix(r.blocks[i])]) * 7 + Mix(r.tail) * 5 + r.length
MCSymmetry == Permutations(Filters)
MCHash == [k \in {} |-> 0]
=============================================================================
