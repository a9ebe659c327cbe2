-------------------------------- MODULE Data --------------------------------
(***************************************************************************)
(* common.c: the item a table stores (data_t) and the orders on items.     *)
(* A key and a value are sequences of bytes, a version is the eight bytes  *)
(* of a 64-bit number, the lowest first.                                   *)
(***************************************************************************)
EXTENDS Integers, Sequences, FiniteSetsExt

CONSTANTS NULL,
          Keys, Values,  \* the byte strings in use, none with a byte 0
          Hash           \* PMurHash32 of a key, any function

Byte == 0..255
ASSUME StringAssumption == \A s \in Keys \cup Values : s \in Seq(Byte \ {0})
ASSUME HashAssumption == Hash \in [Keys -> Nat]
ASSUME NullAssumption == NULL \notin Keys

data_t == [key : Keys, value : Values, type : {"s", "d"}, version : [1..8 -> Byte], hash_value : Nat]

(* now is the time in seconds that the call reads from the clock *)
create_data(key, value, type, now) ==
  [key |-> key, value |-> value, type |-> type, version |-> now, hash_value |-> Hash[key]]

(* memcmp over the shorter length (-1, 0 or 1 in the C runtime of the      *)
(* project files), then the lengths.                                       *)
CmpKey(key1, key2) ==
  LET differ == {i \in 1..Min({Len(key1), Len(key2)}) : key1[i] # key2[i]}
      at == Min(differ)
      Order(x, y) == IF x < y THEN -1 ELSE IF x > y THEN 1 ELSE 0
  IN IF differ = {} THEN Order(Len(key1), Len(key2)) ELSE Order(key1[at], key2[at])

(* First the hash, then the key.  Comparator takes two items; ComparatorB, *)
(* with strlen for the lengths, hashes and keys; ComparatorC pointers, of  *)
(* which NULL is the greatest.                                             *)
ComparatorB(hash1, key1, hash2, key2) ==
  IF hash1 > hash2 THEN 1 ELSE IF hash1 = hash2 THEN CmpKey(key1, key2) ELSE -1

Comparator(first, second) == ComparatorB(first.hash_value, first.key, second.hash_value, second.key)

ComparatorC(first, second) ==
  CASE first = NULL /\ second = NULL -> 0
    [] first = NULL /\ second # NULL -> 1
    [] first # NULL /\ second = NULL -> -1
    [] OTHER -> Comparator(first, second)

(* a > b for two versions *)
Newer(a, b) ==
  LET differ == {i \in 1..8 : a[i] # b[i]}
  IN differ # {} /\ a[Max(differ)] > b[Max(differ)]
=============================================================================
