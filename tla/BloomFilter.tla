---------------------------- MODULE BloomFilter ----------------------------
(***************************************************************************)
(* tinybloom.c: a set of hash values as bits, with the code of buffer.c    *)
(* that saves a filter and reads it back.  The keys are what Murmur has    *)
(* been fed: a caller hashes a key piece by piece, adds the hash to a      *)
(* filter, and may go on to hash a longer key from there.  A bit array is  *)
(* the set of the numbers of its bits that are 1.                          *)
(***************************************************************************)
EXTENDS Murmur, Buffer

CONSTANTS Filters,       \* names of the filters a caller holds
          Sizes,         \* the sizes it asks for
          HashNumber(_), \* the arithmetic of PMurHash32_Result, any function to Nat
          MaxAdded,      \* bound: keys in one filter
          MaxSaved       \* bound: filters saved

(* The number of bits is saved by buffer_putint, which takes an int: no caller may *)
(* ask for more bits than an int counts, rounded up to words.                      *)
ASSUME FilterSizeAssumption == \A size \in Sizes : size \in 0..INT_MAX - 32
ASSUME HashNumberAssumption == \A l \in 0..MaxFed : HashNumber(AtOnce(l)) \in Nat

VARIABLES filter,        \* the bloom_filter of each name, NULL without one
          added,         \* history: the keys (lengths fed) each filter was given
          buf,           \* the buffer filters are saved in
          saved,         \* history: added of each filter in buf, first to last
          crashed        \* the process died of a division by zero or a freed filter

filterVars == <<filter, added, buf, saved, crashed>>

bloom_filter == [filter_size : Nat, num_buckets : Nat, bits : SUBSET Nat]
ASSUME NoFilterAssumption == NULL \notin bloom_filter

(* size % sizeof(unsigned) * 8 is (size % 4) * 8. *)
create_bfilter(size) ==
  LET words == size \div 32 + (IF (size % 4) * 8 # 0 THEN 1 ELSE 0)
  IN [filter_size |-> words, num_buckets |-> words * 32, bits |-> {}]

SETBIT(f, b) == [f EXCEPT !.bits = @ \cup {b}]
GETBIT(f, b) == b \in f.bits
bfilter_add(f, input) == SETBIT(f, input % f.num_buckets)
bfilter_check(f, input) == GETBIT(f, input % f.num_buckets)

(* The words of a filter as bytes: bit b of the array is bit b % 8 of byte b \div 8. *)
WordBytes(f) ==
  [i \in 1..4 * f.filter_size |->
     LET In(k) == IF 8 * (i - 1) + k \in f.bits THEN 2 ^ k ELSE 0
     IN In(0) + In(1) + In(2) + In(3) + In(4) + In(5) + In(6) + In(7)]

buffer_putfilter(b, f) ==
  LET l == f.filter_size * 4 + 8
      b0 == IF l > b.buflen THEN buffer_extendby(b, l + EXTEND) ELSE b
  IN buffer_putnstr(buffer_putint(buffer_putint(b0, f.filter_size), f.num_buckets), WordBytes(f))

buffer_getfilter(b) ==
  LET size == buffer_getint(b)
      bytes == buffer_getnstr(Skip(b, 8), 4 * size)
  IN [filter_size |-> size, num_buckets |-> buffer_getint(Skip(b, 4)),
      bits |-> {x \in 0..32 * size - 1 : (bytes[x \div 8 + 1] \div 2 ^ (x % 8)) % 2 = 1}]

FilterInit ==
  /\ HashInit
  /\ filter = [f \in Filters |-> NULL] /\ added = [f \in Filters |-> {}]
  /\ buf = buffer_new(0) /\ saved = <<>> /\ crashed = FALSE

Create(f, size) ==
  /\ filter[f] = NULL
  /\ filter' = [filter EXCEPT ![f] = create_bfilter(size)]
  /\ UNCHANGED <<added, buf, saved, crashed>>

(* A filter without buckets: the remainder by 0 ends the process. *)
Add(f) ==
  /\ filter[f] # NULL /\ Cardinality(added[f]) < MaxAdded
  /\ IF filter[f].num_buckets = 0
     THEN crashed' = TRUE /\ UNCHANGED <<filter, added>>
     ELSE /\ filter' = [filter EXCEPT ![f] = bfilter_add(@, HashNumber(PMurHash32_Result(ptr)))]
          /\ added' = [added EXCEPT ![f] = @ \cup {ptr}]
          /\ UNCHANGED crashed
  /\ UNCHANGED <<buf, saved>>

(* Mutant of Intersect: the intersection of the bits. *)
IntersectAnd(f, g) ==
  /\ f # g /\ filter[f] # NULL /\ filter[g] # NULL
  /\ filter[f].filter_size = filter[g].filter_size
  /\ filter' = [filter EXCEPT ![f].bits = @ \cap filter[g].bits]
  /\ added' = [added EXCEPT ![f] = @ \cup added[g]]
  /\ UNCHANGED <<buf, saved, crashed>>

(* The "intersection" is the union; filters of different sizes are left alone. *)
Intersect(f, g) ==
  /\ f # g /\ filter[f] # NULL /\ filter[g] # NULL
  /\ filter[f].filter_size = filter[g].filter_size
  /\ filter' = [filter EXCEPT ![f].bits = @ \cup filter[g].bits]
  /\ added' = [added EXCEPT ![f] = @ \cup added[g]]
  /\ UNCHANGED <<buf, saved, crashed>>

(* Bound: MaxSaved filters, saved before the first is read. *)
Save(f) ==
  /\ filter[f] # NULL /\ buf.SEEK = 0 /\ Len(saved) < MaxSaved
  /\ buf' = buffer_putfilter(buf, filter[f])
  /\ saved' = Append(saved, added[f])
  /\ UNCHANGED <<filter, added, crashed>>

Load(f) ==
  /\ filter[f] = NULL /\ buf.SEEK < buf.NUL
  /\ filter' = [filter EXCEPT ![f] = buffer_getfilter(buf)]
  /\ buf' = Skip(buf, 8 + 4 * buffer_getint(buf))
  /\ added' = [added EXCEPT ![f] = saved[1]] /\ saved' = Tail(saved)
  /\ UNCHANGED crashed

(* destroy_bfilter writes to the filter it has just freed, which goes well or not. *)
Destroy(f) ==
  /\ filter[f] # NULL
  /\ crashed' \in BOOLEAN
  /\ filter' = [filter EXCEPT ![f] = NULL] /\ added' = [added EXCEPT ![f] = {}]
  /\ UNCHANGED <<buf, saved>>

FilterStep ==
  \E f \in Filters :
    \/ \E size \in Sizes : Create(f, size)
    \/ Add(f)
    \/ \E g \in Filters : Intersect(f, g)
    \/ Save(f)
    \/ Load(f)
    \/ Destroy(f)

FilterNext ==
  /\ ~crashed
  /\ \/ HashStep /\ UNCHANGED filterVars
     \/ pc = "idle" /\ FilterStep /\ UNCHANGED hashVars

FilterSpec == FilterInit /\ [][FilterNext]_<<hashVars, filterVars>>

-----------------------------------------------------------------------------
(***************************************************************************)
(* No false negative: a key that was added is found by its hash computed   *)
(* at once, in whatever pieces it was hashed for the add, and through      *)
(* merges, saves and loads (tinybloom.h:40, "may return a false positive").*)
(***************************************************************************)
KeysAreFound ==
  \A f \in Filters : filter[f] # NULL =>
    \A l \in added[f] : bfilter_check(filter[f], HashNumber(AtOnce(l)))
=============================================================================
