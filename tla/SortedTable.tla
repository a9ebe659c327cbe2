---------------------------- MODULE SortedTable ----------------------------
(***************************************************************************)
(* sstdata.c: a table kept as one array sorted by hash and key, searched   *)
(* by halving, written to a file and read back.  One thread uses it, in    *)
(* the order sst.c prescribes for a table's store: build, put and get,     *)
(* write; or, for the output of a compaction, build, write the head, put   *)
(* item by item into the file, write the head again; later open and get.   *)
(* A crash may end the process between any two steps.                      *)
(*                                                                         *)
(* keys holds the key_num pointers in use; a pointer nobody has set is     *)
(* Uninit, and to follow it ends in phase "fault": nothing is known then.  *)
(***************************************************************************)
EXTENDS Buffer, SequencesExt

CONSTANTS Uninit,     \* an uninitialised pointer
          Id, MAX,    \* the table's number and capacity, 1024*64
          RESERVE,    \* bytes sstdata_new reserves for the buffer, 1024*2
          FLUSH_AT,   \* bytes after which writedata empties the buffer, 8192
          Times       \* bound: the versions in use

ASSUME UninitAssumption == Uninit # NULL /\ Uninit \notin data_t
ASSUME NullItemAssumption == NULL \notin data_t
ASSUME TimesAssumption == Times \subseteq [1..8 -> Byte]
\* what buffer_putint writes is an int: the head, and the lengths of an item
ASSUME IntAssumption ==
  /\ Id \in 0..INT_MAX /\ MAX \in 0..INT_MAX /\ RESERVE \in Nat /\ FLUSH_AT \in Nat
  /\ \A k \in Keys, v \in Values : Len(k) + Len(v) <= INT_MAX

VARIABLES keys, key_num, max, bigest_key, smallest_key, buf,
          file,       \* the bytes of the file
          phase,      \* one of Phases
          given,      \* history: the items put, in order
          written,    \* history: the items written to the file, in order
          complete    \* history: the file was written to its end

vars == <<keys, key_num, max, bigest_key, smallest_key, buf, file, phase, given, written, complete>>

Phases == {"new", "building", "headed", "flushed", "compact", "compacted",
           "closed", "reading", "sorted", "fault"}
Items == {create_data(k, v, t, now) : k \in Keys, v \in Values, t \in {"s", "d"}, now \in Times}

(* sstdata_new *)
New ==
  /\ keys = <<>> /\ key_num = -1 /\ max = MAX
  /\ bigest_key = NULL /\ smallest_key = NULL
  /\ buf = buffer_new(RESERVE)

Init ==
  /\ New /\ file = <<>> /\ phase = "new"
  /\ given = <<>> /\ written = <<>> /\ complete = FALSE

(* The process dies, or goes on with garbage. *)
Fault ==
  /\ phase' = "fault"
  /\ UNCHANGED <<keys, key_num, max, bigest_key, smallest_key, buf, file, given, written, complete>>

-----------------------------------------------------------------------------
(* Writing *)

(* The head is written over the first 12 bytes. *)
sstdata_writehead ==
  LET b == buffer_putint(buffer_putint(buffer_putint(buffer_clear(buf), Id), key_num), max)
  IN /\ file' = Written(b) \o SubSeq(file, 13, Len(file))
     /\ buf' = buffer_clear(buffer_detach(b))

Build ==
  /\ phase = "new" /\ phase' = "building"
  /\ file' = <<>> /\ key_num' = 0
  /\ UNCHANGED <<keys, max, bigest_key, smallest_key, buf, given, written, complete>>

(* The output of a compaction gets a head at once. *)
BuildCompact ==
  /\ phase = "building" /\ given = <<>> /\ file = <<>>
  /\ sstdata_writehead /\ phase' = "compact"
  /\ UNCHANGED <<keys, key_num, max, bigest_key, smallest_key, given, written, complete>>

(* The halving loop of _sstdata_binaryinsert: 0-based bounds, and the last *)
(* middle.  Ends with the place of an equal key, of an unset pointer, or   *)
(* with none.                                                              *)
Place(data) ==
  LET f[w \in (0..key_num) \X (-1..key_num-1) \X (-1..key_num-1)] ==
        LET left == w[1]
            right == w[2]
            middle == (left + right) \div 2
            k == keys[middle + 1]
        IN IF left > right THEN [middle |-> w[3], how |-> "none"]
           ELSE IF k = Uninit THEN [middle |-> middle, how |-> "unset"]
           ELSE CASE Comparator(k, data) = 1 -> f[<<left, middle - 1, middle>>]
                  [] Comparator(k, data) = -1 -> f[<<middle + 1, right, middle>>]
                  [] OTHER -> [middle |-> middle, how |-> "equal"]
  IN f[<<0, key_num - 1, -1>>]

(* Mutant of _sstdata_binaryinsert: the item goes behind the last middle. *)
InsertBehind(data) ==
  LET at == Place(data)
  IN IF key_num = 0 THEN <<data>>
     ELSE IF at.how = "equal" THEN Append([keys EXCEPT ![at.middle + 1] = data], Uninit)
     ELSE InsertAt(keys, at.middle + 2, data)

(* Mutant of _sstdata_binaryinsert: the item of a key that exists stays.   *)
InsertNewOnly(data) ==
  LET at == Place(data)
      i == IF Comparator(keys[at.middle + 1], data) > 0 THEN at.middle ELSE at.middle + 1
  IN IF key_num = 0 THEN <<data>>
     ELSE IF at.how = "equal" THEN Append(keys, Uninit) ELSE InsertAt(keys, i + 1, data)

(* keys after the insert, which the caller then counts as one more: after  *)
(* a replacement the pointer behind the last one is counted too.           *)
_sstdata_binaryinsert(data) ==
  LET at == Place(data)
      i == IF Comparator(keys[at.middle + 1], data) > 0 THEN at.middle ELSE at.middle + 1
  IN IF key_num = 0 THEN <<data>>
     ELSE IF at.how = "equal" THEN Append([keys EXCEPT ![at.middle + 1] = data], Uninit)
     ELSE InsertAt(keys, i + 1, data)

Put(data) ==
  /\ phase = "building"
  /\ max > key_num
  /\ IF key_num > 0 /\ Place(data).how = "unset" THEN Fault
     ELSE /\ keys' = _sstdata_binaryinsert(data)
          /\ key_num' = key_num + 1
          /\ bigest_key' = Last(keys') /\ smallest_key' = Head(keys')
          /\ given' = Append(given, data)
          /\ UNCHANGED <<max, buf, file, phase, written, complete>>

(* sstdata_compactput: the item goes straight to the file. *)
CompactPut(data) ==
  /\ phase = "compact" /\ max > key_num
  /\ LET b == buffer_putdata(buffer_clear(buf), data)
     IN file' = file \o Written(b) /\ buf' = buffer_detach(b)
  /\ key_num' = key_num + 1
  /\ given' = Append(given, data) /\ written' = Append(written, data)
  /\ UNCHANGED <<keys, max, bigest_key, smallest_key, phase, complete>>

CompactEnd ==
  /\ phase = "compact" /\ phase' = "compacted"
  /\ sstdata_writehead /\ complete' = TRUE
  /\ UNCHANGED <<keys, key_num, max, bigest_key, smallest_key, given, written>>

(* The two halves of sstdata_flush. *)
WriteHead ==
  /\ phase = "building" /\ phase' = "headed"
  /\ sstdata_writehead
  /\ UNCHANGED <<keys, key_num, max, bigest_key, smallest_key, given, written, complete>>

(* Mutant of WrittenData: the buffer is not emptied. *)
WrittenTwice ==
  FoldLeft(LAMBDA w, data :
             LET b == buffer_putdata(w.buf, data)
             IN IF b.NUL > FLUSH_AT THEN [out |-> w.out \o Written(b), buf |-> b]
                ELSE [w EXCEPT !.buf = b],
           [out |-> <<>>, buf |-> buf], keys)

(* The items one after the other through the buffer, which is emptied into *)
(* the file whenever it is long enough and at the end.                     *)
WrittenData ==
  FoldLeft(LAMBDA w, data :
             LET b == buffer_putdata(w.buf, data)
             IN IF b.NUL > FLUSH_AT
                THEN [out |-> w.out \o Written(b), buf |-> buffer_clear(buffer_detach(b))]
                ELSE [w EXCEPT !.buf = b],
           [out |-> <<>>, buf |-> buf], keys)

WriteData ==
  /\ phase = "headed"
  /\ IF Uninit \in ToSet(keys) THEN Fault
     ELSE /\ file' = file \o WrittenData.out \o Written(WrittenData.buf)
          /\ buf' = buffer_detach(WrittenData.buf)
          /\ phase' = "flushed" /\ written' = keys /\ complete' = TRUE
          /\ UNCHANGED <<keys, key_num, max, bigest_key, smallest_key, given>>

-----------------------------------------------------------------------------
(* The end of a process: sstdata_relasedata and sstdata_free, or a crash. *)

Forget ==
  /\ phase' = "closed"
  /\ keys' = <<>> /\ key_num' = -1 /\ max' = MAX
  /\ bigest_key' = NULL /\ smallest_key' = NULL /\ buf' = buffer_new(RESERVE)
  /\ UNCHANGED <<file, given, written, complete>>

Close ==
  /\ phase \in {"building", "flushed", "compacted", "reading", "sorted"}
  /\ IF Uninit \in ToSet(keys) THEN Fault ELSE Forget

Crash == phase \in {"building", "headed", "flushed", "compact"} /\ Forget

-----------------------------------------------------------------------------
(* Reading *)

(* One more item, at SEEK; short where the bytes run out. *)
ReadNext(r) ==
  LET left == Len(r.buf.buf) - r.buf.SEEK
      d == buffer_getdata(r.buf)
  IN IF r.short \/ left < 21 \/ left < 21 + buffer_getint(r.buf)
     THEN [r EXCEPT !.short = TRUE]
     ELSE [buf |-> Skip(r.buf, DataBytes(d)), items |-> Append(r.items, d), short |-> FALSE]

ReadItems(b, n) ==
  LET f[i \in 0..n] ==
        IF i = 0 THEN [buf |-> b, items |-> <<>>, short |-> FALSE] ELSE ReadNext(f[i - 1])
  IN f[n]

(* sstdata_open.  A file that is shorter than its head is an empty table;  *)
(* one that ends before its last item is read on in stale memory.          *)
Open ==
  /\ phase = "closed"
  /\ LET head == Filled(buf, SubSeq(file, 1, 12))
         n == buffer_getint(Skip(head, 4))
         size == Len(file) - 12
         b0 == IF size > buf.buflen THEN buffer_new(size) ELSE buf
         data == Filled(buffer_seekfirst(buffer_clear(b0)), SubSeq(file, 13, Len(file)))
         read == ReadItems(data, n)
     IN IF Len(file) < 12
        THEN /\ key_num' = 0 /\ phase' = "reading"
             /\ UNCHANGED <<keys, max, bigest_key, smallest_key, buf, file, given, written, complete>>
        ELSE IF read.short THEN Fault
        ELSE /\ keys' = read.items /\ key_num' = n
             /\ max' = buffer_getint(Skip(head, 8))
             /\ bigest_key' = IF n = 0 THEN Uninit ELSE Last(read.items)
             /\ smallest_key' = IF n = 0 THEN Uninit ELSE Head(read.items)
             /\ buf' = read.buf /\ phase' = "reading"
             /\ UNCHANGED <<file, given, written, complete>>

(* _sstdata_sort: insertion sort.  The bounds are left as they are. *)
Inserted(sorted, data) ==
  LET before == {i \in DOMAIN sorted : Comparator(data, sorted[i]) # -1}
  IN InsertAt(sorted, Max(before \cup {0}) + 1, data)

Sort ==
  /\ phase = "reading" /\ keys # <<>>
  /\ keys' = FoldLeft(Inserted, <<>>, keys)
  /\ phase' = "sorted"
  /\ UNCHANGED <<key_num, max, bigest_key, smallest_key, buf, file, given, written, complete>>

(* The search returns an item that is in force, or NULL; Uninit stands for *)
(* a pointer that was never set.                                           *)
_sstdata_binarysearch(hash, key) ==
  LET f[w \in (0..key_num) \X (-1..key_num-1)] ==
        LET left == w[1]
            right == w[2]
            middle == (left + right) \div 2
            k == keys[middle + 1]
        IN IF left > right THEN NULL
           ELSE IF k = Uninit THEN Uninit
           ELSE CASE ComparatorB(k.hash_value, k.key, hash, key) = 1 -> f[<<left, middle - 1>>]
                  [] ComparatorB(k.hash_value, k.key, hash, key) = -1 -> f[<<middle + 1, right>>]
                  [] OTHER -> IF k.type = "s" THEN k ELSE NULL
  IN f[<<0, key_num - 1>>]

(* "Out of the range of the table", with && where || is meant: true only   *)
(* of the one hash that is both the smallest and the greatest.             *)
OutOfRange(hash) == hash <= smallest_key.hash_value /\ hash >= bigest_key.hash_value

sstdata_get(key) ==
  LET hash == Hash[key]
  IN IF key_num = 0 THEN NULL
     ELSE IF hash <= smallest_key.hash_value /\ bigest_key = Uninit THEN Uninit
     ELSE IF OutOfRange(hash) THEN NULL
     ELSE _sstdata_binarysearch(hash, key)

(* A get changes nothing but may follow a pointer that was never set. *)
Get(key) ==
  /\ phase \in {"building", "flushed", "reading", "sorted"}
  /\ sstdata_get(key) = Uninit
  /\ Fault

Next ==
  \/ Build \/ BuildCompact
  \/ \E data \in Items : Put(data) \/ CompactPut(data)
  \/ CompactEnd \/ WriteHead \/ WriteData
  \/ Close \/ Crash \/ Open \/ Sort
  \/ \E key \in Keys : Get(key)

Spec == Init /\ [][Next]_vars

-----------------------------------------------------------------------------
(* The item without its version, which a file does not always keep. *)
Shown(d) == <<d.key, d.value, d.type>>
Count(d, seq) == Cardinality({i \in DOMAIN seq : Shown(seq[i]) = Shown(d)})

(* The item last put under each key. *)
LastPut(seq) ==
  {seq[i] : i \in {i \in DOMAIN seq : \A j \in DOMAIN seq : seq[j].key = seq[i].key => j <= i}}

(* The pointers that are set come first, strictly in order. *)
SetInOrder ==
  \A i, j \in DOMAIN keys :
    i < j /\ keys[j] # Uninit => keys[i] # Uninit /\ Comparator(keys[i], keys[j]) = -1

(***************************************************************************)
(* While puts fill the array (sstdata.c:208-277), its set pointers come    *)
(* first, strictly in order, and lead to the item last put under each key  *)
(* and to no other: a put of a key that is there replaces its item, though *)
(* a pointer nobody sets is counted behind.  _sstdata_sort sorts what was  *)
(* read and loses none of it (sstdata.c:158-174).                          *)
(***************************************************************************)
KeysSorted ==
  /\ phase \in {"building", "headed", "flushed"} =>
       /\ key_num = Len(keys) /\ SetInOrder
       /\ ToSet(keys) \ {Uninit} = LastPut(given)
  /\ phase = "sorted" =>
       /\ key_num = Len(keys) /\ Len(keys) = Len(given)
       /\ \A i \in 1..Len(keys) - 1 : Comparator(keys[i], keys[i + 1]) # 1
       /\ \A i \in DOMAIN given : Count(given[i], keys) = Count(given[i], given)

(***************************************************************************)
(* A get finds the item last put under its key, or none if that is a       *)
(* deletion or there is none (sstdata.c:279-295): in memory, where earlier *)
(* puts of the key have been replaced, unless the search meets a pointer   *)
(* that such a replacement left unset; and in a complete file that was     *)
(* opened, if it holds its keys in order, each once.  Not so in a table    *)
(* whose items all have one hash, which the range test takes for out of    *)
(* range, and after a sort that left the bounds behind.                    *)
(***************************************************************************)
GetFindsNewest ==
  /\ phase \in {"building", "flushed", "reading", "sorted"} /\ key_num > 0
  /\ phase \in {"reading", "sorted"} => complete /\ SetInOrder
  /\ phase = "sorted" => smallest_key = Head(keys) /\ bigest_key = Last(keys)
  /\ bigest_key # Uninit => smallest_key.hash_value # bigest_key.hash_value
  => \A key \in Keys :
       LET of == {i \in DOMAIN given : given[i].key = key}
           found == sstdata_get(key)
       IN \/ found = Uninit /\ Uninit \in ToSet(keys)
          \/ IF of = {} THEN found = NULL
             ELSE IF given[Max(of)].type = "d" THEN found = NULL
             ELSE /\ found \notin {NULL, Uninit}
                  /\ Shown(found) = Shown(given[Max(of)])

(***************************************************************************)
(* A file written to its end is read back as it was written: as many       *)
(* items, in the order in which they went to the file, one by one from a   *)
(* compaction or from the array, none of those put missing; an item's      *)
(* version is the same when no byte of it but the last is above 127        *)
(* (buffer.c:203).                                                         *)
(***************************************************************************)
ReopenedAsFlushed ==
  phase = "reading" /\ complete =>
    /\ key_num = Len(written) /\ Len(keys) = key_num /\ max = MAX
    /\ \A i \in DOMAIN written :
         /\ Shown(keys[i]) = Shown(written[i])
         /\ keys[i].hash_value = written[i].hash_value
         /\ Plain(written[i].version) => keys[i].version = written[i].version
    /\ Len(given) = Len(written)
    /\ \A i \in DOMAIN given : Count(given[i], keys) = Count(given[i], given)
=============================================================================
