----------------------------- MODULE Compaction -----------------------------
(***************************************************************************)
(* sstmanager_compact: the tables begin..end of the manager's list are     *)
(* sorted (hashtable_sort), merged into new tables (findsmallest and       *)
(* compactput), and removed (rmsst).                                       *)
(*                                                                         *)
(* Nothing in the program starts a compaction: the thread that would run   *)
(* sstmanager_checkcompact is never made, and manager->head, the list it   *)
(* walks, stays NULL because the two lines of addsst that set it are       *)
(* commented out.  The model therefore begins with a call of one of the    *)
(* two functions, either on the NULL head of the program as it is built,   *)
(* where the first step is the last, or on the list those lines would make.*)
(*                                                                         *)
(* The index of a table is its place in the array ssts, 0 the oldest.      *)
(***************************************************************************)
EXTENDS Buffer, SequencesExt

CONSTANTS N,          \* tables in the list at first
          NBuckets,   \* htable->bucket_szie
          MAX,        \* items a table may hold
          Limit,      \* tables above which checkcompact compacts, 5
          MaxNew,     \* bound: tables one compaction may make
          Contents    \* what a table may hold: sets of items with distinct keys

ASSUME ContentsAssumption == \A S \in Contents :
  /\ IsFiniteSet(S) /\ S \subseteq data_t
  /\ \A d \in S : d.hash_value = Hash[d.key]
  /\ \A d, e \in S : d.key = e.key => d = e
ASSUME PointerAssumption ==
  /\ NULL \notin data_t /\ NULL \notin Seq(data_t)
  /\ NULL \notin [key_num : Nat, items : Seq(data_t)]
ASSUME SizesAssumption == N \in Nat /\ NBuckets \in Nat \ {0} /\ MAX \in Nat \ {0} /\ Limit \in Nat /\ MaxNew \in Nat

VARIABLES head,       \* the manager's list is linked
          ids,        \* ssts: the tables in the list, oldest first
          current_id, \* manager->current_id
          status,     \* of each table: UNOPEN, READ, COMPACT, COMPACTED or WRITE;
                      \* SNULL of a number nobody has
          buckets,    \* chains of each table in memory, NULL before it is opened
          datas,      \* sorted items of each table, NULL before hashtable_sort
          disk,       \* file of each table: the count in its head and its items; NULL without a file
          point,      \* how far the merge has got in ssts[0], ssts[1], ...
          begin, end, \* the arguments of the compaction
          at,         \* the table the loop over begin..end has come to
          pc,         \* "idle", "start", "sort", "create", "merge", "remove", "done" or "fault"
          held,       \* history: the items of each table before the compaction
          seen        \* history: what nextdata gave of each table that was sorted, else NULL

vars == <<head, ids, current_id, status, buckets, datas, disk, point, begin, end, at, pc, held, seen>>

Ids == 0..N + MaxNew - 1
Num == end - begin + 1
sst_num == Len(ids)
Sst(i) == ids[i + 1]

(* htable->key_num.  A table that is written by compactput has no items in *)
(* its buckets.                                                            *)
KeyNum(t) == IF status[t] \in {"COMPACT", "COMPACTED"} THEN Len(disk[t].items)
             ELSE Len(FlattenSeq(buckets[t]))

Bucket(d) == (d.hash_value % NBuckets) + 1

(* hashtable_put of items of different keys, one after the other: each     *)
(* becomes the head of its chain.                                          *)
Chains(items) ==
  FoldLeft(LAMBDA chains, d : [chains EXCEPT ![Bucket(d)] = <<d>> \o @],
           [b \in 1..NBuckets |-> <<>>], items)

(* hashtable_open: the versions come through buffer_getlong. *)
Loaded(file) ==
  Chains([i \in 1..file.key_num |-> [file.items[i] EXCEPT !.version = GetLong(@)]])

NewFile == [key_num |-> 0, items |-> <<>>]

Init ==
  /\ head \in BOOLEAN
  /\ ids = [i \in 1..N |-> i - 1] /\ current_id = N
  /\ \E contents \in [0..N - 1 -> Contents] :
       held = [t \in Ids |-> IF t < N THEN contents[t] ELSE {}]
  \* the tables of an earlier run are not open yet, the newest is being written
  /\ \E old \in 0..N - 1 :
       status = [t \in Ids |-> CASE t < old -> "UNOPEN" [] t = N - 1 -> "WRITE"
                              [] t >= N -> "SNULL" [] OTHER -> "READ"]
  /\ disk = [t \in Ids |->
       IF t >= N THEN NULL ELSE IF status[t] = "WRITE" THEN NewFile
       ELSE LET items == FlattenSeq(Chains(SetToSeq(held[t])))
            IN [key_num |-> Len(items), items |-> items]]
  /\ buckets = [t \in Ids |-> IF t >= N \/ status[t] = "UNOPEN" THEN NULL
                              ELSE Chains(SetToSeq(held[t]))]
  /\ datas = [t \in Ids |-> NULL] /\ seen = datas
  /\ point = <<>> /\ begin = 0 /\ end = 0 /\ at = 0 /\ pc = "idle"

Fault ==
  /\ pc' = "fault"
  /\ UNCHANGED <<head, ids, current_id, status, buckets, datas, disk, point, begin, end, at, held, seen>>

-----------------------------------------------------------------------------
(* hashtable_nextdata: index and nextdata (the rest of a chain, empty for  *)
(* NULL) move on; data is the item returned.                               *)

(* The first loop: to the first chain that is not empty.  Ends without an  *)
(* item at the last bucket, which is then the one to go on with.           *)
FirstChain(chains, w) ==
  LET f[i \in 1..NBuckets] ==
        IF i = NBuckets THEN [w EXCEPT !.index = i, !.nextdata = chains[i], !.data = NULL]
        ELSE IF chains[i] = <<>> THEN f[i + 1]
        ELSE [w EXCEPT !.index = i + 1, !.nextdata = chains[i], !.data = Head(chains[i])]
  IN IF w.nextdata = <<>> THEN f[w.index] ELSE [w EXCEPT !.data = Head(w.nextdata)]

(* The second loop: when the chain has ended, to the next that is not empty. *)
SecondChain(chains, w) ==
  LET later == {i \in w.index + 1..NBuckets : chains[i] # <<>>}
      to == IF later = {} THEN NBuckets ELSE Min(later)
  IN IF Len(w.nextdata) > 1 THEN [w EXCEPT !.nextdata = Tail(@)]
     ELSE IF later = {} THEN [w EXCEPT !.nextdata = <<>>, !.index = to]
     ELSE [w EXCEPT !.nextdata = chains[to], !.index = to]

hashtable_nextdata(chains, w) ==
  LET found == FirstChain(chains, w)
  IN IF w.next_num >= w.key_num THEN [w EXCEPT !.data = NULL]
     ELSE IF found.data = NULL THEN found
     ELSE [SecondChain(chains, found) EXCEPT !.next_num = @ + 1]

(* The items of key_num calls. *)
Collected(chains, key_num) ==
  LET f[i \in 0..key_num] ==
        IF i = 0 THEN [items |-> <<>>,
                       w |-> [index |-> 1, nextdata |-> <<>>, data |-> NULL,
                              next_num |-> 0, key_num |-> key_num]]
        ELSE LET w == hashtable_nextdata(chains, f[i - 1].w)
             IN [items |-> IF w.data = NULL THEN f[i - 1].items ELSE Append(f[i - 1].items, w.data),
                 w |-> w]
  IN f[key_num].items

(* Mutant of merge_no_sentinel: the greater of two items is taken first. *)
MergeGreater(left, right) ==
  LET f[from \in (0..Len(left)) \X (0..Len(right))] ==
        LET i == from[1]  j == from[2]
        IN IF i = Len(left) THEN SubSeq(right, j + 1, Len(right))
           ELSE IF j = Len(right) THEN SubSeq(left, i + 1, Len(left))
           ELSE IF Comparator(left[i + 1], right[j + 1]) = 1 THEN <<left[i + 1]>> \o f[<<i + 1, j>>]
           ELSE <<right[j + 1]>> \o f[<<i, j + 1>>]
  IN f[<<0, 0>>]

(* The lesser of the first items of the two halves, the left one of equals. *)
merge_no_sentinel(left, right) ==
  LET f[from \in (0..Len(left)) \X (0..Len(right))] ==
        LET i == from[1]  j == from[2]
        IN IF i = Len(left) THEN SubSeq(right, j + 1, Len(right))
           ELSE IF j = Len(right) THEN SubSeq(left, i + 1, Len(left))
           ELSE IF Comparator(left[i + 1], right[j + 1]) < 1 THEN <<left[i + 1]>> \o f[<<i + 1, j>>]
           ELSE <<right[j + 1]>> \o f[<<i, j + 1>>]
  IN f[<<0, 0>>]

merge_sort(items) ==
  LET f[part \in (1..Len(items)) \X (1..Len(items))] ==
        LET i == part[1]  j == part[2]  middle == (i - 1 + j - 1) \div 2 + 1
        IN IF i >= j THEN <<items[i]>>
           ELSE merge_no_sentinel(f[<<i, middle>>], f[<<middle + 1, j>>])
  IN IF items = <<>> THEN <<>> ELSE f[<<1, Len(items)>>]

(* The array is as long as key_num; NULL fills what no item came for. *)
hashtable_sort(chains, key_num) ==
  LET sorted == merge_sort(Collected(chains, key_num))
  IN [i \in 1..key_num |-> IF i <= Len(sorted) THEN sorted[i] ELSE NULL]

-----------------------------------------------------------------------------
(* sst_open(sst, COMPACT) with its head, for a new table at the newest end *)
(* of the list.                                                            *)
createsst ==
  /\ current_id \in Ids \* bound
  /\ ids' = Append(ids, current_id) /\ current_id' = current_id + 1
  /\ buckets' = [buckets EXCEPT ![current_id] = [b \in 1..NBuckets |-> <<>>]]

Call(b, e) ==
  /\ pc = "idle" /\ b <= e /\ pc' = "start"
  /\ begin' = b /\ end' = e
  /\ UNCHANGED <<head, ids, current_id, status, buckets, datas, disk, point, at, held, seen>>

(* start_id is 0 and never changes. *)
sstmanager_checkcompact ==
  /\ sst_num > Limit
  /\ Call(0, current_id - 2)

Start ==
  /\ pc = "start"
  /\ IF begin = end \/ sst_num <= end
     THEN /\ pc' = "done"
          /\ UNCHANGED <<head, ids, current_id, status, buckets, datas, disk, point, begin, end, at, held, seen>>
     ELSE IF ~head THEN Fault
     ELSE /\ point' = [i \in 1..Num |-> 0]
          /\ at' = begin /\ pc' = "sort"
          /\ UNCHANGED <<head, ids, current_id, status, buckets, datas, disk, begin, end, held, seen>>

(* sst_precompact of the next table. *)
Precompact ==
  LET t == Sst(at)
      chains == IF status[t] = "UNOPEN" THEN Loaded(disk[t]) ELSE buckets[t]
  IN /\ pc = "sort"
     /\ buckets' = [buckets EXCEPT ![t] = chains]
     /\ status' = IF status[t] = "UNOPEN" THEN [status EXCEPT ![t] = "READ"] ELSE status
     /\ datas' = [datas EXCEPT ![t] = hashtable_sort(chains, Len(FlattenSeq(chains)))]
     /\ seen' = [seen EXCEPT ![t] = Collected(chains, Len(FlattenSeq(chains)))]
     /\ at' = at + 1 /\ pc' = IF at = end THEN "create" ELSE "sort"
     /\ UNCHANGED <<head, ids, current_id, disk, point, begin, end, held>>

Create ==
  /\ pc = "create" /\ pc' = "merge"
  /\ createsst
  /\ status' = [status EXCEPT ![current_id] = "COMPACT"]
  /\ disk' = [disk EXCEPT ![current_id] = NewFile]
  /\ UNCHANGED <<head, datas, point, begin, end, at, held, seen>>

(* _sstmanager_findsmallest.  It walks ssts[0], ssts[1], ... whatever begin *)
(* is; a table among these that was not sorted has no datas to look at.     *)
Sorted == \A i \in 0..Num - 1 :
  /\ buckets[Sst(i)] # NULL
  /\ datas[Sst(i)] = NULL => point[i + 1] >= KeyNum(Sst(i))

Data(i) == IF point[i + 1] < KeyNum(Sst(i)) THEN datas[Sst(i)][point[i + 1] + 1] ELSE NULL

(* Mutant of findsmallest: of two equal keys the older table wins. *)
FindOldest ==
  LET Compare(s, i) ==
        LET d == Data(i)
        IN CASE ComparatorC(d, s.min) = 1 -> s
             [] ComparatorC(d, s.min) = 0 ->
                  IF s.min = NULL THEN s ELSE [s EXCEPT !.point[i + 1] = @ + 1]
             [] OTHER -> [s EXCEPT !.min = d, !.index = i]
      last == FoldLeft(Compare, [min |-> NULL, index |-> -1, point |-> point],
                       [i \in 1..Num |-> i - 1])
  IN IF last.index = -1 THEN last ELSE [last EXCEPT !.point[last.index + 1] = @ + 1]

(* The loop's round for table i: of two equal keys the one with the greater *)
(* version, or in the later table, is kept and the other table moves on.   *)
Compare(s, i) ==
  LET d == Data(i)
  IN CASE ComparatorC(d, s.min) = 1 -> s
       [] ComparatorC(d, s.min) = 0 ->
            IF s.min = NULL THEN s
            ELSE IF Newer(s.min.version, d.version) THEN [s EXCEPT !.point[i + 1] = @ + 1]
            ELSE [min |-> d, index |-> i, point |-> [s.point EXCEPT ![s.index + 1] = @ + 1]]
       [] OTHER -> [s EXCEPT !.min = d, !.index = i]

findsmallest ==
  LET last == FoldLeft(Compare, [min |-> NULL, index |-> -1, point |-> point],
                       [i \in 1..Num |-> i - 1])
  IN IF last.index = -1 THEN last ELSE [last EXCEPT !.point[last.index + 1] = @ + 1]

Output == Last(ids)
Flushed(file) == [file EXCEPT !.key_num = Len(file.items)]

(* One round of the merging loop; a full table is flushed and the item put *)
(* into a new one.                                                         *)
Merge ==
  /\ pc = "merge" /\ Sorted /\ findsmallest.min # NULL
  /\ point' = findsmallest.point
  /\ IF MAX > KeyNum(Output)
     THEN /\ disk' = [disk EXCEPT ![Output].items = Append(@, findsmallest.min)]
          /\ UNCHANGED <<ids, current_id, status, buckets>>
     ELSE /\ createsst
          /\ status' = [status EXCEPT ![Output] = "COMPACTED", ![current_id] = "COMPACT"]
          /\ disk' = [disk EXCEPT ![Output] = Flushed(@),
                                  ![current_id] = [NewFile EXCEPT !.items = <<findsmallest.min>>]]
  /\ UNCHANGED <<head, datas, begin, end, at, pc, held, seen>>

MergeDies == pc = "merge" /\ ~Sorted /\ Fault

(* Mutant of MergeEnd: the last table is not flushed. *)
MergeEndNoFlush ==
  /\ pc = "merge" /\ Sorted /\ findsmallest.min = NULL
  /\ at' = begin /\ pc' = "remove"
  /\ UNCHANGED <<head, ids, current_id, status, buckets, disk, datas, point, begin, end, held, seen>>

(* The last flush. *)
MergeEnd ==
  /\ pc = "merge" /\ Sorted /\ findsmallest.min = NULL
  /\ status' = [status EXCEPT ![Output] = "COMPACTED"]
  /\ disk' = [disk EXCEPT ![Output] = Flushed(@)]
  /\ at' = begin /\ pc' = "remove"
  /\ UNCHANGED <<head, ids, current_id, buckets, datas, point, begin, end, held, seen>>

(* One round of the removing loop of sstmanager_rmsst.  at is the place in *)
(* the array made before the loop; the tables before it have left the list.*)
RemoveNext ==
  LET t == Sst(begin)
  IN /\ pc = "remove"
     /\ ids' = RemoveAt(ids, begin + 1)
     /\ disk' = [disk EXCEPT ![t] = NULL]
     /\ buckets' = [buckets EXCEPT ![t] = NULL] /\ datas' = [datas EXCEPT ![t] = NULL]
     /\ at' = at + 1 /\ pc' = IF at = end THEN "done" ELSE "remove"
     /\ UNCHANGED <<head, current_id, status, point, begin, end, held, seen>>

Next ==
  \/ \E b, e \in 0..N : Call(b, e)
  \/ sstmanager_checkcompact
  \/ Start \/ Precompact \/ Create \/ Merge \/ MergeDies \/ MergeEnd \/ RemoveNext

Spec == Init /\ [][Next]_vars

-----------------------------------------------------------------------------
(* What hashtable_nextdata returned of table t: it passes over the bucket  *)
(* behind the first one with items, and an item alone in the last bucket.  *)
Seen(t) == IF seen[t] = NULL THEN {} ELSE ToSet(seen[t])
Visited(t, key) == \E d \in Seen(t) : d.key = key

(* It may also return the items of the last bucket a second time. *)
Repeats(t) == seen[t] # NULL /\ Cardinality(Seen(t)) < Len(seen[t])

(* findsmallest reads the tables from 0 on, so only begin = 0 is right. *)
Clean == begin = 0 /\ \A t \in Ids : ~Repeats(t)

(* The items put into the new tables, first to last. *)
Merged == FlattenSeq([i \in 1..current_id - N |-> disk[N + i - 1].items])

(***************************************************************************)
(* The merge gives one sorted sequence of items without a key twice        *)
(* (sstmanager.c:346-400, hashtable.c:351-413), in tables of at most max   *)
(* items, from tables that nextdata gave without repetition.               *)
(***************************************************************************)
MergedInOrder ==
  Clean =>
    /\ \A i \in 1..Len(Merged) - 1 : Comparator(Merged[i], Merged[i + 1]) = -1
    /\ \A t \in N..current_id - 1 : Len(disk[t].items) <= MAX

\* Every item of an input table that the merge visited, with its table; and which
\* of two items should win.
Inputs ==
  {x \in [item : UNION {held[t] : t \in begin..end}, table : begin..end] :
     x.item \in held[x.table] /\ Visited(x.table, x.item.key)}
Later(x, y) ==
  \/ Newer(x.item.version, y.item.version)
  \/ x.item.version = y.item.version /\ x.table > y.table

(***************************************************************************)
(* Of every key that was visited the merge keeps one item, the newest: the *)
(* one of the greatest version, of equal ones that of the latest table     *)
(* (sstmanager.c:371-385).  Versions with a byte above 127 below the last  *)
(* do not count: they change when a table is opened (buffer.c:203).        *)
(***************************************************************************)
NewestKept ==
  /\ pc \in {"remove", "done"} /\ current_id > N /\ Clean
  /\ \A t \in begin..end : \A d \in held[t] : Plain(d.version)
  => \A x \in Inputs :
       (\A y \in Inputs : y.item.key = x.item.key => y = x \/ Later(x, y))
         => x.item \in ToSet(Merged)

(***************************************************************************)
(* Wherever a crash ends the compaction, every visited key that was on     *)
(* disk before is in the readable part of some file: the tables are        *)
(* removed only when the last new one has its head (sstmanager.c:460-461). *)
(***************************************************************************)
NoKeyLost ==
  Clean =>
    \A t \in 0..N - 2 : \A d \in held[t] :
      seen[t] # NULL /\ Visited(t, d.key) =>
        \E u \in Ids :
          /\ disk[u] # NULL
          /\ \E i \in 1..disk[u].key_num : disk[u].items[i].key = d.key
=============================================================================
