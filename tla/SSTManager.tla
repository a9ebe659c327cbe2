------------------------------- MODULE SSTManager -------------------------------
(****************************************************************************)
(* The table manager of libsstable (sstmanager.c, sst.c): the list of       *)
(* tables, newest first; puts that go to the writing table and rotate it    *)
(* when it is full; gets that walk the list, opening tables as they meet    *)
(* them; the flush jobs of the pool; flush and close at the end of a run;   *)
(* the files and the Manifest that the next run opens.                      *)
(*                                                                          *)
(* A hash table is reduced to the items linked in it and its counter: the   *)
(* chains are in HashTable, whose put is split here where other threads can *)
(* see it, between raising the counter and linking the item.  Another put   *)
(* of the same key waits for the bucket meanwhile.  The pool is the one of  *)
(* JobPool; a job is a table to be flushed.  The mutex of a table is only   *)
(* taken under the manager's and is left out.                               *)
(*                                                                          *)
(* Compaction is not in it: nothing starts it, so the compact list stays    *)
(* empty and the statuses SNULL, WFULL, COMPACT, COMPACTED do not occur.    *)
(****************************************************************************)
EXTENDS Integers, Sequences, FiniteSets

CONSTANTS
  Threads,   \* threads calling sstmanager_put and sstmanager_get
  Getters,   \* those of them that call sstmanager_get
  Items,     \* the data items they put, each once
  Keys,
  KeyOf,     \* KeyOf[i]: the key of item i
  Max,       \* htable->max
  MaxId,     \* bound: table ids 0 .. MaxId
  MaxRuns,   \* bound: how often the program is started
  Crashes,   \* whether the process may die at any time
  NULL

ASSUME BoundsAssumption == Max \in Nat /\ MaxId \in Nat /\ MaxRuns \in Nat
ASSUME KeyAssumption    == KeyOf \in [Items -> Keys]
ASSUME MakerAssumption  == "built" \notin Threads \cup {NULL}
ASSUME NullAssumption   == NULL \notin Threads \cup Items \cup Keys \cup (0 .. MaxId)

Ids == 0 .. MaxId

\* Who made a hash table: the put that created the table ("built"), or a get
\* that opened its file.  A table can get several; sst->htable is the last one
\* assigned.
Makers == Threads \cup {"built"}
Tables == Ids \X Makers

NoFile == [num |-> -1, items |-> {}]

\* A Manifest emptied by fopen("wb+") and not written yet.
Torn == [last |-> -1, num |-> -1, ids |-> <<>>]

VARIABLES
  phase,       \* of the process: "up", "manifest", "flush", "close" or "down"
  run,         \* how often it has been started
  lock,        \* owner of manager->lock
  list,        \* ids of the tables linked from manager->uncompact
  sst_num, current_id, writetable,
  status,      \* sst->status of each id
  htable,      \* maker of the hash table each sst->htable points to, or NULL
  ready,       \* hash tables whose bucket array exists
  mem,         \* items linked in each hash table
  key_num,     \* its counter
  job,         \* flush job of each id: "none", "queued" or "data"
  pc, item, cur, ht, again,   \* of a put
  want, i, pos,               \* of a get
  mpos, mstep, \* sstmanager_flush: place in the list, "test" or "data"
  file,        \* sstNNNNNN.data: key_num of its head, items of its data
  manifest,    \* the Manifest file, Torn, or NULL
  \* history, read by the properties only
  acked,       \* items whose put has returned 0 (after a restart: still held)
  older,       \* older[x]: items of its key acknowledged when the put of x began
  seen,        \* items of its key acknowledged when the thread's get began
  overlap,     \* a get and a put have run at the same time
  twice,       \* two gets have opened one table at the same time
  lateWrite,   \* an item was linked into a table that was not in status WRITE
  queuedTimes, \* how often each id was handed to the pool in this run
  clean        \* the last run ended with flush and close

store   == <<list, sst_num, current_id, writetable, status, htable>>
content == <<ready, mem, key_num>>
putVars == <<item, cur, ht, again>>
getVars == <<want, i, pos>>
disk    == <<file, manifest>>
main    == <<phase, run, mpos, mstep, clean>>
hist    == <<acked, older, seen, overlap, twice, lateWrite, queuedTimes>>
vars    == <<main, lock, store, content, job, pc, putVars, getVars, disk, hist>>

PutSteps == {"start", "add", "open", "write", "put", "reserve", "link", "full"}
Opening  == {"open_get", "load", "read"}
GetSteps == {"get", "head", "visit", "look"} \cup Opening

Idle == \A t \in Threads : pc[t] = "idle"

\* The memory of a process that has just started.
Fresh ==
  /\ lock' = NULL
  /\ writetable' = NULL
  /\ status' = [id \in Ids |-> "UNOPEN"]
  /\ htable' = [id \in Ids |-> NULL]
  /\ ready' = {}
  /\ mem' = [h \in Tables |-> {}]
  /\ key_num' = [h \in Tables |-> 0]
  /\ job' = [id \in Ids |-> "none"]
  /\ pc' = [t \in Threads |-> "idle"]
  /\ item' = [t \in Threads |-> NULL]
  /\ cur' = [t \in Threads |-> NULL]
  /\ ht' = [t \in Threads |-> NULL]
  /\ again' = [t \in Threads |-> FALSE]
  /\ want' = [t \in Threads |-> NULL]
  /\ i' = [t \in Threads |-> -1]
  /\ pos' = [t \in Threads |-> NULL]
  /\ mpos' = 1
  /\ mstep' = "test"
  /\ seen' = [t \in Threads |-> {}]
  /\ queuedTimes' = [id \in Ids |-> 0]

\* The first start, in an empty directory.
Init ==
  /\ phase = "up" /\ run = 1 /\ mpos = 1 /\ mstep = "test" /\ clean = FALSE
  /\ lock = NULL
  /\ list = <<>> /\ sst_num = 0 /\ current_id = 0 /\ writetable = NULL
  /\ status = [id \in Ids |-> "UNOPEN"]
  /\ htable = [id \in Ids |-> NULL]
  /\ ready = {}
  /\ mem = [h \in Tables |-> {}]
  /\ key_num = [h \in Tables |-> 0]
  /\ job = [id \in Ids |-> "none"]
  /\ pc = [t \in Threads |-> "idle"]
  /\ item = [t \in Threads |-> NULL]
  /\ cur = [t \in Threads |-> NULL]
  /\ ht = [t \in Threads |-> NULL]
  /\ again = [t \in Threads |-> FALSE]
  /\ want = [t \in Threads |-> NULL]
  /\ i = [t \in Threads |-> -1]
  /\ pos = [t \in Threads |-> NULL]
  /\ file = [id \in Ids |-> NoFile]
  /\ manifest = NULL
  /\ acked = {}
  /\ older = [x \in Items |-> {}]
  /\ seen = [t \in Threads |-> {}]
  /\ overlap = FALSE
  /\ twice = FALSE
  /\ lateWrite = FALSE
  /\ queuedTimes = [id \in Ids |-> 0]

\* A step of thread t in a running process.
Step(t, from, to) ==
  /\ phase = "up"
  /\ pc[t] = from
  /\ pc' = [pc EXCEPT ![t] = to]
  /\ UNCHANGED <<main, disk>>

-----------------------------------------------------------------------------
(* sstmanager_put *)

PutCall(t, x) ==
  /\ Step(t, "idle", "start")
  /\ x \notin acked /\ \A u \in Threads : item[u] # x
  /\ item' = [item EXCEPT ![t] = x]
  /\ older' = [y \in Items |-> IF y = x THEN {z \in acked : KeyOf[z] = KeyOf[x]}
                              ELSE older[y] \ {x}]
  /\ overlap' = (overlap \/ \E u \in Threads : pc[u] \in GetSteps)
  /\ UNCHANGED <<lock, store, content, job, cur, ht, again, getVars, acked, seen,
                 twice, lateWrite, queuedTimes>>

\* the test of line 278: no table to put into
Newest     == IF list = <<>> THEN NULL ELSE list[1]
NeedsTable == sst_num = 0 \/ Newest \notin {id \in Ids : status[id] # "UNOPEN"}

\* REPEAT: lock, take the head of the list, unlock
PutStart(t) ==
  /\ Step(t, "start", "put")
  /\ lock = NULL
  /\ ~NeedsTable
  /\ cur' = [cur EXCEPT ![t] = list[1]]
  /\ again' = [again EXCEPT ![t] = FALSE]
  /\ UNCHANGED <<lock, store, content, job, item, ht, getVars, hist>>

\* REPEAT: lock, and keep the lock to create a table
PutStartCreate(t) ==
  /\ Step(t, "start", "add")
  /\ lock = NULL
  /\ NeedsTable
  /\ lock' = t
  /\ again' = [again EXCEPT ![t] = FALSE]
  /\ UNCHANGED <<store, content, job, item, cur, ht, getVars, hist>>

\* sst_new and sstmanager_addsst: the table is in the list, not opened yet
CreateAdd(t) ==
  /\ Step(t, "add", "open")
  /\ current_id <= MaxId
  /\ list' = <<current_id>> \o list
  /\ status' = [status EXCEPT ![current_id] = "UNOPEN"]
  /\ htable' = [htable EXCEPT ![current_id] = NULL]
  /\ current_id' = current_id + 1
  /\ sst_num' = sst_num + 1
  /\ cur' = [cur EXCEPT ![t] = current_id]
  /\ UNCHANGED <<lock, writetable, content, job, item, ht, again, getVars, hist>>

\* sst_open(WRITE): hashtable_new and hashtable_build, which empties the file.
\* A get that opens the table meanwhile is SharedTable.
CreateOpen(t) ==
  LET id == cur[t] IN
  /\ phase = "up"
  /\ pc[t] = "open"
  /\ pc' = [pc EXCEPT ![t] = "write"]
  /\ htable' = [htable EXCEPT ![id] = "built"]
  /\ ready' = ready \cup {<<id, "built">>}
  /\ file' = [file EXCEPT ![id] = NoFile]
  /\ UNCHANGED <<main, manifest, lock, list, sst_num, current_id, writetable, status, mem,
                 key_num, job, putVars, getVars, hist>>

\* Mutant of CreateWrite: the manager's lock is kept.
CreateWriteLocked(t) ==
  /\ Step(t, "write", "put")
  /\ status' = [status EXCEPT ![cur[t]] = "WRITE"]
  /\ writetable' = list[1]
  /\ cur' = [cur EXCEPT ![t] = list[1]]
  /\ UNCHANGED <<lock, list, sst_num, current_id, htable, content, job, item, ht, again, getVars,
                 hist>>

\* status = WRITE, writetable = uncompact; cursstable = writetable; unlock
CreateWrite(t) ==
  /\ Step(t, "write", "put")
  /\ status' = [status EXCEPT ![cur[t]] = "WRITE"]
  /\ writetable' = list[1]
  /\ cur' = [cur EXCEPT ![t] = list[1]]
  /\ lock' = NULL
  /\ UNCHANGED <<list, sst_num, current_id, htable, content, job, item, ht, again, getVars,
                 hist>>

\* sst_put returns 2, "do nothing": goto REPEAT
PutNotWriting(t) ==
  /\ Step(t, "put", "start")
  /\ status[cur[t]] # "WRITE"
  /\ cur' = [cur EXCEPT ![t] = NULL]
  /\ again' = [again EXCEPT ![t] = FALSE]
  /\ UNCHANGED <<lock, store, content, job, item, ht, getVars, hist>>

\* sst_put calls hashtable_put with the table's present hash table
PutWriting(t) ==
  /\ Step(t, "put", "reserve")
  /\ status[cur[t]] = "WRITE"
  /\ ht' = [ht EXCEPT ![t] = <<cur[t], htable[cur[t]]>>]
  /\ UNCHANGED <<lock, store, content, job, item, cur, again, getVars, hist>>

\* The items of x's key in a hash table, and whether its bucket is free.
SameKey(h, x) == {y \in mem[h] : KeyOf[y] = KeyOf[x]}
BucketFree(t) ==
  \A u \in Threads : pc[u] = "link" /\ ht[u] = ht[t] => KeyOf[item[u]] # KeyOf[item[t]]

\* A put that ends: what it returns 0 for is acknowledged.
Return(t, stored) ==
  /\ acked' = acked \cup stored
  /\ item' = [item EXCEPT ![t] = NULL]
  /\ cur' = [cur EXCEPT ![t] = NULL]
  /\ ht' = [ht EXCEPT ![t] = NULL]
  /\ again' = [again EXCEPT ![t] = FALSE]

\* hashtable_put finds the key and replaces its item
PutReplace(t) ==
  LET h == ht[t] IN
  /\ Step(t, "reserve", "idle")
  /\ h \in ready /\ BucketFree(t)
  /\ SameKey(h, item[t]) # {}
  /\ mem' = [mem EXCEPT ![h] = (@ \ SameKey(h, item[t])) \cup {item[t]}]
  /\ lateWrite' = (lateWrite \/ status[cur[t]] # "WRITE")
  /\ Return(t, {item[t]})
  /\ UNCHANGED <<lock, store, ready, key_num, job, getVars, older, seen, overlap, twice,
                 queuedTimes>>

\* Mutant of PutReserve: key_num <= max, one item too many.
PutReserveOneMore(t) ==
  LET h == ht[t] IN
  /\ Step(t, "reserve", "link")
  /\ h \in ready /\ BucketFree(t)
  /\ SameKey(h, item[t]) = {}
  /\ key_num[h] <= Max
  /\ key_num' = [key_num EXCEPT ![h] = @ + 1]
  /\ UNCHANGED <<lock, store, ready, mem, job, putVars, getVars, hist>>

\* hashtable_put does not find it, sees room and counts itself
PutReserve(t) ==
  LET h == ht[t] IN
  /\ Step(t, "reserve", "link")
  /\ h \in ready /\ BucketFree(t)
  /\ SameKey(h, item[t]) = {}
  /\ key_num[h] < Max
  /\ key_num' = [key_num EXCEPT ![h] = @ + 1]
  /\ UNCHANGED <<lock, store, ready, mem, job, putVars, getVars, hist>>

PutLink(t) ==
  /\ Step(t, "link", "idle")
  /\ mem' = [mem EXCEPT ![ht[t]] = @ \cup {item[t]}]
  /\ lateWrite' = (lateWrite \/ status[cur[t]] # "WRITE")
  /\ Return(t, {item[t]})
  /\ UNCHANGED <<lock, store, ready, key_num, job, getVars, older, seen, overlap, twice,
                 queuedTimes>>

\* hashtable_put returns 1 to the first sst_put
PutFull(t) ==
  LET h == ht[t] IN
  /\ Step(t, "reserve", "full")
  /\ h \in ready /\ BucketFree(t)
  /\ SameKey(h, item[t]) = {}
  /\ key_num[h] >= Max
  /\ ~again[t]
  /\ UNCHANGED <<lock, store, content, job, putVars, getVars, hist>>

\* hashtable_put returns 1 to the second one: so does sstmanager_put
PutRejected(t) ==
  LET h == ht[t] IN
  /\ Step(t, "reserve", "idle")
  /\ h \in ready /\ BucketFree(t)
  /\ SameKey(h, item[t]) = {}
  /\ key_num[h] >= Max
  /\ again[t]
  /\ older' = [older EXCEPT ![item[t]] = {}]
  /\ Return(t, {})
  /\ UNCHANGED <<lock, store, content, job, getVars, seen, overlap, twice,
                 lateWrite, queuedTimes>>

\* What the mutants of RotateFirst do when they hold the lock.
Rotate(t) ==
  /\ lock' = t
  /\ job' = [job EXCEPT ![cur[t]] = "queued"]
  /\ queuedTimes' = [queuedTimes EXCEPT ![cur[t]] = @ + 1]
  /\ again' = [again EXCEPT ![t] = TRUE]
  /\ UNCHANGED <<list, sst_num, current_id, writetable, htable, content, item, cur, ht, getVars,
                 acked, older, seen, overlap, twice, lateWrite>>

\* Mutant of RotateFirst: the status is not tested again under the lock.
RotateEach(t) ==
  /\ Step(t, "full", "add")
  /\ lock = NULL
  /\ status' = [status EXCEPT ![cur[t]] = "FLUSH"]
  /\ Rotate(t)

\* Mutant of RotateFirst: the status is left to the flush job.
RotateKeepsWrite(t) ==
  /\ Step(t, "full", "add")
  /\ lock = NULL
  /\ status[cur[t]] = "WRITE"
  /\ status' = status
  /\ Rotate(t)

\* lock; the first to find the table full sets FLUSH, queues the job and, with
\* the lock, creates the next table
RotateFirst(t) ==
  /\ Step(t, "full", "add")
  /\ lock = NULL
  /\ status[cur[t]] = "WRITE"
  /\ lock' = t
  /\ status' = [status EXCEPT ![cur[t]] = "FLUSH"]
  /\ job' = [job EXCEPT ![cur[t]] = "queued"]
  /\ queuedTimes' = [queuedTimes EXCEPT ![cur[t]] = @ + 1]
  /\ again' = [again EXCEPT ![t] = TRUE]
  /\ UNCHANGED <<list, sst_num, current_id, writetable, htable, content, item, cur, ht, getVars,
                 acked, older, seen, overlap, twice, lateWrite>>

\* the others only take the new table
RotateOther(t) ==
  /\ Step(t, "full", "put")
  /\ lock = NULL
  /\ status[cur[t]] # "WRITE"
  /\ cur' = [cur EXCEPT ![t] = writetable]
  /\ again' = [again EXCEPT ![t] = TRUE]
  /\ UNCHANGED <<lock, store, content, job, item, ht, getVars, hist>>

-----------------------------------------------------------------------------
(* sstmanager_get: it takes no lock of the manager *)

GetCall(t, k) ==
  /\ Step(t, "idle", "get")
  /\ want' = [want EXCEPT ![t] = k]
  /\ seen' = [seen EXCEPT ![t] = {x \in acked : KeyOf[x] = k}]
  /\ overlap' = (overlap \/ \E u \in Threads : pc[u] \in PutSteps)
  /\ UNCHANGED <<lock, store, content, job, putVars, i, pos, acked, older, twice,
                 lateWrite, queuedTimes>>

\* i = sst_num - 1
GetCount(t) ==
  /\ Step(t, "get", "head")
  /\ i' = [i EXCEPT ![t] = sst_num - 1]
  /\ UNCHANGED <<lock, store, content, job, putVars, want, pos, hist>>

\* pos = uncompact
GetHead(t) ==
  /\ Step(t, "head", "visit")
  /\ pos' = [pos EXCEPT ![t] = Newest]
  /\ UNCHANGED <<lock, store, content, job, putVars, want, i, hist>>

Visiting(t) == pos[t] # NULL /\ i[t] >= 0

\* sst_get finds the table UNOPEN
GetUnopen(t) ==
  /\ Step(t, "visit", "open_get")
  /\ Visiting(t)
  /\ status[pos[t]] = "UNOPEN"
  /\ twice' = (twice \/ \E u \in Threads : pc[u] \in Opening /\ pos[u] = pos[t])
  /\ UNCHANGED <<lock, store, content, job, putVars, getVars, acked, older, seen, overlap,
                 lateWrite, queuedTimes>>

\* sst_open(READ): the table points to a new hash table, key_num = -1 ...
GetNew(t) ==
  LET h == <<pos[t], t>> IN
  /\ Step(t, "open_get", "load")
  /\ htable' = [htable EXCEPT ![pos[t]] = t]
  /\ key_num' = [key_num EXCEPT ![h] = -1]
  /\ UNCHANGED <<lock, list, sst_num, current_id, writetable, status, ready, mem, job, putVars,
                 getVars, hist>>

\* ... hashtable_open: a file that is missing or too short gives it no buckets.
\* The call gets the hash table of GetNew, as if the compiler kept the pointer;
\* read again it may be another thread's: SharedTable.
GetLoad(t) ==
  LET h == <<pos[t], t>>
      f == file[pos[t]] IN
  /\ Step(t, "load", "read")
  /\ ready' = IF f.num = -1 THEN ready ELSE ready \cup {h}
  /\ mem' = [mem EXCEPT ![h] = f.items]
  /\ key_num' = [key_num EXCEPT ![h] = Cardinality(f.items)]
  /\ UNCHANGED <<lock, store, job, putVars, getVars, hist>>

\* status = READ
GetSetRead(t) ==
  /\ Step(t, "read", "look")
  /\ status' = [status EXCEPT ![pos[t]] = "READ"]
  /\ UNCHANGED <<lock, list, sst_num, current_id, writetable, htable, content, job, putVars,
                 getVars, hist>>

\* hashtable_get on the table's present hash table; a hash table that is not
\* loaded yet (key_num <= 0) has nothing
Looking(t) ==
  \/ pc[t] = "look"
  \/ pc[t] = "visit" /\ Visiting(t) /\ status[pos[t]] # "UNOPEN"
Match(t)   == {x \in mem[<<pos[t], htable[pos[t]]>>] : KeyOf[x] = want[t]}

\* The table after this one in the list.
NextOf(id) ==
  LET n == CHOOSE k \in 1 .. Len(list) : list[k] = id
  IN  IF n = Len(list) THEN NULL ELSE list[n + 1]

\* Mutant of GetNext: the count of the tables left drops twice.
GetNextSkips(t) ==
  /\ phase = "up"
  /\ Looking(t)
  /\ Match(t) = {}
  /\ pc' = [pc EXCEPT ![t] = "visit"]
  /\ i' = [i EXCEPT ![t] = @ - 2]
  /\ pos' = [pos EXCEPT ![t] = NextOf(pos[t])]
  /\ UNCHANGED <<main, disk, lock, store, content, job, putVars, want, hist>>

GetNext(t) ==
  /\ phase = "up"
  /\ Looking(t)
  /\ Match(t) = {}
  /\ pc' = [pc EXCEPT ![t] = "visit"]
  /\ i' = [i EXCEPT ![t] = @ - 1]
  /\ pos' = [pos EXCEPT ![t] = NextOf(pos[t])]
  /\ UNCHANGED <<main, disk, lock, store, content, job, putVars, want, hist>>

GetEnd(t) ==
  /\ phase = "up"
  /\ pc' = [pc EXCEPT ![t] = "idle"]
  /\ want' = [want EXCEPT ![t] = NULL]
  /\ i' = [i EXCEPT ![t] = -1]
  /\ pos' = [pos EXCEPT ![t] = NULL]
  /\ seen' = [seen EXCEPT ![t] = {}]
  /\ UNCHANGED <<main, disk, lock, store, content, job, putVars, acked, older, overlap,
                 twice, lateWrite, queuedTimes>>

GetFound(t) == Looking(t) /\ Match(t) # {} /\ GetEnd(t)
GetNull(t)  == pc[t] = "visit" /\ ~Visiting(t) /\ GetEnd(t)

-----------------------------------------------------------------------------
(* sst_flush as a job of the pool *)

\* sst_flush evaluates sst->htable twice, for the head and for the data.  A
\* hash table that a get opened has the file open for reading: what is written
\* to it is lost.
FlushTable(id)   == <<id, htable[id]>>
WriteHead(id)    == IF htable[id] = "built"
                    THEN [file EXCEPT ![id] = [num |-> key_num[FlushTable(id)], items |-> {}]]
                    ELSE file
WriteData(id)    == IF htable[id] = "built"
                    THEN [file EXCEPT ![id].items = mem[FlushTable(id)]]
                    ELSE file

JobHead(id) ==
  /\ phase # "down"
  /\ job[id] = "queued"
  /\ FlushTable(id) \in ready
  /\ file' = WriteHead(id)
  /\ job' = [job EXCEPT ![id] = "data"]
  /\ UNCHANGED <<main, manifest, lock, store, content, pc, putVars, getVars, hist>>

\* Mutant of JobData: the status is not set.
JobDataKeepsStatus(id) ==
  /\ phase # "down"
  /\ job[id] = "data"
  /\ FlushTable(id) \in ready
  /\ file' = WriteData(id)
  /\ job' = [job EXCEPT ![id] = "none"]
  /\ UNCHANGED <<main, manifest, lock, store, content, pc, putVars, getVars, hist>>

JobData(id) ==
  /\ phase # "down"
  /\ job[id] = "data"
  /\ FlushTable(id) \in ready
  /\ file' = WriteData(id)
  /\ status' = [status EXCEPT ![id] = "READ"]
  /\ job' = [job EXCEPT ![id] = "none"]
  /\ UNCHANGED <<main, manifest, lock, list, sst_num, current_id, writetable, htable, content,
                 pc, putVars, getVars, hist>>

-----------------------------------------------------------------------------
(* sstmanager_flush and sstmanager_close: called together by the server's    *)
(* signal handler and by the test when the callers of put and get are done   *)

\* the Manifest first: it is emptied ...
FlushManifest ==
  /\ phase = "up"
  /\ Idle
  /\ manifest' = Torn
  /\ phase' = "manifest"
  /\ UNCHANGED <<run, mpos, mstep, clean, file, lock, store, content, job, pc, putVars, getVars,
                 hist>>

\* Mutant of FlushManifestWrite: the last id used is written, not the next one.
FlushManifestLastUsed ==
  /\ phase = "manifest"
  /\ manifest' = [last |-> IF current_id = 0 THEN 0 ELSE current_id - 1,
                  num |-> sst_num, ids |-> list]
  /\ phase' = "flush"
  /\ UNCHANGED <<run, mpos, mstep, clean, file, lock, store, content, job, pc, putVars, getVars,
                 hist>>

\* ... and gets current_id, sst_num and the ids of the list
FlushManifestWrite ==
  /\ phase = "manifest"
  /\ manifest' = [last |-> current_id, num |-> sst_num, ids |-> list]
  /\ phase' = "flush"
  /\ UNCHANGED <<run, mpos, mstep, clean, file, lock, store, content, job, pc, putVars, getVars,
                 hist>>

FlushStep ==
  /\ phase = "flush"
  /\ UNCHANGED <<phase, run, clean, manifest, lock, list, sst_num, current_id, writetable,
                 htable, content, job, pc, putVars, getVars, hist>>

\* then the tables in status WRITE: sst_flush writes the head ...
FlushHead ==
  /\ FlushStep
  /\ mstep = "test" /\ mpos <= Len(list)
  /\ status[list[mpos]] = "WRITE"
  /\ FlushTable(list[mpos]) \in ready
  /\ file' = WriteHead(list[mpos])
  /\ mstep' = "data"
  /\ UNCHANGED <<mpos, status>>

\* ... and the data
FlushData ==
  /\ FlushStep
  /\ mstep = "data"
  /\ file' = WriteData(list[mpos])
  /\ status' = [status EXCEPT ![list[mpos]] = "READ"]
  /\ mstep' = "test"
  /\ mpos' = mpos + 1

\* Mutant of FlushSkip: a table in WRITE is passed over too.
FlushSkipAny ==
  /\ FlushStep
  /\ mstep = "test" /\ mpos <= Len(list)
  /\ mpos' = mpos + 1
  /\ UNCHANGED <<mstep, file, status>>

\* the other tables are passed over
FlushSkip ==
  /\ FlushStep
  /\ mstep = "test" /\ mpos <= Len(list)
  /\ status[list[mpos]] # "WRITE"
  /\ mpos' = mpos + 1
  /\ UNCHANGED <<mstep, file, status>>

FlushDone ==
  /\ phase = "flush"
  /\ mpos > Len(list)
  /\ phase' = "close"
  /\ UNCHANGED <<run, mpos, mstep, clean, disk, lock, store, content, job, pc, putVars, getVars,
                 hist>>

\* A table whose close walks a bucket array it does not have.
NoBuckets(id) == status[id] # "UNOPEN" /\ FlushTable(id) \notin ready

\* Mutant of Close: the pool is not waited for.
CloseAtOnce ==
  /\ phase = "close"
  /\ \A n \in DOMAIN list : ~NoBuckets(list[n])
  /\ phase' = "down"
  /\ clean' = TRUE
  /\ UNCHANGED <<run, mpos, mstep, disk, lock, store, content, job, pc, putVars, getVars, hist>>

\* threadPool_destroy waits for the jobs; then every table is freed
Close ==
  /\ phase = "close"
  /\ \A id \in Ids : job[id] = "none"
  /\ \A n \in DOMAIN list : ~NoBuckets(list[n])
  /\ phase' = "down"
  /\ clean' = TRUE
  /\ UNCHANGED <<run, mpos, mstep, disk, lock, store, content, job, pc, putVars, getVars, hist>>

-----------------------------------------------------------------------------
(* The end of a process without close, and the next start *)

\* A put, a flush or the close of a table reaches a bucket array, mutex or file
\* handle that the hash table does not have.
NullAccess ==
  \/ \E t \in Threads : phase = "up" /\ pc[t] = "reserve" /\ ht[t] \notin ready
  \/ \E id \in Ids : job[id] # "none" /\ FlushTable(id) \notin ready
  \/ /\ phase = "flush" /\ mstep = "test" /\ mpos <= Len(list)
     /\ status[list[mpos]] = "WRITE" /\ FlushTable(list[mpos]) \notin ready
  \/ phase = "close" /\ \E n \in DOMAIN list : NoBuckets(list[n])

\* A get loads more items than the file has, from memory nobody has written.
ReadsPast ==
  \E t \in Threads :
    /\ phase = "up" /\ pc[t] = "load"
    /\ file[pos[t]].num > Cardinality(file[pos[t]].items)

\* sst_open reads sst->htable again for its second call.  When another thread
\* assigns it in between, that call works on the other thread's hash table, its
\* buffer and its file.
SharedTable ==
  \E t \in Threads :
    /\ phase = "up"
    /\ \/ pc[t] = "load" /\ htable[pos[t]] # t
       \/ pc[t] = "open" /\ \E u \in Threads : pc[u] \in Opening /\ pos[u] = cur[t]

Crash ==
  /\ phase # "down"
  /\ Crashes \/ NullAccess \/ ReadsPast \/ SharedTable
  /\ phase' = "down"
  /\ clean' = FALSE
  /\ UNCHANGED <<run, mpos, mstep, disk, lock, store, content, job, pc, putVars, getVars, hist>>

\* The list sstmanager_open builds: the first table becomes the head, each
\* other one the head's next, in the place of the one before it.
Reloaded(ids) == IF Len(ids) <= 1 THEN ids ELSE <<ids[1], ids[Len(ids)]>>

\* The items in the files of a list of tables.
ItemsOnDisk(ids) == UNION {file[ids[n]].items : n \in DOMAIN ids}

\* sstmanager_open without a Manifest
OpenNew ==
  /\ phase = "down" /\ run < MaxRuns
  /\ manifest = NULL
  /\ phase' = "up"
  /\ run' = run + 1
  /\ Fresh
  /\ list' = <<>> /\ sst_num' = 0 /\ current_id' = 0
  /\ acked' = {}
  /\ UNCHANGED <<clean, disk, older, overlap, twice, lateWrite>>

\* Mutant of OpenManifest: the list is rebuilt oldest table first.
OpenManifestReversed ==
  /\ phase = "down" /\ run < MaxRuns
  /\ manifest # NULL /\ manifest.num = Len(manifest.ids)
  /\ phase' = "up"
  /\ run' = run + 1
  /\ Fresh
  /\ list' = LET ids == Reloaded(manifest.ids) IN
             [n \in DOMAIN ids |-> ids[Len(ids) + 1 - n]]
  /\ sst_num' = manifest.num
  /\ current_id' = manifest.last
  /\ acked' = acked \cap ItemsOnDisk(Reloaded(manifest.ids))
  /\ UNCHANGED <<clean, disk, older, overlap, twice, lateWrite>>

\* sstmanager_open with one.  A Manifest with fewer ids than it counts (Torn, or
\* written after a start that lost tables) makes it read ids nobody wrote: what
\* the program does then is left out.
OpenManifest ==
  /\ phase = "down" /\ run < MaxRuns
  /\ manifest # NULL /\ manifest.num = Len(manifest.ids)
  /\ phase' = "up"
  /\ run' = run + 1
  /\ Fresh
  /\ list' = Reloaded(manifest.ids)
  /\ sst_num' = manifest.num
  /\ current_id' = manifest.last
  /\ acked' = acked \cap ItemsOnDisk(Reloaded(manifest.ids))
  /\ UNCHANGED <<clean, disk, older, overlap, twice, lateWrite>>

-----------------------------------------------------------------------------
PutStep(t) ==
  \/ PutStart(t) \/ PutStartCreate(t)
  \/ CreateAdd(t) \/ CreateOpen(t) \/ CreateWrite(t)
  \/ PutNotWriting(t) \/ PutWriting(t)
  \/ PutReplace(t) \/ PutReserve(t) \/ PutLink(t) \/ PutFull(t) \/ PutRejected(t)
  \/ RotateFirst(t) \/ RotateOther(t)

GetStep(t) ==
  \/ GetCount(t) \/ GetHead(t)
  \/ GetUnopen(t) \/ GetNew(t) \/ GetLoad(t) \/ GetSetRead(t)
  \/ GetNext(t) \/ GetFound(t) \/ GetNull(t)

FlushAndClose ==
  FlushManifest \/ FlushManifestWrite \/ FlushHead \/ FlushData \/ FlushSkip \/ FlushDone \/ Close

Next ==
  \/ \E t \in Threads :
       \/ \E x \in Items : PutCall(t, x)
       \/ PutStep(t)
       \/ \E k \in Keys : t \in Getters /\ GetCall(t, k)
       \/ GetStep(t)
  \/ \E id \in Ids : JobHead(id) \/ JobData(id)
  \/ FlushAndClose
  \/ Crash
  \/ OpenNew
  \/ OpenManifest

Spec == Init /\ [][Next]_vars

(****************************************************************************)
(* A call that has begun keeps running and is not kept from the manager's   *)
(* lock for ever (a Windows mutex serves its waiters in turn); the pool     *)
(* runs its jobs (ThreadPool); a close that has begun goes on.  Nobody has  *)
(* to call, to close, or to start the program again.                        *)
(****************************************************************************)
Fairness ==
  /\ \A t \in Threads :
       /\ WF_vars(PutStep(t)) /\ WF_vars(GetStep(t))
       /\ SF_vars(PutStart(t) \/ PutStartCreate(t) \/ RotateFirst(t) \/ RotateOther(t))
  /\ \A id \in Ids : WF_vars(JobHead(id) \/ JobData(id))
  /\ WF_vars(FlushManifestWrite \/ FlushHead \/ FlushData \/ FlushSkip \/ FlushDone \/ Close)

FairSpec == Spec /\ Fairness

-----------------------------------------------------------------------------
(* Properties *)

Statuses == {"UNOPEN", "WRITE", "FLUSH", "READ"}
IdOrNone == Ids \cup {NULL}

\* Every value the variables can hold; the bound MaxId is never in the way when
\* it holds with current_id <= MaxId + 1 and no put is kept in "add".
TypeOK ==
  /\ phase \in {"up", "manifest", "flush", "close", "down"}
  /\ run \in 1 .. MaxRuns \cup {1}
  /\ lock \in Threads \cup {NULL}
  /\ list \in Seq(Ids)
  /\ sst_num \in Nat
  /\ current_id \in 0 .. MaxId + 1
  /\ writetable \in IdOrNone
  /\ status \in [Ids -> Statuses]
  /\ htable \in [Ids -> Makers \cup {NULL}]
  /\ ready \subseteq Tables
  /\ mem \in [Tables -> SUBSET Items]
  /\ key_num \in [Tables -> -1 .. Max]
  /\ job \in [Ids -> {"none", "queued", "data"}]
  /\ pc \in [Threads -> PutSteps \cup GetSteps \cup {"idle"}]
  /\ item \in [Threads -> Items \cup {NULL}]
  /\ cur \in [Threads -> IdOrNone]
  /\ ht \in [Threads -> Tables \cup {NULL}]
  /\ again \in [Threads -> BOOLEAN]
  /\ want \in [Threads -> Keys \cup {NULL}]
  /\ i \in [Threads -> Int]
  /\ pos \in [Threads -> IdOrNone]
  /\ mpos \in Nat
  /\ mstep \in {"test", "data"}
  /\ file \in [Ids -> [num : -1 .. Max, items : SUBSET Items]]
  /\ acked \subseteq Items
  /\ older \in [Items -> SUBSET Items]
  /\ seen \in [Threads -> SUBSET Items]
  /\ queuedTimes \in [Ids -> Nat]
  /\ {overlap, twice, lateWrite, clean} \subseteq BOOLEAN

\* "the writing sstable(only one in list)" (sstmanager.h:34): however the puts
\* that found the table full race, there is one table in status WRITE.
OneWriteTable ==
  \A a, b \in Ids : status[a] = "WRITE" /\ status[b] = "WRITE" => a = b

\* A full table is handed to the pool once, by the first put that takes the
\* lock; the second job would write the file of a table that is being read.
QueuedOnce == \A id \in Ids : queuedTimes[id] <= 1

\* threadPool_destroy waits for the flush jobs: after a clean close no table is
\* left in WRITE or FLUSH, and no job will touch the tables that were freed.
ClosedWhenDone ==
  phase = "down" /\ clean =>
    \A id \in Ids : job[id] = "none" /\ status[id] \in {"UNOPEN", "READ"}

Same(x, y) == KeyOf[x] = KeyOf[y]
Outdated(x, among) == \E y \in among : x \in older[y]

\* What a get returns: never NULL for a key with an acknowledged item, and never
\* an item that an acknowledged put, begun later, had replaced when the get
\* began.  The walk takes no lock: this needs that no put runs beside a get and
\* no two gets open one table.
GetIsRight ==
  [][\A t \in Threads : ~overlap /\ ~twice =>
       /\ GetNull(t) => seen[t] = {}
       /\ GetFound(t) => \E x \in Match(t) : ~Outdated(x, seen[t])]_vars

Holds(id, k) == \E y \in file[id].items : KeyOf[y] = k

\* The file a walk of ids, newest first, meets first with an item of key k.
FirstWith(ids, k) ==
  file[ids[CHOOSE n \in DOMAIN ids : Holds(ids[n], k) /\ \A m \in 1 .. n - 1 : ~Holds(ids[m], k)]]

\* After flush and close every acknowledged item, or one of its key that is not
\* older, is in the newest file of the Manifest's list that holds the key, and
\* that file's head counts it.  This needs that no put was late: linking into a
\* table that another put had already rotated.
KeptOnDisk ==
  phase = "down" /\ clean /\ ~lateWrite /\ ~overlap /\ ~twice =>
    \A x \in acked :
      /\ \E n \in DOMAIN manifest.ids : Holds(manifest.ids[n], KeyOf[x])
      /\ LET f == FirstWith(manifest.ids, KeyOf[x]) IN
           /\ f.num = Cardinality(f.items)
           /\ \A y \in f.items : Same(x, y) => ~Outdated(y, acked)

\* A start never creates a table over a file the Manifest lists: the ids go on
\* from the one the last run wrote.
ListedFilesKept ==
  [][\A t \in Threads :
       CreateOpen(t) /\ manifest # NULL =>
         \A n \in DOMAIN manifest.ids : manifest.ids[n] # cur[t]]_vars

Wedged == overlap \/ phase # "up"

\* Every put returns, 0 or 1: with the lock taken twice and two gotos back to
\* REPEAT no put goes round for ever, while no get has touched the tables.
PutReturns == \A t \in Threads : pc[t] \in PutSteps ~> pc[t] = "idle" \/ Wedged

\* A rotated table is flushed and becomes readable from its file.
RotatedIsFlushed ==
  \A id \in Ids : status[id] = "FLUSH" ~> status[id] = "READ" \/ overlap \/ phase = "down"

\* sstmanager.h:87-92 of sstmanager_put, "put data in a sstable manager" and
\* return an int: a put in a running program returns.
PutAlwaysReturns == \A t \in Threads : pc[t] \in PutSteps ~> pc[t] = "idle" \/ phase # "up"
===============================================================================
