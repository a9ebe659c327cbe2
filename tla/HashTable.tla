------------------------------- MODULE HashTable -------------------------------
(****************************************************************************)
(* One in-memory hash table of libsstable (hashtable.c) while caller        *)
(* threads put and get and one thread (a pool worker, or the closing        *)
(* thread) flushes it to its file.  The model starts after hashtable_build. *)
(*                                                                          *)
(* Memory is kept at the level of data_t items: a cell is one data_t that a *)
(* caller made with create_data and hands to exactly one hashtable_put.     *)
(* Chains are the C pointers themselves, so a pointer read too early stays  *)
(* what it was.  xfree marks a cell; a later dereference of it is undefined *)
(* behaviour, for which two outcomes are kept: the old contents are still   *)
(* there, or the process dies (Fault).                                      *)
(****************************************************************************)
EXTENDS Integers, Sequences, FiniteSets

CONSTANTS
  Threads,    \* threads calling hashtable_put and hashtable_get
  Keys,
  Cells,      \* the data items the callers will put, each at most once
  NBuckets,   \* htable->bucket_szie
  Hash,       \* Hash[k]: hash_value % bucket_szie of the key
  Max,        \* htable->max
  NULL        \* the null pointer, and "no owner" of a lock

Buckets == 0 .. NBuckets - 1

ASSUME SizesAssumption == NBuckets \in Nat \ {0} /\ Max \in Nat
ASSUME HashAssumption  == Hash \in [Keys -> Buckets]
ASSUME NullAssumption  == NULL \notin Cells \cup Threads

VARIABLES
  cellKey,       \* cellKey[c]: the key in cell c; fixed by the workload
  buckets,       \* htable->buckets: first cell of each chain
  next,          \* next[c]: c->next
  freed,         \* cells passed to xfree
  key_num,       \* htable->key_num
  bucket_locks,  \* owner of each bucket mutex
  num_lock,      \* owner of the counter mutex
  pc,            \* where each thread is
  arg,           \* the cell being put, or the key being got
  p, q,          \* the two walking pointers of hashtable_put
  status,        \* of the table's sstable: "WRITE", "FLUSH" or "READ"
  fpc,           \* where the flusher is
  fb, fpos,      \* the flusher's bucket index and cell pointer
  file_head,     \* the key_num written by hashtable_writehead
  file_data,     \* the cells written by hashtable_writedata, in file order
  faulted,       \* the process died on a freed cell
  \* history, read by the properties only
  linked,        \* cells that some put has linked into a chain
  full,          \* a put has returned 1
  staleHead,     \* some put locked a bucket whose head had changed since it read it
  quiet          \* no put was in progress when the flush began

memory  == <<buckets, next, freed, key_num>>
locks   == <<bucket_locks, num_lock>>
locals  == <<pc, arg, p, q>>
flusher == <<status, fpc, fb, fpos, file_head, file_data>>
history == <<linked, full, staleHead, quiet>>
vars    == <<cellKey, memory, locks, locals, flusher, faulted, history>>

PutSteps == {"put_head", "put_lock", "put_walk", "put_replace", "put_num",
             "put_check", "put_incr", "put_link", "put_ok", "put_full"}
GetSteps == {"get_lock", "get_walk"}

\* The put steps between TakeLock(hashlock) and unTakeLock(hashlock).
PutLocked == PutSteps \ {"put_head", "put_lock"}

Putting(t) == pc[t] \in PutSteps

\* The bucket a thread's put or get works on.
BucketOfPut(t) == Hash[cellKey[arg[t]]]
BucketOfGet(t) == Hash[arg[t]]

-----------------------------------------------------------------------------
Init ==
  /\ cellKey \in [Cells -> Keys]
  /\ buckets = [b \in Buckets |-> NULL]
  /\ next = [c \in Cells |-> NULL]
  /\ freed = {}
  /\ key_num = 0
  /\ bucket_locks = [b \in Buckets |-> NULL]
  /\ num_lock = NULL
  /\ pc = [t \in Threads |-> "idle"]
  /\ arg = [t \in Threads |-> NULL]
  /\ p = [t \in Threads |-> NULL]
  /\ q = [t \in Threads |-> NULL]
  /\ status = "WRITE"
  /\ fpc = "idle"
  /\ fb = 0
  /\ fpos = NULL
  /\ file_head = 0
  /\ file_data = <<>>
  /\ faulted = FALSE
  /\ linked = {}
  /\ full = FALSE
  /\ staleHead = FALSE
  /\ quiet = FALSE

Step(t, from, to) ==
  /\ ~faulted
  /\ pc[t] = from
  /\ pc' = [pc EXCEPT ![t] = to]
  /\ UNCHANGED <<cellKey, faulted>>

-----------------------------------------------------------------------------
(* hashtable_put, with the status test of sst_put that precedes it *)

\* A cell nobody has handed to a put yet.
Fresh(c) == c \notin linked /\ \A t \in Threads : Putting(t) => arg[t] # c

StartPut(t, c) ==
  /\ Step(t, "idle", "put_head")
  /\ status = "WRITE"
  /\ Fresh(c)
  /\ arg' = [arg EXCEPT ![t] = c]
  /\ UNCHANGED <<memory, locks, p, q, flusher, history>>

\* p = htable->buckets[...], before the lock is taken
PutReadHead(t) ==
  /\ Step(t, "put_head", "put_lock")
  /\ p' = [p EXCEPT ![t] = buckets[BucketOfPut(t)]]
  /\ UNCHANGED <<memory, locks, arg, q, flusher, history>>

\* Mutant of PutLock: the bucket mutex is not waited for.
PutLockNoWait(t) ==
  /\ Step(t, "put_lock", "put_walk")
  /\ bucket_locks' = [bucket_locks EXCEPT ![BucketOfPut(t)] = t]
  /\ staleHead' = (staleHead \/ p[t] # buckets[BucketOfPut(t)])
  /\ UNCHANGED <<memory, num_lock, arg, p, q, flusher, linked, full, quiet>>

PutLock(t) ==
  /\ Step(t, "put_lock", "put_walk")
  /\ bucket_locks[BucketOfPut(t)] = NULL
  /\ bucket_locks' = [bucket_locks EXCEPT ![BucketOfPut(t)] = t]
  /\ staleHead' = (staleHead \/ p[t] # buckets[BucketOfPut(t)])
  /\ UNCHANGED <<memory, num_lock, arg, p, q, flusher, linked, full, quiet>>

\* while (p && Comparator(*p, *data)) { q = p; p = p->next; }
PutWalkOn(t) ==
  /\ Step(t, "put_walk", "put_walk")
  /\ p[t] # NULL
  /\ cellKey[p[t]] # cellKey[arg[t]]
  /\ q' = [q EXCEPT ![t] = p[t]]
  /\ p' = [p EXCEPT ![t] = next[p[t]]]
  /\ UNCHANGED <<memory, locks, arg, flusher, history>>

PutWalkFound(t) ==
  /\ Step(t, "put_walk", "put_replace")
  /\ p[t] # NULL
  /\ cellKey[p[t]] = cellKey[arg[t]]
  /\ UNCHANGED <<memory, locks, arg, p, q, flusher, history>>

PutWalkEnd(t) ==
  /\ Step(t, "put_walk", "put_num")
  /\ p[t] = NULL
  /\ UNCHANGED <<memory, locks, arg, p, q, flusher, history>>

\* What the mutants of PutReplace leave as it is.
ReplaceFrame == UNCHANGED <<locks, arg, p, q, flusher, full, staleHead, quiet>>

\* Mutant of PutReplace: q->next = data is missing.
PutReplaceNotLinked(t) ==
  /\ Step(t, "put_replace", "put_ok")
  /\ buckets' = IF q[t] = NULL THEN [buckets EXCEPT ![BucketOfPut(t)] = arg[t]] ELSE buckets
  /\ next' = [next EXCEPT ![arg[t]] = next[p[t]]]
  /\ freed' = freed \cup {p[t]}
  /\ linked' = linked \cup {arg[t]}
  /\ UNCHANGED key_num
  /\ ReplaceFrame

\* Mutant of PutReplace: a replacement is counted too, as sstdata_put does.
PutReplaceCounts(t) ==
  /\ Step(t, "put_replace", "put_ok")
  /\ IF q[t] # NULL
     THEN /\ next' = [next EXCEPT ![q[t]] = arg[t], ![arg[t]] = next[p[t]]]
          /\ UNCHANGED buckets
     ELSE /\ buckets' = [buckets EXCEPT ![BucketOfPut(t)] = arg[t]]
          /\ next' = [next EXCEPT ![arg[t]] = next[p[t]]]
  /\ freed' = freed \cup {p[t]}
  /\ linked' = linked \cup {arg[t]}
  /\ key_num' = key_num + 1
  /\ ReplaceFrame

\* q->next = data (or the head), data->next = p->next, xfree(p): one step for
\* whoever takes the bucket's mutex; what the flusher may see in between is
\* HalfLinked.
PutReplace(t) ==
  /\ Step(t, "put_replace", "put_ok")
  /\ IF q[t] # NULL
     THEN /\ next' = [next EXCEPT ![q[t]] = arg[t], ![arg[t]] = next[p[t]]]
          /\ UNCHANGED buckets
     ELSE /\ buckets' = [buckets EXCEPT ![BucketOfPut(t)] = arg[t]]
          /\ next' = [next EXCEPT ![arg[t]] = next[p[t]]]
  /\ freed' = freed \cup {p[t]}
  /\ linked' = linked \cup {arg[t]}
  /\ UNCHANGED <<key_num, locks, arg, p, q, flusher, full, staleHead, quiet>>

\* Mutant of PutNumLock: the counter is tested and raised without its mutex.
PutNumNoWait(t) ==
  /\ Step(t, "put_num", "put_check")
  /\ num_lock' = t
  /\ UNCHANGED <<memory, bucket_locks, arg, p, q, flusher, history>>

PutNumLock(t) ==
  /\ Step(t, "put_num", "put_check")
  /\ num_lock = NULL
  /\ num_lock' = t
  /\ UNCHANGED <<memory, bucket_locks, arg, p, q, flusher, history>>

PutCheckFull(t) ==
  /\ Step(t, "put_check", "put_full")
  /\ key_num >= Max
  /\ num_lock' = NULL
  /\ UNCHANGED <<memory, bucket_locks, arg, p, q, flusher, history>>

PutCheckRoom(t) ==
  /\ Step(t, "put_check", "put_incr")
  /\ key_num < Max
  /\ UNCHANGED <<memory, locks, arg, p, q, flusher, history>>

PutIncr(t) ==
  /\ Step(t, "put_incr", "put_link")
  /\ key_num' = key_num + 1
  /\ num_lock' = NULL
  /\ UNCHANGED <<buckets, next, freed, bucket_locks, arg, p, q, flusher, history>>

PutLink(t) ==
  /\ Step(t, "put_link", "put_ok")
  /\ next' = [next EXCEPT ![arg[t]] = buckets[BucketOfPut(t)]]
  /\ buckets' = [buckets EXCEPT ![BucketOfPut(t)] = arg[t]]
  /\ linked' = linked \cup {arg[t]}
  /\ UNCHANGED <<freed, key_num, locks, arg, p, q, flusher, full, staleHead, quiet>>

\* the locals of a call end with it
Forget(t) ==
  /\ arg' = [arg EXCEPT ![t] = NULL]
  /\ p' = [p EXCEPT ![t] = NULL]
  /\ q' = [q EXCEPT ![t] = NULL]

\* unTakeLock(hashlock), return 0
PutReturn(t) ==
  /\ Step(t, "put_ok", "idle")
  /\ bucket_locks' = [bucket_locks EXCEPT ![BucketOfPut(t)] = NULL]
  /\ Forget(t)
  /\ UNCHANGED <<memory, num_lock, flusher, history>>

\* Mutant of PutReturnFull: the early return keeps the bucket mutex.
PutReturnFullLocked(t) ==
  /\ Step(t, "put_full", "idle")
  /\ full' = TRUE
  /\ Forget(t)
  /\ UNCHANGED <<memory, locks, flusher, linked, staleHead, quiet>>

\* unTakeLock(hashlock), return 1: the table is full and the cell is not in it
PutReturnFull(t) ==
  /\ Step(t, "put_full", "idle")
  /\ bucket_locks' = [bucket_locks EXCEPT ![BucketOfPut(t)] = NULL]
  /\ full' = TRUE
  /\ Forget(t)
  /\ UNCHANGED <<memory, num_lock, flusher, linked, staleHead, quiet>>

-----------------------------------------------------------------------------
(* hashtable_get *)

\* the test of key_num before any lock; a get that fails it returns at once
StartGet(t, k) ==
  /\ Step(t, "idle", "get_lock")
  /\ key_num > 0
  /\ arg' = [arg EXCEPT ![t] = k]
  /\ UNCHANGED <<memory, locks, p, q, flusher, history>>

\* Mutant of GetLock: the get does not wait for the bucket mutex.
GetLockNoWait(t) ==
  /\ Step(t, "get_lock", "get_walk")
  /\ bucket_locks' = [bucket_locks EXCEPT ![BucketOfGet(t)] = t]
  /\ p' = [p EXCEPT ![t] = buckets[BucketOfGet(t)]]
  /\ UNCHANGED <<memory, num_lock, arg, q, flusher, history>>

GetLock(t) ==
  /\ Step(t, "get_lock", "get_walk")
  /\ bucket_locks[BucketOfGet(t)] = NULL
  /\ bucket_locks' = [bucket_locks EXCEPT ![BucketOfGet(t)] = t]
  /\ p' = [p EXCEPT ![t] = buckets[BucketOfGet(t)]]
  /\ UNCHANGED <<memory, num_lock, arg, q, flusher, history>>

GetWalkOn(t) ==
  /\ Step(t, "get_walk", "get_walk")
  /\ p[t] # NULL
  /\ cellKey[p[t]] # arg[t]
  /\ p' = [p EXCEPT ![t] = next[p[t]]]
  /\ UNCHANGED <<memory, locks, arg, q, flusher, history>>

\* the walk stopped on a match: release the bucket and return the cell
GetFound(t) ==
  /\ Step(t, "get_walk", "idle")
  /\ p[t] # NULL
  /\ cellKey[p[t]] = arg[t]
  /\ bucket_locks' = [bucket_locks EXCEPT ![BucketOfGet(t)] = NULL]
  /\ Forget(t)
  /\ UNCHANGED <<memory, num_lock, flusher, history>>

\* the walk fell off the chain: release the bucket and return NULL
GetMiss(t) ==
  /\ Step(t, "get_walk", "idle")
  /\ p[t] = NULL
  /\ bucket_locks' = [bucket_locks EXCEPT ![BucketOfGet(t)] = NULL]
  /\ Forget(t)
  /\ UNCHANGED <<memory, num_lock, flusher, history>>

-----------------------------------------------------------------------------
(* sst_flush: hashtable_writehead, hashtable_writedata, status = READ.  It   *)
(* takes no lock of the table.  It starts when a put has returned 1          *)
(* (sstmanager_put sets FLUSH and queues the job) or, from sstmanager_flush, *)
(* when the callers are done.                                                *)

FlusherStep(from, to) ==
  /\ ~faulted
  /\ fpc = from
  /\ fpc' = to
  /\ UNCHANGED <<cellKey, memory, locks, locals, faulted, linked, full, staleHead>>

StartFlush ==
  /\ FlusherStep("idle", "head")
  /\ status = "WRITE"
  /\ full \/ \A t \in Threads : ~Putting(t)
  /\ status' = "FLUSH"
  /\ quiet' = \A t \in Threads : ~Putting(t)
  /\ UNCHANGED <<fb, fpos, file_head, file_data>>

FlushHead ==
  /\ FlusherStep("head", "bucket")
  /\ file_head' = key_num
  /\ fb' = 0
  /\ UNCHANGED <<status, fpos, file_data, quiet>>

\* The new items of replacements in bucket b behind cell c (NULL: at the head)
\* that are linked already while their own next pointer is still NULL.
HalfLinked(b, c) ==
  {arg[t] : t \in {u \in Threads : pc[u] = "put_replace" /\ q[u] = c /\ BucketOfPut(u) = b}}

\* Mutant of FlushBucket: i <= bucket_szie, the slot past the end read as NULL.
FlushBucketPastEnd ==
  /\ FlusherStep("bucket", "chain")
  /\ fb <= NBuckets
  /\ fpos' = IF fb < NBuckets THEN buckets[fb] ELSE NULL
  /\ UNCHANGED <<status, fb, file_head, file_data, quiet>>

FlushBucket ==
  /\ FlusherStep("bucket", "chain")
  /\ fb < NBuckets
  /\ fpos' \in {buckets[fb]} \cup HalfLinked(fb, NULL)
  /\ UNCHANGED <<status, fb, file_head, file_data, quiet>>

FlushCell ==
  /\ FlusherStep("chain", "chain")
  /\ fpos # NULL
  /\ file_data' = Append(file_data, fpos)
  /\ fpos' \in {next[fpos]} \cup HalfLinked(fb, fpos)
  /\ UNCHANGED <<status, fb, file_head, quiet>>

FlushChainEnd ==
  /\ FlusherStep("chain", "bucket")
  /\ fpos = NULL
  /\ fb' = fb + 1
  /\ UNCHANGED <<status, fpos, file_head, file_data, quiet>>

\* Mutant of FlushEnd: the last bucket is left out.
FlushEndEarly ==
  /\ FlusherStep("bucket", "done")
  /\ fb >= NBuckets - 1
  /\ status' = "READ"
  /\ UNCHANGED <<fb, fpos, file_head, file_data, quiet>>

FlushEnd ==
  /\ FlusherStep("bucket", "done")
  /\ fb = NBuckets
  /\ status' = "READ"
  /\ UNCHANGED <<fb, fpos, file_head, file_data, quiet>>

-----------------------------------------------------------------------------
(* Undefined behaviour: the process may die wherever it uses a freed cell *)

UsesFreed(t) ==
  \/ pc[t] \in {"put_walk", "put_replace", "get_walk"} /\ p[t] \in freed
  \/ pc[t] = "put_replace" /\ q[t] \in freed

FlusherUsesFreed == fpc = "chain" /\ fpos \in freed

Fault ==
  /\ ~faulted
  /\ FlusherUsesFreed \/ \E t \in Threads : UsesFreed(t)
  /\ faulted' = TRUE
  /\ UNCHANGED <<cellKey, memory, locks, locals, flusher, history>>

-----------------------------------------------------------------------------
PutStep(t) ==
  \/ PutReadHead(t) \/ PutLock(t)
  \/ PutWalkOn(t) \/ PutWalkFound(t) \/ PutWalkEnd(t) \/ PutReplace(t)
  \/ PutNumLock(t) \/ PutCheckFull(t) \/ PutCheckRoom(t) \/ PutIncr(t)
  \/ PutLink(t) \/ PutReturn(t) \/ PutReturnFull(t)

GetStep(t) == GetLock(t) \/ GetWalkOn(t) \/ GetFound(t) \/ GetMiss(t)

Flush ==
  \/ StartFlush \/ FlushHead \/ FlushBucket \/ FlushCell
  \/ FlushChainEnd \/ FlushEnd

Next ==
  \/ \E t \in Threads :
       \/ \E c \in Cells : StartPut(t, c)
       \/ PutStep(t)
       \/ \E k \in Keys : StartGet(t, k)
       \/ GetStep(t)
  \/ Flush
  \/ Fault

Spec == Init /\ [][Next]_vars

-----------------------------------------------------------------------------
(* Properties *)

Pointers == Cells \cup {NULL}
Owners   == Threads \cup {NULL}
Live     == linked \ freed

\* Every value the variables can hold; the types the proofs rest on.
TypeOK ==
  /\ cellKey \in [Cells -> Keys]
  /\ buckets \in [Buckets -> Pointers]
  /\ next \in [Cells -> Pointers]
  /\ freed \subseteq Cells
  /\ key_num \in Nat
  /\ bucket_locks \in [Buckets -> Owners]
  /\ num_lock \in Owners
  /\ pc \in [Threads -> PutSteps \cup GetSteps \cup {"idle"}]
  /\ arg \in [Threads -> Pointers \cup Keys]
  /\ p \in [Threads -> Pointers]
  /\ q \in [Threads -> Pointers]
  /\ status \in {"WRITE", "FLUSH", "READ"}
  /\ fpc \in {"idle", "head", "bucket", "chain", "done"}
  /\ fb \in 0 .. NBuckets
  /\ fpos \in Pointers
  /\ file_head \in Nat
  /\ file_data \in Seq(Cells)
  /\ faulted \in BOOLEAN
  /\ linked \subseteq Cells
  /\ full \in BOOLEAN
  /\ staleHead \in BOOLEAN
  /\ quiet \in BOOLEAN

\* The chains, without recursion: a cell is in the table when it belongs to
\* every set that holds the bucket heads and is closed under next.
ClosedUnderNext(S) ==
  /\ \A b \in Buckets : buckets[b] # NULL => buckets[b] \in S
  /\ \A c \in S : next[c] # NULL => next[c] \in S

InTable(c) == \A S \in SUBSET Cells : ClosedUnderNext(S) => c \in S

\* The table never counts more entries than its capacity, however the puts of
\* several buckets interleave on the counter lock (hashtable_put, key_num).
KeyNumBound == key_num <= Max

\* The two uses of the counter: it is the number of live cells, except for the
\* puts that have counted themselves and not linked yet.  Holds as long as no
\* put worked from an outdated bucket head.
CountMatches ==
  ~staleHead =>
    key_num = Cardinality(Live) + Cardinality({t \in Threads : pc[t] = "put_link"})

\* A cell that a put has linked stays in the chains until a put of its own key
\* frees it, whatever the other threads replace or insert around it, as long
\* as no put worked from an outdated bucket head.
NoLostPut == ~staleHead => \A c \in Live : InTable(c)

\* The chains never run through a cell already given back to the allocator,
\* under the same condition.
NoFreedInTable == ~staleHead => \A c \in freed : ~InTable(c)

\* A key has one live cell: a put of a key that is there replaces it.  Same
\* condition: with an outdated head two puts of a new key link it twice.
UniqueKeys ==
  ~staleHead => \A c, d \in Live : cellKey[c] = cellKey[d] => c = d

\* No thread inside hashtable_put or hashtable_get dereferences a cell that
\* another put has freed, under the same condition.
NoUseAfterFree == ~staleHead => \A t \in Threads : ~UsesFreed(t)

\* The three together: the chains of a table hold exactly what can be used.
ChainsSafe == NoLostPut /\ NoFreedInTable /\ NoUseAfterFree

\* A get that answers NULL is right: the table holds no live cell of the key
\* at the moment the get lets its bucket go.
GetMissIsRight ==
  [][\A t \in Threads :
       pc[t] = "get_walk" /\ pc'[t] = "idle" /\ p[t] = NULL /\ ~staleHead
         => \A c \in Live : cellKey[c] # arg[t]]_vars

\* A flush that begins when no put is in progress writes exactly the live
\* cells, each once, and their number in the head: what hashtable_open reads.
QuietFlushExact ==
  fpc = "done" /\ quiet /\ ~staleHead =>
    /\ {file_data[i] : i \in DOMAIN file_data} = Live
    /\ Len(file_data) = Cardinality(Live)
    /\ file_head = Cardinality(Live)

\* The owner of the mutex a call waits for, NULL when it waits for none.
WaitsFor(t) ==
  CASE pc[t] = "put_lock" -> bucket_locks[BucketOfPut(t)]
    [] pc[t] = "get_lock" -> bucket_locks[BucketOfGet(t)]
    [] pc[t] = "put_num"  -> num_lock
    [] OTHER -> NULL

CanRun(t) == pc[t] # "idle" /\ WaitsFor(t) = NULL

\* Nobody waits for ever on the mutexes of a table: the owner of the one a call
\* waits for is in a call and can run, or waits for the counter mutex, and its
\* owner can run.  A path of hashtable_put that kept a mutex, or the two taken
\* in the other order, would break it.
WaitsEnd ==
  \A t \in Threads :
    LET u == WaitsFor(t) IN
    u # NULL => CanRun(u) \/ (WaitsFor(u) # NULL /\ CanRun(WaitsFor(u)))

\* What hashtable.c says of its insert (lines 164-165 and 177): a put adds a
\* cell at the head of the bucket only when the bucket holds no equal key.
LinkOnlyIfAbsent ==
  [][\A t \in Threads :
       pc[t] = "put_link" /\ pc'[t] = "put_ok"
         => ~\E c \in Cells : InTable(c) /\ cellKey[c] = cellKey[arg[t]]]_vars
===============================================================================
