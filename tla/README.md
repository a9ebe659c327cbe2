# A TLA+ model of MySSTable

MySSTable is a small key-value store: an in-memory hash table per "sorted table", a manager that keeps
a list of such tables and writes full ones to disk, a thread pool for that writing, a TCP server around
the manager and a client library. Beside these the repository holds a compaction of tables, a sorted table, a
streaming hash and a bloom filter, of which only the hash is called by the rest. This directory holds TLA+ modules translated from that code, the TLC
configurations that check them, and theorems that TLAPS proves about them. All source paths below are
relative to the repository.

Contents: [the system](#the-system) · [modules](#the-modules-and-the-code) · [runs](#the-runs) ·
[fairness](#fairness) · [findings](#what-the-runs-found) · [proofs](#the-proofs) ·
[not modelled](#what-is-not-modelled) · [plan](#plan).

## The system

| component | files | state | operations | used by |
|---|---|---|---|---|
| hash table of a table | `libsstable/src/hashtable.c`, `sst.c` | buckets, chains of `data_t`, `key_num`, a mutex per bucket and one for the counter, the table's `status` | `hashtable_put`, `_get`, `_writehead`, `_writedata`, `_open`, `_close`, `sst_put`, `sst_get`, `sst_open`, `sst_flush` | manager |
| table manager | `sstmanager.c` | list `uncompact`, `sst_num`, `current_id`, `writetable`, lock, Manifest file | `_new`, `_open`, `_put`, `_get`, `_flush`, `_close` (and compaction) | server, the tests |
| thread pool | `threadpool.c` | job list, `jobNum`, `doShutDown`, mutex, condition | `_new`, `_init`, `_addJob`, `func` (worker), `_destroy` | manager, for flush jobs |
| network server | `libnet/src/Server.c`, `ConnectHandler.c`, `MessageHandler.c`, `smain.c` | work list, `bIsRunning`, mutex, condition, event loop | `OnConnection`, `echo_read`, `AddWork`, `GetWork`, `ThreadFunc`, `Handler`, `SignalFunc` and the start and stop functions | clients |
| client and messages | `client/client.c`, `clientbase.c`, `common/Message.c` | one connection, one buffer | `Put`, `Get`, `SendBase`, the `Create...` and `Parse...` functions | applications |
| compaction | `sstmanager.c:216-485`, `hashtable.c:295-431`, `sst.c` | the list from `head`, sorted arrays and merge positions of the tables, the new tables' files | `sstmanager_checkcompact`, `_compact`, `createsst`, `findsmallest`, `rmsst`, `hashtable_nextdata`, `_sort`, `_compactput` | nothing: the thread that would call it is commented out |
| sorted table | `sstdata.c` | sorted array, smallest and greatest key, file | `sstdata_put`, `_get`, `_open`, `_writehead`, `_writedata`, `_compactput`, sort | nothing else in the repository |
| buffers, items and codec | `buffer.c`, `common.c` | byte buffer with a write and a read position | `buffer_put...`, `buffer_get...`, `create_data`, the comparators | table files, filters |
| hash | `PMurHash.c` | running hash and carry | `PMurHash32_Process`, `_Result`, `PMurHash32` | items, hash tables |
| bloom filter | `tinybloom.c` | bit array | create, add, check, intersect, destroy | nothing else in the repository |
| logging, allocation, libuv | `debug.c`, `xmalloc.c`, `libuv/` | - | - | all |

How they interact. A client's `Put` goes as one message over TCP to the event loop of the server, which
queues it; a handler thread takes it and calls `sstmanager_put`. The put goes to the table in status
WRITE; a put that finds it full takes the manager's lock, sets it to FLUSH, hands a job to the pool and
creates the next table. A worker of the pool writes the file and sets READ. A get walks the list of
tables without the manager's lock, and opens a table from its file (UNOPEN to READ) when it meets it. At
the end `sstmanager_flush` writes the Manifest and the tables in WRITE, `sstmanager_close` destroys the
pool (which waits for its jobs) and frees the tables. The next start reads the Manifest.

What is hard: three layers of locks that do not cover everything they seem to (the bucket head read
before its lock, the status tested before the counter, the list walked without a lock), flush jobs that
run at any later time, crashes between the Manifest and the files it lists, condition variables signalled
outside their mutex, a shutdown that runs beside the threads it stops, and clients that give up on a
reply but keep the connection. `PROJECT.json` lists each of these hazards at its line.

What makes each component correct:

* hash table: what a put linked is found until a put of its key replaces it; no freed item in a chain
  or under a walking pointer; the counter counts, and never passes the capacity; a flush writes exactly
  the items; nobody waits for ever for a mutex.
* table manager: one writing table; a full table is flushed once; a get finds an acknowledged item and
  never an outdated one; what was acknowledged is on disk after a close and after a restart; puts return.
* thread pool: it is a queue: jobs are taken in order, each is run once, none is dropped, no wakeup is
  lost, and the pool is freed only when it is idle.
* server and client: an answer belongs to its request; an acknowledged put is stored; no request
  waits for ever; an orderly shutdown loses nothing.
* compaction: the new tables are in order and hold each key once, the newest item of it; whenever it is cut off,
  the files still hold every key.
* sorted table: puts keep it sorted; a get finds the item last put; what was written is read back.
* hash: the pieces in which the data come, and where they lie, make no difference. Bloom filter: what was added is
  found.

## The modules and the code

| module | models | proofs | instance |
|---|---|---|---|
| `HashTable` | one hash table under concurrent puts and gets and one flush | `HashTableProofs` | `MCHashTable` |
| `ThreadPool` | the pool, with mutex, wait set and flag | `ThreadPoolProofs` | `MCThreadPool` |
| `JobPool` | what users of the pool expect: a queue of jobs, workers, closing when idle | - | - |
| `SSTManager` | the manager, its tables, files, Manifest, restarts and crashes | `SSTManagerProofs` | `MCSSTManager` |
| `Network` | clients, connections, event loop, handler threads, shutdown | `NetworkProofs` | `MCNetwork` |
| `Data` | the item of a table, its order and its versions | `BufferProofs` | - |
| `Buffer` | the byte buffer, and integers and items in it | `BufferProofs`, `SortedTableProofs` | - |
| `Murmur` | the hash fed in pieces | `BloomFilterProofs` | `MCBloomFilter` |
| `BloomFilter` | filters that are given hashes, merged, saved and loaded | `BloomFilterProofs` | `MCBloomFilter` |
| `SortedTable` | one sorted table from building to reopening, with crashes | `SortedTableProofs` | `MCSortedTable` |
| `Compaction` | one compaction of the manager's tables | `CompactionProofs` | `MCCompaction` |

How they fit together. The levels are composed by abstraction, not by one product: `ThreadPool` is shown
to implement `JobPool`, and `SSTManager` uses the pool as `JobPool` describes it (a job is queued, runs
at some later time, and `threadPool_destroy` waits until all are done). `SSTManager` reduces a hash table
to its items and counter, which is what `HashTable` shows of it while no put works from an outdated
bucket head. `Network` reduces the manager to the sets of keys in memory and on disk; its `Flush` starts
only when the handlers have been joined, which is the condition under which `SSTManager` lets
`sstmanager_flush` begin (no call in progress). The modules below them share code instead: `Buffer` extends
`Data`; `SortedTable` and `Compaction` extend `Buffer`, and `BloomFilter` extends `Buffer` and `Murmur`: its steps are the steps of
a hash computation interleaved with those of the filters that get the result. The hash of a key is an
arbitrary function in the modules above; `Murmur` shows that it is a function of the bytes alone.

**`HashTable`.** Variables carry the names of the C fields (`buckets`, `next`, `key_num`, `bucket_locks`,
`num_lock`); `p` and `q` are the walking pointers of `hashtable_put`, `pc` the place of each thread. One
action per step that another thread can see: reading the head (line 147) and locking (157) are two,
since that is where a head gets outdated; the walk goes cell by cell. Freed cells stay in the model, and
touching one either finds the old contents or ends the process (`Fault`). A replacement is
one step, under the lock of its bucket; the flusher takes no lock and may meet the new cell before its next pointer is set
(`HalfLinked`). History variables, read by
properties only, are `linked`, `full`, `staleHead`, `quiet`. Reachability needs no recursion: a cell is
`InTable` when it belongs to every set that contains the bucket heads and is closed under `next`.

**`ThreadPool`.** `waiting` is the wait set of the condition; a signal moves one member to `woken`, a
broadcast all; `SpuriousWakeup` moves one for no reason. `threadPool_destroy` polls `jobNum` outside the
mutex; since the field is a plain `int`, a compiler may read it once, so there are two outcomes
(`DestroySpinEnd`, `DestroySpinForever`).

**`SSTManager`.** `sstmanager_put` is split at every access that races: `PutStart`, creation of a table
(`CreateAdd`, `CreateOpen`, `CreateWrite`), the reservation in the counter and the linking of the item,
the rotation by the first or a later put, the return codes 0, 1 and 2 and the two gotos to REPEAT.
`sstmanager_get` is split into reading `sst_num`, reading the head, and per table the test of its
status, `sst_open` in three steps, the search and the move to the next. `JobHead` and `JobData` are the
flush job, `FlushManifest...`, `FlushHead/Data/Skip/Done` and `Close` the end of a run, `Crash` the
death of the process at any moment (or when it reads what is not there), `OpenNew` and `OpenManifest` the
next start. Files are written in two steps (head, data), and so is the Manifest. A table can get several
hash tables, because a get that meets it too early opens it again: `Tables` is the set of pairs of an id
and the thread that made the hash table. `sst_open` goes through `sst->htable` twice; the model opens the hash table the same thread has
just made. When another thread has put its own there in between, the two work on one hash table, one buffer and one file:
the process may then die (`SharedTable`); other outcomes of that are not modelled. All of these are states with `overlap` or `twice`.

**`Network`.** `toServer` and `toClient` are the two directions of each connection; `pWorkList`,
`bIsRunning` and the handlers' `hpc` are `stConnectHandler`; `lpc` is the event loop, `spc` the thread that runs
`SignalFunc`. `DeleteLoop` frees a loop that may still run, which it survives or not; `Flush` leaves the
full tables to the pool, `Close` waits for their jobs. The signal handler is a thread of its own, as in the C runtime of Windows, the only
platform the project files are for. A connection carries bytes, not messages: `EchoRead` takes what one read gave, which
may be several requests, as one piece of work, and `EchoReadPart` takes what ends inside a request, so that its `"first"` part and
the `"rest"` of it come in two pieces of work. A part fails an assertion of its parser (`MsgHandlerAssertFails`), which may also crash on the sizes
it reads, or begins like no request and is answered by the default handler (`MsgHandlerDefault`, "hello kitty"). A client
takes for its reply what has arrived when it looks (`Receive`); that may end inside a reply (`ReceivePart`), also because
the handler is blocked in the middle of it. `InitServer` starts over the tables of an earlier run or none. Of the manager `Network` has, besides the
keys, the status of the first table (`head`): a put does not return when that is READ (`PutForever`), which
`SSTManager` shows in detail. `send` into a full buffer makes the handler wait in a `select` without a timeout until the client sends or
closes (`SendBlocks`, `SelectReturns`). Messages have an `id` that no action
reads: it says which call a message belongs to, and only the properties look at it. Assertions are
compiled in, as in the Debug configurations of the server; a failed one ends the process. With NDEBUG a
parser goes on behind the end of the message instead.

**`Data`, `Buffer`.** No state, only operators with the names of the functions: a `data_t` is a record, a version eight
bytes, a buffer its bytes with `SEEK`, `NUL` and `buflen`. `buffer_getint` masks the sign of each byte away,
`buffer_getlong` does not (`buffer.c:203`), so that a version with a byte above 127 below its last one is read
back as another (`Plain` says when not). The files are written by `fwrite(buffer_detach(b), ..., b->NUL, file)`: `buffer_detach`
sets `NUL` to 0, and C leaves the order of the arguments open. The compilers of the project files evaluate the last one
first, as `Written` says; in the other order every file would be empty.

**`Murmur`.** The code never looks at a byte's value, so byte `k` of the data is the number `k`, and the running hash is
the sequence of the blocks mixed in. One action per call, loop iteration and loop end of
`PMurHash32_Process`; the address of each piece and the platform (words readable anywhere or at aligned
addresses only) are free. `AtOnce` is the hash of the same bytes in one call.

**`BloomFilter`.** `filter` holds each name's bit array, `added` remembers the keys. `size % sizeof(unsigned) * 8` is
`(size % 4) * 8` (`tinybloom.c:37`), so that a size below 32 that is a multiple of 4 gives no bucket, and an add to it divides by
zero (`crashed`). `bfilter_intersect` sets the bits of both. `destroy_bfilter` writes to what it has freed, which may end the process.

**`SortedTable`.** `phase` is where the table is in the order of calls that `sst.c` prescribes for a store: building, head and data
written, or compaction output, or closed, read and sorted. `Crash` may come between any two steps. The
halving loops are recursive functions. A put of a key that is already there counts an item more than there
is (`sstdata.c:265`): the pointer behind the last is `Uninit`, and a step that follows it ends in `fault`. `given` are the items put,
`written` those that went to the file, in order; only properties read them.

**`Compaction`.** `ids` is the array `ssts`, `disk` each table's file with the count in its head, of which only that many items
can be read. One action per round of each loop: `Precompact` opens and sorts a table, `Merge` takes the
smallest item (`findsmallest`) into the output, `RemoveNext` unlinks and deletes one table.
`manager->head` is NULL in the program as it is built, since the lines of `addsst` that set it are commented out;
the model starts from that (`Start` then ends in `fault`) and from the list those lines would make. `seen` is what `hashtable_nextdata` gave. A run
of the model is one compaction: a second one, over tables in status COMPACTED, and tables in FLUSH are not included.

## The runs

Every cfg gives small sets for the constants and replaces no definition.

| run | question | states |
|---|---|---|
| `hashtable` | do chains, counter, freed cells, mutexes and the flushed file stay right under two callers and a flush? | 750 thousand |
| `hashtable_lost` (violation) | does a put link a key only if its bucket has none? | |
| `threadpool` | lost wakeups, dropped jobs, the shutdown, and the refinement of `JobPool` | 6 thousand |
| `sstmanager` | two threads put and get over tables of one item through rotation, flush and close | 960 thousand |
| `sstmanager_returns` | does every put return, and is every rotated table flushed? | 10 thousand |
| `sstmanager_restart` | one thread, two runs of the program, the first closed or crashed anywhere | 65 thousand |
| `sst_wedge` (violation) | does a put return after a restart and a get? | |
| `network` | a client that calls twice: timeouts, messages in parts, disconnects and a shutdown at any moment; are answers true and in order, and does anything wait for ever? | 160 thousand |
| `network_miss` (violation) | does a get of a missing key parse? | |
| `hashing` | is a hash the same in any pieces, and does a filter find what was added through merges and saves? | 790 thousand |
| `sortedtable` | is the array sorted, does a get find the last put, is a file read back as written? | 210 thousand |
| `compaction` | is the merge in order, does it keep the newest items, does a crash leave every key on disk? | 240 thousand |

**Bounds and why they are enough.**
`MCHashTable`: two callers suffice for every race of the code, each of which is between a put and one
other call; three cells over two keys of one bucket and one of another give an insert, a replacement at
the head and one behind it, two puts of one key and, with `Max = 2`, the put that finds the table full.
A cell is put at most once, as `create_data` makes one per call.
`MCThreadPool`: two workers as in `sstmanager_new`, two adders and three jobs: both workers asleep when two
jobs arrive before either is signalled.
`MCSSTManager`: `Max = 1` makes every table full after one item, so that three items give up to three
rotations; two threads give every race of two puts, or of a put and a get, on the rotation. `MaxId`
bounds the ids (3, or 5 over two runs); it was checked that no put is ever held back by it in the runs
that pass, because a full table holds an item that no other has. `MaxRuns = 2` is one restart, which is
all the code treats differently. Symmetry over the threads and over the two items of one key is used
in runs without liveness only.
`MCNetwork`: one handler thread, as `ln_ServerInit` makes, and one client that calls twice (`MaxCalls`). Two calls give a late reply,
or the rest of one request, together with the next request in the queue, a get that opens the first table before a put, and a request that waits
behind a handler that is blocked. The requests of other clients meet the same queue and handler; that the safety properties hold
with any number of clients and calls is proved. A message is cut in two at most: further cuts give more pieces that begin like no request.
`MCBloomFilter`: five bytes (`MaxFed`) give leading bytes, a block over a carry and a tail, at every alignment; all longer data
are covered by the theorems. Two filters of sizes 4 (no word) and 33 (two words), one key each (`MaxAdded`) until an intersect brings more, one saved
filter (`MaxSaved`). The mixing is replaced by a sum that tells blocks apart by place and content.
`MCSortedTable`: three keys, two with one hash and one of these the beginning of the other; three items (`MAX`), which is
every order of inserts before, between and behind, and every second and third put of a key; buffer sizes (`RESERVE`, `EXTEND`, `FLUSH_AT`) that
make the buffer grow and be emptied within one file; a version that is not read back.
`MCCompaction`: three tables out of eleven contents over five keys and three buckets, chosen for what `hashtable_nextdata` does
(named in the module); output tables of two items; `MaxNew` is more than can be made of the items.

`CHECK_DEADLOCK FALSE` stands in the hash table and manager runs, where the callers run out of items and
nothing remains to do, and in the runs of the sequential parts (hashing, sorted table, compaction), which end. The pool and the server have an explicit last action (`Freed`, `Stopped`), so there a
real deadlock is reported.

**Conditions in the properties.** Several properties say under which condition the code keeps them.
The condition is a history variable, the model contains the behaviours it excludes, and the condition
names the bug:

* `staleHead` (`HashTable`): some put locked a bucket whose head had changed since it read it (line 147
  against 157). `KeyNumBound` and `WaitsEnd` hold without it.
* `quiet` (`HashTable`): no put was in progress when the flush began. A put counts itself before it
  links, so a flush beside one may write a head that counts an item the data lack.
* `overlap` (`SSTManager`): a put ran beside a get. The get takes no lock; it may open the table a put is
  creating (`sst.c:109`) or read `sst_num` before a table is added.
* `twice` (`SSTManager`): two gets opened one table at the same time (`sst.c:20`).
* `lateWrite` (`SSTManager`): a put linked its item into a table that another put had rotated.
* `late` (`Network`): clients that once found no reply in time. Their next call may take the old one.
* `split` (`Network`): clients with a message that was read in parts. `AssertsNeedCause` names the three causes for which an
  assertion fails: `late`, `split`, and the reply of a get that found nothing. `AnswersAreTrue` and `RepliesInOrder` need no such condition.
* `Wedged`, `[]Blocked` (`Network`): the handler thread is in a put that never returns or sends for ever to a closed connection, or stays
  in `select` for ever. Then requests and the join wait; otherwise they do not.
* `Uninit` (`SortedTable`): a put of a key that is there leaves a pointer unset, counted behind the others. `KeysSorted` holds of the pointers that
  are set, `GetFindsNewest` says that a get returns the item last put, or ends at the unset pointer.
* `complete`, `SetInOrder` and more than one hash (`SortedTable`): the file was written to its end; it holds its keys in order, which
  a compaction's need not before `Sort`; and the range test of `sstdata_get`, `&&` for `||`
  (`sstdata.c:289`), does not take all of the table for out of range.
* `Clean`, `Visited`, `Plain` (`Compaction`): the compaction begins with the oldest table, since `findsmallest` reads `ssts[0]` on
  whatever `begin` is (`sstmanager.c:353`); `hashtable_nextdata` (`hashtable.c:302`) returned no item twice, and did
  return the item in question; versions survive `buffer_getlong`.

## Fairness

* `SSTManager`: a thread inside a call keeps running (weak fairness per thread); a thread
  that waits for a mutex gets it although others keep taking it (strong fairness on the lock steps: the
  mutexes of the platform queue their waiters). Nobody has to call. Flush jobs and the closing
  thread run on. No fairness on faults and crashes.
* `HashTable` and the sequential modules: none; their properties are safety properties. That nobody waits for ever for a
  mutex is stated there as `WaitsEnd`: along the threads that wait for one another there is one that can run.
* `ThreadPool`: the same for workers and adders; strong fairness for the lock of the destroying
  thread. No wakeup has to be spurious.
* `Network`: the handler threads, the loop thread and, once started, the signal thread run on (weak
  fairness of each). That the loop reads every connection in turn is not assumed; with bounded calls
  it is not needed. No client has to call or to look for its reply, and the loop does not have to
  notice `uv_stop`, since nothing wakes it for that.

## What the runs found

1. `hashtable_put` reads the head of the bucket before it locks it (`hashtable.c:147`, `157`): two puts of a new key link
   it twice, and with a replacement in between a put can cut off items or walk freed memory (`hashtable_lost`).
2. After a restart, a get leaves the head of the list in status READ and from then on every put goes back to
   REPEAT for ever (`sst_wedge`): a table is only created over an UNOPEN head or an empty list.
3. The reply to a get that finds nothing says that data follow, and the client fails on it (`network_miss`).

Met while modelling, visible in the models, and contradicting no statement of the repository, so not the
subject of a run:

* Hash table and manager: a put that passed the status test in `sst_put` goes on to change a table that has meanwhile been set
  to FLUSH and written (`hashtable.c:186`, `sstmanager.c:129`; `lateWrite`). `sstmanager_open` links each listed table over the one before it, so
  that of three or more only the first and the last are in the list (`sstmanager.c:69`; `OpenManifest`). `sstmanager_close`
  closes the Manifest a second time after a flush (`sstmanager.c:187`).
* Server and client: the loop thread's return from `main` can end the process while the signal thread
  flushes (`MainReturns`); the only handler thread spins for ever on a reply to a client that has closed its
  connection (`SendReplyForever`), or waits for ever for one that does not read (`SendBlocks`), which also keeps the shutdown in its join;
  a message that one read does not give whole fails an assertion (`EchoReadPart`, `ReceivePart`); `DeleteWorkList` follows freed
  elements; a get that times out reads through a null pointer (`GetAborts`).
* Compaction: `manager->head` stays NULL; `hashtable_nextdata` passes over buckets, drops an item alone in the last one
  and may return others twice; `findsmallest` ignores `begin`; the Manifest is not written again, so that the next start
  still lists the removed tables.
* Sorted table, buffers and filter: a put that replaces a key counts one item more (`sstdata.c:265`), the range test
  (`sstdata.c:289`), the sign in `buffer_getlong` (`buffer.c:203`), the order of `fwrite`'s arguments, the size of a filter (`tinybloom.c:37`), the
  write after `free` (`tinybloom.c:52`).

## The proofs

All theorems are of the form `Spec => []P` (or a refinement) for every value of the constants that meets
the named assumptions of the module; no bound of a cfg is assumed. The provers used are Z3, Zenon and LS4.

* **`HashTableProofs`.** `TypeCorrect`. `KeyNumBounded`: `key_num <= Max` is not inductive: it needs that
  a thread between the test and the increment owns the counter lock (`LockInv`) and that there the
  counter is below `Max` (`CountInv`). `MutexesGivenBack`: nobody waits for ever for a mutex (`WaitsEnd`), since the
  owner of the counter lock waits for nothing and the owner of a bucket lock at most for the counter lock.
  Of the chains: `LinkedCellsFound`, `ChainsHoldNoFreedCell`, `WalksAreSafe`, and `ChainsAreSafe`, which joins the last two for
  the run. `ChainInv` says that as long as no
  head was outdated, every live cell is reached from a bucket, pointers lead only to live cells and each
  to one place (`LiveOnly`, `OnePointer`), cells not yet linked are in no
  chain (`FreshArgs`), and the walking pointers of the owner of a bucket lie one behind the other in its
  chain (`WalkInv`). `LinkKeepsGraph` and `ReplaceKeepsGraph` are the two pointer changes; reachability is
  the closure definition of `InTable`, so no induction over lists is needed.
* **`HashTableProofs`, the items.** `KeysAreUnique`, `CounterIsRight`, `MissesAreRight`, `QuietFlushesAreExact`. A put that reaches
  the end of the chain must know that no live cell has its key, and that nobody adds one before it links its own. While a call
  walks, every live cell of its key is still ahead of it (`Reaches`, the closure definition again, from the walking pointer instead
  of the heads); behind the end of the chain there is none, and the bucket's mutex keeps it so (`PutSearch`, `GetSearch`).
  The counter is the number of live cells and of puts between the increment and the link. For a flush no put runs beside, the cells
  written and those the flusher still reaches are all live cells, each once.
* **`ThreadPoolProofs`.** `TypeCorrect`, `WakeupsNotLost`, `NoShutDownOverJobs`, `FreedPoolIsDone`, `Refinement`. The
  invariant relates the owner of the mutex to the places of the threads (`MutexInv`), the taken job to its
  worker (`JobInv`), the flag and the queue to the destroying thread (`DestroyInv`), and adds
  `JobsKept`: what was added is queued, running or done. `StepRefines` maps each step to a step of
  `JobPool` or to a stutter.
* **`SSTManagerProofs`.** `OneWriter` and `RotatedOnce`. The invariant: a thread that creates a table holds the lock
  (`CreatorHasLock`); while it does, no table is in WRITE (`CreatorIsAlone`); the table it creates is the
  head of the list and was not rotated (`CreatesHead`); a table in WRITE is the head of the list
  (`WritesHead`); an id not yet given out has not been queued (`FreshNotQueued`). Steps that
  touch none of this are dispatched together (`QuietStep`, `ReadStep`).
  `ClosesWhenDone`: a table in FLUSH has its job until it is written, and the one table in WRITE is the first that
  `sstmanager_flush` looks at (`Ending`), so that at the close only jobs are left, which `threadPool_destroy` waits for.
  `NoListedFileEmptied`: ids fall along the list and along the Manifest, and stay below `current_id` and the Manifest's `last`
  (`ListInv`, `ManifestInv`), also through the reload that drops tables.
* **`SSTManagerProofs`, the types.** `TypesHold`. Most of `TypeOK` is plain, except the range of the counters: `key_num` of a hash table a
  get opens is what the head of a file says, and the head is a counter read while puts run. The invariant (`Counted`) says that the counter of
  a hash table is the number of its items plus the puts that have counted theirs and not linked it, that a hash table has one item per
  key, and that a get makes a hash table once, so that nobody else changes it. It is `CellInv` in `TypeInv`, which the next part uses.
* **`SSTManagerProofs`, what gets return.** `GetsAreRight` and `FilesKeepItems`, both under the conditions the properties name. The invariant has four layers.
  `StructInv`, who works with which table: puts and gets never run together (`Apart`); a table that puts fill has the hash table a put built
  (`BuiltTables`); a put that has seen WRITE works on that hash table and goes on to newer tables only (`PutTables`); a table
  is opened by one get (`OpenTables`). `ItemsInv`, what the tables have: everything in a table or its file is acknowledged (`Acks`);
  a newer table has nothing that an item of an older table outdates, nor that an item still on its way there will (`Order`); for each
  acknowledged item some table has its key, and neither that one nor a newer one has what the item outdates (`Present`); the
  tables the next start would list have all this in their files (`Reopened`). `Walks`: a get has passed only tables without
  its key, and its counter reaches the end of the list. `Written`: the file of a table that puts filled is empty until its flush ends and then
  has the table's items, with a head between the items and the counter at that moment; any other file is whole. `Present` gives the first
  theorem at the two ends of a get, and the second for the files, which `FileHasTable` shows to equal the tables after the close.
  That a lookup in the Manifest's list has a first file with the key comes from the well-foundedness of `<`.
* **`NetworkProofs`.** `ShutdownKeepsPuts`: from the join on all handlers have exited and stay so, so that
  memory does not change after the close (`JoinedForGood`, `ClosedForGood`, `ExitIsLast`).
  `TypeCorrect`, `AnswersStayTrue`, `AssertsHaveCause`. The last says that an assertion fails in a client only after a timeout, after one
  of its messages was read in parts, or on an answered miss. Messages carry no number, so that a reply is
  the reply to the last request has to come from somewhere else: a client that never timed out and whose messages were never cut
  has at most one message in the whole system. `Served` says so for each place a message can be
  (`OneAtServer`, `OneQueued`, `OneInWork`, `OneAtClient`), what the message is there, and that there is none
  outside a call (`NoneOutsideCalls`). Once a message of such a client was cut, its call never returns (`Lost`): only parts are left,
  or what the default handler answers to them (`OnlyParts`), which no parser of a reply takes. A step either drops work of the client or
  shifts the queue under it (`ElsewhereServed`, `ElsewhereLost`), or moves the one message on (`SendTreated`, `ReadTreated`,
  `GetWorkTreated`, `MsgHandlerTreated`, `DefaultTreated`, `SendReplyTreated`, `ReturnTreated`). Any number of clients and of handler threads.
  `RepliesComeInOrder` is for clients that did time out and may have several messages under way: the places of a message are stages,
  and what is at a later stage, or further ahead in the same one, is of an earlier call, or the first part of the same request. Two handler
  threads would answer two requests of one client in any order; the theorem assumes one (`OneHandler`), which is what `ln_ServerInit` makes.
* **`BloomFilterProofs`.** `FeedsAlike` (`SameAsAtOnce`) and `ReadsAreAligned` of `HashSpec`, for data of any length in any pieces at any address;
  `FiltersFeedTheHash` carries them over to `FilterSpec`, under which the run checks them. The invariant says that blocks and carry together are the bytes
  fed so far, in order and none left out, and that outside the leading bytes the carry of a platform that reads words
  anywhere is empty while there are blocks left.
  `KeysFound` (`KeysAreFound`) of `FilterSpec`. That a filter holds the bit of each of its keys (`FiltersSound`) is not inductive, since a load
  replaces a filter by what its bytes say. `SavedSound` adds the buffer: there are places from `SEEK` to `NUL`, each filter beginning where
  the one before it ends, from which filters are read that hold what was saved there. `IntReadBack` and `WordBits` are the two encodings, `ReadsWritten` puts
  them together, `PutFilter` says that a saved filter is read back from where the buffer ended, and `ReadsAsBefore` that nothing
  written behind a filter changes it. An add needs `FeedsAlike`: the hash of the pieces is the hash that a check computes at once.
* **`BufferProofs`.** Lemmas only, on what the sequential modules are built of. `SetInduction` and `Recursion` are induction over the
  naturals and the existence of a recursive function, both for a *set* in the place of the predicate, made from the well-foundedness
  of `<`: the form of induction these provers can use. `CmpKeyIs`, `StrictOrder`, `ItemOrder` and `NotGreater`: the comparators order the pairs of a hash
  and a key strictly. `IntBytesAre`, `IntReadBack` and their neighbours: four bytes hold an int.
* **`SortedTableProofs`.** `TableSorted`, `TableFinds`, `TableReopened`. Of the bytes: `PutItem` says what `buffer_putdata` appends and `GetItem` that
  `buffer_getdata` reads it, with the version as `buffer_getlong` gives it (`Reread`); a body `Holds` a list of items when each begins where the one before it ends;
  `DataWritten` follows `sstdata_writedata` through its emptied buffers and `ReadBack` follows `sstdata_open`. A file of a crash is empty, a head alone,
  or a head that counts none (`Unsaved`): the second is read beyond its end (`ReadShort`), the third as an empty table.
  Of the array: `PlaceIs` and `SearchIs` are the two halving loops, for which everything left of the bounds is less and everything right of
  them greater, until they cross, also in an array whose last pointers are unset: until the loop meets one, all it has seen is in order.
  A put of a key that is there takes the place of its item, any other goes between its neighbours, so that the set pointers lead to the items
  last put (`LastPut`). That nothing is lost is said by `Rearranged`, a bijection of the places of two arrays
  with the same items, which inserting (`RearrangedInsert`), sorting (`SortIs`), writing and reading keep. The invariant `SInv` says phase by phase what the
  array, the buffer and the file are.

* **`CompactionProofs`.** `MergedInOrderHolds`, `NewestKeptHolds`, `NoKeyLostHolds`. First the operators, for all inputs. `FlatIs` to `FlatItems`:
  what `FlattenSeq` gives. `NextDataIs`, `CollectedIs`: `hashtable_nextdata` gives only items of the table, at most as many as there are.
  `MergeIs`, `SortIs`, `ArrayIs`: the merge sort keeps the items and their number and puts them in order, strictly if none comes twice.
  `FoundIs`, by induction over the rounds of the loop (`Chosen`, one lemma for each branch of `Compare`): `findsmallest` returns a head that no
  other precedes; a table moves on only if its head is the one returned, or is beaten by a head of the same key that stays or is returned. It may pass
  over an item whose key is not the smallest, and this is why the invariant speaks of what is still ahead in every table.
  The invariant `CInv` goes through the phases. Before the merge (`Untouched`) the old files are whole and the first tables have their arrays. While tables are
  merged (`Merging`): of each key that was seen an item is in a new table or ahead of a point (`Kept`); the latest item of a key (`Top`) is
  in a new table or ahead in its own (`TopKept`); the items put are in order and below all that is ahead (`InOrder`); all new tables but the last have their heads.
  When findsmallest returns NULL nothing is ahead (`AllTaken`), so that all keys and latest items are in the new tables, whose heads are
  written before the first old table goes (`Removed`). None of the three properties is inductive without the rest.

What the assumptions on the constants say: sizes are natural numbers, `KeyOf` and `Hash` are functions, `NULL` is none of the
values it stands beside, the name `"built"` of a hash table's maker is not the name of a thread (`MakerAssumption`), and a filter is not asked for more bits than an `int`
counts (`FilterSizeAssumption`): `buffer_putint` saves their number as one. The mixing arithmetic is any function to `Nat`
(`HashNumberAssumption`). In `SortedTable` the number, the capacity and the lengths of an item are ints (`IntAssumption`), which is how `buffer_putint` writes
them; no item is `NULL` or `Uninit`, and strings have no byte 0 (`StringAssumption`). In `Compaction` a table's contents are a finite set of items with the hash of
their key and no key twice (`ContentsAssumption`), which is what `hashtable_put` makes of a table without outdated heads; no array, item or file is `NULL`
(`PointerAssumption`); a table has at least one bucket and room for one item (`SizesAssumption`).

Each inductive invariant was first checked by TLC on the instances of the runs, except that of `SortedTable`, which speaks of all
sequences of bytes: TLC checked the properties it implies.

Only model-checked: every liveness property (`EveryJobRuns`, `DestroyReturns`, `PutReturns`,
`RotatedIsFlushed`, `RequestsHandled`, `JoinReturns`), since the prover does not do fairness and
ENABLED. Every invariant and every action property that a passing run checks is a theorem.

## What is not modelled

* The byte layout of messages, and of the files in `SSTManager` and `Compaction`: a file there is a count and items, a message a
  record. `SortedTable` and `BloomFilter` write and read their bytes.
* A second compaction over the output of a first, tables still in FLUSH during a compaction, and a restart after one.
* The arithmetic of the hash (multiply, rotate, the final mixing).
* Functions that nothing calls and that change no table: `clone_data`, `buffer_putstr`, `buffer_putshort`, `buffer_scatf`, `buffer_dump`,
  `hashtable_flush`.
* Messages cut into more than two parts, and keys or values that look like the beginning of a message: what follows a first part
  begins like no request.
* What threads that share one hash table by opening one table at the same moment do to it, except that the process may die (`SharedTable`).
* What the program does with uninitialised ids after a crash that left the Manifest empty (`Torn`): the model
  stops there.
* A failing allocation, file operation or accept; logging; `Delete` of the client, a stub.
* In the modules on tables the hash function is an arbitrary constant function of the key.
* The hash table of a table in `SSTManager` has no outdated heads: those effects are shown in `HashTable`.

## Plan

Done: 1. `HashTable`; 2. `ThreadPool` implementing `JobPool`; 3. `SSTManager`; 4. `Network`; the first proofs of each;
5. `Data` and `Buffer`; 6. `Murmur` with its proofs; 7. `BloomFilter`; 8. `SortedTable`; 9. `Compaction`;
10. theorems: every safety property that a passing run checks is one.

Next, in this order:

1. An abstract key-value map (`get` returns the newest acknowledged item) that `SSTManager` without the
   excluded overlaps implements.
2. A second compaction over the output of the first, and a restart after one.
