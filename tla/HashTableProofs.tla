---------------------------- MODULE HashTableProofs ----------------------------
(* Proofs about HashTable for any set of threads, keys and cells, any number *)
(* of buckets, any hash function and any capacity: its types, its mutexes    *)
(* and its counter; then its chains: as long as no put has worked from an    *)
(* outdated bucket head, no linked cell is lost, none of the cells a call    *)
(* walks over has been freed.                                                *)
EXTENDS HashTable, FiniteSetTheorems, TLAPS

\* What TypeOK needs to be inductive: a call in progress has its argument, a
\* replacing put has found the cell it replaces, the flusher is inside the
\* bucket array.
ArgInv ==
  /\ \A t \in Threads :
       /\ Putting(t) => arg[t] \in Cells
       /\ pc[t] \in GetSteps => arg[t] \in Keys
       /\ pc[t] = "put_replace" => p[t] \in Cells
  /\ fpc = "chain" => fb < NBuckets

TypeInv == TypeOK /\ ArgInv

\* A thread is inside the part of a call that holds bucket b.
InBucket(t, b) ==
  \/ pc[t] \in PutLocked /\ BucketOfPut(t) = b
  \/ pc[t] = "get_walk" /\ BucketOfGet(t) = b

\* The owner recorded in a mutex is the one thread whose position says so.
LockInv ==
  /\ \A t \in Threads : num_lock = t <=> pc[t] \in {"put_check", "put_incr"}
  /\ \A t \in Threads, b \in Buckets : bucket_locks[b] = t <=> InBucket(t, b)

\* The room seen by a put is still there when it raises the counter.
CountInv ==
  /\ key_num <= Max
  /\ \A t \in Threads : pc[t] = "put_incr" => key_num < Max

-------------------------------------------------------------------------------
\* The initial state has the types.
LEMMA InitTypeInv == Init => TypeInv
<1> SUFFICES ASSUME Init PROVE TypeInv
  OBVIOUS
<1> USE SizesAssumption DEF Init, Buckets, Pointers, Owners
<1>1. 0 \in 0 .. NBuckets
  OBVIOUS
<1>2. pc \in [Threads -> PutSteps \cup GetSteps \cup {"idle"}]
  BY DEF PutSteps, GetSteps
<1>3. /\ buckets \in [Buckets -> Pointers] /\ next \in [Cells -> Pointers]
      /\ bucket_locks \in [Buckets -> Owners]
      /\ arg \in [Threads -> Pointers \cup Keys]
      /\ p \in [Threads -> Pointers] /\ q \in [Threads -> Pointers]
  OBVIOUS
<1>4. /\ faulted \in BOOLEAN /\ full \in BOOLEAN
      /\ staleHead \in BOOLEAN /\ quiet \in BOOLEAN
  OBVIOUS
<1>5. /\ status \in {"WRITE", "FLUSH", "READ"}
      /\ fpc \in {"idle", "head", "bucket", "chain", "done"}
  OBVIOUS
<1>6. TypeOK
  BY <1>1, <1>2, <1>3, <1>4, <1>5 DEF TypeOK
<1>7. ArgInv
  BY DEF ArgInv, Putting, PutSteps, GetSteps
<1> QED
  BY <1>6, <1>7 DEF TypeInv

\* The bucket of a call in progress is a bucket.
LEMMA BucketType ==
  ASSUME TypeInv, NEW t \in Threads
  PROVE  /\ Putting(t) => BucketOfPut(t) \in Buckets
         /\ pc[t] \in GetSteps => BucketOfGet(t) \in Buckets
BY HashAssumption DEF TypeInv, TypeOK, ArgInv, BucketOfPut, BucketOfGet

\* Every step of a put keeps the types.
LEMMA PutKeepsTypes ==
  ASSUME TypeInv, NEW t \in Threads, PutStep(t)
  PROVE  TypeInv'
<1> USE NullAssumption, SizesAssumption, BucketType
    DEF TypeInv, TypeOK, ArgInv, Pointers, Owners, Putting, PutSteps, GetSteps,
        Step, memory, locks, flusher, history
<1>1. CASE PutReadHead(t)
  BY <1>1 DEF PutReadHead
<1>2. CASE PutLock(t)
  BY <1>2 DEF PutLock
<1>3. CASE PutWalkOn(t)
  BY <1>3 DEF PutWalkOn
<1>4. CASE PutWalkFound(t)
  BY <1>4 DEF PutWalkFound
<1>5. CASE PutWalkEnd(t)
  BY <1>5 DEF PutWalkEnd
<1>6. CASE PutReplace(t)
  BY <1>6 DEF PutReplace
<1>7. CASE PutNumLock(t)
  BY <1>7 DEF PutNumLock
<1>8. CASE PutCheckFull(t)
  BY <1>8 DEF PutCheckFull
<1>9. CASE PutCheckRoom(t)
  BY <1>9 DEF PutCheckRoom
<1>10. CASE PutIncr(t)
  BY <1>10 DEF PutIncr
<1>11. CASE PutLink(t)
  BY <1>11 DEF PutLink
<1>12. CASE PutReturn(t)
  BY <1>12 DEF PutReturn, Forget
<1>13. CASE PutReturnFull(t)
  BY <1>13 DEF PutReturnFull, Forget
<1> QED
  BY <1>1, <1>2, <1>3, <1>4, <1>5, <1>6, <1>7, <1>8, <1>9, <1>10, <1>11, <1>12, <1>13
     DEF PutStep

\* Beginning a call keeps the types, and so does every step of a get.
LEMMA CallAndGetKeepTypes ==
  ASSUME TypeInv, NEW t \in Threads,
         \/ \E c \in Cells : StartPut(t, c)
         \/ \E k \in Keys : StartGet(t, k)
         \/ GetStep(t)
  PROVE  TypeInv'
<1> USE NullAssumption, SizesAssumption, BucketType
    DEF TypeInv, TypeOK, ArgInv, Pointers, Owners, Putting, PutSteps, GetSteps,
        Step, memory, locks, flusher, history
<1>1. ASSUME NEW c \in Cells, StartPut(t, c) PROVE TypeInv'
  BY <1>1 DEF StartPut
<1>2. ASSUME NEW k \in Keys, StartGet(t, k) PROVE TypeInv'
  BY <1>2 DEF StartGet
<1>3. CASE GetLock(t)
  BY <1>3 DEF GetLock
<1>4. CASE GetWalkOn(t)
  BY <1>4 DEF GetWalkOn
<1>5. CASE GetFound(t)
  BY <1>5 DEF GetFound, Forget
<1>6. CASE GetMiss(t)
  BY <1>6 DEF GetMiss, Forget
<1> QED
  BY <1>1, <1>2, <1>3, <1>4, <1>5, <1>6 DEF GetStep

\* The flusher and the death of the process keep the types.
LEMMA FlushKeepsTypes ==
  ASSUME TypeInv, Flush \/ Fault
  PROVE  TypeInv'
<1> USE NullAssumption, SizesAssumption
    DEF TypeInv, TypeOK, ArgInv, Pointers, Owners, Putting, PutSteps, GetSteps,
        FlusherStep, memory, locks, locals, flusher, history
<1>1. CASE StartFlush
  BY <1>1 DEF StartFlush
<1>2. CASE FlushHead
  BY <1>2 DEF FlushHead
<1>3. CASE FlushBucket
  BY <1>3 DEF FlushBucket, Buckets, HalfLinked
<1>4. CASE FlushCell
  BY <1>4 DEF FlushCell, HalfLinked
<1>5. CASE FlushChainEnd
  BY <1>5 DEF FlushChainEnd
<1>6. CASE FlushEnd
  BY <1>6 DEF FlushEnd
<1>7. CASE Fault
  BY <1>7 DEF Fault
<1> QED
  BY <1>1, <1>2, <1>3, <1>4, <1>5, <1>6, <1>7 DEF Flush

\* Every step keeps the types.
LEMMA NextTypeInv == TypeInv /\ [Next]_vars => TypeInv'
<1> SUFFICES ASSUME TypeInv, [Next]_vars PROVE TypeInv'
  OBVIOUS
<1>1. CASE UNCHANGED vars
  BY <1>1 DEF vars, memory, locks, locals, flusher, history, TypeInv, TypeOK, ArgInv, Putting
<1>2. CASE Next
  BY <1>2, PutKeepsTypes, CallAndGetKeepTypes, FlushKeepsTypes DEF Next
<1> QED BY <1>1, <1>2

\* Type correctness of the hash table (hashtable.c), for every instance.
THEOREM TypeCorrect == Spec => []TypeOK
<1>1. TypeInv => TypeOK BY DEF TypeInv
<1> QED BY <1>1, InitTypeInv, NextTypeInv, PTL DEF Spec

-------------------------------------------------------------------------------
\* At the start every mutex is free and every thread is outside.
LEMMA InitLockInv == Init => LockInv /\ CountInv
BY NullAssumption, SizesAssumption
   DEF Init, LockInv, CountInv, InBucket, PutLocked, PutSteps, Buckets

\* Every step of a put keeps the owners right: it changes only its own
\* position, and takes a mutex only when it is free.
LEMMA PutKeepsLocks ==
  ASSUME TypeInv, LockInv, NEW t \in Threads, PutStep(t)
  PROVE  LockInv'
<1> USE NullAssumption, BucketType
    DEF TypeInv, TypeOK, ArgInv, Owners, Putting, PutSteps, GetSteps, PutLocked,
        LockInv, InBucket, BucketOfPut, BucketOfGet,
        Step, memory, locks, flusher, history
<1>1. CASE PutReadHead(t)
  BY <1>1 DEF PutReadHead
<1>2. CASE PutLock(t)
  BY <1>2 DEF PutLock
<1>3. CASE PutWalkOn(t)
  BY <1>3 DEF PutWalkOn
<1>4. CASE PutWalkFound(t)
  BY <1>4 DEF PutWalkFound
<1>5. CASE PutWalkEnd(t)
  BY <1>5 DEF PutWalkEnd
<1>6. CASE PutReplace(t)
  BY <1>6 DEF PutReplace
<1>7. CASE PutNumLock(t)
  BY <1>7 DEF PutNumLock
<1>8. CASE PutCheckFull(t)
  BY <1>8 DEF PutCheckFull
<1>9. CASE PutCheckRoom(t)
  BY <1>9 DEF PutCheckRoom
<1>10. CASE PutIncr(t)
  BY <1>10 DEF PutIncr
<1>11. CASE PutLink(t)
  BY <1>11 DEF PutLink
<1>12. CASE PutReturn(t)
  BY <1>12 DEF PutReturn, Forget
<1>13. CASE PutReturnFull(t)
  BY <1>13 DEF PutReturnFull, Forget
<1> QED
  BY <1>1, <1>2, <1>3, <1>4, <1>5, <1>6, <1>7, <1>8, <1>9, <1>10, <1>11, <1>12, <1>13
     DEF PutStep

\* So do the beginning of a call and the steps of a get.
LEMMA CallAndGetKeepLocks ==
  ASSUME TypeInv, LockInv, NEW t \in Threads,
         \/ \E c \in Cells : StartPut(t, c)
         \/ \E k \in Keys : StartGet(t, k)
         \/ GetStep(t)
  PROVE  LockInv'
<1> USE NullAssumption, BucketType
    DEF TypeInv, TypeOK, ArgInv, Owners, Putting, PutSteps, GetSteps, PutLocked,
        LockInv, InBucket, BucketOfPut, BucketOfGet,
        Step, memory, locks, flusher, history
<1>1. ASSUME NEW c \in Cells, StartPut(t, c) PROVE LockInv'
  BY <1>1 DEF StartPut
<1>2. ASSUME NEW k \in Keys, StartGet(t, k) PROVE LockInv'
  BY <1>2 DEF StartGet
<1>3. CASE GetLock(t)
  BY <1>3 DEF GetLock
<1>4. CASE GetWalkOn(t)
  BY <1>4 DEF GetWalkOn
<1>5. CASE GetFound(t)
  BY <1>5 DEF GetFound, Forget
<1>6. CASE GetMiss(t)
  BY <1>6 DEF GetMiss, Forget
<1> QED
  BY <1>1, <1>2, <1>3, <1>4, <1>5, <1>6 DEF GetStep

\* Every step keeps the owners right; the flusher takes no mutex of the table.
LEMMA NextLockInv == TypeInv /\ LockInv /\ [Next]_vars => LockInv'
<1> SUFFICES ASSUME TypeInv, LockInv, [Next]_vars PROVE LockInv'
  OBVIOUS
<1>1. ASSUME UNCHANGED <<cellKey, num_lock, bucket_locks, pc, arg>> PROVE LockInv'
  BY <1>1 DEF LockInv, InBucket, BucketOfPut, BucketOfGet
<1>2. CASE UNCHANGED vars
  BY <1>1, <1>2 DEF vars, locks, locals
<1>3. CASE Flush \/ Fault
  <2>1. UNCHANGED <<cellKey, num_lock, bucket_locks, pc, arg>>
    BY <1>3 DEF Flush, FlusherStep, StartFlush, FlushHead, FlushBucket, FlushCell,
       FlushChainEnd, FlushEnd, Fault, locks, locals
  <2> QED
    BY <1>1, <2>1
<1> QED
  BY <1>2, <1>3, PutKeepsLocks, CallAndGetKeepLocks DEF Next

\* Only the owner of the counter mutex raises the counter, so the room it has
\* seen is still there.
LEMMA NextCountInv == TypeInv /\ LockInv /\ CountInv /\ [Next]_vars => CountInv'
<1> SUFFICES ASSUME TypeInv, LockInv, CountInv, [Next]_vars PROVE CountInv'
  OBVIOUS
<1> USE SizesAssumption
    DEF TypeInv, TypeOK, LockInv, CountInv, Step, memory, locks, locals, flusher, history
<1>1. CASE UNCHANGED vars
  BY <1>1 DEF vars
<1>2. CASE Flush \/ Fault
  BY <1>2 DEF Flush, FlusherStep, StartFlush, FlushHead, FlushBucket, FlushCell,
     FlushChainEnd, FlushEnd, Fault
<1>3. ASSUME NEW t \in Threads, PutStep(t) PROVE CountInv'
  <2>1. CASE PutReadHead(t)
    BY <1>3, <2>1 DEF PutReadHead
  <2>2. CASE PutLock(t)
    BY <1>3, <2>2 DEF PutLock
  <2>3. CASE PutWalkOn(t)
    BY <1>3, <2>3 DEF PutWalkOn
  <2>4. CASE PutWalkFound(t)
    BY <1>3, <2>4 DEF PutWalkFound
  <2>5. CASE PutWalkEnd(t)
    BY <1>3, <2>5 DEF PutWalkEnd
  <2>6. CASE PutReplace(t)
    BY <1>3, <2>6 DEF PutReplace
  <2>7. CASE PutNumLock(t)
    BY <1>3, <2>7 DEF PutNumLock
  <2>8. CASE PutCheckFull(t)
    BY <1>3, <2>8 DEF PutCheckFull
  <2>9. CASE PutCheckRoom(t)
    BY <1>3, <2>9 DEF PutCheckRoom
  <2>10. CASE PutIncr(t)
    BY <1>3, <2>10 DEF PutIncr
  <2>11. CASE PutLink(t)
    BY <1>3, <2>11 DEF PutLink
  <2>12. CASE PutReturn(t)
    BY <1>3, <2>12 DEF PutReturn
  <2>13. CASE PutReturnFull(t)
    BY <1>3, <2>13 DEF PutReturnFull
  <2> QED
    BY <1>3, <2>1, <2>2, <2>3, <2>4, <2>5, <2>6, <2>7, <2>8, <2>9, <2>10, <2>11, <2>12, <2>13
       DEF PutStep
<1>4. ASSUME NEW t \in Threads, NEW c \in Cells, StartPut(t, c) PROVE CountInv'
  BY <1>4 DEF StartPut
<1>5. ASSUME NEW t \in Threads, NEW k \in Keys, StartGet(t, k) PROVE CountInv'
  BY <1>5 DEF StartGet
<1>6. ASSUME NEW t \in Threads, GetStep(t) PROVE CountInv'
  BY <1>6 DEF GetStep, GetLock, GetWalkOn, GetFound, GetMiss
<1> QED
  BY <1>1, <1>2, <1>3, <1>4, <1>5, <1>6 DEF Next

\* The table never counts more entries than its capacity, for any number of
\* threads putting into any number of buckets (hashtable_put, num_lock).
THEOREM KeyNumBounded == Spec => []KeyNumBound
<1>1. Init => TypeInv /\ LockInv /\ CountInv
  BY InitTypeInv, InitLockInv
<1>2. TypeInv /\ LockInv /\ CountInv /\ [Next]_vars => (TypeInv /\ LockInv /\ CountInv)'
  BY NextTypeInv, NextLockInv, NextCountInv
<1>3. CountInv => KeyNumBound
  BY DEF CountInv, KeyNumBound
<1> QED
  BY <1>1, <1>2, <1>3, PTL DEF Spec
\* Nobody waits for ever on the mutexes of a table, whatever the number of
\* threads and buckets: the counter mutex is taken last and kept briefly
\* (hashtable_put, hashtable_get).
THEOREM MutexesGivenBack == Spec => []WaitsEnd
<1>1. TypeInv /\ LockInv => WaitsEnd
  <2> SUFFICES ASSUME TypeInv, LockInv, NEW t \in Threads, WaitsFor(t) # NULL
               PROVE  \/ CanRun(WaitsFor(t))
                      \/ /\ WaitsFor(WaitsFor(t)) # NULL
                         /\ CanRun(WaitsFor(WaitsFor(t)))
    BY DEF WaitsEnd
  <2> USE NullAssumption
  <2>1. \A u \in Threads : num_lock = u => CanRun(u)
    BY DEF LockInv, CanRun, WaitsFor
  <2>2. ASSUME NEW u \in Threads, NEW b \in Buckets, bucket_locks[b] = u
        PROVE  pc[u] = "put_num" \/ CanRun(u)
    BY <2>2 DEF LockInv, InBucket, PutLocked, PutSteps, CanRun, WaitsFor
  <2>3. \A u \in Threads : pc[u] = "put_num" => WaitsFor(u) = num_lock
    BY DEF WaitsFor
  <2>4. num_lock \in Threads \cup {NULL}
    BY DEF TypeInv, TypeOK, Owners
  <2>5. ASSUME NEW u \in Threads, pc[u] = "put_num"
        PROVE  CanRun(u) \/ (WaitsFor(u) # NULL /\ CanRun(WaitsFor(u)))
    BY <2>1, <2>3, <2>4, <2>5 DEF CanRun
  <2>6. CASE pc[t] = "put_num"
    BY <2>1, <2>3, <2>4, <2>6
  <2>7. ASSUME NEW b \in Buckets, WaitsFor(t) = bucket_locks[b]
        PROVE  WaitsFor(t) \in Threads /\ (pc[WaitsFor(t)] = "put_num" \/ CanRun(WaitsFor(t)))
    <3>1. bucket_locks[b] \in Threads
      BY <2>7 DEF TypeInv, TypeOK, Owners
    <3> QED
      BY <3>1, <2>2, <2>7
  <2>8. CASE pc[t] = "put_lock"
    <3>1. BucketOfPut(t) \in Buckets
      BY <2>8, BucketType DEF TypeInv, ArgInv, Putting, PutSteps
    <3> QED
      BY <2>5, <2>7, <2>8, <3>1 DEF WaitsFor
  <2>9. CASE pc[t] = "get_lock"
    <3>1. BucketOfGet(t) \in Buckets
      BY <2>9, BucketType DEF TypeInv, ArgInv, GetSteps
    <3> QED
      BY <2>5, <2>7, <2>9, <3>1 DEF WaitsFor
  <2> QED
    BY <2>6, <2>8, <2>9 DEF WaitsFor
<1> QED
  BY <1>1, InitTypeInv, InitLockInv, NextTypeInv, NextLockInv, PTL DEF Spec

-------------------------------------------------------------------------------
(* The chains *)

BucketOf(c) == Hash[cellKey[c]]

\* Heads and live cells point to live cells of their own bucket.
LiveOnly ==
  /\ freed \subseteq linked
  /\ \A b \in Buckets :
       buckets[b] # NULL => buckets[b] \in Live /\ BucketOf(buckets[b]) = b
  /\ \A c \in Live :
       next[c] # NULL => next[c] \in Live /\ BucketOf(next[c]) = BucketOf(c)

\* A live cell is pointed to once, so that unlinking it needs one assignment.
OnePointer ==
  /\ \A c \in Live, b \in Buckets : next[c] # NULL => next[c] # buckets[b]
  /\ \A c, d \in Live : next[c] # NULL /\ next[c] = next[d] => c = d
  /\ \A c \in Live : next[c] # c

AllFound == \A c \in Live : InTable(c)

\* The cell a put brings is in no chain until that put links it, and no other
\* put has it.
FreshArgs ==
  /\ \A t \in Threads : Putting(t) /\ pc[t] # "put_ok" => arg[t] \notin linked
  /\ \A t, u \in Threads : Putting(t) /\ Putting(u) /\ arg[t] = arg[u] => t = u

\* Where the walking pointers of a call are, in the bucket it has locked.
PutWalkInv(t) ==
  /\ q[t] = NULL => p[t] = buckets[BucketOfPut(t)]
  /\ q[t] # NULL => /\ q[t] \in Live
                    /\ BucketOf(q[t]) = BucketOfPut(t)
                    /\ next[q[t]] = p[t]
  /\ p[t] # NULL => p[t] \in Live /\ BucketOf(p[t]) = BucketOfPut(t)

GetWalkInv(t) == p[t] # NULL => p[t] \in Live /\ BucketOf(p[t]) = BucketOfGet(t)

WalkInv ==
  \A t \in Threads :
    /\ pc[t] \in {"put_walk", "put_replace"} => PutWalkInv(t)
    /\ pc[t] = "get_walk" => GetWalkInv(t)
    /\ pc[t] \notin PutLocked => q[t] = NULL

Graph    == LiveOnly /\ OnePointer /\ AllFound
ChainInv == Graph /\ FreshArgs /\ WalkInv

Inv == TypeInv /\ LockInv /\ (~staleHead => ChainInv)

-------------------------------------------------------------------------------
\* The empty table.
LEMMA InitChainInv == Init => ChainInv
BY NullAssumption
   DEF Init, ChainInv, Graph, LiveOnly, OnePointer, AllFound, Live, FreshArgs, WalkInv,
       Putting, PutSteps, PutLocked

\* A step that writes no chain leaves every fact about the chains.
LEMMA GraphUnchanged ==
  ASSUME Graph, UNCHANGED <<cellKey, buckets, next, freed, linked>>
  PROVE  Graph'
<1>1. \A c : InTable(c)' <=> InTable(c)
  BY DEF InTable, ClosedUnderNext
<1>2. AllFound'
  BY <1>1 DEF Graph, AllFound, Live
<1>3. LiveOnly' /\ OnePointer'
  BY DEF Graph, LiveOnly, OnePointer, Live, BucketOf
<1> QED
  BY <1>2, <1>3 DEF Graph

\* The live cells are closed under next: what a set contains besides them
\* plays no part in what can be reached.
LEMMA LiveCloses ==
  ASSUME TypeInv, Graph, NEW S \in SUBSET Cells, NEW c \in Live,
         \A b \in Buckets : buckets[b] # NULL => buckets[b] \in S,
         \A d \in S \cap Live : next[d] # NULL => next[d] \in S
  PROVE  c \in S
<1>1. ClosedUnderNext(S \cap Live)
  BY DEF ClosedUnderNext, Graph, LiveOnly
<1>2. InTable(c)
  BY DEF Graph, AllFound
<1>3. S \cap Live \in SUBSET Cells
  OBVIOUS
<1> QED
  BY <1>1, <1>2, <1>3 DEF InTable

-------------------------------------------------------------------------------
\* An insert at the head keeps the chains whole.
LEMMA LinkKeepsGraph ==
  ASSUME TypeInv, LockInv, ChainInv, NEW t \in Threads, PutLink(t)
  PROVE  Graph'
<1> DEFINE d == arg[t]
           b == BucketOfPut(t)
<1>1. d \in Cells /\ d \notin linked /\ b \in Buckets /\ b = BucketOf(d)
  BY BucketType DEF PutLink, Step, TypeInv, ArgInv, ChainInv, FreshArgs, Putting, PutSteps,
     BucketOfPut, BucketOf
<1>2. /\ next' = [next EXCEPT ![d] = buckets[b]]
      /\ buckets' = [buckets EXCEPT ![b] = d]
      /\ freed' = freed /\ linked' = linked \cup {d} /\ cellKey' = cellKey
  BY DEF PutLink, Step
<1>3. /\ buckets \in [Buckets -> Pointers] /\ next \in [Cells -> Pointers]
      /\ freed \subseteq linked /\ linked \subseteq Cells
  BY DEF TypeInv, TypeOK, ChainInv, Graph, LiveOnly
<1>4. Live' = Live \cup {d} /\ d \notin Live /\ Live \subseteq Cells
  BY <1>1, <1>2, <1>3 DEF Live
<1>5. LiveOnly /\ OnePointer /\ Graph
  BY DEF ChainInv, Graph
<1> HIDE DEF d, b
<1>6. LiveOnly'
  <2>1. next'[d] = buckets[b] /\ \A c \in Live : next'[c] = next[c]
    BY <1>1, <1>2, <1>3, <1>4
  <2>2. buckets'[b] = d /\ \A a \in Buckets \ {b} : buckets'[a] = buckets[a]
    BY <1>1, <1>2, <1>3
  <2>3. (freed \subseteq linked)' /\ \A c : BucketOf(c)' = BucketOf(c)
    BY <1>2, <1>3 DEF BucketOf
  <2>4. ASSUME NEW a \in Buckets, buckets'[a] # NULL
        PROVE  buckets'[a] \in Live' /\ BucketOf(buckets'[a]) = a
    BY <2>2, <2>4, <1>1, <1>4, <1>5 DEF LiveOnly
  <2>5. ASSUME NEW c \in Live', next'[c] # NULL
        PROVE  next'[c] \in Live' /\ BucketOf(next'[c]) = BucketOf(c)
    BY <2>1, <2>5, <1>1, <1>4, <1>5 DEF LiveOnly
  <2> QED
    BY <2>3, <2>4, <2>5 DEF LiveOnly
<1>7. OnePointer'
  <2>1. next'[d] = buckets[b] /\ \A c \in Live : next'[c] = next[c]
    BY <1>1, <1>2, <1>3, <1>4
  <2>2. buckets'[b] = d /\ \A a \in Buckets \ {b} : buckets'[a] = buckets[a]
    BY <1>1, <1>2, <1>3
  <2>3. ASSUME NEW c \in Live', NEW a \in Buckets, next'[c] # NULL
        PROVE  next'[c] # buckets'[a]
    BY <2>1, <2>2, <2>3, <1>1, <1>4, <1>5 DEF LiveOnly, OnePointer
  <2>4. ASSUME NEW c \in Live', NEW e \in Live', next'[c] # NULL, next'[c] = next'[e]
        PROVE  c = e
    BY <2>1, <2>4, <1>1, <1>4, <1>5 DEF OnePointer
  <2>5. ASSUME NEW c \in Live'
        PROVE  next'[c] # c
    BY <2>1, <1>1, <1>4, <1>5, NullAssumption DEF LiveOnly, OnePointer
  <2> QED
    BY <2>3, <2>4, <2>5 DEF OnePointer
<1>8. AllFound'
  <2> SUFFICES ASSUME NEW c \in Live', NEW S \in SUBSET Cells, ClosedUnderNext(S)'
               PROVE  c \in S
    BY DEF AllFound, InTable
  <2>1. /\ \A a \in Buckets : buckets'[a] # NULL => buckets'[a] \in S
        /\ \A e \in S : next'[e] # NULL => next'[e] \in S
    BY DEF ClosedUnderNext
  <2>2. d \in S
    BY <2>1, <1>1, <1>2, <1>3, NullAssumption
  <2>3. \A a \in Buckets : buckets[a] # NULL => buckets[a] \in S
    BY <2>1, <2>2, <1>1, <1>2, <1>3
  <2>4. \A e \in S \cap Live : next[e] # NULL => next[e] \in S
    BY <2>1, <1>1, <1>2, <1>3, <1>4
  <2> QED
    BY <2>2, <2>3, <2>4, <1>4, <1>5, LiveCloses
<1> QED
  BY <1>6, <1>7, <1>8 DEF Graph

\* A replacement, at the head or behind a predecessor, keeps the chains whole.
LEMMA ReplaceKeepsGraph ==
  ASSUME TypeInv, LockInv, ChainInv, NEW t \in Threads, PutReplace(t)
  PROVE  Graph'
<1> DEFINE d == arg[t]
           b == BucketOfPut(t)
           old == p[t]
           before == q[t]
<1>1. d \in Cells /\ d \notin linked /\ b \in Buckets /\ b = BucketOf(d)
  BY BucketType DEF PutReplace, Step, TypeInv, ArgInv, ChainInv, FreshArgs, Putting, PutSteps,
     BucketOfPut, BucketOf
<1>2. /\ freed' = freed \cup {old} /\ linked' = linked \cup {d} /\ cellKey' = cellKey
      /\ before # NULL => /\ next' = [next EXCEPT ![before] = d, ![d] = next[old]]
                          /\ buckets' = buckets
      /\ before = NULL => /\ next' = [next EXCEPT ![d] = next[old]]
                          /\ buckets' = [buckets EXCEPT ![b] = d]
  BY DEF PutReplace, Step
<1>3. /\ buckets \in [Buckets -> Pointers] /\ next \in [Cells -> Pointers]
      /\ freed \subseteq linked /\ linked \subseteq Cells
  BY DEF TypeInv, TypeOK, ChainInv, Graph, LiveOnly
<1>4. PutWalkInv(t) /\ old \in Cells
  BY DEF PutReplace, Step, ChainInv, WalkInv, TypeInv, ArgInv
<1>5. /\ old # NULL /\ old \in Live /\ BucketOf(old) = b
      /\ before = NULL => old = buckets[b]
      /\ before # NULL => before \in Live /\ BucketOf(before) = b /\ next[before] = old
  BY <1>4, NullAssumption DEF PutWalkInv
<1>6. LiveOnly /\ OnePointer /\ Graph
  BY DEF ChainInv, Graph
<1>7. /\ Live' = (Live \ {old}) \cup {d} /\ d \notin Live /\ Live \subseteq Cells
  BY <1>1, <1>2, <1>3, <1>5 DEF Live
<1> HIDE DEF d, b, old, before
<1>8. before # NULL => before # old /\ before # d /\ before \in Cells
  BY <1>5, <1>6, <1>7 DEF OnePointer
<1>9. \A c \in Live : c # before => next[c] # old
  BY <1>1, <1>5, <1>6 DEF OnePointer
<1>10. \A a \in Buckets : buckets[a] = old => before = NULL /\ a = b
  BY <1>5, <1>6 DEF OnePointer, LiveOnly
<1>11. next[old] # NULL => next[old] \in Live \ {old} /\ BucketOf(next[old]) = b
  BY <1>5, <1>6 DEF OnePointer, LiveOnly
<1>12. next'[d] = next[old]
  BY <1>1, <1>2, <1>3
<1>13. before # NULL => next'[before] = d
  BY <1>1, <1>2, <1>3, <1>8
<1>14. \A c \in Cells : c # d /\ c # before => next'[c] = next[c]
  BY <1>1, <1>2, <1>3
<1>15. \A a \in Buckets :
         buckets'[a] = IF before = NULL /\ a = b THEN d ELSE buckets[a]
  BY <1>1, <1>2, <1>3
<1>16. LiveOnly'
  <2>1. (freed \subseteq linked)'
    BY <1>2, <1>3, <1>5 DEF Live
  <2>2. ASSUME NEW a \in Buckets, buckets'[a] # NULL
        PROVE  buckets'[a] \in Live' /\ BucketOf(buckets'[a]) = a
    BY <2>2, <1>1, <1>5, <1>6, <1>7, <1>10, <1>15 DEF LiveOnly
  <2>3. ASSUME NEW c \in Live', next'[c] # NULL
        PROVE  next'[c] \in Live' /\ BucketOf(next'[c]) = BucketOf(c)
    <3>1. CASE c = d
      BY <2>3, <3>1, <1>1, <1>7, <1>11, <1>12
    <3>2. CASE c # d /\ c = before
      <4>1. before # NULL
        BY <3>2, <1>7, NullAssumption
      <4> QED
        BY <3>2, <4>1, <1>1, <1>5, <1>7, <1>13
    <3>3. CASE c # d /\ c # before
      BY <2>3, <3>3, <1>6, <1>7, <1>9, <1>14 DEF LiveOnly
    <3> QED
      BY <3>1, <3>2, <3>3
  <2>4. \A c : BucketOf(c)' = BucketOf(c)
    BY <1>2 DEF BucketOf
  <2> QED
    BY <2>1, <2>2, <2>3, <2>4 DEF LiveOnly
<1>17. OnePointer'
  <2>1. ASSUME NEW c \in Live', next'[c] # NULL
        PROVE  \/ c = d /\ next'[c] = next[old] /\ next'[c] \in Live \ {old}
               \/ c # d /\ c = before /\ next'[c] = d
               \/ c # d /\ c # before /\ c \in Live \ {old}
                  /\ next'[c] = next[c] /\ next'[c] \in Live \ {old}
    <3>1. CASE c = d
      BY <2>1, <3>1, <1>11, <1>12
    <3>2. CASE c # d /\ c = before
      BY <3>2, <1>7, <1>13, NullAssumption
    <3>3. CASE c # d /\ c # before
      BY <2>1, <3>3, <1>6, <1>7, <1>9, <1>14 DEF LiveOnly
    <3> QED
      BY <3>1, <3>2, <3>3
  <2>2. ASSUME NEW c \in Live', NEW a \in Buckets, next'[c] # NULL
        PROVE  next'[c] # buckets'[a]
    <3>1. buckets'[a] = d \/ buckets'[a] = buckets[a]
      BY <1>15
    <3>2. CASE c = d /\ next'[c] = next[old] /\ next'[c] \in Live \ {old}
      BY <3>1, <3>2, <2>2, <1>5, <1>6, <1>7 DEF OnePointer
    <3>3. CASE c # d /\ c = before /\ next'[c] = d
      <4>1. before # NULL
        BY <3>3, <1>7, NullAssumption
      <4>2. buckets'[a] = buckets[a]
        BY <4>1, <1>15
      <4> QED
        BY <3>3, <4>2, <2>2, <1>6, <1>7 DEF LiveOnly
    <3>4. CASE c # d /\ c \in Live \ {old} /\ next'[c] = next[c] /\ next'[c] \in Live \ {old}
      BY <3>1, <3>4, <2>2, <1>6, <1>7 DEF OnePointer
    <3> QED
      BY <2>1, <2>2, <3>2, <3>3, <3>4
  <2>3. ASSUME NEW c \in Live', NEW e \in Live', next'[c] # NULL, next'[c] = next'[e]
        PROVE  c = e
    BY <2>1, <2>3, <1>5, <1>6, <1>7 DEF OnePointer
  <2>4. ASSUME NEW c \in Live'
        PROVE  next'[c] # c
    <3>1. CASE next'[c] = NULL
      BY <3>1, <1>1, <1>7, NullAssumption
    <3>2. CASE next'[c] # NULL
      BY <2>1, <3>2, <1>7, <1>6 DEF OnePointer
    <3> QED
      BY <3>1, <3>2
  <2> QED
    BY <2>2, <2>3, <2>4 DEF OnePointer
<1>18. AllFound'
  <2> SUFFICES ASSUME NEW c \in Live', NEW S \in SUBSET Cells, ClosedUnderNext(S)'
               PROVE  c \in S
    BY DEF AllFound, InTable
  <2>1. /\ \A a \in Buckets : buckets'[a] # NULL => buckets'[a] \in S
        /\ \A e \in S : next'[e] # NULL => next'[e] \in S
    BY DEF ClosedUnderNext
  <2>2. d \in S
    <3>1. CASE before = NULL
      BY <3>1, <2>1, <1>1, <1>15, NullAssumption
    <3>2. CASE before # NULL
      <4>1. SUFFICES ASSUME before \notin S PROVE FALSE
        BY <3>2, <2>1, <1>1, <1>13, NullAssumption
      <4>2. \A a \in Buckets : buckets[a] # NULL => buckets[a] \in S
        BY <3>2, <2>1, <1>15
      <4>3. \A e \in S \cap Live : next[e] # NULL => next[e] \in S
        BY <4>1, <2>1, <1>7, <1>14
      <4> QED
        BY <3>2, <4>1, <4>2, <4>3, <1>5, <1>6, LiveCloses
    <3> QED
      BY <3>1, <3>2
  <2> DEFINE T == S \cup {old}
  <2>3. T \in SUBSET Cells
    BY <1>5, <1>7
  <2>4. \A a \in Buckets : buckets[a] # NULL => buckets[a] \in T
    BY <2>1, <1>5, <1>15
  <2>5. \A e \in T \cap Live : next[e] # NULL => next[e] \in T
    <3> SUFFICES ASSUME NEW e \in T \cap Live, next[e] # NULL PROVE next[e] \in T
      OBVIOUS
    <3>1. CASE e = old
      BY <3>1, <2>1, <2>2, <1>12
    <3>2. CASE e # old /\ e = before
      BY <3>2, <1>5, <1>7, NullAssumption
    <3>3. CASE e # old /\ e # before
      BY <3>3, <2>1, <1>7, <1>14
    <3> QED
      BY <3>1, <3>2, <3>3
  <2>6. c \in Live => c \in T
    BY <2>3, <2>4, <2>5, <1>6, LiveCloses
  <2> QED
    BY <2>2, <2>6, <1>7
<1> QED
  BY <1>16, <1>17, <1>18 DEF Graph

-------------------------------------------------------------------------------
\* A cell is handed to one put only, and becomes part of the table only there.
LEMMA FreshArgsKept ==
  ASSUME TypeInv, FreshArgs, Next
  PROVE  FreshArgs'
<1> USE DEF TypeInv, TypeOK, ArgInv, FreshArgs, Putting, PutSteps, GetSteps,
        Step, memory, locks, locals, flusher, history
<1>1. CASE Flush \/ Fault
  BY <1>1 DEF Flush, FlusherStep, StartFlush, FlushHead, FlushBucket, FlushCell,
     FlushChainEnd, FlushEnd, Fault
<1>2. ASSUME NEW t \in Threads, NEW c \in Cells, StartPut(t, c) PROVE FreshArgs'
  BY <1>2 DEF StartPut, Fresh
<1>3. ASSUME NEW t \in Threads, NEW k \in Keys, StartGet(t, k) PROVE FreshArgs'
  BY <1>3 DEF StartGet
<1>4. ASSUME NEW t \in Threads, GetStep(t) PROVE FreshArgs'
  BY <1>4 DEF GetStep, GetLock, GetWalkOn, GetFound, GetMiss, Forget
<1>5. ASSUME NEW t \in Threads, PutStep(t) PROVE FreshArgs'
  <2>1. CASE PutReplace(t)
    BY <1>5, <2>1 DEF PutReplace
  <2>2. CASE PutLink(t)
    BY <1>5, <2>2 DEF PutLink
  <2>3. CASE PutReturn(t) \/ PutReturnFull(t)
    BY <1>5, <2>3 DEF PutReturn, PutReturnFull, Forget
  <2>4. CASE \/ PutReadHead(t) \/ PutLock(t) \/ PutWalkOn(t) \/ PutWalkFound(t)
             \/ PutWalkEnd(t)
    BY <1>5, <2>4 DEF PutReadHead, PutLock, PutWalkOn, PutWalkFound, PutWalkEnd
  <2>5. CASE PutNumLock(t) \/ PutCheckFull(t) \/ PutCheckRoom(t) \/ PutIncr(t)
    BY <1>5, <2>5 DEF PutNumLock, PutCheckFull, PutCheckRoom, PutIncr
  <2> QED
    BY <1>5, <2>1, <2>2, <2>3, <2>4, <2>5 DEF PutStep
<1> QED
  BY <1>1, <1>2, <1>3, <1>4, <1>5 DEF Next

\* A put writes to the chain of its own bucket only.
LEMMA WriteStaysInBucket ==
  ASSUME TypeInv, ChainInv, NEW t \in Threads, PutReplace(t) \/ PutLink(t)
  PROVE  /\ \A a \in Buckets : a # BucketOfPut(t) => buckets'[a] = buckets[a]
         /\ \A c \in Live :
              BucketOf(c) # BucketOfPut(t) => next'[c] = next[c] /\ c \in Live'
<1> DEFINE d == arg[t]
           b == BucketOfPut(t)
<1>1. d \in Cells /\ d \notin linked /\ b \in Buckets
  BY BucketType DEF PutReplace, PutLink, Step, TypeInv, ArgInv, ChainInv, FreshArgs, Putting,
     PutSteps
<1>2. CASE PutLink(t)
  BY <1>1, <1>2 DEF PutLink, TypeInv, TypeOK, Live
<1>3. CASE PutReplace(t)
  <2>1. PutWalkInv(t) /\ p[t] \in Cells
    BY <1>3 DEF PutReplace, Step, ChainInv, WalkInv, TypeInv, ArgInv
  <2>2. p[t] # NULL => BucketOf(p[t]) = b
    BY <2>1 DEF PutWalkInv
  <2>3. q[t] # NULL => BucketOf(q[t]) = b
    BY <2>1 DEF PutWalkInv
  <2>4. p[t] # NULL
    BY <2>1, NullAssumption
  <2>5. \A a \in Buckets : a # b => buckets'[a] = buckets[a]
    BY <1>3 DEF PutReplace, TypeInv, TypeOK
  <2>6. ASSUME NEW c \in Live, BucketOf(c) # b PROVE next'[c] = next[c] /\ c \in Live'
    BY <1>1, <1>3, <2>2, <2>3, <2>4, <2>6 DEF PutReplace, TypeInv, TypeOK, Live
  <2> QED
    BY <2>5, <2>6
<1> QED
  BY <1>2, <1>3

\* The writes of one bucket leave the walks of the others alone.
LEMMA WriteKeepsWalks ==
  ASSUME TypeInv, LockInv, ChainInv, NEW t \in Threads, PutReplace(t) \/ PutLink(t)
  PROVE  WalkInv'
<1> DEFINE d == arg[t]
           b == BucketOfPut(t)
<1>1. d \in Cells /\ d \notin linked /\ b \in Buckets /\ pc[t] \in PutLocked
  BY BucketType DEF PutReplace, PutLink, Step, TypeInv, ArgInv, ChainInv, FreshArgs, Putting,
     PutSteps, PutLocked
<1>2. /\ pc' = [pc EXCEPT ![t] = "put_ok"]
      /\ arg' = arg /\ p' = p /\ q' = q /\ cellKey' = cellKey
  BY DEF PutReplace, PutLink, Step
<1>3. /\ \A a \in Buckets : a # b => buckets'[a] = buckets[a]
      /\ \A c \in Live : BucketOf(c) # b => next'[c] = next[c] /\ c \in Live'
  BY WriteStaysInBucket
<1> SUFFICES ASSUME NEW u \in Threads
             PROVE  /\ pc'[u] \in {"put_walk", "put_replace"} => PutWalkInv(u)'
                    /\ pc'[u] = "get_walk" => GetWalkInv(u)'
                    /\ pc'[u] \notin PutLocked => q'[u] = NULL
  BY DEF WalkInv
<1>4. pc'[u] = IF u = t THEN "put_ok" ELSE pc[u]
  BY <1>2 DEF TypeInv, TypeOK
<1>5. BucketOfPut(u)' = BucketOfPut(u) /\ BucketOfGet(u)' = BucketOfGet(u)
      /\ \A c : BucketOf(c)' = BucketOf(c)
  BY <1>2 DEF BucketOfPut, BucketOfGet, BucketOf
<1>6. bucket_locks[b] = t
  BY <1>1 DEF LockInv, InBucket
<1>7. u # t /\ pc[u] \in {"put_walk", "put_replace"} => BucketOfPut(u) \in Buckets \ {b}
  BY <1>6, BucketType DEF LockInv, InBucket, PutLocked, PutSteps, Putting
<1>8. u # t /\ pc[u] = "get_walk" => BucketOfGet(u) \in Buckets \ {b}
  BY <1>6, BucketType DEF LockInv, InBucket, GetSteps
<1> HIDE DEF d, b
<1>9. pc'[u] \in {"put_walk", "put_replace"} => PutWalkInv(u)'
  <2> SUFFICES ASSUME pc'[u] \in {"put_walk", "put_replace"} PROVE PutWalkInv(u)'
    OBVIOUS
  <2>1. u # t /\ pc[u] \in {"put_walk", "put_replace"}
    BY <1>4
  <2>2. PutWalkInv(u)
    BY <2>1 DEF ChainInv, WalkInv
  <2> QED
    BY <2>1, <2>2, <1>2, <1>3, <1>5, <1>7 DEF PutWalkInv
<1>10. pc'[u] = "get_walk" => GetWalkInv(u)'
  <2> SUFFICES ASSUME pc'[u] = "get_walk" PROVE GetWalkInv(u)'
    OBVIOUS
  <2>1. u # t /\ pc[u] = "get_walk"
    BY <1>4
  <2>2. GetWalkInv(u)
    BY <2>1 DEF ChainInv, WalkInv
  <2> QED
    BY <2>1, <2>2, <1>2, <1>3, <1>5, <1>8 DEF GetWalkInv
<1>11. pc'[u] \notin PutLocked => q'[u] = NULL
  BY <1>2, <1>4 DEF ChainInv, WalkInv, PutLocked, PutSteps
<1> QED
  BY <1>9, <1>10, <1>11

\* What one call leaves alone in the walks of the others.
LEMMA OtherWalks ==
  ASSUME TypeInv, WalkInv, NEW t \in Threads, NEW u \in Threads, u # t,
         UNCHANGED <<cellKey, buckets, next, freed, linked>>,
         pc'[u] = pc[u], arg'[u] = arg[u], p'[u] = p[u], q'[u] = q[u]
  PROVE  /\ pc'[u] \in {"put_walk", "put_replace"} => PutWalkInv(u)'
         /\ pc'[u] = "get_walk" => GetWalkInv(u)'
         /\ pc'[u] \notin PutLocked => q'[u] = NULL
BY DEF WalkInv, PutWalkInv, GetWalkInv, BucketOfPut, BucketOfGet, BucketOf, Live

\* Taking the bucket with an up-to-date head, and every step along the chain.
LEMMA StepKeepsWalks ==
  ASSUME TypeInv, ChainInv, ~staleHead', NEW t \in Threads,
         \/ PutStep(t) /\ ~PutReplace(t) /\ ~PutLink(t)
         \/ GetStep(t)
         \/ \E c \in Cells : StartPut(t, c)
         \/ \E k \in Keys : StartGet(t, k)
  PROVE  WalkInv' /\ UNCHANGED <<cellKey, buckets, next, freed, linked>>
<1> DEFINE Mine == /\ pc'[t] \in {"put_walk", "put_replace"} => PutWalkInv(t)'
                   /\ pc'[t] = "get_walk" => GetWalkInv(t)'
                   /\ pc'[t] \notin PutLocked => q'[t] = NULL
           Rest == /\ UNCHANGED <<cellKey, buckets, next, freed, linked>>
                   /\ \A u \in Threads \ {t} :
                        pc'[u] = pc[u] /\ arg'[u] = arg[u] /\ p'[u] = p[u] /\ q'[u] = q[u]
<1>1. WalkInv /\ LiveOnly
  BY DEF ChainInv, Graph
<1>2. SUFFICES Mine /\ Rest
  BY <1>1, OtherWalks DEF WalkInv
<1>3. /\ pc \in [Threads -> PutSteps \cup GetSteps \cup {"idle"}]
      /\ arg \in [Threads -> Pointers \cup Keys]
      /\ p \in [Threads -> Pointers] /\ q \in [Threads -> Pointers]
  BY DEF TypeInv, TypeOK
<1>4. /\ pc[t] \in {"put_walk", "put_replace"} => PutWalkInv(t)
      /\ pc[t] = "get_walk" => GetWalkInv(t)
      /\ pc[t] \notin PutLocked => q[t] = NULL
  BY <1>1 DEF WalkInv
<1>5. /\ Putting(t) => BucketOfPut(t) \in Buckets
      /\ pc[t] \in GetSteps => BucketOfGet(t) \in Buckets
  BY BucketType
<1> USE <1>3 DEF Step, memory, locks, flusher, history, PutSteps, PutLocked
<1>6. ASSUME NEW c \in Cells, StartPut(t, c) PROVE Mine /\ Rest
  BY <1>4, <1>6 DEF StartPut
<1>7. ASSUME NEW k \in Keys, StartGet(t, k) PROVE Mine /\ Rest
  BY <1>4, <1>7 DEF StartGet
<1>8. CASE PutReadHead(t)
  BY <1>4, <1>8 DEF PutReadHead
<1>9. CASE PutLock(t)
  <2>1. Rest /\ pc'[t] = "put_walk"
    BY <1>9 DEF PutLock
  <2>2. p'[t] = buckets[BucketOfPut(t)] /\ q'[t] = NULL /\ BucketOfPut(t)' = BucketOfPut(t)
    BY <1>4, <1>9 DEF PutLock, BucketOfPut
  <2>3. PutWalkInv(t)'
    BY <2>1, <2>2, <1>1, <1>5, <1>9 DEF PutWalkInv, LiveOnly, Live, BucketOf, PutLock, Putting
  <2> QED
    BY <2>1, <2>3
<1>10. CASE PutWalkOn(t)
  <2>1. Rest /\ pc'[t] = "put_walk"
    BY <1>10 DEF PutWalkOn
  <2>2. p'[t] = next[p[t]] /\ q'[t] = p[t] /\ BucketOfPut(t)' = BucketOfPut(t)
    BY <1>10 DEF PutWalkOn, BucketOfPut
  <2>3. p[t] # NULL /\ PutWalkInv(t)
    BY <1>4, <1>10 DEF PutWalkOn
  <2>4. PutWalkInv(t)'
    BY <2>1, <2>2, <2>3, <1>1 DEF PutWalkInv, LiveOnly, Live, BucketOf
  <2> QED
    BY <2>1, <2>4
<1>11. CASE PutWalkFound(t)
  BY <1>4, <1>11 DEF PutWalkFound, PutWalkInv, BucketOfPut, BucketOf, Live
<1>12. CASE PutWalkEnd(t)
  BY <1>4, <1>12 DEF PutWalkEnd
<1>13. CASE PutNumLock(t) \/ PutCheckFull(t) \/ PutCheckRoom(t) \/ PutIncr(t)
  BY <1>4, <1>13 DEF PutNumLock, PutCheckFull, PutCheckRoom, PutIncr
<1>14. CASE PutReturn(t) \/ PutReturnFull(t)
  BY <1>14 DEF PutReturn, PutReturnFull, Forget
<1>15. CASE GetLock(t)
  <2>1. Rest /\ pc'[t] = "get_walk" /\ q'[t] = NULL
    BY <1>4, <1>15 DEF GetLock
  <2>2. p'[t] = buckets[BucketOfGet(t)] /\ BucketOfGet(t)' = BucketOfGet(t)
    BY <1>15 DEF GetLock, BucketOfGet
  <2>3. GetWalkInv(t)'
    BY <2>1, <2>2, <1>1, <1>5, <1>15 DEF GetWalkInv, LiveOnly, Live, BucketOf, GetLock, GetSteps
  <2> QED
    BY <2>1, <2>3
<1>16. CASE GetWalkOn(t)
  <2>1. Rest /\ pc'[t] = "get_walk" /\ q'[t] = NULL
    BY <1>4, <1>16 DEF GetWalkOn
  <2>2. p'[t] = next[p[t]] /\ BucketOfGet(t)' = BucketOfGet(t)
    BY <1>16 DEF GetWalkOn, BucketOfGet
  <2>3. GetWalkInv(t)'
    BY <2>1, <2>2, <1>1, <1>4, <1>16 DEF GetWalkInv, LiveOnly, Live, BucketOf, GetWalkOn
  <2> QED
    BY <2>1, <2>3
<1>17. CASE GetFound(t) \/ GetMiss(t)
  BY <1>17 DEF GetFound, GetMiss, Forget
<1> QED
  BY <1>6, <1>7, <1>8, <1>9, <1>10, <1>11, <1>12, <1>13, <1>14, <1>15, <1>16, <1>17
     DEF PutStep, GetStep

-------------------------------------------------------------------------------
\* The history variable only ever goes from FALSE to TRUE.
LEMMA StaleForever == TypeInv /\ [Next]_vars /\ ~staleHead' => ~staleHead
<1> SUFFICES ASSUME TypeInv, [Next]_vars, staleHead PROVE staleHead'
  BY DEF TypeInv, TypeOK
<1> USE DEF history, FlusherStep
<1>1. CASE UNCHANGED vars
  BY <1>1 DEF vars
<1>2. CASE Flush \/ Fault
  BY <1>2 DEF Flush, StartFlush, FlushHead, FlushBucket, FlushCell, FlushChainEnd, FlushEnd, Fault
<1>3. ASSUME NEW t \in Threads, PutStep(t) PROVE staleHead'
  BY <1>3 DEF PutStep, PutReadHead, PutLock, PutWalkOn, PutWalkFound, PutWalkEnd, PutReplace,
     PutNumLock, PutCheckFull, PutCheckRoom, PutIncr, PutLink, PutReturn, PutReturnFull
<1>4. ASSUME NEW t \in Threads, \/ GetStep(t)
                                \/ \E c \in Cells : StartPut(t, c)
                                \/ \E k \in Keys : StartGet(t, k)
      PROVE  staleHead'
  BY <1>4 DEF GetStep, GetLock, GetWalkOn, GetFound, GetMiss, StartPut, StartGet
<1> QED
  BY <1>1, <1>2, <1>3, <1>4 DEF Next

\* The chain invariant is inductive while no outdated head has been used.
LEMMA NextChainInv ==
  ASSUME TypeInv, LockInv, ChainInv, [Next]_vars, ~staleHead'
  PROVE  ChainInv'
<1>1. CASE UNCHANGED vars
  <2>1. UNCHANGED <<cellKey, buckets, next, freed, linked, pc, arg, p, q>>
    BY <1>1 DEF vars, memory, locals, history
  <2>2. Graph'
    BY <2>1, GraphUnchanged DEF ChainInv
  <2>3. FreshArgs' /\ WalkInv'
    BY <2>1 DEF ChainInv, FreshArgs, Putting, WalkInv, PutWalkInv, GetWalkInv, BucketOfPut,
       BucketOfGet, BucketOf, Live
  <2> QED
    BY <2>2, <2>3 DEF ChainInv
<1>2. CASE Next
  <2>1. FreshArgs'
    BY <1>2, FreshArgsKept DEF ChainInv
  <2>2. CASE Flush \/ Fault
    <3>1. UNCHANGED <<cellKey, buckets, next, freed, linked, pc, arg, p, q>>
      BY <2>2 DEF Flush, FlusherStep, StartFlush, FlushHead, FlushBucket, FlushCell,
         FlushChainEnd, FlushEnd, Fault, memory, locals, history
    <3>2. Graph'
      BY <3>1, GraphUnchanged DEF ChainInv
    <3>3. WalkInv'
      BY <3>1 DEF ChainInv, WalkInv, PutWalkInv, GetWalkInv, BucketOfPut, BucketOfGet,
         BucketOf, Live
    <3> QED
      BY <2>1, <3>2, <3>3 DEF ChainInv
  <2>3. ASSUME NEW t \in Threads, PutReplace(t) \/ PutLink(t) PROVE ChainInv'
    <3>1. Graph'
      BY <2>3, LinkKeepsGraph, ReplaceKeepsGraph
    <3>2. WalkInv'
      BY <2>3, WriteKeepsWalks
    <3> QED
      BY <2>1, <3>1, <3>2 DEF ChainInv
  <2>4. ASSUME NEW t \in Threads,
               \/ PutStep(t) /\ ~PutReplace(t) /\ ~PutLink(t)
               \/ GetStep(t)
               \/ \E c \in Cells : StartPut(t, c)
               \/ \E k \in Keys : StartGet(t, k)
        PROVE  ChainInv'
    <3>1. WalkInv' /\ UNCHANGED <<cellKey, buckets, next, freed, linked>>
      BY <2>4, StepKeepsWalks
    <3>2. Graph'
      BY <3>1, GraphUnchanged DEF ChainInv
    <3> QED
      BY <2>1, <3>1, <3>2 DEF ChainInv
  <2> QED
    BY <1>2, <2>2, <2>3, <2>4 DEF Next, PutStep
<1> QED
  BY <1>1, <1>2

\* The inductive invariant behind the theorems below.
LEMMA Invariance == Spec => []Inv
<1>1. Init => Inv
  BY InitTypeInv, InitLockInv, InitChainInv DEF Inv
<1>2. Inv /\ [Next]_vars => Inv'
  <2> SUFFICES ASSUME Inv, [Next]_vars PROVE Inv'
    OBVIOUS
  <2>1. TypeInv' /\ LockInv'
    BY NextTypeInv, NextLockInv DEF Inv
  <2>2. ~staleHead' => ChainInv'
    BY StaleForever, NextChainInv DEF Inv
  <2> QED
    BY <2>1, <2>2 DEF Inv
<1> QED
  BY <1>1, <1>2, PTL DEF Spec

\* Every cell a put has linked, and no put of its key has freed, is found from
\* its bucket's head (hashtable_put, hashtable_get), for any table and any
\* number of threads, until a put works from an outdated head.
THEOREM LinkedCellsFound == Spec => []NoLostPut
<1>1. Inv => NoLostPut
  BY DEF Inv, ChainInv, Graph, AllFound, NoLostPut
<1> QED
  BY <1>1, Invariance, PTL

\* The chains hold no freed cell.
THEOREM ChainsHoldNoFreedCell == Spec => []NoFreedInTable
<1>1. Inv => NoFreedInTable
  <2> SUFFICES ASSUME Inv, ~staleHead, NEW c \in freed PROVE ~InTable(c)
    BY DEF NoFreedInTable
  <2>1. ClosedUnderNext(Live)
    BY DEF Inv, ChainInv, Graph, LiveOnly, ClosedUnderNext
  <2>2. Live \in SUBSET Cells /\ c \notin Live
    BY DEF Inv, TypeInv, TypeOK, Live
  <2> QED
    BY <2>1, <2>2 DEF InTable
<1> QED
  BY <1>1, Invariance, PTL

\* No call walks over, or unlinks from, a cell another call has freed.
THEOREM WalksAreSafe == Spec => []NoUseAfterFree
<1>1. Inv => NoUseAfterFree
  <2> SUFFICES ASSUME Inv, ~staleHead, NEW t \in Threads PROVE ~UsesFreed(t)
    BY DEF NoUseAfterFree
  <2>1. NULL \notin freed
    BY NullAssumption DEF Inv, TypeInv, TypeOK
  <2>2. /\ pc[t] \in {"put_walk", "put_replace"} => PutWalkInv(t)
        /\ pc[t] = "get_walk" => GetWalkInv(t)
    BY DEF Inv, ChainInv, WalkInv
  <2> QED
    BY <2>1, <2>2 DEF UsesFreed, PutWalkInv, GetWalkInv, Live
<1> QED
  BY <1>1, Invariance, PTL

\* The three theorems together: without an outdated head the chains hold
\* exactly what can be used, whatever the threads put and get.
THEOREM ChainsAreSafe == Spec => []ChainsSafe
<1>1. NoLostPut /\ NoFreedInTable /\ NoUseAfterFree => ChainsSafe
  BY DEF ChainsSafe
<1> QED
  BY <1>1, LinkedCellsFound, ChainsHoldNoFreedCell, WalksAreSafe, PTL

-----------------------------------------------------------------------------
(* Proofs about the items of HashTable: as long as no put has worked from an *)
(* outdated bucket head, every key has one live cell, a get that finds none  *)
(* is right, the counter counts the live cells, and a flush that no put      *)
(* disturbs writes exactly them.                                             *)

\* A walk that stands at x comes past cell c.
Reaches(x, c) ==
  \A S \in SUBSET Cells :
    /\ x # NULL => x \in S
    /\ \A e \in S : next[e] # NULL => next[e] \in S
    => c \in S

\* What a call knows of its key: while it walks, a live cell of the key is
\* still ahead; behind the end of the chain there is none, and the bucket
\* mutex keeps it so until the put has linked its cell.
PutSearch(t) ==
  /\ pc[t] = "put_walk" =>
       \A c \in Live : cellKey[c] = cellKey[arg[t]] => Reaches(p[t], c)
  /\ pc[t] = "put_replace" => cellKey[p[t]] = cellKey[arg[t]]
  /\ pc[t] \in {"put_num", "put_check", "put_incr", "put_link"} =>
       \A c \in Live : cellKey[c] # cellKey[arg[t]]

GetSearch(t) ==
  pc[t] = "get_walk" => \A c \in Live : cellKey[c] = arg[t] => Reaches(p[t], c)

SearchInv == \A t \in Threads : PutSearch(t) /\ GetSearch(t)

OneCellPerKey == \A c, d \in Live : cellKey[c] = cellKey[d] => c = d

\* The counter: every put adds one before it links its cell.
Linking == {t \in Threads : pc[t] = "put_link"}

Counted ==
  /\ IsFiniteSet(Live) /\ IsFiniteSet(Linking)
  /\ key_num = Cardinality(Live) + Cardinality(Linking)

\* A flush that begins without a put stays without one: sst_put puts into
\* a table in WRITE only.
QuietStays ==
  /\ fpc # "idle" => status # "WRITE"
  /\ fpc # "idle" /\ quiet => \A t \in Threads : ~Putting(t)

\* The cells in the file.
Written == {file_data[i] : i \in DOMAIN file_data}

\* How far a quiet flush has come: whole buckets before fb, and of bucket fb
\* the cells before fpos.  No cell is met twice, because each one met was
\* reached by the only pointer to it.
FileInv ==
  /\ IsFiniteSet(Written) /\ Cardinality(Written) = Len(file_data)
  /\ Written \subseteq Live
  /\ \A c \in Live : BucketOf(c) < fb => c \in Written
  /\ \A c \in Written : BucketOf(c) < fb \/ (BucketOf(c) = fb /\ fpc = "chain")

ChainPosInv ==
  /\ fpos # NULL => fpos \in Live \ Written /\ BucketOf(fpos) = fb
  /\ \A c \in Live : BucketOf(c) = fb => c \in Written \/ Reaches(fpos, c)
  /\ \A c \in Written \cup {fpos} :
       c # NULL /\ BucketOf(c) = fb => c = buckets[fb] \/ \E d \in Written : next[d] = c

FlushInv ==
  /\ fpc \in {"idle", "head"} => file_data = <<>>
  /\ quiet /\ fpc \in {"bucket", "chain", "done"} =>
       FileInv /\ file_head = Cardinality(Live)
  /\ quiet /\ fpc = "chain" => ChainPosInv
  /\ fpc = "done" => fb = NBuckets

ItemInv == SearchInv /\ OneCellPerKey /\ Counted /\ FlushInv

FullInv == Inv /\ QuietStays /\ (~staleHead => ItemInv)

-------------------------------------------------------------------------------
\* From the head of a bucket a walk comes past every live cell of it.
LEMMA HeadReaches ==
  ASSUME TypeInv, Graph, NEW b \in Buckets, NEW c \in Live, BucketOf(c) = b
  PROVE  Reaches(buckets[b], c)
<1> SUFFICES ASSUME NEW S \in SUBSET Cells,
                    buckets[b] # NULL => buckets[b] \in S,
                    \A e \in S : next[e] # NULL => next[e] \in S
             PROVE  c \in S
  BY DEF Reaches
<1> DEFINE T == S \cup {e \in Live : BucketOf(e) # b}
<1>1. T \in SUBSET Cells
  BY DEF TypeInv, TypeOK, Live
<1>2. \A a \in Buckets : buckets[a] # NULL => buckets[a] \in T
  BY DEF Graph, LiveOnly
<1>3. \A e \in T \cap Live : next[e] # NULL => next[e] \in T
  BY DEF Graph, LiveOnly
<1>4. c \in T
  BY <1>1, <1>2, <1>3, LiveCloses
<1> QED
  BY <1>4

\* One step along the chain leaves only the cell stepped over behind.
LEMMA NextReaches ==
  ASSUME NEW x \in Cells, NEW c, c # x, Reaches(x, c)
  PROVE  Reaches(next[x], c)
<1> SUFFICES ASSUME NEW S \in SUBSET Cells,
                    next[x] # NULL => next[x] \in S,
                    \A e \in S : next[e] # NULL => next[e] \in S
             PROVE  c \in S
  BY DEF Reaches
<1>1. S \cup {x} \in SUBSET Cells
  OBVIOUS
<1>2. \A e \in S \cup {x} : next[e] # NULL => next[e] \in S \cup {x}
  OBVIOUS
<1>3. c \in S \cup {x}
  BY <1>1, <1>2 DEF Reaches
<1> QED
  BY <1>3

\* Nothing lies behind the end of a chain.
LEMMA NullReachesNone == ASSUME NEW c PROVE ~Reaches(NULL, c)
<1>1. {} \in SUBSET Cells /\ \A e \in {} : next[e] # NULL => next[e] \in {}
  OBVIOUS
<1> QED
  BY <1>1 DEF Reaches

\* A write elsewhere does not change what a walk in bucket b comes past.
LEMMA ReachesElsewhere ==
  ASSUME TypeInv, Graph, NEW b \in Buckets, NEW x, NEW c \in Live, Reaches(x, c),
         BucketOf(c) = b, x # NULL => x \in Live /\ BucketOf(x) = b,
         \A e \in Live : BucketOf(e) = b => next'[e] = next[e]
  PROVE  Reaches(x, c)'
<1> SUFFICES ASSUME NEW S \in SUBSET Cells,
                    x # NULL => x \in S,
                    \A e \in S : next'[e] # NULL => next'[e] \in S
             PROVE  c \in S
  BY DEF Reaches
<1> DEFINE T == {e \in S : e \in Live /\ BucketOf(e) = b}
<1>1. T \in SUBSET Cells /\ (x # NULL => x \in T)
  OBVIOUS
<1>2. \A e \in T : next[e] # NULL => next[e] \in T
  BY DEF Graph, LiveOnly
<1>3. c \in T
  BY <1>1, <1>2 DEF Reaches
<1> QED
  BY <1>3

-------------------------------------------------------------------------------
\* What a step of one thread leaves alone in the searches of the others.
LEMMA OtherSearch ==
  ASSUME SearchInv, NEW u \in Threads,
         UNCHANGED <<cellKey, next, freed, linked>>,
         pc'[u] = pc[u], arg'[u] = arg[u], p'[u] = p[u]
  PROVE  PutSearch(u)' /\ GetSearch(u)'
BY DEF SearchInv, PutSearch, GetSearch, Reaches, Live

\* A step that writes no chain: the search begins at the head of the bucket
\* and leaves only cells of other keys behind.
LEMMA StepKeepsSearch ==
  ASSUME TypeInv, ChainInv, SearchInv, ~staleHead', NEW t \in Threads,
         \/ PutStep(t) /\ ~PutReplace(t) /\ ~PutLink(t)
         \/ GetStep(t)
         \/ \E c \in Cells : StartPut(t, c)
         \/ \E k \in Keys : StartGet(t, k)
  PROVE  SearchInv'
<1>1. UNCHANGED <<cellKey, buckets, next, freed, linked>>
  BY StepKeepsWalks
<1>2. /\ pc \in [Threads -> PutSteps \cup GetSteps \cup {"idle"}]
      /\ arg \in [Threads -> Pointers \cup Keys] /\ p \in [Threads -> Pointers]
  BY DEF TypeInv, TypeOK
<1>3. ASSUME NEW u \in Threads \ {t}
      PROVE  pc'[u] = pc[u] /\ arg'[u] = arg[u] /\ p'[u] = p[u]
  BY <1>2 DEF PutStep, GetStep, StartPut, StartGet, PutReadHead, PutLock, PutWalkOn,
     PutWalkFound, PutWalkEnd, PutNumLock, PutCheckFull, PutCheckRoom, PutIncr, PutReturn,
     PutReturnFull, GetLock, GetWalkOn, GetFound, GetMiss, Forget, Step
<1>4. SUFFICES PutSearch(t)' /\ GetSearch(t)'
  BY <1>1, <1>3, OtherSearch DEF SearchInv
<1>5. PutSearch(t) /\ GetSearch(t) /\ Graph
  BY DEF SearchInv, ChainInv
<1>6. /\ Putting(t) => BucketOfPut(t) \in Buckets
      /\ pc[t] \in GetSteps => BucketOfGet(t) \in Buckets
  BY BucketType
<1>7. p[t] # NULL => p[t] \in Cells
  BY <1>2 DEF Pointers
<1>8. /\ Live' = Live
      /\ \A x, c : (\A S \in SUBSET Cells :
                      /\ x # NULL => x \in S
                      /\ \A e \in S : next'[e] # NULL => next'[e] \in S
                      => c \in S) <=> Reaches(x, c)
  BY <1>1 DEF Live, Reaches
<1> USE <1>1, <1>2 DEF Step, PutSteps, GetSteps
<1>9. CASE \/ \E c \in Cells : StartPut(t, c)
           \/ \E k \in Keys : StartGet(t, k)
           \/ PutReadHead(t) \/ PutReturn(t) \/ PutReturnFull(t)
           \/ GetFound(t) \/ GetMiss(t)
  <2>1. pc'[t] \in {"put_head", "get_lock", "put_lock", "idle"}
    BY <1>9 DEF StartPut, StartGet, PutReadHead, PutReturn, PutReturnFull, GetFound, GetMiss
  <2> QED
    BY <2>1 DEF PutSearch, GetSearch
<1>10. CASE PutLock(t)
  <2>1. /\ pc'[t] = "put_walk" /\ arg'[t] = arg[t] /\ p'[t] = buckets[BucketOfPut(t)]
        /\ BucketOfPut(t) \in Buckets
    BY <1>6, <1>10 DEF PutLock, Putting
  <2>2. \A c \in Live : cellKey[c] = cellKey[arg[t]] => Reaches(p'[t], c)
    BY <2>1, <1>5, HeadReaches DEF BucketOf, BucketOfPut
  <2> QED
    BY <2>1, <2>2, <1>8 DEF PutSearch, GetSearch, Reaches
<1>11. CASE PutWalkOn(t)
  <2>1. /\ pc'[t] = "put_walk" /\ arg'[t] = arg[t] /\ p'[t] = next[p[t]]
        /\ p[t] \in Cells /\ cellKey[p[t]] # cellKey[arg[t]]
    BY <1>7, <1>11 DEF PutWalkOn
  <2>2. \A c \in Live : cellKey[c] = cellKey[arg[t]] => Reaches(p'[t], c)
    BY <2>1, <1>5, <1>11, NextReaches DEF PutSearch, PutWalkOn
  <2> QED
    BY <2>1, <2>2, <1>8 DEF PutSearch, GetSearch, Reaches
<1>12. CASE PutWalkFound(t)
  <2>1. pc'[t] = "put_replace" /\ cellKey'[p'[t]] = cellKey'[arg'[t]]
    BY <1>12 DEF PutWalkFound
  <2> QED
    BY <2>1 DEF PutSearch, GetSearch
<1>13. CASE PutWalkEnd(t)
  <2>1. pc'[t] = "put_num" /\ arg'[t] = arg[t] /\ p[t] = NULL
    BY <1>13 DEF PutWalkEnd
  <2>2. \A c \in Live : cellKey[c] # cellKey[arg[t]]
    BY <2>1, <1>5, <1>13, NullReachesNone DEF PutSearch, PutWalkEnd
  <2> QED
    BY <2>1, <2>2, <1>8 DEF PutSearch, GetSearch
<1>14. CASE PutNumLock(t) \/ PutCheckFull(t) \/ PutCheckRoom(t) \/ PutIncr(t)
  <2>1. /\ pc[t] \in {"put_num", "put_check", "put_incr"} /\ arg'[t] = arg[t]
        /\ pc'[t] \in {"put_check", "put_full", "put_incr", "put_link"}
    BY <1>14 DEF PutNumLock, PutCheckFull, PutCheckRoom, PutIncr
  <2>2. \A c \in Live : cellKey[c] # cellKey[arg[t]]
    BY <2>1, <1>5 DEF PutSearch
  <2> QED
    BY <2>1, <2>2, <1>8 DEF PutSearch, GetSearch
<1>15. CASE GetLock(t)
  <2>1. /\ pc'[t] = "get_walk" /\ arg'[t] = arg[t] /\ p'[t] = buckets[BucketOfGet(t)]
        /\ BucketOfGet(t) \in Buckets
    BY <1>6, <1>15 DEF GetLock
  <2>2. \A c \in Live : cellKey[c] = arg[t] => Reaches(p'[t], c)
    BY <2>1, <1>5, HeadReaches DEF BucketOf, BucketOfGet
  <2> QED
    BY <2>1, <2>2, <1>8 DEF PutSearch, GetSearch, Reaches
<1>16. CASE GetWalkOn(t)
  <2>1. /\ pc'[t] = "get_walk" /\ arg'[t] = arg[t] /\ p'[t] = next[p[t]]
        /\ p[t] \in Cells /\ cellKey[p[t]] # arg[t]
    BY <1>7, <1>16 DEF GetWalkOn
  <2>2. \A c \in Live : cellKey[c] = arg[t] => Reaches(p'[t], c)
    BY <2>1, <1>5, <1>16, NextReaches DEF GetSearch, GetWalkOn
  <2> QED
    BY <2>1, <2>2, <1>8 DEF PutSearch, GetSearch, Reaches
<1> QED
  BY <1>9, <1>10, <1>11, <1>12, <1>13, <1>14, <1>15, <1>16 DEF PutStep, GetStep

\* A put that changes a chain disturbs no search: the others are in other
\* buckets, so for other keys.
LEMMA WriteKeepsSearch ==
  ASSUME TypeInv, LockInv, ChainInv, SearchInv, NEW t \in Threads, PutReplace(t) \/ PutLink(t)
  PROVE  SearchInv'
<1> DEFINE d == arg[t]
           b == BucketOfPut(t)
<1>1. d \in Cells /\ b \in Buckets /\ b = BucketOf(d) /\ pc[t] \in PutLocked
  BY BucketType DEF PutReplace, PutLink, Step, TypeInv, ArgInv, Putting, PutSteps, PutLocked,
     BucketOfPut, BucketOf
<1>2. /\ pc' = [pc EXCEPT ![t] = "put_ok"]
      /\ arg' = arg /\ p' = p /\ cellKey' = cellKey
      /\ Live' \subseteq Live \cup {d}
  BY DEF PutReplace, PutLink, Step, Live
<1>3. \A c \in Live : BucketOf(c) # b => next'[c] = next[c]
  BY WriteStaysInBucket
<1>4. SUFFICES ASSUME NEW u \in Threads PROVE PutSearch(u)' /\ GetSearch(u)'
  BY DEF SearchInv
<1>5. pc'[u] = IF u = t THEN "put_ok" ELSE pc[u]
  BY <1>2 DEF TypeInv, TypeOK
<1>6. bucket_locks[b] = t
  BY <1>1 DEF LockInv, InBucket
<1>7. u # t /\ pc[u] \in PutLocked => BucketOfPut(u) \in Buckets \ {b}
  BY <1>1, <1>6, BucketType DEF LockInv, InBucket, PutLocked, PutSteps, Putting
<1>8. u # t /\ pc[u] = "get_walk" => BucketOfGet(u) \in Buckets \ {b}
  BY <1>1, <1>6, BucketType DEF LockInv, InBucket, GetSteps
<1>9. PutSearch(u) /\ GetSearch(u) /\ Graph
      /\ (pc[u] \in {"put_walk", "put_replace"} => PutWalkInv(u))
      /\ (pc[u] = "get_walk" => GetWalkInv(u))
  BY DEF SearchInv, ChainInv, WalkInv
<1> HIDE DEF d, b
<1>10. PutSearch(u)'
  <2>1. CASE pc'[u] = "put_walk"
    <3>1. u # t /\ pc[u] = "put_walk" /\ BucketOfPut(u) \in Buckets \ {b}
      BY <2>1, <1>5, <1>7 DEF PutLocked, PutSteps
    <3>2. p[u] # NULL => p[u] \in Live /\ BucketOf(p[u]) = BucketOfPut(u)
      BY <3>1, <1>9 DEF PutWalkInv
    <3>3. ASSUME NEW c \in Live', cellKey[c] = cellKey[arg[u]]
          PROVE  Reaches(p[u], c)'
      <4>1. BucketOf(c) = BucketOfPut(u) /\ c \in Live
        BY <3>1, <3>3, <1>1, <1>2 DEF BucketOf, BucketOfPut
      <4>2. Reaches(p[u], c)
        BY <4>1, <3>1, <3>3, <1>9 DEF PutSearch
      <4>3. \A e \in Live : BucketOf(e) = BucketOfPut(u) => next'[e] = next[e]
        BY <3>1, <1>3
      <4>4. p'[u] = p[u]
        BY <1>2
      <4> QED
        BY <3>1, <3>2, <4>1, <4>2, <4>3, <4>4, <1>9, ReachesElsewhere DEF Reaches
    <3> QED
      BY <2>1, <3>3, <1>2 DEF PutSearch
  <2>2. CASE pc'[u] = "put_replace"
    BY <2>2, <1>2, <1>5, <1>9 DEF PutSearch
  <2>3. CASE pc'[u] \in {"put_num", "put_check", "put_incr", "put_link"}
    <3>1. u # t /\ pc[u] = pc'[u] /\ BucketOfPut(u) # b
      BY <2>3, <1>5, <1>7 DEF PutLocked, PutSteps
    <3>2. cellKey[d] # cellKey[arg[u]]
      BY <3>1, <1>1 DEF BucketOf, BucketOfPut
    <3> QED
      BY <2>3, <3>1, <3>2, <1>2, <1>9 DEF PutSearch
  <2> QED
    BY <2>1, <2>2, <2>3 DEF PutSearch
<1>11. GetSearch(u)'
  <2> SUFFICES ASSUME pc'[u] = "get_walk", NEW c \in Live', cellKey'[c] = arg'[u]
               PROVE  Reaches(p[u], c)'
    BY DEF GetSearch
  <2>1. u # t /\ pc[u] = "get_walk" /\ BucketOfGet(u) \in Buckets \ {b}
    BY <1>5, <1>8
  <2>2. p[u] # NULL => p[u] \in Live /\ BucketOf(p[u]) = BucketOfGet(u)
    BY <2>1, <1>9 DEF GetWalkInv
  <2>3. BucketOf(c) = BucketOfGet(u) /\ c \in Live
    BY <2>1, <1>1, <1>2 DEF BucketOf, BucketOfGet
  <2>4. Reaches(p[u], c)
    BY <2>1, <2>3, <1>2, <1>9 DEF GetSearch
  <2>5. \A e \in Live : BucketOf(e) = BucketOfGet(u) => next'[e] = next[e]
    BY <2>1, <1>3
  <2>6. p'[u] = p[u]
    BY <1>2
  <2> QED
    BY <2>1, <2>2, <2>3, <2>4, <2>5, <2>6, <1>9, ReachesElsewhere DEF Reaches
<1> QED
  BY <1>10, <1>11

-------------------------------------------------------------------------------
\* What a replacement does to the live cells: its own takes the place of the
\* one of the same key.  An insert adds its own.
LEMMA WriteLive ==
  ASSUME TypeInv, ChainInv, SearchInv, NEW t \in Threads, PutReplace(t) \/ PutLink(t)
  PROVE  /\ arg[t] \in Cells \ linked /\ Live \subseteq Cells
         /\ PutReplace(t) => /\ Live' = (Live \ {p[t]}) \cup {arg[t]}
                             /\ p[t] \in Live /\ cellKey[p[t]] = cellKey[arg[t]]
         /\ PutLink(t) => /\ Live' = Live \cup {arg[t]}
                          /\ \A c \in Live : cellKey[c] # cellKey[arg[t]]
<1>1. arg[t] \in Cells \ linked
  BY DEF PutReplace, PutLink, Step, TypeInv, ArgInv, ChainInv, FreshArgs, Putting, PutSteps
<1>2. freed \subseteq linked /\ linked \subseteq Cells
  BY DEF ChainInv, Graph, LiveOnly, TypeInv, TypeOK
<1>3. CASE PutReplace(t)
  <2>1. PutWalkInv(t) /\ p[t] \in Cells /\ cellKey[p[t]] = cellKey[arg[t]]
    BY <1>3 DEF PutReplace, Step, ChainInv, WalkInv, TypeInv, ArgInv, SearchInv, PutSearch
  <2>2. p[t] \in Live
    BY <2>1, NullAssumption DEF PutWalkInv
  <2>3. freed' = freed \cup {p[t]} /\ linked' = linked \cup {arg[t]} /\ pc[t] # "put_link"
    BY <1>3 DEF PutReplace, Step
  <2> QED
    BY <1>1, <1>2, <2>1, <2>2, <2>3 DEF Live, PutLink, Step
<1>4. CASE PutLink(t)
  <2>1. freed' = freed /\ linked' = linked \cup {arg[t]} /\ pc[t] = "put_link"
    BY <1>4 DEF PutLink, Step
  <2> QED
    BY <1>1, <1>2, <2>1 DEF Live, SearchInv, PutSearch, PutReplace, Step
<1> QED
  BY <1>3, <1>4

LEMMA WriteKeepsUnique ==
  ASSUME TypeInv, ChainInv, SearchInv, OneCellPerKey,
         NEW t \in Threads, PutReplace(t) \/ PutLink(t)
  PROVE  OneCellPerKey'
<1>1. cellKey' = cellKey
  BY DEF PutReplace, PutLink, Step
<1>2. CASE PutReplace(t)
  BY <1>1, <1>2, WriteLive DEF OneCellPerKey
<1>3. CASE PutLink(t)
  BY <1>1, <1>3, WriteLive DEF OneCellPerKey
<1> QED
  BY <1>2, <1>3

\* The counter through the steps of a put.
LEMMA WriteKeepsCounted ==
  ASSUME TypeInv, ChainInv, SearchInv, Counted,
         NEW t \in Threads, PutReplace(t) \/ PutLink(t)
  PROVE  Counted'
<1>1. IsFiniteSet(Live) /\ IsFiniteSet(Linking)
      /\ key_num = Cardinality(Live) + Cardinality(Linking) /\ key_num' = key_num
      /\ Cardinality(Live) \in Nat /\ Cardinality(Linking) \in Nat
  BY FS_CardinalityType DEF Counted, PutReplace, PutLink
<1>2. arg[t] \notin Live
  BY WriteLive DEF Live
<1>3. pc' = [pc EXCEPT ![t] = "put_ok"] /\ DOMAIN pc = Threads
  BY DEF PutReplace, PutLink, Step, TypeInv, TypeOK
<1>4. Linking' = Linking \ {t}
  BY <1>3 DEF Linking
<1>5. CASE PutReplace(t)
  <2>1. t \notin Linking
    BY <1>5 DEF PutReplace, Step, Linking
  <2>2. Linking' = Linking
    BY <2>1, <1>4
  <2>3. p[t] \in Live /\ Live' = (Live \ {p[t]}) \cup {arg[t]}
    BY <1>5, WriteLive
  <2>4. IsFiniteSet(Live \ {p[t]}) /\ Cardinality(Live \ {p[t]}) = Cardinality(Live) - 1
    BY <2>3, <1>1, FS_RemoveElement
  <2>5. IsFiniteSet(Live') /\ Cardinality(Live') = Cardinality(Live)
    BY <2>3, <2>4, <1>1, <1>2, FS_AddElement
  <2> QED
    BY <2>2, <2>5, <1>1 DEF Counted
<1>6. CASE PutLink(t)
  <2>1. t \in Linking
    BY <1>6 DEF PutLink, Step, Linking
  <2>2. IsFiniteSet(Linking') /\ Cardinality(Linking') = Cardinality(Linking) - 1
    BY <2>1, <1>1, <1>4, FS_RemoveElement
  <2>3. Live' = Live \cup {arg[t]}
    BY <1>6, WriteLive
  <2>4. IsFiniteSet(Live') /\ Cardinality(Live') = Cardinality(Live) + 1
    BY <2>3, <1>1, <1>2, FS_AddElement
  <2> QED
    BY <2>2, <2>4, <1>1 DEF Counted
<1> QED
  BY <1>5, <1>6

LEMMA StepKeepsCounted ==
  ASSUME TypeInv, ChainInv, Counted, ~staleHead', NEW t \in Threads,
         \/ PutStep(t) /\ ~PutReplace(t) /\ ~PutLink(t)
         \/ GetStep(t)
         \/ \E c \in Cells : StartPut(t, c)
         \/ \E k \in Keys : StartGet(t, k)
  PROVE  Counted'
<1>1. Live' = Live
  BY StepKeepsWalks DEF Live
<1>2. DOMAIN pc = Threads
  BY DEF TypeInv, TypeOK
<1>3. CASE PutIncr(t)
  <2>1. Linking' = Linking \cup {t} /\ t \notin Linking /\ key_num' = key_num + 1
    BY <1>2, <1>3 DEF PutIncr, Step, Linking
  <2>2. IsFiniteSet(Linking') /\ Cardinality(Linking') = Cardinality(Linking) + 1
    BY <2>1, FS_AddElement DEF Counted
  <2>3. Cardinality(Live) \in Nat /\ Cardinality(Linking) \in Nat
    BY FS_CardinalityType DEF Counted
  <2> QED
    BY <1>1, <2>1, <2>2, <2>3 DEF Counted
<1>4. CASE ~PutIncr(t)
  <2>1. pc[t] # "put_link" /\ pc'[t] # "put_link" /\ key_num' = key_num
        /\ pc' = [pc EXCEPT ![t] = pc'[t]]
    BY <1>2, <1>4 DEF PutStep, GetStep, StartPut, StartGet, PutReadHead, PutLock, PutWalkOn,
     PutWalkFound, PutWalkEnd, PutNumLock, PutCheckFull, PutCheckRoom, PutReturn,
     PutReturnFull, GetLock, GetWalkOn, GetFound, GetMiss, Step, memory
  <2>2. Linking' = Linking
    BY <2>1, <1>2 DEF Linking
  <2> QED
    BY <1>1, <2>1, <2>2 DEF Counted
<1> QED
  BY <1>3, <1>4

-------------------------------------------------------------------------------
\* A flush that began without a put stays without one.
LEMMA NextQuietStays ==
  ASSUME TypeInv, QuietStays, [Next]_vars
  PROVE  QuietStays'
<1>1. CASE UNCHANGED vars
  BY <1>1 DEF vars, locals, flusher, history, QuietStays, Putting
<1>2. CASE StartFlush
  <2>1. quiet' => \A t \in Threads : ~Putting(t)
    BY <1>2 DEF StartFlush
  <2>2. pc' = pc /\ status' = "FLUSH"
    BY <1>2 DEF StartFlush, FlusherStep, locals
  <2> QED
    BY <2>1, <2>2 DEF QuietStays, Putting
<1> USE DEF TypeInv, TypeOK, QuietStays, Putting, PutSteps, GetSteps, Step, memory, locks,
        locals, flusher, history
<1>3. CASE (Flush /\ ~StartFlush) \/ Fault
  BY <1>3 DEF Flush, FlusherStep, FlushHead, FlushBucket, FlushCell, FlushChainEnd, FlushEnd,
     Fault
<1>4. ASSUME NEW t \in Threads, NEW c \in Cells, StartPut(t, c) PROVE QuietStays'
  BY <1>4 DEF StartPut
<1>5. ASSUME NEW t \in Threads, \/ \E k \in Keys : StartGet(t, k)
                                \/ GetStep(t)
      PROVE  QuietStays'
  BY <1>5 DEF StartGet, GetStep, GetLock, GetWalkOn, GetFound, GetMiss
<1>6. ASSUME NEW t \in Threads, PutStep(t) PROVE QuietStays'
  <2>1. Putting(t) /\ UNCHANGED <<flusher, quiet>>
    BY <1>6 DEF PutStep, PutReadHead, PutLock, PutWalkOn, PutWalkFound, PutWalkEnd, PutReplace,
       PutNumLock, PutCheckFull, PutCheckRoom, PutIncr, PutLink, PutReturn, PutReturnFull
  <2> QED
    BY <2>1
<1> QED
  BY <1>1, <1>2, <1>4, <1>5, <1>6, <1>3 DEF Next

\* A flush that began without a put meets no item that is half linked.
LEMMA NoneHalfLinked ==
  ASSUME quiet, QuietStays, fpc \in {"bucket", "chain"}
  PROVE  \A b, c : HalfLinked(b, c) = {}
BY DEF QuietStays, HalfLinked, Putting, PutSteps

\* Of the cells of the bucket the flusher is in, none is met again.
LEMMA CellKeepsFile ==
  ASSUME TypeInv, Graph, FileInv, ChainPosInv, quiet, QuietStays, FlushCell
  PROVE  FileInv' /\ ChainPosInv'
<1>1. /\ fpc = "chain" /\ fpc' = "chain" /\ fb' = fb /\ fpos # NULL
      /\ file_data' = Append(file_data, fpos) /\ fpos' = next[fpos]
      /\ UNCHANGED <<cellKey, buckets, next, freed, linked>>
  BY NoneHalfLinked DEF FlushCell, FlusherStep, memory
<1>2. fpos \in Live \ Written /\ BucketOf(fpos) = fb /\ Live \subseteq Cells
  BY <1>1 DEF ChainPosInv, TypeInv, TypeOK, Live
<1>3. file_data \in Seq(Cells) /\ fpos \in Cells
  BY <1>1, <1>2 DEF TypeInv, TypeOK, Live
<1>4. Written' = Written \cup {fpos}
  BY <1>1, <1>3 DEF Written
<1>5. Live' = Live /\ (\A c : BucketOf(c)' = BucketOf(c))
  BY <1>1 DEF Live, BucketOf
<1>6. FileInv'
  <2>1. IsFiniteSet(Written') /\ Cardinality(Written') = Cardinality(Written) + 1
    BY <1>2, <1>4, FS_AddElement DEF FileInv
  <2>2. Len(file_data') = Len(file_data) + 1
    BY <1>1, <1>3
  <2> QED
    BY <2>1, <2>2, <1>1, <1>2, <1>4, <1>5 DEF FileInv
<1>7. next[fpos] # NULL => next[fpos] \in Live \ Written' /\ BucketOf(next[fpos]) = fb
  <2> SUFFICES ASSUME next[fpos] # NULL
               PROVE  next[fpos] \in Live \ Written' /\ BucketOf(next[fpos]) = fb
    OBVIOUS
  <2>1. next[fpos] \in Live /\ BucketOf(next[fpos]) = fb /\ fb \in Buckets
    BY <1>1, <1>2, SizesAssumption DEF Graph, LiveOnly, TypeInv, TypeOK, ArgInv, Buckets
  <2>2. next[fpos] # buckets[fb] /\ next[fpos] # fpos
        /\ \A d \in Live : next[d] = next[fpos] => d = fpos
    BY <1>2, <2>1 DEF Graph, OnePointer
  <2>3. next[fpos] \notin Written
    BY <1>2, <2>1, <2>2, NullAssumption DEF ChainPosInv, FileInv
  <2> QED
    BY <2>1, <2>2, <2>3, <1>4
<1>8. \A c \in Live : BucketOf(c) = fb => c \in Written' \/ Reaches(next[fpos], c)
  BY <1>1, <1>3, <1>4, NextReaches DEF ChainPosInv
<1>9. \A c \in Written' \cup {next[fpos]} :
        c # NULL /\ BucketOf(c) = fb => c = buckets[fb] \/ \E d \in Written' : next[d] = c
  BY <1>4 DEF ChainPosInv
<1>10. ChainPosInv'
  <2>1. \A c : Reaches(next[fpos], c) => Reaches(fpos, c)'
    BY <1>1 DEF Reaches
  <2> QED
    BY <2>1, <1>1, <1>5, <1>7, <1>8, <1>9 DEF ChainPosInv
<1> QED
  BY <1>6, <1>10

\* The steps of the flusher.
LEMMA FlushKeepsFile ==
  ASSUME TypeInv, Graph, Counted, QuietStays, QuietStays', FlushInv, Flush
  PROVE  FlushInv'
<1>1. /\ UNCHANGED <<cellKey, buckets, next, freed, linked, key_num, pc>>
      /\ Live' = Live /\ (\A c : BucketOf(c)' = BucketOf(c))
  BY DEF Flush, FlusherStep, StartFlush, FlushHead, FlushBucket, FlushCell, FlushChainEnd,
     FlushEnd, memory, locals, Live, BucketOf
<1>2. /\ fb \in 0 .. NBuckets /\ Live \subseteq Cells
      /\ \A c \in Cells : BucketOf(c) \in 0 .. NBuckets - 1
  BY HashAssumption DEF TypeInv, TypeOK, BucketOf, Buckets, Live
<1> USE SizesAssumption
<1>3. CASE StartFlush
  BY <1>3 DEF StartFlush, FlusherStep, FlushInv
<1>4. CASE FlushHead
  <2>1. /\ fpc = "head" /\ fpc' = "bucket" /\ fb' = 0 /\ file_head' = key_num
        /\ file_data = <<>> /\ file_data' = <<>> /\ quiet' = quiet
    BY <1>4 DEF FlushHead, FlusherStep, FlushInv
  <2>2. Written' = {}
    BY <2>1 DEF Written
  <2>3. quiet => Linking = {}
    BY <2>1 DEF QuietStays, Linking, Putting, PutSteps
  <2>4. quiet => key_num = Cardinality(Live)
    BY <2>3, FS_EmptySet, FS_CardinalityType DEF Counted
  <2>5. FileInv'
    BY <1>1, <1>2, <2>1, <2>2, FS_EmptySet DEF FileInv
  <2> QED
    BY <1>1, <2>1, <2>4, <2>5 DEF FlushInv
<1>5. CASE FlushBucket
  <2>1. /\ fpc = "bucket" /\ fpc' = "chain" /\ fb' = fb /\ fb \in Buckets
        /\ quiet => fpos' = buckets[fb]
        /\ UNCHANGED <<file_data, file_head, quiet>>
    BY <1>2, <1>5, NoneHalfLinked DEF FlushBucket, FlusherStep, Buckets
  <2>2. Written' = Written
    BY <2>1 DEF Written
  <2> SUFFICES ASSUME quiet PROVE FileInv' /\ ChainPosInv' /\ file_head' = Cardinality(Live')
    BY <2>1 DEF FlushInv
  <2>3. FileInv /\ file_head = Cardinality(Live)
    BY <2>1 DEF FlushInv
  <2>4. FileInv'
    BY <1>1, <2>1, <2>2, <2>3 DEF FileInv
  <2>5. \A c \in Written : BucketOf(c) # fb
    BY <1>2, <2>1, <2>3 DEF FileInv
  <2>6. \A c \in Live : BucketOf(c) = fb => Reaches(buckets[fb], c)
    BY <2>1, HeadReaches
  <2>7. \A c : Reaches(buckets[fb], c) => Reaches(fpos, c)'
    BY <1>1, <2>1 DEF Reaches
  <2>8. buckets[fb] # NULL => buckets[fb] \in Live /\ BucketOf(buckets[fb]) = fb
    BY <2>1 DEF Graph, LiveOnly
  <2>9. ChainPosInv'
    BY <1>1, <2>1, <2>2, <2>5, <2>6, <2>7, <2>8 DEF ChainPosInv
  <2> QED
    BY <1>1, <2>1, <2>3, <2>4, <2>9
<1>6. CASE FlushCell
  <2>1. fpc = "chain" /\ fpc' = "chain" /\ UNCHANGED <<file_head, quiet>>
    BY <1>6 DEF FlushCell, FlusherStep
  <2> QED
    BY <1>1, <1>6, <2>1, CellKeepsFile DEF FlushInv
<1>7. CASE FlushChainEnd
  <2>1. /\ fpc = "chain" /\ fpc' = "bucket" /\ fb' = fb + 1 /\ fpos = NULL
        /\ UNCHANGED <<file_data, file_head, quiet>>
    BY <1>7 DEF FlushChainEnd, FlusherStep
  <2>2. Written' = Written
    BY <2>1 DEF Written
  <2> SUFFICES ASSUME quiet PROVE FileInv' /\ file_head' = Cardinality(Live')
    BY <2>1 DEF FlushInv
  <2>3. FileInv /\ ChainPosInv /\ file_head = Cardinality(Live)
    BY <2>1 DEF FlushInv
  <2>4. \A c \in Live : BucketOf(c) < fb + 1 => c \in Written
    <3> SUFFICES ASSUME NEW c \in Live, BucketOf(c) < fb + 1 PROVE c \in Written
      OBVIOUS
    <3>1. BucketOf(c) < fb \/ BucketOf(c) = fb
      BY <1>2
    <3> QED
      BY <3>1, <2>1, <2>3, NullReachesNone DEF FileInv, ChainPosInv
  <2>5. \A c \in Written : BucketOf(c) < fb + 1
    BY <1>2, <2>3 DEF FileInv
  <2> QED
    BY <1>1, <2>1, <2>2, <2>3, <2>4, <2>5 DEF FileInv
<1>8. CASE FlushEnd
  <2>1. /\ fpc = "bucket" /\ fpc' = "done" /\ fb = NBuckets
        /\ UNCHANGED <<fb, file_data, file_head, quiet>>
    BY <1>8 DEF FlushEnd, FlusherStep
  <2>2. Written' = Written
    BY <2>1 DEF Written
  <2>3. quiet => FileInv'
    BY <1>1, <2>1, <2>2 DEF FlushInv, FileInv
  <2> QED
    BY <1>1, <2>1, <2>3 DEF FlushInv
<1> QED
  BY <1>3, <1>4, <1>5, <1>6, <1>7, <1>8 DEF Flush

\* Calls beside a quiet flush are gets, which change nothing it reads.
LEMMA CallKeepsFile ==
  ASSUME TypeInv, QuietStays', FlushInv, UNCHANGED <<flusher, quiet>>,
         \/ UNCHANGED <<cellKey, buckets, next, freed, linked>>
         \/ fpc = "idle" \/ ~quiet
  PROVE  FlushInv'
<1>1. UNCHANGED <<fpc, fb, fpos, file_head, file_data, quiet>>
  BY DEF flusher
<1>2. CASE UNCHANGED <<cellKey, buckets, next, freed, linked>>
  <2>1. Live' = Live /\ Written' = Written /\ (\A c : BucketOf(c)' = BucketOf(c))
        /\ (\A c : Reaches(fpos, c)' <=> Reaches(fpos, c))
    BY <1>1, <1>2 DEF Live, Written, BucketOf, Reaches
  <2>2. FileInv => FileInv'
    BY <1>1, <2>1 DEF FileInv
  <2>3. ChainPosInv => ChainPosInv'
    BY <1>1, <1>2, <2>1 DEF ChainPosInv
  <2> QED
    BY <1>1, <2>1, <2>2, <2>3 DEF FlushInv
<1>3. CASE fpc = "idle" \/ ~quiet
  BY <1>1, <1>3 DEF FlushInv
<1> QED
  BY <1>2, <1>3

-------------------------------------------------------------------------------
\* The items at the start: none.
LEMMA InitItemInv == Init => QuietStays /\ ItemInv
<1> SUFFICES ASSUME Init PROVE QuietStays /\ ItemInv
  OBVIOUS
<1>1. Live = {} /\ Linking = {}
  BY DEF Init, Live, Linking
<1>2. SearchInv /\ OneCellPerKey
  BY <1>1 DEF Init, SearchInv, PutSearch, GetSearch, OneCellPerKey
<1>3. Counted
  BY <1>1, FS_EmptySet DEF Init, Counted
<1>4. FlushInv /\ QuietStays
  BY DEF Init, FlushInv, QuietStays
<1> QED
  BY <1>2, <1>3, <1>4 DEF ItemInv

\* A step that is no step of a call leaves the searches, the keys and the
\* counter as they are.
LEMMA ItemsUnchanged ==
  ASSUME SearchInv, OneCellPerKey, Counted,
         UNCHANGED <<cellKey, next, freed, linked, key_num, pc, arg, p>>
  PROVE  SearchInv' /\ OneCellPerKey' /\ Counted'
<1>1. SearchInv'
  BY OtherSearch DEF SearchInv
<1>2. Live' = Live /\ Linking' = Linking
  BY DEF Live, Linking
<1> QED
  BY <1>1, <1>2 DEF OneCellPerKey, Counted

LEMMA NextItemInv ==
  ASSUME Inv, Inv', QuietStays, QuietStays', ItemInv, ~staleHead, ~staleHead', [Next]_vars
  PROVE  ItemInv'
<1>1. /\ TypeInv /\ LockInv /\ ChainInv /\ Graph
      /\ SearchInv /\ OneCellPerKey /\ Counted /\ FlushInv
  BY DEF Inv, ItemInv, ChainInv
<1>2. CASE UNCHANGED vars
  <2>1. UNCHANGED <<cellKey, buckets, next, freed, linked, key_num, pc, arg, p>>
        /\ UNCHANGED <<flusher, quiet>>
    BY <1>2 DEF vars, memory, locals, history
  <2> QED
    BY <1>1, <2>1, ItemsUnchanged, CallKeepsFile DEF ItemInv
<1>3. CASE Flush
  <2>1. UNCHANGED <<cellKey, next, freed, linked, key_num, pc, arg, p>>
    BY <1>3 DEF Flush, FlusherStep, StartFlush, FlushHead, FlushBucket, FlushCell,
       FlushChainEnd, FlushEnd, memory, locals
  <2> QED
    BY <1>1, <1>3, <2>1, ItemsUnchanged, FlushKeepsFile DEF ItemInv
<1>4. CASE Fault
  <2>1. UNCHANGED <<cellKey, buckets, next, freed, linked, key_num, pc, arg, p>>
        /\ UNCHANGED <<flusher, quiet>>
    BY <1>4 DEF Fault, memory, locals, history
  <2> QED
    BY <1>1, <2>1, ItemsUnchanged, CallKeepsFile DEF ItemInv
<1>5. ASSUME NEW t \in Threads, PutReplace(t) \/ PutLink(t) PROVE ItemInv'
  <2>1. UNCHANGED <<flusher, quiet>> /\ Putting(t)
    BY <1>5 DEF PutReplace, PutLink, Step, Putting, PutSteps
  <2>2. fpc = "idle" \/ ~quiet
    BY <2>1 DEF QuietStays
  <2>3. FlushInv'
    BY <1>1, <2>1, <2>2, CallKeepsFile
  <2>4. SearchInv' /\ OneCellPerKey' /\ Counted'
    BY <1>1, <1>5, WriteKeepsSearch, WriteKeepsUnique, WriteKeepsCounted
  <2> QED
    BY <2>3, <2>4 DEF ItemInv
<1>6. ASSUME NEW t \in Threads,
             \/ PutStep(t) /\ ~PutReplace(t) /\ ~PutLink(t)
             \/ GetStep(t)
             \/ \E c \in Cells : StartPut(t, c)
             \/ \E k \in Keys : StartGet(t, k)
      PROVE  ItemInv'
  <2>1. UNCHANGED <<cellKey, buckets, next, freed, linked>>
    BY <1>1, <1>6, StepKeepsWalks
  <2>2. UNCHANGED <<flusher, quiet>>
    BY <1>6 DEF PutStep, PutReadHead, PutLock, PutWalkOn, PutWalkFound, PutWalkEnd, PutNumLock,
       PutCheckFull, PutCheckRoom, PutIncr, PutReturn, PutReturnFull, GetStep, GetLock, GetWalkOn,
       GetFound, GetMiss, StartPut, StartGet, history
  <2>3. FlushInv'
    BY <1>1, <2>1, <2>2, CallKeepsFile
  <2>4. SearchInv' /\ Counted'
    BY <1>1, <1>6, StepKeepsSearch, StepKeepsCounted
  <2>5. OneCellPerKey'
    BY <1>1, <2>1 DEF OneCellPerKey, Live
  <2> QED
    BY <2>3, <2>4, <2>5 DEF ItemInv
<1> QED
  BY <1>2, <1>3, <1>4, <1>5, <1>6 DEF Next, PutStep

\* The inductive invariant behind the theorems below.
LEMMA ItemInvariance == Spec => []FullInv
<1>1. Init => FullInv
  BY InitTypeInv, InitLockInv, InitChainInv, InitItemInv DEF FullInv, Inv
<1>2. FullInv /\ Inv' /\ [Next]_vars => FullInv'
  <2> SUFFICES ASSUME FullInv, Inv', [Next]_vars PROVE FullInv'
    OBVIOUS
  <2>1. QuietStays'
    BY NextQuietStays DEF FullInv, Inv
  <2>2. ~staleHead' => ~staleHead
    BY StaleForever DEF FullInv, Inv
  <2>3. ~staleHead' => ItemInv'
    BY <2>1, <2>2, NextItemInv DEF FullInv
  <2> QED
    BY <2>1, <2>3 DEF FullInv
<1> QED
  BY <1>1, <1>2, Invariance, PTL DEF Spec

\* A key has at most one live cell: a put that comes behind the end of its
\* chain has passed all of it, and the bucket mutex keeps other puts of the key
\* away until the new cell is linked (hashtable_put).
THEOREM KeysAreUnique == Spec => []UniqueKeys
<1>1. FullInv => UniqueKeys
  BY DEF FullInv, ItemInv, OneCellPerKey, UniqueKeys
<1> QED
  BY <1>1, ItemInvariance, PTL

\* key_num counts the live cells and the puts between the increment and the
\* link, for any number of threads (hashtable_put, key_num).
THEOREM CounterIsRight == Spec => []CountMatches
<1>1. FullInv => CountMatches
  BY DEF FullInv, ItemInv, Counted, Linking, CountMatches
<1> QED
  BY <1>1, ItemInvariance, PTL

\* A get that answers NULL has come past every live cell of its bucket, and
\* none has the key (hashtable_get).
THEOREM MissesAreRight == Spec => GetMissIsRight
<1>1. FullInv /\ [Next]_vars =>
        [\A t \in Threads :
           pc[t] = "get_walk" /\ pc'[t] = "idle" /\ p[t] = NULL /\ ~staleHead
             => \A c \in Live : cellKey[c] # arg[t]]_vars
  BY NullReachesNone DEF FullInv, ItemInv, SearchInv, GetSearch
<1> QED
  BY <1>1, ItemInvariance, PTL DEF Spec, GetMissIsRight

\* A flush that no put disturbs writes every live cell once, and their number
\* in the head, for any chains and any number of buckets
\* (hashtable_writehead, hashtable_writedata).
THEOREM QuietFlushesAreExact == Spec => []QuietFlushExact
<1>1. FullInv => QuietFlushExact
  <2> SUFFICES ASSUME FullInv, fpc = "done", quiet, ~staleHead
               PROVE  /\ Written = Live /\ Len(file_data) = Cardinality(Live)
                      /\ file_head = Cardinality(Live)
    BY DEF QuietFlushExact, Written
  <2>1. FileInv /\ file_head = Cardinality(Live) /\ fb = NBuckets
    BY DEF FullInv, ItemInv, FlushInv
  <2>2. \A c \in Live : BucketOf(c) < NBuckets
    BY HashAssumption, SizesAssumption
       DEF FullInv, Inv, TypeInv, TypeOK, BucketOf, Buckets, Live
  <2>3. Written = Live
    BY <2>1, <2>2 DEF FileInv
  <2> QED
    BY <2>1, <2>3 DEF FileInv
<1> QED
  BY <1>1, ItemInvariance, PTL
=============================================================================
