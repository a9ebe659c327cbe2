---------------------------- MODULE SSTManagerProofs ----------------------------
(****************************************************************************)
(* Proofs about SSTManager, for every number of threads, items, tables,     *)
(* runs and crashes: there is one writing table, a full table is handed to  *)
(* the pool once, a clean close leaves no table to be written, and no file  *)
(* of the Manifest is emptied by a new table.                               *)
(*                                                                          *)
(* The first two rest on what the manager's lock protects from the moment a *)
(* put decides to create a table until the table is in status WRITE: nobody *)
(* else creates one, no table is writing, and the table being created is    *)
(* the head of the list.  The close rests on a table in FLUSH having its    *)
(* job, and on the writing table being the first one that sstmanager_flush  *)
(* looks at; the files rest on the order of the ids.                        *)
(****************************************************************************)
EXTENDS SSTManager, FiniteSetTheorems, WellFoundedInduction, TLAPS

\* The steps of a put that holds the manager's lock to create a table.
Creating == {"add", "open", "write"}

Types ==
  /\ list \in Seq(Ids)
  /\ sst_num \in Nat
  /\ current_id \in 0 .. MaxId + 1
  /\ writetable \in IdOrNone
  /\ status \in [Ids -> Statuses]
  /\ pc \in [Threads -> PutSteps \cup GetSteps \cup {"idle"}]
  /\ cur \in [Threads -> IdOrNone]
  /\ queuedTimes \in [Ids -> Nat]
  /\ manifest \in {NULL, Torn} \cup [last : 0 .. MaxId + 1, num : Nat, ids : Seq(Ids)]

\* A put past REPEAT has a table; one that has seen a table in status WRITE
\* finds another in writetable when its own is rotated.
HasTable ==
  \A t \in Threads :
    /\ pc[t] \in {"put", "reserve", "link", "full"} => cur[t] \in Ids
    /\ pc[t] \in {"reserve", "link", "full"} => writetable \in Ids

CreatorHasLock == \A t \in Threads : pc[t] \in Creating => lock = t

NoneWrites == \A id \in Ids : status[id] # "WRITE"

CreatorIsAlone == \A t \in Threads : pc[t] \in Creating => NoneWrites

\* The table at the head of the list is in use and has not been rotated.
HeadIsNew ==
  /\ list # <<>> /\ sst_num > 0
  /\ list[1] < current_id
  /\ queuedTimes[list[1]] = 0

CreatesHead ==
  \A t \in Threads : pc[t] \in {"open", "write"} => HeadIsNew /\ cur[t] = list[1]

WritesHead ==
  \A id \in Ids : status[id] = "WRITE" => HeadIsNew /\ id = list[1] /\ writetable \in Ids

FreshNotQueued == \A id \in Ids : id >= current_id => queuedTimes[id] = 0

IInv ==
  /\ Types /\ HasTable /\ CreatorHasLock /\ CreatorIsAlone /\ CreatesHead
  /\ WritesHead /\ FreshNotQueued /\ QueuedOnce

\* The invariant has what the two properties say.
LEMMA InvGives == IInv => OneWriteTable /\ QueuedOnce
  BY DEF IInv, WritesHead, OneWriteTable

LEMMA InitInv == Init => IInv
<1> SUFFICES ASSUME Init PROVE IInv
  OBVIOUS
<1>1. 0 \in 0 .. MaxId + 1
  BY BoundsAssumption
<1>2. Types
  BY <1>1 DEF Init, Types, IdOrNone, Statuses
<1>3. HasTable /\ CreatorHasLock /\ CreatorIsAlone /\ CreatesHead
  BY DEF Init, HasTable, CreatorHasLock, CreatorIsAlone, CreatesHead, Creating
<1>4. WritesHead /\ FreshNotQueued /\ QueuedOnce
  BY DEF Init, WritesHead, FreshNotQueued, QueuedOnce
<1> QED
  BY <1>2, <1>3, <1>4 DEF IInv

-----------------------------------------------------------------------------
(* Steps by what they do to the list and the statuses *)

Structure == <<lock, list, sst_num, current_id, writetable, status, queuedTimes>>

\* A step that leaves the structure alone and takes no thread further into a
\* creation.
QuietStep ==
  /\ UNCHANGED Structure
  /\ Types' /\ HasTable'
  /\ \A t \in Threads : pc'[t] \in Creating => pc'[t] = pc[t] /\ cur'[t] = cur[t]

LEMMA Quiet == IInv /\ QuietStep => IInv'
<1> SUFFICES ASSUME IInv, QuietStep PROVE IInv'
  OBVIOUS
<1> USE DEF IInv, QuietStep, Structure
<1>1. CreatorHasLock'
  BY DEF CreatorHasLock
<1>2. CreatorIsAlone'
  BY DEF CreatorIsAlone, NoneWrites
<1>3. CreatesHead'
  BY DEF CreatesHead, HeadIsNew, Creating
<1>4. WritesHead' /\ FreshNotQueued' /\ QueuedOnce'
  BY DEF WritesHead, HeadIsNew, FreshNotQueued, QueuedOnce
<1> QED
  BY <1>1, <1>2, <1>3, <1>4

\* A step that only sets a table's status to READ.
ReadStep ==
  /\ UNCHANGED <<lock, list, sst_num, current_id, writetable, queuedTimes, cur>>
  /\ Types' /\ HasTable'
  /\ \A id \in Ids : status'[id] \in {status[id], "READ"}
  /\ \A t \in Threads : pc'[t] \in Creating => pc'[t] = pc[t]

LEMMA Reads == IInv /\ ReadStep => IInv'
<1> SUFFICES ASSUME IInv, ReadStep PROVE IInv'
  OBVIOUS
<1> USE DEF IInv, ReadStep
<1>1. \A id \in Ids : status'[id] = "WRITE" => status[id] = "WRITE"
  BY DEF Types
<1>2. CreatorHasLock'
  BY DEF CreatorHasLock
<1>3. CreatorIsAlone'
  BY <1>1 DEF CreatorIsAlone, NoneWrites
<1>4. CreatesHead'
  BY DEF CreatesHead, HeadIsNew, Creating
<1>5. WritesHead' /\ FreshNotQueued' /\ QueuedOnce'
  BY <1>1 DEF WritesHead, HeadIsNew, FreshNotQueued, QueuedOnce
<1> QED
  BY <1>2, <1>3, <1>4, <1>5

\* While the lock is free nobody is creating a table.
LEMMA FreeLock == IInv /\ lock = NULL => \A t \in Threads : pc[t] \notin Creating
  BY NullAssumption DEF IInv, CreatorHasLock

\* While one thread is creating a table no other one is.
LEMMA OneCreator ==
  ASSUME IInv, NEW t \in Threads, pc[t] \in Creating
  PROVE  \A u \in Threads : pc[u] \in Creating => u = t
  BY DEF IInv, CreatorHasLock

-----------------------------------------------------------------------------
(* The steps that change the structure *)

\* A put takes the lock because the head of the list is not in use: then no
\* table is writing, and nobody else is creating one.
LEMMA StartCreateInv ==
  ASSUME IInv, NEW t \in Threads, PutStartCreate(t)
  PROVE  IInv'
<1> USE DEF IInv
<1>1. /\ lock = NULL /\ NeedsTable /\ lock' = t
      /\ pc' = [pc EXCEPT ![t] = "add"]
      /\ UNCHANGED <<list, sst_num, current_id, writetable, status, cur, queuedTimes, manifest>>
  BY DEF PutStartCreate, Step, store, hist, disk
<1>2. NoneWrites
  BY <1>1 DEF NeedsTable, Newest, WritesHead, HeadIsNew, NoneWrites, Types
<1>3. \A u \in Threads : pc[u] \notin Creating
  BY <1>1, FreeLock
<1>4. \A u \in Threads : pc'[u] \in Creating => u = t /\ pc'[u] = "add"
  BY <1>1, <1>3 DEF Types
<1>5. Types'
  BY <1>1 DEF Types, PutSteps
<1>6. HasTable' /\ CreatorHasLock'
  BY <1>1, <1>4 DEF HasTable, CreatorHasLock, Types
<1>7. CreatorIsAlone' /\ CreatesHead'
  BY <1>1, <1>2, <1>4 DEF CreatorIsAlone, CreatesHead, NoneWrites, Creating
<1>8. WritesHead' /\ FreshNotQueued' /\ QueuedOnce'
  BY <1>1 DEF WritesHead, HeadIsNew, FreshNotQueued, QueuedOnce
<1> QED
  BY <1>5, <1>6, <1>7, <1>8

LEMMA CreateAddInv ==
  ASSUME IInv, NEW t \in Threads, CreateAdd(t)
  PROVE  IInv'
<1> USE DEF IInv
<1>1. /\ pc[t] = "add" /\ pc' = [pc EXCEPT ![t] = "open"]
      /\ current_id <= MaxId
      /\ list' = <<current_id>> \o list
      /\ status' = [status EXCEPT ![current_id] = "UNOPEN"]
      /\ current_id' = current_id + 1
      /\ sst_num' = sst_num + 1
      /\ cur' = [cur EXCEPT ![t] = current_id]
      /\ UNCHANGED <<lock, writetable, queuedTimes, manifest>>
  BY DEF CreateAdd, Step, hist, disk
<1>2. current_id \in Ids /\ current_id' \in 0 .. MaxId + 1
  BY <1>1, BoundsAssumption DEF Types, Ids
<1>3. \A u \in Threads : pc'[u] \in Creating => u = t
  BY <1>1, OneCreator DEF Creating, Types
<1>4. Types'
  <2>1. list' \in Seq(Ids)
    BY <1>1, <1>2 DEF Types
  <2> QED
    BY <1>1, <1>2, <2>1 DEF Types, Statuses, IdOrNone, PutSteps
<1>5. HasTable' /\ CreatorHasLock'
  BY <1>1, <1>2, <1>3 DEF HasTable, CreatorHasLock, Creating, Types
<1>6. NoneWrites /\ NoneWrites'
  BY <1>1, <1>2 DEF CreatorIsAlone, Creating, NoneWrites, Types
<1>7. HeadIsNew' /\ cur'[t] = list'[1]
  <2>1. list' # <<>> /\ list'[1] = current_id
    BY <1>1, <1>2 DEF Types
  <2>2. queuedTimes[current_id] = 0
    BY <1>2 DEF FreshNotQueued, Types
  <2> QED
    BY <1>1, <1>2, <2>1, <2>2 DEF HeadIsNew, Types
<1>8. CreatorIsAlone' /\ CreatesHead' /\ WritesHead'
  BY <1>3, <1>6, <1>7 DEF CreatorIsAlone, CreatesHead, WritesHead, NoneWrites, Creating
<1>9. FreshNotQueued' /\ QueuedOnce'
  BY <1>1, <1>2 DEF FreshNotQueued, QueuedOnce, Types, Ids
<1> QED
  BY <1>4, <1>5, <1>8, <1>9

LEMMA CreateOpenInv ==
  ASSUME IInv, NEW t \in Threads, CreateOpen(t)
  PROVE  IInv'
<1> USE DEF IInv
<1>1. /\ pc[t] = "open" /\ pc' = [pc EXCEPT ![t] = "write"]
      /\ UNCHANGED <<lock, list, sst_num, current_id, writetable, status, cur, queuedTimes,
                     manifest>>
  BY DEF CreateOpen, putVars, hist
<1>2. Types'
  BY <1>1 DEF Types, PutSteps
<1>3. \A u \in Threads : u = t \/ pc'[u] = pc[u]
  BY <1>1 DEF Types
<1>4. HasTable' /\ CreatorHasLock' /\ CreatorIsAlone' /\ CreatesHead'
  BY <1>1, <1>3 DEF HasTable, CreatorHasLock, CreatorIsAlone, CreatesHead, HeadIsNew, NoneWrites, Creating
<1>5. WritesHead' /\ FreshNotQueued' /\ QueuedOnce'
  BY <1>1 DEF WritesHead, HeadIsNew, FreshNotQueued, QueuedOnce
<1> QED
  BY <1>2, <1>4, <1>5

\* The new head becomes the writing table; no other table was.
LEMMA CreateWriteInv ==
  ASSUME IInv, NEW t \in Threads, CreateWrite(t)
  PROVE  IInv'
<1> USE DEF IInv
<1>1. /\ pc[t] = "write" /\ pc' = [pc EXCEPT ![t] = "put"]
      /\ status' = [status EXCEPT ![cur[t]] = "WRITE"]
      /\ writetable' = list[1]
      /\ cur' = [cur EXCEPT ![t] = list[1]]
      /\ lock' = NULL
      /\ UNCHANGED <<list, sst_num, current_id, queuedTimes, manifest>>
  BY DEF CreateWrite, Step, hist, disk
<1>2. HeadIsNew /\ cur[t] = list[1] /\ list[1] \in Ids
  BY <1>1 DEF CreatesHead, HeadIsNew, Types
<1>3. \A u \in Threads : pc'[u] \notin Creating
  BY <1>1, OneCreator DEF Creating, Types
<1>4. Types'
  BY <1>1, <1>2 DEF Types, Statuses, IdOrNone, PutSteps
<1>5. HasTable'
  BY <1>1, <1>2 DEF HasTable, Types
<1>8. CreatorHasLock' /\ CreatorIsAlone' /\ CreatesHead'
  BY <1>3 DEF CreatorHasLock, CreatorIsAlone, CreatesHead, Creating
<1>6. NoneWrites
  BY <1>1 DEF CreatorIsAlone, Creating
<1>7. WritesHead' /\ FreshNotQueued' /\ QueuedOnce'
  BY <1>1, <1>2, <1>6 DEF WritesHead, HeadIsNew, FreshNotQueued, QueuedOnce, NoneWrites, Types
<1> QED
  BY <1>4, <1>5, <1>7, <1>8

\* The writing table was the only one and had not been queued.
LEMMA RotateInv ==
  ASSUME IInv, NEW t \in Threads, RotateFirst(t)
  PROVE  IInv'
<1> USE DEF IInv
<1>1. /\ lock = NULL /\ lock' = t
      /\ pc' = [pc EXCEPT ![t] = "add"]
      /\ status[cur[t]] = "WRITE"
      /\ status' = [status EXCEPT ![cur[t]] = "FLUSH"]
      /\ queuedTimes' = [queuedTimes EXCEPT ![cur[t]] = @ + 1]
      /\ UNCHANGED <<list, sst_num, current_id, writetable, cur, manifest>>
      /\ cur[t] \in Ids
  BY DEF RotateFirst, Step, disk, HasTable
<1>2. HeadIsNew /\ cur[t] = list[1]
  BY <1>1 DEF WritesHead
<1>3. NoneWrites'
  BY <1>1, <1>2 DEF WritesHead, NoneWrites, Types
<1>4. \A u \in Threads : pc'[u] \in Creating => u = t /\ pc'[u] = "add"
  BY <1>1, FreeLock DEF Types
<1>5. Types'
  BY <1>1 DEF Types, Statuses, PutSteps
<1>6. HasTable'
  BY <1>1 DEF HasTable, Types
<1>9. CreatorHasLock' /\ CreatorIsAlone' /\ CreatesHead'
  BY <1>1, <1>3, <1>4 DEF CreatorHasLock, CreatorIsAlone, CreatesHead, Creating
<1>7. WritesHead'
  BY <1>3 DEF WritesHead, NoneWrites
<1>8. FreshNotQueued' /\ QueuedOnce'
  BY <1>1, <1>2 DEF FreshNotQueued, QueuedOnce, HeadIsNew, Types, Ids
<1> QED
  BY <1>5, <1>6, <1>7, <1>8, <1>9

\* Of the start with a Manifest: the rebuilt list holds listed ids only.
LEMMA ReloadedType == ASSUME NEW S, NEW ids \in Seq(S) PROVE Reloaded(ids) \in Seq(S)
  BY DEF Reloaded

LEMMA OpenInv == ASSUME IInv, OpenNew \/ OpenManifest PROVE IInv'
<1> USE DEF IInv
<1>1. /\ status' = [id \in Ids |-> "UNOPEN"]
      /\ pc' = [t \in Threads |-> "idle"]
      /\ cur' = [t \in Threads |-> NULL]
      /\ writetable' = NULL
      /\ queuedTimes' = [id \in Ids |-> 0]
      /\ UNCHANGED manifest
  BY DEF OpenNew, OpenManifest, Fresh, disk
<1>2. list' \in Seq(Ids) /\ sst_num' \in Nat /\ current_id' \in 0 .. MaxId + 1
  <2>1. CASE OpenNew
    BY <2>1, BoundsAssumption DEF OpenNew
  <2>2. CASE OpenManifest
    <3>1. manifest \in [last : 0 .. MaxId + 1, num : Nat, ids : Seq(Ids)]
      BY <2>2 DEF OpenManifest, Types, Torn
    <3> QED
      BY <2>2, <3>1, ReloadedType DEF OpenManifest
  <2> QED
    BY <2>1, <2>2
<1>3. Types'
  BY <1>1, <1>2 DEF Types, Statuses, IdOrNone
<1>4. HasTable' /\ CreatorHasLock' /\ CreatorIsAlone' /\ CreatesHead' /\ WritesHead'
      /\ FreshNotQueued' /\ QueuedOnce'
  BY <1>1 DEF HasTable, CreatorHasLock, CreatorIsAlone, CreatesHead, WritesHead, FreshNotQueued,
     QueuedOnce, Creating
<1> QED
  BY <1>3, <1>4

-----------------------------------------------------------------------------
\* What the quiet steps of a put and a get do to the variables of IInv.
LEMMA PutQuiet ==
  ASSUME IInv, NEW t \in Threads,
         \/ PutStart(t) \/ PutNotWriting(t) \/ PutWriting(t) \/ PutReplace(t)
         \/ PutReserve(t) \/ PutLink(t) \/ PutFull(t) \/ PutRejected(t) \/ RotateOther(t)
  PROVE  QuietStep
<1> USE DEF IInv, QuietStep, Structure
<1>1. CASE PutStart(t)
  <2>1. /\ pc' = [pc EXCEPT ![t] = "put"] /\ cur' = [cur EXCEPT ![t] = list[1]]
        /\ UNCHANGED <<Structure, manifest>>
    BY <1>1 DEF PutStart, Step, store, hist, disk
  <2>2. list[1] \in Ids
    BY <1>1, NullAssumption DEF PutStart, NeedsTable, Newest, Ids
  <2> QED
    BY <2>1, <2>2 DEF Types, HasTable, IdOrNone, PutSteps, Creating
<1>2. CASE PutNotWriting(t)
  <2>1. /\ pc' = [pc EXCEPT ![t] = "start"] /\ cur' = [cur EXCEPT ![t] = NULL]
        /\ UNCHANGED <<Structure, manifest>>
    BY <1>2 DEF PutNotWriting, Step, store, hist, disk
  <2> QED
    BY <2>1 DEF Types, HasTable, IdOrNone, PutSteps, Creating
<1>3. CASE PutWriting(t)
  <2>1. /\ pc[t] = "put" /\ pc' = [pc EXCEPT ![t] = "reserve"] /\ status[cur[t]] = "WRITE"
        /\ UNCHANGED <<Structure, cur, manifest>>
    BY <1>3 DEF PutWriting, Step, store, hist, disk
  <2>2. cur[t] \in Ids /\ writetable \in Ids
    BY <2>1 DEF HasTable, WritesHead
  <2> QED
    BY <2>1, <2>2 DEF Types, HasTable, PutSteps, Creating
<1>4. CASE PutReplace(t) \/ PutLink(t) \/ PutRejected(t)
  <2>1. /\ pc' = [pc EXCEPT ![t] = "idle"] /\ cur' = [cur EXCEPT ![t] = NULL]
        /\ UNCHANGED <<Structure, manifest>>
    BY <1>4 DEF PutReplace, PutLink, PutRejected, Return, Step, store, disk
  <2> QED
    BY <2>1 DEF Types, HasTable, IdOrNone, Creating
<1>5. CASE PutReserve(t) \/ PutFull(t)
  <2>1. /\ pc[t] = "reserve"
        /\ pc' = [pc EXCEPT ![t] = "link"] \/ pc' = [pc EXCEPT ![t] = "full"]
        /\ UNCHANGED <<Structure, cur, manifest>>
    BY <1>5 DEF PutReserve, PutFull, Step, store, putVars, hist, disk
  <2> QED
    BY <2>1 DEF Types, HasTable, PutSteps, Creating
<1>6. CASE RotateOther(t)
  <2>1. /\ pc[t] = "full" /\ pc' = [pc EXCEPT ![t] = "put"]
        /\ cur' = [cur EXCEPT ![t] = writetable]
        /\ UNCHANGED <<Structure, manifest>>
    BY <1>6 DEF RotateOther, Step, store, hist, disk
  <2>2. writetable \in Ids
    BY <2>1 DEF HasTable
  <2> QED
    BY <2>1, <2>2 DEF Types, HasTable, PutSteps, Creating
<1> QED
  BY <1>1, <1>2, <1>3, <1>4, <1>5, <1>6

LEMMA CallQuiet ==
  ASSUME IInv, NEW t \in Threads,
         \/ \E x \in Items : PutCall(t, x)
         \/ \E k \in Keys : GetCall(t, k)
         \/ GetCount(t) \/ GetHead(t) \/ GetUnopen(t) \/ GetNew(t) \/ GetLoad(t)
         \/ GetNext(t) \/ GetFound(t) \/ GetNull(t)
  PROVE  QuietStep
<1> USE DEF IInv, QuietStep, Structure
<1>1. \E to \in GetSteps \cup {"idle", "start"} : pc' = [pc EXCEPT ![t] = to]
  BY DEF PutCall, GetCall, GetCount, GetHead, GetUnopen, GetNew, GetLoad, GetNext, GetFound,
     GetNull, GetEnd, Step, GetSteps, Opening
<1>2. UNCHANGED <<Structure, cur, manifest>>
  BY DEF PutCall, GetCall, GetCount, GetHead, GetUnopen, GetNew, GetLoad, GetNext, GetFound,
     GetNull, GetEnd, Step, store, putVars, hist, disk
<1> QED
  BY <1>1, <1>2 DEF Types, HasTable, PutSteps, GetSteps, Opening, Creating

LEMMA OtherQuiet ==
  ASSUME IInv,
         \/ \E id \in Ids : JobHead(id)
         \/ FlushManifest \/ FlushManifestWrite \/ FlushHead \/ FlushSkip \/ FlushDone
         \/ Close \/ Crash
         \/ UNCHANGED vars
  PROVE  QuietStep
<1> USE DEF IInv, QuietStep, Structure
<1>1. UNCHANGED <<Structure, cur, pc>>
  BY DEF JobHead, FlushManifest, FlushManifestWrite, FlushHead, FlushSkip, FlushDone, FlushStep,
     Close, Crash, vars, store, putVars, hist
<1>2. manifest' \in {NULL, Torn} \cup [last : 0 .. MaxId + 1, num : Nat, ids : Seq(Ids)]
  BY DEF JobHead, FlushManifest, FlushManifestWrite, FlushHead, FlushSkip, FlushDone, FlushStep,
     Close, Crash, vars, disk, Types
<1> QED
  BY <1>1, <1>2 DEF Types, HasTable

LEMMA ReadSteps ==
  ASSUME IInv,
         \/ \E t \in Threads : GetSetRead(t)
         \/ \E id \in Ids : JobData(id)
         \/ FlushData
  PROVE  ReadStep
<1> USE DEF IInv, ReadStep
<1>1. CASE \E t \in Threads : GetSetRead(t)
  <2> PICK t \in Threads : GetSetRead(t)
    BY <1>1
  <2>1. /\ pc' = [pc EXCEPT ![t] = "look"]
        /\ status' = [status EXCEPT ![pos[t]] = "READ"]
        /\ UNCHANGED <<lock, list, sst_num, current_id, writetable, queuedTimes, cur, manifest>>
    BY DEF GetSetRead, Step, putVars, hist, disk
  <2> QED
    BY <2>1 DEF Types, HasTable, Statuses, GetSteps, Creating
<1>2. CASE \E id \in Ids : JobData(id)
  <2> PICK id \in Ids : JobData(id)
    BY <1>2
  <2>1. /\ status' = [status EXCEPT ![id] = "READ"]
        /\ UNCHANGED <<lock, list, sst_num, current_id, writetable, queuedTimes, cur, manifest,
                       pc>>
    BY DEF JobData, putVars, hist
  <2> QED
    BY <2>1 DEF Types, HasTable, Statuses
<1>3. CASE FlushData
  <2>1. /\ status' = [status EXCEPT ![list[mpos]] = "READ"]
        /\ UNCHANGED <<lock, list, sst_num, current_id, writetable, queuedTimes, cur, manifest,
                       pc>>
    BY <1>3 DEF FlushData, FlushStep, putVars, hist
  <2> QED
    BY <2>1 DEF Types, HasTable, Statuses
<1> QED
  BY <1>1, <1>2, <1>3

LEMMA StepInv == IInv /\ [Next]_vars => IInv'
<1> SUFFICES ASSUME IInv, [Next]_vars PROVE IInv'
  OBVIOUS
<1>1. ASSUME NEW t \in Threads, PutStep(t) PROVE IInv'
  BY <1>1, StartCreateInv, CreateAddInv, CreateOpenInv, CreateWriteInv, RotateInv, PutQuiet,
     Quiet DEF PutStep
<1>2. ASSUME NEW t \in Threads, GetStep(t) PROVE IInv'
  BY <1>2, CallQuiet, ReadSteps, Quiet, Reads DEF GetStep
<1>3. ASSUME NEW t \in Threads,
             (\E x \in Items : PutCall(t, x)) \/ (\E k \in Keys : GetCall(t, k))
      PROVE  IInv'
  BY <1>3, CallQuiet, Quiet
<1>4. ASSUME \E id \in Ids : JobHead(id) \/ JobData(id) PROVE IInv'
  BY <1>4, OtherQuiet, ReadSteps, Quiet, Reads
<1>5. ASSUME FlushAndClose PROVE IInv'
  BY <1>5, OtherQuiet, ReadSteps, Quiet, Reads DEF FlushAndClose
<1>6. CASE Crash \/ UNCHANGED vars
  BY <1>6, OtherQuiet, Quiet
<1>7. CASE OpenNew \/ OpenManifest
  BY <1>7, OpenInv
<1> QED
  BY <1>1, <1>2, <1>3, <1>4, <1>5, <1>6, <1>7 DEF Next

LEMMA Invariance == Spec => []IInv
  BY InitInv, StepInv, PTL DEF Spec

\* However many puts find the table full, restart, or race with gets that open
\* tables, at most one table is in status WRITE (sstmanager_put and
\* sstmanager_createsst under manager->lock).
THEOREM OneWriter == Spec => []OneWriteTable
  BY Invariance, InvGives, PTL

\* A table is handed to the pool at most once in a run: the test of its status
\* under the lock (line 300) lets one put through, and no id is used again.
THEOREM RotatedOnce == Spec => []QueuedOnce
  BY Invariance, InvGives, PTL

-----------------------------------------------------------------------------
(* The end of a run *)

\* A rotated table has its job until it is flushed; the one table in WRITE is
\* the first that sstmanager_flush looks at.
Ending ==
  /\ \A id \in Ids : status[id] = "FLUSH" => job[id] # "none"
  /\ phase \in {"up", "manifest"} => mpos = 1 /\ mstep = "test"
  /\ phase = "flush" => \A id \in Ids : status[id] = "WRITE" => mpos = 1
  /\ phase = "close" => NoneWrites

EndInv == Ending /\ ClosedWhenDone

\* The steps of the callers.
CallerStep(t) ==
  \/ \E x \in Items : PutCall(t, x)
  \/ \E k \in Keys : GetCall(t, k)
  \/ PutStep(t) \/ GetStep(t)

LEMMA CallersRun ==
  ASSUME NEW t \in Threads, CallerStep(t)
  PROVE  phase = "up" /\ UNCHANGED <<main, manifest>>
BY DEF CallerStep, PutCall, GetCall, PutStep, PutStart, PutStartCreate, CreateAdd, CreateOpen,
   CreateWrite, PutNotWriting, PutWriting, PutReplace, PutReserve, PutLink, PutFull, PutRejected,
   RotateFirst, RotateOther, GetStep, GetCount, GetHead, GetUnopen, GetNew, GetLoad, GetSetRead,
   GetNext, GetFound, GetNull, GetEnd, Step, disk

\* What a step of a caller does to statuses and jobs.
LEMMA CallersFlush ==
  ASSUME Types, HasTable, NEW t \in Threads, CallerStep(t), NEW id \in Ids,
         status'[id] = "FLUSH", status[id] = "FLUSH" => job[id] # "none",
         job \in [Ids -> {"none", "queued", "data"}]
  PROVE  job'[id] # "none"
<1>1. CASE CreateAdd(t)
  BY <1>1 DEF CreateAdd, Types
<1>2. CASE CreateWrite(t)
  BY <1>2 DEF CreateWrite, Types
<1>3. CASE RotateFirst(t)
  BY <1>3 DEF RotateFirst, Types, HasTable
<1>4. CASE GetSetRead(t)
  BY <1>4 DEF GetSetRead, Types
<1>5. CASE ~(CreateAdd(t) \/ CreateWrite(t) \/ RotateFirst(t) \/ GetSetRead(t))
  <2>1. UNCHANGED <<status, job>>
    BY <1>5 DEF CallerStep, PutCall, GetCall, PutStep, PutStart, PutStartCreate, CreateOpen,
       PutNotWriting, PutWriting, PutReplace, PutReserve, PutLink, PutFull, PutRejected,
       RotateOther, GetStep, GetCount, GetHead, GetUnopen, GetNew, GetLoad, GetNext, GetFound,
       GetNull, GetEnd, store
  <2> QED BY <2>1
<1> QED BY <1>1, <1>2, <1>3, <1>4, <1>5

JobTypes == job \in [Ids -> {"none", "queued", "data"}]

LEMMA JobTyped == JobTypes /\ [Next]_vars => JobTypes'
<1> SUFFICES ASSUME JobTypes, [Next]_vars PROVE JobTypes'
  OBVIOUS
<1>1. ASSUME NEW t \in Threads, CallerStep(t) PROVE JobTypes'
  BY <1>1 DEF CallerStep, PutCall, GetCall, PutStep, PutStart, PutStartCreate, CreateAdd, CreateOpen,
     CreateWrite, PutNotWriting, PutWriting, PutReplace, PutReserve, PutLink, PutFull, PutRejected,
     RotateFirst, RotateOther, GetStep, GetCount, GetHead, GetUnopen, GetNew, GetLoad, GetSetRead,
     GetNext, GetFound, GetNull, GetEnd, JobTypes
<1>2. ASSUME NEW id \in Ids, JobHead(id) \/ JobData(id) PROVE JobTypes'
  BY <1>2 DEF JobHead, JobData, JobTypes
<1>3. CASE FlushAndClose \/ Crash \/ OpenNew \/ OpenManifest \/ UNCHANGED vars
  BY <1>3 DEF FlushAndClose, FlushManifest, FlushManifestWrite, FlushHead, FlushData, FlushSkip,
     FlushDone, FlushStep, Close, Crash, OpenNew, OpenManifest, Fresh, vars, JobTypes
<1> QED BY <1>1, <1>2, <1>3 DEF Next, CallerStep

LEMMA EndStep ==
  ASSUME IInv, JobTypes, EndInv, [Next]_vars PROVE EndInv'
<1> USE DEF IInv, EndInv, Ending
<1>1. ASSUME NEW t \in Threads, CallerStep(t) PROVE EndInv'
  <2>1. phase = "up" /\ UNCHANGED main
    BY <1>1, CallersRun
  <2>2. \A id \in Ids : status'[id] = "FLUSH" => job'[id] # "none"
    BY <1>1, CallersFlush DEF JobTypes
  <2> QED BY <2>1, <2>2 DEF main, ClosedWhenDone
<1>2. ASSUME NEW id \in Ids, JobHead(id) \/ JobData(id) PROVE EndInv'
  <2>1. phase # "down" /\ UNCHANGED main
    BY <1>2 DEF JobHead, JobData
  <2>2. \/ status' = status /\ job' = [job EXCEPT ![id] = "data"]
        \/ status' = [status EXCEPT ![id] = "READ"] /\ job' = [job EXCEPT ![id] = "none"]
    BY <1>2 DEF JobHead, JobData, store
  <2>3. \A x \in Ids : status'[x] \in {status[x], "READ"}
    BY <2>2 DEF Types
  <2>4. \A x \in Ids : status'[x] = "FLUSH" => job'[x] # "none"
    BY <2>2 DEF Types, JobTypes
  <2> QED BY <2>1, <2>3, <2>4 DEF main, ClosedWhenDone, NoneWrites
<1>3. CASE FlushManifest \/ FlushManifestWrite
  BY <1>3, NullAssumption DEF FlushManifest, FlushManifestWrite, store, ClosedWhenDone
<1>4. CASE FlushHead
  BY <1>4 DEF FlushHead, FlushStep, store, ClosedWhenDone
<1>5. CASE FlushData
  <2>1. \A id \in Ids : status'[id] = "FLUSH" => status[id] = "FLUSH"
    BY <1>5 DEF FlushData, Types
  <2>2. \A id \in Ids : status'[id] # "WRITE"
    BY <1>5 DEF FlushData, FlushStep, WritesHead, Types
  <2> QED BY <1>5, <2>1, <2>2 DEF FlushData, FlushStep, ClosedWhenDone, NoneWrites
<1>6. CASE FlushSkip
  <2>1. \A id \in Ids : status[id] # "WRITE"
    BY <1>6 DEF FlushSkip, FlushStep, WritesHead
  <2> QED BY <1>6, <2>1 DEF FlushSkip, FlushStep, ClosedWhenDone
<1>7. CASE FlushDone
  <2>1. \A id \in Ids : status[id] # "WRITE"
    BY <1>7 DEF FlushDone, WritesHead, HeadIsNew, Types
  <2> QED BY <1>7, <2>1 DEF FlushDone, store, ClosedWhenDone, NoneWrites
<1>8. CASE Close
  <2>1. \A id \in Ids : job[id] = "none" /\ status[id] \in {"UNOPEN", "READ"}
    BY <1>8 DEF Close, NoneWrites, Types, Statuses
  <2> QED BY <1>8, <2>1 DEF Close, store, ClosedWhenDone
<1>9. CASE Crash
  BY <1>9 DEF Crash, store, ClosedWhenDone
<1>10. CASE OpenNew \/ OpenManifest
  BY <1>10 DEF OpenNew, OpenManifest, Fresh, ClosedWhenDone
<1>11. CASE UNCHANGED vars
  BY <1>11 DEF vars, main, store, ClosedWhenDone, NoneWrites
<1> QED BY <1>1, <1>2, <1>3, <1>4, <1>5, <1>6, <1>7, <1>8, <1>9, <1>10, <1>11
        DEF Next, FlushAndClose, CallerStep

\* threadPool_destroy waits for the flush jobs, and sstmanager_flush wrote the table in
\* WRITE before: after a clean close no table is left unwritten and no job is left,
\* whatever puts and gets ran before and however the earlier runs ended.
THEOREM ClosesWhenDone == Spec => []ClosedWhenDone
<1>1. Init => JobTypes /\ EndInv
  BY DEF Init, JobTypes, EndInv, Ending, ClosedWhenDone
<1>2. Spec => [](JobTypes /\ EndInv)
  BY <1>1, Invariance, JobTyped, EndStep, PTL DEF Spec
<1> QED BY <1>2, PTL DEF EndInv

-----------------------------------------------------------------------------
(* The order of the ids *)

Decreasing(ids) == \A m, n \in 1 .. Len(ids) : m < n => ids[n] < ids[m]

\* The newer table has the greater id, and the next one has a greater id still.
ListInv ==
  /\ Decreasing(list)
  /\ \A n \in 1 .. Len(list) : list[n] < current_id

\* While the program runs the Manifest is that of an earlier run: its ids are
\* smaller than those of the tables created since.
ManifestInv ==
  manifest # NULL =>
    /\ Decreasing(manifest.ids)
    /\ \A n \in 1 .. Len(manifest.ids) : manifest.ids[n] < manifest.last
    /\ phase = "up" =>
         /\ manifest.last <= current_id
         /\ \A t \in Threads : pc[t] \in {"open", "write"} => manifest.last <= cur[t]

IdsInv == ListInv /\ ManifestInv

\* Of the start with a Manifest: what it keeps of the list is in order too.
LEMMA ReloadedOrder ==
  ASSUME NEW S, NEW ids \in Seq(S), Decreasing(ids)
  PROVE  /\ Decreasing(Reloaded(ids))
         /\ Len(Reloaded(ids)) <= Len(ids)
         /\ \A n \in 1 .. Len(Reloaded(ids)) :
              \E m \in 1 .. Len(ids) : Reloaded(ids)[n] = ids[m]
<1>1. CASE Len(ids) <= 1
  BY <1>1 DEF Reloaded
<1>2. CASE Len(ids) > 1
  <2>1. Reloaded(ids) = <<ids[1], ids[Len(ids)]>>
    BY <1>2 DEF Reloaded
  <2>2. ids[Len(ids)] < ids[1]
    BY <1>2 DEF Decreasing
  <2>3. 1 \in 1 .. Len(ids) /\ Len(ids) \in 1 .. Len(ids)
    BY <1>2
  <2> QED
    BY <2>1, <2>2, <2>3, <1>2 DEF Decreasing
<1> QED
  BY <1>1, <1>2

\* The steps that change neither the list nor the Manifest.
LEMMA SameIds ==
  ASSUME IdsInv, UNCHANGED <<list, current_id, manifest>>,
         phase' = "up" => phase = "up",
         \A t \in Threads : pc'[t] \in {"open", "write"} =>
           pc[t] \in {"open", "write"} /\ cur'[t] = cur[t]
  PROVE  IdsInv'
BY DEF IdsInv, ListInv, ManifestInv, Decreasing

LEMMA CreateAddIds ==
  ASSUME IInv, IdsInv, NEW t \in Threads, CreateAdd(t) PROVE IdsInv'
<1>1. /\ phase = "up" /\ pc[t] = "add"
      /\ list' = <<current_id>> \o list /\ current_id' = current_id + 1
      /\ cur' = [cur EXCEPT ![t] = current_id] /\ pc' = [pc EXCEPT ![t] = "open"]
      /\ manifest' = manifest /\ phase' = phase
  BY DEF CreateAdd, Step, disk, main
<1>2. /\ list \in Seq(Ids) /\ current_id \in Nat /\ \A id \in Ids : id \in Nat
      /\ cur \in [Threads -> IdOrNone] /\ DOMAIN pc = Threads
  BY BoundsAssumption DEF IInv, Types, Ids
<1>3. /\ Len(list') = Len(list) + 1 /\ list'[1] = current_id
      /\ \A n \in 2 .. Len(list') : list'[n] = list[n - 1] /\ n - 1 \in 1 .. Len(list)
  BY <1>1, <1>2
<1>4. ListInv'
  <2>1. \A n \in 2 .. Len(list') : list'[n] < current_id /\ list'[n] \in Nat
    BY <1>2, <1>3 DEF IdsInv, ListInv
  <2>2. \A n \in 1 .. Len(list') : n = 1 \/ n \in 2 .. Len(list')
    BY <1>2, <1>3
  <2>3. \A n \in 1 .. Len(list') : list'[n] < current_id'
    BY <1>1, <1>2, <1>3, <2>1, <2>2
  <2>4. ASSUME NEW m \in 1 .. Len(list'), NEW n \in 1 .. Len(list'), m < n
        PROVE  list'[n] < list'[m]
    <3>1. n \in 2 .. Len(list')
      BY <2>4, <2>2
    <3>2. CASE m = 1
      BY <3>1, <3>2, <1>3, <2>1
    <3>3. CASE m \in 2 .. Len(list')
      BY <2>4, <3>1, <3>3, <1>3 DEF IdsInv, ListInv, Decreasing
    <3> QED
      BY <3>2, <3>3, <2>2
  <2> QED
    BY <2>3, <2>4 DEF ListInv, Decreasing
<1>5. ManifestInv'
  <2>1. SUFFICES ASSUME manifest # NULL
                 PROVE  /\ manifest.last <= current_id'
                        /\ \A u \in Threads : pc'[u] \in {"open", "write"} => manifest.last <= cur'[u]
    BY <1>1 DEF IdsInv, ManifestInv, Decreasing
  <2>2. manifest.last <= current_id /\ manifest.last \in Int
    BY <1>1, <2>1 DEF IdsInv, ManifestInv, IInv, Types, Torn
  <2>3. \A u \in Threads : u # t => pc'[u] = pc[u] /\ cur'[u] = cur[u]
    BY <1>1, <1>2
  <2> QED
    BY <1>1, <1>2, <2>1, <2>2, <2>3 DEF IdsInv, ManifestInv
<1> QED
  BY <1>4, <1>5 DEF IdsInv

LEMMA IdsStep ==
  ASSUME IInv, IdsInv, [Next]_vars PROVE IdsInv'
<1>1. ASSUME NEW t \in Threads, CallerStep(t), ~CreateAdd(t) PROVE IdsInv'
  <2>1. phase' = phase /\ manifest' = manifest
    BY <1>1, CallersRun DEF main
  <2>2. UNCHANGED <<list, current_id>>
    BY <1>1 DEF CallerStep, PutCall, GetCall, PutStep, PutStart, PutStartCreate, CreateOpen,
       CreateWrite, PutNotWriting, PutWriting, PutReplace, PutReserve, PutLink, PutFull,
       PutRejected, RotateFirst, RotateOther, GetStep, GetCount, GetHead, GetUnopen, GetNew,
       GetLoad, GetSetRead, GetNext, GetFound, GetNull, GetEnd, store
  <2>3. \A u \in Threads : pc'[u] \in {"open", "write"} =>
          pc[u] \in {"open", "write"} /\ cur'[u] = cur[u]
    <3>1. DOMAIN pc = Threads /\ DOMAIN cur = Threads
      BY DEF IInv, Types
    <3> QED
      BY <1>1, <3>1 DEF CallerStep, PutCall, GetCall, PutStep, PutStart, PutStartCreate,
         CreateOpen, CreateWrite, PutNotWriting, PutWriting, PutReplace, PutReserve, PutLink,
         PutFull, PutRejected, Return, RotateFirst, RotateOther, GetStep, GetCount, GetHead,
         GetUnopen, GetNew, GetLoad, GetSetRead, GetNext, GetFound, GetNull, GetEnd, Step, putVars
  <2> QED
    BY <2>1, <2>2, <2>3, SameIds
<1>2. ASSUME NEW t \in Threads, CreateAdd(t) PROVE IdsInv'
  BY <1>2, CreateAddIds
<1>3. CASE \/ \E id \in Ids : JobHead(id) \/ JobData(id)
           \/ FlushHead \/ FlushData \/ FlushSkip \/ FlushDone \/ Close \/ Crash
           \/ UNCHANGED vars
  <2>1. UNCHANGED <<list, current_id, manifest, pc, cur>> /\ (phase' = "up" => phase = "up")
    BY <1>3 DEF JobHead, JobData, FlushHead, FlushData, FlushSkip, FlushDone, FlushStep, Close,
       Crash, vars, main, store, putVars, disk
  <2> QED
    BY <2>1, SameIds
<1>4. CASE FlushManifest
  <2>1. /\ UNCHANGED <<list, current_id>> /\ manifest' = Torn /\ phase' = "manifest"
    BY <1>4 DEF FlushManifest, store
  <2> QED
    BY <2>1 DEF IdsInv, ListInv, ManifestInv, Torn, Decreasing
<1>5. CASE FlushManifestWrite
  <2>1. /\ UNCHANGED <<list, current_id>> /\ phase' = "flush"
        /\ manifest'.ids = list /\ manifest'.last = current_id
    BY <1>5 DEF FlushManifestWrite, store
  <2> QED
    BY <2>1 DEF IdsInv, ListInv, ManifestInv, Decreasing
<1>6. CASE OpenNew
  BY <1>6 DEF OpenNew, disk, IdsInv, ListInv, ManifestInv, Decreasing
<1>7. CASE OpenManifest
  <2>1. /\ list' = Reloaded(manifest.ids) /\ current_id' = manifest.last
        /\ manifest' = manifest /\ manifest # NULL
        /\ \A t \in Threads : pc'[t] = "idle"
    BY <1>7 DEF OpenManifest, Fresh, disk
  <2>2. manifest.ids \in Seq(Ids) /\ manifest.last \in Int
    BY <2>1, <1>7 DEF OpenManifest, IInv, Types, Torn
  <2>3. /\ Decreasing(manifest.ids)
        /\ \A n \in 1 .. Len(manifest.ids) : manifest.ids[n] < manifest.last
    BY <2>1 DEF IdsInv, ManifestInv
  <2>4. Decreasing(list') /\ \A n \in 1 .. Len(list') : list'[n] < current_id'
    BY <2>1, <2>2, <2>3, ReloadedOrder
  <2> QED
    BY <2>1, <2>2, <2>3, <2>4 DEF IdsInv, ListInv, ManifestInv, Decreasing
<1> QED
  BY <1>1, <1>2, <1>3, <1>4, <1>5, <1>6, <1>7 DEF Next, FlushAndClose, CallerStep

LEMMA InitIds == Init => IdsInv
  BY DEF Init, IdsInv, ListInv, ManifestInv, Decreasing

LEMMA IdsInvariance == Spec => []IdsInv
  BY Invariance, InitIds, IdsStep, PTL DEF Spec

\* Over any number of starts and crashes, a put never empties the file of a table that
\* the Manifest lists: the ids go on from the one that sstmanager_flush wrote.
THEOREM NoListedFileEmptied == Spec => ListedFilesKept
<1>1. ASSUME IInv, IdsInv, [Next]_vars
      PROVE  [\A t \in Threads :
                CreateOpen(t) /\ manifest # NULL =>
                  \A n \in DOMAIN manifest.ids : manifest.ids[n] # cur[t]]_vars
  <2>1. SUFFICES ASSUME NEW t \in Threads, CreateOpen(t), manifest # NULL,
                        NEW n \in DOMAIN manifest.ids
                 PROVE  manifest.ids[n] # cur[t]
    OBVIOUS
  <2>2. manifest.ids \in Seq(Ids) /\ manifest.last \in Int
    BY <1>1, <2>1 DEF IInv, Types, Torn
  <2>3. manifest.ids[n] < manifest.last /\ manifest.last <= cur[t]
    BY <1>1, <2>1, <2>2 DEF CreateOpen, IdsInv, ManifestInv
  <2>4. manifest.ids[n] \in Int /\ cur[t] \in Int
    <3>1. cur[t] \in Ids
      <4>1. pc[t] = "open" /\ CreatesHead /\ Types
        BY <1>1, <2>1 DEF CreateOpen, IInv
      <4> QED
        BY <4>1 DEF CreatesHead, HeadIsNew, Types
    <3>2. manifest.ids[n] \in Ids
      BY <2>1, <2>2
    <3> QED
      BY <3>1, <3>2 DEF Ids
  <2> QED
    BY <2>2, <2>3, <2>4
<1> QED
  BY <1>1, Invariance, IdsInvariance, PTL DEF Spec, ListedFilesKept

-----------------------------------------------------------------------------
(****************************************************************************)
(* Proofs about the items of SSTManager: every variable keeps its type.     *)
(* For the counters this needs that the counter of a hash table is the      *)
(* number of its items and of the puts that have counted theirs but not     *)
(* linked it yet, and that a hash table a get makes has one maker.          *)
(****************************************************************************)

-----------------------------------------------------------------------------
(* Types *)

\* The types that Types and JobTypes leave out.
PlainTypes ==
  /\ phase \in {"up", "manifest", "flush", "close", "down"}
  /\ run \in 1 .. MaxRuns \cup {1}
  /\ lock \in Threads \cup {NULL}
  /\ again \in [Threads -> BOOLEAN]
  /\ want \in [Threads -> Keys \cup {NULL}]
  /\ mpos \in Nat
  /\ mstep \in {"test", "data"}

Flags == {overlap, twice, lateWrite, clean} \subseteq BOOLEAN

TableTypes ==
  /\ htable \in [Ids -> Makers \cup {NULL}]
  /\ ready \subseteq Tables
  /\ ht \in [Threads -> Tables \cup {NULL}]

GetTypes ==
  /\ i \in [Threads -> Int]
  /\ pos \in [Threads -> IdOrNone]

LEMMA PlainTyped ==
  ASSUME Types, PlainTypes, [Next]_vars PROVE PlainTypes'
<1> USE DEF PlainTypes
<1>1. ASSUME NEW t \in Threads, PutStep(t) PROVE PlainTypes'
  BY <1>1 DEF PutStep, PutStart, PutStartCreate, CreateAdd, CreateOpen, CreateWrite, PutNotWriting,
     PutWriting, PutReplace, PutReserve, PutLink, PutFull, PutRejected, Return, RotateFirst,
     RotateOther, Step, main, getVars, putVars, hist
<1>2. ASSUME NEW t \in Threads, NEW x \in Items, PutCall(t, x) PROVE PlainTypes'
  BY <1>2 DEF PutCall, Step, main, getVars
<1>3. ASSUME NEW t \in Threads, NEW k \in Keys, GetCall(t, k) PROVE PlainTypes'
  BY <1>3 DEF GetCall, Step, main, putVars
<1>4. ASSUME NEW t \in Threads, GetStep(t) PROVE PlainTypes'
  BY <1>4 DEF GetStep, GetCount, GetHead, GetUnopen, GetNew, GetLoad, GetSetRead, GetNext,
     GetFound, GetNull, GetEnd, Step, main, getVars, putVars, hist
<1>5. ASSUME NEW id \in Ids, JobHead(id) \/ JobData(id) PROVE PlainTypes'
  BY <1>5 DEF JobHead, JobData, main, getVars, putVars, hist
<1>6. CASE FlushAndClose
  BY <1>6 DEF FlushAndClose, FlushManifest, FlushManifestWrite, FlushHead, FlushData, FlushSkip,
     FlushDone, FlushStep, Close, getVars, putVars, hist
<1>7. CASE Crash \/ UNCHANGED vars
  BY <1>7 DEF Crash, vars, main, getVars, putVars, hist
<1>8. CASE OpenNew \/ OpenManifest
  <2>1. run < MaxRuns /\ run' = run + 1 /\ phase' = "up"
    BY <1>8 DEF OpenNew, OpenManifest
  <2>2. Fresh
    BY <1>8 DEF OpenNew, OpenManifest
  <2> QED
    BY <2>1, <2>2, BoundsAssumption DEF Fresh
<1> QED
  BY <1>1, <1>2, <1>3, <1>4, <1>5, <1>6, <1>7, <1>8 DEF Next

LEMMA FlagsTyped ==
  ASSUME Flags, [Next]_vars PROVE Flags'
<1> USE DEF Flags
<1>1. ASSUME NEW t \in Threads, CallerStep(t) PROVE Flags'
  <2>1. overlap' \in BOOLEAN /\ twice' \in BOOLEAN /\ lateWrite' \in BOOLEAN
    BY <1>1, Zenon DEF CallerStep, PutCall, GetCall, PutStep, PutStart, PutStartCreate, CreateAdd,
       CreateOpen, CreateWrite, PutNotWriting, PutWriting, PutReplace, PutReserve, PutLink, PutFull,
       PutRejected, Return, RotateFirst, RotateOther, GetStep, GetCount, GetHead, GetUnopen, GetNew,
       GetLoad, GetSetRead, GetNext, GetFound, GetNull, GetEnd, hist
  <2> QED
    BY <1>1, <2>1, CallersRun DEF main
<1>2. CASE \E id \in Ids : JobHead(id) \/ JobData(id)
  BY <1>2 DEF JobHead, JobData, main, hist
<1>3. CASE FlushAndClose
  BY <1>3 DEF FlushAndClose, FlushManifest, FlushManifestWrite, FlushHead, FlushData, FlushSkip,
     FlushDone, FlushStep, Close, hist
<1>4. CASE Crash \/ OpenNew \/ OpenManifest \/ UNCHANGED vars
  BY <1>4 DEF Crash, OpenNew, OpenManifest, Fresh, vars, main, hist
<1> QED
  BY <1>1, <1>2, <1>3, <1>4 DEF Next, CallerStep

\* A get stands at a table of the list, and steps that touch a table have one.
Places ==
  \A t \in Threads :
    /\ pos[t] # NULL => \E n \in 1 .. Len(list) : list[n] = pos[t]
    /\ pc[t] \in Opening \cup {"look"} => pos[t] # NULL

PlaceInv == GetTypes /\ Places

LEMMA NextPlace ==
  ASSUME Types, NEW n \in 1 .. Len(list), NEW id, list[n] = id
  PROVE  NextOf(id) # NULL => \E m \in 1 .. Len(list) : list[m] = NextOf(id)
<1> DEFINE k == CHOOSE m \in 1 .. Len(list) : list[m] = id
<1>1. k \in 1 .. Len(list) /\ list[k] = id
  OBVIOUS
<1>2. NextOf(id) = IF k = Len(list) THEN NULL ELSE list[k + 1]
  BY DEF NextOf
<1> HIDE DEF k
<1>3. Len(list) \in Nat
  BY DEF Types
<1> QED
  BY <1>1, <1>2, <1>3

LEMMA PlacesKept ==
  ASSUME IInv, PlaceInv, [Next]_vars PROVE PlaceInv'
<1> USE DEF PlaceInv, GetTypes, Places
<1>0. Types /\ list \in Seq(Ids) /\ DOMAIN pc = Threads
  BY DEF IInv, Types
<1>1. ASSUME NEW t \in Threads, PutStep(t), ~CreateAdd(t) PROVE PlaceInv'
  <2>1. UNCHANGED <<list, i, pos>>
    BY <1>1 DEF PutStep, PutStart, PutStartCreate, CreateOpen, CreateWrite, PutNotWriting,
       PutWriting, PutReplace, PutReserve, PutLink, PutFull, PutRejected, RotateFirst,
       RotateOther, store, getVars
  <2>2. \E to \in PutSteps \cup {"idle"} : pc' = [pc EXCEPT ![t] = to]
    BY <1>1 DEF PutStep, PutStart, PutStartCreate, CreateOpen, CreateWrite, PutNotWriting,
       PutWriting, PutReplace, PutReserve, PutLink, PutFull, PutRejected, RotateFirst,
       RotateOther, Step, PutSteps
  <2> QED
    BY <1>0, <2>1, <2>2 DEF PutSteps, Opening
<1>2. ASSUME NEW t \in Threads, CreateAdd(t) PROVE PlaceInv'
  <2>1. /\ UNCHANGED <<i, pos>> /\ pc' = [pc EXCEPT ![t] = "open"]
        /\ list' = <<current_id>> \o list
    BY <1>2 DEF CreateAdd, Step, getVars
  <2>2. current_id \in Ids
    BY <1>2, BoundsAssumption DEF CreateAdd, IInv, Types, Ids
  <2>3. \A n \in 1 .. Len(list) : n + 1 \in 1 .. Len(list') /\ list'[n + 1] = list[n]
    BY <1>0, <2>1, <2>2
  <2> QED
    BY <1>0, <2>1, <2>3 DEF Opening
<1>3. ASSUME NEW t \in Threads,
             (\E x \in Items : PutCall(t, x)) \/ (\E k \in Keys : GetCall(t, k))
             \/ GetCount(t) \/ GetUnopen(t) \/ GetNew(t) \/ GetLoad(t) \/ GetSetRead(t)
      PROVE  PlaceInv'
  <2>1. UNCHANGED <<list, pos>> /\ i' \in {i, [i EXCEPT ![t] = sst_num - 1]}
    BY <1>3 DEF PutCall, GetCall, GetCount, GetUnopen, GetNew, GetLoad, GetSetRead, store, getVars
  <2>2. \/ \E to \in {"start", "get", "head"} : pc' = [pc EXCEPT ![t] = to]
        \/ /\ pos[t] # NULL
           /\ \E to \in {"open_get", "load", "read", "look"} : pc' = [pc EXCEPT ![t] = to]
    BY <1>3 DEF PutCall, GetCall, GetCount, GetUnopen, GetNew, GetLoad, GetSetRead, Step, Visiting,
       Opening
  <2>3. sst_num \in Nat
    BY <1>0 DEF Types
  <2> QED
    BY <1>0, <2>1, <2>2, <2>3 DEF Opening
<1>4. ASSUME NEW t \in Threads, GetHead(t) PROVE PlaceInv'
  <2>1. /\ UNCHANGED <<list, i>> /\ pos' = [pos EXCEPT ![t] = Newest]
        /\ pc' = [pc EXCEPT ![t] = "visit"]
    BY <1>4 DEF GetHead, Step, store
  <2>2. Newest # NULL => 1 \in 1 .. Len(list) /\ list[1] = Newest
    BY <1>0 DEF Newest
  <2>3. Newest \in IdOrNone
    BY <1>0, <2>2 DEF IdOrNone
  <2> QED
    BY <1>0, <2>1, <2>2, <2>3 DEF Opening
<1>5. ASSUME NEW t \in Threads, GetNext(t) PROVE PlaceInv'
  <2>1. /\ UNCHANGED list /\ i' = [i EXCEPT ![t] = @ - 1]
        /\ pos' = [pos EXCEPT ![t] = NextOf(pos[t])]
        /\ pc' = [pc EXCEPT ![t] = "visit"]
    BY <1>5 DEF GetNext, store
  <2>2. pos[t] # NULL
    BY <1>5 DEF GetNext, Looking, Visiting
  <2>3. NextOf(pos[t]) # NULL => \E m \in 1 .. Len(list) : list[m] = NextOf(pos[t])
    BY <1>0, <2>2, NextPlace
  <2>4. NextOf(pos[t]) \in IdOrNone
    BY <1>0, <2>3 DEF IdOrNone
  <2> QED
    BY <1>0, <2>1, <2>3, <2>4 DEF Opening
<1>6. ASSUME NEW t \in Threads, GetFound(t) \/ GetNull(t) PROVE PlaceInv'
  <2>1. /\ UNCHANGED list /\ i' = [i EXCEPT ![t] = -1]
        /\ pos' = [pos EXCEPT ![t] = NULL]
        /\ pc' = [pc EXCEPT ![t] = "idle"]
    BY <1>6 DEF GetFound, GetNull, GetEnd, store
  <2> QED
    BY <1>0, <2>1 DEF Opening, IdOrNone
<1>7. CASE \/ \E id \in Ids : JobHead(id) \/ JobData(id)
           \/ FlushAndClose \/ Crash \/ UNCHANGED vars
  <2>1. UNCHANGED <<list, i, pos, pc>>
    BY <1>7 DEF JobHead, JobData, FlushAndClose, FlushManifest, FlushManifestWrite, FlushHead,
       FlushData, FlushSkip, FlushDone, FlushStep, Close, Crash, vars, store, getVars
  <2> QED
    BY <2>1
<1>8. CASE OpenNew \/ OpenManifest
  BY <1>8 DEF OpenNew, OpenManifest, Fresh, Opening, IdOrNone
<1> QED
  BY <1>1, <1>2, <1>3, <1>4, <1>5, <1>6, <1>7, <1>8 DEF Next, PutStep, GetStep

\* A table in status WRITE, and one about to be, has a hash table.
HasBuckets ==
  /\ \A id \in Ids : status[id] = "WRITE" => htable[id] # NULL
  /\ \A t \in Threads : pc[t] = "write" => htable[cur[t]] # NULL

TableInv == TableTypes /\ HasBuckets

\* The tables a step works with.
LEMMA StepTables ==
  ASSUME IInv, NEW t \in Threads
  PROVE  /\ pc[t] \in {"open", "write"} => cur[t] \in Ids
         /\ pc[t] = "add" => \A u \in Threads : pc[u] \notin {"open", "write"}
         /\ pc[t] \in Creating => \A u \in Threads : pc[u] \in Creating => u = t
<1>1. pc[t] \in {"open", "write"} => cur[t] \in Ids
  BY DEF IInv, CreatesHead, HeadIsNew, Types
<1>2. pc[t] \in Creating => \A u \in Threads : pc[u] \in Creating => u = t
  BY OneCreator
<1> QED
  BY <1>1, <1>2 DEF Creating

LEMMA TableTyped ==
  ASSUME IInv, PlaceInv, TableInv, [Next]_vars PROVE TableInv'
<1> USE DEF TableInv, TableTypes, HasBuckets, Tables, Makers
<1>0. Types
  BY DEF IInv
<1>1. ASSUME NEW t \in Threads, CreateAdd(t) PROVE TableInv'
  <2>1. \A u \in Threads : pc'[u] # "write"
    BY <1>0, <1>1, StepTables DEF CreateAdd, Step, Types
  <2>2. /\ htable' = [htable EXCEPT ![current_id] = NULL]
        /\ status' = [status EXCEPT ![current_id] = "UNOPEN"]
        /\ UNCHANGED <<ready, ht>>
    BY <1>1 DEF CreateAdd, content
  <2> QED
    BY <1>0, <2>1, <2>2 DEF Types
<1>2. ASSUME NEW t \in Threads, CreateOpen(t) PROVE TableInv'
  <2>1. cur[t] \in Ids /\ \A u \in Threads : pc[u] = "write" => u = t
    BY <1>2, StepTables DEF CreateOpen, Creating
  <2>2. /\ htable' = [htable EXCEPT ![cur[t]] = "built"]
        /\ ready' = ready \cup {<<cur[t], "built">>}
        /\ UNCHANGED <<status, cur, ht>>
        /\ pc' = [pc EXCEPT ![t] = "write"]
    BY <1>2 DEF CreateOpen, putVars
  <2> QED
    BY <1>0, <2>1, <2>2, MakerAssumption DEF Types
<1>3. ASSUME NEW t \in Threads, CreateWrite(t) PROVE TableInv'
  <2>1. cur[t] \in Ids /\ htable[cur[t]] # NULL
        /\ \A u \in Threads : pc[u] = "write" => u = t
    BY <1>3, StepTables DEF CreateWrite, Step, Creating
  <2>2. /\ status' = [status EXCEPT ![cur[t]] = "WRITE"]
        /\ UNCHANGED <<htable, ready, ht>>
        /\ pc' = [pc EXCEPT ![t] = "put"]
    BY <1>3 DEF CreateWrite, Step, content
  <2> QED
    BY <1>0, <2>1, <2>2 DEF Types
<1>4. ASSUME NEW t \in Threads, PutWriting(t) PROVE TableInv'
  <2>1. cur[t] \in Ids
    BY <1>4 DEF PutWriting, Step, IInv, HasTable
  <2>2. <<cur[t], htable[cur[t]]>> \in Tables
    BY <1>4, <2>1 DEF PutWriting
  <2>3. /\ ht' = [ht EXCEPT ![t] = <<cur[t], htable[cur[t]]>>]
        /\ pc' = [pc EXCEPT ![t] = "reserve"]
        /\ UNCHANGED <<htable, ready, cur, status>>
    BY <1>4 DEF PutWriting, Step, content, store
  <2> QED
    BY <1>0, <2>2, <2>3 DEF Types
<1>5. ASSUME NEW t \in Threads,
             PutReplace(t) \/ PutReserve(t) \/ PutLink(t) \/ PutFull(t) \/ PutRejected(t)
             \/ PutStart(t) \/ PutStartCreate(t) \/ PutNotWriting(t) \/ RotateOther(t)
      PROVE  TableInv'
  <2>1. /\ UNCHANGED <<htable, ready, status>>
        /\ ht' \in {ht, [ht EXCEPT ![t] = NULL]}
    BY <1>5 DEF PutReplace, PutReserve, PutLink, PutFull, PutRejected, PutStart, PutStartCreate,
       PutNotWriting, RotateOther, Return, store, content, putVars
  <2>2. \A u \in Threads : pc'[u] = "write" => pc[u] = "write" /\ cur'[u] = cur[u]
    BY <1>0, <1>5 DEF PutReplace, PutReserve, PutLink, PutFull, PutRejected, PutStart, PutStartCreate,
       PutNotWriting, RotateOther, Return, Step, putVars, Types
  <2> QED
    BY <2>1, <2>2
<1>6. ASSUME NEW t \in Threads, RotateFirst(t) PROVE TableInv'
  <2>1. /\ UNCHANGED <<htable, ready, ht, cur>>
        /\ status' = [status EXCEPT ![cur[t]] = "FLUSH"]
        /\ pc' = [pc EXCEPT ![t] = "add"]
    BY <1>6 DEF RotateFirst, Step, content
  <2> QED
    BY <1>0, <2>1 DEF Types
<1>7. ASSUME NEW t \in Threads,
             (\E x \in Items : PutCall(t, x)) \/ (\E k \in Keys : GetCall(t, k))
      PROVE  TableInv'
  <2>1. /\ UNCHANGED <<htable, ready, status, ht, cur>>
        /\ pc' \in {[pc EXCEPT ![t] = "start"], [pc EXCEPT ![t] = "get"]}
    BY <1>7 DEF PutCall, GetCall, Step, store, content, putVars
  <2> QED
    BY <1>0, <2>1 DEF Types
<1>8. ASSUME NEW t \in Threads, GetStep(t) PROVE TableInv'
  <2>1. UNCHANGED <<ht, cur>>
    BY <1>8 DEF GetStep, GetCount, GetHead, GetUnopen, GetNew, GetLoad, GetSetRead, GetNext,
       GetFound, GetNull, GetEnd, putVars
  <2>2. htable' \in {htable, [htable EXCEPT ![pos[t]] = t]}
    BY <1>8 DEF GetStep, GetCount, GetHead, GetUnopen, GetNew, GetLoad, GetSetRead, GetNext,
       GetFound, GetNull, GetEnd, store
  <2>3. status' \in {status, [status EXCEPT ![pos[t]] = "READ"]}
    BY <1>8 DEF GetStep, GetCount, GetHead, GetUnopen, GetNew, GetLoad, GetSetRead, GetNext,
       GetFound, GetNull, GetEnd, store
  <2>4. ready' \subseteq Tables
    <3>1. CASE GetLoad(t)
      <4>1. ready' = ready \/ (ready' = ready \cup {<<pos[t], t>>} /\ file[pos[t]].num # -1)
        BY <3>1 DEF GetLoad
      <4>2. pos[t] \in Ids
        BY <3>1 DEF GetLoad, Step, PlaceInv, GetTypes, Places, Opening, IdOrNone
      <4> QED
        BY <4>1, <4>2
    <3>2. CASE ~GetLoad(t)
      BY <1>8, <3>2 DEF GetStep, GetCount, GetHead, GetUnopen, GetNew, GetSetRead, GetNext,
         GetFound, GetNull, GetEnd, content
    <3> QED
      BY <3>1, <3>2
  <2>5. \A u \in Threads : pc'[u] = "write" => pc[u] = "write"
    BY <1>0, <1>8 DEF GetStep, GetCount, GetHead, GetUnopen, GetNew, GetLoad, GetSetRead, GetNext,
       GetFound, GetNull, GetEnd, Step, Types
  <2>6. htable' \in [Ids -> Makers \cup {NULL}] /\ \A id \in Ids : htable[id] # NULL => htable'[id] # NULL
    BY <2>2, NullAssumption
  <2>7. \A id \in Ids : status'[id] = "WRITE" => status[id] = "WRITE"
    BY <1>0, <2>3 DEF Types
  <2>8. \A u \in Threads : pc[u] = "write" => cur[u] \in Ids
    BY StepTables
  <2> QED
    BY <2>1, <2>4, <2>5, <2>6, <2>7, <2>8
<1>9. CASE \/ \E id \in Ids : JobHead(id) \/ JobData(id)
           \/ FlushAndClose \/ Crash \/ UNCHANGED vars
  <2>1. /\ UNCHANGED <<ht, cur, pc, htable, ready>>
        /\ status' = status \/ \E id : status' = [status EXCEPT ![id] = "READ"]
    BY <1>9 DEF JobHead, JobData, FlushAndClose, FlushManifest, FlushManifestWrite, FlushHead,
       FlushData, FlushSkip, FlushDone, FlushStep, Close, Crash, vars, store, content, putVars
  <2> QED
    BY <1>0, <2>1 DEF Types
<1>10. CASE OpenNew \/ OpenManifest
  BY <1>10 DEF OpenNew, OpenManifest, Fresh
<1> QED
  BY <1>1, <1>2, <1>3, <1>4, <1>5, <1>6, <1>7, <1>8, <1>9, <1>10 DEF Next, PutStep

-----------------------------------------------------------------------------
(* The items that puts hold *)

HistoryTypes ==
  /\ item \in [Threads -> Items \cup {NULL}]
  /\ acked \subseteq Items
  /\ older \in [Items -> SUBSET Items]
  /\ seen \in [Threads -> SUBSET Items]

\* A put holds one item from its call to its return, and no other put holds it.
HasItem ==
  /\ \A t \in Threads : pc[t] \in PutSteps <=> item[t] \in Items
  /\ \A t, u \in Threads : item[t] = item[u] /\ item[t] # NULL => t = u

HistoryInv == HistoryTypes /\ HasItem

LEMMA HistoryKept ==
  ASSUME IInv, HistoryInv, [Next]_vars PROVE HistoryInv'
<1> USE DEF HistoryInv, HistoryTypes, HasItem
<1>0. DOMAIN pc = Threads /\ NULL \notin Items
  BY NullAssumption DEF IInv, Types
<1>1. ASSUME NEW t \in Threads, NEW x \in Items, PutCall(t, x) PROVE HistoryInv'
  <2>1. /\ pc[t] = "idle" /\ pc' = [pc EXCEPT ![t] = "start"]
        /\ \A u \in Threads : item[u] # x
        /\ item' = [item EXCEPT ![t] = x]
        /\ older' = [y \in Items |-> IF y = x THEN {z \in acked : KeyOf[z] = KeyOf[x]}
                                     ELSE older[y] \ {x}]
        /\ UNCHANGED <<acked, seen>>
    BY <1>1 DEF PutCall, Step
  <2>2. older' \in [Items -> SUBSET Items]
    BY <2>1
  <2> QED
    BY <1>0, <2>1, <2>2 DEF PutSteps
<1>2. ASSUME NEW t \in Threads, PutReplace(t) \/ PutLink(t) \/ PutRejected(t) PROVE HistoryInv'
  <2>1. /\ pc[t] \in PutSteps /\ pc' = [pc EXCEPT ![t] = "idle"]
        /\ item' = [item EXCEPT ![t] = NULL]
        /\ UNCHANGED seen
        /\ \/ UNCHANGED older
           \/ older' = [older EXCEPT ![item[t]] = {}]
        /\ acked' = acked \cup {item[t]} \/ acked' = acked
    BY <1>2 DEF PutReplace, PutLink, PutRejected, Step, Return, PutSteps
  <2> QED
    BY <1>0, <2>1 DEF PutSteps
<1>3. ASSUME NEW t \in Threads, PutStep(t), ~(PutReplace(t) \/ PutLink(t) \/ PutRejected(t))
      PROVE  HistoryInv'
  <2>1. UNCHANGED <<item, acked, older, seen>>
    BY <1>3 DEF PutStep, PutStart, PutStartCreate, CreateAdd, CreateOpen, CreateWrite, PutNotWriting,
       PutWriting, PutReserve, PutFull, RotateFirst, RotateOther, putVars, hist
  <2>2. \E to \in PutSteps : pc' = [pc EXCEPT ![t] = to] /\ pc[t] \in PutSteps
    BY <1>3 DEF PutStep, PutStart, PutStartCreate, CreateAdd, CreateOpen, CreateWrite, PutNotWriting,
       PutWriting, PutReserve, PutFull, RotateFirst, RotateOther, Step, PutSteps
  <2> QED
    BY <1>0, <2>1, <2>2
<1>4. ASSUME NEW t \in Threads, (\E k \in Keys : GetCall(t, k)) \/ GetStep(t)
      PROVE  HistoryInv'
  <2>1. UNCHANGED <<item, acked, older>>
    BY <1>4 DEF GetCall, GetStep, GetCount, GetHead, GetUnopen, GetNew, GetLoad, GetSetRead, GetNext,
       GetFound, GetNull, GetEnd, putVars, hist
  <2>2. \E to \in GetSteps \cup {"idle"} :
          pc' = [pc EXCEPT ![t] = to] /\ pc[t] \in GetSteps \cup {"idle"}
    BY <1>4 DEF GetCall, GetStep, GetCount, GetHead, GetUnopen, GetNew, GetLoad, GetSetRead, GetNext,
       GetFound, GetNull, GetEnd, Step, Looking, GetSteps, Opening
  <2>3. seen' = seen \/ \E s \in SUBSET Items : seen' = [seen EXCEPT ![t] = s]
    <3>1. {} \in SUBSET Items /\ \A k \in Keys : {x \in acked : KeyOf[x] = k} \in SUBSET Items
      OBVIOUS
    <3> QED
      BY <1>4, <3>1 DEF GetCall, GetStep, GetCount, GetHead, GetUnopen, GetNew, GetLoad, GetSetRead,
         GetNext, GetFound, GetNull, GetEnd, hist
  <2> QED
    BY <1>0, <2>1, <2>2, <2>3 DEF PutSteps, GetSteps, Opening
<1>5. CASE \/ \E id \in Ids : JobHead(id) \/ JobData(id)
           \/ FlushAndClose \/ Crash \/ UNCHANGED vars
  <2>1. UNCHANGED <<pc, item, acked, older, seen>>
    BY <1>5 DEF JobHead, JobData, FlushAndClose, FlushManifest, FlushManifestWrite, FlushHead,
       FlushData, FlushSkip, FlushDone, FlushStep, Close, Crash, vars, putVars, hist
  <2> QED
    BY <2>1
<1>6. CASE OpenNew \/ OpenManifest
  <2>1. /\ pc' = [t \in Threads |-> "idle"] /\ item' = [t \in Threads |-> NULL]
        /\ seen' = [t \in Threads |-> {}]
        /\ older' = older /\ acked' \subseteq acked
    BY <1>6 DEF OpenNew, OpenManifest, Fresh
  <2> QED
    BY <1>0, <2>1 DEF PutSteps
<1> QED
  BY <1>1, <1>2, <1>3, <1>4, <1>5, <1>6 DEF Next

-----------------------------------------------------------------------------
(* The hash tables that gets made *)

\* Each is made once, by a get that found the table UNOPEN, and is not loaded
\* before.
Makings ==
  /\ \A id \in Ids, u \in Threads : <<id, u>> \in ready =>
       id < current_id /\ (status[id] = "UNOPEN" => pc[u] = "read" /\ pos[u] = id)
  /\ \A t \in Threads : pc[t] \in {"open_get", "load"} => <<pos[t], t>> \notin ready

\* Steps that make no hash table and open none.
LEMMA SameMakings ==
  ASSUME Makings, current_id' >= current_id, current_id \in Int, current_id' \in Int, UNCHANGED pos,
         \A id \in Ids, u \in Threads : <<id, u>> \in ready' => <<id, u>> \in ready,
         \A t \in Threads : <<pos[t], t>> \in ready' => <<pos[t], t>> \in ready,
         \A id \in Ids : status'[id] = "UNOPEN" => status[id] = "UNOPEN" \/ id >= current_id,
         \A t \in Threads : pc[t] \in Opening \/ pc'[t] \in Opening => pc'[t] = pc[t]
  PROVE  Makings'
BY DEF Makings, Opening, Ids

LEMMA MakingsKept ==
  ASSUME IInv, IdsInv, PlaceInv, Makings, [Next]_vars PROVE Makings'
<1>0. /\ Types /\ DOMAIN pc = Threads /\ current_id \in Nat
      /\ status \in [Ids -> Statuses] /\ pos \in [Threads -> IdOrNone]
  BY DEF IInv, Types, PlaceInv, GetTypes
<1>1. ASSUME NEW t \in Threads, PutStep(t) PROVE Makings'
  <2>1. \/ UNCHANGED ready
        \/ ready' = ready \cup {<<cur[t], "built">>}
    BY <1>1 DEF PutStep, PutStart, PutStartCreate, CreateAdd, CreateOpen, CreateWrite, PutNotWriting,
       PutWriting, PutReplace, PutReserve, PutLink, PutFull, PutRejected, RotateFirst, RotateOther,
       content
  <2>2. UNCHANGED pos /\ current_id' \in {current_id, current_id + 1}
    BY <1>1 DEF PutStep, PutStart, PutStartCreate, CreateAdd, CreateOpen, CreateWrite, PutNotWriting,
       PutWriting, PutReplace, PutReserve, PutLink, PutFull, PutRejected, RotateFirst, RotateOther,
       store, getVars
  <2>3. \/ status' = status
        \/ \E s \in {"WRITE", "FLUSH"} : status' = [status EXCEPT ![cur[t]] = s]
        \/ status' = [status EXCEPT ![current_id] = "UNOPEN"]
    BY <1>1 DEF PutStep, PutStart, PutStartCreate, CreateAdd, CreateOpen, CreateWrite, PutNotWriting,
       PutWriting, PutReplace, PutReserve, PutLink, PutFull, PutRejected, RotateFirst, RotateOther,
       store
  <2>4. \E to \in PutSteps \cup {"idle"} : pc' = [pc EXCEPT ![t] = to] /\ pc[t] \in PutSteps
    BY <1>1 DEF PutStep, PutStart, PutStartCreate, CreateAdd, CreateOpen, CreateWrite, PutNotWriting,
       PutWriting, PutReplace, PutReserve, PutLink, PutFull, PutRejected, RotateFirst, RotateOther,
       Step, PutSteps
  <2>5. \A u \in Threads : pc[u] \in Opening \/ pc'[u] \in Opening => pc'[u] = pc[u]
    BY <1>0, <2>4 DEF PutSteps, Opening
  <2>6. \A id \in Ids : status'[id] = "UNOPEN" => status[id] = "UNOPEN" \/ id >= current_id
    <3>1. \A id \in Ids : id = current_id => id >= current_id
      BY <1>0
    <3> QED
      BY <1>0, <2>3, <3>1
  <2>7. \A id, u : u \in Threads /\ <<id, u>> \in ready' => <<id, u>> \in ready
    BY <2>1, MakerAssumption
  <2> QED
    BY <1>0, <2>2, <2>5, <2>6, <2>7, SameMakings
<1>2. ASSUME NEW t \in Threads,
             \/ \E x \in Items : PutCall(t, x)
             \/ \E k \in Keys : GetCall(t, k)
             \/ GetCount(t)
      PROVE  Makings'
  <2>1. UNCHANGED <<ready, pos, current_id, status>>
    BY <1>2 DEF PutCall, GetCall, GetCount, store, content, getVars
  <2>2. \E to \in {"start", "get", "head"} :
          pc' = [pc EXCEPT ![t] = to] /\ pc[t] \in {"idle", "get"}
    BY <1>2 DEF PutCall, GetCall, GetCount, Step
  <2>3. \A u \in Threads : pc[u] \in Opening \/ pc'[u] \in Opening => pc'[u] = pc[u]
    BY <1>0, <2>2 DEF Opening
  <2> QED
    BY <1>0, <2>1, <2>3, SameMakings
<1>3. ASSUME NEW t \in Threads, GetHead(t) \/ GetNext(t) \/ GetFound(t) \/ GetNull(t)
      PROVE  Makings'
  <2>1. UNCHANGED <<ready, current_id, status>>
    BY <1>3 DEF GetHead, GetNext, GetFound, GetNull, GetEnd, store, content
  <2>2. /\ \E p : pos' = [pos EXCEPT ![t] = p]
        /\ pc[t] \in {"head", "visit", "look"}
        /\ \E to \in {"visit", "idle"} : pc' = [pc EXCEPT ![t] = to]
    BY <1>3 DEF GetHead, GetNext, GetFound, GetNull, GetEnd, Looking, Step
  <2> QED
    BY <1>0, <2>1, <2>2 DEF Makings
<1>4. ASSUME NEW t \in Threads, GetUnopen(t) PROVE Makings'
  <2>1. /\ UNCHANGED <<ready, current_id, status, pos>>
        /\ pc[t] = "visit" /\ status[pos[t]] = "UNOPEN" /\ pos[t] # NULL
        /\ pc' = [pc EXCEPT ![t] = "open_get"]
    BY <1>4 DEF GetUnopen, Visiting, Step, store, content, getVars
  <2>2. pos[t] \in Ids
    BY <1>0, <2>1 DEF IdOrNone
  <2>3. <<pos[t], t>> \notin ready
    BY <2>1, <2>2 DEF Makings
  <2> QED
    BY <1>0, <2>1, <2>3 DEF Makings
<1>5. ASSUME NEW t \in Threads, GetNew(t) PROVE Makings'
  <2>1. /\ UNCHANGED <<ready, current_id, status, pos>>
        /\ pc[t] = "open_get" /\ pc' = [pc EXCEPT ![t] = "load"]
    BY <1>5 DEF GetNew, Step, getVars
  <2> QED
    BY <1>0, <2>1 DEF Makings
<1>6. ASSUME NEW t \in Threads, GetLoad(t) PROVE Makings'
  <2>1. /\ UNCHANGED <<current_id, status, pos>>
        /\ pc[t] = "load" /\ pc' = [pc EXCEPT ![t] = "read"]
        /\ ready' = ready \/ ready' = ready \cup {<<pos[t], t>>}
    BY <1>6 DEF GetLoad, Step, store, getVars
  <2>2. pos[t] # NULL
    BY <2>1 DEF PlaceInv, Places, Opening
  <2>3. pos[t] < current_id
    BY <2>2 DEF PlaceInv, Places, IdsInv, ListInv
  <2> QED
    BY <1>0, <2>1, <2>3 DEF Makings
<1>7. ASSUME NEW t \in Threads, GetSetRead(t) PROVE Makings'
  <2>1. /\ UNCHANGED <<ready, current_id, pos>>
        /\ status' = [status EXCEPT ![pos[t]] = "READ"]
        /\ pc[t] = "read" /\ pc' = [pc EXCEPT ![t] = "look"]
    BY <1>7 DEF GetSetRead, Step, content, getVars
  <2> QED
    BY <1>0, <2>1 DEF Makings
<1>8. CASE \/ \E id \in Ids : JobHead(id) \/ JobData(id)
           \/ FlushAndClose \/ Crash \/ UNCHANGED vars
  <2>1. /\ UNCHANGED <<ready, pos, pc, current_id>>
        /\ status' = status \/ \E id : status' = [status EXCEPT ![id] = "READ"]
    BY <1>8 DEF JobHead, JobData, FlushAndClose, FlushManifest, FlushManifestWrite, FlushHead,
       FlushData, FlushSkip, FlushDone, FlushStep, Close, Crash, vars, store, content, getVars
  <2>2. \A id \in Ids : status'[id] = "UNOPEN" => status[id] = "UNOPEN"
    BY <1>0, <2>1
  <2> QED
    BY <1>0, <2>1, <2>2, SameMakings
<1>9. CASE OpenNew \/ OpenManifest
  BY <1>9 DEF OpenNew, OpenManifest, Fresh, Makings
<1> QED
  BY <1>1, <1>2, <1>3, <1>4, <1>5, <1>6, <1>7, <1>8, <1>9 DEF Next, GetStep

-----------------------------------------------------------------------------
(* What a hash table counts *)

CellTypes ==
  /\ mem \in [Tables -> SUBSET Items]
  /\ key_num \in [Tables -> -1 .. Max]
  /\ file \in [Ids -> [num : -1 .. Max, items : SUBSET Items]]

Linking(h) == {t \in Threads : pc[t] = "link" /\ ht[t] = h}

OnePerKey(items) == \A x, y \in items : Same(x, y) => x = y

\* The counter of a loaded hash table is its items and the puts between
\* counting theirs and linking it; a hash table with no buckets yet has no put.
Counted ==
  /\ \A t \in Threads : pc[t] = "link" => ht[t] \in ready
  /\ \A h \in ready :
       /\ IsFiniteSet(mem[h]) /\ IsFiniteSet(Linking(h))
       /\ key_num[h] = Cardinality(mem[h]) + Cardinality(Linking(h))

\* A hash table has one item of a key, and the puts about to link bring others.
Unmixed ==
  /\ \A h \in Tables : OnePerKey(mem[h])
  /\ \A t \in Threads : pc[t] = "link" =>
       /\ SameKey(ht[t], item[t]) = {}
       /\ \A u \in Threads : pc[u] = "link" /\ ht[u] = ht[t] /\ u # t => ~Same(item[u], item[t])

\* A table that no put has created yet is empty.
BuiltEmpty ==
  \A id \in Ids : <<id, "built">> \notin ready =>
    mem[<<id, "built">>] = {} /\ key_num[<<id, "built">>] = 0

FilesFit ==
  \A id \in Ids :
    /\ IsFiniteSet(file[id].items) /\ Cardinality(file[id].items) <= Max
    /\ OnePerKey(file[id].items)

CellInv == CellTypes /\ Counted /\ Unmixed /\ BuiltEmpty /\ FilesFit

\* Steps that only move threads.
LEMMA SameCells ==
  ASSUME CellInv, UNCHANGED <<ready, mem, key_num, file>>,
         \A t \in Threads : pc'[t] = "link" <=> pc[t] = "link",
         \A t \in Threads : pc[t] = "link" => ht'[t] = ht[t] /\ item'[t] = item[t]
  PROVE  CellInv'
<1>1. \A h : Linking(h)' = Linking(h)
  BY DEF Linking
<1>2. Counted'
  BY <1>1 DEF CellInv, Counted
<1>3. Unmixed'
  BY DEF CellInv, Unmixed, SameKey, OnePerKey, Same
<1> QED
  BY <1>2, <1>3 DEF CellInv, CellTypes, BuiltEmpty, FilesFit, OnePerKey, Same

\* What a flush writes fits.
LEMMA BuiltFits ==
  ASSUME TableTypes, CellInv, NEW h \in Tables, h \in ready \/ \E id \in Ids : h = <<id, "built">>
  PROVE  /\ IsFiniteSet(mem[h]) /\ Cardinality(mem[h]) <= Max
         /\ OnePerKey(mem[h])
<1>1. OnePerKey(mem[h])
  BY DEF CellInv, Unmixed
<1>2. CASE h \in ready
  <2>1. Cardinality(mem[h]) \in Nat /\ Cardinality(Linking(h)) \in Nat
    BY <1>2, FS_CardinalityType DEF CellInv, Counted
  <2>2. key_num[h] <= Max /\ key_num[h] \in Int
    BY BoundsAssumption DEF CellInv, CellTypes
  <2> QED
    BY <1>1, <1>2, <2>1, <2>2, BoundsAssumption DEF CellInv, Counted
<1>3. CASE h \notin ready
  <2>1. mem[h] = {}
    BY <1>3 DEF CellInv, BuiltEmpty
  <2> QED
    BY <1>1, <2>1, FS_EmptySet, BoundsAssumption
<1> QED
  BY <1>2, <1>3

\* Steps of the flushes.
LEMMA FileCells ==
  ASSUME TableTypes, CellInv, UNCHANGED <<ready, mem, key_num, pc, ht, item>>,
         NEW id, file' \in {file, WriteHead(id), WriteData(id)}
  PROVE  CellInv'
<1>1. CellTypes' /\ FilesFit'
  <2>1. CASE id \notin Ids \/ file' = file \/ htable[id] # "built"
    <3>1. file' = file
      BY <2>1 DEF WriteHead, WriteData, CellInv, CellTypes
    <3> QED
      BY <3>1 DEF CellInv, CellTypes, FilesFit, OnePerKey, Same
  <2>2. CASE id \in Ids /\ htable[id] = "built" /\ file' = WriteHead(id)
    <3>1. <<id, "built">> \in Tables
      BY <2>2 DEF Tables, Makers
    <3>2. file' = [file EXCEPT ![id] = [num |-> key_num[<<id, "built">>], items |-> {}]]
      BY <2>2 DEF WriteHead, FlushTable
    <3>3. IsFiniteSet({}) /\ Cardinality({}) <= Max
      BY FS_EmptySet, BoundsAssumption
    <3> QED
      BY <2>2, <3>1, <3>2, <3>3 DEF CellInv, CellTypes, FilesFit, OnePerKey, Same
  <2>3. CASE id \in Ids /\ htable[id] = "built" /\ file' = WriteData(id)
    <3>1. <<id, "built">> \in Tables
      BY <2>3 DEF Tables, Makers
    <3>2. file' = [file EXCEPT ![id].items = mem[<<id, "built">>]]
      BY <2>3 DEF WriteData, FlushTable
    <3>3. /\ IsFiniteSet(mem[<<id, "built">>]) /\ Cardinality(mem[<<id, "built">>]) <= Max
          /\ OnePerKey(mem[<<id, "built">>])
      BY <2>3, <3>1, BuiltFits
    <3> QED
      BY <2>3, <3>1, <3>2, <3>3 DEF CellInv, CellTypes, FilesFit, OnePerKey, Same
  <2> QED
    BY <2>1, <2>2, <2>3
<1>2. \A h : Linking(h)' = Linking(h)
  BY DEF Linking
<1>3. Counted'
  BY <1>2 DEF CellInv, Counted
<1> QED
  BY <1>1, <1>3 DEF CellInv, CellTypes, Unmixed, BuiltEmpty, SameKey, OnePerKey, Same

\* hashtable_build: the table is empty, and so is its file.
LEMMA OpenCells ==
  ASSUME IInv, TableTypes, CellInv, NEW t \in Threads, CreateOpen(t)
  PROVE  CellInv'
<1> DEFINE h == <<cur[t], "built">>
<1>1. /\ pc[t] = "open" /\ pc' = [pc EXCEPT ![t] = "write"]
      /\ ready' = ready \cup {h}
      /\ file' = [file EXCEPT ![cur[t]] = NoFile]
      /\ UNCHANGED <<mem, key_num, ht, item>>
  BY DEF CreateOpen, putVars
<1>2. cur[t] \in Ids /\ DOMAIN pc = Threads
  BY <1>1, StepTables DEF IInv, Types
<1>3. CellTypes' /\ FilesFit'
  <2>1. IsFiniteSet({}) /\ Cardinality({}) <= Max
    BY FS_EmptySet, BoundsAssumption
  <2>2. NoFile \in [num : -1 .. Max, items : SUBSET Items] /\ NoFile.items = {}
    BY BoundsAssumption DEF NoFile
  <2> QED
    BY <1>1, <1>2, <2>1, <2>2 DEF CellInv, CellTypes, FilesFit, OnePerKey, Same
<1>4. \A g : Linking(g)' = Linking(g)
  BY <1>1, <1>2 DEF Linking
<1>5. Counted'
  <2>1. ASSUME NEW g \in ready'
        PROVE  /\ IsFiniteSet(mem[g]) /\ IsFiniteSet(Linking(g))
               /\ key_num[g] = Cardinality(mem[g]) + Cardinality(Linking(g))
    <3>1. CASE g \in ready
      BY <3>1 DEF CellInv, Counted
    <3>2. CASE g \notin ready
      <4>1. g = h /\ mem[g] = {} /\ key_num[g] = 0
        BY <1>1, <1>2, <2>1, <3>2 DEF CellInv, BuiltEmpty
      <4>2. Linking(g) = {}
        BY <3>2 DEF Linking, CellInv, Counted
      <4> QED
        BY <4>1, <4>2, FS_EmptySet
    <3> QED
      BY <3>1, <3>2
  <2>2. \A u \in Threads : pc'[u] = "link" => ht'[u] \in ready'
    BY <1>1, <1>2 DEF CellInv, Counted
  <2> QED
    BY <1>1, <1>4, <2>1, <2>2 DEF Counted
<1>6. Unmixed' /\ BuiltEmpty'
  BY <1>1, <1>2 DEF CellInv, Unmixed, BuiltEmpty, SameKey, OnePerKey, Same
<1> QED
  BY <1>3, <1>5, <1>6 DEF CellInv

LEMMA ReserveCells ==
  ASSUME IInv, TableTypes, CellInv, NEW t \in Threads, PutReserve(t)
  PROVE  CellInv'
<1> PICK h : h = ht[t]
  OBVIOUS
<1>1. /\ pc[t] = "reserve" /\ pc' = [pc EXCEPT ![t] = "link"]
      /\ h \in ready /\ BucketFree(t) /\ SameKey(h, item[t]) = {} /\ key_num[h] < Max
      /\ key_num' = [key_num EXCEPT ![h] = @ + 1]
      /\ UNCHANGED <<ready, mem, ht, item, file>>
  BY DEF PutReserve, Step, disk, putVars
<1>2. DOMAIN pc = Threads
  BY DEF IInv, Types
<1>3. CellTypes'
  <2>1. \A g \in Tables : key_num'[g] \in -1 .. Max
    BY <1>1, BoundsAssumption DEF CellInv, CellTypes
  <2> QED
    BY <1>1, <2>1 DEF CellInv, CellTypes
<1>4. Linking(h)' = Linking(h) \cup {t} /\ t \notin Linking(h)
      /\ \A g : g # h => Linking(g)' = Linking(g)
  BY <1>1, <1>2 DEF Linking
<1>5. Counted'
  <2>1. ASSUME NEW g \in ready
        PROVE  /\ IsFiniteSet(mem[g]) /\ IsFiniteSet(Linking(g)')
               /\ key_num'[g] = Cardinality(mem[g]) + Cardinality(Linking(g)')
    <3>1. /\ IsFiniteSet(mem[g]) /\ IsFiniteSet(Linking(g))
          /\ key_num[g] = Cardinality(mem[g]) + Cardinality(Linking(g))
      BY DEF CellInv, Counted
    <3>2. CASE g # h
      <4>1. key_num'[g] = key_num[g]
        BY <1>1, <3>2 DEF TableTypes, CellInv, CellTypes
      <4> QED
        BY <1>4, <3>1, <3>2, <4>1
    <3>3. CASE g = h
      <4>0. /\ IsFiniteSet(Linking(g) \cup {t})
            /\ Cardinality(Linking(g) \cup {t}) = Cardinality(Linking(g)) + 1
        BY <1>4, <3>1, <3>3, FS_AddElement
      <4>1. IsFiniteSet(Linking(g)') /\ Cardinality(Linking(g)') = Cardinality(Linking(g)) + 1
        BY <1>4, <3>3, <4>0
      <4>2. Cardinality(mem[g]) \in Nat /\ Cardinality(Linking(g)) \in Nat
        BY <3>1, FS_CardinalityType
      <4>3. key_num'[g] = key_num[g] + 1
        BY <1>1, <3>3 DEF TableTypes, CellInv, CellTypes
      <4> QED
        BY <3>1, <4>1, <4>2, <4>3
    <3> QED
      BY <3>2, <3>3
  <2> QED
    BY <1>1, <1>2, <2>1 DEF CellInv, Counted
<1>6. Unmixed'
  BY <1>1, <1>2 DEF CellInv, Unmixed, BucketFree, SameKey, OnePerKey, Same
<1>7. BuiltEmpty' /\ FilesFit'
  BY <1>1 DEF CellInv, CellTypes, BuiltEmpty, FilesFit, OnePerKey, Same
<1> QED
  BY <1>3, <1>5, <1>6, <1>7 DEF CellInv

LEMMA LinkCells ==
  ASSUME IInv, TableTypes, HistoryInv, CellInv, NEW t \in Threads, PutLink(t)
  PROVE  CellInv'
<1> PICK h, x : h = ht[t] /\ x = item[t]
  OBVIOUS
<1>1. /\ pc[t] = "link" /\ pc' = [pc EXCEPT ![t] = "idle"]
      /\ mem' = [mem EXCEPT ![h] = @ \cup {x}]
      /\ ht' = [ht EXCEPT ![t] = NULL] /\ item' = [item EXCEPT ![t] = NULL]
      /\ UNCHANGED <<ready, key_num, file>>
  BY DEF PutLink, Step, Return, disk
<1>2. /\ DOMAIN pc = Threads /\ h \in ready /\ h \in Tables /\ x \in Items
      /\ DOMAIN ht = Threads /\ DOMAIN item = Threads
  BY <1>1 DEF IInv, Types, CellInv, Counted, TableTypes, HistoryInv, HistoryTypes, HasItem, PutSteps
<1>3. CellTypes'
  BY <1>1, <1>2 DEF CellInv, CellTypes
<1>4. SameKey(h, x) = {} /\ x \notin mem[h]
  BY <1>1 DEF CellInv, Unmixed, SameKey
<1>5. Linking(h)' = Linking(h) \ {t} /\ t \in Linking(h)
      /\ \A g \in ready : g # h => Linking(g)' = Linking(g)
  BY <1>1, <1>2 DEF Linking
<1>6. \A u \in Threads : pc'[u] = "link" =>
        u # t /\ pc[u] = "link" /\ ht'[u] = ht[u] /\ item'[u] = item[u]
  BY <1>1, <1>2
<1>7. Counted'
  <2>1. ASSUME NEW g \in ready
        PROVE  /\ IsFiniteSet(mem'[g]) /\ IsFiniteSet(Linking(g)')
               /\ key_num[g] = Cardinality(mem'[g]) + Cardinality(Linking(g)')
    <3>1. /\ IsFiniteSet(mem[g]) /\ IsFiniteSet(Linking(g)) /\ g \in Tables
          /\ key_num[g] = Cardinality(mem[g]) + Cardinality(Linking(g))
      BY DEF CellInv, Counted, TableTypes
    <3>2. CASE g # h
      <4>1. mem'[g] = mem[g]
        BY <1>1, <3>1, <3>2 DEF CellInv, CellTypes
      <4> QED
        BY <1>5, <3>1, <3>2, <4>1
    <3>3. CASE g = h
      <4>0. /\ IsFiniteSet(Linking(g) \ {t})
            /\ Cardinality(Linking(g) \ {t}) = Cardinality(Linking(g)) - 1
        BY <1>5, <3>1, <3>3, FS_RemoveElement
      <4>1. IsFiniteSet(Linking(g)') /\ Cardinality(Linking(g)') = Cardinality(Linking(g)) - 1
        BY <1>5, <3>3, <4>0
      <4>2. Cardinality(mem[g]) \in Nat /\ Cardinality(Linking(g)) \in Nat
        BY <3>1, FS_CardinalityType
      <4>3. mem'[g] = mem[g] \cup {x}
        BY <1>1, <1>2, <3>3 DEF CellInv, CellTypes
      <4>4. IsFiniteSet(mem'[g]) /\ Cardinality(mem'[g]) = Cardinality(mem[g]) + 1
        <5>1. /\ IsFiniteSet(mem[g] \cup {x})
              /\ Cardinality(mem[g] \cup {x}) = Cardinality(mem[g]) + 1
          BY <1>4, <3>1, <3>3, FS_AddElement
        <5> QED
          BY <4>3, <5>1
      <4> QED
        BY <3>1, <4>1, <4>2, <4>4
    <3> QED
      BY <3>2, <3>3
  <2>2. \A u \in Threads : pc'[u] = "link" => ht'[u] \in ready'
    BY <1>1, <1>6 DEF CellInv, Counted
  <2> QED
    BY <1>1, <2>1, <2>2 DEF Counted
<1>8. Unmixed'
  <2>1. ASSUME NEW g \in Tables PROVE OnePerKey(mem'[g])
    <3>1. CASE g # h
      BY <1>1, <3>1 DEF CellInv, CellTypes, Unmixed, OnePerKey, Same
    <3>2. CASE g = h
      <4>1. mem'[g] = mem[g] \cup {x}
        BY <1>1, <1>2, <3>2 DEF CellInv, CellTypes
      <4> QED
        BY <1>2, <1>4, <3>2, <4>1 DEF CellInv, Unmixed, OnePerKey, SameKey, Same
    <3> QED
      BY <3>1, <3>2
  <2>2. ASSUME NEW u \in Threads, pc'[u] = "link" PROVE SameKey(ht[u], item[u])' = {}
    <3>1. SameKey(ht[u], item[u]) = {} /\ ht[u] \in Tables
      BY <1>6, <2>2 DEF CellInv, Unmixed, Counted, TableTypes
    <3>2. ht[u] = h => ~Same(item[u], x)
      BY <1>1, <1>6, <2>2 DEF CellInv, Unmixed
    <3> QED
      BY <1>1, <1>2, <1>6, <2>2, <3>1, <3>2 DEF CellInv, CellTypes, SameKey, Same
  <2>3. \A u, v \in Threads :
          pc'[u] = "link" /\ pc'[v] = "link" /\ ht'[v] = ht'[u] /\ u # v => ~Same(item'[v], item'[u])
    BY <1>6 DEF CellInv, Unmixed, Same
  <2> QED
    BY <1>6, <2>1, <2>2, <2>3 DEF Unmixed, OnePerKey, Same, SameKey
<1>9. BuiltEmpty' /\ FilesFit'
  BY <1>1, <1>2 DEF CellInv, CellTypes, BuiltEmpty, FilesFit, OnePerKey, Same
<1> QED
  BY <1>3, <1>7, <1>8, <1>9 DEF CellInv

\* Taking one element of a set for another leaves its size.
LEMMA Exchange ==
  ASSUME NEW S, IsFiniteSet(S), NEW a \in S, NEW b, b \notin S \ {a}
  PROVE  /\ IsFiniteSet((S \ {a}) \cup {b})
         /\ Cardinality((S \ {a}) \cup {b}) = Cardinality(S)
<1>1. IsFiniteSet(S \ {a}) /\ Cardinality(S \ {a}) = Cardinality(S) - 1
  BY FS_RemoveElement
<1>2. /\ IsFiniteSet((S \ {a}) \cup {b})
      /\ Cardinality((S \ {a}) \cup {b}) = Cardinality(S \ {a}) + 1
  BY <1>1, FS_AddElement
<1>3. Cardinality(S) \in Nat
  BY FS_CardinalityType
<1> QED
  BY <1>1, <1>2, <1>3

LEMMA ReplaceCells ==
  ASSUME IInv, TableTypes, HistoryInv, CellInv, NEW t \in Threads, PutReplace(t)
  PROVE  CellInv'
<1> PICK h, x : h = ht[t] /\ x = item[t]
  OBVIOUS
<1>1. /\ pc[t] = "reserve" /\ pc' = [pc EXCEPT ![t] = "idle"]
      /\ h \in ready /\ BucketFree(t) /\ SameKey(h, x) # {}
      /\ mem' = [mem EXCEPT ![h] = (@ \ SameKey(h, x)) \cup {x}]
      /\ ht' = [ht EXCEPT ![t] = NULL] /\ item' = [item EXCEPT ![t] = NULL]
      /\ UNCHANGED <<ready, key_num, file>>
  BY DEF PutReplace, Step, Return, disk
<1>2. /\ DOMAIN pc = Threads /\ h \in Tables /\ x \in Items
      /\ DOMAIN ht = Threads /\ DOMAIN item = Threads
  BY <1>1 DEF IInv, Types, TableTypes, HistoryInv, HistoryTypes, HasItem, PutSteps
<1>3. PICK z \in mem[h] : SameKey(h, x) = {z} /\ Same(z, x)
  <2>1. PICK z \in mem[h] : KeyOf[z] = KeyOf[x]
    BY <1>1 DEF SameKey
  <2>2. SameKey(h, x) = {z}
    BY <1>2, <2>1 DEF CellInv, Unmixed, OnePerKey, SameKey, Same
  <2> QED
    BY <2>1, <2>2 DEF Same
<1>4. mem'[h] = (mem[h] \ {z}) \cup {x} /\ \A g \in Tables : g # h => mem'[g] = mem[g]
  BY <1>1, <1>2, <1>3 DEF CellInv, CellTypes
<1>5. CellTypes'
  BY <1>1, <1>2, <1>3 DEF CellInv, CellTypes
<1>6. \A g : Linking(g)' = Linking(g)
  BY <1>1, <1>2 DEF Linking
<1>7. \A u \in Threads : pc'[u] = "link" =>
        u # t /\ pc[u] = "link" /\ ht'[u] = ht[u] /\ item'[u] = item[u]
  BY <1>1, <1>2
<1>8. Counted'
  <2>1. ASSUME NEW g \in ready
        PROVE  /\ IsFiniteSet(mem'[g]) /\ IsFiniteSet(Linking(g)')
               /\ key_num[g] = Cardinality(mem'[g]) + Cardinality(Linking(g)')
    <3>1. /\ IsFiniteSet(mem[g]) /\ IsFiniteSet(Linking(g)) /\ g \in Tables
          /\ key_num[g] = Cardinality(mem[g]) + Cardinality(Linking(g))
      BY DEF CellInv, Counted, TableTypes
    <3>2. IsFiniteSet(mem'[g]) /\ Cardinality(mem'[g]) = Cardinality(mem[g])
      <4>1. CASE g # h
        BY <1>4, <3>1, <4>1
      <4>2. CASE g = h
        <5>1. x \notin mem[h] \ {z}
          BY <1>3 DEF SameKey
        <5> QED
          BY <1>4, <3>1, <4>2, <5>1, Exchange
      <4> QED
        BY <4>1, <4>2
    <3> QED
      BY <1>6, <3>1, <3>2
  <2>2. \A u \in Threads : pc'[u] = "link" => ht'[u] \in ready'
    BY <1>1, <1>7 DEF CellInv, Counted
  <2> QED
    BY <1>1, <2>1, <2>2 DEF Counted
<1>9. Unmixed'
  <2>1. ASSUME NEW g \in Tables PROVE OnePerKey(mem'[g])
    <3>1. CASE g # h
      BY <1>4, <3>1 DEF CellInv, Unmixed, OnePerKey, Same
    <3>2. CASE g = h
      <4>1. \A y \in mem[h] \ {z} : ~Same(y, x)
        BY <1>3 DEF SameKey, Same
      <4> QED
        BY <1>2, <1>4, <3>2, <4>1 DEF CellInv, Unmixed, OnePerKey, Same
    <3> QED
      BY <3>1, <3>2
  <2>2. ASSUME NEW u \in Threads, pc'[u] = "link" PROVE SameKey(ht[u], item[u])' = {}
    <3>1. SameKey(ht[u], item[u]) = {} /\ ht[u] \in Tables
      BY <1>7, <2>2 DEF CellInv, Unmixed, Counted, TableTypes
    <3>2. ht[u] = h => ~Same(item[u], x)
      BY <1>1, <1>7, <2>2 DEF BucketFree, Same
    <3>3. ht'[u] = ht[u] /\ item'[u] = item[u]
      BY <1>7, <2>2
    <3>4. CASE ht[u] = h
      BY <1>4, <3>1, <3>2, <3>3, <3>4 DEF SameKey, Same
    <3>5. CASE ht[u] # h
      BY <1>4, <3>1, <3>3, <3>5 DEF SameKey
    <3> QED
      BY <3>4, <3>5
  <2>3. \A u, v \in Threads :
          pc'[u] = "link" /\ pc'[v] = "link" /\ ht'[v] = ht'[u] /\ u # v => ~Same(item'[v], item'[u])
    BY <1>7 DEF CellInv, Unmixed, Same
  <2> QED
    BY <1>7, <2>1, <2>2, <2>3 DEF Unmixed, OnePerKey, Same, SameKey
<1>10. BuiltEmpty' /\ FilesFit'
  BY <1>1, <1>2, <1>4 DEF CellInv, CellTypes, BuiltEmpty, FilesFit, OnePerKey, Same
<1> QED
  BY <1>5, <1>8, <1>9, <1>10 DEF CellInv

\* sst_open(READ): the hash table is not counted before it is loaded.
LEMMA NewCells ==
  ASSUME IInv, PlaceInv, Makings, CellInv, NEW t \in Threads, GetNew(t)
  PROVE  CellInv'
<1>1. /\ pc[t] = "open_get" /\ pc' = [pc EXCEPT ![t] = "load"]
      /\ key_num' = [key_num EXCEPT ![<<pos[t], t>>] = -1]
      /\ UNCHANGED <<ready, mem, ht, item, file>>
  BY DEF GetNew, Step, disk, putVars
<1>2. DOMAIN pc = Threads
  BY DEF IInv, Types
<1>3. <<pos[t], t>> \notin ready
  BY <1>1 DEF Makings
<1>4. CellTypes'
  <2>1. -1 \in -1 .. Max
    BY BoundsAssumption
  <2> QED
    BY <1>1, <2>1 DEF CellInv, CellTypes
<1>5. \A h : Linking(h)' = Linking(h)
  BY <1>1, <1>2 DEF Linking
<1>6. Counted'
  <2>1. \A h \in ready : key_num'[h] = key_num[h]
    BY <1>1, <1>3 DEF CellInv, CellTypes
  <2> QED
    BY <1>1, <1>2, <1>5, <2>1 DEF CellInv, Counted
<1>7. Unmixed'
  BY <1>1, <1>2 DEF CellInv, Unmixed, SameKey, OnePerKey, Same
<1>8. BuiltEmpty' /\ FilesFit'
  <2>1. \A id : key_num'[<<id, "built">>] = key_num[<<id, "built">>]
    BY <1>1, MakerAssumption DEF CellInv, CellTypes
  <2> QED
    BY <1>1, <2>1 DEF CellInv, BuiltEmpty, FilesFit, OnePerKey, Same
<1> QED
  BY <1>4, <1>6, <1>7, <1>8 DEF CellInv

\* hashtable_open: the hash table gets what the file has.
LEMMA LoadCells ==
  ASSUME IInv, PlaceInv, Makings, TableTypes, CellInv, NEW t \in Threads, GetLoad(t)
  PROVE  CellInv'
<1> PICK h, f : h = <<pos[t], t>> /\ f = file[pos[t]]
  OBVIOUS
<1>1. /\ pc[t] = "load" /\ pc' = [pc EXCEPT ![t] = "read"]
      /\ ready' = ready \/ ready' = ready \cup {h}
      /\ mem' = [mem EXCEPT ![h] = f.items]
      /\ key_num' = [key_num EXCEPT ![h] = Cardinality(f.items)]
      /\ UNCHANGED <<ht, item, file>>
  BY DEF GetLoad, Step, disk, putVars
<1>2. /\ DOMAIN pc = Threads /\ pos[t] \in Ids /\ h \in Tables
      /\ h \notin ready /\ \A id : <<id, "built">> # h
  <2>1. pos[t] \in Ids
    BY <1>1 DEF PlaceInv, GetTypes, Places, Opening, IdOrNone
  <2> QED
    BY <1>1, <2>1, MakerAssumption DEF IInv, Types, Makings, Tables, Makers
<1>3. /\ f.items \subseteq Items /\ IsFiniteSet(f.items) /\ OnePerKey(f.items)
      /\ Cardinality(f.items) <= Max /\ Cardinality(f.items) \in Nat
  <2>1. /\ f.items \subseteq Items /\ IsFiniteSet(f.items) /\ OnePerKey(f.items)
        /\ Cardinality(f.items) <= Max
    BY <1>2 DEF CellInv, CellTypes, FilesFit
  <2> QED
    BY <2>1, FS_CardinalityType
<1>4. /\ mem'[h] = f.items /\ key_num'[h] = Cardinality(f.items)
      /\ \A g \in Tables : g # h => mem'[g] = mem[g] /\ key_num'[g] = key_num[g]
      /\ DOMAIN mem' = Tables
  BY <1>1, <1>2 DEF CellInv, CellTypes
<1>5. CellTypes'
  <2>1. Cardinality(f.items) \in -1 .. Max
    BY <1>3, BoundsAssumption
  <2> QED
    BY <1>1, <1>2, <1>3, <2>1 DEF CellInv, CellTypes
<1>6. \A g : Linking(g)' = Linking(g)
  BY <1>1, <1>2 DEF Linking
<1>7. Linking(h) = {}
  BY <1>2 DEF Linking, CellInv, Counted
<1>8. Counted'
  <2>1. ASSUME NEW g \in ready'
        PROVE  /\ IsFiniteSet(mem'[g]) /\ IsFiniteSet(Linking(g)')
               /\ key_num'[g] = Cardinality(mem'[g]) + Cardinality(Linking(g)')
    <3>1. CASE g = h
      <4>1. IsFiniteSet({}) /\ Cardinality({}) = 0
        BY FS_EmptySet
      <4>2. Linking(g)' = {}
        BY <1>6, <1>7, <3>1
      <4>3. IsFiniteSet(Linking(g)') /\ Cardinality(Linking(g)') = 0
        BY <4>1, <4>2
      <4> QED
        BY <1>3, <1>4, <3>1, <4>3
    <3>2. CASE g # h
      <4>1. g \in ready /\ g \in Tables
        BY <1>1, <2>1, <3>2 DEF TableTypes
      <4> QED
        BY <1>4, <1>6, <3>2, <4>1 DEF CellInv, Counted
    <3> QED
      BY <3>1, <3>2
  <2>2. \A u \in Threads : pc'[u] = "link" => ht'[u] \in ready'
    BY <1>1, <1>2 DEF CellInv, Counted
  <2> QED
    BY <2>1, <2>2 DEF Counted
<1>9. Unmixed'
  <2>1. \A g \in Tables : OnePerKey(mem'[g])
    BY <1>3, <1>4 DEF CellInv, Unmixed, OnePerKey, Same
  <2>2. ASSUME NEW u \in Threads, pc'[u] = "link" PROVE SameKey(ht[u], item[u])' = {}
    <3>1. pc[u] = "link" /\ ht[u] \in ready /\ ht[u] \in Tables
      BY <1>1, <1>2, <2>2 DEF CellInv, Counted, TableTypes
    <3>2. mem'[ht[u]] = mem[ht[u]]
      BY <1>2, <1>4, <3>1
    <3> QED
      BY <1>1, <3>1, <3>2 DEF CellInv, Unmixed, SameKey
  <2> QED
    BY <1>1, <1>2, <2>1, <2>2 DEF CellInv, Unmixed, OnePerKey, Same, SameKey
<1>10. BuiltEmpty' /\ FilesFit'
  <2>1. \A id \in Ids : <<id, "built">> \in Tables
    BY DEF Tables, Makers
  <2> QED
    BY <1>1, <1>2, <1>4, <2>1 DEF CellInv, BuiltEmpty, FilesFit, OnePerKey, Same
<1> QED
  BY <1>5, <1>8, <1>9, <1>10 DEF CellInv

LEMMA CellsKept ==
  ASSUME IInv, PlaceInv, TableInv, HistoryInv, Makings, CellInv, [Next]_vars PROVE CellInv'
<1>0. DOMAIN pc = Threads /\ DOMAIN item = Threads /\ DOMAIN ht = Threads /\ TableTypes
  BY DEF IInv, Types, HistoryInv, HistoryTypes, TableInv, TableTypes
<1>1. ASSUME NEW t \in Threads,
             CreateOpen(t) \/ PutReserve(t) \/ PutLink(t) \/ PutReplace(t) \/ GetNew(t) \/ GetLoad(t)
      PROVE  CellInv'
  BY <1>0, <1>1, OpenCells, ReserveCells, LinkCells, ReplaceCells, NewCells, LoadCells
<1>2. ASSUME NEW t \in Threads,
             \/ \E x \in Items : PutCall(t, x)
             \/ PutStart(t) \/ PutStartCreate(t) \/ CreateAdd(t) \/ CreateWrite(t)
             \/ PutNotWriting(t) \/ PutWriting(t) \/ PutFull(t) \/ PutRejected(t)
             \/ RotateFirst(t) \/ RotateOther(t)
      PROVE  CellInv'
  <2>1. UNCHANGED <<ready, mem, key_num, file>>
    BY <1>2 DEF PutCall, PutStart, PutStartCreate, CreateAdd, CreateWrite, PutNotWriting, PutWriting,
       PutFull, PutRejected, RotateFirst, RotateOther, Step, content, disk
  <2>2. pc[t] # "link" /\ \E to \in {"start", "add", "open", "put", "reserve", "full", "idle"} :
                            pc' = [pc EXCEPT ![t] = to]
    BY <1>2 DEF PutCall, PutStart, PutStartCreate, CreateAdd, CreateWrite, PutNotWriting, PutWriting,
       PutFull, PutRejected, RotateFirst, RotateOther, Step
  <2>3. \A u \in Threads : u # t => ht'[u] = ht[u] /\ item'[u] = item[u]
    BY <1>0, <1>2 DEF PutCall, PutStart, PutStartCreate, CreateAdd, CreateWrite, PutNotWriting, PutWriting,
       PutFull, PutRejected, RotateFirst, RotateOther, Return, putVars
  <2> QED
    BY <1>0, <2>1, <2>2, <2>3, SameCells
<1>3. ASSUME NEW t \in Threads,
             \/ \E k \in Keys : GetCall(t, k)
             \/ GetCount(t) \/ GetHead(t) \/ GetUnopen(t) \/ GetSetRead(t) \/ GetNext(t)
             \/ GetFound(t) \/ GetNull(t)
      PROVE  CellInv'
  <2>1. UNCHANGED <<ready, mem, key_num, file, ht, item>>
    BY <1>3 DEF GetCall, GetCount, GetHead, GetUnopen, GetSetRead, GetNext, GetFound, GetNull, GetEnd,
       Step, content, disk, putVars
  <2>2. pc[t] # "link" /\ \E to \in GetSteps \cup {"idle"} : pc' = [pc EXCEPT ![t] = to]
    BY <1>3 DEF GetCall, GetCount, GetHead, GetUnopen, GetSetRead, GetNext, GetFound, GetNull, GetEnd,
       Step, Looking, GetSteps, Opening
  <2> QED
    BY <1>0, <2>1, <2>2, SameCells DEF GetSteps, Opening
<1>4. ASSUME NEW id \in Ids, JobHead(id) \/ JobData(id) PROVE CellInv'
  <2>1. /\ UNCHANGED <<ready, mem, key_num, pc, ht, item>>
        /\ file' \in {WriteHead(id), WriteData(id)}
    BY <1>4 DEF JobHead, JobData, content, putVars
  <2> QED
    BY <1>0, <2>1, FileCells
<1>5. CASE FlushHead \/ FlushData
  <2>1. /\ UNCHANGED <<ready, mem, key_num, pc, ht, item>>
        /\ file' \in {WriteHead(list[mpos]), WriteData(list[mpos])}
    BY <1>5 DEF FlushHead, FlushData, FlushStep, content, putVars
  <2> QED
    BY <1>0, <2>1, FileCells
<1>6. CASE \/ FlushManifest \/ FlushManifestWrite \/ FlushSkip \/ FlushDone \/ Close
           \/ Crash \/ UNCHANGED vars
  <2>1. UNCHANGED <<ready, mem, key_num, pc, ht, item, file>>
    BY <1>6 DEF FlushManifest, FlushManifestWrite, FlushSkip, FlushDone, FlushStep, Close, Crash,
       vars, content, putVars, disk
  <2> QED
    BY <2>1, SameCells
<1>7. CASE OpenNew \/ OpenManifest
  <2>1. Fresh /\ file' = file
    BY <1>7 DEF OpenNew, OpenManifest, disk
  <2>2. CellTypes'
    BY <2>1, BoundsAssumption DEF Fresh, CellInv, CellTypes
  <2>3. Counted' /\ BuiltEmpty'
    BY <2>1 DEF Fresh, Counted, BuiltEmpty, Tables, Makers
  <2>4. Unmixed'
    BY <2>1 DEF Fresh, Unmixed, OnePerKey
  <2>5. FilesFit'
    BY <2>1 DEF CellInv, FilesFit, OnePerKey, Same
  <2> QED
    BY <2>2, <2>3, <2>4, <2>5 DEF CellInv
<1> QED
  BY <1>1, <1>2, <1>3, <1>4, <1>5, <1>6, <1>7 DEF Next, PutStep, GetStep, FlushAndClose

-----------------------------------------------------------------------------
TypeInv ==
  /\ IInv /\ JobTypes /\ PlainTypes /\ Flags /\ IdsInv /\ EndInv
  /\ PlaceInv /\ TableInv /\ HistoryInv /\ Makings /\ CellInv

LEMMA InitTypes == Init => TypeInv
<1> SUFFICES ASSUME Init PROVE TypeInv
  OBVIOUS
<1>1. IInv /\ IdsInv /\ EndInv
  BY InitInv, InitIds DEF Init, EndInv, Ending, ClosedWhenDone
<1>2. JobTypes /\ PlainTypes
  BY BoundsAssumption DEF Init, JobTypes, PlainTypes
<1>3. Flags
  BY DEF Init, Flags
<1>4. PlaceInv /\ TableInv
  BY DEF Init, PlaceInv, GetTypes, Places, Opening, IdOrNone, TableInv, TableTypes, HasBuckets
<1>6. HistoryInv /\ Makings
  BY NullAssumption DEF Init, HistoryInv, HistoryTypes, HasItem, PutSteps, Makings
<1>5. CellInv
  <2>1. CellTypes
    BY BoundsAssumption DEF Init, CellTypes, NoFile
  <2>2. Counted /\ BuiltEmpty
    BY DEF Init, Counted, BuiltEmpty, Tables, Makers
  <2>3. Unmixed
    BY DEF Init, Unmixed, OnePerKey
  <2>4. FilesFit
    <3>1. \A id \in Ids : file[id].items = {}
      BY DEF Init, NoFile
    <3>2. IsFiniteSet({}) /\ Cardinality({}) <= Max
      BY FS_EmptySet, BoundsAssumption
    <3> QED
      BY <3>1, <3>2 DEF FilesFit, OnePerKey
  <2> QED
    BY <2>1, <2>2, <2>3, <2>4 DEF CellInv
<1> QED
  BY <1>1, <1>2, <1>3, <1>4, <1>5, <1>6 DEF TypeInv

LEMMA TypeStep == TypeInv /\ [Next]_vars => TypeInv'
<1> SUFFICES ASSUME TypeInv, [Next]_vars PROVE TypeInv'
  OBVIOUS
<1> USE DEF TypeInv
<1>1. IInv' /\ JobTypes' /\ IdsInv' /\ EndInv'
  BY StepInv, JobTyped, IdsStep, EndStep
<1>2. PlainTypes' /\ Flags'
  BY PlainTyped, FlagsTyped DEF IInv
<1>3. PlaceInv' /\ TableInv' /\ HistoryInv' /\ Makings'
  BY PlacesKept, TableTyped, HistoryKept, MakingsKept
<1>4. CellInv'
  BY CellsKept
<1> QED
  BY <1>1, <1>2, <1>3, <1>4

LEMMA TypeInvariance == Spec => []TypeInv
  BY InitTypes, TypeStep, PTL DEF Spec

\* Every variable keeps its type: in particular a counter is never above
\* htable->max (hashtable_put counts under the lock of a bucket what it links
\* later), no file has more items than max, and a get stands at a table of the
\* list or at none.
THEOREM TypesHold == Spec => []TypeOK
<1>1. TypeInv => TypeOK
  BY DEF TypeInv, IInv, Types, JobTypes, PlainTypes, Flags, PlaceInv, GetTypes, TableInv, TableTypes,
     HistoryInv, HistoryTypes, CellInv, CellTypes, TypeOK
<1> QED
  BY <1>1, TypeInvariance, PTL

-----------------------------------------------------------------------------
(****************************************************************************)
(* Proofs about what gets return and what the files keep, as long as no put *)
(* has run beside a get and no two gets have opened one table.              *)
(*                                                                          *)
(* Of the tables in the list three things are shown.  Who works with one:   *)
(* StructInv.  What they have: for each acknowledged item there is a table  *)
(* with its key, and neither this one nor a newer one has an item that the  *)
(* acknowledged one outdates: ItemsInv.  What a get has passed: Walks.  The *)
(* files follow them, when no put was late: Written.                        *)
(****************************************************************************)

\* No put has run beside a get and no two gets have opened one table.
Calm == ~overlap /\ ~twice

-----------------------------------------------------------------------------
(* Who works with which table *)

\* The tables of the list, except one that CreateAdd has put there and
\* CreateOpen has not emptied yet.
Listed == {list[n] : n \in 1 .. Len(list)}
Used   == {id \in Listed : \A t \in Threads : pc[t] = "open" => cur[t] # id}

PutPhase == {"put", "reserve", "link", "full"}

Apart == \A t, u \in Threads : ~(pc[t] \in PutSteps /\ pc[u] \in GetSteps)

\* A table that puts fill has the hash table that a put built.
BuiltTables ==
  \A id \in Ids :
    /\ status[id] \in {"WRITE", "FLUSH"} => htable[id] = "built"
    /\ job[id] # "none" => status[id] = "FLUSH"
    /\ status[id] # "UNOPEN" => id \in Used
    /\ <<id, "built">> \in ready <=> htable[id] = "built"
    /\ htable[id] = "built" =>
         /\ id \in Used
         /\ status[id] # "UNOPEN" \/ \E t \in Threads : pc[t] = "write" /\ cur[t] = id

Creations ==
  \A t \in Threads :
    /\ pc[t] = "open" => htable[cur[t]] = NULL /\ status[cur[t]] = "UNOPEN"
    /\ pc[t] = "write" => htable[cur[t]] = "built" /\ status[cur[t]] = "UNOPEN"

\* A put works with a table that is open, and goes on to a newer one only.
PutTables ==
  /\ \A t \in Threads :
       /\ pc[t] \in PutPhase => cur[t] \in Used /\ status[cur[t]] # "UNOPEN"
       /\ pc[t] \in {"reserve", "link", "full"} =>
            /\ ht[t] = <<cur[t], "built">> /\ htable[cur[t]] = "built"
            /\ writetable # NULL /\ cur[t] <= writetable
  /\ writetable # NULL => writetable \in Used /\ status[writetable] # "UNOPEN"
  /\ \A id \in Ids : status[id] = "WRITE" => writetable = id

\* A table is opened by one get, which nobody disturbs.
OpenTables ==
  \A t \in Threads :
    /\ pc[t] \in Opening =>
         /\ status[pos[t]] = "UNOPEN"
         /\ \A u \in Threads : pc[u] \in Opening /\ pos[u] = pos[t] => u = t
    /\ pc[t] \in {"load", "read"} => htable[pos[t]] = t
    /\ pc[t] = "look" => status[pos[t]] # "UNOPEN"

\* sstmanager_flush writes a table that is in WRITE.
FlushPlace ==
  /\ mpos >= 1
  /\ phase = "flush" /\ mstep = "data" => mpos <= Len(list) /\ status[list[mpos]] = "WRITE"

StructInv == Apart /\ BuiltTables /\ Creations /\ PutTables /\ OpenTables /\ FlushPlace

\* What a flush, and the close, find.
Ended == phase \in {"manifest", "flush", "close"} \/ (phase = "down" /\ clean) => Idle

LEMMA SameUsed ==
  ASSUME list' = list, \A t \in Threads : pc'[t] = "open" <=> pc[t] = "open",
         \A t \in Threads : pc[t] = "open" => cur'[t] = cur[t]
  PROVE  Used' = Used /\ Listed' = Listed
BY DEF Used, Listed

\* The head of the list is the newest table.
LEMMA HeadIsNewest ==
  ASSUME Types, IdsInv, list # <<>>
  PROVE  list[1] \in Listed /\ \A id \in Listed : id <= list[1] /\ id \in Ids /\ id < current_id
<1>1. Len(list) >= 1 /\ list \in Seq(Ids)
  BY DEF Types
<1>2. ASSUME NEW n \in 1 .. Len(list)
      PROVE  list[n] <= list[1] /\ list[n] \in Ids /\ list[n] < current_id
  <2>1. list[n] \in Ids /\ list[1] \in Ids
    BY <1>1
  <2>2. n = 1 \/ list[n] < list[1]
    BY <1>1 DEF IdsInv, ListInv, Decreasing
  <2> QED
    BY <2>1, <2>2 DEF Ids, IdsInv, ListInv
<1> QED
  BY <1>1, <1>2 DEF Listed

LEMMA UsedIds == ASSUME Types PROVE Used \subseteq Ids /\ Used \subseteq Listed /\ Listed \subseteq Ids
  BY DEF Types, Used, Listed

-----------------------------------------------------------------------------
(* Which items the tables have *)

\* What a get finds in a table, opening it or not, and that with what its file
\* still has.
Content(id) == IF status[id] = "UNOPEN" THEN file[id].items ELSE mem[<<id, htable[id]>>]
Held(id)    == Content(id) \cup file[id].items

\* The tables that the next start lists.
ToReopen ==
  IF manifest = NULL THEN {}
  ELSE {Reloaded(manifest.ids)[n] : n \in 1 .. Len(Reloaded(manifest.ids))}

NewEmpty ==
  \A t \in Threads : pc[t] = "write" =>
    file[cur[t]].items = {} /\ mem[<<cur[t], "built">>] = {}

\* What a get has opened is what the file has.
Loaded ==
  /\ \A t \in Threads : pc[t] = "read" => mem[<<pos[t], t>>] = file[pos[t]].items
  /\ \A id \in Used : status[id] # "UNOPEN" /\ htable[id] # "built" =>
       htable[id] # NULL /\ mem[<<id, htable[id]>>] = file[id].items

\* What tables have is acknowledged; an item being put is not, and no item is
\* known to be newer than it.
Acks ==
  /\ \A id \in Used : Held(id) \subseteq acked
  /\ \A t \in Threads : pc[t] \in PutSteps =>
       item[t] \notin acked /\ \A y \in Items : item[t] \notin older[y]
  /\ \A y \in Items : \A x \in older[y] : x # y /\ Same(x, y)

\* A newer table has nothing that an item of an older table outdates, nor that an
\* item on its way to an older table will.
Order ==
  /\ \A a, b \in Used : a > b => \A x \in Held(a), y \in Held(b) : x \notin older[y]
  /\ \A t \in Threads : pc[t] \in PutPhase =>
       \A a \in Used : a > cur[t] => \A x \in Held(a) : x \notin older[item[t]]

\* For each acknowledged item there is a table that has its key, and neither this
\* table nor a newer one has what the item outdates.
Present ==
  \A y \in acked : \E b \in Used :
    /\ \E z \in Content(b) : Same(z, y)
    /\ \A a \in Used : a >= b => \A x \in Content(a) : Same(x, y) => x \notin older[y]

\* A start lists tables that are in use now, and while the program runs these
\* are not the ones that puts fill.
Reopened ==
  /\ ToReopen \subseteq Used
  /\ phase = "up" => \A id \in ToReopen : htable[id] # "built"

ItemsInv == NewEmpty /\ Loaded /\ Acks /\ Order /\ Present /\ Reopened

\* A get has passed only tables without its key, and counts enough tables to
\* reach the end of the list.
Passed(t) ==
  \A a \in Listed : pos[t] = NULL \/ a > pos[t] => \A x \in Content(a) : KeyOf[x] # want[t]

Walk(t) ==
  /\ seen[t] \subseteq {x \in acked : KeyOf[x] = want[t]}
  /\ pc[t] = "head" => i[t] >= Len(list) - 1
  /\ pc[t] \notin {"get", "head"} =>
       /\ Passed(t)
       /\ \A n \in 1 .. Len(list) : list[n] = pos[t] => i[t] >= Len(list) - n

Walks == \A t \in Threads : pc[t] \in GetSteps => Walk(t)

Whole(id) == file[id].items # {} => file[id].num = Cardinality(file[id].items)

\* The head was written from the counter while, or before, puts were linking.
HeadFits(id) ==
  /\ Cardinality(mem[<<id, "built">>]) <= file[id].num
  /\ file[id].num <= key_num[<<id, "built">>]

\* The file of a table that puts filled is empty until its flush ends, then it has
\* the table's items; any other file is whole.
Filled(id) ==
  /\ status[id] # "READ" => file[id].items = {}
  /\ status[id] = "READ" => file[id].items = mem[<<id, "built">>] /\ HeadFits(id)
  /\ job[id] = "data" => HeadFits(id)
  /\ phase = "flush" /\ mstep = "data" /\ id = list[mpos] => HeadFits(id)

WrittenAt(id) == (htable[id] = "built" => Filled(id)) /\ (htable[id] # "built" => Whole(id))

Written == (\A id \in Used : WrittenAt(id)) /\ \A id \in ToReopen : Whole(id)

ManifestIsList ==
  phase \in {"flush", "close"} \/ (phase = "down" /\ clean) => manifest.ids = list

\* The list is not longer than sst_num says: only a start can make it shorter.
AllCounted == Len(list) <= sst_num

-----------------------------------------------------------------------------
(* The steps of a put, and who works with which table *)

\* The facts of TypeInv these proofs use.
LEMMA Facts ==
  ASSUME TypeInv
  PROVE  /\ Types /\ IInv /\ IdsInv /\ JobTypes /\ PlaceInv /\ TableInv /\ HistoryInv /\ Makings
         /\ CellInv /\ list \in Seq(Ids) /\ Len(list) \in Nat
         /\ DOMAIN pc = Threads /\ DOMAIN cur = Threads /\ DOMAIN ht = Threads
         /\ DOMAIN pos = Threads /\ DOMAIN item = Threads
         /\ DOMAIN status = Ids /\ DOMAIN htable = Ids /\ DOMAIN job = Ids
         /\ current_id \in Nat /\ mpos \in Nat
BY DEF TypeInv, IInv, Types, JobTypes, PlainTypes, PlaceInv, GetTypes, TableInv, TableTypes, HistoryInv,
   HistoryTypes

LEMMA ApartKept ==
  ASSUME TypeInv, Apart, Calm', [Next]_vars PROVE Apart'
<1> USE Facts DEF Apart
<1>1. ASSUME NEW t \in Threads, NEW x \in Items, PutCall(t, x) PROVE Apart'
  <2>1. /\ pc' = [pc EXCEPT ![t] = "start"]
        /\ \A u \in Threads : pc[u] \notin GetSteps
    BY <1>1 DEF PutCall, Step, Calm
  <2> QED
    BY <2>1 DEF GetSteps, Opening
<1>2. ASSUME NEW t \in Threads, NEW k \in Keys, GetCall(t, k) PROVE Apart'
  <2>1. /\ pc' = [pc EXCEPT ![t] = "get"]
        /\ \A u \in Threads : pc[u] \notin PutSteps
    BY <1>2 DEF GetCall, Step, Calm
  <2> QED
    BY <2>1 DEF PutSteps
<1>3. ASSUME NEW t \in Threads, PutStep(t) PROVE Apart'
  <2>1. \E to \in PutSteps \cup {"idle"} : pc' = [pc EXCEPT ![t] = to] /\ pc[t] \in PutSteps
    BY <1>3 DEF PutStep, PutStart, PutStartCreate, CreateAdd, CreateOpen, CreateWrite, PutNotWriting,
       PutWriting, PutReplace, PutReserve, PutLink, PutFull, PutRejected, RotateFirst, RotateOther,
       Step, PutSteps
  <2> QED
    BY <2>1 DEF PutSteps, GetSteps, Opening
<1>4. ASSUME NEW t \in Threads, GetStep(t) PROVE Apart'
  <2>1. \E to \in GetSteps \cup {"idle"} : pc' = [pc EXCEPT ![t] = to] /\ pc[t] \in GetSteps
    BY <1>4 DEF GetStep, GetCount, GetHead, GetUnopen, GetNew, GetLoad, GetSetRead, GetNext,
       GetFound, GetNull, GetEnd, Step, Looking, GetSteps, Opening
  <2> QED
    BY <2>1 DEF PutSteps, GetSteps, Opening
<1>5. CASE \/ \E id \in Ids : JobHead(id) \/ JobData(id)
           \/ FlushAndClose \/ Crash \/ UNCHANGED vars
  BY <1>5 DEF JobHead, JobData, FlushAndClose, FlushManifest, FlushManifestWrite, FlushHead,
     FlushData, FlushSkip, FlushDone, FlushStep, Close, Crash, vars
<1>6. CASE OpenNew \/ OpenManifest
  BY <1>6 DEF OpenNew, OpenManifest, Fresh, PutSteps
<1> QED
  BY <1>1, <1>2, <1>3, <1>4, <1>5, <1>6 DEF Next

\* A flush position does not change while callers run.
LEMMA CallersFlushPlace ==
  ASSUME FlushPlace, NEW t \in Threads, CallerStep(t) PROVE FlushPlace'
BY CallersRun DEF main, FlushPlace

LEMMA AddStruct ==
  ASSUME TypeInv, StructInv, Apart', NEW t \in Threads, CreateAdd(t)
  PROVE  StructInv' /\ Used' = Used
<1> USE Facts
<1>1. /\ pc[t] = "add" /\ pc' = [pc EXCEPT ![t] = "open"]
      /\ list' = <<current_id>> \o list
      /\ status' = [status EXCEPT ![current_id] = "UNOPEN"]
      /\ htable' = [htable EXCEPT ![current_id] = NULL]
      /\ cur' = [cur EXCEPT ![t] = current_id]
      /\ UNCHANGED <<writetable, ready, job, ht, pos>>
      /\ current_id \in Ids
  BY BoundsAssumption DEF CreateAdd, Step, content, getVars, Ids
<1>2. current_id \notin Listed /\ Used \subseteq Listed /\ Listed \subseteq Ids
  BY UsedIds DEF IdsInv, ListInv, Listed, Types
<1>3. Listed' = Listed \cup {current_id}
  <2>1. Len(list') = Len(list) + 1 /\ list'[1] = current_id
        /\ \A n \in 1 .. Len(list) : list'[n + 1] = list[n]
    BY <1>1
  <2>2. \A n \in 1 .. Len(list') : n = 1 \/ \E m \in 1 .. Len(list) : n = m + 1
    <3> TAKE n \in 1 .. Len(list')
    <3>1. n = 1 \/ (n - 1 \in 1 .. Len(list) /\ n = (n - 1) + 1)
      BY <2>1
    <3> QED
      BY <3>1
  <2>3. 1 \in 1 .. Len(list') /\ \A m \in 1 .. Len(list) : m + 1 \in 1 .. Len(list')
    BY <2>1
  <2>4. ASSUME NEW id \in Listed' PROVE id \in Listed \cup {current_id}
    <3>1. PICK n \in 1 .. Len(list') : id = list'[n]
      BY <2>4 DEF Listed
    <3>2. CASE n = 1
      BY <2>1, <3>1, <3>2
    <3>3. CASE n # 1
      <4>1. PICK m \in 1 .. Len(list) : n = m + 1
        BY <2>2, <3>3
      <4>2. id = list[m]
        BY <2>1, <3>1, <4>1
      <4> QED
        BY <4>2 DEF Listed
    <3> QED
      BY <3>2, <3>3
  <2>5. ASSUME NEW id \in Listed PROVE id \in Listed'
    <3>1. PICK m \in 1 .. Len(list) : id = list[m]
      BY <2>5 DEF Listed
    <3>2. m + 1 \in 1 .. Len(list') /\ list'[m + 1] = id
      BY <2>1, <2>3, <3>1
    <3> QED
      BY <3>2 DEF Listed
  <2>6. current_id \in Listed'
    BY <2>1, <2>3 DEF Listed
  <2> QED
    BY <2>4, <2>5, <2>6
<1>4. Used' = Used
  <2>1. \A u \in Threads : pc[u] # "open"
    BY <1>1, StepTables
  <2> QED
    BY <1>1, <1>2, <1>3, <2>1 DEF Used
<1>5. /\ status[current_id] = "UNOPEN" /\ htable[current_id] # "built"
      /\ job[current_id] = "none" /\ <<current_id, "built">> \notin ready
  BY <1>1, <1>2 DEF StructInv, BuiltTables
<1>6. BuiltTables'
  <2>1. \A id \in Ids : id # current_id => status'[id] = status[id] /\ htable'[id] = htable[id]
    BY <1>1
  <2>2. \A u \in Threads : pc[u] = "write" => pc'[u] = "write" /\ cur'[u] = cur[u]
    BY <1>1
  <2>3. status'[current_id] = "UNOPEN" /\ htable'[current_id] = NULL
    BY <1>1
  <2>4. BuiltTables
    BY DEF StructInv
  <2> HIDE Facts
  <2>5. ASSUME NEW id \in Ids, id # current_id
        PROVE  /\ status'[id] \in {"WRITE", "FLUSH"} => htable'[id] = "built"
               /\ job'[id] # "none" => status'[id] = "FLUSH"
               /\ status'[id] # "UNOPEN" => id \in Used'
               /\ <<id, "built">> \in ready' <=> htable'[id] = "built"
               /\ htable'[id] = "built" =>
                    /\ id \in Used'
                    /\ status'[id] # "UNOPEN" \/ \E u \in Threads : pc'[u] = "write" /\ cur'[u] = id
    BY <1>1, <1>4, <2>1, <2>2, <2>4, <2>5 DEF BuiltTables
  <2>6. /\ NULL # "built" /\ job'[current_id] = "none" /\ <<current_id, "built">> \notin ready'
    BY <1>1, <1>5, MakerAssumption
  <2> QED
    BY <2>3, <2>5, <2>6 DEF BuiltTables
<1>7. Creations'
  <2>1. \A u \in Threads : u # t => pc'[u] \notin {"open", "write"}
    BY <1>1, StepTables
  <2> QED
    BY <1>1, <2>1 DEF Creations
<1>8. PutTables'
  <2>1. \A u \in Threads : pc'[u] \in PutPhase => u # t /\ pc'[u] = pc[u] /\ cur'[u] = cur[u] /\ cur[u] # current_id
    BY <1>1, <1>2 DEF StructInv, PutTables, PutPhase
  <2>2. writetable # current_id
    BY <1>2, <1>1, NullAssumption DEF StructInv, PutTables, Ids
  <2>3. \A id \in Ids : id # current_id => status'[id] = status[id] /\ htable'[id] = htable[id]
    BY <1>1
  <2>4. \A u \in Threads : pc[u] \in PutPhase => cur[u] \in Ids
    BY UsedIds DEF StructInv, PutTables
  <2> QED
    BY <1>1, <1>2, <1>4, <2>1, <2>2, <2>3, <2>4 DEF StructInv, PutTables, PutPhase
<1>9. OpenTables'
  <2>1. \A u \in Threads : pc'[u] \notin GetSteps
    BY <1>1 DEF Apart, PutSteps
  <2> QED
    BY <2>1 DEF OpenTables, GetSteps, Opening
<1> QED
  BY <1>4, <1>6, <1>7, <1>8, <1>9, CallersFlushPlace DEF StructInv, CallerStep, PutStep

LEMMA OpenStruct ==
  ASSUME TypeInv, StructInv, Apart', NEW t \in Threads, CreateOpen(t)
  PROVE  StructInv' /\ Used' = Used \cup {cur[t]} /\ cur[t] \notin Used
<1> USE Facts
<1>1. /\ pc[t] = "open" /\ pc' = [pc EXCEPT ![t] = "write"]
      /\ htable' = [htable EXCEPT ![cur[t]] = "built"]
      /\ ready' = ready \cup {<<cur[t], "built">>}
      /\ UNCHANGED <<list, status, writetable, job, ht, pos, cur>>
  BY DEF CreateOpen, putVars, getVars
<1>2. /\ cur[t] \in Ids /\ cur[t] \in Listed
      /\ \A u \in Threads : pc[u] \in {"open", "write"} => u = t
      /\ htable[cur[t]] = NULL /\ status[cur[t]] = "UNOPEN"
  BY <1>1, StepTables, HeadIsNewest DEF IInv, CreatesHead, HeadIsNew, StructInv, Creations, Creating
<1>3. Used' = Used \cup {cur[t]} /\ cur[t] \notin Used
  BY <1>1, <1>2 DEF Used, Listed
<1>4. BuiltTables'
  <2>1. \A id \in Ids : id # cur[t] => htable'[id] = htable[id]
    BY <1>1
  <2>2. htable'[cur[t]] = "built" /\ pc'[t] = "write" /\ cur'[t] = cur[t]
    BY <1>1, <1>2
  <2>3. \A u \in Threads : pc[u] # "write"
    BY <1>1, <1>2
  <2>4. job'[cur[t]] = "none"
    BY <1>1, <1>2 DEF StructInv, BuiltTables, JobTypes
  <2>5. BuiltTables
    BY DEF StructInv
  <2> HIDE Facts
  <2>6. ASSUME NEW id \in Ids, id # cur[t]
        PROVE  /\ status'[id] \in {"WRITE", "FLUSH"} => htable'[id] = "built"
               /\ job'[id] # "none" => status'[id] = "FLUSH"
               /\ status'[id] # "UNOPEN" => id \in Used'
               /\ <<id, "built">> \in ready' <=> htable'[id] = "built"
               /\ htable'[id] = "built" => id \in Used' /\ status'[id] # "UNOPEN"
    BY <1>1, <1>3, <2>1, <2>3, <2>5, <2>6 DEF BuiltTables
  <2>7. <<cur[t], "built">> \in ready' /\ cur[t] \in Used' /\ status'[cur[t]] = "UNOPEN"
    BY <1>1, <1>2, <1>3
  <2> QED
    BY <2>2, <2>4, <2>6, <2>7 DEF BuiltTables
<1>5. Creations'
  BY <1>1, <1>2 DEF Creations
<1>6. PutTables'
  <2>1. \A u \in Threads : pc'[u] \in PutPhase => pc[u] = pc'[u] /\ cur[u] \in Used /\ cur[u] # cur[t]
    BY <1>1, <1>2, <1>3 DEF StructInv, PutTables, PutPhase
  <2>2. \A id \in Ids : id # cur[t] => htable'[id] = htable[id]
    BY <1>1
  <2>3. Used \subseteq Ids
    BY UsedIds
  <2> QED
    BY <1>1, <1>3, <2>1, <2>2, <2>3 DEF StructInv, PutTables, PutPhase
<1>7. OpenTables'
  <2>1. \A u \in Threads : pc'[u] \notin GetSteps
    BY <1>1 DEF Apart, PutSteps
  <2> QED
    BY <2>1 DEF OpenTables, GetSteps, Opening
<1> QED
  BY <1>3, <1>4, <1>5, <1>6, <1>7, CallersFlushPlace DEF StructInv, CallerStep, PutStep

LEMMA WriteStruct ==
  ASSUME TypeInv, StructInv, Apart', NEW t \in Threads, CreateWrite(t)
  PROVE  StructInv' /\ Used' = Used
<1> USE Facts
<1>1. /\ pc[t] = "write" /\ pc' = [pc EXCEPT ![t] = "put"]
      /\ status' = [status EXCEPT ![cur[t]] = "WRITE"]
      /\ writetable' = list[1]
      /\ cur' = [cur EXCEPT ![t] = list[1]]
      /\ UNCHANGED <<list, htable, ready, job, ht, pos>>
  BY DEF CreateWrite, Step, content, getVars
<1>2. /\ cur[t] \in Ids /\ cur[t] = list[1] /\ cur[t] \in Used
      /\ \A u \in Threads : pc[u] \in {"open", "write"} => u = t
      /\ htable[cur[t]] = "built" /\ status[cur[t]] = "UNOPEN"
  <2>1. htable[cur[t]] = "built" /\ status[cur[t]] = "UNOPEN" /\ cur[t] \in Ids
    BY <1>1, StepTables DEF StructInv, Creations
  <2>2. cur[t] = list[1]
    BY <1>1 DEF IInv, CreatesHead
  <2>3. cur[t] \in Used
    BY <2>1 DEF StructInv, BuiltTables
  <2>4. \A u \in Threads : pc[u] \in {"open", "write"} => u = t
    BY <1>1, StepTables DEF Creating
  <2> QED
    BY <2>1, <2>2, <2>3, <2>4
<1>3. Used' = Used
  BY <1>1, <1>2, SameUsed
<1>4. BuiltTables'
  <2>1. \A id \in Ids : id # cur[t] => status'[id] = status[id]
    BY <1>1
  <2>2. status'[cur[t]] = "WRITE"
    BY <1>1, <1>2
  <2>3. \A u \in Threads : pc[u] = "write" => cur[u] = cur[t]
    BY <1>2
  <2>4. job'[cur[t]] = "none"
    BY <1>1, <1>2 DEF StructInv, BuiltTables
  <2>5. BuiltTables
    BY DEF StructInv
  <2> HIDE Facts
  <2>6. ASSUME NEW id \in Ids, id # cur[t]
        PROVE  /\ status'[id] \in {"WRITE", "FLUSH"} => htable'[id] = "built"
               /\ job'[id] # "none" => status'[id] = "FLUSH"
               /\ status'[id] # "UNOPEN" => id \in Used'
               /\ <<id, "built">> \in ready' <=> htable'[id] = "built"
               /\ htable'[id] = "built" => id \in Used' /\ status'[id] # "UNOPEN"
    BY <1>1, <1>3, <2>1, <2>3, <2>5, <2>6 DEF BuiltTables
  <2>7. <<cur[t], "built">> \in ready' /\ cur[t] \in Used' /\ htable'[cur[t]] = "built"
    BY <1>1, <1>2, <1>3, <2>5 DEF BuiltTables
  <2> QED
    BY <2>2, <2>4, <2>6, <2>7 DEF BuiltTables
<1>5. Creations'
  BY <1>1, <1>2 DEF Creations
<1>6. PutTables'
  <2>1. \A id \in Ids : id # cur[t] => status'[id] = status[id] /\ status[id] # "WRITE"
    BY <1>1 DEF IInv, CreatorIsAlone, Creating, NoneWrites
  <2>2. status'[cur[t]] = "WRITE" /\ writetable' = cur[t]
    BY <1>1, <1>2
  <2>3. \A id \in Used : id \in Ids /\ id <= cur[t]
    <3>1. list # <<>>
      BY <1>1 DEF IInv, CreatesHead, HeadIsNew
    <3> QED
      BY <1>2, <3>1, HeadIsNewest, UsedIds
  <2>4. \A u \in Threads : pc'[u] \in PutPhase => u = t \/ (pc[u] = pc'[u] /\ cur'[u] = cur[u])
    BY <1>1
  <2>5. cur'[t] = cur[t] /\ pc'[t] = "put"
    BY <1>1, <1>2
  <2>6. cur[t] # NULL
    BY <1>2, NullAssumption DEF Ids
  <2> HIDE Facts
  <2>7. ASSUME NEW u \in Threads, pc'[u] \in PutPhase
        PROVE  /\ cur'[u] \in Used' /\ status'[cur'[u]] # "UNOPEN"
               /\ pc'[u] # "put" =>
                    /\ ht'[u] = <<cur'[u], "built">> /\ htable'[cur'[u]] = "built"
                    /\ writetable' # NULL /\ cur'[u] <= writetable'
    <3>1. CASE u = t
      BY <1>2, <1>3, <2>2, <2>5, <3>1
    <3>2. CASE u # t
      <4>1. /\ pc[u] = pc'[u] /\ cur'[u] = cur[u] /\ cur[u] \in Used /\ status[cur[u]] # "UNOPEN"
            /\ cur[u] # cur[t]
        BY <1>2, <2>4, <2>7, <3>2 DEF StructInv, PutTables
      <4> QED
        BY <1>1, <1>3, <2>1, <2>2, <2>3, <2>6, <2>7, <4>1 DEF StructInv, PutTables, PutPhase
    <3> QED
      BY <3>1, <3>2
  <2> QED
    BY <1>2, <1>3, <2>1, <2>2, <2>7 DEF PutTables, PutPhase
<1>7. OpenTables'
  <2>1. \A u \in Threads : pc'[u] \notin GetSteps
    BY <1>1 DEF Apart, PutSteps
  <2> QED
    BY <2>1 DEF OpenTables, GetSteps, Opening
<1> QED
  BY <1>3, <1>4, <1>5, <1>6, <1>7, CallersFlushPlace DEF StructInv, CallerStep, PutStep

LEMMA RotateStruct ==
  ASSUME TypeInv, StructInv, Apart', NEW t \in Threads, RotateFirst(t)
  PROVE  StructInv' /\ Used' = Used
<1> USE Facts
<1>1. /\ pc[t] = "full" /\ pc' = [pc EXCEPT ![t] = "add"]
      /\ status[cur[t]] = "WRITE"
      /\ status' = [status EXCEPT ![cur[t]] = "FLUSH"]
      /\ job' = [job EXCEPT ![cur[t]] = "queued"]
      /\ UNCHANGED <<list, htable, ready, writetable, cur, ht, pos>>
  BY DEF RotateFirst, Step, content, getVars
<1>2. cur[t] \in Used /\ cur[t] \in Ids
  BY <1>1, UsedIds DEF StructInv, PutTables, PutPhase
<1>3. Used' = Used
  BY <1>1, SameUsed
<1>4. /\ \A id \in Ids : id # cur[t] => status'[id] = status[id] /\ job'[id] = job[id]
      /\ status'[cur[t]] = "FLUSH" /\ job'[cur[t]] = "queued"
  BY <1>1, <1>2
<1>5. \A u \in Threads : pc[u] = "write" => pc'[u] = "write"
  BY <1>1
<1>6. BuiltTables'
  <2>1. BuiltTables
    BY DEF StructInv
  <2> HIDE Facts
  <2>2. ASSUME NEW id \in Ids, id # cur[t]
        PROVE  /\ status'[id] \in {"WRITE", "FLUSH"} => htable'[id] = "built"
               /\ job'[id] # "none" => status'[id] = "FLUSH"
               /\ status'[id] # "UNOPEN" => id \in Used'
               /\ <<id, "built">> \in ready' <=> htable'[id] = "built"
               /\ htable'[id] = "built" =>
                    /\ id \in Used'
                    /\ status'[id] # "UNOPEN" \/ \E u \in Threads : pc'[u] = "write" /\ cur'[u] = id
    BY <1>1, <1>3, <1>4, <1>5, <2>1, <2>2 DEF BuiltTables
  <2>3. htable[cur[t]] = "built" /\ <<cur[t], "built">> \in ready
    BY <1>1, <1>2, <2>1 DEF BuiltTables
  <2> QED
    BY <1>1, <1>2, <1>3, <1>4, <2>2, <2>3 DEF BuiltTables
<1>7. Creations'
  <2>1. \A u \in Threads : pc'[u] \in {"open", "write"} => pc[u] = pc'[u] /\ cur[u] \in Ids
    BY <1>1, StepTables
  <2> QED
    BY <1>1, <1>4, <2>1 DEF StructInv, Creations
<1>8. PutTables'
  <2>1. \A u \in Threads : pc'[u] \in PutPhase => pc[u] = pc'[u]
    BY <1>1 DEF PutPhase
  <2>2. Used \subseteq Ids
    BY UsedIds
  <2> HIDE Facts
  <2> QED
    BY <1>1, <1>3, <1>4, <2>1, <2>2 DEF StructInv, PutTables, PutPhase
<1>9. OpenTables'
  <2>1. \A u \in Threads : pc'[u] \notin GetSteps
    BY <1>1 DEF Apart, PutSteps
  <2> QED
    BY <2>1 DEF OpenTables, GetSteps, Opening
<1> QED
  BY <1>3, <1>6, <1>7, <1>8, <1>9, CallersFlushPlace DEF StructInv, CallerStep, PutStep

\* The other steps of a put leave the tables alone.
LEMMA PutStruct ==
  ASSUME TypeInv, StructInv, Apart', NEW t \in Threads,
         \/ \E x \in Items : PutCall(t, x)
         \/ PutStart(t) \/ PutStartCreate(t) \/ PutNotWriting(t) \/ PutWriting(t) \/ PutReplace(t)
         \/ PutReserve(t) \/ PutLink(t) \/ PutFull(t) \/ PutRejected(t) \/ RotateOther(t)
  PROVE  StructInv' /\ Used' = Used
<1> USE Facts
<1>1. UNCHANGED <<list, htable, ready, status, job, writetable, pos>>
  BY DEF PutCall, PutStart, PutStartCreate, PutNotWriting, PutWriting, PutReplace, PutReserve, PutLink,
     PutFull, PutRejected, RotateOther, store, content, getVars
<1>2. /\ pc[t] \in {"idle", "start", "put", "reserve", "link", "full"}
      /\ \E to \in {"idle", "start", "add", "put", "reserve", "link", "full"} :
           pc' = [pc EXCEPT ![t] = to]
  BY DEF PutCall, PutStart, PutStartCreate, PutNotWriting, PutWriting, PutReplace, PutReserve, PutLink,
     PutFull, PutRejected, RotateOther, Step
<1>3. \A u \in Threads : u # t => pc'[u] = pc[u] /\ cur'[u] = cur[u] /\ ht'[u] = ht[u]
  BY <1>2 DEF PutCall, PutStart, PutStartCreate, PutNotWriting, PutWriting, PutReplace, PutReserve,
     PutLink, PutFull, PutRejected, RotateOther, Return, putVars
<1>4. Used' = Used
  BY <1>1, <1>2, <1>3, SameUsed
<1>5. BuiltTables' /\ Creations'
  <2>1. \A u \in Threads : pc[u] = "write" \/ pc'[u] \in {"open", "write"} =>
          pc[u] = pc'[u] /\ cur[u] = cur'[u]
    BY <1>2, <1>3
  <2> HIDE Facts
  <2> QED
    BY <1>1, <1>4, <2>1 DEF StructInv, BuiltTables, Creations
<1>6. PutTables'
  <2>1. pc'[t] \in PutPhase => cur'[t] \in Used /\ status[cur'[t]] # "UNOPEN"
    <3>1. CASE PutStart(t)
      <4>1. /\ cur'[t] = list[1] /\ lock = NULL /\ ~NeedsTable
        BY <3>1 DEF PutStart
      <4>2. list # <<>> /\ status[list[1]] # "UNOPEN" /\ list[1] \in Ids
        BY <4>1, NullAssumption DEF NeedsTable, Newest, Ids
      <4> QED
        BY <4>1, <4>2 DEF StructInv, BuiltTables
    <3>2. CASE RotateOther(t)
      <4>1. /\ cur'[t] = writetable /\ pc[t] = "full"
        BY <3>2 DEF RotateOther, Step
      <4> QED
        BY <4>1 DEF StructInv, PutTables
    <3>3. CASE PutWriting(t) \/ PutReserve(t) \/ PutFull(t)
      <4>1. cur' = cur /\ pc[t] \in PutPhase
        BY <3>3 DEF PutWriting, PutReserve, PutFull, Step, putVars, PutPhase
      <4> QED
        BY <4>1 DEF StructInv, PutTables
    <3>4. CASE (\E x \in Items : PutCall(t, x)) \/ PutStartCreate(t) \/ PutNotWriting(t)
               \/ PutReplace(t) \/ PutLink(t) \/ PutRejected(t)
      <4>1. pc'[t] \in {"start", "add", "idle"}
        BY <3>4 DEF PutCall, PutStartCreate, PutNotWriting, PutReplace, PutLink, PutRejected, Step
      <4> QED
        BY <4>1 DEF PutPhase
    <3> QED
      BY <3>1, <3>2, <3>3, <3>4
  <2>2. pc'[t] \in {"reserve", "link", "full"} =>
          /\ ht'[t] = <<cur'[t], "built">> /\ htable[cur'[t]] = "built"
          /\ writetable # NULL /\ cur'[t] <= writetable
    <3>1. CASE PutWriting(t)
      <4>1. /\ ht'[t] = <<cur[t], htable[cur[t]]>> /\ cur' = cur /\ status[cur[t]] = "WRITE"
            /\ cur[t] \in Used
        BY <3>1 DEF PutWriting, Step, StructInv, PutTables, PutPhase
      <4>2. htable[cur[t]] = "built" /\ writetable = cur[t] /\ cur[t] \in Ids
        BY <4>1, UsedIds DEF StructInv, BuiltTables, PutTables
      <4> QED
        BY <4>1, <4>2, NullAssumption DEF Ids
    <3>2. CASE PutReserve(t) \/ PutFull(t)
      <4>1. cur' = cur /\ ht' = ht /\ pc[t] = "reserve"
        BY <3>2 DEF PutReserve, PutFull, Step, putVars
      <4> QED
        BY <4>1 DEF StructInv, PutTables
    <3>3. CASE ~(PutWriting(t) \/ PutReserve(t) \/ PutFull(t))
      <4>1. pc'[t] \in {"start", "add", "put", "idle"}
        BY <3>3 DEF PutCall, PutStart, PutStartCreate, PutNotWriting, PutReplace, PutLink, PutRejected,
           RotateOther, Step
      <4> QED
        BY <4>1
    <3> QED
      BY <3>1, <3>2, <3>3
  <2> HIDE Facts
  <2> QED
    BY <1>1, <1>3, <1>4, <2>1, <2>2 DEF StructInv, PutTables
<1>7. OpenTables'
  <2>1. \A u \in Threads : pc'[u] \in Opening \cup {"look"} => pc'[u] = pc[u]
    BY <1>2, <1>3 DEF Opening
  <2> HIDE Facts
  <2> QED
    BY <1>1, <2>1 DEF StructInv, OpenTables, Opening
<1> QED
  BY <1>4, <1>5, <1>6, <1>7, CallersFlushPlace DEF StructInv, CallerStep, PutStep

-----------------------------------------------------------------------------
(* The other steps, and who works with which table *)

\* While there are gets, no table is being created.
LEMMA GetsAlone ==
  ASSUME Apart, NEW t \in Threads, pc[t] \in GetSteps
  PROVE  (\A u \in Threads : pc[u] \notin PutSteps) /\ Used = Listed
<1>1. \A u \in Threads : pc[u] \notin PutSteps
  BY DEF Apart
<1> QED
  BY <1>1 DEF Used, PutSteps

LEMMA GetStruct ==
  ASSUME TypeInv, StructInv, Apart', NEW t \in Threads,
         \/ \E k \in Keys : GetCall(t, k)
         \/ GetCount(t) \/ GetHead(t) \/ GetNext(t) \/ GetFound(t) \/ GetNull(t)
  PROVE  StructInv' /\ Used' = Used
<1> USE Facts
<1>1. UNCHANGED <<list, htable, ready, status, job, writetable, cur, ht>>
  BY DEF GetCall, GetCount, GetHead, GetNext, GetFound, GetNull, GetEnd, store, content, putVars
<1>2. /\ pc[t] \in GetSteps \cup {"idle"}
      /\ \E to \in {"get", "head", "visit", "idle"} : pc' = [pc EXCEPT ![t] = to]
  BY DEF GetCall, GetCount, GetHead, GetNext, GetFound, GetNull, GetEnd, Looking, Step, GetSteps, Opening
<1>3. \A u \in Threads : u # t => pc'[u] = pc[u] /\ pos'[u] = pos[u]
  BY <1>2 DEF GetCall, GetCount, GetHead, GetNext, GetFound, GetNull, GetEnd, getVars
<1>4. Used' = Used
  BY <1>1, <1>2, <1>3, SameUsed DEF GetSteps, Opening
<1>5. \A u \in Threads : pc'[u] \in PutSteps \/ pc[u] \in PutSteps => pc'[u] = pc[u]
  BY <1>2, <1>3 DEF PutSteps, GetSteps, Opening
<1>6. BuiltTables' /\ Creations' /\ PutTables'
  <2>0. \A u \in Threads : pc[u] = "write" => pc'[u] = "write"
    BY <1>5 DEF PutSteps
  <2> HIDE Facts
  <2>1. BuiltTables'
    BY <1>1, <1>4, <2>0 DEF StructInv, BuiltTables
  <2>2. Creations' /\ PutTables'
    BY <1>1, <1>4, <1>5 DEF StructInv, Creations, PutTables, PutSteps, PutPhase
  <2> QED
    BY <2>1, <2>2
<1>7. OpenTables'
  <2>1. \A u \in Threads : pc'[u] \in Opening \cup {"look"} => u # t
    BY <1>2 DEF Opening
  <2> HIDE Facts
  <2> QED
    BY <1>1, <1>3, <2>1 DEF StructInv, OpenTables, Opening
<1> QED
  BY <1>4, <1>6, <1>7, CallersFlushPlace DEF StructInv, CallerStep, GetStep

\* While a table is opened no put is running, and the table is in the list.
LEMMA OpenerFacts ==
  ASSUME TypeInv, StructInv, NEW t \in Threads, pc[t] \in Opening \/ (pc[t] = "visit" /\ pos[t] # NULL)
  PROVE  /\ pos[t] \in Ids /\ pos[t] \in Used
         /\ \A u \in Threads : pc[u] \notin PutSteps
<1> USE Facts
<1>1. (\A u \in Threads : pc[u] \notin PutSteps) /\ Used = Listed
  BY GetsAlone DEF StructInv, GetSteps, Opening
<1>2. pos[t] # NULL
  BY DEF PlaceInv, Places
<1>3. pos[t] \in Listed
  BY <1>2 DEF PlaceInv, Places, Listed
<1> QED
  BY <1>1, <1>3, UsedIds

LEMMA OpenerStruct ==
  ASSUME TypeInv, StructInv, Apart', Calm', NEW t \in Threads,
         GetUnopen(t) \/ GetNew(t) \/ GetLoad(t) \/ GetSetRead(t)
  PROVE  StructInv' /\ Used' = Used
<1> USE Facts
<1>1. UNCHANGED <<list, job, writetable, cur, ht, pos>>
  BY DEF GetUnopen, GetNew, GetLoad, GetSetRead, store, putVars, getVars
<1>2. /\ pc[t] \in Opening \/ (pc[t] = "visit" /\ pos[t] # NULL)
      /\ \E to \in {"open_get", "load", "read", "look"} : pc' = [pc EXCEPT ![t] = to]
  BY DEF GetUnopen, GetNew, GetLoad, GetSetRead, Visiting, Step, Opening
<1>3. /\ pos[t] \in Ids /\ pos[t] \in Used
      /\ \A u \in Threads : pc[u] \notin PutSteps
  BY <1>2, OpenerFacts
<1>4. /\ Used' = Used
      /\ \A u \in Threads : pc'[u] \notin PutSteps
  BY <1>1, <1>2, <1>3, SameUsed DEF PutSteps
<1>5. Creations'
  BY <1>4 DEF Creations, PutSteps
<1>6. CASE GetUnopen(t)
  <2>1. /\ UNCHANGED <<status, htable, ready>> /\ pc' = [pc EXCEPT ![t] = "open_get"]
        /\ status[pos[t]] = "UNOPEN"
        /\ \A u \in Threads : ~(pc[u] \in Opening /\ pos[u] = pos[t])
    BY <1>6 DEF GetUnopen, Step, store, content, Calm
  <2> HIDE Facts
  <2>2. BuiltTables' /\ PutTables'
    BY <1>1, <1>3, <1>4, <2>1 DEF StructInv, BuiltTables, PutTables, PutSteps, PutPhase
  <2>3. OpenTables'
    BY <1>1, <2>1, Facts DEF StructInv, OpenTables, Opening
  <2> QED
    BY <1>4, <1>5, <1>6, <2>2, <2>3, CallersFlushPlace DEF StructInv, CallerStep, GetStep
<1>7. CASE GetNew(t)
  <2>1. /\ UNCHANGED <<status, ready>> /\ pc[t] = "open_get" /\ pc' = [pc EXCEPT ![t] = "load"]
        /\ htable' = [htable EXCEPT ![pos[t]] = t]
    BY <1>7 DEF GetNew, Step
  <2>2. /\ status[pos[t]] = "UNOPEN" /\ htable'[pos[t]] = t
        /\ \A id \in Ids : id # pos[t] => htable'[id] = htable[id]
        /\ \A u \in Threads : pc[u] \in Opening /\ pos[u] = pos[t] => u = t
    BY <1>3, <2>1 DEF StructInv, OpenTables, Opening
  <2>3. htable[pos[t]] # "built" /\ t # "built"
    <3>1. \A u \in Threads : pc[u] # "write"
      BY <1>3 DEF PutSteps
    <3> QED
      BY <1>3, <2>2, <3>1, MakerAssumption DEF StructInv, BuiltTables
  <2> HIDE Facts
  <2>4. BuiltTables'
    <3>1. BuiltTables /\ \A u \in Threads : pc[u] # "write"
      BY <1>3 DEF StructInv, PutSteps
    <3>2. ASSUME NEW id \in Ids, id # pos[t]
          PROVE  /\ status'[id] \in {"WRITE", "FLUSH"} => htable'[id] = "built"
                 /\ job'[id] # "none" => status'[id] = "FLUSH"
                 /\ status'[id] # "UNOPEN" => id \in Used'
                 /\ <<id, "built">> \in ready' <=> htable'[id] = "built"
                 /\ htable'[id] = "built" => id \in Used' /\ status'[id] # "UNOPEN"
      BY <1>1, <1>4, <2>1, <2>2, <3>1, <3>2 DEF BuiltTables
    <3>3. /\ status'[pos[t]] \in {"WRITE", "FLUSH"} => htable'[pos[t]] = "built"
          /\ job'[pos[t]] = "none" /\ pos[t] \in Used'
          /\ <<pos[t], "built">> \notin ready' /\ htable'[pos[t]] # "built"
      BY <1>1, <1>3, <1>4, <2>1, <2>2, <2>3, <3>1 DEF BuiltTables
    <3>4. ASSUME NEW id \in Ids, id = pos[t]
          PROVE  /\ status'[id] \in {"WRITE", "FLUSH"} => htable'[id] = "built"
                 /\ job'[id] # "none" => status'[id] = "FLUSH"
                 /\ status'[id] # "UNOPEN" => id \in Used'
                 /\ <<id, "built">> \in ready' <=> htable'[id] = "built"
                 /\ htable'[id] = "built" => id \in Used' /\ status'[id] # "UNOPEN"
      BY <3>3, <3>4
    <3> QED
      BY <3>2, <3>4 DEF BuiltTables
  <2>5. PutTables'
    BY <1>1, <1>3, <1>4, <2>1, <2>2, <2>3 DEF StructInv, PutTables, PutSteps, PutPhase
  <2>6. OpenTables'
    <3>1. \A u \in Threads : u # t => pc'[u] = pc[u]
      BY <2>1, Facts
    <3>2. pc'[t] = "load"
      BY <2>1, Facts
    <3>3. \A u \in Threads : pc[u] \in Opening => pos[u] \in Ids
      BY OpenerFacts
    <3> QED
      BY <1>1, <2>1, <2>2, <3>1, <3>2, <3>3 DEF StructInv, OpenTables, Opening
  <2> QED
    BY <1>4, <1>5, <1>7, <2>4, <2>5, <2>6, CallersFlushPlace DEF StructInv, CallerStep, GetStep
<1>8. CASE GetLoad(t)
  <2>1. /\ UNCHANGED <<status, htable>> /\ pc[t] = "load" /\ pc' = [pc EXCEPT ![t] = "read"]
        /\ ready' = ready \/ ready' = ready \cup {<<pos[t], t>>}
    BY <1>8 DEF GetLoad, Step, store
  <2>2. \A id : <<id, "built">> \in ready' <=> <<id, "built">> \in ready
    BY <2>1, MakerAssumption
  <2> HIDE Facts
  <2>3. BuiltTables' /\ PutTables'
    BY <1>1, <1>3, <1>4, <2>1, <2>2 DEF StructInv, BuiltTables, PutTables, PutSteps, PutPhase
  <2>4. OpenTables'
    BY <1>1, <2>1, Facts DEF StructInv, OpenTables, Opening
  <2> QED
    BY <1>4, <1>5, <1>8, <2>3, <2>4, CallersFlushPlace DEF StructInv, CallerStep, GetStep
<1>9. CASE GetSetRead(t)
  <2>1. /\ UNCHANGED <<htable, ready>> /\ pc[t] = "read" /\ pc' = [pc EXCEPT ![t] = "look"]
        /\ status' = [status EXCEPT ![pos[t]] = "READ"]
    BY <1>9 DEF GetSetRead, Step, content
  <2>2. /\ status[pos[t]] = "UNOPEN" /\ status'[pos[t]] = "READ"
        /\ \A id \in Ids : id # pos[t] => status'[id] = status[id]
        /\ \A u \in Threads : pc[u] \in Opening /\ pos[u] = pos[t] => u = t
    BY <1>3, <2>1 DEF StructInv, OpenTables, Opening
  <2>3. job[pos[t]] = "none" /\ htable[pos[t]] # "built"
    <3>1. \A u \in Threads : pc[u] # "write"
      BY <1>3 DEF PutSteps
    <3> QED
      BY <1>3, <2>2, <3>1 DEF StructInv, BuiltTables
  <2> HIDE Facts
  <2>4. BuiltTables'
    <3>1. BuiltTables /\ \A u \in Threads : pc[u] # "write"
      BY <1>3 DEF StructInv, PutSteps
    <3>2. ASSUME NEW id \in Ids, id # pos[t]
          PROVE  /\ status'[id] \in {"WRITE", "FLUSH"} => htable'[id] = "built"
                 /\ job'[id] # "none" => status'[id] = "FLUSH"
                 /\ status'[id] # "UNOPEN" => id \in Used'
                 /\ <<id, "built">> \in ready' <=> htable'[id] = "built"
                 /\ htable'[id] = "built" => id \in Used' /\ status'[id] # "UNOPEN"
      BY <1>1, <1>4, <2>1, <2>2, <3>1, <3>2 DEF BuiltTables
    <3>3. /\ status'[pos[t]] \in {"WRITE", "FLUSH"} => htable'[pos[t]] = "built"
          /\ job'[pos[t]] = "none" /\ pos[t] \in Used'
          /\ <<pos[t], "built">> \notin ready' /\ htable'[pos[t]] # "built"
      BY <1>1, <1>3, <1>4, <2>1, <2>2, <2>3, <3>1 DEF BuiltTables
    <3>4. ASSUME NEW id \in Ids, id = pos[t]
          PROVE  /\ status'[id] \in {"WRITE", "FLUSH"} => htable'[id] = "built"
                 /\ job'[id] # "none" => status'[id] = "FLUSH"
                 /\ status'[id] # "UNOPEN" => id \in Used'
                 /\ <<id, "built">> \in ready' <=> htable'[id] = "built"
                 /\ htable'[id] = "built" => id \in Used' /\ status'[id] # "UNOPEN"
      BY <3>3, <3>4
    <3> QED
      BY <3>2, <3>4 DEF BuiltTables
  <2>5. PutTables'
    <3>1. Used \subseteq Ids
      BY UsedIds, Facts
    <3> QED
      BY <1>1, <1>3, <1>4, <2>1, <2>2, <3>1 DEF StructInv, PutTables, PutSteps, PutPhase
  <2>6. OpenTables'
    <3>1. \A u \in Threads : u # t => pc'[u] = pc[u]
      BY <2>1, Facts
    <3>2. pc'[t] = "look"
      BY <2>1, Facts
    <3>3. \A u \in Threads : pc[u] \in Opening \cup {"look"} => pos[u] \in Ids
      BY Facts DEF PlaceInv, GetTypes, Places, IdOrNone
    <3> QED
      BY <1>1, <2>1, <2>2, <3>1, <3>2, <3>3 DEF StructInv, OpenTables, Opening
  <2> QED
    BY <1>4, <1>5, <1>9, <2>4, <2>5, <2>6, CallersFlushPlace DEF StructInv, CallerStep, GetStep
<1> QED
  BY <1>6, <1>7, <1>8, <1>9

LEMMA JobStruct ==
  ASSUME TypeInv, StructInv, Apart', NEW id \in Ids, JobHead(id) \/ JobData(id)
  PROVE  StructInv' /\ Used' = Used
<1> USE Facts
<1>1. /\ UNCHANGED <<list, htable, ready, writetable, cur, ht, pos, pc, phase, mpos, mstep>>
      /\ job[id] # "none" /\ job'[id] \in {"data", "none"}
      /\ \A x \in Ids : x # id => job'[x] = job[x] /\ status'[x] = status[x]
      /\ status'[id] = status[id] \/ (status'[id] = "READ" /\ job'[id] = "none")
  BY DEF JobHead, JobData, store, content, putVars, getVars, main
<1>2. status[id] = "FLUSH" /\ htable[id] = "built" /\ id \in Used
  BY <1>1 DEF StructInv, BuiltTables
<1>3. Used' = Used
  BY <1>1, SameUsed
<1> HIDE Facts
<1>4. BuiltTables'
  <2>1. BuiltTables
    BY DEF StructInv
  <2>2. ASSUME NEW x \in Ids, x # id
        PROVE  /\ status'[x] \in {"WRITE", "FLUSH"} => htable'[x] = "built"
               /\ job'[x] # "none" => status'[x] = "FLUSH"
               /\ status'[x] # "UNOPEN" => x \in Used'
               /\ <<x, "built">> \in ready' <=> htable'[x] = "built"
               /\ htable'[x] = "built" =>
                    /\ x \in Used'
                    /\ status'[x] # "UNOPEN" \/ \E u \in Threads : pc'[u] = "write" /\ cur'[u] = x
    BY <1>1, <1>3, <2>1, <2>2 DEF BuiltTables
  <2>3. <<id, "built">> \in ready' /\ htable'[id] = "built" /\ id \in Used'
        /\ status'[id] # "UNOPEN" /\ (job'[id] # "none" => status'[id] = "FLUSH")
    BY <1>1, <1>2, <1>3, <2>1 DEF BuiltTables
  <2> QED
    BY <2>2, <2>3 DEF BuiltTables
<1>5. Creations'
  <2>1. \A u \in Threads : pc[u] \in {"open", "write"} => cur[u] \in Ids
    BY StepTables, Facts
  <2> QED
    BY <1>1, <1>2, <2>1 DEF StructInv, Creations
<1>6. PutTables'
  <2>1. Used \subseteq Ids
    BY UsedIds, Facts
  <2> QED
    BY <1>1, <1>2, <1>3, <2>1 DEF StructInv, PutTables, PutPhase
<1>7. OpenTables'
  <2>1. \A u \in Threads : pc[u] \in Opening \cup {"look"} => pos[u] \in Ids
    BY Facts DEF PlaceInv, GetTypes, Places, IdOrNone
  <2> QED
    BY <1>1, <1>2, <2>1 DEF StructInv, OpenTables, Opening
<1>8. FlushPlace'
  <2>1. phase = "flush" /\ mstep = "data" => list[mpos] \in Ids
    BY Facts DEF StructInv, FlushPlace
  <2> QED
    BY <1>1, <1>2, <2>1 DEF StructInv, FlushPlace
<1> QED
  BY <1>3, <1>4, <1>5, <1>6, <1>7, <1>8 DEF StructInv

LEMMA FlushStruct ==
  ASSUME TypeInv, StructInv, Ended, Apart', FlushAndClose \/ Crash
  PROVE  StructInv' /\ Used' = Used
<1> USE Facts
<1>1. UNCHANGED <<list, htable, ready, writetable, cur, ht, pos, pc, job>>
  BY DEF FlushAndClose, FlushManifest, FlushManifestWrite, FlushHead, FlushData, FlushSkip,
     FlushDone, FlushStep, Close, Crash, store, content, putVars, getVars
<1>2. Used' = Used
  BY <1>1, SameUsed
<1>3. CASE FlushData
  <2>1. /\ phase = "flush" /\ mstep = "data" /\ mstep' = "test" /\ mpos' = mpos + 1
        /\ status' = [status EXCEPT ![list[mpos]] = "READ"]
    BY <1>3 DEF FlushData, FlushStep
  <2>2. list[mpos] \in Ids /\ status[list[mpos]] = "WRITE" /\ Idle
    BY <2>1 DEF StructInv, FlushPlace, Ended
  <2>3. /\ status'[list[mpos]] = "READ"
        /\ \A x \in Ids : x # list[mpos] => status'[x] = status[x]
    BY <2>1, <2>2
  <2>4. FlushPlace'
    BY <2>1 DEF StructInv, FlushPlace
  <2> HIDE Facts
  <2>5. BuiltTables'
    BY <1>1, <1>2, <2>2, <2>3 DEF StructInv, BuiltTables, Idle
  <2>6. PutTables'
    <3>1. Used \subseteq Ids
      BY UsedIds, Facts
    <3> QED
      BY <1>1, <1>2, <2>2, <2>3, <3>1 DEF StructInv, PutTables, Idle, PutPhase
  <2>7. Creations' /\ OpenTables'
    BY <1>1, <2>2 DEF Creations, OpenTables, Idle, Opening
  <2> QED
    BY <1>2, <2>4, <2>5, <2>6, <2>7 DEF StructInv
<1>4. CASE ~FlushData
  <2>1. UNCHANGED status
    BY <1>4 DEF FlushAndClose, FlushManifest, FlushManifestWrite, FlushHead, FlushSkip,
       FlushDone, FlushStep, Close, Crash, store
  <2>2. FlushPlace'
    <3>1. CASE FlushHead
      BY <3>1 DEF FlushHead, FlushStep, StructInv, FlushPlace
    <3>2. CASE FlushManifest \/ FlushManifestWrite \/ FlushDone \/ Close \/ Crash
      <4>1. CASE FlushManifestWrite
        BY <4>1 DEF FlushManifestWrite, StructInv, FlushPlace, TypeInv, EndInv, Ending
      <4>2. CASE ~FlushManifestWrite
        BY <3>2, <4>2 DEF FlushManifest, FlushDone, Close, Crash, StructInv, FlushPlace
      <4> QED
        BY <4>1, <4>2
    <3>3. CASE FlushSkip
      BY <3>3 DEF FlushSkip, FlushStep, StructInv, FlushPlace
    <3> QED
      BY <1>4, <3>1, <3>2, <3>3 DEF FlushAndClose
  <2> HIDE Facts
  <2> QED
    BY <1>1, <1>2, <2>1, <2>2 DEF StructInv, BuiltTables, Creations, PutTables, OpenTables
<1> QED
  BY <1>3, <1>4

LEMMA FreshStruct ==
  ASSUME OpenNew \/ OpenManifest PROVE StructInv'
BY MakerAssumption DEF OpenNew, OpenManifest, Fresh, StructInv, Apart, BuiltTables, Creations, PutTables, OpenTables,
   FlushPlace, PutSteps, PutPhase, Opening

\* Calls that find the program idle end idle.
LEMMA EndedKept ==
  ASSUME Ended, [Next]_vars PROVE Ended'
<1>1. ASSUME NEW t \in Threads, CallerStep(t) PROVE Ended'
  BY <1>1, CallersRun DEF Ended, main
<1>2. CASE \E id \in Ids : JobHead(id) \/ JobData(id)
  BY <1>2 DEF JobHead, JobData, Ended, Idle, main
<1>3. CASE FlushAndClose
  BY <1>3 DEF FlushAndClose, FlushManifest, FlushManifestWrite, FlushHead, FlushData, FlushSkip,
     FlushDone, FlushStep, Close, Ended, Idle
<1>4. CASE Crash \/ OpenNew \/ OpenManifest
  BY <1>4 DEF Crash, OpenNew, OpenManifest, Ended
<1>5. CASE UNCHANGED vars
  BY <1>5 DEF vars, main, Ended, Idle
<1> QED
  BY <1>1, <1>2, <1>3, <1>4, <1>5 DEF Next, CallerStep

LEMMA StructKept ==
  ASSUME TypeInv, Ended, StructInv, Calm', [Next]_vars PROVE StructInv'
<1>1. Apart'
  BY ApartKept DEF StructInv
<1>2. ASSUME NEW t \in Threads, PutStep(t) \/ \E x \in Items : PutCall(t, x) PROVE StructInv'
  BY <1>1, <1>2, AddStruct, OpenStruct, WriteStruct, RotateStruct, PutStruct DEF PutStep
<1>3. ASSUME NEW t \in Threads, GetStep(t) \/ \E k \in Keys : GetCall(t, k) PROVE StructInv'
  BY <1>1, <1>3, GetStruct, OpenerStruct DEF GetStep
<1>4. CASE \/ \E id \in Ids : JobHead(id) \/ JobData(id)
           \/ FlushAndClose \/ Crash \/ OpenNew \/ OpenManifest
  BY <1>1, <1>4, JobStruct, FlushStruct, FreshStruct
<1>5. CASE UNCHANGED vars
  <2>1. UNCHANGED <<list, pc, cur, ht, pos, writetable, status, htable, ready, job, mpos, mstep, phase>>
    BY <1>5 DEF vars, store, content, putVars, getVars, main
  <2> QED
    BY <1>1, <2>1, SameUsed DEF StructInv, BuiltTables, Creations, PutTables, OpenTables, FlushPlace
<1> QED
  BY <1>2, <1>3, <1>4, <1>5 DEF Next

-----------------------------------------------------------------------------
(* The steps that leave the items where they are *)

LEMMA ContentIsHeld == \A id : Content(id) \subseteq Held(id) /\ file[id].items \subseteq Held(id)
  BY DEF Held

\* Every item that a table has now it had before, and gets find the same ones.
SameView ==
  /\ Used \subseteq Used'
  /\ \A id \in Used : Content(id)' = Content(id) /\ Held(id)' \subseteq Held(id)
  /\ \A id \in Used' \ Used : Held(id)' = {}
  /\ acked' = acked
  /\ \A y \in Items : older'[y] \subseteq older[y]
  /\ \A t \in Threads :
       /\ pc'[t] \in PutSteps => pc[t] \in PutSteps /\ item'[t] = item[t]
       /\ \A a \in Used : pc'[t] \in PutPhase /\ a > cur'[t] => pc[t] \in PutPhase /\ a > cur[t]

LEMMA SameAcks ==
  ASSUME HistoryInv, Acks, SameView PROVE Acks'
<1>1. \A id \in Used' : Held(id)' \subseteq acked'
  BY DEF Acks, SameView
<1>2. \A t \in Threads : pc'[t] \in PutSteps =>
        item'[t] \notin acked' /\ \A y \in Items : item'[t] \notin older'[y]
  BY DEF Acks, SameView
<1>3. \A y \in Items : \A x \in older'[y] : x # y /\ Same(x, y)
  BY DEF Acks, SameView
<1> QED
  BY <1>1, <1>2, <1>3 DEF Acks, Same

LEMMA SameOrder ==
  ASSUME HistoryInv, Acks, Order, SameView PROVE Order'
<1>0. acked \subseteq Items
  BY DEF HistoryInv, HistoryTypes
<1>1. \A a, b \in Used' : a > b => \A x \in Held(a)', y \in Held(b)' : x \notin older'[y]
  <2> SUFFICES ASSUME NEW a \in Used', NEW b \in Used', a > b, NEW x \in Held(a)', NEW y \in Held(b)'
               PROVE  x \notin older'[y]
    OBVIOUS
  <2>1. a \in Used /\ b \in Used
    BY DEF SameView
  <2>2. x \in Held(a) /\ y \in Held(b) /\ y \in Items
    BY <1>0, <2>1 DEF SameView, Acks
  <2> QED
    BY <2>1, <2>2 DEF Order, SameView
<1>2. \A t \in Threads : pc'[t] \in PutPhase =>
        \A a \in Used' : a > cur'[t] => \A x \in Held(a)' : x \notin older'[item'[t]]
  <2> SUFFICES ASSUME NEW t \in Threads, pc'[t] \in PutPhase, NEW a \in Used', a > cur'[t],
                      NEW x \in Held(a)'
               PROVE  x \notin older'[item'[t]]
    OBVIOUS
  <2>1. a \in Used /\ x \in Held(a)
    BY DEF SameView
  <2>2. pc[t] \in PutPhase /\ a > cur[t] /\ item'[t] = item[t] /\ item[t] \in Items
    BY <2>1 DEF SameView, PutPhase, PutSteps, HistoryInv, HasItem
  <2> QED
    BY <2>1, <2>2 DEF Order, SameView
<1> QED
  BY <1>1, <1>2 DEF Order

LEMMA SamePresent ==
  ASSUME HistoryInv, Present, SameView PROVE Present'
<1> SUFFICES ASSUME NEW y \in acked'
             PROVE  \E b \in Used' :
                      /\ \E z \in Content(b)' : Same(z, y)
                      /\ \A a \in Used' : a >= b => \A x \in Content(a)' : Same(x, y) => x \notin older'[y]
  BY DEF Present, Same
<1>1. y \in acked /\ y \in Items
  BY DEF SameView, HistoryInv, HistoryTypes
<1>2. PICK b \in Used :
        /\ \E z \in Content(b) : Same(z, y)
        /\ \A a \in Used : a >= b => \A x \in Content(a) : Same(x, y) => x \notin older[y]
  BY <1>1 DEF Present
<1>3. \A a \in Used' \ Used : Content(a)' = {}
  BY DEF SameView, Held
<1> QED
  BY <1>1, <1>2, <1>3 DEF SameView

LEMMA SameItems ==
  ASSUME HistoryInv, Acks, Order, Present, SameView PROVE Acks' /\ Order' /\ Present'
BY SameAcks, SameOrder, SamePresent

SideInv == NewEmpty /\ Loaded /\ Reopened

LEMMA MoveView ==
  ASSUME TypeInv, StructInv, SideInv, NEW t \in Threads, Used' = Used,
         \/ PutStart(t) \/ PutStartCreate(t) \/ PutNotWriting(t) \/ PutWriting(t) \/ PutReserve(t)
         \/ PutFull(t) \/ PutRejected(t) \/ RotateFirst(t) \/ RotateOther(t)
  PROVE  SameView /\ SideInv'
<1> USE Facts
<1>1. /\ UNCHANGED <<list, htable, mem, file, manifest, phase, pos, acked>>
      /\ \A id \in Ids : status'[id] = "UNOPEN" <=> status[id] = "UNOPEN"
  <2>1. UNCHANGED <<list, htable, mem, file, manifest, phase, pos, acked>>
    BY DEF PutStart, PutStartCreate, PutNotWriting, PutWriting, PutReserve, PutFull, PutRejected,
       RotateFirst, RotateOther, Return, Step, store, content, main, disk, hist, getVars
  <2>2. CASE RotateFirst(t)
    BY <2>1, <2>2 DEF RotateFirst
  <2>3. CASE ~RotateFirst(t)
    BY <2>1, <2>3 DEF PutStart, PutStartCreate, PutNotWriting, PutWriting, PutReserve, PutFull, PutRejected,
       RotateOther, store
  <2> QED
    BY <2>1, <2>2, <2>3
<1>2. /\ pc[t] \in {"start", "put", "reserve", "full"}
      /\ \E to \in {"idle", "start", "add", "put", "reserve", "link", "full"} :
           pc' = [pc EXCEPT ![t] = to]
  BY DEF PutStart, PutStartCreate, PutNotWriting, PutWriting, PutReserve, PutFull, PutRejected,
     RotateFirst, RotateOther, Step
<1>3. \A u \in Threads : u # t => pc'[u] = pc[u] /\ cur'[u] = cur[u] /\ item'[u] = item[u]
  BY <1>2 DEF PutStart, PutStartCreate, PutNotWriting, PutWriting, PutReserve, PutFull, PutRejected,
     RotateFirst, RotateOther, Return, putVars
<1>4. pc'[t] \in PutSteps => item'[t] = item[t]
  BY <1>2 DEF PutStart, PutStartCreate, PutNotWriting, PutWriting, PutReserve, PutFull, PutRejected,
     RotateFirst, RotateOther, Return, putVars, Step, PutSteps
<1>5. \A y \in Items : older'[y] \subseteq older[y]
  <2>1. CASE PutRejected(t)
    <3>1. older' = [older EXCEPT ![item[t]] = {}]
      BY <2>1 DEF PutRejected
    <3> QED
      BY <3>1 DEF HistoryInv, HistoryTypes
  <2>2. CASE ~PutRejected(t)
    BY <2>2 DEF PutStart, PutStartCreate, PutNotWriting, PutWriting, PutReserve, PutFull,
       RotateFirst, RotateOther, hist
  <2> QED
    BY <2>1, <2>2
<1>6. ASSUME NEW a \in Used, pc'[t] \in PutPhase, a > cur'[t]
      PROVE  pc[t] \in PutPhase /\ a > cur[t]
  <2>1. CASE PutStart(t)
    <3>1. cur'[t] = list[1] /\ list # <<>>
      BY <2>1, NullAssumption DEF PutStart, NeedsTable, Newest, Ids
    <3>2. a <= list[1] /\ a \in Ids /\ list[1] \in Ids
      BY <3>1, HeadIsNewest, UsedIds
    <3> QED
      BY <1>6, <3>1, <3>2 DEF Ids
  <2>2. CASE RotateOther(t)
    <3>1. cur'[t] = writetable /\ pc[t] = "full"
      BY <2>2 DEF RotateOther, Step
    <3>2. cur[t] <= writetable /\ cur[t] \in Ids /\ writetable \in Ids /\ a \in Ids
      BY <3>1, UsedIds DEF StructInv, PutTables, PutPhase
    <3> QED
      BY <1>6, <3>1, <3>2 DEF PutPhase, Ids
  <2>3. CASE PutWriting(t) \/ PutReserve(t) \/ PutFull(t)
    <3>1. cur' = cur /\ pc[t] \in PutPhase
      BY <2>3 DEF PutWriting, PutReserve, PutFull, Step, putVars, PutPhase
    <3> QED
      BY <1>6, <3>1
  <2>4. CASE PutStartCreate(t) \/ PutNotWriting(t) \/ PutRejected(t) \/ RotateFirst(t)
    <3>1. pc'[t] \in {"start", "add", "idle"}
      BY <2>4 DEF PutStartCreate, PutNotWriting, PutRejected, RotateFirst, Step
    <3> QED
      BY <1>6, <3>1 DEF PutPhase
  <2> QED
    BY <2>1, <2>2, <2>3, <2>4
<1>7. Used \subseteq Ids
  BY UsedIds
<1> HIDE Facts
<1>8. \A id \in Used : Content(id)' = Content(id) /\ Held(id)' = Held(id)
  BY <1>1, <1>7 DEF Content, Held
<1>9. SameView
  <2>1. pc[t] \in PutSteps
    BY <1>2 DEF PutSteps
  <2> QED
    BY <1>1, <1>3, <1>4, <1>5, <1>6, <1>8, <2>1 DEF SameView
<1>10. SideInv'
  <2>1. \A u \in Threads : (pc'[u] = "write" \/ pc'[u] = "read") => pc[u] = pc'[u] /\ cur'[u] = cur[u]
    BY <1>2, <1>3, Facts
  <2>2. NewEmpty' /\ Loaded'
    BY <1>1, <1>7, <2>1 DEF SideInv, NewEmpty, Loaded
  <2>3. ToReopen' = ToReopen
    BY <1>1 DEF ToReopen
  <2> QED
    BY <1>1, <2>2, <2>3 DEF SideInv, Reopened
<1> QED
  BY <1>9, <1>10

LEMMA AddView ==
  ASSUME TypeInv, StructInv, SideInv, NEW t \in Threads, Used' = Used, CreateAdd(t)
  PROVE  SameView /\ SideInv'
<1> USE Facts
<1>1. /\ pc[t] = "add" /\ pc' = [pc EXCEPT ![t] = "open"]
      /\ list' = <<current_id>> \o list
      /\ status' = [status EXCEPT ![current_id] = "UNOPEN"]
      /\ htable' = [htable EXCEPT ![current_id] = NULL]
      /\ cur' = [cur EXCEPT ![t] = current_id]
      /\ UNCHANGED <<mem, file, manifest, phase, pos, acked, older, item>>
  BY DEF CreateAdd, Step, content, getVars, main, disk, hist
<1>2. current_id \notin Used /\ Used \subseteq Ids
  <2>1. current_id \notin Listed
    BY UsedIds DEF IdsInv, ListInv, Listed, Types
  <2> QED
    BY <2>1, UsedIds
<1>3. \A u \in Threads : u # t => pc'[u] = pc[u] /\ cur'[u] = cur[u]
  BY <1>1
<1>4. pc'[t] = "open"
  BY <1>1
<1>5. \A id \in Used : status'[id] = status[id] /\ htable'[id] = htable[id]
  BY <1>1, <1>2
<1>6. \A u \in Threads : pc[u] # "write" /\ pc[u] # "read"
  <2>1. \A u \in Threads : pc[u] # "write"
    BY <1>1, StepTables
  <2>2. \A u \in Threads : pc[u] # "read"
    BY <1>1 DEF StructInv, Apart, PutSteps, GetSteps, Opening
  <2> QED
    BY <2>1, <2>2
<1>7. \A id \in Ids : htable'[id] = "built" => htable[id] = "built"
  BY <1>1, MakerAssumption
<1>13. ToReopen \subseteq Used
  BY DEF SideInv, Reopened
<1> HIDE Facts
<1>8. \A id \in Used : Content(id)' = Content(id) /\ Held(id)' = Held(id)
  BY <1>1, <1>5 DEF Content, Held
<1>9. SameView
  BY <1>1, <1>3, <1>4, <1>8 DEF SameView, PutSteps, PutPhase
<1>10. NewEmpty' /\ Loaded'
  BY <1>1, <1>3, <1>4, <1>5, <1>6 DEF SideInv, NewEmpty, Loaded
<1>11. ToReopen' = ToReopen
  BY <1>1 DEF ToReopen
<1>12. Reopened'
  BY <1>1, <1>2, <1>7, <1>11, <1>13 DEF SideInv, Reopened
<1> QED
  BY <1>9, <1>10, <1>12 DEF SideInv

LEMMA OpenView ==
  ASSUME TypeInv, StructInv, SideInv, NEW t \in Threads,
         Used' = Used \cup {cur[t]}, cur[t] \notin Used, CreateOpen(t)
  PROVE  SameView /\ SideInv'
<1> USE Facts
<1>1. /\ phase = "up" /\ pc[t] = "open" /\ pc' = [pc EXCEPT ![t] = "write"]
      /\ htable' = [htable EXCEPT ![cur[t]] = "built"]
      /\ file' = [file EXCEPT ![cur[t]] = NoFile]
      /\ UNCHANGED <<list, status, mem, cur, manifest, phase, pos, acked, older, item>>
  BY DEF CreateOpen, putVars, getVars, main, hist
<1>2. /\ cur[t] \in Ids /\ Used \subseteq Ids
      /\ \A u \in Threads : pc[u] \in {"open", "write"} => u = t
      /\ htable[cur[t]] = NULL /\ status[cur[t]] = "UNOPEN"
  BY <1>1, StepTables, UsedIds DEF StructInv, Creations, Creating
<1>3. DOMAIN file = Ids
  BY DEF CellInv, CellTypes
<1>4. /\ file'[cur[t]] = NoFile /\ htable'[cur[t]] = "built"
      /\ \A id \in Ids : id # cur[t] => file'[id] = file[id] /\ htable'[id] = htable[id]
      /\ pc'[t] = "write" /\ \A u \in Threads : u # t => pc'[u] = pc[u]
  BY <1>1, <1>2, <1>3
<1>5. mem[<<cur[t], "built">>] = {}
  BY <1>2, MakerAssumption DEF StructInv, BuiltTables, CellInv, BuiltEmpty
<1>6. \A u \in Threads : pc[u] # "read"
  BY <1>1 DEF StructInv, Apart, PutSteps, GetSteps, Opening
<1>7. cur[t] \notin ToReopen
  BY DEF SideInv, Reopened
<1>13. ToReopen \subseteq Used
  BY DEF SideInv, Reopened
<1> HIDE Facts
<1>8. /\ \A id \in Used : Content(id)' = Content(id) /\ Held(id)' = Held(id)
      /\ Held(cur[t])' = {}
  <2>1. \A id \in Used : Content(id)' = Content(id) /\ Held(id)' = Held(id)
    BY <1>1, <1>2, <1>4 DEF Content, Held
  <2>2. PICK c : c = cur[t]
    OBVIOUS
  <2>3. file'[c].items = {} /\ status'[c] = "UNOPEN"
    BY <1>1, <1>2, <1>4, <2>2 DEF NoFile
  <2>4. Held(c)' = {}
    BY <2>3 DEF Content, Held
  <2> QED
    BY <1>1, <2>1, <2>2, <2>4
<1>9. SameView
  <2>1. \A id \in Used' \ Used : Held(id)' = {}
    BY <1>1, <1>8
  <2> QED
    BY <1>1, <1>4, <1>8, <2>1 DEF SameView, PutSteps, PutPhase
<1>10. NewEmpty'
  <2>1. \A u \in Threads : pc'[u] = "write" => u = t
    BY <1>2, <1>4
  <2> QED
    BY <1>1, <1>4, <1>5, <2>1 DEF NewEmpty, NoFile
<1>14. Loaded'
  BY <1>1, <1>2, <1>4, <1>6 DEF SideInv, Loaded
<1>11. ToReopen' = ToReopen
  BY <1>1 DEF ToReopen
<1>12. Reopened'
  BY <1>1, <1>2, <1>4, <1>7, <1>11, <1>13 DEF SideInv, Reopened
<1> QED
  BY <1>9, <1>10, <1>12, <1>14 DEF SideInv

LEMMA WriteView ==
  ASSUME TypeInv, StructInv, SideInv, NEW t \in Threads, Used' = Used, CreateWrite(t)
  PROVE  SameView /\ SideInv'
<1> USE Facts
<1>1. /\ pc[t] = "write" /\ pc' = [pc EXCEPT ![t] = "put"]
      /\ status' = [status EXCEPT ![cur[t]] = "WRITE"]
      /\ cur' = [cur EXCEPT ![t] = list[1]]
      /\ UNCHANGED <<list, htable, mem, file, manifest, phase, pos, acked, older, item>>
  BY DEF CreateWrite, Step, content, getVars, main, disk, hist
<1>2. /\ cur[t] \in Ids /\ Used \subseteq Ids
      /\ \A u \in Threads : pc[u] \in {"open", "write"} => u = t
      /\ htable[cur[t]] = "built" /\ status[cur[t]] = "UNOPEN"
  BY <1>1, StepTables, UsedIds DEF StructInv, Creations, Creating
<1>3. list # <<>> /\ list[1] \in Ids /\ \A id \in Used : id <= list[1]
  BY <1>1, HeadIsNewest, UsedIds DEF IInv, CreatesHead, HeadIsNew
<1>4. /\ status'[cur[t]] = "WRITE"
      /\ \A id \in Ids : id # cur[t] => status'[id] = status[id]
      /\ pc'[t] = "put" /\ cur'[t] = list[1]
      /\ \A u \in Threads : u # t => pc'[u] = pc[u] /\ cur'[u] = cur[u]
  BY <1>1, <1>2
<1>5. mem[<<cur[t], "built">>] = {} /\ file[cur[t]].items = {}
  BY <1>1 DEF SideInv, NewEmpty
<1>6. \A u \in Threads : pc[u] # "read"
  BY <1>1 DEF StructInv, Apart, PutSteps, GetSteps, Opening
<1> HIDE Facts
<1>8. \A id \in Used : Content(id)' = Content(id) /\ Held(id)' = Held(id)
  BY <1>1, <1>2, <1>4, <1>5 DEF Content, Held
<1>9. SameView
  <2>1. \A id \in Used : ~(id > list[1])
    BY <1>2, <1>3 DEF Ids
  <2> QED
    BY <1>1, <1>4, <1>8, <2>1 DEF SameView, PutSteps, PutPhase
<1>10. NewEmpty' /\ Loaded'
  BY <1>1, <1>2, <1>4, <1>6 DEF SideInv, NewEmpty, Loaded
<1>11. ToReopen' = ToReopen
  BY <1>1 DEF ToReopen
<1>12. Reopened'
  BY <1>1, <1>11 DEF SideInv, Reopened
<1> QED
  BY <1>9, <1>10, <1>12 DEF SideInv

\* Gets that open no table only move.
LEMMA GetView ==
  ASSUME TypeInv, StructInv, SideInv, NEW t \in Threads, Used' = Used,
         \/ \E k \in Keys : GetCall(t, k)
         \/ GetCount(t) \/ GetHead(t) \/ GetUnopen(t) \/ GetNext(t) \/ GetFound(t) \/ GetNull(t)
  PROVE  SameView /\ SideInv'
<1> USE Facts
<1>1. UNCHANGED <<list, htable, status, mem, file, manifest, phase, acked, older, item, cur>>
  BY DEF GetCall, GetCount, GetHead, GetUnopen, GetNext, GetFound, GetNull, GetEnd, store, content,
     putVars, Step, main, disk, hist
<1>2. /\ pc[t] \in GetSteps \cup {"idle"}
      /\ \E to \in {"get", "head", "visit", "open_get", "idle"} : pc' = [pc EXCEPT ![t] = to]
  BY DEF GetCall, GetCount, GetHead, GetUnopen, GetNext, GetFound, GetNull, GetEnd, Looking, Step,
     GetSteps, Opening
<1>3. \A u \in Threads : u # t => pc'[u] = pc[u] /\ pos'[u] = pos[u]
  BY <1>2 DEF GetCall, GetCount, GetHead, GetUnopen, GetNext, GetFound, GetNull, GetEnd, getVars
<1>4. \A u \in Threads : pc'[u] \in PutSteps \cup {"read"} => pc'[u] = pc[u] /\ pos'[u] = pos[u]
  BY <1>2, <1>3 DEF PutSteps
<1> HIDE Facts
<1>5. \A id \in Used : Content(id)' = Content(id) /\ Held(id)' = Held(id)
  BY <1>1 DEF Content, Held
<1>6. SameView
  BY <1>1, <1>4, <1>5 DEF SameView, PutSteps, PutPhase
<1>7. NewEmpty' /\ Loaded'
  BY <1>1, <1>4 DEF SideInv, NewEmpty, Loaded, PutSteps
<1>8. ToReopen' = ToReopen
  BY <1>1 DEF ToReopen
<1>9. Reopened'
  BY <1>1, <1>8 DEF SideInv, Reopened
<1> QED
  BY <1>6, <1>7, <1>9 DEF SideInv

\* The steps of a get that opens a table.
LEMMA OpenerView ==
  ASSUME TypeInv, StructInv, SideInv, NEW t \in Threads, Used' = Used,
         GetNew(t) \/ GetLoad(t) \/ GetSetRead(t)
  PROVE  SameView /\ SideInv'
<1> USE Facts
<1>0. UNCHANGED <<list, file, manifest, phase, acked, older, item, cur, pos>>
  BY DEF GetNew, GetLoad, GetSetRead, putVars, getVars, store, Step, main, disk, hist
<1>1. /\ UNCHANGED <<list, file, manifest, phase, acked, older, item, cur, pos>>
      /\ ToReopen' = ToReopen
  BY <1>0 DEF ToReopen
<1>2. PICK p \in Ids : p = pos[t] /\ p \in Used
  <2>1. pc[t] \in Opening
    BY DEF GetNew, GetLoad, GetSetRead, Step, Opening
  <2> QED
    BY <2>1, OpenerFacts
<1>3. /\ status[p] = "UNOPEN"
      /\ \A u \in Threads : pc[u] \notin PutSteps
      /\ \A u \in Threads : pc[u] \in Opening /\ pos[u] = p => u = t
  BY <1>2, OpenerFacts DEF StructInv, OpenTables, GetNew, GetLoad, GetSetRead, Step, Opening
<1>4. \A u \in Threads : pc'[u] \notin PutSteps
  BY <1>3 DEF GetNew, GetLoad, GetSetRead, Step, PutSteps
<1>5. NewEmpty'
  BY <1>4 DEF NewEmpty, PutSteps
<1>6. Used \subseteq Ids
  BY UsedIds
<1>7. CASE GetNew(t)
  <2>1. /\ UNCHANGED <<status, mem>> /\ pc' = [pc EXCEPT ![t] = "load"]
        /\ htable' = [htable EXCEPT ![p] = t]
    BY <1>2, <1>7 DEF GetNew, Step
  <2>2. /\ htable'[p] = t /\ \A id \in Ids : id # p => htable'[id] = htable[id]
        /\ \A u \in Threads : pc'[u] = "read" => pc[u] = "read"
        /\ t # "built"
    BY <2>1, MakerAssumption
  <2> HIDE Facts
  <2>3. \A id \in Used : Content(id)' = Content(id) /\ Held(id)' = Held(id)
    BY <1>1, <1>3, <1>6, <2>1, <2>2 DEF Content, Held
  <2>4. SameView
    BY <1>1, <1>4, <2>3 DEF SameView, PutSteps, PutPhase
  <2>5. Loaded'
    BY <1>1, <1>3, <1>6, <2>1, <2>2 DEF SideInv, Loaded
  <2>6. Reopened'
    BY <1>1, <1>6, <2>2 DEF SideInv, Reopened
  <2> QED
    BY <1>5, <2>4, <2>5, <2>6 DEF SideInv
<1>8. CASE GetLoad(t)
  <2>1. /\ UNCHANGED <<status, htable>> /\ pc[t] = "load" /\ pc' = [pc EXCEPT ![t] = "read"]
        /\ mem' = [mem EXCEPT ![<<p, t>>] = file[p].items]
    BY <1>2, <1>8 DEF GetLoad, Step, store
  <2>2. /\ <<p, t>> \in Tables /\ DOMAIN mem = Tables
        /\ \A u \in Threads : pc[u] = "read" => pos[u] \in Ids
        /\ \A id \in Ids, m \in Makers : <<id, m>> \in Tables
        /\ Threads \subseteq Makers
    BY OpenerFacts DEF Tables, Makers, CellInv, CellTypes, Opening
  <2>3. /\ mem'[<<p, t>>] = file[p].items
        /\ \A id \in Ids, m \in Makers : <<id, m>> # <<p, t>> => mem'[<<id, m>>] = mem[<<id, m>>]
    BY <2>1, <2>2
  <2>4. \A id \in Used : id # p /\ status[id] # "UNOPEN" => htable[id] \in Makers
    <3>1. \A id \in Used : status[id] # "UNOPEN" => htable[id] # NULL
      BY MakerAssumption DEF SideInv, Loaded
    <3> QED
      BY <1>6, <3>1 DEF TableInv, TableTypes
  <2>5. \A u \in Threads : u # t => pc'[u] = pc[u]
    BY <2>1
  <2> HIDE Facts
  <2>6. \A id \in Used : Content(id)' = Content(id) /\ Held(id)' = Held(id)
    BY <1>1, <1>3, <1>6, <2>1, <2>3, <2>4 DEF Content, Held
  <2>7. SameView
    BY <1>1, <1>4, <2>6 DEF SameView, PutSteps, PutPhase
  <2>8. Loaded'
    <3>1. \A u \in Threads : pc'[u] = "read" => mem'[<<pos[u], u>>] = file[pos[u]].items
      <4>1. ASSUME NEW u \in Threads, u # t, pc'[u] = "read"
            PROVE  mem'[<<pos[u], u>>] = file[pos[u]].items
        <5>1. pos[u] \in Ids /\ u \in Makers /\ mem[<<pos[u], u>>] = file[pos[u]].items
          BY <2>2, <2>5, <4>1 DEF SideInv, Loaded
        <5> QED
          BY <2>3, <4>1, <5>1
      <4> QED
        BY <1>2, <2>3, <4>1
    <3>2. \A id \in Used : status[id] # "UNOPEN" /\ htable[id] # "built" =>
            htable[id] # NULL /\ mem'[<<id, htable[id]>>] = file[id].items
      BY <1>3, <1>6, <2>3, <2>4 DEF SideInv, Loaded
    <3> QED
      BY <1>1, <2>1, <3>1, <3>2 DEF Loaded
  <2>9. Reopened'
    BY <1>1, <2>1 DEF SideInv, Reopened
  <2> QED
    BY <1>5, <2>7, <2>8, <2>9 DEF SideInv
<1>9. CASE GetSetRead(t)
  <2>1. /\ UNCHANGED <<mem, htable>> /\ pc[t] = "read" /\ pc' = [pc EXCEPT ![t] = "look"]
        /\ status' = [status EXCEPT ![p] = "READ"]
    BY <1>2, <1>9 DEF GetSetRead, Step, content
  <2>2. /\ status'[p] = "READ" /\ \A id \in Ids : id # p => status'[id] = status[id]
        /\ \A u \in Threads : pc'[u] = "read" => pc[u] = "read"
    BY <2>1
  <2>3. htable[p] = t /\ t # NULL /\ mem[<<p, t>>] = file[p].items
    BY <1>2, <2>1, NullAssumption DEF StructInv, OpenTables, SideInv, Loaded
  <2> HIDE Facts
  <2>4. \A id \in Used : Content(id)' = Content(id) /\ Held(id)' = Held(id)
    BY <1>1, <1>3, <1>6, <2>1, <2>2, <2>3 DEF Content, Held
  <2>5. SameView
    BY <1>1, <1>4, <2>4 DEF SameView, PutSteps, PutPhase
  <2>6. Loaded'
    BY <1>1, <1>3, <1>6, <2>1, <2>2, <2>3 DEF SideInv, Loaded
  <2>7. Reopened'
    BY <1>1, <2>1 DEF SideInv, Reopened
  <2> QED
    BY <1>5, <2>5, <2>6, <2>7 DEF SideInv
<1> QED
  BY <1>7, <1>8, <1>9

\* Writing the file of a table that puts fill, or have filled.
LEMMA WriteFileView ==
  ASSUME TypeInv, StructInv, SideInv, Used' = Used, NEW id \in Ids,
         htable[id] = "built", status[id] \in {"WRITE", "FLUSH"},
         file' \in {WriteHead(id), WriteData(id)},
         \/ status' = status
         \/ status' = [status EXCEPT ![id] = "READ"],
         UNCHANGED <<list, htable, mem, manifest, phase, acked, older, item, cur, pc, pos>>
  PROVE  SameView /\ SideInv'
<1> USE Facts
<1>1. /\ Used \subseteq Ids /\ file \in [Ids -> [num : -1 .. Max, items : SUBSET Items]]
      /\ \A x \in Ids : status'[x] = "UNOPEN" <=> status[x] = "UNOPEN"
  BY UsedIds DEF CellInv, CellTypes
<1>2. \A x \in Ids : x # id => file'[x] = file[x]
  BY <1>1 DEF WriteHead, WriteData
<1>3. file'[id].items \in {{}, mem[<<id, "built">>]}
  BY <1>1 DEF WriteHead, WriteData, FlushTable
<1>4. \A u \in Threads : pc[u] = "read" => pos[u] \in Ids /\ pos[u] # id
  BY OpenerFacts DEF StructInv, OpenTables, Opening
<1>5. \A u \in Threads : pc[u] = "write" => cur[u] \in Ids /\ cur[u] # id
  BY StepTables DEF StructInv, Creations
<1>6. ToReopen' = ToReopen
  BY DEF ToReopen
<1> HIDE Facts
<1>7. \A x \in Used : Content(x)' = Content(x) /\ Held(x)' \subseteq Held(x)
  <2>1. Content(id)' = Content(id) /\ Held(id)' \subseteq Held(id)
    BY <1>1, <1>3 DEF Content, Held
  <2>2. \A x \in Used : x # id => Content(x)' = Content(x) /\ Held(x)' \subseteq Held(x)
    BY <1>1, <1>2 DEF Content, Held
  <2> QED
    BY <2>1, <2>2
<1>8. SameView
  BY <1>7 DEF SameView
<1>9. NewEmpty'
  BY <1>2, <1>5 DEF SideInv, NewEmpty
<1>10. Loaded'
  BY <1>1, <1>2, <1>4 DEF SideInv, Loaded
<1>11. Reopened'
  BY <1>6 DEF SideInv, Reopened
<1> QED
  BY <1>8, <1>9, <1>10, <1>11 DEF SideInv

LEMMA JobView ==
  ASSUME TypeInv, StructInv, SideInv, Used' = Used, NEW id \in Ids, JobHead(id) \/ JobData(id)
  PROVE  SameView /\ SideInv'
<1>1. htable[id] = "built" /\ status[id] = "FLUSH"
  BY DEF JobHead, JobData, StructInv, BuiltTables
<1>2. /\ file' \in {WriteHead(id), WriteData(id)}
      /\ status' = status \/ status' = [status EXCEPT ![id] = "READ"]
      /\ UNCHANGED <<list, htable, mem, manifest, phase, acked, older, item, cur, pc, pos>>
  BY DEF JobHead, JobData, main, store, content, putVars, getVars, hist
<1> QED
  BY <1>1, <1>2, WriteFileView

LEMMA EndView ==
  ASSUME TypeInv, StructInv, SideInv, Ended, Used' = Used, FlushAndClose \/ Crash
  PROVE  SameView /\ SideInv'
<1> USE Facts
<1>1. CASE FlushHead \/ FlushData
  <2>1. /\ file' \in {WriteHead(list[mpos]), WriteData(list[mpos])}
        /\ status' = status \/ status' = [status EXCEPT ![list[mpos]] = "READ"]
        /\ UNCHANGED <<list, htable, mem, manifest, phase, acked, older, item, cur, pc, pos>>
    BY <1>1 DEF FlushHead, FlushData, FlushStep, main, store, content, putVars, getVars, hist
  <2>2. mpos \in 1 .. Len(list) /\ status[list[mpos]] = "WRITE"
    BY <1>1 DEF FlushHead, FlushData, FlushStep, StructInv, FlushPlace
  <2>3. list[mpos] \in Ids
    BY <2>2
  <2>4. htable[list[mpos]] = "built"
    BY <2>2, <2>3 DEF StructInv, BuiltTables
  <2> QED
    BY <2>1, <2>2, <2>3, <2>4, WriteFileView
<1>2. CASE FlushManifest \/ FlushManifestWrite \/ FlushSkip \/ FlushDone \/ Close \/ Crash
  <2>1. UNCHANGED <<list, htable, status, mem, file, acked, older, item, cur, pc, pos>>
    BY <1>2 DEF FlushManifest, FlushManifestWrite, FlushSkip, FlushDone, FlushStep, Close, Crash,
       store, content, putVars, getVars, hist, disk
  <2>2. ToReopen' \subseteq Used' /\ (phase' = "up" => phase = "up" /\ ToReopen' = ToReopen)
    <3>1. CASE FlushManifest
      <4>1. manifest' = Torn /\ phase' = "manifest"
        BY <3>1 DEF FlushManifest
      <4>2. ToReopen' = {}
        BY <4>1 DEF ToReopen, Torn, Reloaded
      <4> QED
        BY <4>1, <4>2
    <3>2. CASE FlushManifestWrite
      <4>1. manifest' = [last |-> current_id, num |-> sst_num, ids |-> list] /\ phase = "manifest"
            /\ phase' = "flush"
        BY <3>2 DEF FlushManifestWrite
      <4>2. manifest'.ids = list /\ Used = Listed
        BY <4>1 DEF Ended, Idle, Used
      <4>3. \A n \in 1 .. Len(Reloaded(list)) : \E m \in 1 .. Len(list) : Reloaded(list)[n] = list[m]
        BY ReloadedOrder DEF IdsInv, ListInv
      <4>4. \A n \in 1 .. Len(Reloaded(list)) : Reloaded(list)[n] \in Listed
        BY <4>3 DEF Listed
      <4>5. ToReopen' \subseteq Listed
        <5>1. ToReopen' = {} \/ ToReopen' = {Reloaded(list)[n] : n \in 1 .. Len(Reloaded(list))}
          BY <4>2 DEF ToReopen
        <5> QED
          BY <4>4, <5>1
      <4> QED
        BY <4>1, <4>2, <4>5
    <3>3. CASE ~(FlushManifest \/ FlushManifestWrite)
      <4>1. manifest' = manifest /\ (phase' = "up" => phase = "up")
        BY <1>2, <3>3 DEF FlushSkip, FlushDone, FlushStep, Close, Crash, disk
      <4>2. ToReopen' = ToReopen
        BY <4>1 DEF ToReopen
      <4> QED
        BY <4>1, <4>2 DEF SideInv, Reopened
    <3> QED
      BY <3>1, <3>2, <3>3
  <2> HIDE Facts
  <2>3. \A id \in Used : Content(id)' = Content(id) /\ Held(id)' = Held(id)
    BY <2>1 DEF Content, Held
  <2>4. SameView
    BY <2>1, <2>3 DEF SameView
  <2>5. NewEmpty' /\ Loaded'
    BY <2>1 DEF SideInv, NewEmpty, Loaded
  <2>6. Reopened'
    BY <2>1, <2>2 DEF SideInv, Reopened
  <2> QED
    BY <2>4, <2>5, <2>6 DEF SideInv
<1> QED
  BY <1>1, <1>2 DEF FlushAndClose

-----------------------------------------------------------------------------
(* The steps that change what is held *)

LEMMA CallItems ==
  ASSUME TypeInv, StructInv, ItemsInv, Used' = Used, NEW t \in Threads, NEW x \in Items, PutCall(t, x)
  PROVE  ItemsInv'
<1> USE Facts
<1>1. /\ pc[t] = "idle" /\ pc' = [pc EXCEPT ![t] = "start"]
      /\ x \notin acked /\ \A u \in Threads : item[u] # x
      /\ item' = [item EXCEPT ![t] = x]
      /\ older' = [y \in Items |-> IF y = x THEN {z \in acked : KeyOf[z] = KeyOf[x]}
                                   ELSE older[y] \ {x}]
      /\ UNCHANGED <<list, htable, status, mem, file, manifest, phase, acked, cur, pos>>
  BY DEF PutCall, Step, main, disk, store, content, getVars
<1>2. /\ pc'[t] = "start" /\ item'[t] = x
      /\ \A u \in Threads : u # t => pc'[u] = pc[u] /\ item'[u] = item[u]
  BY <1>1 DEF HistoryInv, HistoryTypes
<1>3. acked \subseteq Items /\ \A u \in Threads : pc[u] \in PutSteps => item[u] \in Items
  BY DEF HistoryInv, HistoryTypes, HasItem
<1>4. \A y \in Items : y # x => older'[y] = older[y] \ {x}
  BY <1>1
<1>5. older'[x] = {z \in acked : KeyOf[z] = KeyOf[x]}
  BY <1>1
<1> HIDE Facts
<1>6. \A id : Content(id)' = Content(id) /\ Held(id)' = Held(id)
  BY <1>1 DEF Content, Held
<1>7. Acks'
  <2>1. \A id \in Used' : Held(id)' \subseteq acked'
    BY <1>1, <1>6 DEF ItemsInv, Acks
  <2>2. ASSUME NEW u \in Threads, pc'[u] \in PutSteps
        PROVE  item'[u] \notin acked' /\ \A y \in Items : item'[u] \notin older'[y]
    <3>1. CASE u = t
      BY <1>1, <1>2, <1>4, <1>5, <3>1
    <3>2. CASE u # t
      <4>1. /\ pc[u] \in PutSteps /\ item'[u] = item[u]
            /\ item[u] \notin acked /\ \A y \in Items : item[u] \notin older[y]
        BY <1>2, <2>2, <3>2 DEF ItemsInv, Acks
      <4> QED
        BY <1>1, <1>4, <1>5, <4>1
    <3> QED
      BY <3>1, <3>2
  <2>3. \A y \in Items : \A z \in older'[y] : z # y /\ Same(z, y)
    <3>1. \A z \in older'[x] : z # x /\ Same(z, x)
      BY <1>1, <1>5 DEF Same
    <3>2. \A y \in Items : y # x => \A z \in older'[y] : z # y /\ Same(z, y)
      BY <1>4 DEF ItemsInv, Acks
    <3> QED
      BY <3>1, <3>2
  <2> QED
    BY <2>1, <2>2, <2>3 DEF Acks, Same
<1>8. Order'
  <2>1. ASSUME NEW a \in Used', NEW b \in Used', a > b, NEW z \in Held(a)', NEW y \in Held(b)'
        PROVE  z \notin older'[y]
    <3>1. y \in Items /\ y # x /\ z \in Held(a) /\ y \in Held(b)
      BY <1>1, <1>3, <1>6 DEF ItemsInv, Acks
    <3> QED
      BY <1>4, <2>1, <3>1 DEF ItemsInv, Order
  <2>2. ASSUME NEW u \in Threads, pc'[u] \in PutPhase, NEW a \in Used', a > cur'[u], NEW z \in Held(a)'
        PROVE  z \notin older'[item'[u]]
    <3>1. u # t /\ pc[u] \in PutPhase /\ item'[u] = item[u]
      BY <1>2, <2>2 DEF PutPhase
    <3>2. item[u] \in Items /\ item[u] # x
      BY <1>1, <1>3, <3>1 DEF PutPhase, PutSteps
    <3> QED
      BY <1>1, <1>4, <1>6, <2>2, <3>1, <3>2 DEF ItemsInv, Order
  <2> QED
    BY <2>1, <2>2 DEF Order
<1>9. Present'
  <2>1. ASSUME NEW y \in acked
        PROVE  \E b \in Used' :
                 /\ \E z \in Content(b)' : Same(z, y)
                 /\ \A a \in Used' : a >= b => \A z \in Content(a)' : Same(z, y) => z \notin older'[y]
    <3>1. y \in Items /\ y # x
      BY <1>1, <1>3
    <3> QED
      BY <1>4, <1>6, <2>1, <3>1 DEF ItemsInv, Present
  <2> QED
    BY <1>1, <2>1 DEF Present, Same
<1>10. NewEmpty' /\ Loaded'
  BY <1>1, <1>2 DEF ItemsInv, NewEmpty, Loaded
<1>11. ToReopen' = ToReopen
  BY <1>1 DEF ToReopen
<1>12. Reopened'
  BY <1>1, <1>11 DEF ItemsInv, Reopened
<1> QED
  BY <1>7, <1>8, <1>9, <1>10, <1>12 DEF ItemsInv

\* A put that ends with its item in a table.
LEMMA StoreItems ==
  ASSUME TypeInv, StructInv, ItemsInv, Used' = Used, NEW t \in Threads, PutReplace(t) \/ PutLink(t)
  PROVE  ItemsInv'
<1> USE Facts
<1>1. PICK w \in Items, c \in Ids : w = item[t] /\ c = cur[t] /\ pc[t] \in PutPhase /\ c \in Used
  <2>1. pc[t] \in PutPhase /\ pc[t] \in PutSteps
    BY DEF PutReplace, PutLink, Step, PutPhase, PutSteps
  <2> QED
    BY <2>1, UsedIds DEF StructInv, PutTables, HistoryInv, HasItem
<1>2. /\ ht[t] = <<c, "built">> /\ htable[c] = "built" /\ status[c] # "UNOPEN"
  BY <1>1 DEF PutReplace, PutLink, Step, StructInv, PutTables, PutPhase
<1>3. /\ UNCHANGED <<list, htable, status, file, manifest, phase, older, pos>>
      /\ pc' = [pc EXCEPT ![t] = "idle"] /\ acked' = acked \cup {w}
      /\ item' = [item EXCEPT ![t] = NULL] /\ cur' = [cur EXCEPT ![t] = NULL]
  BY <1>1 DEF PutReplace, PutLink, Return, Step, store, getVars, main, disk
<1>4. <<c, "built">> \in Tables /\ DOMAIN mem = Tables /\ mem[<<c, "built">>] \subseteq Items
  BY DEF Tables, Makers, CellInv, CellTypes
<1>5. /\ mem'[<<c, "built">>] = {y \in mem[<<c, "built">>] : ~Same(y, w)} \cup {w}
      /\ \A id, m : <<id, m>> # <<c, "built">> => mem'[<<id, m>>] = mem[<<id, m>>]
  <2>1. CASE PutReplace(t)
    <3>1. mem' = [mem EXCEPT ![<<c, "built">>] = (@ \ SameKey(<<c, "built">>, w)) \cup {w}]
      BY <1>1, <1>2, <2>1 DEF PutReplace
    <3> QED
      BY <1>4, <3>1 DEF SameKey, Same
  <2>2. CASE PutLink(t)
    <3>1. mem' = [mem EXCEPT ![<<c, "built">>] = @ \cup {w}]
      BY <1>1, <1>2, <2>2 DEF PutLink
    <3>2. SameKey(<<c, "built">>, w) = {}
      BY <1>1, <1>2, <2>2 DEF PutLink, Step, CellInv, Unmixed
    <3>3. \A y \in mem[<<c, "built">>] : ~Same(y, w)
      BY <3>2 DEF SameKey, Same
    <3>4. /\ mem'[<<c, "built">>] = mem[<<c, "built">>] \cup {w}
          /\ \A id, m : <<id, m>> # <<c, "built">> => mem'[<<id, m>>] = mem[<<id, m>>]
      BY <1>4, <3>1
    <3>5. mem[<<c, "built">>] = {y \in mem[<<c, "built">>] : ~Same(y, w)}
      BY <3>3
    <3> QED
      BY <3>4, <3>5
  <2> QED
    BY <2>1, <2>2
<1>6. /\ pc'[t] = "idle"
      /\ \A u \in Threads : u # t => pc'[u] = pc[u] /\ cur'[u] = cur[u] /\ item'[u] = item[u]
  BY <1>3 DEF HistoryInv, HistoryTypes
<1>7. /\ acked \subseteq Items /\ Used \subseteq Ids
      /\ \A u \in Threads : pc[u] \in PutSteps => item[u] \in Items /\ (u # t => item[u] # w)
  BY <1>1, UsedIds, NullAssumption DEF HistoryInv, HistoryTypes, HasItem
<1>8. /\ w \notin acked /\ \A y \in Items : w \notin older[y]
      /\ \A a \in Used : a > c => \A x \in Held(a) : x \notin older[w]
  BY <1>1 DEF ItemsInv, Acks, Order, PutPhase, PutSteps
<1>9. \A u \in Threads : pc[u] = "write" => cur[u] \in Ids /\ cur[u] # c
  BY <1>2, StepTables DEF StructInv, Creations
<1>10. Acks /\ Order /\ Present
  BY DEF ItemsInv
<1> HIDE Facts
<1>11. /\ \A id \in Used : id # c => Content(id)' = Content(id) /\ Held(id)' = Held(id)
       /\ Content(c) = mem[<<c, "built">>] /\ Content(c)' = mem'[<<c, "built">>]
       /\ Held(c)' \subseteq Held(c) \cup {w}
  <2>1. \A id \in Used : id # c => Content(id)' = Content(id) /\ Held(id)' = Held(id)
    BY <1>3, <1>5 DEF Content, Held
  <2>2. Content(c) = mem[<<c, "built">>] /\ Content(c)' = mem'[<<c, "built">>]
    BY <1>2, <1>3 DEF Content
  <2>3. Held(c)' \subseteq Held(c) \cup {w}
    BY <1>3, <1>5, <2>2 DEF Held
  <2> QED
    BY <2>1, <2>2, <2>3
<1>12. Acks'
  <2>1. \A id \in Used' : Held(id)' \subseteq acked'
    BY <1>3, <1>10, <1>11 DEF Acks
  <2>2. \A u \in Threads : pc'[u] \in PutSteps =>
          item'[u] \notin acked' /\ \A y \in Items : item'[u] \notin older'[y]
    BY <1>3, <1>6, <1>7, <1>10 DEF Acks, PutSteps
  <2> QED
    BY <1>3, <1>10, <2>1, <2>2 DEF Acks, Same
<1>13. Order'
  <2>1. ASSUME NEW a \in Used, NEW b \in Used, a > b, NEW x \in Held(a)', NEW y \in Held(b)'
        PROVE  x \notin older[y]
    <3>1. CASE x = w
      <4>1. y \in Items
        BY <1>7, <1>10, <1>11, <1>1 DEF Acks
      <4> QED
        BY <1>8, <3>1, <4>1
    <3>2. CASE x # w /\ y = w /\ b = c
      <4>1. a # c /\ x \in Held(a)
        BY <1>7, <1>11, <2>1, <3>2 DEF Ids
      <4> QED
        BY <1>8, <2>1, <3>2, <4>1
    <3>3. CASE x # w /\ ~(y = w /\ b = c)
      <4>1. x \in Held(a) /\ y \in Held(b)
        BY <1>11, <3>3
      <4> QED
        BY <1>10, <2>1, <4>1 DEF Order
    <3> QED
      BY <3>1, <3>2, <3>3
  <2>2. ASSUME NEW u \in Threads, pc'[u] \in PutPhase, NEW a \in Used, a > cur'[u], NEW x \in Held(a)'
        PROVE  x \notin older[item'[u]]
    <3>1. u # t /\ pc[u] \in PutPhase /\ cur'[u] = cur[u] /\ item'[u] = item[u] /\ item[u] \in Items
      BY <1>6, <1>7, <2>2 DEF PutPhase, PutSteps
    <3>2. CASE x = w
      BY <1>8, <3>1, <3>2
    <3>3. CASE x # w
      <4>1. x \in Held(a)
        BY <1>11, <3>3
      <4> QED
        BY <1>10, <2>2, <3>1, <4>1 DEF Order
    <3> QED
      BY <3>2, <3>3
  <2> QED
    BY <1>3, <2>1, <2>2 DEF Order
<1>14. Present'
  <2>1. ASSUME NEW y \in acked
        PROVE  \E b \in Used :
                 /\ \E z \in Content(b)' : Same(z, y)
                 /\ \A a \in Used : a >= b => \A z \in Content(a)' : Same(z, y) => z \notin older[y]
    <3>1. PICK b \in Used :
            /\ \E z \in Content(b) : Same(z, y)
            /\ \A a \in Used : a >= b => \A x \in Content(a) : Same(x, y) => x \notin older[y]
      BY <1>10 DEF Present
    <3>2. \E z \in Content(b)' : Same(z, y)
      <4>1. CASE b # c
        BY <1>11, <3>1, <4>1
      <4>2. CASE b = c
        <5>1. PICK z \in Content(c) : Same(z, y)
          BY <3>1, <4>2
        <5>2. z \in Content(c)' \/ (w \in Content(c)' /\ Same(w, y))
          BY <1>5, <1>11, <5>1 DEF Same
        <5> QED
          BY <4>2, <5>1, <5>2
      <4> QED
        BY <4>1, <4>2
    <3>3. \A a \in Used : \A z \in Content(a)' : z \in Content(a) \/ z = w
      BY <1>5, <1>11
    <3>4. w \notin older[y]
      BY <1>7, <1>8
    <3> QED
      BY <3>1, <3>2, <3>3, <3>4
  <2>2. /\ \E z \in Content(c)' : Same(z, w)
        /\ \A a \in Used : a >= c => \A z \in Content(a)' : Same(z, w) => z \notin older[w]
    <3>1. w \in Content(c)' /\ Same(w, w)
      BY <1>5, <1>11 DEF Same
    <3>2. \A z \in Content(c)' : Same(z, w) => z = w
      BY <1>5, <1>11
    <3>3. \A a \in Used : a > c => \A z \in Content(a)' : z \notin older[w]
      <4> SUFFICES ASSUME NEW a \in Used, a > c, NEW z \in Content(a)' PROVE z \notin older[w]
        OBVIOUS
      <4>1. a # c
        BY <1>7 DEF Ids
      <4>2. z \in Held(a)
        BY <1>11, <4>1, ContentIsHeld
      <4> QED
        BY <1>8, <4>2
    <3>4. \A a \in Used : a >= c => a = c \/ a > c
      BY <1>7 DEF Ids
    <3>5. w \notin older[w]
      BY <1>8
    <3> QED
      BY <3>1, <3>2, <3>3, <3>4, <3>5
  <2>3. acked' = acked \cup {w} /\ c \in Used
    BY <1>1, <1>3
  <2> QED
    BY <1>3, <2>1, <2>2, <2>3 DEF Present, Same
<1>15. NewEmpty'
  BY <1>3, <1>5, <1>6, <1>9 DEF ItemsInv, NewEmpty
<1>16. Loaded'
  BY <1>3, <1>5, <1>6, MakerAssumption DEF ItemsInv, Loaded
<1>17. ToReopen' = ToReopen
  BY <1>3 DEF ToReopen
<1>18. Reopened'
  BY <1>3, <1>17 DEF ItemsInv, Reopened
<1> QED
  BY <1>12, <1>13, <1>14, <1>15, <1>16, <1>18 DEF ItemsInv

\* A start: what was in memory only is lost, and what is acknowledged with it.
LEMMA StartItems ==
  ASSUME TypeInv, ItemsInv, OpenNew \/ OpenManifest PROVE ItemsInv'
<1> USE Facts
<1>1. /\ \A t \in Threads : pc'[t] = "idle"
      /\ \A id \in Ids : status'[id] = "UNOPEN" /\ htable'[id] = NULL
      /\ UNCHANGED <<file, manifest, older>>
  BY DEF OpenNew, OpenManifest, Fresh, disk
<1>2. NewEmpty'
  BY <1>1 DEF NewEmpty
<1>3. Used' = Listed' /\ ToReopen' = ToReopen
  BY <1>1 DEF Used, ToReopen
<1>4. CASE OpenNew
  <2>1. list' = <<>> /\ acked' = {} /\ manifest = NULL
    BY <1>4 DEF OpenNew
  <2>2. Listed' = {} /\ ToReopen = {}
    BY <2>1 DEF Listed, ToReopen
  <2>3. Loaded' /\ Reopened'
    BY <1>1, <1>3, <2>2 DEF Loaded, Reopened
  <2>4. Acks'
    BY <1>1, <1>3, <2>2 DEF ItemsInv, Acks, Same, PutSteps
  <2>5. Order' /\ Present'
    BY <1>1, <1>3, <2>1, <2>2 DEF Order, Present, PutPhase
  <2> QED
    BY <1>2, <2>3, <2>4, <2>5 DEF ItemsInv
<1>5. CASE OpenManifest
  <2>1. /\ list' = Reloaded(manifest.ids) /\ manifest # NULL
        /\ acked' = acked \cap ItemsOnDisk(Reloaded(manifest.ids))
    BY <1>5 DEF OpenManifest
  <2>2. Listed' = ToReopen /\ ToReopen \subseteq Used
    BY <2>1 DEF Listed, ToReopen, ItemsInv, Reopened
  <2>3. ToReopen \subseteq Ids
    BY <2>2, UsedIds
  <2>4. manifest.ids \in Seq(Ids)
    <3>1. CASE manifest = Torn
      BY <3>1 DEF Torn
    <3>2. CASE manifest # Torn
      <4>1. manifest \in [last : 0 .. MaxId + 1, num : Nat, ids : Seq(Ids)]
        BY <2>1, <3>2 DEF Types
      <4> QED
        BY <4>1
    <3> QED
      BY <3>1, <3>2
  <2>5. \A y \in acked' : y \in acked /\ \E b \in ToReopen : y \in file[b].items
    <3>1. Reloaded(manifest.ids) \in Seq(Ids)
      BY <2>4, ReloadedType
    <3>2. DOMAIN Reloaded(manifest.ids) = 1 .. Len(Reloaded(manifest.ids))
      BY <3>1
    <3>3. ToReopen = {Reloaded(manifest.ids)[n] : n \in 1 .. Len(Reloaded(manifest.ids))}
      BY <2>1 DEF ToReopen
    <3> QED
      BY <2>1, <3>2, <3>3 DEF ItemsOnDisk
  <2>6. \A b \in ToReopen : file[b].items \subseteq acked'
    <3>1. ASSUME NEW b \in ToReopen PROVE file[b].items \subseteq acked
      BY <2>2, ContentIsHeld DEF ItemsInv, Acks
    <3>2. ASSUME NEW b \in ToReopen PROVE file[b].items \subseteq ItemsOnDisk(Reloaded(manifest.ids))
      <4>1. Reloaded(manifest.ids) \in Seq(Ids)
        BY <2>4, ReloadedType
      <4>2. PICK n \in DOMAIN Reloaded(manifest.ids) : b = Reloaded(manifest.ids)[n]
        BY <2>1, <4>1 DEF ToReopen
      <4> QED
        BY <4>2 DEF ItemsOnDisk
    <3> QED
      BY <2>1, <3>1, <3>2
  <2>7. \A id \in ToReopen : Content(id)' = file[id].items /\ Held(id)' = file[id].items
    BY <1>1, <2>3 DEF Content, Held
  <2>8. \A id \in ToReopen : file[id].items \subseteq Held(id)
    BY ContentIsHeld
  <2>9. FilesFit /\ acked \subseteq Items
    BY DEF CellInv, HistoryInv, HistoryTypes
  <2> HIDE Facts
  <2>10. Loaded' /\ Reopened'
    BY <1>1, <1>3, <2>2, <2>3, MakerAssumption DEF Loaded, Reopened
  <2>11. Acks'
    BY <1>1, <1>3, <2>2, <2>6, <2>7 DEF ItemsInv, Acks, Same, PutSteps
  <2>12. Order'
    BY <1>1, <1>3, <2>2, <2>7, <2>8 DEF ItemsInv, Order, PutPhase
  <2>13. Present'
    <3>1. ASSUME NEW y \in acked'
          PROVE  \E b \in ToReopen :
                   /\ \E z \in file[b].items : Same(z, y)
                   /\ \A a \in ToReopen : a >= b => \A z \in file[a].items : Same(z, y) => z \notin older[y]
      <4>1. PICK b \in ToReopen : y \in file[b].items
        BY <2>5, <3>1
      <4>2. y \in Items
        BY <2>5, <2>9, <3>1
      <4>3. Same(y, y)
        BY DEF Same
      <4>4. \A z \in file[b].items : Same(z, y) => z \notin older[y]
        BY <2>3, <2>9, <4>1, <4>2 DEF FilesFit, OnePerKey, ItemsInv, Acks
      <4>5. \A a \in ToReopen : a > b => \A z \in file[a].items : z \notin older[y]
        BY <2>2, <2>8, <4>1 DEF ItemsInv, Order
      <4>6. \A a \in ToReopen : a >= b => a = b \/ a > b
        BY <2>3 DEF Ids
      <4> QED
        BY <4>1, <4>3, <4>4, <4>5, <4>6
    <3> QED
      BY <1>1, <1>3, <2>2, <2>7, <3>1 DEF Present, Same
  <2> QED
    BY <1>2, <2>10, <2>11, <2>12, <2>13 DEF ItemsInv
<1> QED
  BY <1>4, <1>5

LEMMA ItemsKept ==
  ASSUME TypeInv, Ended, StructInv, ItemsInv, Calm', [Next]_vars PROVE ItemsInv'
<1>0. SideInv /\ HistoryInv /\ Apart'
  BY ApartKept DEF SideInv, ItemsInv, TypeInv, StructInv
<1>1. SameView /\ SideInv' => ItemsInv'
  BY <1>0, SameItems DEF ItemsInv, SideInv
<1>2. ASSUME NEW t \in Threads, PutStep(t) PROVE ItemsInv'
  BY <1>0, <1>1, <1>2, AddStruct, OpenStruct, WriteStruct, RotateStruct, PutStruct, MoveView, AddView,
     OpenView, WriteView, StoreItems DEF PutStep
<1>3. ASSUME NEW t \in Threads, NEW x \in Items, PutCall(t, x) PROVE ItemsInv'
  BY <1>0, <1>3, PutStruct, CallItems
<1>4. ASSUME NEW t \in Threads, GetStep(t) \/ \E k \in Keys : GetCall(t, k) PROVE ItemsInv'
  BY <1>0, <1>1, <1>4, GetStruct, OpenerStruct, GetView, OpenerView DEF GetStep
<1>5. CASE \/ \E id \in Ids : JobHead(id) \/ JobData(id)
           \/ FlushAndClose \/ Crash
  BY <1>0, <1>1, <1>5, JobStruct, FlushStruct, JobView, EndView
<1>6. CASE OpenNew \/ OpenManifest
  BY <1>6, StartItems
<1>7. CASE UNCHANGED vars
  <2>1. UNCHANGED <<list, pc, cur, htable, status, mem, file, manifest, phase, acked, older, item, pos>>
    BY <1>7 DEF vars, store, content, putVars, getVars, main, disk, hist
  <2>2. Used' = Used /\ ToReopen' = ToReopen
    BY <2>1 DEF Used, Listed, ToReopen
  <2>3. SameView
    BY <2>1, <2>2 DEF SameView, Content, Held
  <2>4. SideInv'
    BY <1>0, <2>1, <2>2 DEF SideInv, NewEmpty, Loaded, Reopened
  <2> QED
    BY <1>1, <2>3, <2>4
<1> QED
  BY <1>2, <1>3, <1>4, <1>5, <1>6, <1>7 DEF Next

-----------------------------------------------------------------------------
(* The walk of a get *)

LEMMA CountKept ==
  ASSUME TypeInv, AllCounted, [Next]_vars PROVE AllCounted'
<1> USE Facts
<1>0. sst_num \in Nat
  BY DEF Types
<1>1. ASSUME NEW t \in Threads, CreateAdd(t) PROVE AllCounted'
  <2>1. list' = <<current_id>> \o list /\ sst_num' = sst_num + 1 /\ current_id \in Ids
    BY <1>1, BoundsAssumption DEF CreateAdd, Ids
  <2>2. Len(list') = Len(list) + 1
    BY <2>1
  <2> QED
    BY <1>0, <2>1, <2>2 DEF AllCounted
<1>2. ASSUME NEW t \in Threads, CallerStep(t), ~CreateAdd(t) PROVE AllCounted'
  <2>1. UNCHANGED <<list, sst_num>>
    BY <1>2 DEF CallerStep, PutCall, GetCall, PutStep, PutStart, PutStartCreate, CreateOpen,
       CreateWrite, PutNotWriting, PutWriting, PutReplace, PutReserve, PutLink, PutFull, PutRejected,
       RotateFirst, RotateOther, GetStep, GetCount, GetHead, GetUnopen, GetNew, GetLoad, GetSetRead,
       GetNext, GetFound, GetNull, GetEnd, store
  <2> QED
    BY <2>1 DEF AllCounted
<1>3. CASE \/ \E id \in Ids : JobHead(id) \/ JobData(id)
           \/ FlushAndClose \/ Crash \/ UNCHANGED vars
  <2>1. UNCHANGED <<list, sst_num>>
    BY <1>3 DEF JobHead, JobData, FlushAndClose, FlushManifest, FlushManifestWrite, FlushHead,
       FlushData, FlushSkip, FlushDone, FlushStep, Close, Crash, vars, store
  <2> QED
    BY <2>1 DEF AllCounted
<1>4. CASE OpenNew
  BY <1>4 DEF OpenNew, AllCounted
<1>5. CASE OpenManifest
  <2>1. /\ manifest # NULL /\ list' = Reloaded(manifest.ids) /\ sst_num' = Len(manifest.ids)
        /\ manifest \in [last : 0 .. MaxId + 1, num : Nat, ids : Seq(Ids)]
    BY <1>5 DEF OpenManifest, Types, Torn
  <2>2. Len(Reloaded(manifest.ids)) <= Len(manifest.ids)
    BY <2>1, ReloadedOrder DEF IdsInv, ManifestInv
  <2> QED
    BY <2>1, <2>2 DEF AllCounted
<1> QED
  BY <1>1, <1>2, <1>3, <1>4, <1>5 DEF Next, CallerStep

\* The ids of a list differ, so a table has one next table.
LEMMA NextTable ==
  ASSUME Types, Decreasing(list), NEW n \in 1 .. Len(list)
  PROVE  /\ \A m \in 1 .. Len(list) : list[m] = list[n] => m = n
         /\ NextOf(list[n]) = IF n = Len(list) THEN NULL ELSE list[n + 1]
<1>1. \A m \in 1 .. Len(list) : list[m] \in Ids
  BY DEF Types
<1>2. Len(list) \in Nat
  BY DEF Types
<1>3. \A m \in 1 .. Len(list) : list[m] = list[n] => m = n
  BY <1>1, <1>2 DEF Decreasing, Ids
<1>4. (CHOOSE k \in 1 .. Len(list) : list[k] = list[n]) = n
  BY <1>3
<1> QED
  BY <1>3, <1>4 DEF NextOf

\* A get that another thread's step does not concern.
LEMMA SameWalk ==
  ASSUME NEW t \in Threads, Walk(t), UNCHANGED <<list, acked>>,
         pc'[t] = pc[t] \/ {pc[t], pc'[t]} \cap {"get", "head"} = {},
         seen'[t] = seen[t], want'[t] = want[t], pos'[t] = pos[t], i'[t] = i[t],
         \A a \in Listed : Content(a)' = Content(a)
  PROVE  Walk(t)'
<1>1. Listed' = Listed
  BY DEF Listed
<1>2. Passed(t) => Passed(t)'
  BY <1>1 DEF Passed
<1>3. /\ seen'[t] \subseteq {x \in acked' : KeyOf[x] = want'[t]}
      /\ pc'[t] = "head" => i'[t] >= Len(list') - 1
  BY DEF Walk
<1>4. pc'[t] \notin {"get", "head"} =>
        /\ Passed(t)'
        /\ \A n \in 1 .. Len(list') : list'[n] = pos'[t] => i'[t] >= Len(list') - n
  <2>1. pc'[t] \notin {"get", "head"} => pc[t] \notin {"get", "head"}
    OBVIOUS
  <2> QED
    BY <1>2, <2>1 DEF Walk
<1> QED
  BY <1>3, <1>4 DEF Walk

LEMMA HeadWalk ==
  ASSUME TypeInv, NEW t \in Threads, GetHead(t), Walk(t) PROVE Walk(t)'
<1> USE Facts
<1>1. /\ pc[t] = "head" /\ pc'[t] = "visit" /\ pos'[t] = Newest
      /\ UNCHANGED <<list, acked, seen, want, i>>
  BY DEF GetHead, Step, store, hist, PlaceInv, GetTypes
<1>2. i[t] >= Len(list) - 1 /\ i[t] \in Int
  BY <1>1 DEF Walk, PlaceInv, GetTypes
<1>3. Passed(t)'
  <2>1. Listed' = Listed
    BY <1>1 DEF Listed
  <2>2. ASSUME NEW a \in Listed PROVE ~(pos'[t] = NULL \/ a > pos'[t])
    <3>1. list # <<>>
      BY <2>2 DEF Listed
    <3>2. pos'[t] = list[1] /\ list[1] \in Ids /\ a \in Ids /\ a <= list[1]
      BY <1>1, <3>1, HeadIsNewest, UsedIds DEF Newest
    <3> QED
      BY <3>2, NullAssumption DEF Ids
  <2> QED
    BY <2>1, <2>2 DEF Passed
<1>4. \A n \in 1 .. Len(list) : list[n] = pos'[t] => i[t] >= Len(list) - n
  <2> SUFFICES ASSUME NEW n \in 1 .. Len(list), list[n] = pos'[t] PROVE i[t] >= Len(list) - n
    OBVIOUS
  <2>1. 1 \in 1 .. Len(list) /\ list # <<>>
    OBVIOUS
  <2>2. list[n] = list[1]
    BY <1>1, <2>1 DEF Newest
  <2>3. n = 1
    BY <2>1, <2>2, NextTable DEF IdsInv, ListInv
  <2> QED
    BY <1>2, <2>3
<1> QED
  BY <1>1, <1>3, <1>4 DEF Walk

LEMMA NextWalk ==
  ASSUME TypeInv, StructInv, NEW t \in Threads, GetNext(t), Walk(t), \A a \in Listed : Content(a)' = Content(a)
  PROVE  Walk(t)'
<1> USE Facts
<1>1. /\ pc[t] \in {"visit", "look"} /\ pc'[t] = "visit" /\ pos[t] # NULL
      /\ pos'[t] = NextOf(pos[t]) /\ i'[t] = i[t] - 1 /\ i[t] \in Int
      /\ UNCHANGED <<list, acked, seen, want>>
  BY NullAssumption DEF GetNext, Looking, Visiting, store, hist, PlaceInv, GetTypes, Places
<1>2. status[pos[t]] # "UNOPEN" /\ Match(t) = {}
  BY DEF GetNext, Looking, StructInv, OpenTables
<1>3. PICK n \in 1 .. Len(list) : list[n] = pos[t]
  BY <1>1 DEF PlaceInv, Places
<1>4. pos'[t] = IF n = Len(list) THEN NULL ELSE list[n + 1]
  BY <1>1, <1>3, NextTable DEF IdsInv, ListInv
<1>5. /\ Decreasing(list) /\ \A m \in 1 .. Len(list) : list[m] \in Ids
  BY DEF IdsInv, ListInv
<1>6. Passed(t) /\ i[t] >= Len(list) - n
  BY <1>1, <1>3 DEF Walk
<1>7. Passed(t)'
  <2>1. Listed' = Listed
    BY <1>1 DEF Listed
  <2>2. ASSUME NEW a \in Listed, pos'[t] = NULL \/ a > pos'[t], NEW x \in Content(a)
        PROVE  KeyOf[x] # want[t]
    <3>1. PICK m \in 1 .. Len(list) : list[m] = a
      BY DEF Listed
    <3>2. m <= n
      <4>1. CASE n = Len(list)
        BY <4>1
      <4>2. CASE n # Len(list)
        <5>1. n + 1 \in 1 .. Len(list) /\ list[n + 1] \in Ids /\ a \in Ids /\ a > list[n + 1]
          BY <1>4, <1>5, <2>2, <3>1, <4>2, NullAssumption DEF Ids
        <5>2. ~(m > n)
          <6> SUFFICES ASSUME m > n PROVE FALSE
            OBVIOUS
          <6>1. m = n + 1 \/ n + 1 < m
            OBVIOUS
          <6>2. list[m] <= list[n + 1]
            BY <1>5, <3>1, <5>1, <6>1 DEF Decreasing, Ids
          <6> QED
            BY <3>1, <5>1, <6>2 DEF Ids
        <5> QED
          BY <5>2
      <4> QED
        BY <4>1, <4>2
    <3>3. CASE m = n
      <4>1. a = pos[t]
        BY <1>3, <3>1, <3>3
      <4>2. x \in mem[<<pos[t], htable[pos[t]]>>]
        BY <1>2, <2>2, <4>1 DEF Content
      <4> QED
        BY <1>2, <4>2 DEF Match
    <3>4. CASE m # n
      <4>1. a > pos[t]
        BY <1>3, <1>5, <3>1, <3>2, <3>4 DEF Decreasing
      <4> QED
        BY <1>6, <2>2, <4>1 DEF Passed
    <3> QED
      BY <3>3, <3>4
  <2> QED
    BY <1>1, <2>1, <2>2 DEF Passed
<1>8. \A m \in 1 .. Len(list) : list[m] = pos'[t] => i'[t] >= Len(list) - m
  <2> SUFFICES ASSUME NEW m \in 1 .. Len(list), list[m] = pos'[t] PROVE i'[t] >= Len(list) - m
    OBVIOUS
  <2>1. n # Len(list)
    BY <1>4, <1>5, NullAssumption DEF Ids
  <2>2. n + 1 \in 1 .. Len(list) /\ list[m] = list[n + 1]
    BY <1>4, <2>1
  <2>3. m = n + 1
    BY <2>2, NextTable DEF IdsInv, ListInv
  <2> QED
    BY <1>1, <1>6, <2>3
<1> QED
  BY <1>1, <1>7, <1>8 DEF Walk

\* The steps of the get itself.
LEMMA GetWalk ==
  ASSUME TypeInv, StructInv, AllCounted, Walks, NEW t \in Threads,
         GetStep(t) \/ \E k \in Keys : GetCall(t, k),
         \A a \in Listed : Content(a)' = Content(a),
         pc'[t] \in GetSteps
  PROVE  Walk(t)'
<1> USE Facts
<1>1. CASE \E k \in Keys : GetCall(t, k)
  <2>1. PICK k \in Keys : GetCall(t, k)
    BY <1>1
  <2>2. /\ pc'[t] = "get" /\ want'[t] = k /\ seen'[t] = {x \in acked : KeyOf[x] = k}
        /\ acked' = acked
    BY <2>1 DEF GetCall, Step, TypeInv, PlainTypes, HistoryInv, HistoryTypes
  <2> QED
    BY <2>2 DEF Walk
<1>2. CASE GetStep(t)
  <2>1. pc[t] \in GetSteps
    BY <1>2 DEF GetStep, GetCount, GetHead, GetUnopen, GetNew, GetLoad, GetSetRead, GetNext,
       GetFound, GetNull, GetEnd, Step, Looking, GetSteps, Opening
  <2>2. Walk(t)
    BY <2>1 DEF Walks
  <2>3. CASE GetCount(t)
    <3>1. /\ pc'[t] = "head" /\ i'[t] = sst_num - 1
          /\ UNCHANGED <<list, acked, seen, want>>
      BY <2>3 DEF GetCount, Step, store, hist, PlaceInv, GetTypes
    <3>2. sst_num \in Nat
      BY DEF Types
    <3> QED
      BY <2>2, <3>1, <3>2 DEF Walk, AllCounted
  <2>4. CASE GetUnopen(t) \/ GetNew(t) \/ GetLoad(t) \/ GetSetRead(t)
    <3>1. /\ UNCHANGED <<list, acked, seen, want, pos, i>>
          /\ {pc[t], pc'[t]} \cap {"get", "head"} = {}
      BY <2>4 DEF GetUnopen, GetNew, GetLoad, GetSetRead, Step, store, getVars, hist
    <3> HIDE Facts
    <3> QED
      BY <2>2, <3>1, SameWalk
  <2>5. CASE GetFound(t) \/ GetNull(t)
    BY <2>5 DEF GetFound, GetNull, GetEnd, GetSteps, Opening
  <2> QED
    BY <1>2, <2>2, <2>3, <2>4, <2>5, HeadWalk, NextWalk DEF GetStep
<1> QED
  BY <1>1, <1>2

LEMMA WalksKept ==
  ASSUME TypeInv, Ended, AllCounted, StructInv, ItemsInv, Walks, Calm', [Next]_vars PROVE Walks'
<1> USE Facts
<1>0. /\ SideInv /\ Apart'
      /\ \A u \in Threads : pc[u] \in GetSteps => Used = Listed
  BY ApartKept, GetsAlone DEF SideInv, ItemsInv, StructInv
<1>1. ASSUME NEW t \in Threads, PutStep(t) \/ \E x \in Items : PutCall(t, x) PROVE Walks'
  <2>1. \E to \in PutSteps \cup {"idle"} : pc' = [pc EXCEPT ![t] = to]
    BY <1>1 DEF PutCall, PutStep, PutStart, PutStartCreate, CreateAdd, CreateOpen, CreateWrite, PutNotWriting,
       PutWriting, PutReplace, PutReserve, PutLink, PutFull, PutRejected, RotateFirst, RotateOther,
       Step, PutSteps
  <2>2. \A u \in Threads : pc[u] \notin GetSteps
    <3>1. CASE PutStep(t)
      <4>1. pc[t] \in PutSteps
        BY <3>1 DEF PutStep, PutStart, PutStartCreate, CreateAdd, CreateOpen, CreateWrite, PutNotWriting,
           PutWriting, PutReplace, PutReserve, PutLink, PutFull, PutRejected, RotateFirst, RotateOther,
           Step, PutSteps
      <4> QED
        BY <4>1 DEF StructInv, Apart
    <3>2. CASE \E x \in Items : PutCall(t, x)
      BY <3>2 DEF PutCall, Calm
    <3> QED
      BY <1>1, <3>1, <3>2
  <2>3. \A u \in Threads : pc'[u] \notin GetSteps
    BY <2>1, <2>2 DEF PutSteps, GetSteps, Opening
  <2> QED
    BY <2>3 DEF Walks
<1>2. ASSUME NEW t \in Threads, GetStep(t) \/ \E k \in Keys : GetCall(t, k) PROVE Walks'
  <2>1. Used' = Used /\ SameView
    BY <1>0, <1>2, GetStruct, OpenerStruct, GetView, OpenerView DEF GetStep
  <2>2. /\ \E to \in GetSteps \cup {"idle"} : pc' = [pc EXCEPT ![t] = to]
        /\ pc[t] \in GetSteps \cup {"idle"}
    BY <1>2 DEF GetCall, GetStep, GetCount, GetHead, GetUnopen, GetNew, GetLoad, GetSetRead, GetNext,
       GetFound, GetNull, GetEnd, Step, Looking, GetSteps, Opening
  <2>3. \A u \in Threads : u # t =>
          pc'[u] = pc[u] /\ seen'[u] = seen[u] /\ want'[u] = want[u] /\ i'[u] = i[u] /\ pos'[u] = pos[u]
    <3>1. \A u \in Threads : u # t => pc'[u] = pc[u]
      BY <2>2
    <3>2. \A u \in Threads : u # t => i'[u] = i[u] /\ pos'[u] = pos[u]
      BY <1>2 DEF GetCall, GetStep, GetCount, GetHead, GetUnopen, GetNew, GetLoad, GetSetRead,
         GetNext, GetFound, GetNull, GetEnd, getVars, PlaceInv, GetTypes
    <3>3. \A u \in Threads : u # t => seen'[u] = seen[u]
      BY <1>2 DEF GetCall, GetStep, GetCount, GetHead, GetUnopen, GetNew, GetLoad, GetSetRead,
         GetNext, GetFound, GetNull, GetEnd, hist, HistoryInv, HistoryTypes
    <3>4. \A u \in Threads : u # t => want'[u] = want[u]
      BY <1>2 DEF GetCall, GetStep, GetCount, GetHead, GetUnopen, GetNew, GetLoad, GetSetRead,
         GetNext, GetFound, GetNull, GetEnd, getVars, TypeInv, PlainTypes
    <3> QED
      BY <3>1, <3>2, <3>3, <3>4
  <2>4. UNCHANGED <<list, acked>>
    BY <1>2 DEF GetCall, GetStep, GetCount, GetHead, GetUnopen, GetNew, GetLoad, GetSetRead, GetNext,
       GetFound, GetNull, GetEnd, store, hist
  <2>5. pc[t] \in GetSteps \/ (\E u \in Threads : pc[u] \in GetSteps) =>
          \A a \in Listed : Content(a)' = Content(a)
    BY <1>0, <2>1 DEF SameView
  <2>6. ASSUME pc'[t] \in GetSteps PROVE Walk(t)'
    <3>1. CASE pc[t] \in GetSteps
      BY <1>2, <2>5, <2>6, <3>1, GetWalk
    <3>2. CASE pc[t] \notin GetSteps
      <4>1. PICK k \in Keys : GetCall(t, k)
        BY <1>2, <3>2 DEF GetStep, GetCount, GetHead, GetUnopen, GetNew, GetLoad, GetSetRead, GetNext,
           GetFound, GetNull, Step, Looking, GetSteps, Opening
      <4>2. /\ pc'[t] = "get" /\ want'[t] = k /\ seen'[t] = {x \in acked : KeyOf[x] = k}
            /\ acked' = acked
        BY <4>1 DEF GetCall, Step, TypeInv, PlainTypes, HistoryInv, HistoryTypes
      <4> QED
        BY <4>2 DEF Walk
    <3> QED
      BY <3>1, <3>2
  <2>7. ASSUME NEW u \in Threads, u # t, pc'[u] \in GetSteps PROVE Walk(u)'
    <3>1. pc[u] \in GetSteps /\ Walk(u)
      BY <2>3, <2>7 DEF Walks
    <3> HIDE Facts
    <3> QED
      BY <2>3, <2>4, <2>5, <2>7, <3>1, SameWalk
  <2> QED
    BY <2>6, <2>7 DEF Walks
<1>3. CASE \/ \E id \in Ids : JobHead(id) \/ JobData(id)
           \/ FlushAndClose \/ Crash \/ UNCHANGED vars
  <2>1. UNCHANGED <<list, pc, seen, want, i, pos, acked>>
    BY <1>3 DEF JobHead, JobData, FlushAndClose, FlushManifest, FlushManifestWrite, FlushHead,
       FlushData, FlushSkip, FlushDone, FlushStep, Close, Crash, vars, store, getVars, hist
  <2>2. \A a \in Used : Content(a)' = Content(a)
    <3>1. CASE UNCHANGED vars
      BY <3>1 DEF vars, store, content, disk, Content
    <3>2. CASE \E id \in Ids : JobHead(id) \/ JobData(id)
      BY <1>0, <3>2, JobStruct, JobView DEF SameView
    <3>3. CASE FlushAndClose \/ Crash
      BY <1>0, <3>3, FlushStruct, EndView DEF SameView
    <3> QED
      BY <1>3, <3>1, <3>2, <3>3
  <2>3. ASSUME NEW u \in Threads, pc'[u] \in GetSteps PROVE Walk(u)'
    <3>1. pc[u] \in GetSteps /\ Walk(u)
      BY <2>1, <2>3 DEF Walks
    <3>2. \A a \in Listed : Content(a)' = Content(a)
      BY <1>0, <2>2, <3>1
    <3> HIDE Facts
    <3> QED
      BY <2>1, <2>3, <3>1, <3>2, SameWalk
  <2> QED
    BY <2>3 DEF Walks
<1>4. CASE OpenNew \/ OpenManifest
  BY <1>4 DEF OpenNew, OpenManifest, Fresh, Walks, GetSteps, Opening
<1> QED
  BY <1>1, <1>2, <1>3, <1>4 DEF Next

-----------------------------------------------------------------------------
GetInv ==
  /\ TypeInv /\ Ended /\ AllCounted
  /\ Calm => StructInv /\ ItemsInv /\ Walks

LEMMA InitGets == Init => GetInv
<1> SUFFICES ASSUME Init PROVE GetInv
  OBVIOUS
<1>1. TypeInv /\ Ended /\ AllCounted
  BY InitTypes DEF Init, Ended, Idle, AllCounted
<1>2. Used = {} /\ ToReopen = {} /\ acked = {}
  BY DEF Init, Used, Listed, ToReopen
<1>3. StructInv
  BY MakerAssumption DEF Init, StructInv, Apart, BuiltTables, Creations, PutTables, OpenTables, FlushPlace, PutSteps,
     PutPhase, Opening
<1>4. ItemsInv
  <2>1. NewEmpty /\ Loaded /\ Reopened /\ Order /\ Present
    BY <1>2 DEF Init, NewEmpty, Loaded, Reopened, Order, Present, PutPhase
  <2>2. Acks
    BY <1>2 DEF Init, Acks, PutSteps
  <2> QED
    BY <2>1, <2>2 DEF ItemsInv
<1>5. Walks
  BY DEF Init, Walks, GetSteps, Opening
<1> QED
  BY <1>1, <1>3, <1>4, <1>5 DEF GetInv

\* What has been noticed once stays noticed.
LEMMA CalmBefore == ASSUME [Next]_vars, Calm' PROVE Calm
<1>1. ASSUME NEW t \in Threads, CallerStep(t) PROVE Calm
  <2>1. CASE \/ \E x \in Items : PutCall(t, x)
             \/ \E k \in Keys : GetCall(t, k)
             \/ GetUnopen(t)
    <3>1. (overlap => overlap') /\ (twice => twice')
      <4>1. CASE \E x \in Items : PutCall(t, x)
        <5>1. PICK x \in Items : PutCall(t, x)
          BY <4>1
        <5> QED
          BY <5>1, Zenon DEF PutCall
      <4>2. CASE \E k \in Keys : GetCall(t, k)
        <5>1. PICK k \in Keys : GetCall(t, k)
          BY <4>2
        <5> QED
          BY <5>1, Zenon DEF GetCall
      <4>3. CASE GetUnopen(t)
        BY <4>3, Zenon DEF GetUnopen
      <4> QED
        BY <2>1, <4>1, <4>2, <4>3
    <3> QED
      BY <3>1 DEF Calm
  <2>2. CASE PutStep(t)
    <3>1. UNCHANGED <<overlap, twice>>
      BY <2>2 DEF PutStep, PutStart, PutStartCreate, CreateAdd, CreateOpen, CreateWrite, PutNotWriting,
         PutWriting, PutReplace, PutReserve, PutLink, PutFull, PutRejected, RotateFirst, RotateOther, hist
    <3> QED
      BY <3>1 DEF Calm
  <2>3. CASE GetStep(t) /\ ~GetUnopen(t)
    <3>1. UNCHANGED <<overlap, twice>>
      BY <2>3 DEF GetStep, GetCount, GetHead, GetNew, GetLoad, GetSetRead, GetNext, GetFound, GetNull,
         GetEnd, hist
    <3> QED
      BY <3>1 DEF Calm
  <2> QED
    BY <1>1, <2>1, <2>2, <2>3 DEF CallerStep
<1>2. CASE \/ \E id \in Ids : JobHead(id) \/ JobData(id)
           \/ FlushAndClose \/ Crash \/ OpenNew \/ OpenManifest \/ UNCHANGED vars
  BY <1>2 DEF Calm, JobHead, JobData, FlushAndClose, FlushManifest, FlushManifestWrite, FlushHead,
     FlushData, FlushSkip, FlushDone, FlushStep, Close, Crash, OpenNew, OpenManifest, vars, hist
<1> QED
  BY <1>1, <1>2 DEF Next, CallerStep

LEMMA GetInvKept == GetInv /\ [Next]_vars => GetInv'
<1> SUFFICES ASSUME GetInv, [Next]_vars PROVE GetInv'
  OBVIOUS
<1>1. TypeInv' /\ Ended' /\ AllCounted'
  BY TypeStep, EndedKept, CountKept DEF GetInv
<1>2. ASSUME Calm' PROVE StructInv' /\ ItemsInv' /\ Walks'
  BY <1>2, CalmBefore, StructKept, ItemsKept, WalksKept DEF GetInv
<1> QED
  BY <1>1, <1>2 DEF GetInv

LEMMA GetInvariance == Spec => []GetInv
  BY InitGets, GetInvKept, PTL DEF Spec

\* What the two ends of a get rest on.
LEMMA EndsRight ==
  ASSUME GetInv, Calm, NEW t \in Threads
  PROVE  /\ GetNull(t) => seen[t] = {}
         /\ GetFound(t) => \E x \in Match(t) : ~Outdated(x, seen[t])
<1> USE Facts
<1>0. /\ TypeInv /\ StructInv /\ ItemsInv /\ Walks
      /\ DOMAIN i = Threads /\ i[t] \in Int
  BY DEF GetInv, TypeInv, PlaceInv, GetTypes
<1>1. ASSUME pc[t] \in {"visit", "look"}
      PROVE  Used = Listed /\ Passed(t) /\ seen[t] \subseteq {x \in acked : KeyOf[x] = want[t]}
  BY <1>0, <1>1, GetsAlone DEF StructInv, Walks, Walk, GetSteps
\* The table whose items of y's key are not older than y has not been passed.
<1>2. ASSUME pc[t] \in {"visit", "look"}, NEW y \in seen[t]
      PROVE  /\ pos[t] # NULL
             /\ \A x \in Content(pos[t]) : KeyOf[x] = want[t] => x \notin older[y]
  <2>1. y \in acked /\ KeyOf[y] = want[t]
    BY <1>1, <1>2
  <2>2. PICK b \in Used :
          /\ \E z \in Content(b) : Same(z, y)
          /\ \A a \in Used : a >= b => \A x \in Content(a) : Same(x, y) => x \notin older[y]
    BY <1>0, <2>1 DEF ItemsInv, Present
  <2>3. pos[t] # NULL /\ ~(b > pos[t])
    BY <1>1, <1>2, <2>1, <2>2 DEF Passed, Same
  <2>4. pos[t] \in Used /\ Used \subseteq Ids
    BY <1>0, <1>1, <1>2, <2>3, UsedIds DEF PlaceInv, Places, Listed
  <2>5. pos[t] >= b
    BY <2>3, <2>4 DEF Ids
  <2> QED
    BY <2>1, <2>2, <2>3, <2>4, <2>5 DEF Same
<1>3. ASSUME GetNull(t) PROVE seen[t] = {}
  <2>1. pc[t] = "visit" /\ (pos[t] = NULL \/ ~(i[t] >= 0))
    BY <1>3 DEF GetNull, Visiting
  <2>2. pos[t] # NULL => i[t] >= 0
    <3>1. pos[t] # NULL => \E n \in 1 .. Len(list) : list[n] = pos[t] /\ i[t] >= Len(list) - n
      BY <1>0, <2>1 DEF PlaceInv, Places, Walks, Walk, GetSteps
    <3> QED
      BY <1>0, <3>1
  <2> QED
    BY <1>2, <2>1, <2>2
<1>4. ASSUME GetFound(t) PROVE \E x \in Match(t) : ~Outdated(x, seen[t])
  <2>1. /\ pc[t] \in {"visit", "look"} /\ status[pos[t]] # "UNOPEN"
        /\ Match(t) # {}
    BY <1>0, <1>4 DEF GetFound, Looking, StructInv, OpenTables
  <2>2. PICK x \in Match(t) : TRUE
    BY <2>1
  <2>3. x \in Content(pos[t]) /\ KeyOf[x] = want[t]
    BY <2>1, <2>2 DEF Match, Content
  <2>4. \A y \in seen[t] : x \notin older[y]
    BY <1>2, <2>1, <2>3
  <2> QED
    BY <2>2, <2>4 DEF Outdated
<1> QED
  BY <1>3, <1>4

\* A get is right, as long as no put has run beside a get and no two gets have
\* opened one table: sstmanager_get, which takes no lock, returns NULL only for
\* a key without acknowledged items, and an item that no put acknowledged before
\* the call had replaced.  This holds over any number of tables, rotations,
\* flushes, crashes and restarts.
THEOREM GetsAreRight == Spec => GetIsRight
<1> DEFINE A == \A t \in Threads : ~overlap /\ ~twice =>
                  /\ GetNull(t) => seen[t] = {}
                  /\ GetFound(t) => \E x \in Match(t) : ~Outdated(x, seen[t])
<1>1. GetInv /\ [Next]_vars => [A]_vars
  <2> SUFFICES ASSUME GetInv PROVE A
    OBVIOUS
  <2> QED
    BY EndsRight DEF Calm
<1> QED
  BY <1>1, GetInvariance, PTL DEF Spec, GetIsRight

-----------------------------------------------------------------------------
(* What the flushes write *)

\* A table whose file and hash table stay as they are.
Undisturbed(id) ==
  /\ htable'[id] = "built" <=> htable[id] = "built"
  /\ file'[id] = file[id]
  /\ htable[id] = "built" =>
       /\ mem'[<<id, "built">>] = mem[<<id, "built">>]
       /\ key_num'[<<id, "built">>] >= key_num[<<id, "built">>]
       /\ status'[id] = "READ" <=> status[id] = "READ"
       /\ job'[id] = "data" => job[id] = "data"
       /\ phase' = "flush" /\ mstep' = "data" /\ id = list'[mpos'] =>
            phase = "flush" /\ mstep = "data" /\ id = list[mpos]

LEMMA SameWritten ==
  ASSUME CellTypes, CellTypes', NEW id \in Ids, WrittenAt(id), Undisturbed(id)
  PROVE  WrittenAt(id)'
<1>1. CASE htable[id] # "built"
  BY <1>1 DEF Undisturbed, WrittenAt, Whole
<1>2. CASE htable[id] = "built"
  <2>1. HeadFits(id) => HeadFits(id)'
    <3>1. /\ <<id, "built">> \in Tables
          /\ key_num[<<id, "built">>] \in Int /\ key_num'[<<id, "built">>] \in Int
          /\ file[id].num \in Int
      BY BoundsAssumption DEF Tables, Makers, CellTypes
    <3> QED
      BY <1>2, <3>1 DEF Undisturbed, HeadFits
  <2> QED
    BY <1>2, <2>1 DEF Undisturbed, WrittenAt, Filled
<1> QED
  BY <1>1, <1>2

\* When no put is running the head of a file counts the items.
LEMMA IdleFits ==
  ASSUME TypeInv, StructInv, Idle, NEW id \in Ids, htable[id] = "built", HeadFits(id)
  PROVE  file[id].num = Cardinality(mem[<<id, "built">>])
<1>1. <<id, "built">> \in ready
  BY DEF StructInv, BuiltTables
<1>2. Linking(<<id, "built">>) = {}
  BY DEF Idle, Linking
<1>3. Cardinality({}) = 0
  BY FS_EmptySet
<1>4. /\ key_num[<<id, "built">>] = Cardinality(mem[<<id, "built">>]) + 0
      /\ IsFiniteSet(mem[<<id, "built">>])
  BY <1>1, <1>2, <1>3 DEF TypeInv, CellInv, Counted
<1>5. Cardinality(mem[<<id, "built">>]) \in Nat /\ file[id].num \in Int
  BY <1>4, FS_CardinalityType DEF TypeInv, CellInv, CellTypes
<1> QED
  BY <1>4, <1>5 DEF HeadFits

\* While nobody puts, every file of the list is whole.
LEMMA AllWhole ==
  ASSUME TypeInv, StructInv, Idle, NEW id \in Used, WrittenAt(id) PROVE Whole(id)
<1>1. CASE htable[id] = "built" /\ status[id] = "READ"
  <2>1. id \in Ids
    BY UsedIds DEF TypeInv, IInv
  <2> QED
    BY <1>1, <2>1, IdleFits DEF WrittenAt, Filled, Whole
<1>2. CASE ~(htable[id] = "built" /\ status[id] = "READ")
  BY <1>2 DEF WrittenAt, Filled, Whole
<1> QED
  BY <1>1, <1>2

\* The counter of a table that puts fill is never below its items.
LEMMA CounterFits ==
  ASSUME TypeInv, StructInv, NEW id \in Ids, htable[id] = "built"
  PROVE  Cardinality(mem[<<id, "built">>]) <= key_num[<<id, "built">>]
<1>1. <<id, "built">> \in ready
  BY DEF StructInv, BuiltTables
<1>2. /\ Cardinality(mem[<<id, "built">>]) \in Nat /\ Cardinality(Linking(<<id, "built">>)) \in Nat
      /\ key_num[<<id, "built">>] = Cardinality(mem[<<id, "built">>]) + Cardinality(Linking(<<id, "built">>))
  BY <1>1, FS_CardinalityType DEF TypeInv, CellInv, Counted
<1> QED
  BY <1>2

\* Steps that disturb no table.
LEMMA QuietWritten ==
  ASSUME TypeInv, TypeInv', Written, Used' \subseteq Used, ToReopen' \subseteq ToReopen,
         \A id \in Used : Undisturbed(id), \A id \in ToReopen : file'[id] = file[id]
  PROVE  Written'
<1>1. Used \subseteq Ids /\ CellTypes /\ CellTypes'
  BY UsedIds DEF TypeInv, IInv, CellInv
<1>2. \A id \in Used' : WrittenAt(id)'
  BY <1>1, SameWritten DEF Written
<1>3. \A id \in ToReopen' : Whole(id)'
  BY DEF Written, Whole
<1> QED
  BY <1>2, <1>3 DEF Written

\* Steps that disturb one.
LEMMA OneWritten ==
  ASSUME TypeInv, TypeInv', Written, ToReopen' \subseteq ToReopen, NEW c \in Ids,
         Used' \subseteq Used \cup {c},
         \A id \in Used : id # c => Undisturbed(id),
         \A id \in ToReopen : id # c => file'[id] = file[id],
         WrittenAt(c)', c \in ToReopen => Whole(c)'
  PROVE  Written'
<1>1. Used \subseteq Ids /\ CellTypes /\ CellTypes'
  BY UsedIds DEF TypeInv, IInv, CellInv
<1>2. \A id \in Used' : WrittenAt(id)'
  BY <1>1, SameWritten DEF Written
<1>3. \A id \in ToReopen' : id # c => Whole(id)'
  BY DEF Written, Whole
<1> QED
  BY <1>2, <1>3 DEF Written

LEMMA PutWritten ==
  ASSUME TypeInv, TypeInv', StructInv, ItemsInv, Written, ~lateWrite', NEW t \in Threads,
         PutStep(t) \/ \E x \in Items : PutCall(t, x),
         ~CreateOpen(t) => Used' = Used,
         CreateOpen(t) => Used' = Used \cup {cur[t]} /\ cur[t] \notin Used
  PROVE  Written'
<1> USE Facts
<1>0. /\ phase = "up" /\ phase' = "up" /\ manifest' = manifest
      /\ ToReopen' = ToReopen
      /\ Used \subseteq Ids /\ CellTypes /\ CellTypes' /\ ToReopen \subseteq Used
  BY CallersRun, UsedIds DEF CallerStep, main, ToReopen, TypeInv, CellInv, ItemsInv, Reopened
<1>1. CASE \/ \E x \in Items : PutCall(t, x)
           \/ PutStart(t) \/ PutStartCreate(t) \/ PutNotWriting(t) \/ PutWriting(t)
           \/ PutFull(t) \/ PutRejected(t) \/ RotateOther(t)
  <2>1. /\ UNCHANGED <<status, htable, file, mem, key_num, job>> /\ Used' = Used
        /\ key_num \in [Tables -> -1 .. Max]
    BY <1>0, <1>1 DEF PutCall, PutStart, PutStartCreate, PutNotWriting, PutWriting, PutFull, PutRejected,
       RotateOther, CreateOpen, Step, store, content, disk, CellTypes
  <2>2. \A id \in Used : Undisturbed(id)
    <3> SUFFICES ASSUME NEW id \in Used PROVE Undisturbed(id)
      OBVIOUS
    <3>1. key_num'[<<id, "built">>] >= key_num[<<id, "built">>]
      BY <1>0, <2>1, BoundsAssumption DEF Tables, Makers
    <3> QED
      BY <1>0, <2>1, <3>1 DEF Undisturbed
  <2> QED
    BY <1>0, <2>1, <2>2, QuietWritten
<1>2. CASE RotateFirst(t)
  <2>1. /\ UNCHANGED <<htable, file, mem, key_num>>
        /\ status[cur[t]] = "WRITE" /\ status' = [status EXCEPT ![cur[t]] = "FLUSH"]
        /\ job' = [job EXCEPT ![cur[t]] = "queued"] /\ Used' = Used
    BY <1>2 DEF RotateFirst, Step, content, disk, CreateOpen
  <2>2. \A id \in Used : Undisturbed(id)
    <3> SUFFICES ASSUME NEW id \in Used PROVE Undisturbed(id)
      OBVIOUS
    <3>1. key_num'[<<id, "built">>] >= key_num[<<id, "built">>]
      BY <1>0, <2>1, BoundsAssumption DEF Tables, Makers, CellTypes
    <3>2. id \in Ids
      BY <1>0
    <3>3. (status'[id] = "READ" <=> status[id] = "READ") /\ (job'[id] = "data" => job[id] = "data")
      BY <2>1, <3>2
    <3> QED
      BY <1>0, <2>1, <3>1, <3>3 DEF Undisturbed
  <2> QED
    BY <1>0, <2>1, <2>2, QuietWritten
<1>3. CASE CreateAdd(t)
  <2>1. /\ UNCHANGED <<file, mem, key_num, job>> /\ Used' = Used
        /\ status' = [status EXCEPT ![current_id] = "UNOPEN"]
        /\ htable' = [htable EXCEPT ![current_id] = NULL]
    BY <1>3 DEF CreateAdd, Step, content, disk, CreateOpen
  <2>2. current_id \notin Used
    <3>1. current_id \notin Listed
      BY UsedIds DEF IdsInv, ListInv, Listed, Types
    <3> QED
      BY <3>1, UsedIds
  <2>3. \A id \in Used : Undisturbed(id)
    <3> SUFFICES ASSUME NEW id \in Used PROVE Undisturbed(id)
      OBVIOUS
    <3>1. key_num'[<<id, "built">>] >= key_num[<<id, "built">>]
      BY <1>0, <2>1, BoundsAssumption DEF Tables, Makers, CellTypes
    <3>2. status'[id] = status[id] /\ htable'[id] = htable[id]
      BY <2>1, <2>2
    <3> QED
      BY <1>0, <2>1, <3>1, <3>2 DEF Undisturbed
  <2> QED
    BY <1>0, <2>1, <2>3, QuietWritten
<1>4. CASE CreateOpen(t)
  <2>1. /\ pc[t] = "open" /\ UNCHANGED <<status, mem, key_num, job>>
        /\ htable' = [htable EXCEPT ![cur[t]] = "built"]
        /\ file' = [file EXCEPT ![cur[t]] = NoFile]
        /\ Used' = Used \cup {cur[t]} /\ cur[t] \notin Used
    BY <1>4 DEF CreateOpen
  <2>2. PICK c \in Ids : c = cur[t] /\ c \notin Used /\ status[c] = "UNOPEN"
    BY <2>1, StepTables DEF StructInv, Creations
  <2>3. job[c] = "none"
    BY <2>2 DEF StructInv, BuiltTables
  <2>4. /\ htable'[c] = "built" /\ file'[c].items = {}
        /\ \A id \in Ids : id # c => htable'[id] = htable[id] /\ file'[id] = file[id]
    BY <1>0, <2>1, <2>2 DEF CellTypes, NoFile
  <2>5. WrittenAt(c)'
    BY <1>0, <2>1, <2>2, <2>3, <2>4 DEF WrittenAt, Filled
  <2>6. \A id \in Used : id # c => Undisturbed(id)
    <3> SUFFICES ASSUME NEW id \in Used, id # c PROVE Undisturbed(id)
      OBVIOUS
    <3>1. key_num'[<<id, "built">>] >= key_num[<<id, "built">>]
      BY <1>0, <2>1, BoundsAssumption DEF Tables, Makers, CellTypes
    <3> QED
      BY <1>0, <2>1, <2>4, <3>1 DEF Undisturbed
  <2> HIDE Facts
  <2> QED
    BY <1>0, <2>1, <2>2, <2>4, <2>5, <2>6, OneWritten
<1>5. CASE CreateWrite(t)
  <2>1. /\ pc[t] = "write" /\ UNCHANGED <<htable, file, mem, key_num, job>> /\ Used' = Used
        /\ status' = [status EXCEPT ![cur[t]] = "WRITE"]
    BY <1>5 DEF CreateWrite, Step, content, disk, CreateOpen
  <2>2. cur[t] \in Ids /\ status[cur[t]] = "UNOPEN"
    BY <2>1, StepTables DEF StructInv, Creations
  <2>3. \A id \in Used : Undisturbed(id)
    <3> SUFFICES ASSUME NEW id \in Used PROVE Undisturbed(id)
      OBVIOUS
    <3>1. key_num'[<<id, "built">>] >= key_num[<<id, "built">>]
      BY <1>0, <2>1, BoundsAssumption DEF Tables, Makers, CellTypes
    <3>2. status'[id] = "READ" <=> status[id] = "READ"
      BY <1>0, <2>1, <2>2
    <3> QED
      BY <1>0, <2>1, <3>1, <3>2 DEF Undisturbed
  <2> QED
    BY <1>0, <2>1, <2>3, QuietWritten
<1>6. CASE PutReserve(t)
  <2>1. /\ UNCHANGED <<status, htable, file, mem, job>> /\ Used' = Used
        /\ key_num' = [key_num EXCEPT ![ht[t]] = @ + 1]
    BY <1>6 DEF PutReserve, Step, store, disk, CreateOpen
  <2>2. \A id \in Used : Undisturbed(id)
    <3> SUFFICES ASSUME NEW id \in Used PROVE Undisturbed(id)
      OBVIOUS
    <3>1. key_num'[<<id, "built">>] >= key_num[<<id, "built">>]
      <4>1. PICK h \in Tables : h = <<id, "built">>
        BY <1>0 DEF Tables, Makers
      <4>2. key_num[h] \in Int /\ DOMAIN key_num = Tables
        BY <1>0, BoundsAssumption DEF CellTypes
      <4>3. key_num'[h] = key_num[h] \/ key_num'[h] = key_num[h] + 1
        BY <2>1, <4>2
      <4> QED
        BY <4>1, <4>2, <4>3
    <3> QED
      BY <1>0, <2>1, <3>1 DEF Undisturbed
  <2> QED
    BY <1>0, <2>1, <2>2, QuietWritten
<1>7. CASE PutReplace(t) \/ PutLink(t)
  <2>1. PICK c \in Ids : c = cur[t] /\ ht[t] = <<c, "built">> /\ htable[c] = "built"
    BY <1>0, <1>7, UsedIds DEF PutReplace, PutLink, Step, StructInv, PutTables, PutPhase
  <2>2. status[c] = "WRITE"
    BY <1>7, <2>1, Zenon DEF PutReplace, PutLink
  <2>3. job[c] = "none"
    BY <2>2 DEF StructInv, BuiltTables
  <2>4. /\ UNCHANGED <<status, htable, file, key_num, job>> /\ Used' = Used
        /\ \E s : mem' = [mem EXCEPT ![<<c, "built">>] = s]
    BY <1>7, <2>1 DEF PutReplace, PutLink, Step, store, disk, CreateOpen
  <2>5. \A id \in Ids : id # c => mem'[<<id, "built">>] = mem[<<id, "built">>]
    BY <1>0, <2>4 DEF CellTypes, Tables, Makers
  <2>6. \A id \in Used : id # c => Undisturbed(id)
    <3> SUFFICES ASSUME NEW id \in Used, id # c PROVE Undisturbed(id)
      OBVIOUS
    <3>1. key_num'[<<id, "built">>] >= key_num[<<id, "built">>]
      BY <1>0, <2>4, BoundsAssumption DEF Tables, Makers, CellTypes
    <3> QED
      BY <1>0, <2>4, <2>5, <3>1 DEF Undisturbed
  <2>7. WrittenAt(c)'
    <3>1. c \in Used /\ file[c].items = {}
      BY <2>1, <2>2 DEF StructInv, BuiltTables, Written, WrittenAt, Filled
    <3> QED
      BY <1>0, <2>1, <2>2, <2>3, <2>4, <3>1 DEF WrittenAt, Filled
  <2>8. c \in ToReopen => Whole(c)'
    BY <2>4 DEF Written, Whole
  <2> HIDE Facts
  <2> QED
    BY <1>0, <2>4, <2>6, <2>7, <2>8, OneWritten
<1> QED
  BY <1>1, <1>2, <1>3, <1>4, <1>5, <1>6, <1>7 DEF PutStep

LEMMA GetWritten ==
  ASSUME TypeInv, TypeInv', StructInv, ItemsInv, Written, Used' = Used, NEW t \in Threads,
         GetStep(t) \/ \E k \in Keys : GetCall(t, k)
  PROVE  Written'
<1> USE Facts
<1>0. /\ phase = "up" /\ phase' = "up" /\ manifest' = manifest
      /\ ToReopen' = ToReopen /\ UNCHANGED <<file, job>>
      /\ Used \subseteq Ids /\ CellTypes /\ CellTypes'
  <2>1. UNCHANGED <<file, job>>
    BY DEF GetCall, GetStep, GetCount, GetHead, GetUnopen, GetNew, GetLoad, GetSetRead, GetNext,
       GetFound, GetNull, GetEnd, Step, disk
  <2> QED
    BY <2>1, CallersRun, UsedIds DEF CallerStep, main, ToReopen, TypeInv, CellInv
<1>1. CASE GetNew(t) \/ GetLoad(t) \/ GetSetRead(t)
  <2>1. PICK p \in Ids : p = pos[t] /\ p \in Used /\ status[p] = "UNOPEN" /\ \A u \in Threads : pc[u] # "write"
    <3>1. pc[t] \in Opening
      BY <1>1 DEF GetNew, GetLoad, GetSetRead, Step, Opening
    <3> QED
      BY <3>1, OpenerFacts DEF StructInv, OpenTables, PutSteps
  <2>2. htable[p] # "built" /\ t # "built"
    BY <2>1, MakerAssumption DEF StructInv, BuiltTables
  <2>3. /\ htable' = htable \/ htable' = [htable EXCEPT ![p] = t]
        /\ status' = status \/ status' = [status EXCEPT ![p] = "READ"]
        /\ mem' = mem \/ \E s : mem' = [mem EXCEPT ![<<p, t>>] = s]
        /\ key_num' = key_num \/ \E n : key_num' = [key_num EXCEPT ![<<p, t>>] = n]
    BY <1>1, <2>1 DEF GetNew, GetLoad, GetSetRead, store, content
  <2>4. ASSUME NEW id \in Used PROVE Undisturbed(id)
    <3>1. <<id, "built">> # <<p, t>> /\ <<id, "built">> \in Tables /\ id \in Ids
      BY <1>0, <2>2 DEF Tables, Makers
    <3>2. mem'[<<id, "built">>] = mem[<<id, "built">>]
      BY <1>0, <2>3, <3>1 DEF CellTypes
    <3>3. key_num'[<<id, "built">>] = key_num[<<id, "built">>] /\ key_num[<<id, "built">>] \in Int
      BY <1>0, <2>3, <3>1, BoundsAssumption DEF CellTypes
    <3>4. htable'[id] = "built" <=> htable[id] = "built"
      <4>1. CASE id = p
        <5>1. htable'[p] = htable[p] \/ htable'[p] = t
          BY <2>3
        <5> QED
          BY <2>2, <4>1, <5>1
      <4>2. CASE id # p
        BY <2>3, <3>1, <4>2
      <4> QED
        BY <4>1, <4>2
    <3>5. id # p => status'[id] = status[id]
      BY <2>3, <3>1
    <3> QED
      BY <1>0, <2>2, <3>2, <3>3, <3>4, <3>5 DEF Undisturbed
  <2> QED
    BY <1>0, <2>4, QuietWritten
<1>2. CASE ~(GetNew(t) \/ GetLoad(t) \/ GetSetRead(t))
  <2>1. UNCHANGED <<htable, status, mem, key_num>>
    BY <1>2 DEF GetCall, GetStep, GetCount, GetHead, GetUnopen, GetNext, GetFound, GetNull, GetEnd,
       store, content
  <2>2. ASSUME NEW id \in Used PROVE Undisturbed(id)
    <3>1. key_num'[<<id, "built">>] >= key_num[<<id, "built">>]
      BY <1>0, <2>1, BoundsAssumption DEF Tables, Makers, CellTypes
    <3> QED
      BY <1>0, <2>1, <3>1 DEF Undisturbed
  <2> QED
    BY <1>0, <2>2, QuietWritten
<1> QED
  BY <1>1, <1>2

\* The head of a file, written while puts may be linking.
LEMMA HeadWritten ==
  ASSUME TypeInv, TypeInv', StructInv, ItemsInv, Written, Used' = Used, ToReopen' = ToReopen,
         NEW c \in Ids, status[c] \in {"WRITE", "FLUSH"},
         file' = WriteHead(c), UNCHANGED <<htable, status, mem, key_num>>,
         \A id \in Ids : id # c =>
           /\ job'[id] = "data" => job[id] = "data"
           /\ phase' = "flush" /\ mstep' = "data" /\ id = list'[mpos'] =>
                phase = "flush" /\ mstep = "data" /\ id = list[mpos]
  PROVE  Written'
<1>1. Used \subseteq Ids /\ CellTypes /\ ToReopen' \subseteq ToReopen /\ ToReopen \subseteq Ids
  BY UsedIds DEF TypeInv, IInv, CellInv, ItemsInv, Reopened
<1>2. htable[c] = "built" /\ <<c, "built">> \in Tables
  BY DEF StructInv, BuiltTables, Tables, Makers
<1>3. /\ file'[c] = [num |-> key_num[<<c, "built">>], items |-> {}]
      /\ \A id \in Ids : id # c => file'[id] = file[id]
  BY <1>1, <1>2 DEF WriteHead, FlushTable, CellTypes
<1>4. HeadFits(c)'
  <2>1. Cardinality(mem[<<c, "built">>]) <= key_num[<<c, "built">>] /\ key_num[<<c, "built">>] \in Int
    BY <1>1, <1>2, CounterFits, BoundsAssumption DEF CellTypes
  <2> QED
    BY <1>3, <2>1 DEF HeadFits
<1>5. WrittenAt(c)'
  BY <1>2, <1>3, <1>4 DEF WrittenAt, Filled
<1>6. ASSUME NEW id \in Used, id # c PROVE Undisturbed(id)
  <2>1. key_num'[<<id, "built">>] >= key_num[<<id, "built">>]
    BY <1>1, BoundsAssumption DEF Tables, Makers, CellTypes
  <2> QED
    BY <1>1, <1>3, <1>6, <2>1 DEF Undisturbed
<1>7. Whole(c)'
  BY <1>3 DEF Whole
<1> QED
  BY <1>1, <1>3, <1>5, <1>6, <1>7, OneWritten

\* Its data, when the head has been written.
LEMMA DataWritten ==
  ASSUME TypeInv, TypeInv', StructInv, ItemsInv, Written, Used' = Used, ToReopen' = ToReopen,
         NEW c \in Ids, status[c] \in {"WRITE", "FLUSH"}, HeadFits(c), phase # "up" => Idle,
         file' = WriteData(c), status' = [status EXCEPT ![c] = "READ"],
         UNCHANGED <<htable, mem, key_num>>,
         \A id \in Ids : id # c =>
           /\ job'[id] = "data" => job[id] = "data"
           /\ phase' = "flush" /\ mstep' = "data" /\ id = list'[mpos'] =>
                phase = "flush" /\ mstep = "data" /\ id = list[mpos]
  PROVE  Written'
<1>1. Used \subseteq Ids /\ CellTypes /\ ToReopen' \subseteq ToReopen /\ ToReopen \subseteq Ids
  BY UsedIds DEF TypeInv, IInv, CellInv, ItemsInv, Reopened
<1>2. htable[c] = "built" /\ <<c, "built">> \in Tables
  BY DEF StructInv, BuiltTables, Tables, Makers
<1>3. /\ file'[c].num = file[c].num /\ file'[c].items = mem[<<c, "built">>]
      /\ \A id \in Ids : id # c => file'[id] = file[id]
  BY <1>1, <1>2 DEF WriteData, FlushTable, CellTypes
<1>4. status'[c] = "READ" /\ \A id \in Ids : id # c => status'[id] = status[id]
  BY DEF TypeInv, IInv, Types
<1>5. HeadFits(c)'
  BY <1>3 DEF HeadFits
<1>6. WrittenAt(c)'
  BY <1>2, <1>3, <1>4, <1>5 DEF WrittenAt, Filled
<1>7. ASSUME NEW id \in Used, id # c PROVE Undisturbed(id)
  <2>1. key_num'[<<id, "built">>] >= key_num[<<id, "built">>]
    BY <1>1, BoundsAssumption DEF Tables, Makers, CellTypes
  <2> QED
    BY <1>1, <1>3, <1>4, <1>7, <2>1 DEF Undisturbed
<1>8. c \in ToReopen => Whole(c)'
  <2> SUFFICES ASSUME c \in ToReopen PROVE Whole(c)'
    OBVIOUS
  <2>1. Idle
    BY <1>2 DEF ItemsInv, Reopened
  <2>2. file[c].num = Cardinality(mem[<<c, "built">>])
    BY <1>2, <2>1, IdleFits
  <2> QED
    BY <1>3, <2>2 DEF Whole
<1> QED
  BY <1>1, <1>3, <1>6, <1>7, <1>8, OneWritten

LEMMA JobWritten ==
  ASSUME TypeInv, TypeInv', Ended, StructInv, ItemsInv, Written, Used' = Used, NEW c \in Ids,
         JobHead(c) \/ JobData(c)
  PROVE  Written'
<1> USE Facts
<1>0. /\ UNCHANGED <<phase, list, mpos, mstep, manifest, htable, mem, key_num>>
      /\ phase # "down"
  BY DEF JobHead, JobData, main, store, content
<1>1. /\ UNCHANGED <<phase, list, mpos, mstep, manifest, htable, mem, key_num>>
      /\ phase # "down" /\ ToReopen' = ToReopen
  BY <1>0 DEF ToReopen
<1>2. status[c] = "FLUSH" /\ htable[c] = "built" /\ c \in Used
  BY DEF JobHead, JobData, StructInv, BuiltTables
<1>3. CASE JobHead(c)
  <2>1. file' = WriteHead(c) /\ job' = [job EXCEPT ![c] = "data"] /\ UNCHANGED status
    BY <1>3 DEF JobHead, store
  <2>2. \A id \in Ids : id # c => job'[id] = job[id]
    BY <2>1
  <2> HIDE Facts
  <2> QED
    BY <1>1, <1>2, <2>1, <2>2, HeadWritten
<1>4. CASE JobData(c)
  <2>1. /\ file' = WriteData(c) /\ job[c] = "data" /\ job' = [job EXCEPT ![c] = "none"]
        /\ status' = [status EXCEPT ![c] = "READ"]
    BY <1>4 DEF JobData
  <2>2. \A id \in Ids : id # c => job'[id] = job[id]
    BY <2>1
  <2>3. HeadFits(c)
    BY <1>2, <2>1 DEF Written, WrittenAt, Filled
  <2>4. phase # "up" => Idle
    BY <1>1 DEF Ended, TypeInv, PlainTypes
  <2> HIDE Facts
  <2> QED
    BY <1>1, <1>2, <2>1, <2>2, <2>3, <2>4, DataWritten
<1> QED
  BY <1>3, <1>4

LEMMA EndWritten ==
  ASSUME TypeInv, TypeInv', Ended, StructInv, ItemsInv, Written, Used' = Used, FlushAndClose \/ Crash
  PROVE  Written'
<1> USE Facts
<1>0. /\ UNCHANGED <<list, htable, mem, key_num, job>>
      /\ Used \subseteq Ids /\ CellTypes
  BY UsedIds DEF FlushAndClose, FlushManifest, FlushManifestWrite, FlushHead, FlushData, FlushSkip, FlushDone,
     FlushStep, Close, Crash, store, content, CellInv
<1>1. CASE FlushHead
  <2>1. /\ phase = "flush" /\ phase' = "flush" /\ mpos' = mpos /\ mpos <= Len(list)
        /\ mstep = "test" /\ status[list[mpos]] = "WRITE"
        /\ file' = WriteHead(list[mpos]) /\ UNCHANGED <<status, manifest>>
    BY <1>1 DEF FlushHead, FlushStep
  <2>2. PICK c \in Ids : c = list[mpos]
    BY <2>1 DEF StructInv, FlushPlace
  <2>3. ToReopen' = ToReopen
    BY <2>1 DEF ToReopen
  <2> HIDE Facts
  <2> QED
    BY <1>0, <2>1, <2>2, <2>3, HeadWritten
<1>2. CASE FlushData
  <2>1. /\ phase = "flush" /\ mstep = "data" /\ mstep' = "test"
        /\ file' = WriteData(list[mpos]) /\ status' = [status EXCEPT ![list[mpos]] = "READ"]
        /\ UNCHANGED manifest
    BY <1>2 DEF FlushData, FlushStep
  <2>2. PICK c \in Ids : c = list[mpos] /\ status[c] = "WRITE"
    BY <2>1 DEF StructInv, FlushPlace
  <2>3. ToReopen' = ToReopen /\ Idle
    BY <2>1 DEF ToReopen, Ended
  <2>4. HeadFits(c)
    BY <2>1, <2>2 DEF StructInv, BuiltTables, Written, WrittenAt, Filled
  <2> HIDE Facts
  <2> QED
    BY <1>0, <2>1, <2>2, <2>3, <2>4, DataWritten
<1>3. CASE FlushManifest \/ FlushManifestWrite \/ FlushSkip \/ FlushDone \/ Close \/ Crash
  <2>1. UNCHANGED <<file, status>>
    BY <1>3 DEF FlushManifest, FlushManifestWrite, FlushSkip, FlushDone, FlushStep, Close, Crash, disk, store
  <2>2. \/ phase' # "flush" \/ mstep' = "test"
        \/ (phase' = "flush" /\ phase = "flush" /\ mstep' = mstep /\ mpos' = mpos)
    BY <1>3 DEF FlushManifest, FlushManifestWrite, FlushSkip, FlushDone, FlushStep, Close, Crash,
       TypeInv, EndInv, Ending
  <2>3. ASSUME NEW id \in Used PROVE Undisturbed(id)
    <3>1. key_num'[<<id, "built">>] >= key_num[<<id, "built">>]
      BY <1>0, BoundsAssumption DEF Tables, Makers, CellTypes
    <3> QED
      BY <1>0, <2>1, <2>2, <3>1 DEF Undisturbed
  <2>4. CellTypes'
    BY <1>0, <2>1 DEF CellTypes
  <2>5. \A id \in Used' : WrittenAt(id)'
    BY <1>0, <2>3, <2>4, SameWritten DEF Written
  <2>6. \A id \in ToReopen' : Whole(id)'
    <3>1. CASE FlushManifest
      <4>1. manifest' = Torn
        BY <3>1 DEF FlushManifest
      <4>2. ToReopen' = {}
        BY <4>1 DEF ToReopen, Torn, Reloaded
      <4> QED
        BY <4>2
    <3>2. CASE FlushManifestWrite
      <4>1. ToReopen' \subseteq Used' /\ Idle
        BY <3>2, EndView DEF SideInv, ItemsInv, Reopened, FlushAndClose, FlushManifestWrite, Ended
      <4>2. \A id \in Used : Whole(id)
        BY <4>1, AllWhole DEF Written
      <4> QED
        BY <2>1, <4>1, <4>2 DEF Whole
    <3>3. CASE ~(FlushManifest \/ FlushManifestWrite)
      <4>1. manifest' = manifest
        BY <1>3, <3>3 DEF FlushSkip, FlushDone, FlushStep, Close, Crash, disk
      <4>2. ToReopen' = ToReopen
        BY <4>1 DEF ToReopen
      <4> QED
        BY <2>1, <4>2 DEF Written, Whole
    <3> QED
      BY <3>1, <3>2, <3>3
  <2> QED
    BY <2>5, <2>6 DEF Written
<1> QED
  BY <1>1, <1>2, <1>3 DEF FlushAndClose

LEMMA StartWritten ==
  ASSUME TypeInv, Written, OpenNew \/ OpenManifest PROVE Written'
<1>0. Used' \subseteq Ids
  <2>1. Next
    BY DEF Next
  <2>2. Types'
    BY <2>1, TypeStep DEF TypeInv, IInv
  <2> QED
    BY <2>2 DEF Types, Used, Listed
<1>1. /\ \A t \in Threads : pc'[t] = "idle"
      /\ \A id \in Ids : htable'[id] = NULL
      /\ UNCHANGED <<file, manifest>> /\ Used' \subseteq Ids
  BY <1>0 DEF OpenNew, OpenManifest, Fresh, disk
<1>2. Used' = Listed' /\ ToReopen' = ToReopen
  BY <1>1 DEF Used, ToReopen
<1>3. CASE OpenNew
  <2>1. list' = <<>> /\ manifest = NULL
    BY <1>3 DEF OpenNew
  <2>2. Listed' = {} /\ ToReopen = {}
    BY <2>1 DEF Listed, ToReopen
  <2> QED
    BY <1>2, <2>2 DEF Written
<1>4. CASE OpenManifest
  <2>1. Listed' = ToReopen
    BY <1>4 DEF OpenManifest, Listed, ToReopen
  <2> QED
    BY <1>1, <1>2, <2>1, MakerAssumption DEF Written, WrittenAt, Whole
<1> QED
  BY <1>3, <1>4

LEMMA WrittenKept ==
  ASSUME TypeInv, Ended, StructInv, ItemsInv, Written, Calm', ~lateWrite', [Next]_vars PROVE Written'
<1>0. TypeInv' /\ Apart'
  BY TypeStep, ApartKept DEF StructInv
<1>1. ASSUME NEW t \in Threads, PutStep(t) \/ \E x \in Items : PutCall(t, x) PROVE Written'
  <2>1. ~CreateOpen(t) => Used' = Used
    BY <1>0, <1>1, AddStruct, WriteStruct, RotateStruct, PutStruct DEF PutStep
  <2>2. CreateOpen(t) => Used' = Used \cup {cur[t]} /\ cur[t] \notin Used
    BY <1>0, OpenStruct
  <2> QED
    BY <1>0, <1>1, <2>1, <2>2, PutWritten
<1>2. ASSUME NEW t \in Threads, GetStep(t) \/ \E k \in Keys : GetCall(t, k) PROVE Written'
  <2>1. Used' = Used
    BY <1>0, <1>2, GetStruct, OpenerStruct DEF GetStep
  <2> QED
    BY <1>0, <1>2, <2>1, GetWritten
<1>3. ASSUME NEW id \in Ids, JobHead(id) \/ JobData(id) PROVE Written'
  BY <1>0, <1>3, JobStruct, JobWritten
<1>4. CASE FlushAndClose \/ Crash
  BY <1>0, <1>4, FlushStruct, EndWritten
<1>5. CASE OpenNew \/ OpenManifest
  BY <1>5, StartWritten
<1>6. CASE UNCHANGED vars
  <2>1. UNCHANGED <<list, pc, cur, htable, status, mem, key_num, file, manifest, job, phase, mstep, mpos>>
    BY <1>6 DEF vars, store, content, putVars, main, disk
  <2>2. Used' = Used /\ ToReopen' = ToReopen
    BY <2>1 DEF Used, Listed, ToReopen
  <2>3. \A id : WrittenAt(id)' = WrittenAt(id) /\ Whole(id)' = Whole(id)
    BY <2>1 DEF WrittenAt, Filled, HeadFits, Whole
  <2> QED
    BY <2>2, <2>3 DEF Written
<1> QED
  BY <1>1, <1>2, <1>3, <1>4, <1>5, <1>6 DEF Next

-----------------------------------------------------------------------------
(* What the files keep *)

LEMMA ManifestKept == ASSUME ManifestIsList, [Next]_vars PROVE ManifestIsList'
<1>1. ASSUME NEW t \in Threads, CallerStep(t) PROVE ManifestIsList'
  BY <1>1, CallersRun DEF ManifestIsList, main
<1>2. CASE \E id \in Ids : JobHead(id) \/ JobData(id)
  BY <1>2 DEF JobHead, JobData, ManifestIsList, main, store
<1>3. CASE FlushAndClose
  BY <1>3 DEF FlushAndClose, FlushManifest, FlushManifestWrite, FlushHead, FlushData, FlushSkip,
     FlushDone, FlushStep, Close, ManifestIsList, store, disk
<1>4. CASE Crash \/ OpenNew \/ OpenManifest
  BY <1>4 DEF Crash, OpenNew, OpenManifest, ManifestIsList
<1>5. CASE UNCHANGED vars
  BY <1>5 DEF vars, main, store, disk, ManifestIsList
<1> QED
  BY <1>1, <1>2, <1>3, <1>4, <1>5 DEF Next, CallerStep

LEMMA LateBefore == ASSUME [Next]_vars, ~lateWrite' PROVE ~lateWrite
<1>1. ASSUME NEW t \in Threads, CallerStep(t) PROVE ~lateWrite
  <2>1. CASE PutReplace(t) \/ PutLink(t)
    BY <2>1, Zenon DEF PutReplace, PutLink
  <2>2. CASE ~(PutReplace(t) \/ PutLink(t))
    BY <1>1, <2>2 DEF CallerStep, PutCall, GetCall, PutStep, PutStart, PutStartCreate, CreateAdd,
       CreateOpen, CreateWrite, PutNotWriting, PutWriting, PutReserve, PutFull, PutRejected,
       RotateFirst, RotateOther, GetStep, GetCount, GetHead, GetUnopen, GetNew, GetLoad, GetSetRead,
       GetNext, GetFound, GetNull, GetEnd, hist
  <2> QED
    BY <2>1, <2>2
<1>2. CASE \/ \E id \in Ids : JobHead(id) \/ JobData(id)
           \/ FlushAndClose \/ Crash \/ OpenNew \/ OpenManifest \/ UNCHANGED vars
  BY <1>2 DEF JobHead, JobData, FlushAndClose, FlushManifest, FlushManifestWrite, FlushHead,
     FlushData, FlushSkip, FlushDone, FlushStep, Close, Crash, OpenNew, OpenManifest, vars, hist
<1> QED
  BY <1>1, <1>2 DEF Next, CallerStep

DiskInv == GetInv /\ ManifestIsList /\ (Calm /\ ~lateWrite => Written)

LEMMA DiskInvariance == Spec => []DiskInv
<1>1. Init => DiskInv
  <2> SUFFICES ASSUME Init PROVE DiskInv
    OBVIOUS
  <2>1. Used = {} /\ ToReopen = {}
    BY DEF Init, Used, Listed, ToReopen
  <2>2. ManifestIsList
    BY DEF Init, ManifestIsList
  <2> QED
    BY <2>1, <2>2, InitGets DEF DiskInv, Written
<1>2. DiskInv /\ [Next]_vars => DiskInv'
  <2> SUFFICES ASSUME DiskInv, [Next]_vars PROVE DiskInv'
    OBVIOUS
  <2>1. GetInv' /\ ManifestIsList'
    BY GetInvKept, ManifestKept DEF DiskInv
  <2>2. ASSUME Calm', ~lateWrite' PROVE Written'
    BY <2>2, CalmBefore, LateBefore, WrittenKept DEF DiskInv, GetInv
  <2> QED
    BY <2>1, <2>2 DEF DiskInv
<1> QED
  BY <1>1, <1>2, PTL DEF Spec

\* After a clean close a file has what gets would have found.
LEMMA FileHasTable ==
  ASSUME TypeInv, StructInv, ItemsInv, Written, Idle, phase = "down", clean, NEW id \in Used
  PROVE  Content(id) = file[id].items /\ Whole(id)
<1> USE Facts
<1>1. id \in Ids /\ status[id] \in {"UNOPEN", "READ"}
  BY UsedIds DEF TypeInv, EndInv, ClosedWhenDone
<1>2. CASE htable[id] = "built"
  <2>1. status[id] = "READ"
    BY <1>1, <1>2 DEF StructInv, BuiltTables, Idle
  <2>2. file[id].items = mem[<<id, "built">>]
    BY <1>2, <2>1 DEF Written, WrittenAt, Filled
  <2> QED
    BY <1>2, <2>1, <2>2, AllWhole DEF Written, Content
<1>3. CASE htable[id] # "built"
  BY <1>3 DEF ItemsInv, Loaded, Content, Written, WrittenAt
<1> QED
  BY <1>2, <1>3

\* A set of places in a list has a first one.
LEMMA FirstPlace ==
  ASSUME NEW T, T \subseteq Nat, T # {} PROVE \E n \in T : \A m \in T : n <= m
<1>1. IsWellFoundedOn(OpToRel(<, Nat), Nat)
  BY NatLessThanWellFounded
<1>2. PICK n \in T : \A m \in T : <<m, n>> \notin OpToRel(<, Nat)
  BY <1>1, WFMin
<1>3. \A m \in T : ~(m < n)
  BY <1>2 DEF OpToRel
<1> QED
  BY <1>3

LEMMA EndOnDisk ==
  ASSUME TypeInv, StructInv, ItemsInv, Written, Idle, ManifestIsList, phase = "down", clean,
         NEW x \in acked
  PROVE  /\ \E n \in DOMAIN manifest.ids : Holds(manifest.ids[n], KeyOf[x])
         /\ LET f == FirstWith(manifest.ids, KeyOf[x]) IN
              /\ f.num = Cardinality(f.items)
              /\ \A y \in f.items : Same(x, y) => ~Outdated(y, acked)
<1> USE Facts
<1>1. manifest.ids = list /\ DOMAIN list = 1 .. Len(list)
  BY DEF ManifestIsList
<1>2. \A id \in Used : Content(id) = file[id].items /\ Whole(id)
  BY FileHasTable
<1>3. Used = Listed /\ Listed \subseteq Ids
  BY UsedIds DEF Used, Idle
<1> DEFINE Here(n) == Holds(list[n], KeyOf[x])
           First(n) == Here(n) /\ \A m \in 1 .. n - 1 : ~Here(m)
\* The table that has y's key and nothing that y outdates is in the list.
<1>4. ASSUME NEW y \in acked, Same(y, x)
      PROVE  \E n \in 1 .. Len(list) :
               /\ Here(n)
               /\ \A a \in Used : a >= list[n] => \A z \in file[a].items : Same(z, y) => z \notin older[y]
  <2>1. PICK b \in Used :
          /\ \E z \in Content(b) : Same(z, y)
          /\ \A a \in Used : a >= b => \A z \in Content(a) : Same(z, y) => z \notin older[y]
    BY DEF ItemsInv, Present
  <2>2. PICK n \in 1 .. Len(list) : list[n] = b
    BY <1>3 DEF Listed
  <2>3. Here(n)
    BY <1>2, <1>4, <2>1, <2>2 DEF Holds, Same
  <2> QED
    BY <1>2, <2>1, <2>2, <2>3
<1>5. \E n \in 1 .. Len(list) : First(n)
  <2>1. PICK T : T = {n \in 1 .. Len(list) : Here(n)}
    OBVIOUS
  <2>2. T \subseteq Nat /\ T # {}
    BY <1>4, <2>1 DEF Same
  <2>3. PICK n \in T : \A m \in T : n <= m
    BY <2>2, FirstPlace
  <2>4. ASSUME NEW m \in 1 .. n - 1 PROVE ~Here(m)
    BY <2>1, <2>3
  <2> QED
    BY <2>1, <2>3, <2>4
<1>6. PICK c : c = CHOOSE n \in 1 .. Len(list) : First(n)
  OBVIOUS
<1>7. c \in 1 .. Len(list) /\ First(c)
  BY <1>5, <1>6
<1>8. PICK f : f = file[list[c]]
  OBVIOUS
<1>9. FirstWith(manifest.ids, KeyOf[x]) = f
  BY <1>1, <1>6, <1>8 DEF FirstWith
<1>10. f.num = Cardinality(f.items)
  BY <1>2, <1>3, <1>7, <1>8 DEF Whole, Holds, Listed
<1>11. ASSUME NEW y \in f.items, Same(x, y) PROVE ~Outdated(y, acked)
  <2> SUFFICES ASSUME NEW w \in acked, y \in older[w] PROVE FALSE
    BY DEF Outdated
  <2>1. w \in Items
    BY DEF HistoryInv, HistoryTypes
  <2>2. Same(y, w) /\ Same(w, x)
    BY <1>11, <2>1 DEF ItemsInv, Acks, Same
  <2>3. PICK n \in 1 .. Len(list) :
          /\ Here(n)
          /\ \A a \in Used : a >= list[n] => \A z \in file[a].items : Same(z, w) => z \notin older[w]
    BY <1>4, <2>2
  <2>4. n >= c
    BY <1>7, <2>3
  <2>5. list[c] \in Ids /\ list[n] \in Ids /\ list[c] \in Used
    BY <1>3, <1>7 DEF Listed
  <2>6. list[c] >= list[n]
    <3>1. n = c \/ list[n] < list[c]
      BY <1>7, <2>4 DEF IdsInv, ListInv, Decreasing
    <3> QED
      BY <2>5, <3>1 DEF Ids
  <2> QED
    BY <1>8, <2>2, <2>3, <2>5, <2>6
<1> HIDE Facts
<1> QED
  BY <1>1, <1>7, <1>9, <1>10, <1>11

\* After sstmanager_flush and sstmanager_close the files of the Manifest's list
\* keep every acknowledged item, or one of its key that is not older: the newest
\* file with the key has it, and the head of this file counts its items.  This
\* holds for any number of threads, tables, jobs, crashes and restarts, as long
\* as no put has linked its item into a table another put had rotated, no put
\* has run beside a get, and no two gets have opened one table.
THEOREM FilesKeepItems == Spec => []KeptOnDisk
<1>1. DiskInv => KeptOnDisk
  <2> SUFFICES ASSUME DiskInv, phase = "down", clean, ~lateWrite, ~overlap, ~twice, NEW x \in acked
               PROVE  /\ \E n \in DOMAIN manifest.ids : Holds(manifest.ids[n], KeyOf[x])
                      /\ LET f == FirstWith(manifest.ids, KeyOf[x]) IN
                           /\ f.num = Cardinality(f.items)
                           /\ \A y \in f.items : Same(x, y) => ~Outdated(y, acked)
    BY DEF KeptOnDisk
  <2> QED
    BY EndOnDisk DEF DiskInv, GetInv, Calm, Ended
<1> QED
  BY <1>1, DiskInvariance, PTL
=============================================================================
