--------------------------- MODULE ThreadPoolProofs ---------------------------
(* Proofs about ThreadPool for any number of workers, adders and jobs: its   *)
(* type, its safety invariants, and that it implements JobPool.              *)
EXTENDS ThreadPool, SequenceTheorems, TLAPS

\* The owner of the mutex is the thread whose position says so; the workers
\* waiting on the condition are those inside uv_cond_wait.
MutexInv ==
  /\ \A w \in Workers : mutex = w <=> wpc[w] = "locked"
  /\ \A a \in Adders : mutex = a <=> apc[a] = "locked"
  /\ mutex = Destroyer <=> dpc = "locked"
  /\ \A w \in Workers : w \in waiting <=> wpc[w] = "waiting"

\* A worker has a job exactly while it runs it; an adder's job is not in the
\* pool yet.
JobInv ==
  /\ \A w \in Workers : job[w] = NoJob <=> wpc[w] # "running"
  /\ \A a \in Adders : apc[a] = "locked" => newJob[a] \in Jobs \ added

\* How far threadPool_destroy has come, and what it has made sure of.
Closing == {"lock", "locked", "broadcast", "join", "freed"}

DestroyInv ==
  /\ dpc # "idle" => \A a \in Adders : apc[a] = "idle"
  /\ dpc \in Closing => jobQueue = <<>>
  /\ doShutDown <=> dpc \in {"broadcast", "join", "freed"}
  /\ \A w \in Workers : wpc[w] = "exited" => doShutDown
  /\ dpc = "freed" => \A w \in Workers : wpc[w] = "exited"

\* Every job that was added is queued, or running, or has been run.
InQueue == {jobQueue[i] : i \in 1 .. Len(jobQueue)}
InRun   == {job[w] : w \in Workers} \ {NoJob}

JobsKept == added = InQueue \cup InRun \cup ran

Inv == /\ TypeOK /\ QueueCounted
       /\ MutexInv /\ JobInv /\ DestroyInv /\ JobsKept /\ NoLostWakeup

-------------------------------------------------------------------------------
\* A new pool.
LEMMA InitInv == Init => Inv
<1> SUFFICES ASSUME Init PROVE Inv
  OBVIOUS
<1> USE WorkersAssumption, ThreadsAssumption DEF Init
<1>1. jobQueue \in Seq(Jobs) /\ Len(jobQueue) = 0
  OBVIOUS
<1>2. /\ doShutDown \in BOOLEAN
      /\ wpc \in [Workers -> {"top", "locked", "waiting", "woken", "running", "exited"}]
      /\ job \in [Workers -> Jobs \cup {NoJob}]
      /\ apc \in [Adders -> {"idle", "locked", "signal"}]
      /\ newJob \in [Adders -> Jobs \cup {NoJob}]
  OBVIOUS
<1>5. TypeOK
  BY <1>1, <1>2 DEF TypeOK
<1>6. QueueCounted /\ NoLostWakeup
  BY <1>1 DEF QueueCounted, NoLostWakeup
<1>3. MutexInv /\ JobInv /\ DestroyInv
  BY DEF MutexInv, JobInv, DestroyInv, Closing
<1>4. JobsKept
  BY <1>1 DEF JobsKept, InQueue, InRun
<1> QED
  BY <1>3, <1>4, <1>5, <1>6 DEF Inv

\* A job appended to a queue, or taken from its front.
LEMMA AppendRange ==
  ASSUME NEW S, NEW s \in Seq(S), NEW e \in S
  PROVE  /\ Append(s, e) \in Seq(S) /\ Len(Append(s, e)) = Len(s) + 1
         /\ {Append(s, e)[i] : i \in 1 .. Len(Append(s, e))} = {s[i] : i \in 1 .. Len(s)} \cup {e}
OBVIOUS

LEMMA TailRange ==
  ASSUME NEW S, NEW s \in Seq(S), Len(s) # 0
  PROVE  /\ Head(s) \in S /\ Tail(s) \in Seq(S) /\ Len(Tail(s)) = Len(s) - 1
         /\ {s[i] : i \in 1 .. Len(s)} = {Tail(s)[i] : i \in 1 .. Len(Tail(s))} \cup {Head(s)}
<1>1. /\ Head(s) \in S /\ Tail(s) \in Seq(S) /\ Len(Tail(s)) = Len(s) - 1
      /\ \A i \in 1 .. Len(s) - 1 : Tail(s)[i] = s[i + 1]
  OBVIOUS
<1>2. Len(s) \in Nat /\ Head(s) = s[1]
  OBVIOUS
<1>3. ASSUME NEW i \in 1 .. Len(s), i # 1
      PROVE  i - 1 \in 1 .. Len(Tail(s)) /\ s[i] = Tail(s)[i - 1]
  <2>1. i - 1 \in 1 .. Len(s) - 1 /\ (i - 1) + 1 = i
    BY <1>2, <1>3
  <2>2. Tail(s)[i - 1] = s[(i - 1) + 1]
    BY <1>1, <2>1
  <2> QED
    BY <1>1, <2>1, <2>2
<1>4. ASSUME NEW i \in 1 .. Len(Tail(s))
      PROVE  i + 1 \in 1 .. Len(s) /\ Tail(s)[i] = s[i + 1]
  BY <1>1, <1>2
<1>5. 1 \in 1 .. Len(s)
  BY <1>2
<1> DEFINE A == {s[i] : i \in 1 .. Len(s)}
           B == {Tail(s)[i] : i \in 1 .. Len(Tail(s))}
<1>6. A \subseteq B \cup {Head(s)}
  <2> SUFFICES ASSUME NEW i \in 1 .. Len(s) PROVE s[i] \in B \cup {Head(s)}
    OBVIOUS
  <2>1. CASE i = 1
    BY <2>1, <1>2
  <2>2. CASE i # 1
    BY <2>2, <1>3
  <2> QED
    BY <2>1, <2>2
<1>7. B \subseteq A
  <2> SUFFICES ASSUME NEW i \in 1 .. Len(Tail(s)) PROVE Tail(s)[i] \in A
    OBVIOUS
  <2> QED
    BY <1>4
<1>8. Head(s) \in A
  BY <1>2, <1>5
<1> QED
  BY <1>1, <1>6, <1>7, <1>8

-------------------------------------------------------------------------------
\* Every step keeps the types, the count of the queue, and the mutex and wait
\* set in agreement with the threads' positions.
LEMMA StepTypes ==
  ASSUME Inv, Next
  PROVE  TypeOK' /\ QueueCounted'
<1> USE WorkersAssumption, ThreadsAssumption
    DEF Inv, TypeOK, QueueCounted, WorkerStep, AdderStep, DestroyStep, workerVars, adderVars
<1>1. ASSUME NEW w \in Workers, WorkerNext(w) \/ SpuriousWakeup(w)
      PROVE  TypeOK' /\ QueueCounted'
  <2>1. CASE WorkerLock(w)
    BY <2>1 DEF WorkerLock
  <2>2. CASE WorkerExit(w)
    BY <2>2 DEF WorkerExit
  <2>3. CASE WorkerWait(w)
    BY <2>3 DEF WorkerWait
  <2>4. CASE SpuriousWakeup(w)
    BY <2>4 DEF SpuriousWakeup
  <2>5. CASE WorkerTake(w)
    <3>1. /\ Head(jobQueue) \in Jobs /\ Tail(jobQueue) \in Seq(Jobs)
          /\ Len(Tail(jobQueue)) = Len(jobQueue) - 1 /\ Len(jobQueue) \in Nat \ {0}
      BY <2>5, TailRange DEF WorkerTake
    <3> QED
      BY <2>5, <3>1 DEF WorkerTake
  <2>6. CASE WorkerRun(w)
    BY <2>6 DEF WorkerRun, JobInv
  <2> QED
    BY <1>1, <2>1, <2>2, <2>3, <2>4, <2>5, <2>6 DEF WorkerNext
<1>2. ASSUME NEW a \in Adders, AddLock(a) \/ AddEnqueue(a) \/ AddSignal(a)
      PROVE  TypeOK' /\ QueueCounted'
  <2>1. CASE AddLock(a)
    BY <2>1 DEF AddLock
  <2>2. CASE AddEnqueue(a)
    <3>1. newJob[a] \in Jobs
      BY <2>2 DEF AddEnqueue, JobInv
    <3>2. jobNum = 0 => jobQueue = <<>>
      BY EmptySeq
    <3>3. jobQueue' \in Seq(Jobs) /\ Len(jobQueue') = jobNum + 1
      BY <2>2, <3>1, <3>2, AppendRange DEF AddEnqueue
    <3> QED
      BY <2>2, <3>1, <3>3 DEF AddEnqueue
  <2>3. CASE AddSignal(a)
    BY <2>3 DEF AddSignal
  <2> QED
    BY <1>2, <2>1, <2>2, <2>3
<1>3. ASSUME DestroyCall \/ Destroy \/ Freed
      PROVE  TypeOK' /\ QueueCounted'
  <2>1. CASE DestroyCall
    BY <2>1 DEF DestroyCall
  <2>2. CASE DestroySpinEnd
    BY <2>2 DEF DestroySpinEnd
  <2>3. CASE DestroySpinForever
    BY <2>3 DEF DestroySpinForever
  <2>4. CASE DestroyLock
    BY <2>4 DEF DestroyLock
  <2>5. CASE DestroySetFlag
    BY <2>5 DEF DestroySetFlag
  <2>6. CASE DestroyBroadcast
    BY <2>6 DEF DestroyBroadcast
  <2>7. CASE DestroyFree
    BY <2>7 DEF DestroyFree
  <2>8. CASE Freed
    BY <2>8 DEF Freed, vars
  <2> QED
    BY <1>3, <2>1, <2>2, <2>3, <2>4, <2>5, <2>6, <2>7, <2>8 DEF Destroy
<1> QED
  BY <1>1, <1>2, <1>3 DEF Next
\* The mutex and the wait set stay in agreement with the threads' positions.
LEMMA StepMutex ==
  ASSUME Inv, Next
  PROVE  MutexInv'
<1> USE ThreadsAssumption
    DEF Inv, TypeOK, MutexInv, WorkerStep, AdderStep, DestroyStep, workerVars, adderVars
<1>1. ASSUME NEW w \in Workers, WorkerNext(w) \/ SpuriousWakeup(w)
      PROVE  MutexInv'
  <2>1. CASE WorkerLock(w)
    BY <2>1 DEF WorkerLock
  <2>2. CASE WorkerExit(w)
    BY <2>2 DEF WorkerExit
  <2>3. CASE WorkerWait(w)
    BY <2>3 DEF WorkerWait
  <2>4. CASE SpuriousWakeup(w)
    BY <2>4 DEF SpuriousWakeup
  <2>5. CASE WorkerTake(w)
    BY <2>5 DEF WorkerTake
  <2>6. CASE WorkerRun(w)
    BY <2>6 DEF WorkerRun
  <2> QED
    BY <1>1, <2>1, <2>2, <2>3, <2>4, <2>5, <2>6 DEF WorkerNext
<1>2. ASSUME NEW a \in Adders, AddLock(a) \/ AddEnqueue(a) \/ AddSignal(a)
      PROVE  MutexInv'
  <2>1. CASE AddLock(a)
    BY <2>1 DEF AddLock
  <2>2. CASE AddEnqueue(a)
    BY <2>2 DEF AddEnqueue
  <2>3. CASE AddSignal(a)
    BY <2>3 DEF AddSignal
  <2> QED
    BY <1>2, <2>1, <2>2, <2>3
<1>3. ASSUME DestroyCall \/ Destroy \/ Freed
      PROVE  MutexInv'
  <2>1. CASE DestroyCall
    BY <2>1 DEF DestroyCall
  <2>2. CASE DestroySpinEnd
    BY <2>2 DEF DestroySpinEnd
  <2>3. CASE DestroySpinForever
    BY <2>3 DEF DestroySpinForever
  <2>4. CASE DestroyLock
    BY <2>4 DEF DestroyLock
  <2>5. CASE DestroySetFlag
    BY <2>5 DEF DestroySetFlag
  <2>6. CASE DestroyBroadcast
    BY <2>6 DEF DestroyBroadcast
  <2>7. CASE DestroyFree
    BY <2>7 DEF DestroyFree
  <2>8. CASE Freed
    BY <2>8 DEF Freed, vars
  <2> QED
    BY <1>3, <2>1, <2>2, <2>3, <2>4, <2>5, <2>6, <2>7, <2>8 DEF Destroy
<1> QED
  BY <1>1, <1>2, <1>3 DEF Next

\* The threads keep track of their jobs.
LEMMA StepJobs ==
  ASSUME Inv, Next
  PROVE  JobInv'
<1> USE WorkersAssumption, ThreadsAssumption
    DEF Inv, TypeOK, MutexInv, JobInv, WorkerStep, AdderStep, DestroyStep, workerVars, adderVars
<1>1. ASSUME NEW w \in Workers, WorkerNext(w) \/ SpuriousWakeup(w)
      PROVE  JobInv'
  <2>1. CASE WorkerLock(w)
    BY <2>1 DEF WorkerLock
  <2>2. CASE WorkerExit(w)
    BY <2>2 DEF WorkerExit
  <2>3. CASE WorkerWait(w)
    BY <2>3 DEF WorkerWait
  <2>4. CASE SpuriousWakeup(w)
    BY <2>4 DEF SpuriousWakeup
  <2>5. CASE WorkerTake(w)
    <3>1. Head(jobQueue) \in Jobs
      BY <2>5, TailRange DEF WorkerTake, QueueCounted
    <3> QED
      BY <2>5, <3>1 DEF WorkerTake
  <2>6. CASE WorkerRun(w)
    BY <2>6 DEF WorkerRun
  <2> QED
    BY <1>1, <2>1, <2>2, <2>3, <2>4, <2>5, <2>6 DEF WorkerNext
<1>2. ASSUME NEW a \in Adders, AddLock(a) \/ AddEnqueue(a) \/ AddSignal(a)
      PROVE  JobInv'
  <2>1. CASE AddLock(a)
    BY <2>1 DEF AddLock
  <2>2. CASE AddEnqueue(a)
    BY <2>2 DEF AddEnqueue
  <2>3. CASE AddSignal(a)
    BY <2>3 DEF AddSignal
  <2> QED
    BY <1>2, <2>1, <2>2, <2>3
<1>3. ASSUME DestroyCall \/ Destroy \/ Freed
      PROVE  JobInv'
  <2>1. CASE DestroyCall
    BY <2>1 DEF DestroyCall
  <2>2. CASE DestroySpinEnd
    BY <2>2 DEF DestroySpinEnd
  <2>3. CASE DestroySpinForever
    BY <2>3 DEF DestroySpinForever
  <2>4. CASE DestroyLock
    BY <2>4 DEF DestroyLock
  <2>5. CASE DestroySetFlag
    BY <2>5 DEF DestroySetFlag
  <2>6. CASE DestroyBroadcast
    BY <2>6 DEF DestroyBroadcast
  <2>7. CASE DestroyFree
    BY <2>7 DEF DestroyFree
  <2>8. CASE Freed
    BY <2>8 DEF Freed, vars
  <2> QED
    BY <1>3, <2>1, <2>2, <2>3, <2>4, <2>5, <2>6, <2>7, <2>8 DEF Destroy
<1> QED
  BY <1>1, <1>2, <1>3 DEF Next

\* threadPool_destroy goes on only over an empty queue and without adders.
LEMMA StepDestroy ==
  ASSUME Inv, Next
  PROVE  DestroyInv'
<1> USE WorkersAssumption, ThreadsAssumption, EmptySeq
    DEF Inv, TypeOK, QueueCounted, MutexInv, DestroyInv, Closing,
        WorkerStep, AdderStep, DestroyStep, workerVars, adderVars
<1>1. ASSUME NEW w \in Workers, WorkerNext(w) \/ SpuriousWakeup(w)
      PROVE  DestroyInv'
  <2>1. CASE WorkerLock(w)
    BY <2>1 DEF WorkerLock
  <2>2. CASE WorkerExit(w)
    BY <2>2 DEF WorkerExit
  <2>3. CASE WorkerWait(w)
    BY <2>3 DEF WorkerWait
  <2>4. CASE SpuriousWakeup(w)
    BY <2>4 DEF SpuriousWakeup
  <2>5. CASE WorkerTake(w)
    BY <2>5 DEF WorkerTake
  <2>6. CASE WorkerRun(w)
    BY <2>6 DEF WorkerRun
  <2> QED
    BY <1>1, <2>1, <2>2, <2>3, <2>4, <2>5, <2>6 DEF WorkerNext
<1>2. ASSUME NEW a \in Adders, AddLock(a) \/ AddEnqueue(a) \/ AddSignal(a)
      PROVE  DestroyInv'
  <2>1. CASE AddLock(a)
    BY <2>1 DEF AddLock
  <2>2. CASE AddEnqueue(a)
    BY <2>2 DEF AddEnqueue
  <2>3. CASE AddSignal(a)
    BY <2>3 DEF AddSignal
  <2> QED
    BY <1>2, <2>1, <2>2, <2>3
<1>3. ASSUME DestroyCall \/ Destroy \/ Freed
      PROVE  DestroyInv'
  <2>1. CASE DestroyCall
    BY <2>1 DEF DestroyCall
  <2>2. CASE DestroySpinEnd
    BY <2>2 DEF DestroySpinEnd
  <2>3. CASE DestroySpinForever
    BY <2>3 DEF DestroySpinForever
  <2>4. CASE DestroyLock
    BY <2>4 DEF DestroyLock
  <2>5. CASE DestroySetFlag
    BY <2>5 DEF DestroySetFlag
  <2>6. CASE DestroyBroadcast
    BY <2>6 DEF DestroyBroadcast
  <2>7. CASE DestroyFree
    BY <2>7 DEF DestroyFree
  <2>8. CASE Freed
    BY <2>8 DEF Freed, vars
  <2> QED
    BY <1>3, <2>1, <2>2, <2>3, <2>4, <2>5, <2>6, <2>7, <2>8 DEF Destroy
<1> QED
  BY <1>1, <1>2, <1>3 DEF Next

\* A worker goes to sleep only over an empty queue, and whoever fills the
\* queue still has a signal to give.
LEMMA StepWakeup ==
  ASSUME Inv, Next
  PROVE  NoLostWakeup'
<1> USE WorkersAssumption, ThreadsAssumption
    DEF Inv, TypeOK, QueueCounted, MutexInv, DestroyInv, Closing, NoLostWakeup,
        WorkerStep, AdderStep, DestroyStep, workerVars, adderVars
<1>1. ASSUME NEW w \in Workers, WorkerNext(w) \/ SpuriousWakeup(w)
      PROVE  NoLostWakeup'
  <2>1. CASE WorkerLock(w)
    BY <2>1 DEF WorkerLock
  <2>2. CASE WorkerExit(w)
    BY <2>2 DEF WorkerExit
  <2>3. CASE WorkerWait(w)
    BY <2>3 DEF WorkerWait
  <2>4. CASE SpuriousWakeup(w)
    BY <2>4 DEF SpuriousWakeup
  <2>5. CASE WorkerTake(w)
    BY <2>5 DEF WorkerTake
  <2>6. CASE WorkerRun(w)
    BY <2>6 DEF WorkerRun
  <2> QED
    BY <1>1, <2>1, <2>2, <2>3, <2>4, <2>5, <2>6 DEF WorkerNext
<1>2. ASSUME NEW a \in Adders, AddLock(a) \/ AddEnqueue(a) \/ AddSignal(a)
      PROVE  NoLostWakeup'
  <2>1. CASE AddLock(a)
    BY <2>1 DEF AddLock
  <2>2. CASE AddEnqueue(a)
    BY <2>2 DEF AddEnqueue
  <2>3. CASE AddSignal(a)
    BY <2>3 DEF AddSignal
  <2> QED
    BY <1>2, <2>1, <2>2, <2>3
<1>3. ASSUME DestroyCall \/ Destroy \/ Freed
      PROVE  NoLostWakeup'
  <2>1. CASE DestroyCall
    BY <2>1 DEF DestroyCall
  <2>2. CASE DestroySpinEnd
    BY <2>2 DEF DestroySpinEnd
  <2>3. CASE DestroySpinForever
    BY <2>3 DEF DestroySpinForever
  <2>4. CASE DestroyLock
    BY <2>4 DEF DestroyLock
  <2>5. CASE DestroySetFlag
    BY <2>5 DEF DestroySetFlag
  <2>6. CASE DestroyBroadcast
    BY <2>6 DEF DestroyBroadcast
  <2>7. CASE DestroyFree
    BY <2>7 DEF DestroyFree
  <2>8. CASE Freed
    BY <2>8 DEF Freed, vars
  <2> QED
    BY <1>3, <2>1, <2>2, <2>3, <2>4, <2>5, <2>6, <2>7, <2>8 DEF Destroy
<1> QED
  BY <1>1, <1>2, <1>3 DEF Next

\* No job that was added is dropped.
LEMMA StepKept ==
  ASSUME Inv, Next
  PROVE  JobsKept'
<1> USE WorkersAssumption, ThreadsAssumption
    DEF Inv, TypeOK, QueueCounted, JobInv, JobsKept, InQueue, InRun,
        WorkerStep, AdderStep, DestroyStep, workerVars, adderVars
<1>1. ASSUME NEW w \in Workers, WorkerNext(w) \/ SpuriousWakeup(w)
      PROVE  JobsKept'
  <2>1. CASE WorkerLock(w)
    BY <2>1 DEF WorkerLock
  <2>2. CASE WorkerExit(w)
    BY <2>2 DEF WorkerExit
  <2>3. CASE WorkerWait(w)
    BY <2>3 DEF WorkerWait
  <2>4. CASE SpuriousWakeup(w)
    BY <2>4 DEF SpuriousWakeup
  <2>5. CASE WorkerTake(w)
    <3>0. jobQueue \in Seq(Jobs) /\ Len(jobQueue) # 0 /\ jobQueue' = Tail(jobQueue)
      BY <2>5 DEF WorkerTake
    <3>1. Head(jobQueue) \in Jobs /\ InQueue = InQueue' \cup {Head(jobQueue)}
      <4> HIDE DEF Inv, InRun
      <4>1. /\ Head(jobQueue) \in Jobs
            /\ InQueue = {Tail(jobQueue)[i] : i \in 1 .. Len(Tail(jobQueue))} \cup {Head(jobQueue)}
        BY <3>0, TailRange
      <4> QED
        BY <3>0, <4>1
    <3>2. /\ job[w] = NoJob /\ job'[w] = Head(jobQueue)
          /\ \A v \in Workers \ {w} : job'[v] = job[v]
      BY <2>5 DEF WorkerTake
    <3>3. InRun' = InRun \cup {Head(jobQueue)}
      BY <3>1, <3>2
    <3>4. added' = added /\ ran' = ran
      BY <2>5 DEF WorkerTake
    <3> HIDE DEF InQueue, InRun
    <3> QED
      BY <3>1, <3>3, <3>4
  <2>6. CASE WorkerRun(w)
    <3>1. /\ job[w] # NoJob /\ job'[w] = NoJob
          /\ \A v \in Workers \ {w} : job'[v] = job[v]
      BY <2>6 DEF WorkerRun
    <3>2. InRun' \cup {job[w]} = InRun \cup {job[w]}
      BY <3>1
    <3>3. job[w] \in InRun
      BY <3>1
    <3>4. added' = added /\ ran' = ran \cup {job[w]} /\ InQueue' = InQueue
      BY <2>6 DEF WorkerRun
    <3> HIDE DEF InQueue, InRun
    <3> QED
      BY <3>2, <3>3, <3>4
  <2> QED
    BY <1>1, <2>1, <2>2, <2>3, <2>4, <2>5, <2>6 DEF WorkerNext
<1>2. ASSUME NEW a \in Adders, AddLock(a) \/ AddEnqueue(a) \/ AddSignal(a)
      PROVE  JobsKept'
  <2>1. CASE AddLock(a)
    BY <2>1 DEF AddLock
  <2>2. CASE AddEnqueue(a)
    <3>1. newJob[a] \in Jobs /\ jobQueue \in Seq(Jobs)
      BY <2>2 DEF AddEnqueue
    <3>2. InQueue' = InQueue \cup {newJob[a]}
      <4>1. CASE jobQueue = <<>> \/ jobNum = 0
        <5>1. jobQueue = <<>> /\ jobQueue' = <<newJob[a]>>
          BY <2>2, <4>1, EmptySeq DEF AddEnqueue
        <5> QED
          BY <5>1
      <4>2. CASE ~(jobQueue = <<>> \/ jobNum = 0)
        <5>1. jobQueue' = Append(jobQueue, newJob[a])
          BY <2>2, <4>2 DEF AddEnqueue
        <5> QED
          BY <3>1, <5>1, AppendRange
      <4> QED
        BY <4>1, <4>2
    <3>3. added' = added \cup {newJob[a]} /\ ran' = ran /\ InRun' = InRun
      BY <2>2 DEF AddEnqueue
    <3> HIDE DEF InQueue, InRun
    <3> QED
      BY <3>2, <3>3
  <2>3. CASE AddSignal(a)
    BY <2>3 DEF AddSignal
  <2> QED
    BY <1>2, <2>1, <2>2, <2>3
<1>3. ASSUME DestroyCall \/ Destroy \/ Freed
      PROVE  JobsKept'
  <2>1. CASE DestroyCall
    BY <2>1 DEF DestroyCall
  <2>2. CASE DestroySpinEnd
    BY <2>2 DEF DestroySpinEnd
  <2>3. CASE DestroySpinForever
    BY <2>3 DEF DestroySpinForever
  <2>4. CASE DestroyLock
    BY <2>4 DEF DestroyLock
  <2>5. CASE DestroySetFlag
    BY <2>5 DEF DestroySetFlag
  <2>6. CASE DestroyBroadcast
    BY <2>6 DEF DestroyBroadcast
  <2>7. CASE DestroyFree
    BY <2>7 DEF DestroyFree
  <2>8. CASE Freed
    BY <2>8 DEF Freed, vars
  <2> QED
    BY <1>3, <2>1, <2>2, <2>3, <2>4, <2>5, <2>6, <2>7, <2>8 DEF Destroy
<1> QED
  BY <1>1, <1>2, <1>3 DEF Next

\* The inductive invariant of the pool.
LEMMA Invariance == Spec => []Inv
<1>1. Inv /\ [Next]_vars => Inv'
  <2> SUFFICES ASSUME Inv, [Next]_vars PROVE Inv'
    OBVIOUS
  <2>1. CASE UNCHANGED vars
    BY <2>1 DEF vars, workerVars, adderVars, Inv, TypeOK, QueueCounted, MutexInv, JobInv,
       DestroyInv, JobsKept, InQueue, InRun, NoLostWakeup
  <2>2. CASE Next
    BY <2>2, StepTypes, StepMutex, StepJobs, StepDestroy, StepWakeup, StepKept DEF Inv
  <2> QED
    BY <2>1, <2>2
<1> QED
  BY <1>1, InitInv, PTL DEF Spec

\* Type correctness of the pool (threadpool.c), for every instance.
THEOREM TypeCorrect == Spec => []TypeOK
<1>1. Inv => TypeOK
  BY DEF Inv
<1> QED
  BY <1>1, Invariance, PTL

\* A queued job never meets a pool that is all asleep with no signal coming,
\* although the signal is given after the unlock (threadPool_addJob).
THEOREM WakeupsNotLost == Spec => []NoLostWakeup
<1>1. Inv => NoLostWakeup
  BY DEF Inv
<1> QED
  BY <1>1, Invariance, PTL

\* The flag goes up only over an empty queue, although the busy wait of
\* threadPool_destroy reads jobNum without the mutex.
THEOREM NoShutDownOverJobs == Spec => []ShutDownAfterQueue
<1>1. Inv => ShutDownAfterQueue
  BY DEF Inv, DestroyInv, ShutDownAfterQueue, Closing
<1> QED
  BY <1>1, Invariance, PTL

\* A freed pool has run every job it was given and is touched by nobody.
THEOREM FreedPoolIsDone == Spec => []FreedWhenDone
<1>1. Inv => FreedWhenDone
  <2> SUFFICES ASSUME Inv, dpc = "freed"
               PROVE  ran = added /\ (\A w \in Workers : wpc[w] = "exited") /\ mutex = None
    BY DEF FreedWhenDone
  <2>1. \A w \in Workers : wpc[w] = "exited"
    BY DEF Inv, DestroyInv
  <2>2. InRun = {}
    BY <2>1 DEF Inv, JobInv, InRun
  <2>3. InQueue = {}
    BY DEF Inv, DestroyInv, Closing, InQueue
  <2>4. mutex = None
    BY <2>1 DEF Inv, TypeOK, MutexInv, DestroyInv
  <2> QED
    BY <2>1, <2>2, <2>3, <2>4 DEF Inv, JobsKept
<1> QED
  BY <1>1, Invariance, PTL

-------------------------------------------------------------------------------
\* A step of the pool is a step of JobPool, or changes nothing JobPool sees.
LEMMA StepRefines == Inv /\ Inv' /\ [Next]_vars => [JP!Next]_(JP!poolVars)
<1> SUFFICES ASSUME Inv, Inv', [Next]_vars PROVE JP!Next \/ UNCHANGED JP!poolVars
  OBVIOUS
<1> USE DEF JP!poolVars, WorkerStep, AdderStep, DestroyStep, adderVars, workerVars
<1>1. CASE UNCHANGED vars
  BY <1>1 DEF vars
<1>2. ASSUME NEW w \in Workers, WorkerNext(w) \/ SpuriousWakeup(w)
      PROVE  JP!Next \/ UNCHANGED JP!poolVars
  <2>1. CASE WorkerTake(w)
    <3>1. jobQueue # <<>> /\ job[w] = NoJob
      BY <2>1, EmptySeq DEF WorkerTake, Inv, TypeOK, QueueCounted, JobInv
    <3>2. JP!Begin(w)
      BY <2>1, <3>1 DEF WorkerTake, JP!Begin
    <3> QED
      BY <3>2 DEF JP!Next
  <2>2. CASE WorkerRun(w)
    <3>1. job[w] # NoJob
      BY <2>2 DEF WorkerRun, Inv, JobInv
    <3>2. JP!Finish(w)
      BY <2>2, <3>1 DEF WorkerRun, JP!Finish
    <3> QED
      BY <3>2 DEF JP!Next
  <2>3. CASE WorkerLock(w) \/ WorkerExit(w) \/ WorkerWait(w) \/ SpuriousWakeup(w)
    BY <2>3 DEF WorkerLock, WorkerExit, WorkerWait, SpuriousWakeup
  <2> QED
    BY <1>2, <2>1, <2>2, <2>3 DEF WorkerNext
<1>3. ASSUME NEW a \in Adders, AddLock(a) \/ AddEnqueue(a) \/ AddSignal(a)
      PROVE  JP!Next \/ UNCHANGED JP!poolVars
  <2>1. CASE AddEnqueue(a)
    <3>0. jobNum = 0 => jobQueue = <<>>
      BY EmptySeq DEF Inv, TypeOK, QueueCounted
    <3>1. newJob[a] \in Jobs \ added /\ dpc # "freed"
      BY <2>1 DEF AddEnqueue, Inv, JobInv, DestroyInv
    <3>2. jobQueue' = Append(jobQueue, newJob[a])
      <4>1. CASE jobNum = 0
        BY <2>1, <3>0, <4>1 DEF AddEnqueue
      <4>2. CASE jobNum # 0
        <5>1. jobQueue # <<>>
          BY <4>2, EmptySeq DEF Inv, QueueCounted
        <5> QED
          BY <2>1, <4>2, <5>1 DEF AddEnqueue
      <4> QED
        BY <4>1, <4>2
    <3>3. JP!Add(newJob[a])
      BY <2>1, <3>1, <3>2 DEF AddEnqueue, JP!Add
    <3> QED
      BY <3>1, <3>3 DEF JP!Next
  <2>2. CASE AddLock(a) \/ AddSignal(a)
    BY <2>2 DEF AddLock, AddSignal
  <2> QED
    BY <1>3, <2>1, <2>2
<1>4. ASSUME DestroyCall \/ Destroy \/ Freed
      PROVE  JP!Next \/ UNCHANGED JP!poolVars
  <2>1. CASE DestroyFree
    <3>1. dpc # "freed" /\ jobQueue = <<>> /\ \A w \in Workers : job[w] = NoJob
      BY <2>1 DEF DestroyFree, Inv, DestroyInv, Closing, JobInv
    <3>2. JP!Close
      BY <2>1, <3>1 DEF DestroyFree, JP!Close
    <3> QED
      BY <3>2 DEF JP!Next
  <2>2. CASE Freed
    BY <2>2 DEF Freed, vars
  <2>3. CASE \/ DestroyCall \/ DestroySpinEnd \/ DestroySpinForever \/ DestroyLock
             \/ DestroySetFlag \/ DestroyBroadcast
    BY <2>3 DEF DestroyCall, DestroySpinEnd, DestroySpinForever, DestroyLock, DestroySetFlag,
       DestroyBroadcast
  <2> QED
    BY <1>4, <2>1, <2>2, <2>3 DEF Destroy
<1> QED
  BY <1>1, <1>2, <1>3, <1>4 DEF Next

\* The code's pool implements the pool its users expect: jobs begin in the
\* order they were added, each once, and the pool closes over no job.
THEOREM Refinement == Spec => ImplementsJobPool
<1>1. Init => JP!Init
  BY DEF Init, JP!Init
<1> QED
  BY <1>1, StepRefines, Invariance, PTL DEF Spec, JP!Spec, ImplementsJobPool
===============================================================================
