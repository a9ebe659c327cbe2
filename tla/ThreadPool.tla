------------------------------ MODULE ThreadPool ------------------------------
(****************************************************************************)
(* The thread pool of libsstable (threadpool.c): workers that wait on a     *)
(* condition variable for jobs, threads that add jobs, and one thread that  *)
(* destroys the pool.  The mutex is modelled with its owner; what a thread  *)
(* does between locking and unlocking is one step where nothing outside the *)
(* mutex reads what it writes.  jobNum is read outside it, by the busy wait *)
(* of threadPool_destroy.                                                   *)
(*                                                                          *)
(* A thread adds jobs only while nobody destroys the pool: sstmanager_close *)
(* is called when the callers of sstmanager_put are done.                   *)
(****************************************************************************)
EXTENDS Integers, Sequences, FiniteSets

CONSTANTS
  Workers,    \* the pool's threads
  Adders,     \* threads calling threadPool_addJob
  Jobs,       \* the jobs they will add
  Destroyer,  \* the thread calling threadPool_destroy
  NoJob, None

ASSUME WorkersAssumption == Workers # {} /\ NoJob \notin Jobs
ASSUME ThreadsAssumption ==
  /\ Workers \cap Adders = {}
  /\ Destroyer \notin Workers \cup Adders
  /\ None \notin Workers \cup Adders \cup {Destroyer}

VARIABLES
  mutex,       \* owner of pool->mutex, or None
  waiting,     \* workers inside uv_cond_wait
  jobQueue,    \* the jobs linked from pool->jobQueue, first to last
  jobNum,      \* pool->jobNum
  doShutDown,  \* pool->doShutDown
  wpc, job,    \* of each worker: where it is, the job it has taken
  apc, newJob, \* of each adder: where it is, the job it adds
  dpc,         \* where the destroying thread is
  added, ran   \* history: the jobs added, the jobs run

workerVars == <<wpc, job>>
adderVars  == <<apc, newJob>>
vars == <<mutex, waiting, jobQueue, jobNum, doShutDown, workerVars, adderVars,
          dpc, added, ran>>

Init ==
  /\ mutex = None
  /\ waiting = {}
  /\ jobQueue = <<>>
  /\ jobNum = 0
  /\ doShutDown = FALSE
  /\ wpc = [w \in Workers |-> "top"]
  /\ job = [w \in Workers |-> NoJob]
  /\ apc = [a \in Adders |-> "idle"]
  /\ newJob = [a \in Adders |-> NoJob]
  /\ dpc = "idle"
  /\ added = {}
  /\ ran = {}

-----------------------------------------------------------------------------
(* func: the loop of a worker *)

WorkerStep(w, from, to) ==
  /\ wpc[w] = from
  /\ wpc' = [wpc EXCEPT ![w] = to]
  /\ UNCHANGED <<adderVars, dpc, added, doShutDown>>

\* lock the mutex, at the top of the loop or on return from uv_cond_wait
WorkerLock(w) ==
  /\ \E at \in {"top", "woken"} : WorkerStep(w, at, "locked")
  /\ mutex = None
  /\ mutex' = w
  /\ UNCHANGED <<waiting, jobQueue, jobNum, job, ran>>

\* either of the two tests of doShutDown
WorkerExit(w) ==
  /\ WorkerStep(w, "locked", "exited")
  /\ doShutDown
  /\ mutex' = None
  /\ UNCHANGED <<waiting, jobQueue, jobNum, job, ran>>

\* while (jobNum == 0 && !doShutDown) uv_cond_wait
WorkerWait(w) ==
  /\ WorkerStep(w, "locked", "waiting")
  /\ ~doShutDown
  /\ jobNum = 0
  /\ waiting' = waiting \cup {w}
  /\ mutex' = None
  /\ UNCHANGED <<jobQueue, jobNum, job, ran>>

\* a condition variable may wake a thread that nobody signalled
SpuriousWakeup(w) ==
  /\ WorkerStep(w, "waiting", "woken")
  /\ waiting' = waiting \ {w}
  /\ UNCHANGED <<mutex, jobQueue, jobNum, job, ran>>

\* Mutant of WorkerTake: jobNum is not tested again after the wait; NoJob is
\* what the worker finds in an empty queue.
WorkerTakeUntested(w) ==
  /\ WorkerStep(w, "locked", "running")
  /\ ~doShutDown
  /\ job' = [job EXCEPT ![w] = IF jobQueue = <<>> THEN NoJob ELSE Head(jobQueue)]
  /\ jobQueue' = IF jobQueue = <<>> THEN <<>> ELSE Tail(jobQueue)
  /\ jobNum' = jobNum - 1
  /\ mutex' = None
  /\ UNCHANGED <<waiting, ran>>

\* take the first job and unlock
WorkerTake(w) ==
  /\ WorkerStep(w, "locked", "running")
  /\ ~doShutDown
  /\ jobNum # 0
  /\ job' = [job EXCEPT ![w] = Head(jobQueue)]
  /\ jobQueue' = Tail(jobQueue)
  /\ jobNum' = jobNum - 1
  /\ mutex' = None
  /\ UNCHANGED <<waiting, ran>>

WorkerRun(w) ==
  /\ WorkerStep(w, "running", "top")
  /\ ran' = ran \cup {job[w]}
  /\ job' = [job EXCEPT ![w] = NoJob]
  /\ UNCHANGED <<mutex, waiting, jobQueue, jobNum>>

-----------------------------------------------------------------------------
(* threadPool_addJob *)

AdderStep(a, from, to) ==
  /\ apc[a] = from
  /\ apc' = [apc EXCEPT ![a] = to]
  /\ UNCHANGED <<job, dpc, ran, doShutDown>>

AddLock(a) ==
  /\ AdderStep(a, "idle", "locked")
  /\ dpc = "idle"
  /\ \E j \in Jobs \ (added \cup {newJob[b] : b \in Adders}) :
       newJob' = [newJob EXCEPT ![a] = j]
  /\ mutex = None
  /\ mutex' = a
  /\ UNCHANGED <<waiting, jobQueue, jobNum, wpc, added>>

\* Mutant of AddEnqueue: the new job is put in front.
AddEnqueueFront(a) ==
  /\ AdderStep(a, "locked", "signal")
  /\ jobQueue' = <<newJob[a]>> \o jobQueue
  /\ jobNum' = jobNum + 1
  /\ added' = added \cup {newJob[a]}
  /\ newJob' = [newJob EXCEPT ![a] = NoJob]
  /\ mutex' = None
  /\ UNCHANGED <<waiting, wpc>>

\* the new job becomes the queue or its last element; jobNum++; unlock
AddEnqueue(a) ==
  /\ AdderStep(a, "locked", "signal")
  /\ jobQueue' = IF jobQueue = <<>> \/ jobNum = 0 THEN <<newJob[a]>>
                 ELSE Append(jobQueue, newJob[a])
  /\ jobNum' = jobNum + 1
  /\ added' = added \cup {newJob[a]}
  /\ newJob' = [newJob EXCEPT ![a] = NoJob]
  /\ mutex' = None
  /\ UNCHANGED <<waiting, wpc>>

\* Mutant of AddSignal: nobody is signalled.
AddSignalNobody(a) ==
  /\ AdderStep(a, "signal", "idle")
  /\ UNCHANGED <<mutex, waiting, jobQueue, jobNum, newJob, wpc, added>>

\* uv_cond_signal, after the unlock: wakes one waiting worker, if there is one
AddSignal(a) ==
  /\ AdderStep(a, "signal", "idle")
  /\ IF waiting = {} THEN UNCHANGED <<waiting, wpc>>
     ELSE \E w \in waiting : /\ waiting' = waiting \ {w}
                             /\ wpc' = [wpc EXCEPT ![w] = "woken"]
  /\ UNCHANGED <<mutex, jobQueue, jobNum, newJob, added>>

-----------------------------------------------------------------------------
(* threadPool_destroy *)

DestroyStep(from, to) ==
  /\ dpc = from
  /\ dpc' = to
  /\ UNCHANGED <<jobQueue, jobNum, job, adderVars, added, ran>>

DestroyCall ==
  /\ DestroyStep("idle", "spin")
  /\ \A a \in Adders : apc[a] = "idle"
  /\ UNCHANGED <<mutex, waiting, doShutDown, wpc>>

\* Mutant of DestroySpinEnd: the busy wait is left out.
DestroyNoSpin ==
  /\ DestroyStep("spin", "lock")
  /\ UNCHANGED <<mutex, waiting, doShutDown, wpc>>

\* while (pool->jobNum != 0) sees the queue empty
DestroySpinEnd ==
  /\ DestroyStep("spin", "lock")
  /\ jobNum = 0
  /\ UNCHANGED <<mutex, waiting, doShutDown, wpc>>

\* jobNum is a plain int read without the mutex: a build that reads it once
\* and finds jobs queued never leaves the loop
DestroySpinForever ==
  /\ DestroyStep("spin", "hung")
  /\ jobNum # 0
  /\ UNCHANGED <<mutex, waiting, doShutDown, wpc>>

DestroyLock ==
  /\ DestroyStep("lock", "locked")
  /\ mutex = None
  /\ mutex' = Destroyer
  /\ UNCHANGED <<waiting, doShutDown, wpc>>

DestroySetFlag ==
  /\ DestroyStep("locked", "broadcast")
  /\ doShutDown' = TRUE
  /\ mutex' = None
  /\ UNCHANGED <<waiting, wpc>>

\* Mutant of DestroyBroadcast: uv_cond_signal, which wakes one worker.
DestroySignal ==
  /\ DestroyStep("broadcast", "join")
  /\ IF waiting = {} THEN UNCHANGED <<waiting, wpc>>
     ELSE \E w \in waiting : /\ waiting' = waiting \ {w}
                             /\ wpc' = [wpc EXCEPT ![w] = "woken"]
  /\ UNCHANGED <<mutex, doShutDown>>

DestroyBroadcast ==
  /\ DestroyStep("broadcast", "join")
  /\ waiting' = {}
  /\ wpc' = [w \in Workers |-> IF w \in waiting THEN "woken" ELSE wpc[w]]
  /\ UNCHANGED <<mutex, doShutDown>>

\* Mutant of DestroyFree: the workers are not joined.
DestroyNoJoin ==
  /\ DestroyStep("join", "freed")
  /\ UNCHANGED <<mutex, waiting, doShutDown, wpc>>

\* join every worker, destroy the mutex and the condition, free the pool
DestroyFree ==
  /\ DestroyStep("join", "freed")
  /\ \A w \in Workers : wpc[w] = "exited"
  /\ UNCHANGED <<mutex, waiting, doShutDown, wpc>>

-----------------------------------------------------------------------------
WorkerNext(w) ==
  WorkerLock(w) \/ WorkerExit(w) \/ WorkerWait(w) \/ WorkerTake(w) \/ WorkerRun(w)

Destroy ==
  \/ DestroySpinEnd \/ DestroySpinForever \/ DestroyLock \/ DestroySetFlag
  \/ DestroyBroadcast \/ DestroyFree

\* the pool is gone, the program goes on without it
Freed ==
  /\ dpc = "freed"
  /\ UNCHANGED vars

Next ==
  \/ \E w \in Workers : WorkerNext(w) \/ SpuriousWakeup(w)
  \/ \E a \in Adders : AddLock(a) \/ AddEnqueue(a) \/ AddSignal(a)
  \/ DestroyCall
  \/ Destroy
  \/ Freed

Spec == Init /\ [][Next]_vars

(****************************************************************************)
(* A thread inside the pool keeps running; the mutex is not overtaken for   *)
(* ever (spurious wakeups may not keep a thread from it).  Nobody has to    *)
(* add a job or to destroy the pool, and no wakeup has to be spurious.      *)
(****************************************************************************)
Fairness ==
  /\ \A w \in Workers : WF_vars(WorkerNext(w)) /\ SF_vars(WorkerLock(w))
  /\ \A a \in Adders : WF_vars(AddEnqueue(a) \/ AddSignal(a))
  /\ WF_vars(Destroy) /\ SF_vars(DestroyLock)

FairSpec == Spec /\ Fairness

-----------------------------------------------------------------------------
(* Properties *)

\* Every value the variables can hold.
TypeOK ==
  /\ mutex \in Workers \cup Adders \cup {Destroyer, None}
  /\ waiting \subseteq Workers
  /\ jobQueue \in Seq(Jobs)
  /\ jobNum \in Nat
  /\ doShutDown \in BOOLEAN
  /\ wpc \in [Workers -> {"top", "locked", "waiting", "woken", "running", "exited"}]
  /\ job \in [Workers -> Jobs \cup {NoJob}]
  /\ apc \in [Adders -> {"idle", "locked", "signal"}]
  /\ newJob \in [Adders -> Jobs \cup {NoJob}]
  /\ dpc \in {"idle", "spin", "hung", "lock", "locked", "broadcast", "join", "freed"}
  /\ added \subseteq Jobs
  /\ ran \subseteq Jobs

\* jobNum and the list are the same count: addJob resets the list whenever
\* jobNum is 0, which would drop a job if they could differ.
QueueCounted == jobNum = Len(jobQueue)

\* No lost wakeup: the signal comes after the unlock, yet a queued job never
\* meets a pool whose workers all sleep with no signal on its way.
NoLostWakeup ==
  jobNum # 0 /\ waiting = Workers => \E a \in Adders : apc[a] = "signal"

\* The busy wait reads jobNum without the mutex and before the flag is set;
\* the flag still never goes up over a queued job.
ShutDownAfterQueue == doShutDown => jobQueue = <<>>

\* When the pool is freed every job has been run, no worker will touch the
\* pool again and nobody holds its mutex.
FreedWhenDone ==
  dpc = "freed" =>
    /\ ran = added
    /\ \A w \in Workers : wpc[w] = "exited"
    /\ mutex = None

\* The pool of JobPool, seen in this one.
JP == INSTANCE JobPool WITH
        queue <- jobQueue, running <- job, closed <- (dpc = "freed")

\* Every step of the code is a step of the pool its users expect, or none.
ImplementsJobPool == JP!Spec

\* Every job that was added is run, also while the pool is being destroyed.
EveryJobRuns == \A j \in Jobs : j \in added ~> j \in ran

\* threadPool_destroy returns, unless the build hoisted its busy wait.
DestroyReturns == dpc = "spin" ~> dpc \in {"freed", "hung"}
===============================================================================
