-------------------------------- MODULE JobPool --------------------------------
(****************************************************************************)
(* What libsstable expects of its thread pool: a job that was added is run  *)
(* once, jobs are begun in the order they were added, and the pool is gone  *)
(* only when every job that was added has been run.  sstmanager relies on   *)
(* it: a full table is handed over to be flushed and closing must wait.     *)
(****************************************************************************)
EXTENDS Sequences

CONSTANTS Workers, Jobs, NoJob

VARIABLES
  added,    \* the jobs handed over so far
  queue,    \* those not begun, oldest first
  running,  \* running[w]: the job of worker w, or NoJob
  ran,      \* the jobs that have been run
  closed    \* the pool is gone

poolVars == <<added, queue, running, ran, closed>>

Init ==
  /\ added = {}
  /\ queue = <<>>
  /\ running = [w \in Workers |-> NoJob]
  /\ ran = {}
  /\ closed = FALSE

Add(j) ==
  /\ ~closed
  /\ j \notin added
  /\ added' = added \cup {j}
  /\ queue' = Append(queue, j)
  /\ UNCHANGED <<running, ran, closed>>

Begin(w) ==
  /\ queue # <<>>
  /\ running[w] = NoJob
  /\ running' = [running EXCEPT ![w] = Head(queue)]
  /\ queue' = Tail(queue)
  /\ UNCHANGED <<added, ran, closed>>

Finish(w) ==
  /\ running[w] # NoJob
  /\ ran' = ran \cup {running[w]}
  /\ running' = [running EXCEPT ![w] = NoJob]
  /\ UNCHANGED <<added, queue, closed>>

Close ==
  /\ ~closed
  /\ queue = <<>>
  /\ \A w \in Workers : running[w] = NoJob
  /\ closed' = TRUE
  /\ UNCHANGED <<added, queue, running, ran>>

Next ==
  \/ \E j \in Jobs : Add(j)
  \/ \E w \in Workers : Begin(w) \/ Finish(w)
  \/ Close

Spec == Init /\ [][Next]_poolVars
===============================================================================
