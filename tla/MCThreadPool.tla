----------------------------- MODULE MCThreadPool -----------------------------
(* Two workers as in sstmanager_new, two threads that add three jobs between *)
(* them: both workers asleep when two jobs arrive before either signal, a    *)
(* worker that finds the job another one was woken for, and a destroy that   *)
(* begins while jobs are queued, running or done.                            *)
EXTENDS ThreadPool
===============================================================================
