----------------------------- MODULE MCThreadPool -----------------------------
(* Model checking of ThreadPool: three workers, the owning thread and one  *)
(* more that enqueues and stops, three jobs.                               *)
EXTENDS ThreadPool
================================================================================
