------------------------------- MODULE MCWorkers -------------------------------
(* Model checking of Workers: two workers, so that one can fail while the  *)
(* other serves.                                                           *)
EXTENDS Workers
================================================================================
