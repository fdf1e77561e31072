------------------------------- MODULE MCReactor -------------------------------
(* Model checking of Reactor: one descriptor and one coroutine more than   *)
(* it has directions.                                                      *)
EXTENDS Reactor
================================================================================
