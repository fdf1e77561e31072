------------------------------ MODULE MCLoopMailbox ------------------------------
(* Model checking of LoopMailbox: two posting threads and the loop thread. *)
EXTENDS LoopMailbox
==================================================================================
