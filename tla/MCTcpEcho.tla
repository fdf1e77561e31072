-------------------------------- MODULE MCTcpEcho --------------------------------
(* Model checking of TcpEcho: one worker, whose descriptors are reused.    *)
EXTENDS TcpEcho

(* A connection whose data overflows the buffer, and one whose data does   *)
(* not, but is sent in two parts.                                          *)
BufferSizes == [f \in Connection |-> IF f = CHOOSE g \in Connection : TRUE THEN 1 ELSE 2]
================================================================================
