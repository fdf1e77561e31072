------------------------------- MODULE MCUdpEcho -------------------------------
(* Model checking of UdpEcho: one socket, as many handlers as datagrams.   *)
EXTENDS UdpEcho
================================================================================
