-------------------------------- MODULE MCProxy --------------------------------
(* Model checking of Proxy: one session, whose sockets and coroutines      *)
(* ProxyAssumption names.                                                  *)
EXTENDS Proxy
================================================================================
