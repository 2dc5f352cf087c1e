--------------------------------- MODULE MCHub ---------------------------------
(* Model values for Hub.  Connections meet only in the registry; a queue   *)
(* of one is soonest full.                                                 *)
EXTENDS Hub

CONSTANTS w1

OneConn == {w1}
===============================================================================
