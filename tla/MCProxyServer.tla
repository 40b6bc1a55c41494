----------------------------- MODULE MCProxyServer -----------------------------
(***************************************************************************)
(* TLC instance of ProxyServer: two requests, each on a connection of its  *)
(* own, and a ring that holds one record.  Spans are born to the backend   *)
(* of the first; early errors of both are counted there.                   *)
(***************************************************************************)
EXTENDS ProxyServer

MCTarget == [r1 |-> "a", r2 |-> "b"]
=============================================================================
