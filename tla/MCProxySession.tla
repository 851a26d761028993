--------------------------- MODULE MCProxySession ---------------------------
(* The instance of ProxySession for TLC.                                   *)
EXTENDS ProxySession
=============================================================================
