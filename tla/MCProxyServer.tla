--------------------------- MODULE MCProxyServer ---------------------------
(* Model-checking constants of ProxyServer. *)
EXTENDS ProxyServer

CONSTANTS c1, c2, n1, n2, none, nil
=============================================================================
