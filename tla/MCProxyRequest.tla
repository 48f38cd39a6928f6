--------------------------- MODULE MCProxyRequest ---------------------------
(***************************************************************************)
(* ProxyRequest for TLC: one request, served by any of the handlers, and   *)
(* reloads between no retry, one without 429, and two with it.             *)
(***************************************************************************)
EXTENDS ProxyRequest

CONSTANTS r1

RetryConfigs ==
    {[retryMax |-> 0, retry429 |-> FALSE],
     [retryMax |-> 1, retry429 |-> FALSE],
     [retryMax |-> 2, retry429 |-> TRUE]}
=============================================================================
