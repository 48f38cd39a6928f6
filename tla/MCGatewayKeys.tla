---------------------------- MODULE MCGatewayKeys ----------------------------
(***************************************************************************)
(* GatewayKeys for TLC: managed requests of two sessions, two clients that *)
(* send the same key, and reloads that change the mode and the limit.      *)
(***************************************************************************)
EXTENDS GatewayKeys, TLC

CONSTANTS r1, r2, s1, s2, c1, c2, ck

OwnSession == r1 :> s1 @@ r2 :> s2

SharedKey == c1 :> ck @@ c2 :> ck

AlikeClients == Permutations({c1, c2})

Base ==
    [limit |-> 1, timeout |-> 1, sticky |-> TRUE, ttl |-> 1,
     threshold |-> 1, window |-> 1, backoff |-> 1]

\* A reload raises the limit and back.
TwoLimits == {Base, [Base EXCEPT !.limit = 2]}

AKey == [enabled |-> TRUE, limit |-> 0]

\* The one managed key, or none that is enabled.
TwoModes == {[k \in {1} |-> AKey], [k \in {1} |-> [AKey EXCEPT !.enabled = FALSE]]}
=============================================================================
