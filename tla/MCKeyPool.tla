------------------------------ MODULE MCKeyPool ------------------------------
(***************************************************************************)
(* KeyPool for TLC: two keys, two requests of one session, and the         *)
(* configurations and key files that a reload moves between.               *)
(***************************************************************************)
EXTENDS KeyPool, TLC

CONSTANTS r1, r2, s1

SharedSession == r1 :> s1 @@ r2 :> s1

BaseConfig ==
    [limit |-> 1, timeout |-> 2, sticky |-> TRUE, ttl |-> 2,
     threshold |-> 1, window |-> 1, backoff |-> 1]

\* A reload turns the stickiness and the backoff off and raises the limit.
TwoConfigs == {BaseConfig, [BaseConfig EXCEPT !.sticky = FALSE, !.threshold = 0, !.limit = 2]}

AKey == [enabled |-> TRUE, limit |-> 0]

BothKeys == [k \in {1, 2} |-> AKey]

\* Key 1 is gone and key 2 has a limit of its own, or key 2 is gone and key 1
\* is disabled: then no key is left to serve a request.
ThreeFiles ==
    {BothKeys,
     [k \in {2} |-> [AKey EXCEPT !.limit = 2]],
     [k \in {1} |-> [AKey EXCEPT !.enabled = FALSE]]}
=============================================================================
