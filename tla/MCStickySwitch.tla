--------------------------- MODULE MCStickySwitch ---------------------------
(***************************************************************************)
(* StickySwitch for TLC: two requests of different sessions, so that no    *)
(* other request of the session can move its entry, two keys that stay as  *)
(* they are, and a sticky window shorter than the queue timeout, as in     *)
(* DefaultConfig (10s and 50s).                                            *)
(***************************************************************************)
EXTENDS StickySwitch, TLC

CONSTANTS r1, r2, s1, s2

OwnSession == r1 :> s1 @@ r2 :> s2

ShortWindow ==
    {[limit |-> 1, timeout |-> 3, sticky |-> TRUE, ttl |-> 2,
      threshold |-> 0, window |-> 1, backoff |-> 1]}

BothKeys == {[k \in {1, 2} |-> [enabled |-> TRUE, limit |-> 0]]}
=============================================================================
