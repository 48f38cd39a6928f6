------------------------------- MODULE KeyUse -------------------------------
(***************************************************************************)
(* What the upstream may rely on from the gateway, without counts, queues, *)
(* channels, sessions, files or modes: a request uses one key at a time,   *)
(* and it starts to use a key only while fewer requests are on that key    *)
(* than are allowed at that moment.  What is allowed may change at any     *)
(* time, also below the number of requests that are on the key already;    *)
(* on a key that is disabled or cools down nothing is.  GatewayKeys        *)
(* implements it.                                                          *)
(***************************************************************************)
EXTENDS Naturals, FiniteSets

CONSTANTS
    Users,      \* the requests
    Keys        \* the keys, managed ones and the clients' own

VARIABLES
    holders,    \* the requests that are on a key
    allowed     \* how many may be, for one more to start

vars == <<holders, allowed>>

Init ==
    /\ holders = [k \in Keys |-> {}]
    /\ allowed \in [Keys -> Nat]

Start(u, k) ==
    /\ \A j \in Keys : u \notin holders[j]
    /\ Cardinality(holders[k]) < allowed[k]
    /\ holders' = [holders EXCEPT ![k] = @ \cup {u}]
    /\ UNCHANGED allowed

Stop(u, k) ==
    /\ u \in holders[k]
    /\ holders' = [holders EXCEPT ![k] = @ \ {u}]
    /\ UNCHANGED allowed

Change ==
    /\ allowed' \in [Keys -> Nat]
    /\ UNCHANGED holders

Next ==
    \/ Change
    \/ \E u \in Users, k \in Keys : Start(u, k) \/ Stop(u, k)

Spec == Init /\ [][Next]_vars
=============================================================================
