------------------------------ MODULE LeaseUse ------------------------------
(***************************************************************************)
(* What the runtime store may rely on from the handler of a request: it    *)
(* takes one lease, reports at most one error against the key of that      *)
(* lease while it holds it, and returns it once.  KeyPool lets its         *)
(* requests do this and no more; ProxyRequest implements it.               *)
(***************************************************************************)
EXTENDS Naturals

CONSTANT Clients    \* the requests

VARIABLES
    phase,      \* whether each holds its lease
    errors      \* how many errors it has reported

vars == <<phase, errors>>

Init ==
    /\ phase = [c \in Clients |-> "none"]
    /\ errors = [c \in Clients |-> 0]

Take(c) ==
    /\ phase[c] = "none"
    /\ phase' = [phase EXCEPT ![c] = "held"]
    /\ UNCHANGED errors

Report(c) ==
    /\ phase[c] = "held"
    /\ errors[c] = 0
    /\ errors' = [errors EXCEPT ![c] = 1]
    /\ UNCHANGED phase

Return(c) ==
    /\ phase[c] = "held"
    /\ phase' = [phase EXCEPT ![c] = "returned"]
    /\ UNCHANGED errors

Next == \E c \in Clients : Take(c) \/ Report(c) \/ Return(c)

Spec == Init /\ [][Next]_vars
=============================================================================
