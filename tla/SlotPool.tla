------------------------------ MODULE SlotPool ------------------------------
(***************************************************************************)
(* What a per-key concurrency gate promises, without channels, timers,     *)
(* buckets or leases: at most Slots clients hold a key at a time, the rest *)
(* stand in one line for it, and a slot that comes free goes to the head   *)
(* of that line in the same instant.  KeyLimiter implements it.            *)
(***************************************************************************)
EXTENDS Naturals, FiniteSets, Sequences, SequencesExt

CONSTANTS
    Clients,    \* everyone who may ask for a key
    Keys,       \* the keys
    Slots       \* how many clients may hold the same key

VARIABLES
    holders,    \* the clients that own a slot of a key
    line        \* the clients that wait for one, in order of arrival

vars == <<holders, line>>

Init ==
    /\ holders = [k \in Keys |-> {}]
    /\ line = [k \in Keys |-> <<>>]

\* A newcomer takes a slot only when one is free and nobody waits for it.
Enter(c, k) ==
    /\ c \notin holders[k]
    /\ ~ Contains(line[k], c)
    /\ IF Cardinality(holders[k]) < Slots /\ line[k] = <<>>
         THEN holders' = [holders EXCEPT ![k] = @ \cup {c}] /\ UNCHANGED line
         ELSE line' = [line EXCEPT ![k] = Append(@, c)] /\ UNCHANGED holders

\* A client gives up, wherever it stands.
Leave(c, k) ==
    /\ \E i \in 1..Len(line[k]) :
         line[k][i] = c /\ line' = [line EXCEPT ![k] = RemoveAt(@, i)]
    /\ UNCHANGED holders

\* A holder returns its slot; the head of the line owns it at once.
Return(c, k) ==
    /\ c \in holders[k]
    /\ IF line[k] = <<>>
         THEN holders' = [holders EXCEPT ![k] = @ \ {c}] /\ UNCHANGED line
         ELSE /\ holders' = [holders EXCEPT ![k] = (@ \ {c}) \cup {Head(line[k])}]
              /\ line' = [line EXCEPT ![k] = Tail(@)]

Next == \E c \in Clients, k \in Keys : Enter(c, k) \/ Leave(c, k) \/ Return(c, k)

Spec == Init /\ [][Next]_vars
=============================================================================
