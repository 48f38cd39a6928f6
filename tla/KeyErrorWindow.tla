--------------------------- MODULE KeyErrorWindow ---------------------------
(***************************************************************************)
(* RecordKeyError for one managed key, next to a full record of the errors *)
(* it was told of: how the code's window, which starts at an error and is  *)
(* replaced as a whole, relates to a window that rolls with the clock.     *)
(* The configuration is fixed here; KeyPool is about reloads.              *)
(***************************************************************************)
EXTENDS KeyErrors, FiniteSetsExt

CONSTANT Config     \* a record with threshold, window and backoff

ASSUME ConfigAssumption ==
    /\ Config.threshold \in Nat \ {0}
    /\ Config.window \in 1..MaxAge - 1
    /\ Config.backoff \in Nat \ {0}

VARIABLES
    state,      \* RuntimeStore.keyErrors of the key
    recent      \* history: errors by age, since the last backoff or reset

vars == <<state, recent>>

Ages == 0..Config.window

NoErrors == [a \in Ages |-> 0]

\* The errors of the last Config.window ticks: what a rolling window counts.
Rolling == MapThenSumSet(LAMBDA a : recent[a], Ages)

Init ==
    /\ state = ZeroState
    /\ recent = NoErrors

\* Mutant: the fresh window keeps the count of the stale one.
RecordKeepsCount ==
    /\ ~ InBackoff(state)
    /\ state' = IF state.count + 1 >= Config.threshold
                  THEN EnterBackoff(Config)
                  ELSE [state EXCEPT !.count = @ + 1, !.age = IF WindowStale(state, Config) THEN 0 ELSE @]
    /\ recent' = IF InBackoff(state') THEN NoErrors ELSE [recent EXCEPT ![0] = @ + 1]

\* Mutant: an error of a key in backoff counts like any other.
RecordInBackoff ==
    /\ state' = AfterError(state, Config)
    /\ recent' = IF InBackoff(state') THEN NoErrors ELSE [recent EXCEPT ![0] = @ + 1]

\* An error of a key that is not in backoff is counted.
Record ==
    /\ ~ InBackoff(state)
    /\ state' = AfterError(state, Config)
    /\ recent' = IF InBackoff(state') THEN NoErrors ELSE [recent EXCEPT ![0] = @ + 1]

\* An error that arrives late, from a request that held the key before.
Ignore ==
    /\ InBackoff(state)
    /\ UNCHANGED vars

RecordKeyError == Record \/ Ignore

\* Every AcquireManaged and every Reload cleans up.
Cleanup ==
    /\ state' = CleanupError(state, Config)
    /\ UNCHANGED recent

Reset ==
    /\ state' = AfterReset
    /\ recent' = NoErrors

Tick ==
    /\ state' = Older(state)
    /\ recent' = [a \in Ages |-> IF a = 0 THEN 0 ELSE recent[a - 1]]

Next == RecordKeyError \/ Cleanup \/ Reset \/ Tick

Spec == Init /\ [][Next]_vars

-----------------------------------------------------------------------------

\* The record of a key has its type, and outside of backoff its count is below
\* the threshold (runtime_store.go:55-62, 577).
TypeOK ==
    /\ state \in [age: NoWindow..MaxAge, count: 0..Config.threshold - 1, until: Past..Config.backoff]
    /\ recent \in [Ages -> Nat]

\* A key is put into backoff only by as many errors as the threshold says, all
\* of them within the last window: no count survives a stale window, a cleanup,
\* a reset or an earlier backoff (572-580, 606).
BackoffNeedsThreshold ==
    [][~ InBackoff(state) /\ InBackoff(state') => Rolling + 1 >= Config.threshold]_vars

\* Errors that arrive while a key cools down do not prolong its backoff: late
\* failures of the requests that were on the key are ignored (568-570).
BackoffNotExtended ==
    [][InBackoff(state) => state'.until <= state.until]_vars

\* How late the code's window may be: a key that was not put into backoff has
\* seen fewer errors in any span of one window than two windows may hold.
TwoWindowsBound == Rolling <= 2 * (Config.threshold - 1)

\* What the documents promise: the threshold number of errors within any span
\* of one window puts the key into backoff (README.md:126-127).
RollingThreshold == Rolling < Config.threshold
=============================================================================
