------------------------------ MODULE KeyErrors ------------------------------
(***************************************************************************)
(* keyErrorState of runtime_store.go: the error window and the backoff of  *)
(* one managed key, as operators on a record.                              *)
(*                                                                         *)
(* Times are kept relative to the present, so that a behaviour may run for *)
(* ever in finitely many states: a moment t in the future is the number of *)
(* ticks left until t, and a moment in the past is Past.  The comparisons  *)
(* of the code become                                                      *)
(*     now.Before(t)  ==  left > 0          now.After(t)  ==  left < 0     *)
(* and the window, whose length is read from the configuration only when   *)
(* it is needed, is kept as the age of its first moment.                   *)
(*                                                                         *)
(* A configuration c is a record; the fields read here are c.threshold,    *)
(* c.window and c.backoff.                                                 *)
(***************************************************************************)
EXTENDS Integers

CONSTANT MaxAge     \* ages are counted up to this; beyond every window

ASSUME MaxAgeAssumption == MaxAge \in Nat

Past == -1          \* a moment that has passed, and Go's zero time

NoWindow == -1      \* the age of a window that was never started

\* One tick for the time left until some moment.
Sooner(left) == IF left = Past THEN Past ELSE left - 1

\* What the map returns for a key it does not hold.
ZeroState == [age |-> NoWindow, count |-> 0, until |-> Past]

InBackoff(e) == e.until > 0

\* RecordKeyError returns before it looks at the key.
BackoffDisabled(c) == c.threshold <= 0 \/ c.backoff <= 0

WindowStale(e, c) == e.age = NoWindow \/ e.age > c.window

\* The window and the count after the error, before the threshold is tested.
Counted(e, c) ==
    IF WindowStale(e, c)
      THEN [age |-> 0, count |-> 1, until |-> e.until]
      ELSE [age |-> e.age, count |-> e.count + 1, until |-> e.until]

EnterBackoff(c) == [age |-> NoWindow, count |-> 0, until |-> c.backoff]

\* Mutant: the threshold is the last count that is tolerated.
AfterErrorLate(e, c) ==
    IF Counted(e, c).count > c.threshold THEN EnterBackoff(c) ELSE Counted(e, c)

\* The state RecordKeyError stores for a key that is not in backoff.
AfterError(e, c) ==
    IF Counted(e, c).count >= c.threshold THEN EnterBackoff(c) ELSE Counted(e, c)

\* Mutant: the cleanup looks at the backoff alone.
ForgettableEarly(e, c) == e.until < 0

\* cleanupKeyErrorsLocked drops the record of a key.
Forgettable(e, c) == e.until < 0 /\ (e.age = NoWindow \/ e.age > c.window)

CleanupError(e, c) == IF Forgettable(e, c) THEN ZeroState ELSE e

\* ResetKeyBackoff clears all three fields.
AfterReset == ZeroState

\* One tick of the clock.
Older(e) ==
    [age |-> IF e.age \in {NoWindow, MaxAge} THEN e.age ELSE e.age + 1,
     count |-> e.count,
     until |-> Sooner(e.until)]
=============================================================================
