--------------------------- MODULE ErrorRecorder ----------------------------
(***************************************************************************)
(* error_events.go: the files in which errors are recorded.                *)
(*                                                                         *)
(* There is one file per hour, found again by its age: files[k] is the     *)
(* number of lines in the file of k hours ago, zero when there is none.    *)
(* Every line counts one towards the size.  Record cleans up, then appends *)
(* to the file of the current hour, under the lock; Configure replaces the *)
(* limits under the same lock, unless it cannot make the directory.  The   *)
(* directory, the optional message of a line and the errors of the disk    *)
(* while a line is recorded are left out.                                  *)
(***************************************************************************)
EXTENDS Naturals, FiniteSetsExt

CONSTANTS
    Hours,      \* bound: how many hours back files are kept in the model
    Limits      \* the limits a configuration may have: [maxAge, maxSize]

ASSUME HoursAssumption == Hours \in Nat /\ \A l \in Limits : l.maxAge < Hours
ASSUME LimitsAssumption == \A l \in Limits : l \in [maxAge: Nat, maxSize: Nat \ {0}]

VARIABLES
    limits,     \* ErrorRecorder.maxAge and maxSize
    files       \* the lines of each hour's file

recorderVars == <<limits, files>>

Ages == 0..Hours

\* The lines of the files of the ages in S.
Lines(f, S) == MapThenSumSet(LAMBDA k : f[k], S)

Without(f, k) == [f EXCEPT ![k] = 0]

\* cleanupLocked's first pass: the files that are too old.
Young(f, l) == [k \in Ages |-> IF k > l.maxAge THEN 0 ELSE f[k]]

\* Mutant: the newest file goes first.
cleanupNewestFirst(f, l) ==
    LET drop[k \in 0..Hours + 1] ==
          IF k = 0 THEN Young(f, l)
          ELSE IF Lines(drop[k - 1], Ages) <= l.maxSize THEN drop[k - 1]
               ELSE Without(drop[k - 1], k - 1)
    IN  drop[Hours + 1]

\* Both passes: the second removes the oldest file until the rest is small enough.
cleanup(f, l) ==
    LET drop[k \in 0..Hours + 1] ==
          IF k = Hours + 1 THEN Young(f, l)
          ELSE IF Lines(drop[k + 1], Ages) <= l.maxSize THEN drop[k + 1]
               ELSE Without(drop[k + 1], k)
    IN  drop[0]

Record ==
    /\ files' = [cleanup(files, limits) EXCEPT ![0] = @ + 1]
    /\ UNCHANGED limits

\* The directory is made before the lock is taken.  When that fails the old limits
\* stay, and no caller looks at the error.
Configure(l) ==
    /\ limits' = l \/ UNCHANGED limits
    /\ UNCHANGED files

\* An hour begins.
Hour ==
    /\ files[Hours] = 0
    /\ files' = [k \in Ages |-> IF k = 0 THEN 0 ELSE files[k - 1]]
    /\ UNCHANGED limits

\* NewErrorRecorder, with the files of earlier runs left out.
RecorderInit(l) ==
    /\ limits = l
    /\ files = [k \in Ages |-> 0]
=============================================================================
