------------------------ MODULE KeyErrorWindowProofs ------------------------
(***************************************************************************)
(* Proofs about KeyErrorWindow: its types, which bound the count below the *)
(* threshold; that late errors do not prolong a backoff; and how far the   *)
(* count of a window that does not roll may be from the errors of the last *)
(* window.  The last rests on what an open window has counted of them.     *)
(***************************************************************************)
EXTENDS KeyErrorWindow, FoldTheorems

StateType == [age: NoWindow..MaxAge, count: 0..Config.threshold - 1, until: Past..Config.backoff]

LEMMA Constants ==
    /\ Config.threshold \in Nat \ {0} /\ Config.backoff \in Nat \ {0}
    /\ Config.window \in Nat \ {0} /\ MaxAge \in Nat \ {0}
BY ConfigAssumption, MaxAgeAssumption

LEMMA ZeroTyped == ZeroState \in StateType
BY Constants DEF ZeroState, StateType, NoWindow, Past

\* An error leaves a count below the threshold, or puts the key into backoff.
LEMMA AfterErrorTyped ==
    ASSUME NEW e \in StateType
    PROVE  AfterError(e, Config) \in StateType
<1>1. EnterBackoff(Config) \in StateType
  BY Constants DEF EnterBackoff, StateType, NoWindow, Past
<1>2. Counted(e, Config) \in [age: NoWindow..MaxAge, count: Nat, until: Past..Config.backoff]
  BY Constants DEF Counted, StateType, NoWindow, Past
<1>3. Counted(e, Config).count < Config.threshold => Counted(e, Config) \in StateType
  BY <1>2, Constants DEF StateType
<1> QED
  BY <1>1, <1>2, <1>3, Constants DEF AfterError

\* A tick makes the window older and brings the end of the backoff nearer.
LEMMA OlderTyped ==
    ASSUME NEW e \in StateType
    PROVE  Older(e) \in StateType /\ Older(e).until <= e.until
<1>1. Sooner(e.until) \in Past..Config.backoff /\ Sooner(e.until) <= e.until
  BY Constants DEF Sooner, Past, StateType
<1>2. (IF e.age \in {NoWindow, MaxAge} THEN e.age ELSE e.age + 1) \in NoWindow..MaxAge
  BY Constants DEF StateType, NoWindow
<1> QED
  BY <1>1, <1>2 DEF Older, StateType

LEMMA RecentTyped ==
    ASSUME recent \in [Ages -> Nat]
    PROVE  /\ NoErrors \in [Ages -> Nat]
           /\ [recent EXCEPT ![0] = @ + 1] \in [Ages -> Nat]
           /\ [a \in Ages |-> IF a = 0 THEN 0 ELSE recent[a - 1]] \in [Ages -> Nat]
<1>1. \A a \in Ages : a # 0 => a - 1 \in Ages
  BY Constants DEF Ages
<1>2. \A a \in Ages : (IF a = 0 THEN 0 ELSE recent[a - 1]) \in Nat
  BY <1>1
<1>3. \A n \in Nat : n + 1 \in Nat
  OBVIOUS
<1>4. NoErrors \in [Ages -> Nat]
  BY DEF NoErrors
<1>5. [recent EXCEPT ![0] = @ + 1] \in [Ages -> Nat]
  BY <1>3
<1> QED
  BY <1>2, <1>4, <1>5

LEMMA StepTypeOK == TypeOK /\ [Next]_vars => TypeOK'
<1> SUFFICES ASSUME TypeOK, [Next]_vars PROVE TypeOK'
  OBVIOUS
<1>0. state \in StateType /\ recent \in [Ages -> Nat]
  BY DEF TypeOK, StateType
<1> SUFFICES state' \in StateType /\ recent' \in [Ages -> Nat]
  BY DEF TypeOK, StateType
<1>1. CASE Record
  BY <1>0, <1>1, AfterErrorTyped, RecentTyped DEF Record
<1>2. CASE Ignore
  BY <1>0, <1>2 DEF Ignore, vars
<1>3. CASE Cleanup
  BY <1>0, <1>3, ZeroTyped DEF Cleanup, CleanupError
<1>4. CASE Reset
  BY <1>4, <1>0, ZeroTyped, RecentTyped DEF Reset, AfterReset
<1>5. CASE Tick
  BY <1>0, <1>5, OlderTyped, RecentTyped DEF Tick
<1>6. CASE UNCHANGED vars
  BY <1>0, <1>6 DEF vars
<1> QED
  BY <1>1, <1>2, <1>3, <1>4, <1>5, <1>6 DEF Next, RecordKeyError

-----------------------------------------------------------------------------
(***************************************************************************)
(* What the count says of the errors of the last window.                   *)
(***************************************************************************)

\* An error would be added to the count.
Open == ~ WindowStale(state, Config)

\* The count of an open window is the number of errors since it was opened, and
\* those before that were not enough for a backoff.
OpenAccounted ==
    Open => /\ SumTo(recent, state.age) = state.count
            /\ SumTo(recent, Config.window) <= state.count + (Config.threshold - 1)

\* Without an open window there is no error of this moment, and the recent ones
\* were not enough for a backoff.
StaleAccounted ==
    ~ Open => /\ recent[0] = 0
              /\ SumTo(recent, Config.window) <= Config.threshold - 1

Accounted == TypeOK /\ OpenAccounted /\ StaleAccounted

\* The rolling count is the sum over all ages of a window.
LEMMA RollingIsSum == Rolling = SumTo(recent, Config.window)
BY DEF Rolling, SumTo, SumOver, Ages

\* What is known in a state where the invariant holds.
LEMMA Facts ==
    ASSUME Accounted
    PROVE  /\ state \in StateType /\ recent \in [0..Config.window -> Nat]
           /\ state.count \in 0..Config.threshold - 1 /\ state.age \in NoWindow..MaxAge
           /\ SumTo(recent, Config.window) \in Nat
           /\ Config.window < MaxAge
           /\ Open => /\ state.age \in 0..Config.window
                      /\ SumTo(recent, state.age) <= SumTo(recent, Config.window)
           /\ ~ Open => state.age = NoWindow \/ state.age > Config.window
<1>1. /\ state \in StateType /\ recent \in [0..Config.window -> Nat]
      /\ state.count \in 0..Config.threshold - 1 /\ state.age \in NoWindow..MaxAge
  BY DEF Accounted, TypeOK, StateType, Ages
<1>2. SumTo(recent, Config.window) \in Nat
  BY <1>1, Constants, SumToType
<1>3. Config.window < MaxAge
  BY ConfigAssumption, MaxAgeAssumption
<1>4. Open => state.age \in 0..Config.window
  BY <1>1, Constants DEF Open, WindowStale, NoWindow
<1>5. Open => SumTo(recent, state.age) <= SumTo(recent, Config.window)
  <2>1. Config.window \in 0..Config.window /\ Config.window \in Nat
    BY Constants
  <2>2. SUFFICES ASSUME Open PROVE SumTo(recent, state.age) <= SumTo(recent, Config.window)
    OBVIOUS
  <2>3. state.age \in 0..Config.window /\ state.age <= Config.window
    BY <1>4, <2>2, Constants
  <2> QED
    BY <1>1, <2>1, <2>3, SumToGrows
<1> QED
  BY <1>1, <1>2, <1>3, <1>4, <1>5 DEF Open, WindowStale

\* An error more is one more in every sum.
LEMMA SumToPlusOne ==
    ASSUME NEW n \in Nat, NEW f \in [0..n -> Nat], NEW k \in 0..n
    PROVE  SumTo([f EXCEPT ![0] = @ + 1], k) = SumTo(f, k) + 1
<1> DEFINE e == [f EXCEPT ![0] = @ + 1]
           S == 0..k
<1>1. IsFiniteSet(S) /\ 0 \in S /\ \A x \in S : x \in 0..n
  <2>1. k \in Int /\ k >= 0 /\ k <= n
    OBVIOUS
  <2>2. IsFiniteSet(S)
    BY <2>1, FS_Interval
  <2> QED
    BY <2>1, <2>2
<1>2. e[0] = f[0] + 1 /\ \A x \in S \ {0} : e[x] = f[x]
  BY <1>1
<1>3. \A x \in S : f[x] \in Nat
  BY <1>1
<1> HIDE DEF e
<1>4. SumOver(e, S) = SumOver(f, S) + 1
  <2> HIDE DEF S
  <2> QED
    BY <1>1, <1>2, <1>3, SumPlusOne
<1> QED
  BY <1>4 DEF SumTo, e

\* A backoff and a reset leave no window and no errors.
LEMMA NothingLeft ==
    ASSUME TypeOK', recent' = NoErrors, state'.age = NoWindow
    PROVE  Accounted'
<1>1. NoErrors \in [0..Config.window -> Nat] /\ \A a \in 0..Config.window : NoErrors[a] = 0
  BY DEF NoErrors, Ages
<1>2. 0 \in 0..Config.window /\ Config.window \in 0..Config.window /\ Config.window \in Nat
  BY Constants
<1>3. SumTo(NoErrors, Config.window) = 0
  BY <1>1, <1>2, SumToZero
<1>4. ~ Open'
  BY DEF Open, WindowStale
<1>5. NoErrors[0] = 0
  BY <1>1, <1>2
<1> QED
  BY <1>3, <1>4, <1>5, Constants DEF Accounted, OpenAccounted, StaleAccounted

\* An error is counted, opens a window, or is the last before the backoff.
LEMMA RecordAccounted ==
    ASSUME Accounted, TypeOK', Record
    PROVE  Accounted'
<1>1. CASE InBackoff(state')
  <2>1. state' = AfterError(state, Config) /\ ~ InBackoff(state) /\ recent' = NoErrors
    BY <1>1 DEF Record
  <2>2. state' = EnterBackoff(Config)
    BY <1>1, <2>1 DEF AfterError, Counted, InBackoff
  <2> QED
    BY <2>1, <2>2, NothingLeft DEF EnterBackoff
<1>2. CASE ~ InBackoff(state')
  <2>1. /\ state' = Counted(state, Config) /\ Counted(state, Config).count < Config.threshold
        /\ recent' = [recent EXCEPT ![0] = @ + 1]
    <3>1. InBackoff(EnterBackoff(Config))
      BY Constants DEF InBackoff, EnterBackoff
    <3>2. state' = Counted(state, Config) /\ ~ (Counted(state, Config).count >= Config.threshold)
      BY <1>2, <3>1 DEF Record, AfterError
    <3>3. Counted(state, Config).count \in Int
      BY Facts DEF Counted
    <3> QED
      BY <1>2, <3>2, <3>3, Constants DEF Record
  <2>2. Config.window \in Nat /\ Config.window \in 0..Config.window /\ 0 \in 0..Config.window
    BY Constants
  <2>3. SumTo(recent', Config.window) = SumTo(recent, Config.window) + 1
    BY <2>1, <2>2, Facts, SumToPlusOne
  <2>4. CASE Open
    <3>1. state'.age = state.age /\ state'.count = state.count + 1
      BY <2>1, <2>4 DEF Counted, Open
    <3>2. Open'
      BY <2>4, <3>1 DEF Open, WindowStale
    <3>3. SumTo(recent', state'.age) = SumTo(recent, state.age) + 1
      BY <2>1, <2>2, <2>4, <3>1, Facts, SumToPlusOne
    <3>4. /\ SumTo(recent, state.age) = state.count
          /\ SumTo(recent, Config.window) <= state.count + (Config.threshold - 1)
      BY <2>4 DEF Accounted, OpenAccounted
    <3>5. SumTo(recent', state'.age) = state'.count
      BY <3>1, <3>3, <3>4
    <3>6. SumTo(recent', Config.window) <= state'.count + (Config.threshold - 1)
      BY <2>3, <3>1, <3>4, Facts, Constants
    <3> QED
      BY <3>2, <3>5, <3>6 DEF Accounted, OpenAccounted, StaleAccounted
  <2>5. CASE ~ Open
    <3>1. state'.age = 0 /\ state'.count = 1
      BY <2>1, <2>5 DEF Counted, Open
    <3>2. Open'
      BY <3>1, Constants DEF Open, WindowStale, NoWindow
    <3>3. recent[0] = 0 /\ SumTo(recent, Config.window) <= Config.threshold - 1
      BY <2>5 DEF Accounted, StaleAccounted
    <3>4. SumTo(recent, 0) = 0
      BY <2>2, <3>3, Facts, SumToStart
    <3>5. SumTo(recent', 0) = 0 + 1
      BY <2>1, <2>2, <3>4, Facts, SumToPlusOne
    <3>6. SumTo(recent', state'.age) = state'.count
      BY <3>1, <3>5
    <3>7. SumTo(recent', Config.window) <= state'.count + (Config.threshold - 1)
      BY <2>3, <3>1, <3>3, Facts, Constants
    <3> QED
      BY <3>2, <3>6, <3>7 DEF Accounted, OpenAccounted, StaleAccounted
  <2> QED
    BY <2>4, <2>5
<1> QED
  BY <1>1, <1>2

\* Only a record whose window is stale is dropped.
LEMMA CleanupAccounted ==
    ASSUME Accounted, TypeOK', Cleanup
    PROVE  Accounted'
<1>1. CASE state' = state
  BY <1>1 DEF Cleanup, Accounted, OpenAccounted, StaleAccounted, Open
<1>2. CASE state' # state
  <2>1. state' = ZeroState /\ ~ Open /\ recent' = recent
    BY <1>2 DEF Cleanup, CleanupError, Forgettable, Open, WindowStale
  <2>2. ~ Open'
    BY <2>1 DEF Open, WindowStale, ZeroState
  <2> QED
    BY <2>1, <2>2 DEF Accounted, OpenAccounted, StaleAccounted
<1> QED
  BY <1>1, <1>2

\* With a tick every error is one older; a window that goes stale takes with it
\* the errors from before it was opened.
LEMMA TickAccounted ==
    ASSUME Accounted, TypeOK', Tick
    PROVE  Accounted'
<1> DEFINE W == Config.window
<1>0. W \in Nat /\ W # 0 /\ W - 1 \in Nat /\ (W - 1) + 1 = W /\ W \in 0..W /\ W - 1 \in 0..W
  BY Constants
<1>1. recent \in [0..W -> Nat] /\ recent' \in [0..W -> Nat]
  BY Facts DEF TypeOK, Ages
<1>2. recent' = [a \in 0..W |-> IF a = 0 THEN 0 ELSE recent[a - 1]]
  BY DEF Tick, Ages
<1>3. recent'[0] = 0 /\ \A a \in Nat : a + 1 <= W => recent'[a + 1] = recent[a]
  <2>1. recent'[0] = 0
    BY <1>0, <1>2
  <2>2. ASSUME NEW a \in Nat, a + 1 <= W PROVE recent'[a + 1] = recent[a]
    <3>1. a + 1 \in 0..W /\ a + 1 # 0 /\ (a + 1) - 1 = a
      BY <1>0, <2>2
    <3> QED
      BY <1>2, <3>1
  <2> QED
    BY <2>1, <2>2
<1> HIDE DEF W
<1>4. \A k \in Nat : k + 1 <= W => SumTo(recent', k + 1) = SumTo(recent, k)
  BY <1>0, <1>1, <1>3, SumToShifted
<1>5. /\ SumTo(recent', W) = SumTo(recent, W - 1)
      /\ SumTo(recent, W - 1) <= SumTo(recent, W)
      /\ SumTo(recent, W - 1) \in Nat /\ SumTo(recent, W) \in Nat
  <2>1. SumTo(recent', W) = SumTo(recent, W - 1)
    <3>1. (W - 1) + 1 <= W
      BY <1>0
    <3>2. SumTo(recent', (W - 1) + 1) = SumTo(recent, W - 1)
      BY <1>0, <1>4, <3>1
    <3> QED
      BY <1>0, <3>2
  <2>2. W - 1 <= W
    BY <1>0
  <2>3. SumTo(recent, W - 1) <= SumTo(recent, W)
    BY <1>0, <1>1, <2>2, SumToGrows
  <2>4. SumTo(recent, W - 1) \in Nat /\ SumTo(recent, W) \in Nat
    BY <1>0, <1>1, <2>2, SumToType
  <2> QED
    BY <2>1, <2>3, <2>4
<1>6. /\ state'.count = state.count
      /\ state'.age = IF state.age \in {NoWindow, MaxAge} THEN state.age ELSE state.age + 1
  BY DEF Tick, Older
<1>f. /\ state.count \in 0..Config.threshold - 1 /\ state.age \in NoWindow..MaxAge
      /\ W < MaxAge
      /\ Open => state.age \in 0..W
      /\ ~ Open => state.age = NoWindow \/ state.age > W
  BY Facts DEF W
<1>g. /\ Open <=> ~ (state.age = NoWindow \/ state.age > W)
      /\ Open' <=> ~ (state'.age = NoWindow \/ state'.age > W)
  BY DEF Open, WindowStale, W
<1>7. CASE Open
  <2>1. /\ SumTo(recent, state.age) = state.count
        /\ SumTo(recent, W) <= state.count + (Config.threshold - 1)
    BY <1>7 DEF Accounted, OpenAccounted, W
  <2>2. state.age \in Nat /\ state.age <= W /\ state'.age = state.age + 1
    BY <1>0, <1>6, <1>7, <1>f, Constants DEF NoWindow
  <2>3. CASE state.age = W
    <3>1. ~ Open'
      BY <1>0, <1>g, <2>2, <2>3
    <3>2. SumTo(recent', W) <= Config.threshold - 1
      BY <1>5, <1>f, <2>1, <2>3, Constants
    <3> QED
      BY <1>3, <3>1, <3>2 DEF Accounted, OpenAccounted, StaleAccounted, W
  <2>4. CASE state.age # W
    <3>1. state.age + 1 <= W
      BY <1>0, <2>2, <2>4
    <3>2. Open'
      BY <1>0, <1>g, <2>2, <3>1 DEF NoWindow
    <3>3. SumTo(recent', state'.age) = state'.count
      BY <1>4, <1>6, <2>1, <2>2, <3>1
    <3>4. SumTo(recent', W) <= state'.count + (Config.threshold - 1)
      BY <1>5, <1>6, <1>f, <2>1, Constants
    <3> QED
      BY <3>2, <3>3, <3>4 DEF Accounted, OpenAccounted, StaleAccounted, W
  <2> QED
    BY <2>3, <2>4
<1>8. CASE ~ Open
  <2>1. ~ Open'
    BY <1>0, <1>6, <1>8, <1>f, <1>g, Constants DEF NoWindow
  <2>2. SumTo(recent, W) <= Config.threshold - 1
    BY <1>8 DEF Accounted, StaleAccounted, W
  <2>3. SumTo(recent', W) <= Config.threshold - 1
    BY <1>5, <2>2, Constants
  <2> QED
    BY <1>3, <2>1, <2>3 DEF Accounted, OpenAccounted, StaleAccounted, W
<1> QED
  BY <1>7, <1>8

LEMMA StepAccounted == Accounted /\ [Next]_vars => Accounted'
<1> SUFFICES ASSUME Accounted, [Next]_vars PROVE Accounted'
  OBVIOUS
<1>1. TypeOK'
  BY StepTypeOK DEF Accounted
<1>2. CASE Record
  BY <1>1, <1>2, RecordAccounted
<1>3. CASE Cleanup
  BY <1>1, <1>3, CleanupAccounted
<1>4. CASE Reset
  BY <1>1, <1>4, NothingLeft DEF Reset, AfterReset, ZeroState
<1>5. CASE Tick
  BY <1>1, <1>5, TickAccounted
<1>6. CASE Ignore \/ UNCHANGED vars
  BY <1>6 DEF Ignore, vars, Accounted, OpenAccounted, StaleAccounted, Open, TypeOK
<1> QED
  BY <1>2, <1>3, <1>4, <1>5, <1>6 DEF Next, RecordKeyError

-----------------------------------------------------------------------------
(***************************************************************************)
(* Theorems.                                                               *)
(***************************************************************************)

\* For every threshold, window and backoff, the record of a key has its type,
\* and its count stays below the threshold (runtime_store.go:55-62, 577).
THEOREM TypeCorrect == Spec => []TypeOK
<1>1. Init => TypeOK
  BY ZeroTyped DEF Init, NoErrors, TypeOK, StateType
<1> QED
  BY <1>1, StepTypeOK, PTL DEF Spec

\* While a key cools down, nothing moves the end of its backoff away
\* (runtime_store.go:568-570).
THEOREM BackoffNotExtendedCorrect == Spec => BackoffNotExtended
<1>1. TypeOK /\ [Next]_vars => [InBackoff(state) => state'.until <= state.until]_vars
  <2> SUFFICES ASSUME TypeOK, [Next]_vars, InBackoff(state)
               PROVE  state'.until <= state.until
    OBVIOUS
  <2>0. state \in StateType /\ state.until \in Int /\ state.until > 0
    BY Constants DEF TypeOK, StateType, InBackoff, Past
  <2>1. ZeroState.until <= state.until
    BY <2>0 DEF ZeroState, Past
  <2>2. CASE RecordKeyError \/ UNCHANGED vars
    BY <2>0, <2>2 DEF RecordKeyError, Record, Ignore, InBackoff, vars
  <2>3. CASE Cleanup \/ Reset
    BY <2>0, <2>1, <2>3 DEF Cleanup, CleanupError, Reset, AfterReset
  <2>4. CASE Tick
    BY <2>0, <2>4, OlderTyped DEF Tick
  <2> QED
    BY <2>2, <2>3, <2>4 DEF Next
<1> QED
  BY <1>1, TypeCorrect, PTL DEF Spec, BackoffNotExtended

\* The count and the errors of the last window agree as Accounted says.
THEOREM AccountedCorrect == Spec => []Accounted
<1>1. Init => Accounted
  <2> SUFFICES ASSUME Init PROVE Accounted
    OBVIOUS
  <2>1. TypeOK
    BY ZeroTyped DEF Init, NoErrors, TypeOK, StateType
  <2>2. NoErrors \in [0..Config.window -> Nat] /\ \A a \in 0..Config.window : NoErrors[a] = 0
    BY DEF NoErrors, Ages
  <2>3. 0 \in 0..Config.window /\ Config.window \in 0..Config.window /\ Config.window \in Nat
    BY Constants
  <2>4. SumTo(NoErrors, Config.window) = 0 /\ NoErrors[0] = 0
    BY <2>2, <2>3, SumToZero
  <2>5. recent = NoErrors /\ ~ Open
    BY DEF Init, Open, WindowStale, ZeroState
  <2> QED
    BY <2>1, <2>4, <2>5, Constants DEF Accounted, OpenAccounted, StaleAccounted
<1> QED
  BY <1>1, StepAccounted, PTL DEF Spec

\* For every threshold and window, the errors of the last window are fewer than
\* two thresholds, though the window does not roll (runtime_store.go:571-594).
THEOREM TwoWindowsBoundCorrect == Spec => []TwoWindowsBound
<1>1. Accounted => TwoWindowsBound
  <2> SUFFICES ASSUME Accounted PROVE SumTo(recent, Config.window) <= 2 * (Config.threshold - 1)
    BY RollingIsSum DEF TwoWindowsBound
  <2>1. CASE Open
    BY <2>1, Facts, Constants DEF Accounted, OpenAccounted
  <2>2. CASE ~ Open
    BY <2>2, Facts, Constants DEF Accounted, StaleAccounted
  <2> QED
    BY <2>1, <2>2
<1> QED
  BY <1>1, AccountedCorrect, PTL

\* No key goes into backoff before the last window has as many errors as the
\* threshold, however windows and cleanups fall (runtime_store.go:571-594).
THEOREM BackoffNeedsThresholdCorrect == Spec => BackoffNeedsThreshold
<1>1. Accounted /\ [Next]_vars =>
        [~ InBackoff(state) /\ InBackoff(state') => Rolling + 1 >= Config.threshold]_vars
  <2> SUFFICES ASSUME Accounted, Next, ~ InBackoff(state), InBackoff(state')
               PROVE  SumTo(recent, Config.window) + 1 >= Config.threshold
    BY RollingIsSum DEF vars
  <2>1. Record
    <3>1. CASE Ignore
      BY <3>1 DEF Ignore, vars
    <3>2. CASE Cleanup \/ Reset
      BY <3>2 DEF Cleanup, CleanupError, Reset, AfterReset, ZeroState, InBackoff, Past
    <3>3. CASE Tick
      <4>1. state'.until <= state.until /\ state.until \in Int /\ state'.until \in Int
        BY <3>3, Facts, OlderTyped, Constants DEF Tick, StateType, Past
      <4> QED
        BY <4>1 DEF InBackoff
    <3> QED
      BY <3>1, <3>2, <3>3 DEF Next, RecordKeyError
  <2>2. Counted(state, Config).count >= Config.threshold
    BY <2>1 DEF Record, AfterError, Counted, InBackoff
  <2>3. CASE Open
    <3>1. state.count + 1 >= Config.threshold
      BY <2>2, <2>3 DEF Counted, Open
    <3> QED
      BY <2>3, <3>1, Facts, Constants DEF Accounted, OpenAccounted
  <2>4. CASE ~ Open
    <3>1. 1 >= Config.threshold
      BY <2>2, <2>4 DEF Counted, Open
    <3> QED
      BY <3>1, Facts, Constants
  <2> QED
    BY <2>3, <2>4
<1> QED
  BY <1>1, AccountedCorrect, PTL DEF Spec, BackoffNeedsThreshold
=============================================================================
