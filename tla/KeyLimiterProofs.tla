-------------------------- MODULE KeyLimiterProofs --------------------------
(***************************************************************************)
(* The safety properties of KeyLimiter for every set of calls, every set   *)
(* of keys and every positive limit.                                       *)
(***************************************************************************)
EXTENDS KeyLimiter, FiniteSetTheorems, SequenceTheorems, TLAPS

-----------------------------------------------------------------------------
(***************************************************************************)
(* What the copy loop of removeWaiter leaves of a queue.                   *)
(***************************************************************************)

\* Removing position i keeps the order of the rest (key_limiter.go:133-135).
LEMMA RemoveAtProperties ==
    ASSUME NEW S, NEW q \in Seq(S), NEW i \in 1..Len(q)
    PROVE  /\ RemoveAt(q, i) \in Seq(S)
           /\ Len(RemoveAt(q, i)) = Len(q) - 1
           /\ \A j \in 1..Len(q) - 1 :
                RemoveAt(q, i)[j] = IF j < i THEN q[j] ELSE q[j + 1]
<1> DEFINE left == SubSeq(q, 1, i - 1)
           right == SubSeq(q, i + 1, Len(q))
<1>1. /\ left \in Seq(S)
      /\ Len(left) = i - 1
      /\ \A j \in 1..i - 1 : left[j] = q[j]
  OBVIOUS
<1>2. /\ right \in Seq(S)
      /\ Len(right) = Len(q) - i
      /\ \A j \in 1..Len(q) - i : right[j] = q[j + i]
  OBVIOUS
<1>3. RemoveAt(q, i) = left \o right
  BY DEF RemoveAt
<1> HIDE DEF left, right
<1>4. /\ left \o right \in Seq(S)
      /\ Len(left \o right) = Len(left) + Len(right)
      /\ \A j \in 1..Len(left) + Len(right) :
           (left \o right)[j] = IF j <= Len(left) THEN left[j] ELSE right[j - Len(left)]
  BY <1>1, <1>2, ConcatProperties
<1>5. ASSUME NEW j \in 1..Len(q) - 1
      PROVE  (left \o right)[j] = IF j < i THEN q[j] ELSE q[j + 1]
  <2>1. Len(q) \in Nat /\ Len(left) + Len(right) = Len(q) - 1
    BY <1>1, <1>2
  <2>2. (left \o right)[j] = IF j < i THEN left[j] ELSE right[j - (i - 1)]
    BY <1>1, <1>4, <2>1
  <2>3. CASE j < i
    BY <1>1, <2>1, <2>2, <2>3
  <2>4. CASE ~ (j < i)
    <3>1. j - (i - 1) \in 1..Len(q) - i /\ (j - (i - 1)) + i = j + 1
      BY <2>1, <2>4
    <3> QED
      BY <1>2, <2>2, <2>4, <3>1
  <2> QED
    BY <2>3, <2>4
<1> QED
  BY <1>1, <1>2, <1>3, <1>4, <1>5


\* No call stands in a queue twice.
Distinct(q) == \A i, j \in 1..Len(q) : q[i] = q[j] => i = j

\* Who is in a queue after a channel was appended to it.
LEMMA AppendContains ==
    ASSUME NEW S, NEW q \in Seq(S), NEW e \in S
    PROVE  /\ \A x : Contains(Append(q, e), x) <=> Contains(q, x) \/ x = e
           /\ Distinct(q) /\ ~ Contains(q, e) => Distinct(Append(q, e))
           /\ Append(q, e) # <<>>
<1>1. /\ Len(Append(q, e)) = Len(q) + 1
      /\ \A i \in 1..Len(q) : Append(q, e)[i] = q[i]
      /\ Append(q, e)[Len(q) + 1] = e
      /\ Append(q, e) # <<>>
      /\ Len(q) \in Nat
  BY AppendProperties, LenProperties
<1>2. ASSUME NEW x PROVE Contains(Append(q, e), x) <=> Contains(q, x) \/ x = e
  BY <1>1 DEF Contains
<1>3. ASSUME Distinct(q), ~ Contains(q, e) PROVE Distinct(Append(q, e))
  BY <1>1, <1>3 DEF Contains, Distinct
<1> QED
  BY <1>1, <1>2, <1>3

\* Who is in a queue after position i was taken out of it.
LEMMA RemoveAtContains ==
    ASSUME NEW S, NEW q \in Seq(S), NEW i \in 1..Len(q), Distinct(q)
    PROVE  /\ \A x : Contains(RemoveAt(q, i), x) <=> Contains(q, x) /\ x # q[i]
           /\ Distinct(RemoveAt(q, i))
           /\ RemoveAt(q, i) = <<>> <=> Len(q) = 1
<1> DEFINE r == RemoveAt(q, i)
           pos(j) == IF j < i THEN j ELSE j + 1
<1>1. /\ r \in Seq(S)
      /\ Len(r) = Len(q) - 1
      /\ \A j \in 1..Len(r) : r[j] = q[pos(j)]
      /\ Len(q) \in Nat
  BY RemoveAtProperties, LenProperties
<1> HIDE DEF r
<1>2. \A j \in 1..Len(r) : pos(j) \in 1..Len(q) /\ pos(j) # i
  BY <1>1
<1>3. ASSUME NEW m \in 1..Len(q), m # i
      PROVE  \E j \in 1..Len(r) : pos(j) = m
  <2>1. CASE m < i
    BY <1>1, <2>1
  <2>2. CASE m > i
    <3>1. m - 1 \in 1..Len(r) /\ pos(m - 1) = m
      BY <1>1, <2>2
    <3> QED
      BY <3>1
  <2> QED
    BY <1>3, <2>1, <2>2
<1>4. \A j, m \in 1..Len(r) : pos(j) = pos(m) => j = m
  BY <1>1
<1> HIDE DEF pos
<1>5. ASSUME NEW x PROVE Contains(r, x) <=> Contains(q, x) /\ x # q[i]
  BY <1>1, <1>2, <1>3 DEF Contains, Distinct
<1>6. Distinct(r)
  BY <1>1, <1>2, <1>4 DEF Distinct
<1>7. r = <<>> <=> Len(q) = 1
  BY <1>1, EmptySeq
<1> QED
  BY <1>5, <1>6, <1>7 DEF r

\* Who is in a queue after its head was served.
LEMMA TailContains ==
    ASSUME NEW S, NEW q \in Seq(S), q # <<>>, Distinct(q)
    PROVE  /\ \A x : Contains(Tail(q), x) <=> Contains(q, x) /\ x # Head(q)
           /\ Distinct(Tail(q))
           /\ Contains(q, Head(q))
           /\ Head(q) \in S
<1>1. /\ Len(Tail(q)) = Len(q) - 1
      /\ \A i \in 1..Len(Tail(q)) : Tail(q)[i] = q[i + 1]
      /\ Head(q) \in S
      /\ Len(q) \in Nat \ {0}
  BY HeadTailProperties, EmptySeq
<1>2. Head(q) = q[1] /\ 1 \in 1..Len(q)
  BY <1>1
<1>3. ASSUME NEW x PROVE Contains(Tail(q), x) <=> Contains(q, x) /\ x # Head(q)
  <2>1. ASSUME NEW i \in 1..Len(q), i # 1
        PROVE  i - 1 \in 1..Len(Tail(q)) /\ q[i] = Tail(q)[i - 1]
    BY <1>1, <2>1
  <2>2. ASSUME NEW i \in 1..Len(Tail(q))
        PROVE  i + 1 \in 1..Len(q) /\ i + 1 # 1 /\ q[i + 1] = Tail(q)[i]
    BY <1>1
  <2> QED
    BY <1>2, <2>1, <2>2 DEF Contains, Distinct
<1>4. Distinct(Tail(q))
  BY <1>1 DEF Distinct
<1> QED
  BY <1>1, <1>2, <1>3, <1>4 DEF Contains

\* Everyone in a queue of calls is a call, and nobody is in the empty one.
LEMMA ContainsIsMember ==
    ASSUME NEW S, NEW q \in Seq(S)
    PROVE  /\ \A x : Contains(q, x) => x \in S
           /\ \A x : Contains(q, x) => q # <<>>
           /\ Distinct(<<>>)
BY EmptySeq DEF Contains, Distinct

-----------------------------------------------------------------------------
(***************************************************************************)
(* The inductive invariant.  A call stands in the queue of its key, once,  *)
(* exactly as long as it is inside Acquire with an open channel; that      *)
(* includes the moment between a timeout and removeWaiter.  What the runs  *)
(* check follows from it; without the exact queues a hand-over could go to *)
(* a call that has left, and the count would be wrong afterwards.          *)
(***************************************************************************)

Undecided == {"waiting", "timedOut", "canceled"}

InLine(c, k) == key[c] = k /\ pc[c] \in Undecided /\ ~ ready[c]

QueueExact == \A k \in Keys, c \in Calls : Contains(queue[k], c) <=> InLine(c, k)

QueueDistinct == \A k \in Keys : Distinct(queue[k])

WithinLimit == \A k \in Keys : active[k] <= Limit

IInv ==
    /\ TypeOK
    /\ QueueExact
    /\ QueueDistinct
    /\ DrainNeverBlocks
    /\ BucketsExact
    /\ NoIdleSlot
    /\ WithinLimit

USE DEF PCs, InAcquire, Undecided

\* Initially nobody waits and there is no bucket.
LEMMA IInvInit == Init => IInv
BY LimitAssumption, ContainsIsMember, EmptySeq
   DEF Init, IInv, TypeOK, QueueExact, InLine, QueueDistinct, Distinct, Contains,
       DrainNeverBlocks, BucketsExact, NoIdleSlot, WithinLimit

\* The types are preserved by every step.
LEMMA TypeOKStep == TypeOK /\ [Next]_vars => TypeOK'
<1> SUFFICES ASSUME TypeOK, [Next]_vars PROVE TypeOK'
  OBVIOUS
<1> USE DEF TypeOK
<1>1. ASSUME NEW c \in Calls, NEW k \in Keys, AcquireFast(c, k) PROVE TypeOK'
  BY <1>1 DEF AcquireFast, Arrive
<1>2. ASSUME NEW c \in Calls, NEW k \in Keys, Enqueue(c, k) PROVE TypeOK'
  <2>1. Append(queue[k], c) \in Seq(Calls)
    BY AppendProperties
  <2> QED
    BY <1>2, <2>1 DEF Enqueue, Arrive
<1>3. ASSUME NEW c \in Calls, ReadyWins(c) PROVE TypeOK'
  BY <1>3 DEF ReadyWins
<1>4. ASSUME NEW c \in Calls, TimerWins(c) PROVE TypeOK'
  BY <1>4 DEF TimerWins
<1>5. ASSUME NEW c \in Calls, CtxWins(c) PROVE TypeOK'
  BY <1>5 DEF CtxWins
<1>6. ASSUME NEW c \in Calls, GiveUp(c) PROVE TypeOK'
  <2>1. PICK i \in 1..Len(queue[key[c]]) : WithoutWaiter(key[c], i)
    BY <1>6 DEF GiveUp
  <2>2. RemoveAt(queue[key[c]], i) \in Seq(Calls)
    BY RemoveAtProperties
  <2>3. queue' \in [Keys -> Seq(Calls)] /\ buckets' \in SUBSET Keys
    BY <2>1, <2>2 DEF WithoutWaiter
  <2> QED
    BY <1>6, <2>3 DEF GiveUp
<1>7. ASSUME NEW c \in Calls, TooLate(c) PROVE TypeOK'
  BY <1>7 DEF TooLate
<1>8. ASSUME NEW c \in Calls, Drain(c) PROVE TypeOK'
  BY <1>8 DEF Drain
<1>9. ASSUME NEW c \in Calls, Release(c) PROVE TypeOK'
  <2>1. CASE UNCHANGED <<buckets, active, queue, ready>>
    BY <1>9, <2>1 DEF Release
  <2>2. CASE queue[key[c]] # <<>> /\ HandOff(key[c])
    <3>1. Head(queue[key[c]]) \in Calls /\ Tail(queue[key[c]]) \in Seq(Calls)
      BY <2>2, HeadTailProperties
    <3> QED
      BY <1>9, <2>2, <3>1 DEF Release, HandOff
  <2>3. CASE GiveBack(key[c])
    BY <1>9, <2>3 DEF Release, GiveBack
  <2> QED
    BY <1>9, <2>1, <2>2, <2>3 DEF Release, releaseFunc, release
<1>10. CASE UNCHANGED vars
  BY <1>10 DEF vars
<1> QED
  BY <1>1, <1>2, <1>3, <1>4, <1>5, <1>6, <1>7, <1>8, <1>9, <1>10 DEF Next, Acquire

\* Every variable keeps its type in every behaviour.
THEOREM TypeCorrect == Spec => []TypeOK
<1>1. Init => TypeOK
  BY IInvInit DEF IInv
<1> QED
  BY <1>1, TypeOKStep, PTL DEF Spec

-----------------------------------------------------------------------------

\* One step keeps queues, calls, counts and buckets in agreement.
LEMMA IInvStep == IInv /\ [Next]_vars => IInv'
<1> SUFFICES ASSUME IInv, [Next]_vars PROVE IInv'
  OBVIOUS
<1> DEFINE Lines == QueueExact' /\ QueueDistinct' /\ DrainNeverBlocks'
           Slots == BucketsExact' /\ NoIdleSlot' /\ WithinLimit'
<1>a. TypeOK /\ TypeOK'
  BY TypeOKStep DEF IInv
<1>b. \A k \in Keys :
        /\ queue[k] \in Seq(Calls)
        /\ active[k] \in Nat
        /\ Distinct(queue[k])
        /\ active[k] <= Limit
        /\ queue[k] # <<>> => active[k] = Limit
        /\ k \in buckets <=> (active[k] > 0 \/ queue[k] # <<>>)
        /\ \A c \in Calls : Contains(queue[k], c) <=> InLine(c, k)
  BY DEF IInv, TypeOK, QueueExact, QueueDistinct, WithinLimit, NoIdleSlot, BucketsExact
<1>c. \A c \in Calls : pc[c] = "draining" => ready[c]
  BY DEF IInv, DrainNeverBlocks
<1>d. Limit \in Nat \ {0}
  BY LimitAssumption
<1> HIDE DEF IInv
\* A step that changes nothing but one call's place and leaves it in line, or
\* out of it, as it was.
<1>e. ASSUME UNCHANGED <<buckets, active, queue, key, ready>>,
             \A c \in Calls : pc'[c] \in Undecided /\ ~ ready[c]
                                <=> pc[c] \in Undecided /\ ~ ready[c],
             \A c \in Calls : pc'[c] = "draining" => ready[c]
      PROVE  Lines /\ Slots
  BY <1>b, <1>c, <1>e
     DEF QueueExact, InLine, QueueDistinct, DrainNeverBlocks, BucketsExact, NoIdleSlot, WithinLimit
<1>1. ASSUME NEW c \in Calls, NEW k \in Keys, AcquireFast(c, k) PROVE Lines /\ Slots
  <2>1. /\ pc[c] \in {"idle", "released"}
        /\ pc' = [pc EXCEPT ![c] = "leased"]
        /\ key' = [key EXCEPT ![c] = k]
        /\ ready' = [ready EXCEPT ![c] = FALSE]
        /\ buckets' = buckets \cup {k}
        /\ active' = [active EXCEPT ![k] = @ + 1]
        /\ queue' = queue
        /\ active[k] < Limit /\ queue[k] = <<>>
    BY <1>1 DEF AcquireFast, Arrive, HasRoom
  <2>2. \A d \in Calls, j \in Keys : InLine(d, j)' <=> InLine(d, j)
    BY <2>1, <1>a DEF InLine, TypeOK
  <2>3. QueueExact' /\ QueueDistinct'
    BY <2>1, <2>2, <1>b DEF QueueExact, QueueDistinct
  <2>4. DrainNeverBlocks'
    BY <2>1, <1>a, <1>c DEF DrainNeverBlocks, TypeOK
  <2>5. Slots
    BY <2>1, <1>a, <1>b, <1>d DEF BucketsExact, NoIdleSlot, WithinLimit, TypeOK
  <2> QED
    BY <2>3, <2>4, <2>5
<1>2. ASSUME NEW c \in Calls, NEW k \in Keys, Enqueue(c, k) PROVE Lines /\ Slots
  <2>1. /\ pc[c] \in {"idle", "released"}
        /\ pc' = [pc EXCEPT ![c] = "waiting"]
        /\ key' = [key EXCEPT ![c] = k]
        /\ ready' = [ready EXCEPT ![c] = FALSE]
        /\ buckets' = buckets \cup {k}
        /\ active' = active
        /\ queue' = [queue EXCEPT ![k] = Append(@, c)]
        /\ ~ (active[k] < Limit /\ queue[k] = <<>>)
    BY <1>2 DEF Enqueue, Arrive, HasRoom
  <2>2. \A d \in Calls, j \in Keys : InLine(d, j)' <=> InLine(d, j) \/ (d = c /\ j = k)
    BY <2>1, <1>a DEF InLine, TypeOK
  <2>3. \A j \in Keys : ~ Contains(queue[j], c)
    BY <2>1, <1>b DEF InLine
  <2>4. /\ queue'[k] = Append(queue[k], c)
        /\ \A j \in Keys \ {k} : queue'[j] = queue[j]
    BY <2>1, <1>a DEF TypeOK
  <2>5. /\ \A d \in Calls : Contains(queue'[k], d) <=> Contains(queue[k], d) \/ d = c
        /\ Distinct(queue'[k])
        /\ queue'[k] # <<>>
    BY <2>3, <2>4, <1>b, AppendContains
  <2>6. QueueExact'
    BY <2>2, <2>4, <2>5, <1>b DEF QueueExact
  <2>7. QueueDistinct'
    BY <2>4, <2>5, <1>b DEF QueueDistinct
  <2>8. DrainNeverBlocks'
    BY <2>1, <1>a, <1>c DEF DrainNeverBlocks, TypeOK
  <2>9. BucketsExact'
    BY <2>1, <2>4, <2>5, <1>b DEF BucketsExact
  <2>10. active[k] = Limit
    BY <2>1, <1>b, <1>d
  <2>11. NoIdleSlot' /\ WithinLimit'
    BY <2>1, <2>4, <2>10, <1>b DEF NoIdleSlot, WithinLimit
  <2> QED
    BY <2>6, <2>7, <2>8, <2>9, <2>11
<1>3. ASSUME NEW c \in Calls, ReadyWins(c) PROVE Lines /\ Slots
  BY <1>3, <1>a, <1>c, <1>e DEF ReadyWins, TypeOK
<1>4. ASSUME NEW c \in Calls, TimerWins(c) PROVE Lines /\ Slots
  BY <1>4, <1>a, <1>c, <1>e DEF TimerWins, TypeOK
<1>5. ASSUME NEW c \in Calls, CtxWins(c) PROVE Lines /\ Slots
  BY <1>5, <1>a, <1>c, <1>e DEF CtxWins, TypeOK
<1>6. ASSUME NEW c \in Calls, GiveUp(c) PROVE Lines /\ Slots
  <2> DEFINE k == key[c]
  <2>1. PICK i \in 1..Len(queue[k]) : queue[k][i] = c /\ WithoutWaiter(k, i)
    BY <1>6 DEF GiveUp
  <2>2. /\ k \in Keys
        /\ pc' = [pc EXCEPT ![c] = "idle"]
        /\ UNCHANGED <<active, key, ready>>
        /\ buckets' = IF active[k] = 0 /\ Len(queue[k]) = 1 THEN buckets \ {k} ELSE buckets
        /\ queue'[k] = RemoveAt(queue[k], i)
        /\ \A j \in Keys \ {k} : queue'[j] = queue[j]
    BY <1>6, <1>a, <2>1 DEF GiveUp, WithoutWaiter, TypeOK
  <2> HIDE DEF k
  <2>3. /\ \A d \in Calls : Contains(queue'[k], d) <=> Contains(queue[k], d) /\ d # c
        /\ Distinct(queue'[k])
        /\ queue'[k] = <<>> <=> Len(queue[k]) = 1
        /\ queue[k] # <<>>
    BY <2>1, <2>2, <1>b, RemoveAtContains, EmptySeq
  <2>4. \A d \in Calls, j \in Keys : InLine(d, j)' <=> InLine(d, j) /\ d # c
    BY <2>2, <1>a DEF InLine, TypeOK
  <2>5. \A j \in Keys \ {k} : ~ InLine(c, j)
    BY <2>2 DEF InLine, k
  <2>6. QueueExact'
    BY <2>2, <2>3, <2>4, <2>5, <1>b DEF QueueExact
  <2>7. QueueDistinct'
    BY <2>2, <2>3, <1>b DEF QueueDistinct
  <2>8. DrainNeverBlocks'
    BY <2>2, <1>a, <1>c DEF DrainNeverBlocks, TypeOK
  <2>9. Slots
    BY <2>2, <2>3, <1>b, <1>d DEF BucketsExact, NoIdleSlot, WithinLimit
  <2> QED
    BY <2>6, <2>7, <2>8, <2>9
<1>7. ASSUME NEW c \in Calls, TooLate(c) PROVE Lines /\ Slots
  <2>1. /\ pc[c] \in {"timedOut", "canceled"}
        /\ pc' = [pc EXCEPT ![c] = "draining"]
        /\ UNCHANGED <<buckets, active, queue, key, ready>>
        /\ key[c] \in Keys
    BY <1>7, <1>a DEF TooLate, TypeOK
  <2>2. ~ Contains(queue[key[c]], c)
    BY <1>7, <2>1, <1>b, ContainsIsMember DEF TooLate, NotInQueue
  <2>3. ready[c]
    BY <2>1, <2>2, <1>b DEF InLine
  <2> QED
    BY <2>1, <2>3, <1>a, <1>c, <1>e DEF TypeOK
<1>8. ASSUME NEW c \in Calls, Drain(c) PROVE Lines /\ Slots
  BY <1>8, <1>a, <1>c, <1>e DEF Drain, TypeOK
<1>9. ASSUME NEW c \in Calls, Release(c) PROVE Lines /\ Slots
  <2> DEFINE k == key[c]
  <2>1. /\ k \in Keys
        /\ pc[c] \in {"leased", "released"}
        /\ pc' = [pc EXCEPT ![c] = "released"]
        /\ key' = key
        /\ \/ UNCHANGED <<buckets, active, queue, ready>>
           \/ queue[k] # <<>> /\ HandOff(k)
           \/ queue[k] = <<>> /\ GiveBack(k)
    BY <1>9, <1>a DEF Release, releaseFunc, release, TypeOK
  <2> HIDE DEF k
  <2>2. CASE UNCHANGED <<buckets, active, queue, ready>>
    BY <2>1, <2>2, <1>a, <1>c, <1>e DEF TypeOK
  <2>3. CASE queue[k] # <<>> /\ HandOff(k)
    <3> DEFINE h == Head(queue[k])
    <3>1. /\ queue'[k] = Tail(queue[k])
          /\ \A j \in Keys \ {k} : queue'[j] = queue[j]
          /\ ready' = [ready EXCEPT ![h] = TRUE]
          /\ UNCHANGED <<buckets, active>>
      BY <2>1, <2>3, <1>a DEF HandOff, TypeOK
    <3>2. /\ \A d \in Calls : Contains(queue'[k], d) <=> Contains(queue[k], d) /\ d # h
          /\ Distinct(queue'[k])
          /\ Contains(queue[k], h)
          /\ h \in Calls
      BY <2>1, <2>3, <3>1, <1>b, TailContains
    <3> HIDE DEF h
    <3>3. InLine(h, k)
      BY <2>1, <3>2, <1>b
    <3>4. \A d \in Calls, j \in Keys : InLine(d, j)' <=> InLine(d, j) /\ d # h
      BY <2>1, <3>1, <3>2, <1>a DEF InLine, TypeOK
    <3>5. \A j \in Keys \ {k} : ~ InLine(h, j)
      BY <3>3 DEF InLine
    <3>6. QueueExact'
      BY <3>1, <3>2, <3>4, <3>5, <1>b DEF QueueExact
    <3>7. QueueDistinct'
      BY <3>1, <3>2, <1>b DEF QueueDistinct
    <3>8. DrainNeverBlocks'
      BY <2>1, <3>1, <1>a, <1>c DEF DrainNeverBlocks, TypeOK
    <3>9. Slots
      BY <2>1, <2>3, <3>1, <1>b, <1>d DEF BucketsExact, NoIdleSlot, WithinLimit
    <3> QED
      BY <3>6, <3>7, <3>8, <3>9
  <2>4. CASE queue[k] = <<>> /\ GiveBack(k)
    <3>1. /\ active' = [active EXCEPT ![k] = IF @ > 0 THEN @ - 1 ELSE @]
          /\ buckets' = IF active[k] <= 1 THEN buckets \ {k} ELSE buckets
          /\ UNCHANGED <<queue, ready>>
      BY <2>4 DEF GiveBack
    <3>2. \A d \in Calls, j \in Keys : InLine(d, j)' <=> InLine(d, j)
      BY <2>1, <3>1, <1>a DEF InLine, TypeOK
    <3>3. QueueExact' /\ QueueDistinct'
      BY <3>1, <3>2, <1>b DEF QueueExact, QueueDistinct
    <3>4. DrainNeverBlocks'
      BY <2>1, <3>1, <1>a, <1>c DEF DrainNeverBlocks, TypeOK
    <3>5. Slots
      BY <2>1, <2>4, <3>1, <1>a, <1>b, <1>d DEF BucketsExact, NoIdleSlot, WithinLimit, TypeOK
    <3> QED
      BY <3>3, <3>4, <3>5
  <2> QED
    BY <2>1, <2>2, <2>3, <2>4
<1>10. ASSUME UNCHANGED vars PROVE Lines /\ Slots
  <2>1. UNCHANGED <<buckets, active, queue, key, ready>> /\ pc' = pc
    BY <1>10 DEF vars
  <2>2. \A c \in Calls : pc'[c] = pc[c]
    BY <2>1
  <2> QED
    BY <2>1, <2>2, <1>c, <1>e
<1> HIDE DEF Lines, Slots
<1>11. Lines /\ Slots
  BY <1>1, <1>2, <1>3, <1>4, <1>5, <1>6, <1>7, <1>8, <1>9, <1>10 DEF Next, Acquire
<1> QED
  BY <1>a, <1>11 DEF IInv, Lines, Slots

\* The invariant of every behaviour.
THEOREM IInvCorrect == Spec => []IInv
  BY IInvInit, IInvStep, PTL DEF Spec

\* The bare receives of Acquire never block: DrainNeverBlocks.
THEOREM DrainNeverBlocksCorrect == Spec => []DrainNeverBlocks
<1>1. IInv => DrainNeverBlocks
  BY DEF IInv
<1> QED
  BY <1>1, IInvCorrect, PTL

\* Nobody waits for a key with a free slot: NoIdleSlot.
THEOREM NoIdleSlotCorrect == Spec => []NoIdleSlot
<1>1. IInv => NoIdleSlot
  BY DEF IInv
<1> QED
  BY <1>1, IInvCorrect, PTL

\* The map holds the buckets in use and no other: BucketsExact.
THEOREM BucketsExactCorrect == Spec => []BucketsExact
<1>1. IInv => BucketsExact
  BY DEF IInv
<1> QED
  BY <1>1, IInvCorrect, PTL

-----------------------------------------------------------------------------
(***************************************************************************)
(* The count of a bucket is the number of calls that own a slot.  Every    *)
(* step is put as a change of the sets of owners, which cardinalities then *)
(* follow; the exact queues say that a hand-over makes one new owner.      *)
(***************************************************************************)

\* The owners of a key's slots are finitely many.
LEMMA HoldersFinite == \A k : IsFiniteSet(Holders(k)) /\ Cardinality(Holders(k)) \in Nat
<1> SUFFICES ASSUME NEW k PROVE IsFiniteSet(Holders(k)) /\ Cardinality(Holders(k)) \in Nat
  OBVIOUS
<1>1. Holders(k) \subseteq Calls
  BY DEF Holders
<1> QED
  BY <1>1, CallsAssumption, FS_Subset, FS_CardinalityType

\* Nobody owns a slot initially.
LEMMA SlotsAccountedInit == Init => SlotsAccounted
<1> SUFFICES ASSUME Init, NEW k \in Keys
             PROVE  active[k] = Cardinality(Holders(k)) /\ active[k] <= Limit
  BY DEF SlotsAccounted
<1>1. Holders(k) = {}
  BY DEF Init, Holders, OwnsSlot
<1> QED
  BY <1>1, FS_EmptySet, LimitAssumption DEF Init

\* A step keeps the counts right when it keeps the queues right.
LEMMA SlotsAccountedStep ==
    IInv /\ IInv' /\ SlotsAccounted /\ [Next]_vars => SlotsAccounted'
<1> SUFFICES ASSUME IInv, IInv', SlotsAccounted, [Next]_vars,
                    NEW j \in Keys
             PROVE  active'[j] = Cardinality(Holders(j)')
  BY DEF SlotsAccounted, IInv, WithinLimit
<1>a. TypeOK /\ TypeOK'
  BY DEF IInv
<1>b. \A k \in Keys :
        /\ active[k] = Cardinality(Holders(k))
        /\ active[k] \in Nat
        /\ queue[k] \in Seq(Calls)
        /\ Distinct(queue[k])
        /\ \A c \in Calls : Contains(queue[k], c) <=> InLine(c, k)
  BY DEF SlotsAccounted, IInv, TypeOK, QueueDistinct, QueueExact
<1>c. \A c \in Calls, k \in Keys : c \in Holders(k) <=> key[c] = k /\ OwnsSlot(c)
  BY DEF Holders
<1>d. \A c \in Calls, k \in Keys : c \in Holders(k)' <=> key'[c] = k /\ OwnsSlot(c)'
  BY DEF Holders
<1>e. ASSUME active' = active, \A c \in Calls : c \in Holders(j)' <=> c \in Holders(j)
      PROVE  active'[j] = Cardinality(Holders(j)')
  <2>1. Holders(j)' = Holders(j)
    BY <1>e DEF Holders
  <2> QED
    BY <2>1, <1>b, <1>e
\* A step of one call that moves neither its key nor its channel.
<1>f. ASSUME active' = active, key' = key, ready' = ready,
             \A c \in Calls : OwnsSlot(c)' <=> OwnsSlot(c)
      PROVE  active'[j] = Cardinality(Holders(j)')
  BY <1>c, <1>d, <1>e, <1>f
<1>1. ASSUME NEW c \in Calls, NEW k \in Keys, AcquireFast(c, k)
      PROVE  active'[j] = Cardinality(Holders(j)')
  <2>1. /\ pc[c] \in {"idle", "released"}
        /\ pc' = [pc EXCEPT ![c] = "leased"]
        /\ key' = [key EXCEPT ![c] = k]
        /\ ready' = [ready EXCEPT ![c] = FALSE]
        /\ active' = [active EXCEPT ![k] = @ + 1]
    BY <1>1 DEF AcquireFast, Arrive
  <2>2. \A d \in Calls : d # c =>
          (key'[d] = key[d] /\ pc'[d] = pc[d] /\ ready'[d] = ready[d])
    BY <2>1, <1>a DEF TypeOK
  <2>3. ~ OwnsSlot(c) /\ OwnsSlot(c)' /\ key'[c] = k
    BY <2>1, <1>a DEF OwnsSlot, TypeOK
  <2>4. \A d \in Calls : d \in Holders(j)' <=> d \in Holders(j) \/ (d = c /\ j = k)
    BY <2>2, <2>3, <1>c, <1>d DEF OwnsSlot
  <2>5. Holders(j)' = IF j = k THEN Holders(j) \cup {c} ELSE Holders(j)
    BY <2>4 DEF Holders
  <2>6. c \notin Holders(j)
    BY <2>3, <1>c
  <2>7. Cardinality(Holders(j) \cup {c}) = Cardinality(Holders(j)) + 1
    BY <2>6, HoldersFinite, FS_AddElement
  <2>8. active'[j] = IF j = k THEN active[j] + 1 ELSE active[j]
    BY <2>1, <1>a DEF TypeOK
  <2> QED
    BY <2>5, <2>7, <2>8, <1>b
<1>2. ASSUME NEW c \in Calls, NEW k \in Keys, Enqueue(c, k)
      PROVE  active'[j] = Cardinality(Holders(j)')
  <2>1. /\ pc[c] \in {"idle", "released"}
        /\ pc' = [pc EXCEPT ![c] = "waiting"]
        /\ key' = [key EXCEPT ![c] = k]
        /\ ready' = [ready EXCEPT ![c] = FALSE]
        /\ active' = active
    BY <1>2 DEF Enqueue, Arrive
  <2>2. \A d \in Calls : d # c =>
          (key'[d] = key[d] /\ pc'[d] = pc[d] /\ ready'[d] = ready[d])
    BY <2>1, <1>a DEF TypeOK
  <2>3. ~ OwnsSlot(c) /\ ~ OwnsSlot(c)'
    BY <2>1, <1>a DEF OwnsSlot, TypeOK
  <2>4. \A d \in Calls : d \in Holders(j)' <=> d \in Holders(j)
    BY <2>2, <2>3, <1>c, <1>d DEF OwnsSlot
  <2> QED
    BY <2>1, <2>4, <1>e
<1>3. ASSUME NEW c \in Calls, ReadyWins(c) PROVE active'[j] = Cardinality(Holders(j)')
  BY <1>3, <1>a, <1>f DEF ReadyWins, OwnsSlot, TypeOK
<1>4. ASSUME NEW c \in Calls, TimerWins(c) PROVE active'[j] = Cardinality(Holders(j)')
  BY <1>4, <1>a, <1>f DEF TimerWins, OwnsSlot, TypeOK
<1>5. ASSUME NEW c \in Calls, CtxWins(c) PROVE active'[j] = Cardinality(Holders(j)')
  BY <1>5, <1>a, <1>f DEF CtxWins, OwnsSlot, TypeOK
<1>6. ASSUME NEW c \in Calls, GiveUp(c) PROVE active'[j] = Cardinality(Holders(j)')
  <2>1. /\ pc' = [pc EXCEPT ![c] = "idle"]
        /\ UNCHANGED <<active, key, ready>>
        /\ pc[c] \in {"timedOut", "canceled"}
        /\ key[c] \in Keys
        /\ Contains(queue[key[c]], c)
    BY <1>6, <1>a DEF GiveUp, TypeOK, Contains
  <2>2. ~ ready[c]
    BY <2>1, <1>b DEF InLine
  <2> QED
    BY <2>1, <2>2, <1>a, <1>f DEF OwnsSlot, TypeOK
<1>7. ASSUME NEW c \in Calls, TooLate(c) PROVE active'[j] = Cardinality(Holders(j)')
  BY <1>7, <1>a, <1>f DEF TooLate, OwnsSlot, TypeOK
<1>8. ASSUME NEW c \in Calls, Drain(c) PROVE active'[j] = Cardinality(Holders(j)')
  BY <1>8, <1>a, <1>f DEF Drain, OwnsSlot, TypeOK
<1>9. ASSUME NEW c \in Calls, Release(c) PROVE active'[j] = Cardinality(Holders(j)')
  <2> DEFINE k == key[c]
  <2>1. /\ k \in Keys
        /\ pc' = [pc EXCEPT ![c] = "released"]
        /\ key' = key
    BY <1>9, <1>a DEF Release, TypeOK
  <2>2. CASE pc[c] = "released"
    <3>1. UNCHANGED <<active, ready>>
      BY <1>9, <2>2 DEF Release, releaseFunc
    <3> QED
      BY <2>1, <2>2, <3>1, <1>a, <1>f DEF OwnsSlot, TypeOK
  <2>3. CASE pc[c] = "leased"
    <3>1. c \in Holders(k)
      BY <2>1, <2>3, <1>c DEF OwnsSlot
    <3>2. active[k] > 0
      BY <3>1, <2>1, <1>b, HoldersFinite, FS_EmptySet
    <3>3. k \in buckets
      BY <3>2, <2>1 DEF IInv, BucketsExact
    <3>4. CASE queue[k] # <<>> /\ HandOff(k)
      <4> DEFINE h == Head(queue[k])
      <4>1. ready' = [ready EXCEPT ![h] = TRUE] /\ active' = active
        BY <3>4 DEF HandOff
      <4>2. h \in Calls /\ InLine(h, k)
        BY <2>1, <3>4, <1>b, TailContains
      <4> HIDE DEF h
      <4>3. /\ h # c /\ h \notin Holders(k) /\ key[h] = k
            /\ pc[h] \in Undecided
        BY <2>1, <2>3, <4>2, <1>c DEF InLine, OwnsSlot
      <4>4. \A d \in Calls :
              d \in Holders(j)' <=> (d \in Holders(j) /\ d # c) \/ (d = h /\ j = k)
        BY <2>1, <4>1, <4>2, <4>3, <1>a, <1>c, <1>d DEF OwnsSlot, TypeOK
      <4>5. CASE j = k
        <5>1. Holders(j)' = (Holders(k) \ {c}) \cup {h}
          BY <4>2, <4>4, <4>5 DEF Holders
        <5>2. Cardinality(Holders(k) \ {c}) = Cardinality(Holders(k)) - 1
              /\ IsFiniteSet(Holders(k) \ {c})
          BY <3>1, HoldersFinite, FS_RemoveElement
        <5>3. Cardinality(Holders(j)') = Cardinality(Holders(k) \ {c}) + 1
          BY <4>3, <5>1, <5>2, FS_AddElement
        <5> QED
          BY <2>1, <4>1, <4>5, <5>2, <5>3, <1>b, HoldersFinite
      <4>6. CASE j # k
        BY <2>1, <4>1, <4>4, <4>6, <1>c, <1>e
      <4> QED
        BY <4>5, <4>6
    <3>5. CASE GiveBack(k)
      <4>1. active' = [active EXCEPT ![k] = @ - 1] /\ ready' = ready
        BY <3>2, <3>5 DEF GiveBack
      <4>2. \A d \in Calls : d \in Holders(j)' <=> d \in Holders(j) /\ d # c
        BY <2>1, <2>3, <4>1, <1>a, <1>c, <1>d DEF OwnsSlot, TypeOK
      <4>3. CASE j = k
        <5>1. Holders(j)' = Holders(k) \ {c}
          BY <4>2, <4>3 DEF Holders
        <5>2. Cardinality(Holders(k) \ {c}) = Cardinality(Holders(k)) - 1
          BY <3>1, HoldersFinite, FS_RemoveElement
        <5>3. active'[k] = active[k] - 1
          BY <2>1, <4>1, <1>a DEF TypeOK
        <5> QED
          BY <4>3, <5>1, <5>2, <5>3, <1>b
      <4>4. CASE j # k
        <5>1. Holders(j)' = Holders(j)
          BY <4>2, <4>4, <1>c DEF Holders
        <5> QED
          BY <4>1, <4>4, <5>1, <1>a, <1>b DEF TypeOK
      <4> QED
        BY <4>3, <4>4
    <3> QED
      BY <1>9, <2>3, <3>3, <3>4, <3>5 DEF Release, releaseFunc, release
  <2> QED
    BY <1>9, <2>2, <2>3 DEF Release
<1>10. ASSUME UNCHANGED vars PROVE active'[j] = Cardinality(Holders(j)')
  BY <1>10, <1>f DEF vars, OwnsSlot
<1> QED
  BY <1>1, <1>2, <1>3, <1>4, <1>5, <1>6, <1>7, <1>8, <1>9, <1>10 DEF Next, Acquire

\* No slot is lost, none is made up, and no key has more owners than the limit:
\* The count of a key is the number of calls that own one of its slots, and at
\* most the limit, however timeouts race hand-offs: SlotsAccounted.
THEOREM SlotsAccountedCorrect == Spec => []SlotsAccounted
<1>1. IInv /\ SlotsAccounted /\ [Next]_vars => (IInv /\ SlotsAccounted)'
  BY IInvStep, SlotsAccountedStep
<1> QED
  BY <1>1, IInvInit, SlotsAccountedInit, PTL DEF Spec

-----------------------------------------------------------------------------
(***************************************************************************)
(* The limiter implements SlotPool: what a step does to the owners and to  *)
(* the queues is an Enter, a Leave or a Return, or nothing.                *)
(***************************************************************************)

\* Nobody owns a slot and nobody waits in the beginning.
LEMMA PoolInit == Init => Pool!Init
  BY DEF Init, Pool!Init, owners, Holders, OwnsSlot

\* Every step of the limiter is a step of the pool or leaves it alone.
LEMMA PoolStep ==
    IInv /\ IInv' /\ SlotsAccounted /\ [Next]_vars => [Pool!Next]_(Pool!vars)
<1> SUFFICES ASSUME IInv, IInv', SlotsAccounted, [Next]_vars
             PROVE  Pool!Next \/ UNCHANGED <<owners, queue>>
  BY DEF Pool!vars
<1>a. TypeOK /\ TypeOK'
  BY DEF IInv
<1>b. \A k \in Keys :
        /\ active[k] = Cardinality(Holders(k))
        /\ queue[k] \in Seq(Calls)
        /\ Distinct(queue[k])
        /\ \A c \in Calls : Contains(queue[k], c) <=> InLine(c, k)
  BY DEF SlotsAccounted, IInv, TypeOK, QueueDistinct, QueueExact
<1>c. \A c \in Calls, k \in Keys : c \in owners[k] <=> key[c] = k /\ OwnsSlot(c)
  BY DEF Holders, owners
<1>d. \A c \in Calls, k \in Keys : c \in owners'[k] <=> key'[c] = k /\ OwnsSlot(c)'
  BY DEF Holders, owners
<1>e. ASSUME queue' = queue, \A c \in Calls, k \in Keys : c \in owners'[k] <=> c \in owners[k]
      PROVE  UNCHANGED <<owners, queue>>
  <2>1. \A k \in Keys : Holders(k)' = Holders(k)
    BY <1>e DEF Holders, owners
  <2> QED
    BY <1>e, <2>1 DEF owners
<1>f. ASSUME queue' = queue, key' = key, ready' = ready,
             \A c \in Calls : OwnsSlot(c)' <=> OwnsSlot(c)
      PROVE  UNCHANGED <<owners, queue>>
  BY <1>c, <1>d, <1>e, <1>f
<1>g. ASSUME NEW c \in Calls, NEW k \in Keys,
             Pool!Enter(c, k) \/ Pool!Leave(c, k) \/ Pool!Return(c, k)
      PROVE  Pool!Next
  BY <1>g DEF Pool!Next
<1>1. ASSUME NEW c \in Calls, NEW k \in Keys, AcquireFast(c, k) \/ Enqueue(c, k)
      PROVE  Pool!Next
  <2>1. /\ pc[c] \in {"idle", "released"}
        /\ key' = [key EXCEPT ![c] = k]
        /\ ready' = [ready EXCEPT ![c] = FALSE]
        /\ \A d \in Calls : d # c => pc'[d] = pc[d]
    BY <1>1, <1>a DEF AcquireFast, Enqueue, Arrive, TypeOK
  <2>2. \A d \in Calls : d # c => (key'[d] = key[d] /\ ready'[d] = ready[d])
    BY <2>1, <1>a DEF TypeOK
  <2>3. /\ c \notin owners[k]
        /\ ~ Contains(queue[k], c)
        /\ \A j \in Keys : c \notin owners[j]
    BY <2>1, <1>b, <1>c DEF OwnsSlot, InLine
  <2>4. CASE AcquireFast(c, k)
    <3>1. /\ OwnsSlot(c)' /\ key'[c] = k
          /\ queue' = queue
          /\ Cardinality(owners[k]) < Limit /\ queue[k] = <<>>
      BY <2>1, <2>4, <1>a, <1>b DEF AcquireFast, HasRoom, OwnsSlot, TypeOK, owners
    <3>2. \A d \in Calls, j \in Keys : d \in owners'[j] <=> d \in owners[j] \/ (d = c /\ j = k)
      BY <2>1, <2>2, <2>3, <3>1, <1>c, <1>d DEF OwnsSlot
    <3>3. owners' = [owners EXCEPT ![k] = @ \cup {c}]
      <4>1. \A j \in Keys : owners'[j] = IF j = k THEN owners[j] \cup {c} ELSE owners[j]
        BY <3>2 DEF owners, Holders
      <4> QED
        BY <4>1 DEF owners
    <3>4. /\ c \notin owners[k]
          /\ ~ Pool!Contains(queue[k], c)
          /\ Pool!Cardinality(owners[k]) = Cardinality(owners[k])
      BY <2>3 DEF Contains, Pool!Contains, Cardinality, Pool!Cardinality
    <3>5. Pool!Enter(c, k)
      BY <3>1, <3>3, <3>4 DEF Pool!Enter
    <3> QED
      BY <3>5, <1>g
  <2>5. CASE Enqueue(c, k)
    <3>1. /\ ~ OwnsSlot(c)'
          /\ queue' = [queue EXCEPT ![k] = Append(@, c)]
          /\ ~ (Cardinality(owners[k]) < Limit /\ queue[k] = <<>>)
      BY <2>1, <2>5, <1>a, <1>b DEF Enqueue, HasRoom, OwnsSlot, TypeOK, owners
    <3>2. \A d \in Calls, j \in Keys : d \in owners'[j] <=> d \in owners[j]
      BY <2>1, <2>2, <2>3, <3>1, <1>c, <1>d DEF OwnsSlot
    <3>3. owners' = owners
      BY <3>2 DEF owners, Holders
    <3>4. /\ c \notin owners[k]
          /\ ~ Pool!Contains(queue[k], c)
          /\ Pool!Cardinality(owners[k]) = Cardinality(owners[k])
      BY <2>3 DEF Contains, Pool!Contains, Cardinality, Pool!Cardinality
    <3>5. Pool!Enter(c, k)
      BY <3>1, <3>3, <3>4 DEF Pool!Enter
    <3> QED
      BY <3>5, <1>g
  <2> QED
    BY <1>1, <2>4, <2>5
<1>2. ASSUME NEW c \in Calls,
             \/ ReadyWins(c) \/ TimerWins(c) \/ CtxWins(c)
             \/ TooLate(c) \/ Drain(c)
      PROVE  UNCHANGED <<owners, queue>>
  BY <1>2, <1>a, <1>f DEF ReadyWins, TimerWins, CtxWins, TooLate, Drain, OwnsSlot, TypeOK
<1>3. ASSUME NEW c \in Calls, GiveUp(c) PROVE Pool!Next
  <2> DEFINE k == key[c]
  <2>1. /\ k \in Keys
        /\ pc' = [pc EXCEPT ![c] = "idle"]
        /\ pc[c] \in {"timedOut", "canceled"}
        /\ UNCHANGED <<key, ready>>
        /\ \E i \in 1..Len(queue[k]) :
             queue[k][i] = c /\ queue' = [queue EXCEPT ![k] = RemoveAt(@, i)]
    BY <1>3, <1>a DEF GiveUp, WithoutWaiter, TypeOK
  <2>2. ~ ready[c]
    BY <2>1, <1>b DEF Contains, InLine
  <2> HIDE DEF k
  <2>3. \A d \in Calls, j \in Keys : d \in owners'[j] <=> d \in owners[j]
    <3>1. \A d \in Calls : OwnsSlot(d)' <=> OwnsSlot(d)
      BY <2>1, <2>2, <1>a DEF OwnsSlot, TypeOK
    <3> QED
      BY <2>1, <3>1, <1>c, <1>d
  <2>4. owners' = owners
    BY <2>3 DEF owners, Holders
  <2>5. Pool!Leave(c, k)
    BY <2>1, <2>4 DEF Pool!Leave, RemoveAt, Pool!RemoveAt
  <2> QED
    BY <2>1, <2>5, <1>g
<1>4. ASSUME NEW c \in Calls, Release(c) PROVE Pool!Next \/ UNCHANGED <<owners, queue>>
  <2> DEFINE k == key[c]
  <2>1. /\ k \in Keys
        /\ pc' = [pc EXCEPT ![c] = "released"]
        /\ key' = key
    BY <1>4, <1>a DEF Release, TypeOK
  <2>2. CASE pc[c] = "released"
    <3>1. queue' = queue /\ ready' = ready
      BY <1>4, <2>2 DEF Release, releaseFunc
    <3> QED
      BY <2>1, <2>2, <3>1, <1>a, <1>f DEF OwnsSlot, TypeOK
  <2>3. CASE pc[c] = "leased"
    <3>1. c \in owners[k]
      BY <2>1, <2>3, <1>c DEF OwnsSlot
    <3>2. k \in buckets
      <4>1. active[k] > 0
        BY <3>1, <2>1, <1>b, HoldersFinite, FS_EmptySet DEF owners
      <4> QED
        BY <4>1, <2>1 DEF IInv, BucketsExact
    <3>3. CASE queue[k] # <<>> /\ HandOff(k)
      <4> DEFINE h == Head(queue[k])
      <4>1. ready' = [ready EXCEPT ![h] = TRUE] /\ queue' = [queue EXCEPT ![k] = Tail(@)]
        BY <3>3 DEF HandOff
      <4>2. h \in Calls /\ InLine(h, k)
        BY <2>1, <3>3, <1>b, TailContains
      <4> HIDE DEF h
      <4>3. h # c /\ key[h] = k /\ pc[h] \in Undecided
        BY <2>1, <2>3, <4>2 DEF InLine
      <4>4. \A d \in Calls, j \in Keys :
              d \in owners'[j] <=> (d \in owners[j] /\ d # c) \/ (d = h /\ j = k)
        BY <2>1, <4>1, <4>2, <4>3, <1>a, <1>c, <1>d DEF OwnsSlot, TypeOK
      <4>5. owners' = [owners EXCEPT ![k] = (@ \ {c}) \cup {h}]
        <5>1. \A j \in Keys \ {k} : c \notin owners[j]
          BY <1>c
        <5>2. \A j \in Keys :
                owners'[j] = IF j = k THEN (owners[j] \ {c}) \cup {h} ELSE owners[j]
          BY <4>2, <4>4, <5>1 DEF owners, Holders
        <5> QED
          BY <5>2 DEF owners
      <4>6. Pool!Return(c, k)
        BY <3>1, <3>3, <4>1, <4>5 DEF Pool!Return, h
      <4> QED
        BY <2>1, <4>6, <1>g
    <3>4. CASE queue[k] = <<>> /\ GiveBack(k)
      <4>1. ready' = ready /\ queue' = queue
        BY <3>4 DEF GiveBack
      <4>2. \A d \in Calls, j \in Keys : d \in owners'[j] <=> d \in owners[j] /\ d # c
        BY <2>1, <2>3, <4>1, <1>a, <1>c, <1>d DEF OwnsSlot, TypeOK
      <4>3. owners' = [owners EXCEPT ![k] = @ \ {c}]
        <5>1. \A j \in Keys \ {k} : c \notin owners[j]
          BY <1>c
        <5>2. \A j \in Keys : owners'[j] = IF j = k THEN owners[j] \ {c} ELSE owners[j]
          BY <4>2, <5>1 DEF owners, Holders
        <5> QED
          BY <5>2 DEF owners
      <4>4. Pool!Return(c, k)
        BY <3>1, <3>4, <4>1, <4>3 DEF Pool!Return, owners
      <4> QED
        BY <2>1, <4>4, <1>g
    <3> QED
      BY <1>4, <2>3, <3>2, <3>3, <3>4 DEF Release, releaseFunc, release
  <2> QED
    BY <1>4, <2>2, <2>3 DEF Release
<1>5. ASSUME UNCHANGED vars PROVE UNCHANGED <<owners, queue>>
  BY <1>5, <1>f DEF vars, OwnsSlot
<1> QED
  BY <1>1, <1>2, <1>3, <1>4, <1>5 DEF Next, Acquire

\* Every key is a first-come first-served slot pool: ImplementsSlotPool.
THEOREM ImplementsSlotPoolCorrect == Spec => ImplementsSlotPool
<1>1. IInv /\ SlotsAccounted /\ [Next]_vars => (IInv /\ SlotsAccounted)'
  BY IInvStep, SlotsAccountedStep
<1>2. IInv /\ SlotsAccounted /\ IInv' /\ [Next]_vars => [Pool!Next]_(Pool!vars)
  BY PoolStep
<1> QED
  BY <1>1, <1>2, IInvInit, SlotsAccountedInit, PoolInit, PTL
     DEF Spec, ImplementsSlotPool, Pool!Spec
=============================================================================
