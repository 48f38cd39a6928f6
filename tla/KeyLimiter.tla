----------------------------- MODULE KeyLimiter -----------------------------
(***************************************************************************)
(* key_limiter.go: the FIFO gate in front of the upstream when the gateway *)
(* runs without a runtime store.  Each key has a bucket with a count of    *)
(* active calls and a queue of channels.  A call that finds no room queues *)
(* its own channel and selects on the channel, on a timer and on its       *)
(* context; a release closes the first channel of the queue and leaves the *)
(* count alone, so that the slot passes from one call to the next.         *)
(*                                                                         *)
(* Every critical section of l.mu is one action.  Between the branch that  *)
(* select takes and the call of removeWaiter the mutex is free, and a      *)
(* release may hand the slot to a call that has already given up: that is  *)
(* the race the module is about.  Keys stand for the HMACs of key_limiter  *)
(* keyID, which are distinct for distinct keys.                            *)
(***************************************************************************)
EXTENDS Naturals, FiniteSets, Sequences, SequencesExt

CONSTANTS
    Calls,      \* the goroutines that call Acquire, each again and again
    Keys,       \* the keys they call it for
    Limit       \* KeyLimiter.limit

ASSUME LimitAssumption == Limit \in Nat \ {0}
ASSUME CallsAssumption == IsFiniteSet(Calls)

VARIABLES
    buckets,    \* the domain of the map l.buckets
    active,     \* keyBucket.active
    queue,      \* keyBucket.queue: the calls that own the channels in it
    pc,         \* where each call is
    key,        \* the key of its last Acquire
    ready       \* its channel has been closed

vars == <<buckets, active, queue, pc, key, ready>>

(***************************************************************************)
(* "waiting" is the select; "timedOut" and "canceled" are the moment       *)
(* between the branch that was taken and removeWaiter; "draining" is the   *)
(* receive from ready after removeWaiter returned false.                   *)
(***************************************************************************)
PCs == {"idle", "waiting", "timedOut", "canceled", "draining", "leased", "released"}

InAcquire == {"waiting", "timedOut", "canceled", "draining"}

Init ==
    /\ buckets = {}
    /\ active = [k \in Keys |-> 0]
    /\ queue = [k \in Keys |-> <<>>]
    /\ pc = [c \in Calls |-> "idle"]
    /\ key \in [Calls -> Keys]
    /\ ready = [c \in Calls |-> FALSE]

-----------------------------------------------------------------------------

\* Both branches of Acquire make the bucket and a channel of the call's own.
Arrive(c, k) ==
    /\ pc[c] \in {"idle", "released"}
    /\ buckets' = buckets \cup {k}
    /\ key' = [key EXCEPT ![c] = k]
    /\ ready' = [ready EXCEPT ![c] = FALSE]

\* Mutant: an off-by-one keeps the last slot of a key empty.
HasRoomOneLess(k) == active[k] + 1 < Limit /\ queue[k] = <<>>

HasRoom(k) == active[k] < Limit /\ queue[k] = <<>>

\* Acquire returns at once with a lease.
AcquireFast(c, k) ==
    /\ Arrive(c, k)
    /\ HasRoom(k)
    /\ active' = [active EXCEPT ![k] = @ + 1]
    /\ pc' = [pc EXCEPT ![c] = "leased"]
    /\ UNCHANGED queue

\* Acquire queues the channel and goes to its select.
Enqueue(c, k) ==
    /\ Arrive(c, k)
    /\ ~ HasRoom(k)
    /\ queue' = [queue EXCEPT ![k] = Append(@, c)]
    /\ pc' = [pc EXCEPT ![c] = "waiting"]
    /\ UNCHANGED active

\* select takes <-ready.
ReadyWins(c) ==
    /\ pc[c] = "waiting"
    /\ ready[c]
    /\ pc' = [pc EXCEPT ![c] = "leased"]
    /\ UNCHANGED <<buckets, active, queue, key, ready>>

\* select takes <-timer.C, which it may do although ready is closed too.
TimerWins(c) ==
    /\ pc[c] = "waiting"
    /\ pc' = [pc EXCEPT ![c] = "timedOut"]
    /\ UNCHANGED <<buckets, active, queue, key, ready>>

\* select takes <-ctx.Done(): the client went away.
CtxWins(c) ==
    /\ pc[c] = "waiting"
    /\ pc' = [pc EXCEPT ![c] = "canceled"]
    /\ UNCHANGED <<buckets, active, queue, key, ready>>

(***************************************************************************)
(* removeWaiter.  It returns true and Acquire returns an error when the    *)
(* channel is still in the queue; else the slot has been handed over and   *)
(* Acquire receives from ready.                                            *)
(***************************************************************************)
WithoutWaiter(k, i) ==
    /\ queue' = [queue EXCEPT ![k] = RemoveAt(@, i)]
    /\ buckets' = IF active[k] = 0 /\ Len(queue[k]) = 1 THEN buckets \ {k} ELSE buckets

GiveUp(c) ==
    /\ pc[c] \in {"timedOut", "canceled"}
    /\ key[c] \in buckets
    /\ \E i \in 1..Len(queue[key[c]]) :
         /\ queue[key[c]][i] = c
         /\ WithoutWaiter(key[c], i)
    /\ pc' = [pc EXCEPT ![c] = "idle"]
    /\ UNCHANGED <<active, key, ready>>

NotInQueue(c) == key[c] \notin buckets \/ ~ Contains(queue[key[c]], c)

TooLate(c) ==
    /\ pc[c] \in {"timedOut", "canceled"}
    /\ NotInQueue(c)
    /\ pc' = [pc EXCEPT ![c] = "draining"]
    /\ UNCHANGED <<buckets, active, queue, key, ready>>

\* <-ready after removeWaiter returned false: the call gets its lease after all.
Drain(c) ==
    /\ pc[c] = "draining"
    /\ ready[c]
    /\ pc' = [pc EXCEPT ![c] = "leased"]
    /\ UNCHANGED <<buckets, active, queue, key, ready>>

\* Mutant: release counts down although it handed the slot over.
HandOffCountsDown(k) ==
    /\ ready' = [ready EXCEPT ![Head(queue[k])] = TRUE]
    /\ queue' = [queue EXCEPT ![k] = Tail(@)]
    /\ active' = [active EXCEPT ![k] = @ - 1]
    /\ UNCHANGED buckets

\* Mutant: release drops the channel from the queue and does not close it.
HandOffWithoutClose(k) ==
    /\ queue' = [queue EXCEPT ![k] = Tail(@)]
    /\ UNCHANGED <<buckets, active, ready>>

\* Mutant: release takes the last channel of the queue.
HandOffToLast(k) ==
    /\ ready' = [ready EXCEPT ![Last(queue[k])] = TRUE]
    /\ queue' = [queue EXCEPT ![k] = Front(@)]
    /\ UNCHANGED <<buckets, active>>

\* release with a queue: the head's channel is closed, the slot stays taken.
HandOff(k) ==
    /\ ready' = [ready EXCEPT ![Head(queue[k])] = TRUE]
    /\ queue' = [queue EXCEPT ![k] = Tail(@)]
    /\ UNCHANGED <<buckets, active>>

\* Mutant: release looks at the count before it has gone down.
GiveBackKeepsBucket(k) ==
    /\ active' = [active EXCEPT ![k] = IF @ > 0 THEN @ - 1 ELSE @]
    /\ buckets' = IF active[k] = 0 THEN buckets \ {k} ELSE buckets
    /\ UNCHANGED <<queue, ready>>

\* release without one: the slot is free, and the last one takes the bucket along.
GiveBack(k) ==
    /\ active' = [active EXCEPT ![k] = IF @ > 0 THEN @ - 1 ELSE @]
    /\ buckets' = IF active[k] <= 1 THEN buckets \ {k} ELSE buckets
    /\ UNCHANGED <<queue, ready>>

release(k) ==
    IF k \notin buckets
      THEN UNCHANGED <<buckets, active, queue, ready>>
      ELSE IF queue[k] # <<>> THEN HandOff(k) ELSE GiveBack(k)

\* Mutant: the function a lease carries, without its sync.Once.
releaseFuncWithoutOnce(c) == release(key[c])

\* The function a lease carries; its sync.Once lets the first call through.
releaseFunc(c) ==
    IF pc[c] = "leased"
      THEN release(key[c])
      ELSE UNCHANGED <<buckets, active, queue, ready>>

Release(c) ==
    /\ pc[c] \in {"leased", "released"}
    /\ releaseFunc(c)
    /\ pc' = [pc EXCEPT ![c] = "released"]
    /\ UNCHANGED key

-----------------------------------------------------------------------------

Acquire(c) == \E k \in Keys : AcquireFast(c, k) \/ Enqueue(c, k)

Select(c) == ReadyWins(c) \/ TimerWins(c)

Next ==
    \E c \in Calls :
        \/ Acquire(c)
        \/ ReadyWins(c)
        \/ TimerWins(c)
        \/ CtxWins(c)
        \/ GiveUp(c)
        \/ TooLate(c)
        \/ Drain(c)
        \/ Release(c)

(***************************************************************************)
(* A goroutine whose select has a ready branch goes on, the timer of the   *)
(* select fires sooner or later, and a goroutine that holds no lock it     *)
(* must wait for reaches its next step.  Nobody is made to call Acquire,   *)
(* to cancel, or to release a lease.                                       *)
(***************************************************************************)
Fairness ==
    \A c \in Calls :
        /\ WF_vars(Select(c))
        /\ WF_vars(GiveUp(c) \/ TooLate(c))
        /\ WF_vars(Drain(c))

Spec == Init /\ [][Next]_vars

FairSpec == Spec /\ Fairness

-----------------------------------------------------------------------------

\* Every variable has its type (key_limiter.go:19-31).
TypeOK ==
    /\ buckets \in SUBSET Keys
    /\ active \in [Keys -> Nat]
    /\ queue \in [Keys -> Seq(Calls)]
    /\ pc \in [Calls -> PCs]
    /\ key \in [Calls -> Keys]
    /\ ready \in [Calls -> BOOLEAN]

\* A call owns a slot of its key from the moment its channel is closed, or it
\* took the fast path, until it releases.
OwnsSlot(c) ==
    \/ pc[c] = "leased"
    \/ pc[c] \in InAcquire /\ ready[c]

Holders(k) == {c \in Calls : key[c] = k /\ OwnsSlot(c)}

\* The count of a bucket is the number of calls that own a slot and never more
\* than the limit, whatever releases, timeouts and cancellations overlap
\* (Acquire, release and removeWaiter: no slot is lost and none is made up).
SlotsAccounted ==
    \A k \in Keys : active[k] = Cardinality(Holders(k)) /\ active[k] <= Limit

\* No call waits while its key has a free slot: release hands over instead of
\* counting down, and the fast path never leaves a queue behind (59, 105-112).
NoIdleSlot ==
    \A k \in Keys : queue[k] # <<>> => active[k] = Limit

\* A call that gave up and found itself gone from the queue has a closed
\* channel: the bare receives of lines 77 and 83 can never block.
DrainNeverBlocks ==
    \A c \in Calls : pc[c] = "draining" => ready[c]

\* The map holds a bucket exactly for the keys in use: release never meets a
\* nil bucket and thereby loses a slot, and no bucket outlives its last call.
BucketsExact ==
    \A k \in Keys : k \in buckets <=> (active[k] > 0 \/ queue[k] # <<>>)

\* Acquire returns, with a lease or an error: the timer bounds the select and
\* the two ways out of it never wait for ever (70-85).
AcquireReturns ==
    \A c \in Calls : pc[c] \in InAcquire ~> pc[c] \notin InAcquire

owners == [k \in Keys |-> Holders(k)]

Pool == INSTANCE SlotPool WITH
    Clients <- Calls, Slots <- Limit, holders <- owners, line <- queue

\* Every key is a slot pool with a first-come first-served line: the race of a
\* timeout with a release is either a withdrawal or a grant, never both.
ImplementsSlotPool == Pool!Spec
=============================================================================
