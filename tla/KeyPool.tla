------------------------------- MODULE KeyPool -------------------------------
(***************************************************************************)
(* runtime_store.go: how the requests of a gateway share the managed       *)
(* upstream keys.  AcquireManaged looks for a slot under s.mu; when there  *)
(* is none it keeps the channel s.notify of that moment, drops the lock    *)
(* and waits until the channel is closed, its deadline passes or its       *)
(* client goes away.  Every change that may free a slot closes the channel *)
(* and puts a new one in its place, which wakes every waiter at once; they *)
(* compete for what there is.  Sticky sessions, error backoff and the hot  *)
(* reload of both files act on the same state.                             *)
(*                                                                         *)
(* Every critical section of s.mu is one action.  Times are relative to    *)
(* the present (see KeyErrors); Tick is one unit of time and may come      *)
(* between any two sections.                                               *)
(***************************************************************************)
EXTENDS KeyErrors, FiniteSets

CONSTANTS
    Requests,   \* the requests in flight, each one served again and again
    Sessions,   \* session identities
    SessionOf,  \* the session a request belongs to
    KeyIds,     \* ids a key file may name; numbers, for their sort order
    Configs,    \* the configurations a reload may install
    KeyFiles    \* the key files it may install

(***************************************************************************)
(* A configuration: keyConcurrencyLimit, keyQueueTimeout, stickySession,   *)
(* stickySessionTTL and the three fields of KeyErrors, with the bounds of  *)
(* Config.Validate.  A key file maps the ids it names to a key: whether it *)
(* is enabled and has a secret, and its limit, 0 for the global one.       *)
(***************************************************************************)
ConfigType ==
    [limit: Nat \ {0}, timeout: Nat \ {0}, sticky: BOOLEAN, ttl: Nat \ {0},
     threshold: Nat, window: Nat, backoff: Nat]

IsKeyFile(f) ==
    /\ DOMAIN f \subseteq KeyIds
    /\ f \in [DOMAIN f -> [enabled: BOOLEAN, limit: Nat]]

NoKey == 0      \* no id, and what a waiter for any key waits for

ASSUME KeyIdsAssumption == KeyIds \subseteq Nat \ {NoKey}
ASSUME RequestsAssumption == IsFiniteSet(Requests)
ASSUME SessionsAssumption == \A r \in Requests : SessionOf[r] \in Sessions
ASSUME ConfigsAssumption == \A c \in Configs : c \in ConfigType
ASSUME WindowsAssumption == \A c \in Configs : c.window < MaxAge
ASSUME KeyFilesAssumption == \A f \in KeyFiles : IsKeyFile(f)

VARIABLES
    cfg,            \* RuntimeStore.cfg
    keyFile,        \* RuntimeStore.keyFile
    active,         \* RuntimeStore.active, 0 for an id that is not in it
    sticky,         \* RuntimeStore.sticky, NoEntry for a session not in it
    keyErrors,      \* RuntimeStore.keyErrors, ZeroState likewise
    pc,             \* where each request is
    left,           \* time until its deadline
    stickyWaited,   \* the local variable of that name
    waitFor,        \* the full sticky key it waits for, or NoKey for any key
    woken,          \* the channel it captured has been closed
    leaseKey,       \* KeyLease.KeyID of its lease
    seenCfg,        \* the configuration RecordKeyError has read, {} outside of it
    lapsed          \* history: keys whose backoff ran out after the last signal

storeVars == <<cfg, keyFile, active, sticky, keyErrors>>
requestVars == <<pc, left, stickyWaited, waitFor, leaseKey, seenCfg>>
vars == <<storeVars, requestVars, woken, lapsed>>

(***************************************************************************)
(* "trying" is the head of the loop; "parked" the select of                *)
(* waitForNotifyUntil and "late" its first return, taken when the deadline *)
(* has passed before it starts to wait; "recording" is RecordKeyError      *)
(* between s.Config() and the lock; "recorded" is a failed request that    *)
(* still has to run its deferred Release.                                  *)
(***************************************************************************)
PCs == {"idle", "trying", "parked", "late", "leased", "recording", "recorded"}

Leased(r) == pc[r] \in {"leased", "recording", "recorded"}

NoEntry == [key |-> NoKey, left |-> Past]

Enabled == {k \in DOMAIN keyFile : keyFile[k].enabled}

keyLimit(k) == IF keyFile[k].limit > 0 THEN keyFile[k].limit ELSE cfg.limit

\* Mutant: the limit is taken as the last count that still admits one more.
canAcquireOneMore(k) == active[k] <= keyLimit(k)

canAcquire(k) == active[k] < keyLimit(k)

isKeyInBackoff(k) == InBackoff(keyErrors[k])

Usable(k) == canAcquire(k) /\ ~ isKeyInBackoff(k)

-----------------------------------------------------------------------------
(***************************************************************************)
(* Pieces of the handlers.                                                 *)
(***************************************************************************)

cleanupSticky == [s \in Sessions |-> IF sticky[s].left < 0 THEN NoEntry ELSE sticky[s]]

cleanupKeyErrors(c) == [k \in KeyIds |-> CleanupError(keyErrors[k], c)]

\* signalLocked: whoever has captured the current channel is woken.
signal ==
    /\ woken' = [r \in Requests |-> woken[r] \/ pc[r] \in {"parked", "late"}]
    /\ lapsed' = {}

noSignal == UNCHANGED <<woken, lapsed>>

\* The order of pickAvailableKeyLocked: fewest active first, then the larger
\* limit, then the id.
Preferred(k, j) ==
    \/ active[k] < active[j]
    \/ active[k] = active[j] /\ keyLimit(k) > keyLimit(j)
    \/ active[k] = active[j] /\ keyLimit(k) = keyLimit(j) /\ k <= j

Available == {k \in Enabled : Usable(k)}

pickAvailableKey == {k \in Available : \A j \in Available : Preferred(k, j)}

\* Mutant: only a sticky key with room is consulted, a full one is passed over.
StickyKeyWithRoom(r) ==
    IF /\ cfg.sticky
       /\ ~ stickyWaited[r]
       /\ sticky[SessionOf[r]].left > 0
       /\ sticky[SessionOf[r]].key \in Enabled
       /\ canAcquire(sticky[SessionOf[r]].key)
      THEN sticky[SessionOf[r]].key
      ELSE NoKey

\* The sticky key the loop consults: a live entry that names an enabled key.
StickyKey(r) ==
    IF /\ cfg.sticky
       /\ ~ stickyWaited[r]
       /\ sticky[SessionOf[r]].left > 0
       /\ sticky[SessionOf[r]].key \in Enabled
      THEN sticky[SessionOf[r]].key
      ELSE NoKey

\* acquireManagedLocked, after the cleanup at the head of the loop.
acquireManaged(r, k) ==
    /\ active' = [active EXCEPT ![k] = @ + 1]
    /\ sticky' = IF cfg.sticky
                   THEN [cleanupSticky EXCEPT ![SessionOf[r]] = [key |-> k, left |-> cfg.ttl]]
                   ELSE cleanupSticky
    /\ pc' = [pc EXCEPT ![r] = "leased"]
    /\ leaseKey' = [leaseKey EXCEPT ![r] = k]
    /\ left' = [left EXCEPT ![r] = 0]
    /\ stickyWaited' = [stickyWaited EXCEPT ![r] = FALSE]
    /\ UNCHANGED <<waitFor, seenCfg>>

\* The channel is captured in the section that found no slot.
park(r, k) ==
    /\ pc' = [pc EXCEPT ![r] = IF left[r] > 0 THEN "parked" ELSE "late"]
    /\ waitFor' = [waitFor EXCEPT ![r] = k]
    /\ woken' = [woken EXCEPT ![r] = FALSE]
    /\ sticky' = cleanupSticky
    /\ UNCHANGED <<active, left, stickyWaited, leaseKey, seenCfg, lapsed>>

\* AcquireManaged returns an error.
fail(r) ==
    /\ pc' = [pc EXCEPT ![r] = "idle"]
    /\ left' = [left EXCEPT ![r] = 0]
    /\ stickyWaited' = [stickyWaited EXCEPT ![r] = FALSE]
    /\ waitFor' = [waitFor EXCEPT ![r] = NoKey]
    /\ woken' = [woken EXCEPT ![r] = FALSE]
    /\ UNCHANGED <<leaseKey, seenCfg, lapsed>>

-----------------------------------------------------------------------------
(***************************************************************************)
(* AcquireManaged.                                                         *)
(***************************************************************************)

\* The deadline is fixed once, from the configuration of that moment.
Arrive(r) ==
    /\ pc[r] = "idle"
    /\ pc' = [pc EXCEPT ![r] = "trying"]
    /\ left' = [left EXCEPT ![r] = cfg.timeout]
    /\ noSignal
    /\ UNCHANGED <<storeVars, stickyWaited, waitFor, leaseKey, seenCfg>>

\* The head of the loop: every branch below starts with the cleanup.
Loop(r) ==
    /\ pc[r] = "trying"
    /\ keyErrors' = cleanupKeyErrors(cfg)
    /\ UNCHANGED <<cfg, keyFile>>

NoManagedKeys(r) ==
    /\ Loop(r)
    /\ Enabled = {}
    /\ sticky' = cleanupSticky
    /\ fail(r)
    /\ UNCHANGED active

FollowSticky(r) ==
    /\ Loop(r)
    /\ StickyKey(r) # NoKey
    /\ Usable(StickyKey(r))
    /\ acquireManaged(r, StickyKey(r))
    /\ noSignal

\* The sticky key cools down: the next turn of the loop balances the load.
SkipSticky(r) ==
    /\ Loop(r)
    /\ StickyKey(r) # NoKey
    /\ isKeyInBackoff(StickyKey(r))
    /\ stickyWaited' = [stickyWaited EXCEPT ![r] = TRUE]
    /\ sticky' = cleanupSticky
    /\ noSignal
    /\ UNCHANGED <<active, pc, left, waitFor, leaseKey, seenCfg>>

\* The sticky key is full: wait although other keys may have room.
WaitForSticky(r) ==
    /\ Loop(r)
    /\ StickyKey(r) # NoKey
    /\ ~ canAcquire(StickyKey(r))
    /\ ~ isKeyInBackoff(StickyKey(r))
    /\ park(r, StickyKey(r))

Balance(r) ==
    /\ Loop(r)
    /\ StickyKey(r) = NoKey
    /\ \E k \in pickAvailableKey : acquireManaged(r, k)
    /\ noSignal

WaitForAny(r) ==
    /\ Loop(r)
    /\ Enabled # {}
    /\ StickyKey(r) = NoKey
    /\ Available = {}
    /\ park(r, NoKey)

\* Mutant: every wakeup starts the queue timeout anew.
WakeUpMovesDeadline(r) ==
    /\ pc[r] = "parked"
    /\ woken[r]
    /\ pc' = [pc EXCEPT ![r] = "trying"]
    /\ left' = [left EXCEPT ![r] = cfg.timeout]
    /\ waitFor' = [waitFor EXCEPT ![r] = NoKey]
    /\ woken' = [woken EXCEPT ![r] = FALSE]
    /\ UNCHANGED <<storeVars, stickyWaited, leaseKey, seenCfg, lapsed>>

\* waitChanged: back to the head of the loop.
WakeUp(r) ==
    /\ pc[r] = "parked"
    /\ woken[r]
    /\ pc' = [pc EXCEPT ![r] = "trying"]
    /\ waitFor' = [waitFor EXCEPT ![r] = NoKey]
    /\ woken' = [woken EXCEPT ![r] = FALSE]
    /\ UNCHANGED <<storeVars, left, stickyWaited, leaseKey, seenCfg, lapsed>>

\* waitTimedOut of the sticky wait: the request may switch now.
StickyTimeout(r) ==
    /\ pc[r] \in {"parked", "late"}
    /\ left[r] <= 0
    /\ waitFor[r] # NoKey
    /\ pc' = [pc EXCEPT ![r] = "trying"]
    /\ stickyWaited' = [stickyWaited EXCEPT ![r] = TRUE]
    /\ waitFor' = [waitFor EXCEPT ![r] = NoKey]
    /\ woken' = [woken EXCEPT ![r] = FALSE]
    /\ UNCHANGED <<storeVars, left, leaseKey, seenCfg, lapsed>>

\* waitTimedOut of the wait for any key: ErrManagedKeyQueueTimeout.
QueueTimeout(r) ==
    /\ pc[r] \in {"parked", "late"}
    /\ left[r] <= 0
    /\ waitFor[r] = NoKey
    /\ fail(r)
    /\ UNCHANGED storeVars

\* waitCanceled: ErrManagedKeyWaitCanceled.
WaitCanceled(r) ==
    /\ pc[r] = "parked"
    /\ fail(r)
    /\ UNCHANGED storeVars

-----------------------------------------------------------------------------
(***************************************************************************)
(* Release and RecordKeyError.                                             *)
(***************************************************************************)

\* Mutant: the release runs once more, and nothing stops the count at zero.
releaseManagedTwice(k) ==
    /\ active' = [active EXCEPT ![k] = @ - 2]
    /\ signal

\* Mutant: the release of a slot wakes nobody.
releaseManagedQuietly(k) ==
    /\ active' = [active EXCEPT ![k] = IF @ > 0 THEN @ - 1 ELSE @]
    /\ noSignal

releaseManaged(k) ==
    /\ active' = [active EXCEPT ![k] = IF @ > 0 THEN @ - 1 ELSE @]
    /\ signal

\* The deferred lease.Release of a request that ends, well or badly.
Release(r) ==
    /\ pc[r] \in {"leased", "recorded"}
    /\ releaseManaged(leaseKey[r])
    /\ pc' = [pc EXCEPT ![r] = "idle"]
    /\ leaseKey' = [leaseKey EXCEPT ![r] = NoKey]
    /\ UNCHANGED <<cfg, keyFile, sticky, keyErrors, left, stickyWaited, waitFor, seenCfg>>

\* The upstream failed: RecordKeyError reads the configuration under the lock
\* of Config() and lets it go.
ReadErrorConfig(r) ==
    /\ pc[r] = "leased"
    /\ pc' = [pc EXCEPT ![r] = IF BackoffDisabled(cfg) THEN "recorded" ELSE "recording"]
    /\ seenCfg' = [seenCfg EXCEPT ![r] = IF BackoffDisabled(cfg) THEN {} ELSE {cfg}]
    /\ noSignal
    /\ UNCHANGED <<storeVars, left, stickyWaited, waitFor, leaseKey>>

\* Mutant: a key that enters backoff wakes nobody.
RecordKeyErrorQuietly(r) ==
    /\ pc[r] = "recording"
    /\ IF isKeyInBackoff(leaseKey[r])
         THEN UNCHANGED keyErrors
         ELSE \E c \in seenCfg[r] :
                keyErrors' = [keyErrors EXCEPT ![leaseKey[r]] = AfterError(@, c)]
    /\ noSignal
    /\ pc' = [pc EXCEPT ![r] = "recorded"]
    /\ seenCfg' = [seenCfg EXCEPT ![r] = {}]
    /\ UNCHANGED <<cfg, keyFile, active, sticky, left, stickyWaited, waitFor, leaseKey>>

\* The rest of it, under the lock, with the configuration read before.
RecordKeyError(r) ==
    /\ pc[r] = "recording"
    /\ IF isKeyInBackoff(leaseKey[r])
         THEN noSignal /\ UNCHANGED keyErrors
         ELSE /\ \E c \in seenCfg[r] :
                   keyErrors' = [keyErrors EXCEPT ![leaseKey[r]] = AfterError(@, c)]
              /\ signal
    /\ pc' = [pc EXCEPT ![r] = "recorded"]
    /\ seenCfg' = [seenCfg EXCEPT ![r] = {}]
    /\ UNCHANGED <<cfg, keyFile, active, sticky, left, stickyWaited, waitFor, leaseKey>>

-----------------------------------------------------------------------------
(***************************************************************************)
(* What the admin interface, the watcher and time do.                      *)
(***************************************************************************)

ResetKeyBackoff(k) ==
    /\ k \in DOMAIN keyFile
    /\ keyErrors' = [keyErrors EXCEPT ![k] = AfterReset]
    /\ signal
    /\ UNCHANGED <<cfg, keyFile, active, sticky, requestVars>>

\* Mutant: a reload forgets the counts of the keys that left the file.
ReloadForgetsActive(c, f) ==
    /\ cfg' = c
    /\ keyFile' = f
    /\ sticky' = cleanupSticky
    /\ keyErrors' = cleanupKeyErrors(c)
    /\ active' = [k \in KeyIds |-> IF k \in DOMAIN f THEN active[k] ELSE 0]
    /\ signal
    /\ UNCHANGED requestVars

\* Reload installs what the files hold; the watcher does so every 2 seconds,
\* and every save does.  ConfigStore is about what the files hold.
Reload(c, f) ==
    /\ cfg' = c
    /\ keyFile' = f
    /\ sticky' = cleanupSticky
    /\ keyErrors' = cleanupKeyErrors(c)
    /\ signal
    /\ UNCHANGED <<active, requestVars>>

\* Status deletes the expired sticky entries it comes across.
Status ==
    /\ sticky' = cleanupSticky
    /\ noSignal
    /\ UNCHANGED <<cfg, keyFile, active, keyErrors, requestVars>>

\* releaseLegacy closes the same channel: GatewayKeys is about the rest of it.
LegacySignal ==
    /\ signal
    /\ UNCHANGED <<storeVars, requestVars>>

Tick ==
    /\ left' = [r \in Requests |-> IF left[r] > 0 THEN left[r] - 1 ELSE left[r]]
    /\ sticky' = [s \in Sessions |-> [sticky[s] EXCEPT !.left = Sooner(@)]]
    /\ keyErrors' = [k \in KeyIds |-> Older(keyErrors[k])]
    /\ lapsed' = lapsed \cup {k \in KeyIds : keyErrors[k].until = 1}
    /\ UNCHANGED <<cfg, keyFile, active, pc, stickyWaited, waitFor, woken, leaseKey, seenCfg>>

-----------------------------------------------------------------------------

Init ==
    /\ cfg \in Configs
    /\ keyFile \in KeyFiles
    /\ active = [k \in KeyIds |-> 0]
    /\ sticky = [s \in Sessions |-> NoEntry]
    /\ keyErrors = [k \in KeyIds |-> ZeroState]
    /\ pc = [r \in Requests |-> "idle"]
    /\ left = [r \in Requests |-> 0]
    /\ stickyWaited = [r \in Requests |-> FALSE]
    /\ waitFor = [r \in Requests |-> NoKey]
    /\ woken = [r \in Requests |-> FALSE]
    /\ leaseKey = [r \in Requests |-> NoKey]
    /\ seenCfg = [r \in Requests |-> {}]
    /\ lapsed = {}

Attempt(r) ==
    \/ NoManagedKeys(r)
    \/ FollowSticky(r)
    \/ SkipSticky(r)
    \/ WaitForSticky(r)
    \/ Balance(r)
    \/ WaitForAny(r)

EndWait(r) == WakeUp(r) \/ StickyTimeout(r) \/ QueueTimeout(r)

RequestStep(r) ==
    \/ Arrive(r)
    \/ Attempt(r)
    \/ EndWait(r)
    \/ WaitCanceled(r)
    \/ ReadErrorConfig(r)
    \/ RecordKeyError(r)
    \/ Release(r)

StoreStep ==
    \/ \E k \in KeyIds : ResetKeyBackoff(k)
    \/ \E c \in Configs, f \in KeyFiles : Reload(c, f)
    \/ Status
    \/ LegacySignal
    \/ Tick

Next == (\E r \in Requests : RequestStep(r)) \/ StoreStep

Spec == Init /\ [][Next]_vars

(***************************************************************************)
(* A goroutine that can go on goes on, and time passes.  No request is     *)
(* made to arrive, to fail, to be canceled or to release its lease, and    *)
(* the watcher is not relied on.                                           *)
(***************************************************************************)
Fairness ==
    /\ WF_vars(Tick)
    /\ \A r \in Requests : WF_vars(Attempt(r)) /\ WF_vars(EndWait(r))

FairSpec == Spec /\ Fairness

-----------------------------------------------------------------------------
(***************************************************************************)
(* Properties.                                                             *)
(***************************************************************************)

ErrorStateType == [age: NoWindow..MaxAge, count: Nat, until: Int]

\* Every variable has its type (runtime_store.go:31-62).
TypeOK ==
    /\ cfg \in Configs
    /\ keyFile \in KeyFiles
    /\ active \in [KeyIds -> Nat]
    /\ sticky \in [Sessions -> [key: KeyIds \cup {NoKey}, left: Int]]
    /\ keyErrors \in [KeyIds -> ErrorStateType]
    /\ pc \in [Requests -> PCs]
    /\ left \in [Requests -> Nat]
    /\ stickyWaited \in [Requests -> BOOLEAN]
    /\ waitFor \in [Requests -> KeyIds \cup {NoKey}]
    /\ woken \in [Requests -> BOOLEAN]
    /\ leaseKey \in [Requests -> KeyIds \cup {NoKey}]
    /\ seenCfg \in [Requests -> SUBSET Configs]
    /\ lapsed \in SUBSET KeyIds

Leases(k) == {r \in Requests : Leased(r) /\ leaseKey[r] = k}

\* The count of a key is the number of leases on it that were not released,
\* through reloads that drop the key and bring it back, failures, timeouts
\* and cancellations (acquireManagedLocked and releaseManaged: no slot leaks
\* and none is returned twice).
LeasesAccounted == \A k \in KeyIds : active[k] = Cardinality(Leases(k))

\* A count only rises on a key that is enabled and not in backoff, and never
\* past the limit in force at that moment, on the sticky path (408) and on
\* the balancing path (505) alike.
GrantsWithinLimit ==
    [][\A k \in KeyIds : active'[k] > active[k] =>
            /\ k \in Enabled
            /\ ~ isKeyInBackoff(k)
            /\ active'[k] <= keyLimit(k)]_vars

Waiting(r) == pc[r] \in {"parked", "late"}

\* A request that waits, and whose channel is still open, has nothing to be
\* woken for: it waits for a sticky key that is full and no more than that, or every enabled
\* key is full or cooling down.  The one exception the code makes is a backoff
\* that ran out since the last signal, which nothing announces (441, 600).
NoLostWakeup ==
    \A r \in Requests : Waiting(r) /\ ~ woken[r] =>
        IF waitFor[r] = NoKey
          THEN \A k \in Enabled : Usable(k) => k \in lapsed
          ELSE /\ waitFor[r] \in Enabled
               /\ ~ canAcquire(waitFor[r])
               /\ ~ isKeyInBackoff(waitFor[r])

SomeoneAcquires(r) == ~ Leased(r) /\ Leased(r)'

\* A session with a live entry for an enabled key that is not cooling down is
\* served by another key only for a request that has waited its time out or
\* has met a backoff (405-434): neither a wakeup nor a reload loosens it.
StickyKept ==
    [][\A r \in Requests : SomeoneAcquires(r) /\ cfg.sticky =>
          LET e == sticky[SessionOf[r]] IN
          e.left > 0 /\ e.key \in Enabled /\ ~ isKeyInBackoff(e.key)
              => leaseKey'[r] = e.key \/ stickyWaited[r]]_vars

\* AcquireManaged returns a lease or an error, however often its waits are
\* interrupted: the deadline is not moved by a wakeup (392, 722-737).
RequestAnswered ==
    \A r \in Requests : pc[r] \in {"trying", "parked", "late"} ~> pc[r] \in {"idle", "leased"}
=============================================================================
