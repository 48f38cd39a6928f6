----------------------------- MODULE GatewayKeys -----------------------------
(***************************************************************************)
(* runtime_store.go, service.go: the two ways to an upstream key.          *)
(* acquireOutboundKey asks whether the key file has enabled keys.  If so   *)
(* the request is one of KeyPool; if not the client's own key is used, and *)
(* AcquireLegacy admits as many requests per key as the configuration      *)
(* allows.  Both kinds wait on the same channel s.notify: whatever closes  *)
(* it wakes them all.  A reload may change the mode and the limit while    *)
(* requests of both kinds wait and run.                                    *)
(***************************************************************************)
EXTENDS KeyPool

CONSTANTS
    Clients,    \* the requests that may find no managed key, again and again
    ClientKeys,
    KeyOf       \* the key a client sends

ASSUME ClientsAssumption == IsFiniteSet(Clients) /\ \A c \in Clients : KeyOf[c] \in ClientKeys
ASSUME ApartAssumption == Clients \cap Requests = {}

VARIABLES
    chosen,         \* who has asked HasManagedKeys and not acted on it yet
    legacyActive,   \* RuntimeStore.legacyActive, 0 for a key that is not in it
    lpc,            \* where each client is
    lleft,          \* time until its deadline
    lwoken          \* the channel it captured has been closed

legacyVars == <<legacyActive, lpc, lleft, lwoken>>
gatewayVars == <<vars, chosen, legacyVars>>

LegacyPCs == {"idle", "trying", "parked", "late", "leased"}

\* HasManagedKeys.
Ask(x) ==
    /\ x \notin chosen
    /\ IF x \in Requests
         THEN pc[x] = "idle" /\ Enabled # {}
         ELSE lpc[x] = "idle" /\ Enabled = {}
    /\ chosen' = chosen \cup {x}
    /\ UNCHANGED <<vars, legacyVars>>

-----------------------------------------------------------------------------
(***************************************************************************)
(* AcquireLegacy and releaseLegacy.                                        *)
(***************************************************************************)

legacySignal == lwoken' = [c \in Clients |-> lwoken[c] \/ lpc[c] \in {"parked", "late"}]

LegacyArrive(c) ==
    /\ c \in chosen
    /\ chosen' = chosen \ {c}
    /\ lpc' = [lpc EXCEPT ![c] = "trying"]
    /\ lleft' = [lleft EXCEPT ![c] = cfg.timeout]
    /\ UNCHANGED <<vars, legacyActive, lwoken>>

HasRoom(k) == legacyActive[k] < cfg.limit

LegacyAcquire(c) ==
    /\ lpc[c] = "trying"
    /\ HasRoom(KeyOf[c])
    /\ legacyActive' = [legacyActive EXCEPT ![KeyOf[c]] = @ + 1]
    /\ lpc' = [lpc EXCEPT ![c] = "leased"]
    /\ lleft' = [lleft EXCEPT ![c] = 0]
    /\ UNCHANGED <<vars, chosen, lwoken>>

LegacyWait(c) ==
    /\ lpc[c] = "trying"
    /\ ~ HasRoom(KeyOf[c])
    /\ lpc' = [lpc EXCEPT ![c] = IF lleft[c] > 0 THEN "parked" ELSE "late"]
    /\ UNCHANGED <<vars, chosen, legacyActive, lleft, lwoken>>

LegacyWakeUp(c) ==
    /\ lpc[c] = "parked"
    /\ lwoken[c]
    /\ lpc' = [lpc EXCEPT ![c] = "trying"]
    /\ lwoken' = [lwoken EXCEPT ![c] = FALSE]
    /\ UNCHANGED <<vars, chosen, legacyActive, lleft>>

LegacyFail(c) ==
    /\ lpc' = [lpc EXCEPT ![c] = "idle"]
    /\ lleft' = [lleft EXCEPT ![c] = 0]
    /\ lwoken' = [lwoken EXCEPT ![c] = FALSE]
    /\ UNCHANGED <<vars, chosen, legacyActive>>

\* ErrConcurrencyQueueTimeout.
LegacyTimeout(c) ==
    /\ lpc[c] \in {"parked", "late"}
    /\ lleft[c] <= 0
    /\ LegacyFail(c)

\* ErrConcurrencyWaitCanceled.
LegacyCanceled(c) == lpc[c] = "parked" /\ LegacyFail(c)

\* Mutant: the release wakes those who wait for a managed key only.
LegacyReleaseQuietly(c) ==
    /\ lpc[c] = "leased"
    /\ lpc' = [lpc EXCEPT ![c] = "idle"]
    /\ legacyActive' = [legacyActive EXCEPT ![KeyOf[c]] = IF @ > 0 THEN @ - 1 ELSE @]
    /\ LegacySignal
    /\ UNCHANGED <<chosen, lleft, lwoken>>

\* Mutant: the entry is deleted with the first release.
LegacyReleaseAll(c) ==
    /\ lpc[c] = "leased"
    /\ lpc' = [lpc EXCEPT ![c] = "idle"]
    /\ legacyActive' = [legacyActive EXCEPT ![KeyOf[c]] = 0]
    /\ LegacySignal
    /\ legacySignal
    /\ UNCHANGED <<chosen, lleft>>

LegacyRelease(c) ==
    /\ lpc[c] = "leased"
    /\ lpc' = [lpc EXCEPT ![c] = "idle"]
    /\ legacyActive' = [legacyActive EXCEPT ![KeyOf[c]] = IF @ > 0 THEN @ - 1 ELSE @]
    /\ LegacySignal
    /\ legacySignal
    /\ UNCHANGED <<chosen, lleft>>

-----------------------------------------------------------------------------
(***************************************************************************)
(* The steps of KeyPool, and what they do to the clients.                  *)
(***************************************************************************)

QuietStep(r) ==
    \/ Attempt(r)
    \/ EndWait(r)
    \/ WaitCanceled(r)
    \/ ReadErrorConfig(r)
    \/ RecordKeyError(r) /\ isKeyInBackoff(leaseKey[r])

SignalStep(r) ==
    \/ Release(r)
    \/ RecordKeyError(r) /\ ~ isKeyInBackoff(leaseKey[r])

ManagedArrive(r) ==
    /\ r \in chosen
    /\ chosen' = chosen \ {r}
    /\ Arrive(r)
    /\ UNCHANGED legacyVars

StoreSignal ==
    \/ \E k \in KeyIds : ResetKeyBackoff(k)
    \/ \E c \in Configs, f \in KeyFiles : Reload(c, f)

Pass ==
    /\ Tick
    /\ lleft' = [c \in Clients |-> IF lleft[c] > 0 THEN lleft[c] - 1 ELSE lleft[c]]
    /\ UNCHANGED <<chosen, legacyActive, lpc, lwoken>>

PoolStep ==
    \/ \E r \in Requests :
         \/ ManagedArrive(r)
         \/ QuietStep(r) /\ UNCHANGED <<chosen, legacyVars>>
         \/ SignalStep(r) /\ legacySignal /\ UNCHANGED <<chosen, legacyActive, lpc, lleft>>
    \/ StoreSignal /\ legacySignal /\ UNCHANGED <<chosen, legacyActive, lpc, lleft>>
    \/ Status /\ UNCHANGED <<chosen, legacyVars>>
    \/ Pass

LegacyEndWait(c) == LegacyWakeUp(c) \/ LegacyTimeout(c)

LegacyStep(c) ==
    \/ LegacyArrive(c)
    \/ LegacyAcquire(c)
    \/ LegacyWait(c)
    \/ LegacyEndWait(c)
    \/ LegacyCanceled(c)
    \/ LegacyRelease(c)

GatewayInit ==
    /\ Init
    /\ chosen = {}
    /\ legacyActive = [k \in ClientKeys |-> 0]
    /\ lpc = [c \in Clients |-> "idle"]
    /\ lleft = [c \in Clients |-> 0]
    /\ lwoken = [c \in Clients |-> FALSE]

GatewayNext ==
    \/ PoolStep
    \/ \E x \in Requests \cup Clients : Ask(x)
    \/ \E c \in Clients : LegacyStep(c)

GatewaySpec == GatewayInit /\ [][GatewayNext]_gatewayVars

-----------------------------------------------------------------------------
(***************************************************************************)
(* Properties.                                                             *)
(***************************************************************************)

\* Every variable has its type (runtime_store.go:31-62).
GatewayTypeOK ==
    /\ chosen \subseteq Requests \cup Clients
    /\ legacyActive \in [ClientKeys -> Nat]
    /\ lpc \in [Clients -> LegacyPCs]
    /\ lleft \in [Clients -> Nat]
    /\ lwoken \in [Clients -> BOOLEAN]

LegacyLeases(k) == {c \in Clients : lpc[c] = "leased" /\ KeyOf[c] = k}

\* The count of a client's key is the number of its requests that are running,
\* whatever the mode changes to while they run (355-385, 454-464).
LegacyAccounted == \A k \in ClientKeys : legacyActive[k] = Cardinality(LegacyLeases(k))

\* A client that waits on an open channel has no slot to take: the limit is
\* reached, be it by a limit that a reload has lowered.  A reload that raises
\* it, and any release of the same key, has closed the channel, and so has
\* everything that closes it for the managed keys (372-377, 690-693).
LegacyNoLostWakeup ==
    \A c \in Clients :
        lpc[c] \in {"parked", "late"} /\ ~ lwoken[c] => ~ HasRoom(KeyOf[c])

-----------------------------------------------------------------------------
(***************************************************************************)
(* The requests on a key, managed or a client's own, and how many the      *)
(* store would admit: none while the key is disabled or cools down.        *)
(***************************************************************************)

AllKeys == ({"managed"} \X KeyIds) \cup ({"client"} \X ClientKeys)

Holders(k) == IF k[1] = "managed" THEN Leases(k[2]) ELSE LegacyLeases(k[2])

Allowed(k) ==
    IF k[1] = "client" THEN cfg.limit
    ELSE IF k[2] \in Enabled /\ ~ isKeyInBackoff(k[2]) THEN keyLimit(k[2])
    ELSE 0

AllHolders == [k \in AllKeys |-> Holders(k)]
AllAllowed == [k \in AllKeys |-> Allowed(k)]

Use == INSTANCE KeyUse WITH
    Users <- Requests \cup Clients, Keys <- AllKeys,
    holders <- AllHolders, allowed <- AllAllowed

\* The counts of the store do what sets of requests would: whoever is admitted,
\* in either mode, finds fewer requests on its key than are allowed, and no
\* reload, lost record of an error or change of the mode makes room that is not
\* there (355-385, 387-444, 466-511).
ImplementsKeyUse == Use!Spec
=============================================================================
