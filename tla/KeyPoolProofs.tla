---------------------------- MODULE KeyPoolProofs ----------------------------
(***************************************************************************)
(* The safety properties of KeyPool for every set of requests, sessions,   *)
(* key ids, configurations and key files; then those of GatewayKeys, for   *)
(* every set of clients beside them, and that what is proved of KeyPool    *)
(* holds there.                                                            *)
(***************************************************************************)
EXTENDS GatewayKeys, FiniteSetTheorems, TLAPS

USE DEF NoKey, Past, NoWindow

-----------------------------------------------------------------------------
(***************************************************************************)
(* What the operators on one key's record keep and change.                 *)
(***************************************************************************)

\* An error leaves a record of the same type (runtime_store.go:571-594).
LEMMA AfterErrorType ==
    ASSUME NEW e \in ErrorStateType, NEW c \in ConfigType
    PROVE  AfterError(e, c) \in ErrorStateType
<1>1. Counted(e, c) \in ErrorStateType
  BY MaxAgeAssumption DEF Counted, ErrorStateType, ConfigType
<1>2. EnterBackoff(c) \in ErrorStateType
  BY MaxAgeAssumption DEF EnterBackoff, ErrorStateType, ConfigType
<1> QED
  BY <1>1, <1>2 DEF AfterError

\* The cleanup drops only records without a backoff (606).
LEMMA CleanupErrorType ==
    ASSUME NEW e \in ErrorStateType, NEW c
    PROVE  /\ CleanupError(e, c) \in ErrorStateType
           /\ InBackoff(CleanupError(e, c)) <=> InBackoff(e)
<1>1. /\ ZeroState \in ErrorStateType
      /\ ~ InBackoff(ZeroState)
  BY MaxAgeAssumption DEF ZeroState, ErrorStateType, InBackoff
<1>2. Forgettable(e, c) => ~ InBackoff(e)
  BY DEF Forgettable, ErrorStateType, InBackoff
<1> QED
  BY <1>1, <1>2 DEF CleanupError

\* A reset leaves a record without a backoff.
LEMMA AfterResetType == AfterReset \in ErrorStateType
  BY MaxAgeAssumption DEF AfterReset, ZeroState, ErrorStateType

\* A tick ends a backoff in its last moment and starts none.
LEMMA OlderType ==
    ASSUME NEW e \in ErrorStateType
    PROVE  /\ Older(e) \in ErrorStateType
           /\ InBackoff(Older(e)) => InBackoff(e)
           /\ InBackoff(e) /\ ~ InBackoff(Older(e)) => e.until = 1
<1>1. Sooner(e.until) \in Int
  BY DEF Sooner, ErrorStateType
<1>2. Older(e) \in ErrorStateType
  BY <1>1, MaxAgeAssumption DEF Older, ErrorStateType
<1>3. Older(e).until = IF e.until = Past THEN Past ELSE e.until - 1
  BY DEF Older, Sooner
<1> QED
  BY <1>2, <1>3 DEF InBackoff, ErrorStateType

-----------------------------------------------------------------------------
(***************************************************************************)
(* Configurations and key files.                                           *)
(***************************************************************************)

\* The enabled keys are ids, and every one has a limit.
LEMMA EnabledKeys ==
    ASSUME TypeOK
    PROVE  /\ cfg \in ConfigType
           /\ Enabled \subseteq KeyIds
           /\ \A k \in Enabled : keyLimit(k) \in Nat
<1>1. cfg \in ConfigType
  BY ConfigsAssumption DEF TypeOK
<1>2. /\ DOMAIN keyFile \subseteq KeyIds
      /\ keyFile \in [DOMAIN keyFile -> [enabled: BOOLEAN, limit: Nat]]
  BY KeyFilesAssumption DEF TypeOK, IsKeyFile
<1>3. cfg.limit \in Nat
  BY <1>1 DEF ConfigType
<1>4. \A k \in DOMAIN keyFile : keyFile[k].limit \in Nat
  BY <1>2
<1> QED
  BY <1>1, <1>2, <1>3, <1>4 DEF Enabled, keyLimit

\* What the sticky path and the balancing path choose from.
LEMMA ChosenKeys ==
    ASSUME TypeOK, NEW r \in Requests
    PROVE  /\ StickyKey(r) # NoKey => StickyKey(r) \in Enabled
           /\ pickAvailableKey \subseteq Available
           /\ Available \subseteq Enabled
           /\ \A k \in Enabled : k \in KeyIds /\ k # NoKey
  BY EnabledKeys, KeyIdsAssumption DEF StickyKey, pickAvailableKey, Available

\* The cleanup of the sticky table keeps its type.
LEMMA CleanupTypes ==
    ASSUME TypeOK, NEW c
    PROVE  /\ cleanupSticky \in [Sessions -> [key: KeyIds \cup {NoKey}, left: Int]]
           /\ cleanupKeyErrors(c) \in [KeyIds -> ErrorStateType]
           /\ \A k \in KeyIds : InBackoff(cleanupKeyErrors(c)[k]) <=> InBackoff(keyErrors[k])
<1>1. cleanupSticky \in [Sessions -> [key: KeyIds \cup {NoKey}, left: Int]]
  BY DEF TypeOK, cleanupSticky, NoEntry
<1>2. \A k \in KeyIds : /\ CleanupError(keyErrors[k], c) \in ErrorStateType
                        /\ InBackoff(CleanupError(keyErrors[k], c)) <=> InBackoff(keyErrors[k])
  BY CleanupErrorType DEF TypeOK
<1> QED
  BY <1>1, <1>2 DEF cleanupKeyErrors

-----------------------------------------------------------------------------
(***************************************************************************)
(* Type correctness.                                                       *)
(***************************************************************************)

StickyType == [Sessions -> [key: KeyIds \cup {NoKey}, left: Int]]

\* The state in which NewRuntimeStore leaves the store is well typed (94-128).
LEMMA InitTypeOK == Init => TypeOK
<1> SUFFICES ASSUME Init PROVE TypeOK
  OBVIOUS
<1>1. ZeroState \in ErrorStateType
  BY MaxAgeAssumption DEF ZeroState, ErrorStateType
<1> QED
  BY <1>1 DEF Init, TypeOK, PCs, NoEntry

\* A grant, whichever path it takes (runtime_store.go:478-491).
LEMMA GrantTypeOK ==
    ASSUME TypeOK, NEW r \in Requests, NEW k \in KeyIds,
           Loop(r), acquireManaged(r, k), noSignal
    PROVE  TypeOK'
<1>1. cfg.ttl \in Int
  BY EnabledKeys DEF ConfigType
<1>2. sticky' \in StickyType
  <2>1. cleanupSticky \in StickyType
    BY CleanupTypes DEF StickyType
  <2>2. SessionOf[r] \in Sessions /\ [key |-> k, left |-> cfg.ttl] \in [key: KeyIds \cup {NoKey}, left: Int]
    BY <1>1, SessionsAssumption
  <2>3. [cleanupSticky EXCEPT ![SessionOf[r]] = [key |-> k, left |-> cfg.ttl]] \in StickyType
    BY <2>1, <2>2 DEF StickyType
  <2> QED
    BY <2>1, <2>3 DEF acquireManaged
<1>3. keyErrors' \in [KeyIds -> ErrorStateType]
  BY CleanupTypes DEF Loop
<1>4. active' \in [KeyIds -> Nat]
  BY DEF TypeOK, acquireManaged
<1>5. pc' \in [Requests -> PCs] /\ left' \in [Requests -> Nat]
  BY DEF TypeOK, acquireManaged, PCs
<1>6. stickyWaited' \in [Requests -> BOOLEAN] /\ leaseKey' \in [Requests -> KeyIds \cup {NoKey}]
  BY DEF TypeOK, acquireManaged
<1> QED
  BY <1>2, <1>3, <1>4, <1>5, <1>6 DEF TypeOK, StickyType, Loop, acquireManaged, noSignal

\* A request that finds no slot captures the channel and waits.
LEMMA ParkTypeOK ==
    ASSUME TypeOK, NEW r \in Requests, NEW k \in KeyIds \cup {NoKey},
           Loop(r), park(r, k)
    PROVE  TypeOK'
<1>1. sticky' \in StickyType /\ keyErrors' \in [KeyIds -> ErrorStateType]
  BY CleanupTypes DEF Loop, park, StickyType
<1> QED
  BY <1>1 DEF TypeOK, StickyType, Loop, park, PCs

\* Nothing but time and reloads changes what is left of these variables.
LEMMA StepTypeOK == TypeOK /\ [Next]_vars => TypeOK'
<1> SUFFICES ASSUME TypeOK, [Next]_vars PROVE TypeOK'
  OBVIOUS
<1>1. ASSUME NEW r \in Requests, Arrive(r) PROVE TypeOK'
  <2>1. cfg.timeout \in Nat
    BY EnabledKeys DEF ConfigType
  <2> QED
    BY <1>1, <2>1 DEF TypeOK, Arrive, noSignal, storeVars, PCs
<1>2. ASSUME NEW r \in Requests, Attempt(r) PROVE TypeOK'
  <2>1. CASE NoManagedKeys(r)
    <3>1. sticky' \in StickyType /\ keyErrors' \in [KeyIds -> ErrorStateType]
      BY <2>1, CleanupTypes DEF NoManagedKeys, Loop, StickyType
    <3> QED
      BY <2>1, <3>1 DEF TypeOK, StickyType, NoManagedKeys, Loop, fail, PCs
  <2>2. CASE FollowSticky(r)
    BY <2>2, ChosenKeys, GrantTypeOK DEF FollowSticky
  <2>3. CASE SkipSticky(r)
    <3>1. sticky' \in StickyType /\ keyErrors' \in [KeyIds -> ErrorStateType]
      BY <2>3, CleanupTypes DEF SkipSticky, Loop, StickyType
    <3> QED
      BY <2>3, <3>1 DEF TypeOK, StickyType, SkipSticky, Loop, noSignal, PCs
  <2>4. CASE WaitForSticky(r)
    BY <2>4, ChosenKeys, ParkTypeOK DEF WaitForSticky
  <2>5. CASE Balance(r)
    BY <2>5, ChosenKeys, GrantTypeOK DEF Balance
  <2>6. CASE WaitForAny(r)
    BY <2>6, ParkTypeOK DEF WaitForAny
  <2> QED
    BY <1>2, <2>1, <2>2, <2>3, <2>4, <2>5, <2>6 DEF Attempt
<1>3. ASSUME NEW r \in Requests, EndWait(r) \/ WaitCanceled(r) PROVE TypeOK'
  <2>1. CASE WakeUp(r)
    BY <2>1 DEF TypeOK, WakeUp, storeVars, PCs
  <2>2. CASE StickyTimeout(r)
    BY <2>2 DEF TypeOK, StickyTimeout, storeVars, PCs
  <2>3. CASE QueueTimeout(r) \/ WaitCanceled(r)
    <3>1. fail(r) /\ UNCHANGED storeVars
      BY <2>3 DEF QueueTimeout, WaitCanceled
    <3>2. pc' \in [Requests -> PCs] /\ left' \in [Requests -> Nat]
      BY <3>1 DEF TypeOK, fail, PCs
    <3>3. /\ stickyWaited' \in [Requests -> BOOLEAN]
          /\ waitFor' \in [Requests -> KeyIds \cup {NoKey}]
          /\ woken' \in [Requests -> BOOLEAN]
      BY <3>1 DEF TypeOK, fail
    <3> QED
      BY <3>1, <3>2, <3>3 DEF TypeOK, fail, storeVars
  <2> QED
    BY <1>3, <2>1, <2>2, <2>3 DEF EndWait
<1>4. ASSUME NEW r \in Requests, Release(r) PROVE TypeOK'
  <2>1. active' \in [KeyIds -> Nat]
    <3>1. active' = [active EXCEPT ![leaseKey[r]] = IF @ > 0 THEN @ - 1 ELSE @]
      BY <1>4 DEF Release, releaseManaged
    <3>2. \A n \in Nat : (IF n > 0 THEN n - 1 ELSE n) \in Nat
      OBVIOUS
    <3> QED
      BY <3>1, <3>2 DEF TypeOK
  <2>2. woken' \in [Requests -> BOOLEAN] /\ lapsed' \in SUBSET KeyIds
    BY <1>4 DEF Release, releaseManaged, signal, TypeOK
  <2> QED
    BY <1>4, <2>1, <2>2 DEF TypeOK, Release, PCs
<1>5. ASSUME NEW r \in Requests, ReadErrorConfig(r) PROVE TypeOK'
  BY <1>5 DEF TypeOK, ReadErrorConfig, noSignal, storeVars, PCs
<1>6. ASSUME NEW r \in Requests, RecordKeyError(r) PROVE TypeOK'
  <2>1. keyErrors' \in [KeyIds -> ErrorStateType]
    <3>1. CASE UNCHANGED keyErrors
      BY <3>1 DEF TypeOK
    <3>2. CASE \E c \in seenCfg[r] :
                 keyErrors' = [keyErrors EXCEPT ![leaseKey[r]] = AfterError(@, c)]
      <4>1. PICK c \in seenCfg[r] :
                 keyErrors' = [keyErrors EXCEPT ![leaseKey[r]] = AfterError(@, c)]
        BY <3>2
      <4>2. c \in ConfigType
        BY ConfigsAssumption DEF TypeOK
      <4>3. \A k \in KeyIds : AfterError(keyErrors[k], c) \in ErrorStateType
        BY <4>2, AfterErrorType DEF TypeOK
      <4> QED
        BY <4>1, <4>3 DEF TypeOK
    <3> QED
      BY <1>6, <3>1, <3>2 DEF RecordKeyError
  <2> QED
    BY <1>6, <2>1 DEF TypeOK, RecordKeyError, noSignal, signal, PCs
<1>7. ASSUME NEW k \in KeyIds, ResetKeyBackoff(k) PROVE TypeOK'
  <2>1. keyErrors' \in [KeyIds -> ErrorStateType]
    BY <1>7, AfterResetType DEF ResetKeyBackoff, TypeOK
  <2> QED
    BY <1>7, <2>1 DEF TypeOK, ResetKeyBackoff, signal, requestVars
<1>8. ASSUME NEW c \in Configs, NEW f \in KeyFiles, Reload(c, f) PROVE TypeOK'
  <2>1. sticky' \in StickyType /\ keyErrors' \in [KeyIds -> ErrorStateType]
    BY <1>8, CleanupTypes DEF Reload, StickyType
  <2> QED
    BY <1>8, <2>1 DEF TypeOK, StickyType, Reload, signal, requestVars
<1>9. ASSUME Status PROVE TypeOK'
  <2>1. sticky' \in StickyType
    BY <1>9, CleanupTypes DEF Status, StickyType
  <2> QED
    BY <1>9, <2>1 DEF TypeOK, StickyType, Status, noSignal, requestVars
<1>10. ASSUME Tick PROVE TypeOK'
  <2>1. keyErrors' \in [KeyIds -> ErrorStateType]
    BY <1>10, OlderType DEF Tick, TypeOK
  <2>2. sticky' \in StickyType
    <3>1. ASSUME NEW s \in Sessions
          PROVE  [sticky[s] EXCEPT !.left = Sooner(@)] \in [key: KeyIds \cup {NoKey}, left: Int]
      BY DEF TypeOK, Sooner
    <3> QED
      BY <1>10, <3>1 DEF Tick, StickyType
  <2>3. left' \in [Requests -> Nat]
    BY <1>10 DEF Tick, TypeOK
  <2> QED
    BY <1>10, <2>1, <2>2, <2>3 DEF TypeOK, StickyType, Tick
<1>11. ASSUME LegacySignal PROVE TypeOK'
  BY <1>11 DEF TypeOK, LegacySignal, signal, storeVars, requestVars
<1>12. ASSUME UNCHANGED vars PROVE TypeOK'
  BY <1>12 DEF TypeOK, vars, storeVars, requestVars
<1> QED
  BY <1>1, <1>2, <1>3, <1>4, <1>5, <1>6, <1>7, <1>8, <1>9, <1>10, <1>11, <1>12
     DEF Next, RequestStep, StoreStep

\* The types of RuntimeStore's fields hold in every run: TypeOK.
THEOREM TypeCorrect == Spec => []TypeOK
  BY InitTypeOK, StepTypeOK, PTL DEF Spec

-----------------------------------------------------------------------------
(***************************************************************************)
(* What the steps of a request do to its lease and to the counts.  A step  *)
(* gives it a slot, takes one back, or leaves both alone.                  *)
(***************************************************************************)

\* r has been given a slot of k.
Granted(r, k) ==
    /\ pc[r] = "trying"
    /\ k \in Enabled
    /\ Usable(k)
    /\ StickyKey(r) \in {k, NoKey}
    /\ Loop(r)
    /\ acquireManaged(r, k)

\* r has given its slot back.
Returned(r) ==
    /\ pc[r] \in {"leased", "recorded"}
    /\ releaseManaged(leaseKey[r])
    /\ pc' = [pc EXCEPT ![r] = "idle"]
    /\ leaseKey' = [leaseKey EXCEPT ![r] = NoKey]
    /\ UNCHANGED <<cfg, keyFile, keyErrors>>

\* No slot changes hands.
Kept ==
    /\ active' = active
    /\ leaseKey' = leaseKey
    /\ \A r \in Requests : Leased(r)' <=> Leased(r)

\* Every step hands out one slot, takes one back, or leaves counts and leases
\* alone: the critical sections of s.mu seen from the leases.
LEMMA LeaseSteps ==
    TypeOK /\ [Next]_vars =>
        \/ Kept
        \/ \E r \in Requests : Returned(r)
        \/ \E r \in Requests, k \in KeyIds : Granted(r, k)
<1> SUFFICES ASSUME TypeOK, [Next]_vars
             PROVE  \/ Kept
                    \/ \E r \in Requests : Returned(r)
                    \/ \E r \in Requests, k \in KeyIds : Granted(r, k)
  OBVIOUS
<1>1. ASSUME NEW r \in Requests, RequestStep(r)
      PROVE  Kept \/ Returned(r) \/ \E k \in KeyIds : Granted(r, k)
  <2>1. CASE FollowSticky(r)
    <3>1. Granted(r, StickyKey(r))
      BY <2>1, ChosenKeys DEF FollowSticky, Loop, Granted
    <3> QED
      BY <2>1, <3>1, ChosenKeys DEF FollowSticky
  <2>2. CASE Balance(r)
    BY <2>2, ChosenKeys DEF Balance, Loop, Granted, Available
  <2>3. CASE Release(r)
    BY <2>3 DEF Release, Returned
  <2>4. CASE \/ Arrive(r) \/ NoManagedKeys(r) \/ SkipSticky(r) \/ WaitForSticky(r)
             \/ WaitForAny(r) \/ EndWait(r) \/ WaitCanceled(r)
             \/ ReadErrorConfig(r) \/ RecordKeyError(r)
    <3>1. active' = active /\ leaseKey' = leaseKey
      BY <2>4 DEF Arrive, NoManagedKeys, SkipSticky, WaitForSticky, WaitForAny, EndWait,
                  WaitCanceled, ReadErrorConfig, RecordKeyError, WakeUp, StickyTimeout,
                  QueueTimeout, fail, park, storeVars
    <3>2. \/ pc' = pc
          \/ \E p \in PCs \ {"leased", "recording", "recorded"} :
               pc' = [pc EXCEPT ![r] = p] /\ ~ Leased(r)
          \/ \E p \in {"recording", "recorded"} :
               pc' = [pc EXCEPT ![r] = p] /\ Leased(r)
      BY <2>4 DEF Arrive, NoManagedKeys, SkipSticky, WaitForSticky, WaitForAny, EndWait,
                  WaitCanceled, ReadErrorConfig, RecordKeyError, WakeUp, StickyTimeout,
                  QueueTimeout, fail, park, Loop, Leased, PCs
    <3>3. \A q \in Requests : Leased(q)' <=> Leased(q)
      BY <3>2 DEF Leased, TypeOK, PCs
    <3> QED
      BY <3>1, <3>3 DEF Kept
  <2> QED
    BY <1>1, <2>1, <2>2, <2>3, <2>4 DEF RequestStep, Attempt
<1>2. ASSUME StoreStep \/ UNCHANGED vars PROVE Kept
  <2>1. active' = active /\ leaseKey' = leaseKey /\ pc' = pc
    BY <1>2 DEF StoreStep, ResetKeyBackoff, Reload, Status, LegacySignal, Tick, vars, storeVars, requestVars
  <2> QED
    BY <2>1 DEF Kept, Leased
<1> QED
  BY <1>1, <1>2 DEF Next

-----------------------------------------------------------------------------
(***************************************************************************)
(* Slots and leases.                                                       *)
(***************************************************************************)

\* A lease names a key, so that its release finds the count it has raised.
LeasesNameKeys == \A r \in Requests : Leased(r) => leaseKey[r] \in KeyIds

LeaseInv == TypeOK /\ LeasesNameKeys /\ LeasesAccounted

\* The leases on a key are finitely many.
LEMMA LeasesFinite ==
    ASSUME NEW k
    PROVE  IsFiniteSet(Leases(k)) /\ Cardinality(Leases(k)) \in Nat
<1>1. Leases(k) \subseteq Requests
  BY DEF Leases
<1> QED
  BY <1>1, RequestsAssumption, FS_Subset, FS_CardinalityType

\* A new store has no lease and every count is zero.
LEMMA LeaseInit == Init => LeaseInv
<1> SUFFICES ASSUME Init PROVE LeaseInv
  OBVIOUS
<1>1. \A r \in Requests : ~ Leased(r)
  BY DEF Init, Leased
<1>2. \A k \in KeyIds : Leases(k) = {}
  BY <1>1 DEF Leases
<1>3. \A k \in KeyIds : active[k] = 0
  BY DEF Init
<1> QED
  BY <1>1, <1>2, <1>3, InitTypeOK, FS_EmptySet DEF LeaseInv, LeasesNameKeys, LeasesAccounted

\* A step that moves a lease moves the count of its key by as much
\* (acquireManagedLocked 478-491, releaseManaged 466-476).
LEMMA LeaseStep == LeaseInv /\ [Next]_vars => LeaseInv'
<1> SUFFICES ASSUME LeaseInv, [Next]_vars
             PROVE  LeasesNameKeys' /\ LeasesAccounted'
  BY StepTypeOK DEF LeaseInv
<1>a. TypeOK /\ LeasesNameKeys /\ LeasesAccounted
  BY DEF LeaseInv
<1>b. \A r \in Requests, k \in KeyIds : r \in Leases(k) <=> Leased(r) /\ leaseKey[r] = k
  BY DEF Leases
<1>c. \A r \in Requests, k \in KeyIds : r \in Leases(k)' <=> Leased(r)' /\ leaseKey'[r] = k
  BY DEF Leases
<1>1. CASE Kept
  <2>1. \A k \in KeyIds : Leases(k)' = Leases(k)
    BY <1>1, <1>b, <1>c DEF Kept, Leases
  <2> QED
    BY <1>1, <1>a, <2>1 DEF Kept, LeasesNameKeys, LeasesAccounted
<1>2. ASSUME NEW r \in Requests, Returned(r)
      PROVE  LeasesNameKeys' /\ LeasesAccounted'
  <2> DEFINE k == leaseKey[r]
  <2>1. /\ Leased(r) /\ ~ Leased(r)'
        /\ \A q \in Requests \ {r} : (Leased(q)' <=> Leased(q)) /\ leaseKey'[q] = leaseKey[q]
    BY <1>2, <1>a DEF Returned, Leased, TypeOK
  <2>2. k \in KeyIds
    BY <2>1, <1>a DEF LeasesNameKeys
  <2>3. LeasesNameKeys'
    BY <2>1, <1>a DEF LeasesNameKeys
  <2>4. active' = [active EXCEPT ![k] = IF @ > 0 THEN @ - 1 ELSE @]
    BY <1>2 DEF Returned, releaseManaged
  <2> HIDE DEF k
  <2>5. ASSUME NEW j \in KeyIds PROVE active'[j] = Cardinality(Leases(j)')
    <3>1. CASE j = k
      <4>1. r \in Leases(j)
        BY <3>1, <2>1, <1>b DEF k
      <4>2. Leases(j)' = Leases(j) \ {r}
        BY <3>1, <2>1, <1>b, <1>c DEF Leases
      <4>3. Cardinality(Leases(j)') = Cardinality(Leases(j)) - 1
        BY <4>1, <4>2, LeasesFinite, FS_RemoveElement
      <4>4. active[j] = Cardinality(Leases(j)) /\ active[j] \in Nat /\ active[j] # 0
        BY <4>1, <1>a, LeasesFinite, FS_EmptySet DEF LeasesAccounted, TypeOK
      <4> QED
        BY <3>1, <2>4, <4>3, <4>4, <1>a DEF TypeOK
    <3>2. CASE j # k
      <4>1. r \notin Leases(j)
        BY <3>2, <1>b DEF k
      <4>2. Leases(j)' = Leases(j)
        BY <4>1, <2>1, <1>b, <1>c DEF Leases
      <4> QED
        BY <3>2, <2>4, <4>2, <1>a DEF TypeOK, LeasesAccounted
    <3> QED
      BY <3>1, <3>2
  <2> QED
    BY <2>3, <2>5 DEF LeasesAccounted
<1>3. ASSUME NEW r \in Requests, NEW k \in KeyIds, Granted(r, k)
      PROVE  LeasesNameKeys' /\ LeasesAccounted'
  <2>1. /\ ~ Leased(r) /\ Leased(r)' /\ leaseKey'[r] = k
        /\ \A q \in Requests \ {r} : (Leased(q)' <=> Leased(q)) /\ leaseKey'[q] = leaseKey[q]
    BY <1>3, <1>a DEF Granted, acquireManaged, Leased, TypeOK
  <2>2. LeasesNameKeys'
    BY <2>1, <1>a DEF LeasesNameKeys
  <2>3. active' = [active EXCEPT ![k] = @ + 1]
    BY <1>3 DEF Granted, acquireManaged
  <2>4. ASSUME NEW j \in KeyIds PROVE active'[j] = Cardinality(Leases(j)')
    <3>1. r \notin Leases(j)
      BY <2>1, <1>b
    <3>2. Leases(j)' = IF j = k THEN Leases(j) \cup {r} ELSE Leases(j)
      BY <3>1, <2>1, <1>b, <1>c DEF Leases
    <3>3. Cardinality(Leases(j) \cup {r}) = Cardinality(Leases(j)) + 1
      BY <3>1, LeasesFinite, FS_AddElement
    <3> QED
      BY <2>3, <3>2, <3>3, <1>a DEF TypeOK, LeasesAccounted
  <2> QED
    BY <2>2, <2>4 DEF LeasesAccounted
<1> QED
  BY <1>1, <1>2, <1>3, <1>a, LeaseSteps

\* No slot leaks and none is returned twice, whatever the reloads do:
\* The count of a key is the number of leases on it, whatever reloads do to the
\* key file meanwhile: LeasesAccounted.
THEOREM LeasesAccountedCorrect == Spec => []LeasesAccounted
<1>1. LeaseInv => LeasesAccounted
  BY DEF LeaseInv
<1> QED
  BY <1>1, LeaseInit, LeaseStep, PTL DEF Spec

\* A slot is only given for an enabled key that is not cooling down and has
\* room under the limit in force: GrantsWithinLimit.
THEOREM GrantsWithinLimitCorrect == Spec => GrantsWithinLimit
<1> DEFINE Grant == \A k \in KeyIds : active'[k] > active[k] =>
                        /\ k \in Enabled
                        /\ ~ isKeyInBackoff(k)
                        /\ active'[k] <= keyLimit(k)
<1>1. TypeOK /\ [Next]_vars => Grant
  <2> SUFFICES ASSUME TypeOK, [Next]_vars,
                      NEW j \in KeyIds, active'[j] > active[j]
               PROVE  j \in Enabled /\ ~ isKeyInBackoff(j) /\ active'[j] <= keyLimit(j)
    OBVIOUS
  <2>a. active \in [KeyIds -> Nat]
    BY DEF TypeOK
  <2>1. CASE Kept
    BY <2>1, <2>a DEF Kept
  <2>2. ASSUME NEW r \in Requests, Returned(r) PROVE FALSE
    BY <2>2, <2>a DEF Returned, releaseManaged
  <2>3. ASSUME NEW r \in Requests, NEW k \in KeyIds, Granted(r, k)
        PROVE  j \in Enabled /\ ~ isKeyInBackoff(j) /\ active'[j] <= keyLimit(j)
    <3>1. active' = [active EXCEPT ![k] = @ + 1]
      BY <2>3 DEF Granted, acquireManaged
    <3>2. j = k /\ active'[j] = active[j] + 1
      BY <3>1, <2>a
    <3>3. /\ k \in Enabled
          /\ ~ isKeyInBackoff(k)
          /\ active[k] < keyLimit(k)
          /\ keyLimit(k) \in Nat
      BY <2>3, EnabledKeys DEF Granted, Usable, canAcquire
    <3> QED
      BY <3>2, <3>3, <2>a
  <2> QED
    BY <2>1, <2>2, <2>3, LeaseSteps
<1>2. Spec => [][Grant]_vars
  BY <1>1, TypeCorrect, PTL DEF Spec
<1> QED
  BY <1>2 DEF GrantsWithinLimit

\* N is no less than any limit an operator may set.
LimitsAtMost(N) ==
    /\ \A c \in Configs : c.limit <= N
    /\ \A f \in KeyFiles : \A k \in DOMAIN f : f[k].limit <= N

LeasesAtMost(N) == \A k \in KeyIds : Cardinality(Leases(k)) <= N

\* However the limits of a key change while it is leased, it never carries more
\* requests than the largest of them: a lowered limit may be exceeded by the
\* leases that were there before, and by nothing else (408, 505).
THEOREM LeasesBounded ==
    ASSUME NEW N \in Nat, LimitsAtMost(N)
    PROVE  Spec => []LeasesAtMost(N)
<1> DEFINE Within == \A k \in KeyIds : active[k] <= N
<1>1. Init => Within
  BY DEF Init
<1>2. TypeOK /\ Within /\ [Next]_vars => Within'
  <2> SUFFICES ASSUME TypeOK, Within, [Next]_vars, NEW j \in KeyIds
               PROVE  active'[j] <= N
    OBVIOUS
  <2>a. active \in [KeyIds -> Nat]
    BY DEF TypeOK
  <2>1. CASE Kept
    BY <2>1 DEF Kept
  <2>2. ASSUME NEW r \in Requests, Returned(r) PROVE active'[j] <= N
    BY <2>2, <2>a DEF Returned, releaseManaged
  <2>3. ASSUME NEW r \in Requests, NEW k \in KeyIds, Granted(r, k)
        PROVE  active'[j] <= N
    <3>1. active' = [active EXCEPT ![k] = @ + 1]
      BY <2>3 DEF Granted, acquireManaged
    <3>2. k \in Enabled /\ active[k] < keyLimit(k) /\ keyLimit(k) \in Nat
      BY <2>3, EnabledKeys DEF Granted, Usable, canAcquire
    <3>3. keyLimit(k) <= N
      BY <3>2 DEF LimitsAtMost, TypeOK, Enabled, keyLimit
    <3>4. active[k] + 1 <= N
      BY <3>2, <3>3, <2>a
    <3> QED
      BY <3>1, <3>4, <2>a
  <2> QED
    BY <2>1, <2>2, <2>3, LeaseSteps
<1>3. Within /\ LeasesAccounted => LeasesAtMost(N)
  BY DEF LeasesAccounted, LeasesAtMost
<1> QED
  BY <1>1, <1>2, <1>3, TypeCorrect, LeasesAccountedCorrect, PTL DEF Spec

-----------------------------------------------------------------------------
(***************************************************************************)
(* Wakeups.  A waiter that has not been woken is settled: it has nothing   *)
(* to be woken for.  A step that signals leaves no such waiter; one that   *)
(* does not leaves the settled ones settled, since counts only rise and    *)
(* backoffs only end, which lapsed records.                                *)
(***************************************************************************)

Settled(r) ==
    IF waitFor[r] = NoKey
      THEN \A k \in Enabled : Usable(k) => k \in lapsed
      ELSE waitFor[r] \in Enabled /\ ~ canAcquire(waitFor[r]) /\ ~ isKeyInBackoff(waitFor[r])

\* The step frees no slot and ends no backoff.
Steady ==
    /\ UNCHANGED <<cfg, keyFile, lapsed>>
    /\ \A k \in KeyIds : active'[k] >= active[k]
    /\ \A k \in KeyIds : InBackoff(keyErrors'[k]) <=> InBackoff(keyErrors[k])

\* Who had to wait before a step that frees nothing has to wait after it.
LEMMA SettledBySteady ==
    ASSUME TypeOK, TypeOK', Steady, NEW r \in Requests, Settled(r), waitFor'[r] = waitFor[r]
    PROVE  Settled(r)'
<1>1. Enabled' = Enabled /\ \A k \in Enabled : keyLimit(k)' = keyLimit(k)
  BY DEF Steady, Enabled, keyLimit
<1>2. \A k \in Enabled : k \in KeyIds /\ keyLimit(k) \in Nat
  BY EnabledKeys
<1>3. \A k \in Enabled : (canAcquire(k)' => canAcquire(k)) /\ (isKeyInBackoff(k)' <=> isKeyInBackoff(k))
  BY <1>1, <1>2 DEF Steady, canAcquire, isKeyInBackoff, TypeOK
<1>4. lapsed' = lapsed
  BY DEF Steady
<1> QED
  BY <1>1, <1>3, <1>4 DEF Settled, Usable

\* The conditions under which a request starts to wait.
LEMMA SettledByPark ==
    ASSUME TypeOK, TypeOK', NEW r \in Requests, WaitForSticky(r) \/ WaitForAny(r)
    PROVE  Settled(r)'
<1>1. /\ UNCHANGED <<cfg, keyFile, active, lapsed>>
      /\ \A k \in KeyIds : InBackoff(keyErrors'[k]) <=> InBackoff(keyErrors[k])
  BY CleanupTypes DEF WaitForSticky, WaitForAny, Loop, park
<1>2. /\ Enabled' = Enabled
      /\ \A k \in KeyIds : /\ canAcquire(k)' <=> canAcquire(k)
                          /\ isKeyInBackoff(k)' <=> isKeyInBackoff(k)
  BY <1>1 DEF Enabled, canAcquire, keyLimit, isKeyInBackoff
<1>3. CASE WaitForSticky(r)
  <2>1. waitFor'[r] = StickyKey(r)
    BY <1>3 DEF WaitForSticky, park, TypeOK
  <2>2. /\ StickyKey(r) \in Enabled /\ StickyKey(r) \in KeyIds /\ StickyKey(r) # NoKey
        /\ ~ canAcquire(StickyKey(r)) /\ ~ isKeyInBackoff(StickyKey(r))
    BY <1>3, ChosenKeys DEF WaitForSticky
  <2> QED
    BY <1>1, <1>2, <2>1, <2>2 DEF Settled, canAcquire, keyLimit, isKeyInBackoff
<1>4. CASE WaitForAny(r)
  <2>1. waitFor'[r] = NoKey /\ \A k \in Enabled : ~ Usable(k)
    BY <1>4 DEF WaitForAny, park, TypeOK, Available
  <2>2. \A k \in Enabled : k \in KeyIds
    BY ChosenKeys
  <2>3. ASSUME NEW k \in Enabled, Usable(k)' PROVE FALSE
    <3>1. canAcquire(k) /\ ~ isKeyInBackoff(k)
      BY <1>1, <2>2, <2>3 DEF Usable, canAcquire, keyLimit, isKeyInBackoff
    <3> QED
      BY <2>1, <3>1 DEF Usable
  <2> QED
    BY <1>2, <2>1, <2>3 DEF Settled
<1> QED
  BY <1>3, <1>4

\* Time wakes nobody and says so in lapsed.
LEMMA SettledByTick ==
    ASSUME TypeOK, TypeOK', Tick, NEW r \in Requests, Settled(r)
    PROVE  Settled(r)'
<1>1. /\ UNCHANGED <<cfg, keyFile, active, waitFor>>
      /\ lapsed' = lapsed \cup {k \in KeyIds : keyErrors[k].until = 1}
      /\ \A k \in KeyIds : keyErrors'[k] = Older(keyErrors[k])
  BY DEF Tick
<1>2. Enabled' = Enabled /\ \A k \in Enabled : k \in KeyIds /\ (canAcquire(k)' <=> canAcquire(k))
  BY <1>1, EnabledKeys DEF Enabled, canAcquire, keyLimit
<1>3. \A k \in KeyIds : /\ isKeyInBackoff(k)' => isKeyInBackoff(k)
                        /\ isKeyInBackoff(k) /\ ~ isKeyInBackoff(k)' => k \in lapsed'
  BY <1>1, OlderType DEF isKeyInBackoff, TypeOK
<1> QED
  BY <1>1, <1>2, <1>3 DEF Settled, Usable

\* A step leaves nobody asleep beside a slot: it closes the channel, or what it
\* changes gives the waiters no slot.
LEMMA WakeupStep == TypeOK /\ NoLostWakeup /\ [Next]_vars => NoLostWakeup'
<1> SUFFICES ASSUME TypeOK, NoLostWakeup, [Next]_vars,
                    NEW q \in Requests, Waiting(q)', ~ woken'[q]
             PROVE  Settled(q)'
  BY DEF NoLostWakeup, Settled
<1>a. TypeOK'
  BY StepTypeOK
<1>b. Waiting(q) /\ ~ woken[q] => Settled(q)
  BY DEF NoLostWakeup, Settled
<1>c. ASSUME signal, pc'[q] = pc[q] PROVE FALSE
  BY <1>c DEF signal, Waiting
<1>1. ASSUME NEW r \in Requests, RequestStep(r) PROVE Settled(q)'
  <2>1. CASE WaitForSticky(r) \/ WaitForAny(r)
    <3>1. CASE q = r
      BY <2>1, <3>1, <1>a, SettledByPark
    <3>2. CASE q # r
      <4>1. pc'[q] = pc[q] /\ woken'[q] = woken[q] /\ waitFor'[q] = waitFor[q]
        BY <2>1, <3>2 DEF WaitForSticky, WaitForAny, park, TypeOK
      <4>2. Steady
        BY <2>1, CleanupTypes DEF Steady, WaitForSticky, WaitForAny, Loop, park, TypeOK
      <4> QED
        BY <4>1, <4>2, <1>a, <1>b, SettledBySteady DEF Waiting
    <3> QED
      BY <3>1, <3>2
  <2>2. CASE FollowSticky(r) \/ Balance(r)
    <3>1. PICK k \in KeyIds : acquireManaged(r, k) /\ Loop(r) /\ noSignal
      BY <2>2, ChosenKeys DEF FollowSticky, Balance
    <3>2. pc'[r] = "leased" /\ woken' = woken /\ waitFor' = waitFor
      BY <3>1 DEF acquireManaged, noSignal, TypeOK
    <3>3. q # r /\ pc'[q] = pc[q]
      BY <3>1, <3>2 DEF acquireManaged, Waiting, TypeOK
    <3>4. \A j \in KeyIds : active'[j] >= active[j]
      <4>1. active' = [active EXCEPT ![k] = @ + 1] /\ active \in [KeyIds -> Nat]
        BY <3>1 DEF acquireManaged, TypeOK
      <4> QED
        BY <4>1
    <3>5. Steady
      BY <3>1, <3>4, CleanupTypes DEF Steady, Loop, noSignal
    <3> QED
      BY <3>2, <3>3, <3>5, <1>a, <1>b, SettledBySteady DEF Waiting
  <2>3. CASE NoManagedKeys(r) \/ SkipSticky(r)
    <3>1. /\ UNCHANGED <<active, lapsed>> /\ Loop(r)
          /\ pc'[r] \in {"idle", "trying"}
          /\ q # r => pc'[q] = pc[q] /\ woken'[q] = woken[q] /\ waitFor'[q] = waitFor[q]
      BY <2>3 DEF NoManagedKeys, SkipSticky, fail, noSignal, Loop, TypeOK
    <3>2. q # r
      BY <3>1 DEF Waiting
    <3>3. Steady
      BY <3>1, CleanupTypes DEF Steady, Loop, TypeOK
    <3> QED
      BY <3>1, <3>2, <3>3, <1>a, <1>b, SettledBySteady DEF Waiting
  <2>4. CASE \/ Arrive(r) \/ EndWait(r) \/ WaitCanceled(r) \/ ReadErrorConfig(r)
             \/ (RecordKeyError(r) /\ noSignal /\ UNCHANGED keyErrors)
    <3>1. /\ UNCHANGED <<cfg, keyFile, active, keyErrors, lapsed>>
          /\ pc'[r] \in {"idle", "trying", "recording", "recorded"}
          /\ q # r => pc'[q] = pc[q] /\ woken'[q] = woken[q] /\ waitFor'[q] = waitFor[q]
      BY <2>4 DEF Arrive, EndWait, WakeUp, StickyTimeout, QueueTimeout, WaitCanceled,
                  ReadErrorConfig, RecordKeyError, fail, noSignal, storeVars, TypeOK
    <3>2. q # r
      BY <3>1 DEF Waiting
    <3>3. Steady
      BY <3>1 DEF Steady, TypeOK
    <3> QED
      BY <3>1, <3>2, <3>3, <1>a, <1>b, SettledBySteady DEF Waiting
  <2>5. CASE Release(r) \/ (RecordKeyError(r) /\ signal)
    <3>1. /\ signal
          /\ pc'[r] \in {"idle", "recorded"}
          /\ q # r => pc'[q] = pc[q]
      BY <2>5 DEF Release, releaseManaged, RecordKeyError, TypeOK
    <3>2. q # r
      BY <3>1 DEF Waiting
    <3> QED
      BY <3>1, <3>2, <1>c
  <2>6. RecordKeyError(r) => signal \/ (noSignal /\ UNCHANGED keyErrors)
    BY DEF RecordKeyError
  <2> QED
    BY <1>1, <2>1, <2>2, <2>3, <2>4, <2>5, <2>6 DEF RequestStep, Attempt
<1>2. ASSUME \/ \E k \in KeyIds : ResetKeyBackoff(k)
             \/ \E c \in Configs, f \in KeyFiles : Reload(c, f)
             \/ LegacySignal
      PROVE  Settled(q)'
  BY <1>2, <1>c DEF ResetKeyBackoff, Reload, LegacySignal, requestVars
<1>3. ASSUME Status \/ UNCHANGED vars PROVE Settled(q)'
  <2>1. UNCHANGED <<cfg, keyFile, active, keyErrors, lapsed, pc, woken, waitFor>>
    BY <1>3 DEF Status, noSignal, vars, storeVars, requestVars
  <2>2. Steady
    BY <2>1 DEF Steady, TypeOK
  <2> QED
    BY <2>1, <2>2, <1>a, <1>b, SettledBySteady DEF Waiting
<1>4. ASSUME Tick PROVE Settled(q)'
  <2>1. UNCHANGED <<pc, woken>>
    BY <1>4 DEF Tick
  <2> QED
    BY <2>1, <1>4, <1>a, <1>b, SettledByTick DEF Waiting
<1> QED
  BY <1>1, <1>2, <1>3, <1>4 DEF Next, StoreStep

\* No change that frees a slot goes unnoticed by a waiter: NoLostWakeup.
THEOREM NoLostWakeupCorrect == Spec => []NoLostWakeup
<1>1. Init => NoLostWakeup
  BY DEF Init, NoLostWakeup, Waiting
<1>2. TypeOK /\ NoLostWakeup /\ [Next]_vars => (TypeOK /\ NoLostWakeup)'
  BY StepTypeOK, WakeupStep
<1> QED
  BY <1>1, <1>2, InitTypeOK, PTL DEF Spec

-----------------------------------------------------------------------------

\* A session leaves its live, usable sticky key only with a request that has
\* waited its time out or met a backoff: StickyKept.
THEOREM StickyKeptCorrect == Spec => StickyKept
<1> DEFINE KeepsTo(r) ==
        SomeoneAcquires(r) /\ cfg.sticky =>
          LET e == sticky[SessionOf[r]] IN
          e.left > 0 /\ e.key \in Enabled /\ ~ isKeyInBackoff(e.key)
              => leaseKey'[r] = e.key \/ stickyWaited[r]
<1>1. TypeOK /\ [Next]_vars => \A r \in Requests : KeepsTo(r)
  <2> SUFFICES ASSUME TypeOK, [Next]_vars, NEW r \in Requests, SomeoneAcquires(r),
                      cfg.sticky, ~ stickyWaited[r],
                      sticky[SessionOf[r]].left > 0, sticky[SessionOf[r]].key \in Enabled
               PROVE  leaseKey'[r] = sticky[SessionOf[r]].key
    OBVIOUS
  <2>1. StickyKey(r) = sticky[SessionOf[r]].key /\ StickyKey(r) # NoKey
    BY ChosenKeys DEF StickyKey
  <2>2. ASSUME NEW q \in Requests, NEW k \in KeyIds, Granted(q, k)
        PROVE  leaseKey'[r] = sticky[SessionOf[r]].key
    <3>1. q = r
      BY <2>2 DEF Granted, acquireManaged, SomeoneAcquires, Leased, TypeOK
    <3>2. leaseKey'[r] = k
      BY <2>2, <3>1 DEF Granted, acquireManaged, TypeOK
    <3> QED
      BY <2>1, <2>2, <3>1, <3>2 DEF Granted
  <2>3. ~ Kept
    BY DEF Kept, SomeoneAcquires
  <2>4. ASSUME NEW q \in Requests, Returned(q) PROVE FALSE
    BY <2>4 DEF Returned, SomeoneAcquires, Leased, TypeOK
  <2> QED
    BY <2>2, <2>3, <2>4, LeaseSteps
<1>2. Spec => [][\A r \in Requests : KeepsTo(r)]_vars
  BY <1>1, TypeCorrect, PTL DEF Spec
<1> QED
  BY <1>2 DEF StickyKept

-----------------------------------------------------------------------------
(***************************************************************************)
(* GatewayKeys.                                                            *)
(***************************************************************************)

\* The store as the managed requests see it: a step of the gateway is one of
\* KeyPool, or hidden from it.
LEMMA PoolSteps == [GatewayNext]_gatewayVars => [Next]_vars
<1> SUFFICES ASSUME [GatewayNext]_gatewayVars PROVE Next \/ UNCHANGED vars
  OBVIOUS
<1>1. CASE PoolStep
  BY <1>1 DEF PoolStep, ManagedArrive, QuietStep, SignalStep, StoreSignal, Pass, Next,
              RequestStep, StoreStep
<1>2. ASSUME NEW x \in Requests \cup Clients, Ask(x) PROVE UNCHANGED vars
  BY <1>2 DEF Ask
<1>3. ASSUME NEW c \in Clients, LegacyStep(c) PROVE Next \/ UNCHANGED vars
  <2>1. CASE LegacyRelease(c)
    BY <2>1 DEF LegacyRelease, Next, StoreStep
  <2> QED
    BY <1>3, <2>1 DEF LegacyStep, LegacyArrive, LegacyAcquire, LegacyWait, LegacyEndWait,
       LegacyWakeUp, LegacyTimeout, LegacyCanceled, LegacyFail
<1>4. CASE UNCHANGED gatewayVars
  BY <1>4 DEF gatewayVars
<1> QED
  BY <1>1, <1>2, <1>3, <1>4 DEF GatewayNext

\* The clients that bring their own key leave KeyPool intact.
THEOREM GatewayIsPool == GatewaySpec => Spec
<1>1. GatewayInit => Init
  BY DEF GatewayInit
<1> QED
  BY <1>1, PoolSteps, PTL DEF GatewaySpec, Spec

\* In particular no managed request sleeps beside a slot: NoLostWakeup.
THEOREM GatewayNoLostWakeup == GatewaySpec => []NoLostWakeup
  BY GatewayIsPool, NoLostWakeupCorrect, PTL

-----------------------------------------------------------------------------
(***************************************************************************)
(* What a step does to the clients: it gives one a slot, takes one back,   *)
(* or leaves counts and leases alone.                                      *)
(***************************************************************************)

LegacyLeased(c) == lpc[c] = "leased"

LegacyKept ==
    /\ legacyActive' = legacyActive
    /\ \A c \in Clients : LegacyLeased(c)' <=> LegacyLeased(c)

\* A step that closes the channel, and one that changes neither limit nor counts.
LegacyPoolStep ==
    /\ UNCHANGED <<legacyActive, lpc>>
    /\ \/ UNCHANGED lwoken /\ UNCHANGED cfg
       \/ legacySignal

LEMMA PoolStepFacts ==
    ASSUME PoolStep
    PROVE  LegacyPoolStep /\ chosen' \subseteq chosen
           /\ (lleft' = lleft \/ lleft' = [c \in Clients |->
                                    IF lleft[c] > 0 THEN lleft[c] - 1 ELSE lleft[c]])
<1>1. ASSUME NEW r \in Requests, ManagedArrive(r)
      PROVE  LegacyPoolStep /\ chosen' \subseteq chosen /\ lleft' = lleft
  BY <1>1 DEF ManagedArrive, Arrive, legacyVars, storeVars, LegacyPoolStep
<1>2. ASSUME NEW r \in Requests, QuietStep(r), UNCHANGED <<chosen, legacyVars>>
      PROVE  LegacyPoolStep /\ chosen' \subseteq chosen /\ lleft' = lleft
  <2>1. cfg' = cfg
    BY <1>2 DEF QuietStep, Attempt, NoManagedKeys, FollowSticky, SkipSticky, WaitForSticky,
       Balance, WaitForAny, Loop, EndWait, WakeUp, StickyTimeout, QueueTimeout, WaitCanceled,
       ReadErrorConfig, RecordKeyError, storeVars
  <2> QED
    BY <1>2, <2>1 DEF legacyVars, LegacyPoolStep
<1>3. ASSUME NEW r \in Requests, SignalStep(r) /\ legacySignal /\ UNCHANGED <<chosen, legacyActive, lpc, lleft>>
      PROVE  LegacyPoolStep /\ chosen' \subseteq chosen /\ lleft' = lleft
  BY <1>3 DEF LegacyPoolStep
<1>4. ASSUME StoreSignal /\ legacySignal /\ UNCHANGED <<chosen, legacyActive, lpc, lleft>>
      PROVE  LegacyPoolStep /\ chosen' \subseteq chosen /\ lleft' = lleft
  BY <1>4 DEF LegacyPoolStep
<1>5. ASSUME Status /\ UNCHANGED <<chosen, legacyVars>>
      PROVE  LegacyPoolStep /\ chosen' \subseteq chosen /\ lleft' = lleft
  BY <1>5 DEF Status, legacyVars, LegacyPoolStep
<1>6. ASSUME Pass
      PROVE  LegacyPoolStep /\ chosen' \subseteq chosen
             /\ lleft' = [c \in Clients |-> IF lleft[c] > 0 THEN lleft[c] - 1 ELSE lleft[c]]
  BY <1>6 DEF Pass, Tick, LegacyPoolStep
<1> QED
  BY <1>1, <1>2, <1>3, <1>4, <1>5, <1>6 DEF PoolStep

-----------------------------------------------------------------------------

LEMMA GatewayTyped ==
    TypeOK /\ GatewayTypeOK /\ [GatewayNext]_gatewayVars => GatewayTypeOK'
<1> SUFFICES ASSUME TypeOK, GatewayTypeOK, [GatewayNext]_gatewayVars
             PROVE  GatewayTypeOK'
  OBVIOUS
<1>0. cfg.timeout \in Nat
  BY EnabledKeys DEF ConfigType
<1>1. CASE PoolStep
  <2>1. /\ UNCHANGED <<legacyActive, lpc>> /\ chosen' \subseteq chosen
        /\ lwoken' = lwoken \/ legacySignal
        /\ (lleft' = lleft \/ lleft' = [c \in Clients |->
                                    IF lleft[c] > 0 THEN lleft[c] - 1 ELSE lleft[c]])
    BY <1>1, PoolStepFacts DEF LegacyPoolStep
  <2>2. lwoken' \in [Clients -> BOOLEAN]
    BY <2>1 DEF legacySignal, GatewayTypeOK
  <2>3. lleft' \in [Clients -> Nat]
    BY <2>1 DEF GatewayTypeOK
  <2> QED
    BY <2>1, <2>2, <2>3 DEF GatewayTypeOK
<1>2. ASSUME NEW x \in Requests \cup Clients, Ask(x) PROVE GatewayTypeOK'
  BY <1>2 DEF Ask, legacyVars, GatewayTypeOK
<1>3. ASSUME NEW c \in Clients, LegacyStep(c) PROVE GatewayTypeOK'
  <2>1. CASE LegacyRelease(c)
    <3>1. \A n \in Nat : (IF n > 0 THEN n - 1 ELSE n) \in Nat
      OBVIOUS
    <3>2. legacyActive' \in [ClientKeys -> Nat]
      BY <2>1, <3>1 DEF LegacyRelease, GatewayTypeOK
    <3> QED
      BY <2>1, <3>2 DEF LegacyRelease, legacySignal, GatewayTypeOK, LegacyPCs
  <2>2. CASE LegacyArrive(c)
    BY <1>0, <2>2 DEF LegacyArrive, GatewayTypeOK, LegacyPCs
  <2>3. CASE LegacyAcquire(c)
    <3>1. legacyActive' \in [ClientKeys -> Nat]
      <4>1. legacyActive' = [legacyActive EXCEPT ![KeyOf[c]] = @ + 1]
        BY <2>3 DEF LegacyAcquire
      <4>2. legacyActive \in [ClientKeys -> Nat] /\ KeyOf[c] \in ClientKeys
        BY ClientsAssumption DEF GatewayTypeOK
      <4> HIDE DEF GatewayTypeOK
      <4>3. legacyActive[KeyOf[c]] + 1 \in Nat
        BY <4>2
      <4> QED
        BY <4>1, <4>2, <4>3, Zenon
    <3>2. lpc' \in [Clients -> LegacyPCs] /\ lleft' \in [Clients -> Nat]
      BY <2>3 DEF LegacyAcquire, GatewayTypeOK, LegacyPCs
    <3> QED
      BY <2>3, <3>1, <3>2 DEF LegacyAcquire, GatewayTypeOK
  <2>4. CASE LegacyWait(c)
    BY <2>4 DEF LegacyWait, GatewayTypeOK, LegacyPCs
  <2>5. CASE LegacyWakeUp(c)
    BY <2>5 DEF LegacyWakeUp, GatewayTypeOK, LegacyPCs
  <2>6. CASE LegacyFail(c)
    BY <2>6 DEF LegacyFail, GatewayTypeOK, LegacyPCs
  <2> QED
    BY <1>3, <2>1, <2>2, <2>3, <2>4, <2>5, <2>6
       DEF LegacyStep, LegacyEndWait, LegacyTimeout, LegacyCanceled
<1>4. CASE UNCHANGED gatewayVars
  BY <1>4 DEF gatewayVars, legacyVars, GatewayTypeOK
<1> QED
  BY <1>1, <1>2, <1>3, <1>4 DEF GatewayNext

-----------------------------------------------------------------------------
(***************************************************************************)
(* The count of a client's key.                                            *)
(***************************************************************************)

LEMMA LegacyLeasesFinite ==
    ASSUME NEW k PROVE IsFiniteSet(LegacyLeases(k)) /\ Cardinality(LegacyLeases(k)) \in Nat
<1>1. IsFiniteSet(LegacyLeases(k))
  BY ClientsAssumption, FS_Subset DEF LegacyLeases
<1> QED
  BY <1>1, FS_CardinalityType

\* Who neither takes nor returns a slot.
LEMMA KeptAccounted ==
    ASSUME LegacyAccounted, LegacyKept
    PROVE  LegacyAccounted'
<1>1. \A k \in ClientKeys : LegacyLeases(k)' = LegacyLeases(k)
  BY DEF LegacyKept, LegacyLeased, LegacyLeases
<1> QED
  BY <1>1 DEF LegacyKept, LegacyAccounted

LEMMA AcquireAccounted ==
    ASSUME GatewayTypeOK, LegacyAccounted, NEW c \in Clients, LegacyAcquire(c)
    PROVE  LegacyAccounted'
<1> SUFFICES ASSUME NEW k \in ClientKeys PROVE legacyActive'[k] = Cardinality(LegacyLeases(k)')
  BY DEF LegacyAccounted
<1>1. /\ lpc[c] # "leased" /\ lpc'[c] = "leased"
      /\ \A d \in Clients : d # c => lpc'[d] = lpc[d]
  BY DEF LegacyAcquire, GatewayTypeOK
<1>2. legacyActive'[k] = IF k = KeyOf[c] THEN legacyActive[k] + 1 ELSE legacyActive[k]
  BY DEF LegacyAcquire, GatewayTypeOK
<1>3. LegacyLeases(k)' = IF k = KeyOf[c] THEN LegacyLeases(k) \cup {c} ELSE LegacyLeases(k)
  BY <1>1 DEF LegacyLeases
<1>4. c \notin LegacyLeases(k)
  BY <1>1 DEF LegacyLeases
<1>5. Cardinality(LegacyLeases(k) \cup {c}) = Cardinality(LegacyLeases(k)) + 1
  BY <1>4, LegacyLeasesFinite, FS_AddElement
<1> QED
  BY <1>2, <1>3, <1>5 DEF LegacyAccounted

LEMMA ReleaseAccounted ==
    ASSUME GatewayTypeOK, LegacyAccounted, NEW c \in Clients, LegacyRelease(c)
    PROVE  LegacyAccounted'
<1> SUFFICES ASSUME NEW k \in ClientKeys PROVE legacyActive'[k] = Cardinality(LegacyLeases(k)')
  BY DEF LegacyAccounted
<1>1. /\ lpc[c] = "leased" /\ lpc'[c] = "idle"
      /\ \A d \in Clients : d # c => lpc'[d] = lpc[d]
  BY DEF LegacyRelease, GatewayTypeOK
<1>2. legacyActive'[k] = IF k = KeyOf[c] /\ legacyActive[k] > 0 THEN legacyActive[k] - 1
                                                              ELSE legacyActive[k]
  BY DEF LegacyRelease, GatewayTypeOK
<1>3. CASE k = KeyOf[c]
  <2>1. c \in LegacyLeases(k) /\ LegacyLeases(k)' = LegacyLeases(k) \ {c}
    BY <1>1, <1>3 DEF LegacyLeases
  <2>2. Cardinality(LegacyLeases(k)') = Cardinality(LegacyLeases(k)) - 1
    BY <2>1, LegacyLeasesFinite, FS_RemoveElement
  <2>3. legacyActive[k] = Cardinality(LegacyLeases(k)) /\ legacyActive[k] \in Nat /\ legacyActive[k] # 0
    BY <2>1, LegacyLeasesFinite, FS_EmptySet DEF LegacyAccounted, GatewayTypeOK
  <2> QED
    BY <1>2, <1>3, <2>2, <2>3
<1>4. CASE k # KeyOf[c]
  <2>1. LegacyLeases(k)' = LegacyLeases(k)
    BY <1>1, <1>4 DEF LegacyLeases
  <2> QED
    BY <1>2, <1>4, <2>1 DEF LegacyAccounted
<1> QED
  BY <1>3, <1>4
\* A client that has asked and not arrived yet holds nothing.
Choosing == \A c \in Clients : c \in chosen => lpc[c] = "idle"

\* The steps of a client that hold no slot before and after.
LegacyOther(c) ==
    LegacyArrive(c) \/ LegacyWait(c) \/ LegacyEndWait(c) \/ LegacyCanceled(c)

LEMMA OtherFacts ==
    ASSUME GatewayTypeOK, Choosing, NEW c \in Clients, LegacyOther(c)
    PROVE  /\ UNCHANGED <<vars, legacyActive>>
           /\ chosen' \subseteq chosen
           /\ lpc[c] # "leased" /\ lpc'[c] # "leased"
           /\ c \notin chosen \/ c \notin chosen'
           /\ \A d \in Clients : d # c => lpc'[d] = lpc[d] /\ lwoken'[d] = lwoken[d]
           /\ ~ LegacyWait(c) => lpc'[c] \in {"trying", "idle"}
<1>1. CASE LegacyArrive(c)
  BY <1>1 DEF LegacyArrive, Choosing, GatewayTypeOK, LegacyWait
<1>2. CASE LegacyWait(c)
  BY <1>2 DEF LegacyWait, Choosing, GatewayTypeOK
<1>3. CASE LegacyWakeUp(c)
  BY <1>3 DEF LegacyWakeUp, Choosing, GatewayTypeOK
<1>4. CASE LegacyTimeout(c) \/ LegacyCanceled(c)
  BY <1>4 DEF LegacyTimeout, LegacyCanceled, LegacyFail, Choosing, GatewayTypeOK
<1> QED
  BY <1>1, <1>2, <1>3, <1>4 DEF LegacyOther, LegacyEndWait

LEMMA ChoosingStep ==
    GatewayTypeOK /\ Choosing /\ [GatewayNext]_gatewayVars => Choosing'
<1> SUFFICES ASSUME GatewayTypeOK, Choosing, [GatewayNext]_gatewayVars PROVE Choosing'
  OBVIOUS
<1>1. CASE PoolStep
  BY <1>1, PoolStepFacts DEF LegacyPoolStep, Choosing
<1>2. ASSUME NEW x \in Requests \cup Clients, Ask(x) PROVE Choosing'
  BY <1>2, ApartAssumption DEF Ask, legacyVars, Choosing
<1>3. ASSUME NEW c \in Clients, LegacyOther(c) PROVE Choosing'
  BY <1>3, OtherFacts DEF Choosing
<1>4. ASSUME NEW c \in Clients, LegacyAcquire(c) \/ LegacyRelease(c) PROVE Choosing'
  BY <1>4 DEF LegacyAcquire, LegacyRelease, Choosing, GatewayTypeOK
<1>5. CASE UNCHANGED gatewayVars
  BY <1>5 DEF gatewayVars, legacyVars, Choosing
<1> QED
  BY <1>1, <1>2, <1>3, <1>4, <1>5 DEF GatewayNext, LegacyStep, LegacyOther

LEMMA AccountedStep ==
    GatewayTypeOK /\ Choosing /\ LegacyAccounted /\ [GatewayNext]_gatewayVars => LegacyAccounted'
<1> SUFFICES ASSUME GatewayTypeOK, Choosing, LegacyAccounted, [GatewayNext]_gatewayVars
             PROVE  LegacyAccounted'
  OBVIOUS
<1>1. CASE PoolStep
  <2>1. LegacyKept
    BY <1>1, PoolStepFacts DEF LegacyPoolStep, LegacyKept, LegacyLeased
  <2> QED
    BY <2>1, KeptAccounted
<1>2. CASE UNCHANGED gatewayVars \/ \E x \in Requests \cup Clients : Ask(x)
  <2>1. LegacyKept
    BY <1>2 DEF Ask, gatewayVars, legacyVars, LegacyKept, LegacyLeased
  <2> QED
    BY <2>1, KeptAccounted
<1>3. ASSUME NEW c \in Clients, LegacyOther(c) PROVE LegacyAccounted'
  <2>1. LegacyKept
    BY <1>3, OtherFacts DEF LegacyKept, LegacyLeased
  <2> QED
    BY <2>1, KeptAccounted
<1> QED
  BY <1>1, <1>2, <1>3, AcquireAccounted, ReleaseAccounted DEF GatewayNext, LegacyStep, LegacyOther

-----------------------------------------------------------------------------
(***************************************************************************)
(* Wakeups.                                                                *)
(***************************************************************************)

\* Who waits on an open channel.
Asleep(c) == lpc[c] \in {"parked", "late"} /\ ~ lwoken[c]

LEMMA LegacyWakeupStep ==
    ASSUME TypeOK, GatewayTypeOK, Choosing, LegacyNoLostWakeup, [GatewayNext]_gatewayVars
    PROVE  LegacyNoLostWakeup'
<1> SUFFICES ASSUME NEW d \in Clients, Asleep(d)' PROVE ~ HasRoom(KeyOf[d])'
  BY DEF LegacyNoLostWakeup, Asleep
<1>0. /\ Asleep(d) => ~ HasRoom(KeyOf[d])
      /\ KeyOf[d] \in ClientKeys /\ cfg.limit \in Nat
      /\ legacyActive \in [ClientKeys -> Nat]
  BY ClientsAssumption, EnabledKeys DEF LegacyNoLostWakeup, Asleep, ConfigType, GatewayTypeOK
<1>a. ASSUME legacySignal, lpc'[d] = lpc[d] PROVE FALSE
  BY <1>a DEF legacySignal, Asleep
<1>b. ASSUME UNCHANGED <<cfg, legacyActive>>, Asleep(d) PROVE ~ HasRoom(KeyOf[d])'
  BY <1>0, <1>b DEF HasRoom
<1>1. CASE PoolStep
  BY <1>1, <1>a, <1>b, PoolStepFacts DEF LegacyPoolStep, Asleep
<1>2. CASE UNCHANGED gatewayVars \/ \E x \in Requests \cup Clients : Ask(x)
  BY <1>2, <1>b DEF Ask, gatewayVars, legacyVars, vars, storeVars, Asleep
<1>3. ASSUME NEW c \in Clients, LegacyOther(c) PROVE ~ HasRoom(KeyOf[d])'
  <2>1. UNCHANGED <<cfg, legacyActive>>
    BY <1>3, OtherFacts DEF vars, storeVars
  <2>2. CASE d # c
    BY <1>3, <1>b, <2>1, <2>2, OtherFacts DEF Asleep
  <2>3. CASE d = c /\ LegacyWait(c)
    BY <2>1, <2>3 DEF LegacyWait, HasRoom
  <2>4. CASE d = c /\ ~ LegacyWait(c)
    BY <1>3, <2>4, OtherFacts DEF Asleep
  <2> QED
    BY <2>2, <2>3, <2>4
<1>4. ASSUME NEW c \in Clients, LegacyAcquire(c) PROVE ~ HasRoom(KeyOf[d])'
  <2>1. /\ d # c /\ Asleep(d) /\ cfg' = cfg
        /\ legacyActive' = [legacyActive EXCEPT ![KeyOf[c]] = @ + 1]
    BY <1>4 DEF LegacyAcquire, Asleep, GatewayTypeOK, vars, storeVars
  <2>2. legacyActive'[KeyOf[d]] >= legacyActive[KeyOf[d]]
    BY <1>0, <2>1
  <2>3. legacyActive[KeyOf[d]] \in Nat /\ legacyActive'[KeyOf[d]] \in Nat
    BY <1>0, <2>1
  <2> QED
    BY <1>0, <2>1, <2>2, <2>3 DEF HasRoom
<1>5. ASSUME NEW c \in Clients, LegacyRelease(c) PROVE ~ HasRoom(KeyOf[d])'
  <2>1. d # c /\ lpc'[d] = lpc[d] /\ legacySignal
    BY <1>5 DEF LegacyRelease, Asleep, GatewayTypeOK
  <2> QED
    BY <1>a, <2>1
<1> QED
  BY <1>1, <1>2, <1>3, <1>4, <1>5 DEF GatewayNext, LegacyStep, LegacyOther

GatewayInv ==
    TypeOK /\ GatewayTypeOK /\ Choosing /\ LegacyAccounted /\ LegacyNoLostWakeup

LEMMA GatewayInitInv == GatewayInit => GatewayInv
<1> SUFFICES ASSUME GatewayInit PROVE GatewayInv
  OBVIOUS
<1>1. TypeOK
  BY InitTypeOK DEF GatewayInit
<1>2. GatewayTypeOK /\ Choosing /\ LegacyNoLostWakeup
  BY DEF GatewayInit, GatewayTypeOK, LegacyPCs, Choosing, LegacyNoLostWakeup
<1>3. \A k \in ClientKeys : LegacyLeases(k) = {}
  BY DEF GatewayInit, LegacyLeases
<1>4. LegacyAccounted
  BY <1>3, FS_EmptySet DEF GatewayInit, LegacyAccounted
<1> QED
  BY <1>1, <1>2, <1>4 DEF GatewayInv

LEMMA GatewayStepInv == GatewayInv /\ [GatewayNext]_gatewayVars => GatewayInv'
  BY PoolSteps, StepTypeOK, GatewayTyped, ChoosingStep, AccountedStep, LegacyWakeupStep
     DEF GatewayInv

\* The invariant holds throughout.
THEOREM GatewayInvCorrect == GatewaySpec => []GatewayInv
  BY GatewayInitInv, GatewayStepInv, PTL DEF GatewaySpec

\* The types of the store's table of client keys and of the clients: GatewayTypeOK.
THEOREM GatewayTypeCorrect == GatewaySpec => []GatewayTypeOK
<1>1. GatewayInv => GatewayTypeOK
  BY DEF GatewayInv
<1> QED
  BY <1>1, GatewayInvCorrect, PTL

\* No slot of a client's key leaks or is returned twice: LegacyAccounted.
THEOREM LegacyAccountedCorrect == GatewaySpec => []LegacyAccounted
<1>1. GatewayInv => LegacyAccounted
  BY DEF GatewayInv
<1> QED
  BY <1>1, GatewayInvCorrect, PTL

\* In either mode, and through any change of mode and limit, neither a managed
\* key nor a client's own key carries more requests than the largest limit.
THEOREM GatewayLeasesBounded ==
    ASSUME NEW N \in Nat, LimitsAtMost(N)
    PROVE  GatewaySpec => []( /\ LeasesAtMost(N)
                              /\ \A k \in ClientKeys : Cardinality(LegacyLeases(k)) <= N)
<1> DEFINE Within == \A k \in ClientKeys : legacyActive[k] <= N
           Bounded == \A k \in ClientKeys : Cardinality(LegacyLeases(k)) <= N
<1>1. GatewayInit => Within
  BY DEF GatewayInit
<1>2. GatewayInv /\ Within /\ [GatewayNext]_gatewayVars => Within'
  <2> SUFFICES ASSUME TypeOK, GatewayTypeOK, Choosing, Within, [GatewayNext]_gatewayVars
               PROVE  Within'
    BY DEF GatewayInv
  <2>a. legacyActive \in [ClientKeys -> Nat]
    BY DEF GatewayTypeOK
  <2>1. ASSUME NEW c \in Clients, LegacyAcquire(c) PROVE Within'
    <3>1. /\ legacyActive' = [legacyActive EXCEPT ![KeyOf[c]] = @ + 1]
          /\ legacyActive[KeyOf[c]] < cfg.limit
      BY <2>1 DEF LegacyAcquire, HasRoom
    <3>2. cfg.limit \in Nat /\ cfg.limit <= N /\ KeyOf[c] \in ClientKeys
      BY ConfigsAssumption, ClientsAssumption DEF TypeOK, LimitsAtMost, ConfigType
    <3>3. legacyActive[KeyOf[c]] + 1 <= N
      BY <3>1, <3>2, <2>a
    <3> QED
      BY <3>1, <3>3, <2>a
  <2>2. ASSUME NEW c \in Clients, LegacyRelease(c) PROVE Within'
    BY <2>2, <2>a DEF LegacyRelease
  <2>3. CASE legacyActive' = legacyActive
    BY <2>3
  <2>4. CASE PoolStep
    BY <2>3, <2>4, PoolStepFacts DEF LegacyPoolStep
  <2>5. CASE UNCHANGED gatewayVars \/ \E x \in Requests \cup Clients : Ask(x)
    BY <2>3, <2>5 DEF Ask, gatewayVars, legacyVars
  <2>6. ASSUME NEW c \in Clients, LegacyOther(c) PROVE Within'
    BY <2>3, <2>6, OtherFacts
  <2> QED
    BY <2>1, <2>2, <2>4, <2>5, <2>6 DEF GatewayNext, LegacyStep, LegacyOther
<1>3. Within /\ LegacyAccounted => Bounded
  BY DEF LegacyAccounted
<1>4. GatewaySpec => []Bounded
  BY <1>1, <1>2, <1>3, GatewayInvCorrect, LegacyAccountedCorrect, PTL DEF GatewaySpec
<1>5. Spec => []LeasesAtMost(N)
  BY LeasesBounded
<1> QED
  BY <1>4, <1>5, GatewayIsPool, PTL

\* No client sleeps beside a slot of its key, whoever frees it: LegacyNoLostWakeup.
THEOREM LegacyNoLostWakeupCorrect == GatewaySpec => []LegacyNoLostWakeup
<1>1. GatewayInv => LegacyNoLostWakeup
  BY DEF GatewayInv
<1> QED
  BY <1>1, GatewayInvCorrect, PTL

-----------------------------------------------------------------------------
(***************************************************************************)
(* What the upstream sees: GatewayKeys implements KeyUse.  Every step that *)
(* moves a lease starts or stops a request on the key of that lease, and   *)
(* changes nothing that is allowed; every other step is a change of what   *)
(* is allowed, or nothing.                                                 *)
(***************************************************************************)

ManagedKey(k) == <<"managed", k>>
ClientKey(k) == <<"client", k>>

\* The two kinds of keys, apart from each other.
LEMMA KeyKinds ==
    \A x \in AllKeys : \/ \E k \in KeyIds : x = ManagedKey(k)
                       \/ \E k \in ClientKeys : x = ClientKey(k)
  BY DEF AllKeys, ManagedKey, ClientKey

LEMMA ManagedUse ==
    ASSUME NEW k \in KeyIds
    PROVE  /\ ManagedKey(k) \in AllKeys
           /\ Holders(ManagedKey(k)) = Leases(k)
           /\ Allowed(ManagedKey(k)) =
                IF k \in Enabled /\ ~ isKeyInBackoff(k) THEN keyLimit(k) ELSE 0
  BY DEF AllKeys, ManagedKey, Holders, Allowed

LEMMA ClientUse ==
    ASSUME NEW k \in ClientKeys
    PROVE  /\ ClientKey(k) \in AllKeys
           /\ Holders(ClientKey(k)) = LegacyLeases(k)
           /\ Allowed(ClientKey(k)) = cfg.limit
  BY DEF AllKeys, ClientKey, Holders, Allowed

AllowedTyped == AllAllowed \in [AllKeys -> Nat]

LEMMA AllowedType == TypeOK => AllowedTyped
<1> SUFFICES ASSUME TypeOK, NEW x \in AllKeys PROVE Allowed(x) \in Nat
  BY DEF AllAllowed, AllowedTyped
<1>1. cfg.limit \in Nat
  BY EnabledKeys DEF ConfigType
<1>2. \A k \in Enabled : keyLimit(k) \in Nat
  BY EnabledKeys
<1> QED
  BY <1>1, <1>2 DEF Allowed

LEMMA AllowedTypeNext == TypeOK' => AllowedTyped'
  BY AllowedType, PTL

\* Nobody is on two keys at once, or in two places.
LEMMA NobodyTwice ==
    ASSUME NEW x \in AllKeys
    PROVE  /\ Holders(x) \subseteq Requests \cup Clients
           /\ \A r \in Requests : r \in Holders(x) => Leased(r)
           /\ \A c \in Clients : c \in Holders(x) => lpc[c] = "leased"
  BY ApartAssumption DEF Holders, Leases, LegacyLeases

\* The limits that count stay as they are when nothing they are read from changes.
LEMMA AllowedKept ==
    ASSUME cfg' = cfg, keyFile' = keyFile,
           \A k \in KeyIds : isKeyInBackoff(k)' <=> isKeyInBackoff(k)
    PROVE  AllAllowed' = AllAllowed
<1>1. Enabled' = Enabled
  BY DEF Enabled
<1>2. \A k : keyLimit(k)' = keyLimit(k)
  BY DEF keyLimit
<1>3. ASSUME NEW x \in AllKeys PROVE Allowed(x)' = Allowed(x)
  <2>1. CASE x[1] = "client"
    BY <2>1 DEF Allowed
  <2>2. CASE x[1] # "client"
    <3>1. x[2] \in KeyIds
      BY <2>2 DEF AllKeys
    <3>2. isKeyInBackoff(x[2])' <=> isKeyInBackoff(x[2])
      BY <3>1
    <3> QED
      BY <1>1, <1>2, <2>2, <3>2 DEF Allowed
  <2> QED
    BY <2>1, <2>2
<1> QED
  BY <1>3 DEF AllAllowed

\* A step that moves no lease of either kind.
LEMMA ChangeUse ==
    ASSUME TypeOK',
           \A k \in KeyIds : Leases(k)' = Leases(k),
           \A k \in ClientKeys : LegacyLeases(k)' = LegacyLeases(k)
    PROVE  Use!Change
<1>1. AllAllowed' \in [AllKeys -> Nat]
  BY AllowedTypeNext DEF AllowedTyped
<1>2. \A x \in AllKeys : Holders(x)' = Holders(x)
  BY DEF Holders, AllKeys
<1> QED
  BY <1>1, <1>2 DEF Use!Change, AllHolders

\* A step that puts u on the key x.
LEMMA StartUse ==
    ASSUME NEW u \in Requests \cup Clients, NEW x \in AllKeys,
           \A y \in AllKeys : u \notin Holders(y),
           Cardinality(Holders(x)) < Allowed(x),
           \A y \in AllKeys : Holders(y)' = IF y = x THEN Holders(y) \cup {u} ELSE Holders(y),
           AllAllowed' = AllAllowed
    PROVE  Use!Start(u, x)
<1>1. AllHolders' = [AllHolders EXCEPT ![x] = @ \cup {u}]
  BY DEF AllHolders
<1>2. Use!Cardinality(AllHolders[x]) = Cardinality(Holders(x))
  BY DEF AllHolders, Cardinality, Use!Cardinality
<1> QED
  BY <1>1, <1>2 DEF Use!Start, AllHolders, AllAllowed

\* A step that takes u off the key x.
LEMMA StopUse ==
    ASSUME NEW u \in Requests \cup Clients, NEW x \in AllKeys,
           u \in Holders(x),
           \A y \in AllKeys : Holders(y)' = IF y = x THEN Holders(y) \ {u} ELSE Holders(y),
           AllAllowed' = AllAllowed
    PROVE  Use!Stop(u, x)
<1>1. AllHolders' = [AllHolders EXCEPT ![x] = @ \ {u}]
  BY DEF AllHolders
<1> QED
  BY <1>1 DEF Use!Stop, AllHolders, AllAllowed

\* A step of the managed keys, of the requests or of the store.
LEMMA PoolUse ==
    ASSUME LeaseInv, TypeOK', LegacyPoolStep, [Next]_vars
    PROVE  [Use!Next]_(Use!vars)
<1>a. TypeOK /\ LeasesNameKeys /\ LeasesAccounted
  BY DEF LeaseInv
<1>b. \A k : LegacyLeases(k)' = LegacyLeases(k)
  BY DEF LegacyPoolStep, LegacyLeases
<1>1. CASE Kept
  <2>1. \A k \in KeyIds : Leases(k)' = Leases(k)
    BY <1>1 DEF Kept, Leases
  <2> QED
    BY <1>b, <2>1, ChangeUse DEF Use!Next
<1>2. ASSUME NEW r \in Requests, Returned(r) PROVE Use!Next
  <2> DEFINE k == leaseKey[r]
  <2>1. /\ Leased(r) /\ ~ Leased(r)'
        /\ \A q \in Requests \ {r} : (Leased(q)' <=> Leased(q)) /\ leaseKey'[q] = leaseKey[q]
    BY <1>2, <1>a DEF Returned, Leased, TypeOK
  <2>2. k \in KeyIds
    BY <2>1, <1>a DEF LeasesNameKeys
  <2>3. \A j : Leases(j)' = IF j = k THEN Leases(j) \ {r} ELSE Leases(j)
    BY <2>1 DEF Leases
  <2>4. r \in Leases(k)
    BY <2>1 DEF Leases
  <2>5. AllAllowed' = AllAllowed
    <3>1. /\ cfg' = cfg
          /\ keyFile' = keyFile
          /\ \A j \in KeyIds : isKeyInBackoff(j)' <=> isKeyInBackoff(j)
      BY <1>2 DEF Returned, isKeyInBackoff
    <3> QED
      BY <3>1, AllowedKept
  <2> HIDE DEF k
  <2>6. \A y \in AllKeys : Holders(y)' = IF y = ManagedKey(k) THEN Holders(y) \ {r}
                                                            ELSE Holders(y)
    BY <1>b, <2>2, <2>3 DEF Holders, ManagedKey, AllKeys
  <2>7. ManagedKey(k) \in AllKeys /\ r \in Holders(ManagedKey(k))
    BY <2>2, <2>4, ManagedUse
  <2>8. Use!Stop(r, ManagedKey(k))
    BY <2>5, <2>6, <2>7, StopUse
  <2> QED
    BY <2>7, <2>8 DEF Use!Next
<1>3. ASSUME NEW r \in Requests, NEW k \in KeyIds, Granted(r, k) PROVE Use!Next
  <2>1. /\ ~ Leased(r) /\ Leased(r)' /\ leaseKey'[r] = k
        /\ \A q \in Requests \ {r} : (Leased(q)' <=> Leased(q)) /\ leaseKey'[q] = leaseKey[q]
    BY <1>3, <1>a DEF Granted, acquireManaged, Leased, TypeOK
  <2>2. \A j : Leases(j)' = IF j = k THEN Leases(j) \cup {r} ELSE Leases(j)
    BY <2>1 DEF Leases
  <2>3. AllAllowed' = AllAllowed
    <3>1. cfg' = cfg /\ keyFile' = keyFile /\ keyErrors' = cleanupKeyErrors(cfg)
      BY <1>3 DEF Granted, Loop
    <3>2. \A j \in KeyIds : isKeyInBackoff(j)' <=> isKeyInBackoff(j)
      BY <3>1, <1>a, CleanupTypes DEF isKeyInBackoff
    <3> QED
      BY <3>1, <3>2, AllowedKept
  <2>4. \A y \in AllKeys : Holders(y)' = IF y = ManagedKey(k) THEN Holders(y) \cup {r}
                                                            ELSE Holders(y)
    BY <1>b, <2>2 DEF Holders, ManagedKey, AllKeys
  <2>5. Cardinality(Holders(ManagedKey(k))) < Allowed(ManagedKey(k))
    <3>1. k \in Enabled /\ ~ isKeyInBackoff(k) /\ active[k] < keyLimit(k)
      BY <1>3 DEF Granted, Usable, canAcquire
    <3> QED
      BY <3>1, <1>a, ManagedUse DEF LeasesAccounted
  <2>6. \A y \in AllKeys : r \notin Holders(y)
    BY <2>1, NobodyTwice
  <2>7. Use!Start(r, ManagedKey(k))
    BY <2>3, <2>4, <2>5, <2>6, ManagedUse, StartUse
  <2> QED
    BY <2>7, ManagedUse DEF Use!Next
<1> QED
  BY <1>1, <1>2, <1>3, <1>a, LeaseSteps

\* A step in which a client takes a slot of its own key, or gives it back.
LEMMA ClientUseStep ==
    ASSUME TypeOK, GatewayTypeOK, LegacyAccounted, NEW c \in Clients,
           LegacyAcquire(c) \/ LegacyRelease(c)
    PROVE  Use!Next
<1> DEFINE k == KeyOf[c]
<1>1. k \in ClientKeys
  BY ClientsAssumption
<1>2. cfg' = cfg /\ keyFile' = keyFile /\ keyErrors' = keyErrors
      /\ leaseKey' = leaseKey /\ pc' = pc
  BY DEF LegacyAcquire, LegacyRelease, LegacySignal, vars, storeVars, requestVars
<1>3. AllAllowed' = AllAllowed
  <2>1. \A j \in KeyIds : isKeyInBackoff(j)' <=> isKeyInBackoff(j)
    BY <1>2 DEF isKeyInBackoff
  <2> QED
    BY <1>2, <2>1, AllowedKept
<1>4. \A j : Leases(j)' = Leases(j)
  BY <1>2 DEF Leases, Leased
<1>5. CASE LegacyAcquire(c)
  <2>1. /\ lpc[c] # "leased" /\ lpc'[c] = "leased"
        /\ \A d \in Clients : d # c => lpc'[d] = lpc[d]
    BY <1>5 DEF LegacyAcquire, GatewayTypeOK
  <2>2. \A j : LegacyLeases(j)' = IF j = k THEN LegacyLeases(j) \cup {c} ELSE LegacyLeases(j)
    BY <2>1 DEF LegacyLeases
  <2>3. legacyActive[k] < cfg.limit
    BY <1>5 DEF LegacyAcquire, HasRoom
  <2> HIDE DEF k
  <2>4. \A y \in AllKeys : Holders(y)' = IF y = ClientKey(k) THEN Holders(y) \cup {c}
                                                           ELSE Holders(y)
    BY <1>1, <1>4, <2>2 DEF Holders, ClientKey, AllKeys
  <2>5. Cardinality(Holders(ClientKey(k))) < Allowed(ClientKey(k))
    BY <1>1, <2>3, ClientUse DEF LegacyAccounted
  <2>6. \A y \in AllKeys : c \notin Holders(y)
    BY <2>1, NobodyTwice
  <2>7. Use!Start(c, ClientKey(k))
    BY <1>1, <1>3, <2>4, <2>5, <2>6, ClientUse, StartUse
  <2> QED
    BY <1>1, <2>7, ClientUse DEF Use!Next
<1>6. CASE LegacyRelease(c)
  <2>1. /\ lpc[c] = "leased" /\ lpc'[c] = "idle"
        /\ \A d \in Clients : d # c => lpc'[d] = lpc[d]
    BY <1>6 DEF LegacyRelease, GatewayTypeOK
  <2>2. \A j : LegacyLeases(j)' = IF j = k THEN LegacyLeases(j) \ {c} ELSE LegacyLeases(j)
    BY <2>1 DEF LegacyLeases
  <2>3. c \in LegacyLeases(k)
    BY <2>1 DEF LegacyLeases
  <2> HIDE DEF k
  <2>4. \A y \in AllKeys : Holders(y)' = IF y = ClientKey(k) THEN Holders(y) \ {c}
                                                           ELSE Holders(y)
    BY <1>1, <1>4, <2>2 DEF Holders, ClientKey, AllKeys
  <2>5. Use!Stop(c, ClientKey(k))
    BY <1>1, <1>3, <2>3, <2>4, ClientUse, StopUse
  <2> QED
    BY <1>1, <2>5, ClientUse DEF Use!Next
<1> QED
  BY <1>5, <1>6

\* A client's step that moves no slot, a question, and a step that changes nothing.
LEMMA IdleUse ==
    ASSUME UNCHANGED vars, \A k : LegacyLeases(k)' = LegacyLeases(k)
    PROVE  UNCHANGED Use!vars
<1>1. AllAllowed' = AllAllowed
  <2>1. /\ cfg' = cfg
        /\ keyFile' = keyFile
        /\ \A j \in KeyIds : isKeyInBackoff(j)' <=> isKeyInBackoff(j)
    BY DEF vars, storeVars, isKeyInBackoff
  <2> QED
    BY <2>1, AllowedKept
<1>2. \A k : Leases(k)' = Leases(k)
  BY DEF vars, requestVars, Leases, Leased
<1>3. AllHolders' = AllHolders
  BY <1>2 DEF AllHolders, Holders
<1> QED
  BY <1>1, <1>3 DEF Use!vars

LEMMA UseStep ==
    LeaseInv /\ GatewayInv /\ GatewayInv' /\ [GatewayNext]_gatewayVars => [Use!Next]_(Use!vars)
<1> SUFFICES ASSUME LeaseInv, GatewayInv, TypeOK', [GatewayNext]_gatewayVars
             PROVE  [Use!Next]_(Use!vars)
  BY DEF GatewayInv
<1>a. TypeOK /\ GatewayTypeOK /\ Choosing /\ LegacyAccounted
  BY DEF GatewayInv
<1>1. CASE PoolStep
  BY <1>1, PoolStepFacts, PoolSteps, PoolUse
<1>2. CASE UNCHANGED gatewayVars \/ \E x \in Requests \cup Clients : Ask(x)
  <2>1. UNCHANGED vars /\ lpc' = lpc
    BY <1>2 DEF Ask, gatewayVars, legacyVars
  <2>2. \A k : LegacyLeases(k)' = LegacyLeases(k)
    BY <2>1 DEF LegacyLeases
  <2> QED
    BY <2>1, <2>2, IdleUse
<1>3. ASSUME NEW c \in Clients, LegacyAcquire(c) \/ LegacyRelease(c) PROVE Use!Next
  BY <1>3, <1>a, ClientUseStep
<1>4. ASSUME NEW c \in Clients, LegacyOther(c) PROVE UNCHANGED Use!vars
  <2>1. /\ UNCHANGED vars
        /\ lpc[c] # "leased" /\ lpc'[c] # "leased"
        /\ \A d \in Clients : d # c => lpc'[d] = lpc[d]
    BY <1>4, <1>a, OtherFacts
  <2>2. \A k : LegacyLeases(k)' = LegacyLeases(k)
    BY <2>1 DEF LegacyLeases
  <2> QED
    BY <2>1, <2>2, IdleUse
<1> QED
  BY <1>1, <1>2, <1>3, <1>4 DEF GatewayNext, LegacyStep, LegacyOther

\* A gateway that starts has nobody on any key.
LEMMA UseInit == GatewayInit => Use!Init
<1> SUFFICES ASSUME GatewayInit PROVE Use!Init
  OBVIOUS
<1>1. AllAllowed \in [AllKeys -> Nat]
  BY InitTypeOK, AllowedType DEF GatewayInit, AllowedTyped
<1>2. /\ \A k \in KeyIds : Leases(k) = {}
      /\ \A k \in ClientKeys : LegacyLeases(k) = {}
  BY DEF GatewayInit, Init, Leases, Leased, LegacyLeases
<1>3. \A x \in AllKeys : Holders(x) = {}
  BY <1>2 DEF Holders, AllKeys
<1> QED
  BY <1>1, <1>3 DEF Use!Init, AllHolders

\* The gateway implements what the upstream may rely on, in both modes and
\* through every reload: ImplementsKeyUse.
THEOREM ImplementsKeyUseCorrect == GatewaySpec => ImplementsKeyUse
<1>1. Spec => []LeaseInv
  BY LeaseInit, LeaseStep, PTL DEF Spec
<1>2. GatewaySpec => Use!Init /\ [][Use!Next]_(Use!vars)
  BY <1>1, GatewayIsPool, GatewayInvCorrect, UseInit, UseStep, PTL DEF GatewaySpec
<1> QED
  BY <1>2 DEF ImplementsKeyUse, Use!Spec
=============================================================================
