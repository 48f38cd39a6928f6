---------------------------- MODULE BudgetProofs ----------------------------
(***************************************************************************)
(* Proofs about Budget: how old the catalogue of a decision may be, how    *)
(* often slow handlers undo the recorder's limits, what its cleanup keeps, *)
(* and the cap a request is held to.  The first rests on an invariant that *)
(* ties what a caller holds to what the service holds: the age of an       *)
(* answer to the time its call has run, the age of the entry to the time   *)
(* since it was stored.  The last two rest on what cleanup and SafeTier    *)
(* compute, by induction over the files and over the models.               *)
(***************************************************************************)
EXTENDS Budget, FoldTheorems, SequenceTheorems, TLAPS

Held == Catalogs \cup {<<>>}

Entry == [catalog: Held, since: Nat, age: Nat]

Typed ==
    /\ cfg \in Configs
    /\ cache = Never \/ cache \in Entry
    /\ pc \in [Callers -> PCs]
    /\ seen \in [Callers -> Configs]
    /\ got \in [Callers -> [catalog: Held, age: Nat]]
    /\ elapsed \in [Callers -> Nat]

\* The entry is as old as the call that brought it, and the time since.
EntryAged == cache # Never => cache.age <= cache.since + FetchTimeout

\* An answer is as old as its call at most, and no call outlives its timeout.
AnswersAged ==
    \A p \in Callers : pc[p] \in {"fetching", "answered"} =>
        /\ elapsed[p] <= FetchTimeout
        /\ pc[p] = "answered" => got[p].age <= elapsed[p]

Inv ==
    /\ Typed
    /\ EntryAged
    /\ AnswersAged
    /\ CatalogFresh

-----------------------------------------------------------------------------

LEMMA UnreadInConfigs == ASSUME NEW c \in Configs PROVE Unread \in Configs
BY DEF Unread

LEMMA Constants ==
    /\ FetchTimeout \in Nat
    /\ \A c \in Configs : c.catalogTTL \in Nat
BY TimeoutAssumption, ConfigsAssumption

LEMMA InitInv == Init => Inv
<1> SUFFICES ASSUME Init PROVE Inv
  OBVIOUS
<1>1. Unread \in Configs
  BY UnreadInConfigs DEF Init
<1>2. Nothing \in [catalog: Held, age: Nat]
  BY DEF Nothing, Held
<1>3. Typed
  BY <1>1, <1>2 DEF Init, Typed, PCs
<1> QED
  BY <1>3 DEF Init, Inv, EntryAged, AnswersAged, CatalogFresh, RecorderInit

-----------------------------------------------------------------------------
(***************************************************************************)
(* The steps of a caller.                                                  *)
(***************************************************************************)

\* g is f but for x, where it is v.
Differs(f, g, x, v) == g = [f EXCEPT ![x] = v]

\* A step of p that leaves the configuration alone keeps the invariant if what it
\* makes of p, and of the entry, is as the invariant says.
LEMMA CallerStep ==
    ASSUME Inv, NEW p \in Callers, NEW to \in PCs, NEW c \in Configs,
           NEW g \in [catalog: Held, age: Nat], NEW n \in Nat,
           Differs(pc, pc', p, to),
           Differs(seen, seen', p, c),
           Differs(got, got', p, g),
           Differs(elapsed, elapsed', p, n),
           cfg' = cfg,
           cache' = Never \/ cache' \in Entry,
           EntryAged',
           to \in {"fetching", "answered"} => n <= FetchTimeout,
           to = "answered" => g.age <= n,
           to = "deciding" => g.age <= c.catalogTTL + FetchTimeout
    PROVE  Inv'
<1>1. Typed'
  BY DEF Inv, Typed, Differs
<1>2. \A q \in Callers \ {p} : /\ pc'[q] = pc[q] /\ seen'[q] = seen[q]
                               /\ got'[q] = got[q] /\ elapsed'[q] = elapsed[q]
  BY DEF Inv, Typed, Differs
<1>3. pc'[p] = to /\ seen'[p] = c /\ got'[p] = g /\ elapsed'[p] = n
  BY DEF Inv, Typed, Differs
<1>4. AnswersAged'
  BY <1>2, <1>3 DEF Inv, AnswersAged
<1>5. CatalogFresh'
  BY <1>2, <1>3 DEF Inv, CatalogFresh
<1> QED
  BY <1>1, <1>4, <1>5 DEF Inv

\* An EXCEPT that changes nothing, for the variables a step leaves alone.
LEMMA Kept == ASSUME NEW S, NEW T, NEW f \in [S -> T], NEW x \in S PROVE f = [f EXCEPT ![x] = f[x]]
OBVIOUS

LEMMA StillKept ==
    ASSUME Inv, NEW p \in Callers
    PROVE  /\ pc[p] \in PCs /\ seen[p] \in Configs
           /\ got[p] \in [catalog: Held, age: Nat] /\ elapsed[p] \in Nat
           /\ seen = [seen EXCEPT ![p] = seen[p]]
           /\ got = [got EXCEPT ![p] = got[p]]
           /\ elapsed = [elapsed EXCEPT ![p] = elapsed[p]]
           /\ Unread \in Configs
           /\ Nothing \in [catalog: Held, age: Nat]
<1>1. cfg \in Configs
  BY DEF Inv, Typed
<1>2. Unread \in Configs
  BY <1>1, UnreadInConfigs
<1> QED
  BY <1>2, Kept DEF Inv, Typed, Nothing, Held

LEMMA LookingSteps ==
    ASSUME Inv, NEW p \in Callers,
           \/ \E a \in Asks : Ask(p, a)
           \/ Hit(p) \/ Miss(p)
           \/ \E c \in Catalogs : Answer(p, c)
           \/ Store(p)
    PROVE  Inv'
<1>p. /\ seen[p] \in Configs /\ got[p] \in [catalog: Held, age: Nat] /\ elapsed[p] \in Nat
      /\ Unread \in Configs /\ Nothing \in [catalog: Held, age: Nat]
      /\ Differs(seen, seen, p, seen[p])
      /\ Differs(got, got, p, got[p])
      /\ Differs(elapsed, elapsed, p, elapsed[p])
  BY StillKept DEF Differs
<1> USE <1>p, Constants
<1>0. EntryAged /\ (cache = Never \/ cache \in Entry)
  BY DEF Inv, Typed
<1>1. CASE \E a \in Asks : Ask(p, a)
  <2>1. cfg \in Configs /\ cache' = cache
    BY <1>1 DEF Ask, Inv, Typed
  <2>2. "looking" \in PCs /\ EntryAged'
    BY <1>0, <2>1 DEF PCs, EntryAged
  <2>3. /\ Differs(pc, pc', p, "looking") /\ Differs(seen, seen', p, cfg)
        /\ got' = got /\ elapsed' = elapsed /\ cfg' = cfg
    BY <1>1 DEF Ask, Goes, Differs
  <2>4. /\ Differs(got, got', p, got[p]) /\ Differs(elapsed, elapsed', p, elapsed[p])
    BY <2>3
  <2> QED
    BY <1>0, <2>1, <2>2, <2>3, <2>4, CallerStep
<1>2. CASE Hit(p)
  <2>1. cache' = cache
    BY <1>2 DEF Hit
  <2>2. "deciding" \in PCs /\ EntryAged'
    BY <1>0, <2>1 DEF PCs, EntryAged
  <2> DEFINE g == [catalog |-> cache.catalog, age |-> cache.age]
  <2>3. /\ Differs(pc, pc', p, "deciding") /\ seen' = seen
        /\ Differs(got, got', p, g) /\ elapsed' = elapsed
        /\ cfg' = cfg
    BY <1>2 DEF Hit, Goes, Differs
  <2>4. g \in [catalog: Held, age: Nat] /\ g.age <= seen[p].catalogTTL + FetchTimeout
    BY <1>0, <1>2 DEF Hit, Fresh, Entry, EntryAged
  <2> HIDE DEF g
  <2>5. /\ Differs(seen, seen', p, seen[p]) /\ Differs(elapsed, elapsed', p, elapsed[p])
    BY <2>3
  <2> QED
    BY <1>0, <2>1, <2>2, <2>3, <2>4, <2>5, CallerStep
<1>3. CASE Miss(p)
  <2>1. cache' = cache
    BY <1>3 DEF Miss
  <2>2. "fetching" \in PCs /\ EntryAged'
    BY <1>0, <2>1 DEF PCs, EntryAged
  <2>3. /\ Differs(pc, pc', p, "fetching") /\ seen' = seen
        /\ got' = got /\ Differs(elapsed, elapsed', p, 0)
        /\ cfg' = cfg
    BY <1>3 DEF Miss, Goes, Differs
  <2>4. /\ Differs(seen, seen', p, seen[p]) /\ Differs(got, got', p, got[p])
    BY <2>3
  <2> QED
    BY <1>0, <2>1, <2>2, <2>3, <2>4, CallerStep
<1>4. CASE \E c \in Catalogs : Answer(p, c)
  <2> PICK c \in Catalogs : Answer(p, c)
    BY <1>4
  <2>1. pc[p] = "fetching" /\ cache' = cache
    BY DEF Answer, Goes
  <2>2. "answered" \in PCs /\ EntryAged' /\ elapsed[p] <= FetchTimeout
    BY <1>0, <2>1 DEF PCs, EntryAged, Inv, AnswersAged
  <2> DEFINE g == [catalog |-> c, age |-> 0]
  <2>3. /\ Differs(pc, pc', p, "answered") /\ seen' = seen
        /\ Differs(got, got', p, g) /\ elapsed' = elapsed
        /\ cfg' = cfg
    BY DEF Answer, Goes, Differs
  <2>4. g \in [catalog: Held, age: Nat] /\ g.age <= elapsed[p]
    BY DEF Held
  <2> HIDE DEF g
  <2>5. /\ Differs(seen, seen', p, seen[p]) /\ Differs(elapsed, elapsed', p, elapsed[p])
    BY <2>3
  <2> QED
    BY <1>0, <2>1, <2>2, <2>3, <2>4, <2>5, CallerStep
<1>5. CASE Store(p)
  <2>1. pc[p] = "answered"
    BY <1>5 DEF Store, Goes
  <2>2. elapsed[p] <= FetchTimeout /\ got[p].age <= elapsed[p]
    BY <2>1 DEF Inv, AnswersAged
  <2>3. /\ Differs(pc, pc', p, "deciding") /\ seen' = seen
        /\ got' = got /\ Differs(elapsed, elapsed', p, 0)
        /\ cfg' = cfg
        /\ cache' = [catalog |-> got[p].catalog, since |-> 0, age |-> got[p].age]
    BY <1>5 DEF Store, Goes, Differs
  <2>4. cache' \in Entry /\ EntryAged'
    BY <2>2, <2>3 DEF Entry, EntryAged
  <2>5. got[p].age <= seen[p].catalogTTL + FetchTimeout
    BY <2>2
  <2> QED
    BY <2>1, <2>3, <2>4, <2>5, CallerStep DEF PCs
<1> QED
  BY <1>1, <1>2, <1>3, <1>4, <1>5

LEMMA LeavingSteps ==
    ASSUME Inv, NEW p \in Callers,
           \/ FetchFails(p) \/ Decide(p) \/ Fail(p) \/ View(p) \/ ReadConfig(p) \/ RecordError(p)
    PROVE  Inv'
<1>p. /\ seen[p] \in Configs /\ got[p] \in [catalog: Held, age: Nat] /\ elapsed[p] \in Nat
      /\ Unread \in Configs /\ Nothing \in [catalog: Held, age: Nat]
      /\ Differs(seen, seen, p, seen[p])
      /\ Differs(got, got, p, got[p])
      /\ Differs(elapsed, elapsed, p, elapsed[p])
  BY StillKept DEF Differs
<1> USE <1>p, Constants
<1>0. EntryAged /\ (cache = Never \/ cache \in Entry)
  BY DEF Inv, Typed
<1>1. CASE FetchFails(p)
  <2>1. UNCHANGED <<cache, cfg>>
    BY <1>1 DEF FetchFails
  <2>2. EntryAged'
    BY <1>0, <2>1 DEF EntryAged
  <2>3. /\ Differs(pc, pc', p, "idle") /\ Differs(seen, seen', p, Unread)
        /\ Differs(got, got', p, Nothing) /\ Differs(elapsed, elapsed', p, 0)
    BY <1>1 DEF FetchFails, Leaves, Differs
  <2> QED
    BY <1>0, <2>1, <2>2, <2>3, CallerStep DEF PCs
<1>2. CASE Decide(p)
  <2> DEFINE to == IF outcome(p).verdict = "rejected" THEN "reporting" ELSE "idle"
  <2>1. UNCHANGED <<cache, cfg, elapsed>>
    BY <1>2 DEF Decide
  <2>2. EntryAged'
    BY <1>0, <2>1 DEF EntryAged
  <2>3. /\ Differs(pc, pc', p, to) /\ Differs(seen, seen', p, Unread)
        /\ Differs(got, got', p, Nothing)
    BY <1>2 DEF Decide, Leaves, Differs
  <2>4. to \in {"reporting", "idle"}
    OBVIOUS
  <2> HIDE DEF to
  <2> QED
    BY <1>0, <2>1, <2>2, <2>3, <2>4, CallerStep DEF PCs
<1>3. CASE Fail(p)
  <2>1. /\ Differs(pc, pc', p, "reporting")
        /\ UNCHANGED <<cache, cfg, elapsed, got, seen>>
    BY <1>3 DEF Fail, Goes, budgetVars, Differs
  <2>2. EntryAged'
    BY <1>0, <2>1 DEF EntryAged
  <2>3. /\ Differs(seen, seen', p, seen[p])
        /\ Differs(got, got', p, got[p])
        /\ Differs(elapsed, elapsed', p, elapsed[p])
    BY <2>1
  <2> QED
    BY <1>0, <2>1, <2>2, <2>3, CallerStep DEF PCs
<1>4. CASE View(p)
  <2>1. /\ Differs(pc, pc', p, "viewing")
        /\ UNCHANGED <<cache, cfg, elapsed, got, seen>>
    BY <1>4 DEF View, Goes, budgetVars, Differs
  <2>2. EntryAged'
    BY <1>0, <2>1 DEF EntryAged
  <2>3. /\ Differs(seen, seen', p, seen[p])
        /\ Differs(got, got', p, got[p])
        /\ Differs(elapsed, elapsed', p, elapsed[p])
    BY <2>1
  <2> QED
    BY <1>0, <2>1, <2>2, <2>3, CallerStep DEF PCs
<1>5. CASE ReadConfig(p)
  <2>1. PICK to \in {"configuring", "showing"} : Differs(pc, pc', p, to)
    BY <1>5 DEF ReadConfig, Goes, Differs
  <2>2. /\ Differs(seen, seen', p, cfg) /\ cfg \in Configs
        /\ UNCHANGED <<cache, cfg, elapsed, got>>
    BY <1>5 DEF ReadConfig, budgetVars, Inv, Typed, Differs
  <2>3. EntryAged'
    BY <1>0, <2>2 DEF EntryAged
  <2>4. /\ Differs(got, got', p, got[p]) /\ Differs(elapsed, elapsed', p, elapsed[p])
    BY <2>2
  <2> QED
    BY <1>0, <2>1, <2>2, <2>3, <2>4, CallerStep DEF PCs
<1>6. CASE RecordError(p)
  <2>1. /\ Differs(pc, pc', p, "idle")
        /\ UNCHANGED <<cache, cfg, elapsed, got, seen>>
    BY <1>6 DEF RecordError, Goes, budgetVars, Differs
  <2>2. EntryAged'
    BY <1>0, <2>1 DEF EntryAged
  <2>3. /\ Differs(seen, seen', p, seen[p])
        /\ Differs(got, got', p, got[p])
        /\ Differs(elapsed, elapsed', p, elapsed[p])
    BY <2>1
  <2> QED
    BY <1>0, <2>1, <2>2, <2>3, CallerStep DEF PCs
<1> QED
  BY <1>1, <1>2, <1>3, <1>4, <1>5, <1>6

LEMMA ConfigureStep ==
    ASSUME Inv, NEW p \in Callers, ConfigureRecorder(p)
    PROVE  Inv'
<1>1. PICK to \in {"recording", "idle"} : pc' = [pc EXCEPT ![p] = to]
  BY DEF ConfigureRecorder, Goes
<1>2. /\ seen' = [seen EXCEPT ![p] = Unread]
      /\ UNCHANGED <<cfg, cache, got, elapsed>>
  BY DEF ConfigureRecorder, budgetVars
<1>3. Typed'
  BY <1>1, <1>2, StillKept DEF Inv, Typed, PCs
<1>4. EntryAged'
  BY <1>2 DEF Inv, EntryAged
<1>5. \A q \in Callers \ {p} : pc'[q] = pc[q] /\ seen'[q] = seen[q]
  BY <1>1, <1>2 DEF Inv, Typed
<1>6. pc'[p] \in {"recording", "idle"}
  BY <1>1, <1>2 DEF Inv, Typed
<1>7. AnswersAged' /\ CatalogFresh'
  BY <1>2, <1>5, <1>6 DEF Inv, AnswersAged, CatalogFresh
<1> QED
  BY <1>3, <1>4, <1>7 DEF Inv

LEMMA OtherSteps ==
    ASSUME Inv, (\E c \in Configs : Reload(c)) \/ Tick \/ NextHour
    PROVE  Inv'
<1>1. CASE \E c \in Configs : Reload(c)
  <2>1. /\ cfg' \in Configs
        /\ UNCHANGED <<cache, pc, seen, got, elapsed>>
    BY <1>1 DEF Reload
  <2>2. Typed'
    BY <2>1 DEF Inv, Typed
  <2> QED
    BY <2>1, <2>2 DEF Inv, EntryAged, AnswersAged, CatalogFresh
<1>2. CASE Tick
  <2>1. \A p \in Callers : /\ elapsed[p] \in Nat /\ pc[p] \in PCs
                           /\ got[p] \in [catalog: Held, age: Nat]
    BY DEF Inv, Typed
  <2>2. UNCHANGED <<cfg, pc, seen>>
    BY <1>2 DEF Tick, recorderVars
  <2>3. /\ elapsed' \in [Callers -> Nat]
        /\ \A p \in Callers : elapsed'[p] = IF pc[p] \in {"fetching", "answered"}
                                              THEN elapsed[p] + 1 ELSE elapsed[p]
    BY <1>2, <2>1 DEF Tick
  <2>4. /\ got' \in [Callers -> [catalog: Held, age: Nat]]
        /\ \A p \in Callers : IF pc[p] = "answered" THEN got'[p].age = got[p].age + 1
                                                    ELSE got'[p] = got[p]
    BY <1>2, <2>1 DEF Tick
  <2>5. \A p \in Callers : pc[p] \in {"fetching", "answered"} => elapsed[p] < FetchTimeout
    BY <1>2 DEF Tick
  <2>6. cache' = Never \/ (cache # Never /\ cache' = [cache EXCEPT !.since = @ + 1, !.age = @ + 1])
    BY <1>2 DEF Tick
  <2>7. (cache' = Never \/ cache' \in Entry) /\ EntryAged'
    <3>1. CASE cache' = Never
      BY <3>1 DEF EntryAged
    <3>2. CASE cache # Never /\ cache' = [cache EXCEPT !.since = @ + 1, !.age = @ + 1]
      <4>1. cache \in Entry /\ cache.age <= cache.since + FetchTimeout
        BY <3>2 DEF Inv, Typed, EntryAged
      <4>2. /\ cache = [catalog |-> cache.catalog, since |-> cache.since, age |-> cache.age]
            /\ cache.catalog \in Held /\ cache.since \in Nat /\ cache.age \in Nat
        BY <4>1 DEF Entry
      <4>3. cache' = [catalog |-> cache.catalog, since |-> cache.since + 1, age |-> cache.age + 1]
        BY <3>2, <4>2, Zenon
      <4>4. cache' \in Entry
        BY <4>2, <4>3 DEF Entry
      <4>5. cache'.age <= cache'.since + FetchTimeout
        BY <4>1, <4>2, <4>3, Constants
      <4> QED
        BY <4>4, <4>5 DEF EntryAged
    <3> QED
      BY <2>6, <3>1, <3>2
  <2>8. Typed'
    BY <2>2, <2>3, <2>4, <2>7 DEF Inv, Typed
  <2>9. AnswersAged'
    BY <2>1, <2>2, <2>3, <2>4, <2>5, Constants DEF Inv, AnswersAged
  <2>10. CatalogFresh'
    BY <2>2, <2>4 DEF Inv, CatalogFresh
  <2> QED
    BY <2>2, <2>7, <2>8, <2>9, <2>10 DEF Inv
<1>3. CASE NextHour
  BY <1>3 DEF NextHour, Hour, budgetVars, Inv, Typed, EntryAged, AnswersAged,CatalogFresh
<1> QED
  BY <1>1, <1>2, <1>3

LEMMA StepInv == Inv /\ [Next]_vars => Inv'
<1> SUFFICES ASSUME Inv, [Next]_vars PROVE Inv'
  OBVIOUS
<1>1. CASE UNCHANGED vars
  BY <1>1 DEF vars, budgetVars, recorderVars, Inv, Typed, EntryAged, AnswersAged,CatalogFresh
<1>2. CASE Next
  BY <1>2, LookingSteps, LeavingSteps, ConfigureStep, OtherSteps DEF Next
<1> QED
  BY <1>1, <1>2

-----------------------------------------------------------------------------
(***************************************************************************)
(* Handlers that are about to undo the recorder's limits.                  *)
(***************************************************************************)

\* What a step without a reload does to the handlers that are behind.
Undoing ==
    /\ Behind' \subseteq Behind
    /\ limits' # limits /\ limits' # cfg.limits => \E p \in Behind : Behind' = Behind \ {p}

\* A step of p that leaves the limits alone puts nobody behind if it does not put p.
LEMMA NotBehind ==
    ASSUME Inv, NEW p \in Callers, limits' = limits, cfg' = cfg,
           pc'[p] \in {"configuring", "showing"} => seen'[p] = cfg,
           \A q \in Callers \ {p} : pc'[q] = pc[q] /\ seen'[q] = seen[q]
    PROVE  Undoing
BY DEF Undoing, Behind

LEMMA CallerUndoing ==
    ASSUME Inv, cfg' = cfg, NEW p \in Callers,
           \/ \E a \in Asks : Ask(p, a)
           \/ Hit(p) \/ Miss(p)
           \/ \E c \in Catalogs : Answer(p, c)
           \/ Store(p) \/ FetchFails(p) \/ Decide(p)
           \/ Fail(p) \/ View(p) \/ ReadConfig(p) \/ RecordError(p)
    PROVE  Undoing
<1> USE DEF Inv, Typed
<1>1. limits' = limits
  BY DEF Ask, Hit, Miss, Answer, Store, FetchFails, Decide, Fail, View, ReadConfig, RecordError,
         Record, recorderVars
<1>2. \A q \in Callers \ {p} : pc'[q] = pc[q] /\ seen'[q] = seen[q]
  BY DEF Ask, Hit, Miss, Answer, Store, FetchFails, Decide, Fail, View, ReadConfig, RecordError,
         Goes, Leaves
<1>3. CASE ReadConfig(p)
  <2>1. seen'[p] = cfg
    BY <1>3 DEF ReadConfig
  <2> QED
    BY <1>1, <1>2, <2>1, NotBehind
<1>4. CASE ~ ReadConfig(p)
  <2>1. pc'[p] \notin {"configuring", "showing"}
    BY <1>4 DEF Ask, Hit, Miss, Answer, Store, FetchFails, Decide, Fail, View, RecordError,
                Goes, Leaves
  <2> QED
    BY <1>1, <1>2, <2>1, NotBehind
<1> QED
  BY <1>3, <1>4

LEMMA ConfigureUndoing ==
    ASSUME Inv, NEW p \in Callers, ConfigureRecorder(p)
    PROVE  Undoing
<1>1. PICK to \in {"recording", "idle"} : pc' = [pc EXCEPT ![p] = to]
  BY DEF ConfigureRecorder, Goes
<1>2. /\ pc[p] \in {"configuring", "showing"} /\ cfg' = cfg
      /\ seen' = [seen EXCEPT ![p] = Unread]
      /\ limits' = seen[p].limits \/ limits' = limits
  BY DEF ConfigureRecorder, Goes, Configure, budgetVars
<1>3. \A q \in Callers \ {p} : pc'[q] = pc[q] /\ seen'[q] = seen[q]
  BY <1>1, <1>2 DEF Inv, Typed
<1>4. pc'[p] \notin {"configuring", "showing"}
  BY <1>1 DEF Inv, Typed
<1>5. Behind' = Behind \ {p}
  BY <1>2, <1>3, <1>4 DEF Behind
<1>6. limits' # limits /\ limits' # cfg.limits => p \in Behind
  BY <1>2 DEF Behind
<1> QED
  BY <1>5, <1>6 DEF Undoing

LEMMA StepUndoing == Inv /\ [Next]_vars /\ cfg' = cfg => Undoing
<1> SUFFICES ASSUME Inv, [Next]_vars, cfg' = cfg PROVE Undoing
  OBVIOUS
<1>1. CASE UNCHANGED vars \/ Tick \/ NextHour
  BY <1>1 DEF vars, budgetVars, recorderVars, Tick, NextHour, Hour, Undoing, Behind
<1>2. ASSUME NEW c \in Configs PROVE ~ Reload(c)
  BY DEF Reload
<1>3. CASE \E p \in Callers : ConfigureRecorder(p)
  BY <1>3, ConfigureUndoing
<1> QED
  BY <1>1, <1>2, <1>3, CallerUndoing DEF Next

-----------------------------------------------------------------------------
(***************************************************************************)
(* What cleanup keeps of the recorder's files.                             *)
(***************************************************************************)

\* What the files may hold.
Files == [Ages -> Nat]

\* Lines is a sum of FoldTheorems.
LEMMA LinesAreSums == \A f, S : Lines(f, S) = SumOver(f, S)
BY DEF Lines, SumOver

LEMMA HoursTyped == Hours \in Nat /\ IsFiniteSet(Ages) /\ 0 \in Ages
<1>1. Hours \in Nat
  BY HoursAssumption
<1>2. IsFiniteSet(0..Hours)
  BY <1>1, FS_Interval
<1> QED
  BY <1>1, <1>2 DEF Ages

\* What goes with the file of hour k.
LEMMA LinesWithout ==
    ASSUME NEW f \in Files, NEW k \in Ages
    PROVE  /\ Without(f, k) \in Files
           /\ Lines(f, Ages) = f[k] + Lines(Without(f, k), Ages)
           /\ Lines(Without(f, k), Ages) \in Nat /\ f[k] \in Nat
<1> DEFINE g == Without(f, k)
<1>1. g \in Files /\ g[k] = 0 /\ \A x \in Ages \ {k} : g[x] = f[x]
  BY DEF Without, Files
<1> HIDE DEF g
<1>2. \A x \in Ages : f[x] \in Nat /\ g[x] \in Nat
  BY <1>1 DEF Files
<1>3. IsFiniteSet(Ages \ {k})
  BY HoursTyped, FS_RemoveElement
<1>4. SumOver(f, Ages \ {k}) = SumOver(g, Ages \ {k}) /\ SumOver(f, Ages \ {k}) \in Nat
  BY <1>1, <1>2, <1>3, SumSame
<1>5. SumOver(f, Ages) = f[k] + SumOver(f, Ages \ {k})
  BY <1>2, HoursTyped, SumWithout
<1>6. SumOver(g, Ages) = g[k] + SumOver(g, Ages \ {k})
  BY <1>2, HoursTyped, SumWithout
<1>7. SumOver(g, Ages) = SumOver(f, Ages \ {k})
  BY <1>1, <1>4, <1>6
<1> QED
  BY <1>1, <1>2, <1>4, <1>5, <1>7, LinesAreSums DEF g

\* cleanup, as the files left at each step of its second pass.
LEMMA CleanupSteps ==
    ASSUME NEW f \in Files, NEW l \in [maxAge: Nat, maxSize: Nat \ {0}]
    PROVE  \E left :
             /\ left[Hours + 1] = Young(f, l)
             /\ \A k \in Ages : left[k] = IF Lines(left[k + 1], Ages) <= l.maxSize
                                            THEN left[k + 1] ELSE Without(left[k + 1], k)
             /\ cleanup(f, l) = left[0]
<1> DEFINE D == 0..Hours + 1
           start == Hours + 1
           base == Young(f, l)
           rank == [k \in D |-> (Hours + 1) - k]
           before == [k \in D |-> k + 1]
           step == [k \in D |-> [v \in Files |-> IF Lines(v, Ages) <= l.maxSize THEN v ELSE Without(v, k)]]
<1>0. Hours \in Nat
  BY HoursTyped
<1>1. base \in Files
  <2>1. \A k \in Ages : f[k] \in Nat
    BY DEF Files
  <2> QED
    BY <2>1 DEF Young, Files
<1>2. start \in D /\ start \in Nat /\ D \ {start} = Ages
  BY <1>0 DEF Ages
<1>3. rank \in [D -> Nat] /\ \A k \in D : rank[k] <= start
  BY <1>0
<1>4. \A k \in D \ {start} : before[k] \in D /\ rank[before[k]] < rank[k]
  BY <1>0
<1>5. \A k \in D \ {start}, v \in Files : step[k][v] \in Files
  <2> TAKE k \in D \ {start}, v \in Files
  <2>1. k \in Ages /\ k \in D
    BY <1>2
  <2>2. Without(v, k) \in Files
    BY <2>1, LinesWithout
  <2> QED
    BY <2>1, <2>2
<1>6. PICK g \in [D -> Files] : Solves(g, D, start, base, before, step)
  <2> HIDE DEF D, start, base, before, rank, step
  <2> QED
    BY <1>1, <1>2, <1>3, <1>4, <1>5, RecursionDefined
<1> DEFINE IsDrop(h) == h = [k \in D |-> IF k = Hours + 1 THEN Young(f, l)
                              ELSE IF Lines(h[k + 1], Ages) <= l.maxSize THEN h[k + 1]
                                   ELSE Without(h[k + 1], k)]
<1>7. \A k \in D \ {start} : k + 1 \in D /\ g[k + 1] \in Files
  BY <1>0
<1>8. IsDrop(g)
  <2>1. \A k \in D : g[k] = IF k = start THEN base ELSE step[k][g[before[k]]]
    <3> HIDE DEF D, start, base, before, step
    <3> QED
      BY <1>6 DEF Solves
  <2>2. \A k \in D \ {start} : before[k] = k + 1
    BY <1>2
  <2>3. \A k \in D \ {start} : step[k][g[k + 1]] =
          IF Lines(g[k + 1], Ages) <= l.maxSize THEN g[k + 1] ELSE Without(g[k + 1], k)
    BY <1>7
  <2>4. g = [k \in D |-> g[k]]
    OBVIOUS
  <2>5. \A k \in D : g[k] = IF k = Hours + 1 THEN Young(f, l)
                            ELSE IF Lines(g[k + 1], Ages) <= l.maxSize THEN g[k + 1]
                                 ELSE Without(g[k + 1], k)
    <3> SUFFICES ASSUME NEW k \in D, k # start
                 PROVE  g[k] = IF Lines(g[k + 1], Ages) <= l.maxSize THEN g[k + 1]
                               ELSE Without(g[k + 1], k)
      BY <2>1
    <3> HIDE DEF D, before, step, base
    <3>1. g[k] = step[k][g[before[k]]]
      BY <2>1
    <3>2. before[k] = k + 1
      BY <2>2
    <3>3. g[k] = step[k][g[k + 1]]
      BY <3>1, <3>2
    <3> QED
      BY <2>3, <3>3
  <2> HIDE DEF D, before, step, base
  <2> QED
    BY <2>4, <2>5
<1> DEFINE h == CHOOSE x : IsDrop(x)
<1>9. cleanup(f, l) = h[0]
  BY DEF cleanup
<1>10. IsDrop(h)
  BY <1>8
<1> HIDE DEF h
<1>11. h[Hours + 1] = Young(f, l)
  BY <1>2, <1>10
<1>12. \A k \in Ages : h[k] = IF Lines(h[k + 1], Ages) <= l.maxSize THEN h[k + 1]
                              ELSE Without(h[k + 1], k)
  <2> SUFFICES ASSUME NEW k \in Ages
               PROVE  h[k] = IF Lines(h[k + 1], Ages) <= l.maxSize THEN h[k + 1]
                             ELSE Without(h[k + 1], k)
    OBVIOUS
  <2>1. k \in D /\ k # Hours + 1
    BY <1>2
  <2> HIDE DEF D
  <2> QED
    BY <1>10, <2>1
<1> QED
  BY <1>9, <1>11, <1>12

\* The lines of the files of fewer than k hours ago.
Newer(f, k) == IF k = 0 THEN 0 ELSE SumTo(f, k - 1)

LEMMA NewerStep ==
    ASSUME NEW f \in Files
    PROVE  /\ Newer(f, 0) = 0
           /\ Newer(f, Hours + 1) = Lines(f, Ages)
           /\ \A k \in Ages : /\ Newer(f, k) \in Nat /\ Newer(f, k + 1) \in Nat /\ f[k] \in Nat
                              /\ Newer(f, k + 1) = Newer(f, k) + f[k]
                              /\ Newer(f, k + 1) = SumTo(f, k)
<1>0. Hours \in Nat /\ f \in [0..Hours -> Nat]
  BY HoursTyped DEF Files, Ages
<1>1. Newer(f, Hours + 1) = Lines(f, Ages)
  <2>1. Hours + 1 # 0 /\ (Hours + 1) - 1 = Hours
    BY <1>0
  <2>2. Newer(f, Hours + 1) = SumTo(f, Hours)
    BY <2>1 DEF Newer
  <2> QED
    BY <2>2, LinesAreSums DEF SumTo, Ages
<1>2. ASSUME NEW k \in Ages
      PROVE  /\ Newer(f, k) \in Nat /\ Newer(f, k + 1) \in Nat /\ f[k] \in Nat
             /\ Newer(f, k + 1) = Newer(f, k) + f[k]
             /\ Newer(f, k + 1) = SumTo(f, k)
  <2>0. k \in Nat /\ k <= Hours /\ k + 1 # 0 /\ (k + 1) - 1 = k
    BY <1>0 DEF Ages
  <2>1. Newer(f, k + 1) = SumTo(f, k)
    BY <2>0 DEF Newer
  <2>2. SumTo(f, k) \in Nat /\ f[k] \in Nat
    BY <1>0, <2>0, SumToType DEF Files, Ages
  <2>3. CASE k = 0
    BY <1>0, <2>1, <2>2, <2>3, SumToStart DEF Newer
  <2>4. CASE k # 0
    <3>1. k - 1 \in Nat /\ (k - 1) + 1 = k /\ (k - 1) + 1 <= Hours
      BY <2>0, <2>4
    <3>2. SumTo(f, (k - 1) + 1) = SumTo(f, k - 1) + f[(k - 1) + 1]
      BY <1>0, <3>1, SumToStep
    <3>3. SumTo(f, k - 1) \in Nat
      BY <1>0, <2>0, <3>1, SumToType
    <3>4. SumTo(f, k) = SumTo(f, k - 1) + f[k]
      BY <3>1, <3>2
    <3> QED
      BY <2>1, <2>2, <2>4, <3>3, <3>4 DEF Newer
  <2> QED
    BY <2>3, <2>4
<1> QED
  BY <1>1, <1>2 DEF Newer

\* What the second pass has done once it has looked at hours k and older: y is
\* what it started from, d what it has left, m the size it keeps to.
Thinned(d, y, m, k) ==
    /\ d \in Files
    /\ \A j \in Ages : d[j] = IF j >= k /\ Newer(y, j + 1) > m THEN 0 ELSE y[j]
    /\ Newer(y, k) > m => Lines(d, Ages) = Newer(y, k)
    /\ Newer(y, k) <= m => Lines(d, Ages) <= m

LEMMA ThinnedMore ==
    ASSUME NEW y \in Files, NEW m \in Nat, NEW k \in Ages, NEW d, Thinned(d, y, m, k + 1),
           NEW e, e = IF Lines(d, Ages) <= m THEN d ELSE Without(d, k)
    PROVE  Thinned(e, y, m, k)
<1>0. k \in Nat /\ d \in Files /\ Ages \subseteq Nat
  BY HoursTyped DEF Ages, Thinned
<1>1. /\ Newer(y, k) \in Nat /\ Newer(y, k + 1) \in Nat /\ y[k] \in Nat
      /\ Newer(y, k + 1) = Newer(y, k) + y[k]
  BY NewerStep
<1>2. d[k] = y[k]
  BY <1>0 DEF Thinned
<1>3. \A j \in Ages : j >= k <=> j = k \/ j >= k + 1
  BY <1>0
<1>4. CASE Newer(y, k + 1) > m
  <2>1. Lines(d, Ages) = Newer(y, k + 1)
    BY <1>4 DEF Thinned
  <2>2. e = Without(d, k)
    BY <1>1, <1>4, <2>1
  <2>3. e \in Files /\ Lines(e, Ages) = Newer(y, k)
    BY <1>0, <1>1, <1>2, <2>1, <2>2, LinesWithout
  <2>4. \A j \in Ages : e[j] = IF j = k THEN 0 ELSE d[j]
    BY <1>0, <2>2 DEF Without, Files
  <2>5. \A j \in Ages : e[j] = IF j >= k /\ Newer(y, j + 1) > m THEN 0 ELSE y[j]
    BY <1>3, <1>4, <2>4 DEF Thinned
  <2> QED
    BY <2>3, <2>5 DEF Thinned
<1>5. CASE ~ (Newer(y, k + 1) > m)
  <2>1. Newer(y, k + 1) <= m /\ Newer(y, k) <= m
    BY <1>1, <1>5
  <2>2. Lines(d, Ages) <= m /\ e = d
    BY <2>1 DEF Thinned
  <2>3. \A j \in Ages : e[j] = IF j >= k /\ Newer(y, j + 1) > m THEN 0 ELSE y[j]
    BY <1>3, <1>5, <2>2 DEF Thinned
  <2>4. ~ (Newer(y, k) > m)
    BY <1>1, <2>1
  <2> QED
    BY <1>0, <2>2, <2>3, <2>4 DEF Thinned
<1> QED
  BY <1>4, <1>5

\* What cleanup leaves.
LEMMA CleanupResult ==
    ASSUME NEW f \in Files, NEW l \in [maxAge: Nat, maxSize: Nat \ {0}]
    PROVE  /\ cleanup(f, l) \in Files
           /\ Lines(cleanup(f, l), Ages) <= l.maxSize
           /\ \A k \in Ages : cleanup(f, l)[k] = IF k > l.maxAge \/ Lines(f, 0..k) > l.maxSize
                                                   THEN 0 ELSE f[k]
<1> DEFINE y == Young(f, l)
           m == l.maxSize
<1>0. Hours \in Nat /\ m \in Nat
  BY HoursTyped
<1>1. y \in Files /\ \A k \in Ages : y[k] = IF k > l.maxAge THEN 0 ELSE f[k]
  BY DEF Young, Files
<1>2. PICK left : /\ left[Hours + 1] = y
                  /\ \A k \in Ages : left[k] = IF Lines(left[k + 1], Ages) <= m
                                                 THEN left[k + 1] ELSE Without(left[k + 1], k)
                  /\ cleanup(f, l) = left[0]
  BY CleanupSteps
<1> HIDE DEF y, m
<1>3. Thinned(left[0], y, m, 0)
  <2> DEFINE S == {n \in Nat : Thinned(left[(Hours + 1) - n], y, m, (Hours + 1) - n)}
  <2>1. 0 \in S
    <3>1. (Hours + 1) - 0 = Hours + 1 /\ \A j \in Ages : ~ (j >= Hours + 1)
      BY <1>0 DEF Ages
    <3>2. Newer(y, Hours + 1) = Lines(y, Ages)
      BY <1>1, NewerStep
    <3>3. Thinned(y, y, m, Hours + 1)
      BY <1>1, <3>1, <3>2 DEF Thinned
    <3> QED
      BY <1>2, <3>1, <3>3
  <2>2. ASSUME NEW n \in Nat, n + 1 <= Hours + 1, n \in S PROVE n + 1 \in S
    <3> DEFINE k == (Hours + 1) - (n + 1)
    <3>1. k \in Ages /\ k + 1 = (Hours + 1) - n
      BY <1>0, <2>2 DEF Ages
    <3>2. Thinned(left[k + 1], y, m, k + 1)
      BY <2>2, <3>1
    <3>3. left[k] = IF Lines(left[k + 1], Ages) <= m THEN left[k + 1] ELSE Without(left[k + 1], k)
      BY <1>2, <3>1
    <3> HIDE DEF k
    <3>4. Thinned(left[k], y, m, k)
      BY <1>0, <1>1, <3>1, <3>2, <3>3, ThinnedMore
    <3> QED
      BY <3>4 DEF k
  <2>3. \A n \in 0..(Hours + 1) : n \in S
    <3>1. Hours + 1 \in Nat
      BY <1>0
    <3> HIDE DEF S
    <3> QED
      BY <2>1, <2>2, <3>1, InductionTo
  <2>4. Hours + 1 \in 0..(Hours + 1) /\ (Hours + 1) - (Hours + 1) = 0
    BY <1>0
  <2> QED
    BY <2>3, <2>4
<1>4. left[0] \in Files /\ Lines(left[0], Ages) <= m
  BY <1>0, <1>1, <1>3, NewerStep DEF Thinned
<1>5. ASSUME NEW k \in Ages
      PROVE  left[0][k] = IF k > l.maxAge \/ Lines(f, 0..k) > m THEN 0 ELSE f[k]
  <2>0. k \in Nat /\ k >= 0 /\ Newer(y, k + 1) = SumTo(y, k)
    BY <1>0, <1>1, NewerStep DEF Ages
  <2>1. left[0][k] = IF SumTo(y, k) > m THEN 0 ELSE y[k]
    BY <1>3, <2>0 DEF Thinned
  <2>2. CASE k > l.maxAge
    BY <1>1, <2>1, <2>2
  <2>3. CASE ~ (k > l.maxAge)
    <3>1. \A x \in 0..k : x \in Ages /\ ~ (x > l.maxAge)
      BY <1>0, <2>0, <2>3 DEF Ages
    <3>2. \A x \in 0..k : y[x] \in Nat /\ y[x] = f[x]
      BY <1>1, <3>1 DEF Files
    <3>3. IsFiniteSet(0..k)
      BY <2>0, FS_Interval
    <3>4. SumOver(y, 0..k) = SumOver(f, 0..k)
      BY <3>2, <3>3, SumSame
    <3>5. SumTo(y, k) = Lines(f, 0..k)
      BY <3>4, LinesAreSums DEF SumTo
    <3> QED
      BY <1>1, <2>1, <2>3, <3>5
  <2> QED
    BY <2>2, <2>3
<1> QED
  BY <1>2, <1>4, <1>5 DEF m

\* The types of the recorder.
RecorderTyped == files \in Files /\ limits \in Limits

LEMMA LimitsTyped == ASSUME NEW l \in Limits PROVE l \in [maxAge: Nat, maxSize: Nat \ {0}]
BY LimitsAssumption

\* Before the new line the files are what cleanup has left.
LEMMA RecordTyped ==
    ASSUME RecorderTyped, Record
    PROVE  RecorderTyped' /\ [files' EXCEPT ![0] = @ - 1] = cleanup(files, limits)
<1>1. cleanup(files, limits) \in Files /\ 0 \in Ages
  BY LimitsTyped, CleanupResult, HoursTyped DEF RecorderTyped
<1> DEFINE c == cleanup(files, limits)
<1>2. files' = [c EXCEPT ![0] = @ + 1] /\ limits' = limits
  BY DEF Record
<1>3. c \in [Ages -> Nat] /\ c[0] \in Nat
  BY <1>1 DEF Files
<1> HIDE DEF c
<1>4. files' \in Files
  <2>1. c[0] + 1 \in Nat
    BY <1>3
  <2> QED
    BY <1>2, <1>3, <2>1 DEF Files
<1>5. [files' EXCEPT ![0] = @ - 1] = c
  <2>1. (c[0] + 1) - 1 = c[0]
    BY <1>3
  <2>2. files' = [c EXCEPT ![0] = c[0] + 1]
    BY <1>2
  <2>3. [files' EXCEPT ![0] = files'[0] - 1] = [c EXCEPT ![0] = c[0]]
    BY <1>1, <1>3, <2>1, <2>2
  <2>4. [c EXCEPT ![0] = c[0]] = c
    BY <1>1, <1>3
  <2> QED
    BY <2>3, <2>4
<1> QED
  BY <1>2, <1>4, <1>5 DEF RecorderTyped, c

LEMMA StepRecorderTyped == Inv /\ RecorderTyped /\ [Next]_vars => RecorderTyped'
<1> SUFFICES ASSUME Inv, RecorderTyped, [Next]_vars PROVE RecorderTyped'
  OBVIOUS
<1>1. CASE UNCHANGED recorderVars
  BY <1>1 DEF RecorderTyped, recorderVars
<1>2. CASE Record
  BY <1>2, RecordTyped
<1>3. CASE \E p \in Callers : ConfigureRecorder(p)
  <2>1. PICK p \in Callers : ConfigureRecorder(p)
    BY <1>3
  <2>2. seen[p] \in Configs
    BY DEF Inv, Typed
  <2> QED
    BY <2>1, <2>2, ConfigsAssumption DEF ConfigureRecorder, Configure, RecorderTyped
<1>4. CASE NextHour
  <2>1. \A k \in Ages : k # 0 => k - 1 \in Ages
    BY HoursTyped DEF Ages
  <2>2. files' = [k \in Ages |-> IF k = 0 THEN 0 ELSE files[k - 1]] /\ limits' = limits
    BY <1>4 DEF NextHour, Hour
  <2>3. \A k \in Ages : (IF k = 0 THEN 0 ELSE files[k - 1]) \in Nat
    BY <2>1 DEF RecorderTyped, Files
  <2> QED
    BY <2>2, <2>3 DEF RecorderTyped, Files
<1>5. UNCHANGED recorderVars \/ Record \/ (\E p \in Callers : ConfigureRecorder(p)) \/ NextHour
  BY DEF Next, vars, Ask, Hit, Miss, Answer, Store, FetchFails, Decide, Fail, View, ReadConfig,
         RecordError, Reload, Tick
<1> QED
  BY <1>1, <1>2, <1>3, <1>4, <1>5

\* Only a step that records takes a caller from a report or a fetch to idle.
LEMMA OnlyRecordReturns ==
    ASSUME Inv, Next, NEW p \in Callers, pc'[p] = "idle", pc[p] \in {"recording", "fetching", "answered"}
    PROVE  Record
<1>0. pc \in [Callers -> PCs]
  BY DEF Inv, Typed
<1>1. ASSUME NEW q \in Callers, NEW from, NEW to, Goes(q, from, to),
             from \notin {"recording", "fetching", "answered"} \/ to # "idle"
      PROVE  FALSE
  BY <1>0, <1>1 DEF Goes
<1>2. ASSUME NEW q \in Callers, Decide(q) PROVE FALSE
  BY <1>0, <1>2 DEF Decide, Leaves
<1>3. ~ UNCHANGED pc
  OBVIOUS
<1>4. CASE (\E c \in Configs : Reload(c)) \/ Tick \/ NextHour
  BY <1>3, <1>4 DEF Reload, Tick, NextHour
<1>5. CASE \E q \in Callers : FetchFails(q) \/ RecordError(q)
  BY <1>5 DEF FetchFails, RecordError
<1>6. ASSUME NEW q \in Callers,
             \/ \E a \in Asks : Ask(q, a)
             \/ Hit(q) \/ Miss(q)
             \/ \E c \in Catalogs : Answer(q, c)
             \/ Store(q) \/ Fail(q) \/ View(q) \/ ReadConfig(q) \/ ConfigureRecorder(q)
      PROVE  FALSE
  <2>1. \E from \in {"idle", "looking", "fetching", "answered", "reporting", "viewing"}, to \in PCs \ {"idle"} :
          Goes(q, from, to) \/ Goes(q, "showing", "idle") \/ Goes(q, "configuring", "recording")
    BY <1>6 DEF Ask, Hit, Miss, Answer, Store, Fail, View, ReadConfig, ConfigureRecorder, PCs
  <2> QED
    BY <1>1, <2>1
<1> QED
  BY <1>2, <1>4, <1>5, <1>6 DEF Next

-----------------------------------------------------------------------------
(***************************************************************************)
(* The cap of a request.                                                   *)
(***************************************************************************)

\* One model more, as dedupe takes it.
WithModel(out, m) == IF m = "" \/ Contains(out, m) THEN out ELSE Append(out, m)

\* The models among the ids.
Models(ids) == ToSet(ids) \ {""}

\* One model more in the sequence is one more in the set.
LEMMA WithModelResult ==
    ASSUME NEW A, NEW out \in Seq(A), NEW m \in A
    PROVE  /\ WithModel(out, m) \in Seq(A)
           /\ ToSet(WithModel(out, m)) = ToSet(out) \cup ({m} \ {""})
<1>1. Contains(out, m) <=> m \in ToSet(out)
  <2>1. DOMAIN out = 1..Len(out)
    BY LenProperties
  <2> QED
    BY <2>1 DEF Contains, ToSet
<1>2. Append(out, m) \in Seq(A) /\ ToSet(Append(out, m)) = ToSet(out) \cup {m}
  <2>1. /\ Append(out, m) \in Seq(A) /\ Len(Append(out, m)) = Len(out) + 1
        /\ Append(out, m)[Len(out) + 1] = m
        /\ \A i \in 1..Len(out) : Append(out, m)[i] = out[i]
    BY AppendProperties
  <2>2. Len(out) \in Nat /\ DOMAIN out = 1..Len(out)
    BY LenProperties
  <2>3. DOMAIN Append(out, m) = 1..(Len(out) + 1)
    BY <2>1, LenProperties
  <2>4. 1..(Len(out) + 1) = (1..Len(out)) \cup {Len(out) + 1}
    BY <2>2
  <2>5. ASSUME NEW a, DOMAIN a = (1..Len(out)) \cup {Len(out) + 1}, a[Len(out) + 1] = m,
               \A i \in 1..Len(out) : a[i] = out[i]
        PROVE  ToSet(a) = ToSet(out) \cup {m}
    BY <2>2, <2>5, Zenon DEF ToSet
  <2> QED
    BY <2>1, <2>3, <2>4, <2>5
<1> QED
  BY <1>1, <1>2 DEF WithModel

\* dedupe takes one id after the other.
LEMMA DedupeSteps ==
    ASSUME NEW A, NEW ids \in Seq(A)
    PROVE  \E h : /\ h[0] = <<>> /\ dedupe(ids) = h[Len(ids)]
                  /\ \A k \in Nat : k + 1 <= Len(ids) => h[k + 1] = WithModel(h[k], ids[k + 1])
<1> DEFINE n == Len(ids)
           V == Seq(A)
           op == [k \in 1..n |-> [v \in V |-> WithModel(v, ids[k])]]
<1>0. n \in Nat /\ DOMAIN ids = 1..n /\ \A k \in 1..n : ids[k] \in A
  BY LenProperties
<1>1. \A k \in 1..n, v \in V : WithModel(v, ids[k]) \in V
  BY <1>0, WithModelResult
<1>2. \A k \in 1..n, v \in V : op[k][v] = WithModel(v, ids[k])
  OBVIOUS
<1>3. <<>> \in V
  BY EmptySeq
<1>t. \A k \in 1..n, v \in V : op[k][v] \in V
  BY <1>1, <1>2
<1> HIDE DEF op, V, n
<1>4. PICK g \in [SUBSET (1..n) -> V] :
        \A s \in SUBSET (1..n) : g[s] = IF s = {} THEN <<>> ELSE op[Max(s)][g[s \ {Max(s)}]]
  <2> DEFINE base == <<>>
  <2>1. base \in V /\ n \in Nat
    BY <1>0, <1>3
  <2> HIDE DEF base
  <2>2. Takes(op, n, V)
    BY <1>t DEF Takes
  <2>3. PICK g \in [SUBSET (1..n) -> V] : FoldsLeft(g, n, base, op)
    BY <2>1, <2>2, LeftFoldDefined
  <2> QED
    BY <2>3 DEF base, FoldsLeft
<1>5. \A s \in SUBSET (1..n) : g[s] = IF s = {} THEN <<>> ELSE WithModel(g[s \ {Max(s)}], ids[Max(s)])
  <2> SUFFICES ASSUME NEW s \in SUBSET (1..n), s # {}
               PROVE  g[s] = WithModel(g[s \ {Max(s)}], ids[Max(s)])
    BY <1>4
  <2>1. Max(s) \in s
    <3>1. s \in SUBSET (0..n)
      BY <1>0
    <3> QED
      BY <1>0, <3>1, MaxIn
  <2>2. Max(s) \in 1..n /\ g[s \ {Max(s)}] \in V
    BY <2>1
  <2> QED
    BY <1>2, <1>4, <2>2
<1> DEFINE IsIter(it) == it = [s \in SUBSET (1..n) |->
                                 IF s = {} THEN <<>> ELSE WithModel(it[s \ {Max(s)}], ids[Max(s)])]
<1>6. IsIter(g)
  BY <1>5
<1> DEFINE it == CHOOSE x : IsIter(x)
<1>7. dedupe(ids) = it[1..n]
  BY <1>0 DEF dedupe, FoldLeft, MapThenFoldSet, WithModel
<1>8. IsIter(it)
  BY <1>6
<1> HIDE DEF it
<1>9. \A s \in SUBSET (1..n) : it[s] = IF s = {} THEN <<>> ELSE WithModel(it[s \ {Max(s)}], ids[Max(s)])
  BY <1>8
<1> DEFINE h == [k \in 0..n |-> it[1..k]]
<1>10. h[0] = <<>> /\ h[n] = it[1..n]
  <2>1. 0 \in 0..n /\ n \in 0..n
    BY <1>0
  <2>2. it[{}] = <<>>
    BY <1>9
  <2> QED
    BY <1>0, <2>1, <2>2, Segments
<1>11. ASSUME NEW k \in Nat, k + 1 <= n PROVE h[k + 1] = WithModel(h[k], ids[k + 1])
  <2>1. k \in 0..n /\ k + 1 \in 0..n
    BY <1>0, <1>11
  <2>2. 1..(k + 1) \in SUBSET (1..n)
    BY <1>0, <2>1, Segments
  <2>3. 1..(k + 1) # {} /\ Max(1..(k + 1)) = k + 1 /\ (1..(k + 1)) \ {k + 1} = 1..k
    BY <1>0, <1>11, Segments
  <2>4. it[1..(k + 1)] = WithModel(it[1..k], ids[k + 1])
    BY <1>9, <2>2, <2>3
  <2> QED
    BY <2>1, <2>4
<1> HIDE DEF h
<1> QED
  BY <1>7, <1>10, <1>11 DEF n

\* dedupe keeps the models, whatever their order (catalog.go:165-180).
LEMMA DedupeResult ==
    ASSUME NEW A, NEW ids \in Seq(A)
    PROVE  dedupe(ids) \in Seq(A) /\ ToSet(dedupe(ids)) = Models(ids)
<1> DEFINE n == Len(ids)
<1>0. n \in Nat /\ DOMAIN ids = 1..n /\ \A k \in 1..n : ids[k] \in A
  BY LenProperties
<1>1. PICK h : /\ h[0] = <<>> /\ dedupe(ids) = h[n]
               /\ \A k \in Nat : k + 1 <= n => h[k + 1] = WithModel(h[k], ids[k + 1])
  BY DedupeSteps
<1> HIDE DEF n
<1> DEFINE First(k) == {ids[i] : i \in 1..k} \ {""}
           S == {k \in Nat : h[k] \in Seq(A) /\ ToSet(h[k]) = First(k)}
<1>2. 0 \in S
  <2>1. ToSet(<<>>) = {} /\ <<>> \in Seq(A)
    BY EmptySeq DEF ToSet
  <2>2. First(0) = {}
    OBVIOUS
  <2> QED
    BY <1>1, <2>1, <2>2
<1>3. ASSUME NEW k \in Nat, k + 1 <= n, k \in S PROVE k + 1 \in S
  <2>1. h[k] \in Seq(A) /\ ToSet(h[k]) = First(k)
    BY <1>3
  <2>2. ids[k + 1] \in A
    <3>1. k + 1 \in 1..n
      <4> HIDE DEF First, S
      <4> QED
        BY <1>0, <1>3
    <3> QED
      BY <1>0, <3>1
  <2>3. First(k + 1) = First(k) \cup ({ids[k + 1]} \ {""})
    <3>1. 1..(k + 1) = (1..k) \cup {k + 1}
      OBVIOUS
    <3> QED
      BY <3>1
  <2>4. h[k + 1] = WithModel(h[k], ids[k + 1])
    BY <1>1, <1>3
  <2> HIDE DEF First
  <2>5. h[k + 1] \in Seq(A) /\ ToSet(h[k + 1]) = First(k + 1)
    <3> DEFINE out == h[k]
               m == ids[k + 1]
    <3>0. out \in Seq(A) /\ m \in A
      BY <2>1, <2>2
    <3> HIDE DEF out, m
    <3>1. /\ WithModel(out, m) \in Seq(A)
          /\ ToSet(WithModel(out, m)) = ToSet(out) \cup ({m} \ {""})
      <4> HIDE DEF S
      <4>1. \A s \in Seq(A), x \in A :
             /\ WithModel(s, x) \in Seq(A)
             /\ ToSet(WithModel(s, x)) = ToSet(s) \cup ({x} \ {""})
        BY WithModelResult, Zenon
      <4> QED
        BY <3>0, <4>1, Zenon
    <3> QED
      BY <2>1, <2>3, <2>4, <3>1 DEF out, m
  <2> QED
    BY <2>5
<1>4. \A k \in 0..n : k \in S
  <2> HIDE DEF S
  <2> QED
    BY <1>0, <1>2, <1>3, InductionTo
<1>5. h[n] \in Seq(A) /\ ToSet(h[n]) = First(n)
  <2>1. n \in 0..n
    BY <1>0
  <2>2. n \in S
    <3> HIDE DEF S
    <3> QED
      BY <1>4, <2>1
  <2> HIDE DEF First
  <2> QED
    BY <2>2
<1>6. First(n) = Models(ids)
  BY <1>0 DEF Models, ToSet
<1> QED
  BY <1>1, <1>5, <1>6

-----------------------------------------------------------------------------

\* One cap more, as maxOutput takes it.
WithCap(cap, safe) == IF cap = 0 \/ safe < cap THEN safe ELSE cap

\* maxOutput takes one cap after the other.
LEMMA CapSteps ==
    ASSUME NEW catalog, NEW ids, NEW A, dedupe(ids) \in Seq(A),
           \A k \in 1..Len(dedupe(ids)) : catalog[dedupe(ids)[k]] \in Nat \ {0}
    PROVE  \E h : /\ h[0] = 0 /\ maxOutput(catalog, ids) = h[Len(dedupe(ids))]
                  /\ \A k \in Nat : k + 1 <= Len(dedupe(ids)) =>
                        h[k + 1] = WithCap(h[k], catalog[dedupe(ids)[k + 1]] - 1)
<1> DEFINE ds == dedupe(ids)
           n == Len(ds)
           V == Nat
           safe == [k \in 1..n |-> catalog[ds[k]] - 1]
           op == [k \in 1..n |-> [v \in V |-> WithCap(v, safe[k])]]
<1>0. n \in Nat /\ DOMAIN ds = 1..n
  BY LenProperties
<1>s. \A k \in 1..n : safe[k] \in Nat /\ safe[k] = catalog[ds[k]] - 1
  OBVIOUS
<1> HIDE DEF ds, n, safe
<1>1. \A k \in 1..n, v \in V : WithCap(v, safe[k]) \in V
  BY <1>s DEF WithCap
<1>2. \A k \in 1..n, v \in V : op[k][v] = WithCap(v, safe[k])
  OBVIOUS
<1>t. \A k \in 1..n, v \in V : op[k][v] \in V
  BY <1>1, <1>2
<1>3. 0 \in V
  OBVIOUS
<1> HIDE DEF op, V
<1>4. PICK g \in [SUBSET (1..n) -> V] :
        \A s \in SUBSET (1..n) : g[s] = IF s = {} THEN 0 ELSE op[Max(s)][g[s \ {Max(s)}]]
  <2> DEFINE base == 0
  <2>1. base \in V /\ n \in Nat
    BY <1>0, <1>3
  <2> HIDE DEF base
  <2>2. Takes(op, n, V)
    BY <1>t DEF Takes
  <2>3. PICK g \in [SUBSET (1..n) -> V] : FoldsLeft(g, n, base, op)
    BY <2>1, <2>2, LeftFoldDefined
  <2> QED
    BY <2>3 DEF base, FoldsLeft
<1>5. \A s \in SUBSET (1..n) :
        g[s] = IF s = {} THEN 0 ELSE WithCap(g[s \ {Max(s)}], catalog[ds[Max(s)]] - 1)
  <2> SUFFICES ASSUME NEW s \in SUBSET (1..n), s # {}
               PROVE  g[s] = WithCap(g[s \ {Max(s)}], catalog[ds[Max(s)]] - 1)
    BY <1>4
  <2>1. Max(s) \in s
    <3>1. s \in SUBSET (0..n)
      BY <1>0
    <3> QED
      BY <1>0, <3>1, MaxIn
  <2>2. Max(s) \in 1..n /\ g[s \ {Max(s)}] \in V
    BY <2>1
  <2>3. g[s] = op[Max(s)][g[s \ {Max(s)}]]
    BY <1>4
  <2>4. op[Max(s)][g[s \ {Max(s)}]] = WithCap(g[s \ {Max(s)}], safe[Max(s)])
    BY <1>2, <2>2
  <2>5. safe[Max(s)] = catalog[ds[Max(s)]] - 1
    BY <1>s, <2>2
  <2> QED
    BY <2>3, <2>4, <2>5, Zenon
<1> DEFINE IsIter(it) == it = [s \in SUBSET (1..n) |->
                                 IF s = {} THEN 0
                                 ELSE WithCap(it[s \ {Max(s)}], catalog[ds[Max(s)]] - 1)]
<1>6. IsIter(g)
  BY <1>5
<1> DEFINE it == CHOOSE x : IsIter(x)
<1>7. maxOutput(catalog, ids) = it[1..n]
  BY <1>0 DEF maxOutput, FoldLeft, MapThenFoldSet, WithCap, ds
<1>8. IsIter(it)
  BY <1>6
<1> HIDE DEF it
<1>9. \A s \in SUBSET (1..n) :
        it[s] = IF s = {} THEN 0 ELSE WithCap(it[s \ {Max(s)}], catalog[ds[Max(s)]] - 1)
  BY <1>8
<1> DEFINE h == [k \in 0..n |-> it[1..k]]
<1>10. h[0] = 0 /\ h[n] = it[1..n]
  <2>1. 0 \in 0..n /\ n \in 0..n
    BY <1>0
  <2>2. it[{}] = 0
    BY <1>9
  <2> QED
    BY <1>0, <2>1, <2>2, Segments
<1>11. ASSUME NEW k \in Nat, k + 1 <= n
       PROVE  h[k + 1] = WithCap(h[k], catalog[ds[k + 1]] - 1)
  <2>1. k \in 0..n /\ k + 1 \in 0..n
    BY <1>0, <1>11
  <2>2. 1..(k + 1) \in SUBSET (1..n)
    BY <1>0, <2>1, Segments
  <2>3. 1..(k + 1) # {} /\ Max(1..(k + 1)) = k + 1 /\ (1..(k + 1)) \ {k + 1} = 1..k
    BY <1>0, <1>11, Segments
  <2>4. it[1..(k + 1)] = WithCap(it[1..k], catalog[ds[k + 1]] - 1)
    BY <1>9, <2>2, <2>3
  <2> QED
    BY <2>1, <2>4
<1> HIDE DEF h
<1> QED
  BY <1>7, <1>10, <1>11 DEF n, ds

\* Where no cap is one, zero is left behind with the first model and the least cap stays.
LEMMA MaxOutputResult ==
    ASSUME NEW catalog, NEW ids, NEW A, dedupe(ids) \in Seq(A), dedupe(ids) # <<>>,
           \A m \in ToSet(dedupe(ids)) : catalog[m] \in Nat /\ catalog[m] >= 2
    PROVE  /\ \A m \in ToSet(dedupe(ids)) : maxOutput(catalog, ids) <= catalog[m] - 1
           /\ \E m \in ToSet(dedupe(ids)) : maxOutput(catalog, ids) = catalog[m] - 1
<1> DEFINE ds == dedupe(ids)
           n == Len(ds)
<1>0. n \in Nat /\ DOMAIN ds = 1..n /\ n >= 1
  BY LenProperties, EmptySeq
<1>1. /\ \A k \in 1..n : ds[k] \in ToSet(ds)
      /\ \A m \in ToSet(ds) : \E k \in 1..n : m = ds[k]
  BY <1>0 DEF ToSet
<1>2. \A k \in 1..n : catalog[ds[k]] \in Nat \ {0} /\ catalog[ds[k]] >= 2
  BY <1>1
<1>3. PICK h : /\ h[0] = 0 /\ maxOutput(catalog, ids) = h[n]
               /\ \A k \in Nat : k + 1 <= n => h[k + 1] = WithCap(h[k], catalog[ds[k + 1]] - 1)
  <2>1. \A k \in 1..n : catalog[ds[k]] \in Nat \ {0}
    BY <1>2
  <2> QED
    BY <2>1, CapSteps
<1> HIDE DEF n, ds
<1> DEFINE Least(k) == /\ h[k] \in Nat /\ h[k] >= 1
                       /\ \A i \in 1..k : h[k] <= catalog[ds[i]] - 1
                       /\ \E i \in 1..k : h[k] = catalog[ds[i]] - 1
           S == {k \in Nat : k = 0 \/ Least(k)}
<1>4. ASSUME NEW k \in Nat, k + 1 <= n, k \in S PROVE Least(k + 1)
  <2> DEFINE safe == catalog[ds[k + 1]] - 1
  <2>1. safe \in Nat /\ safe >= 1
    <3>1. k + 1 \in 1..n
      <4> HIDE DEF S, Least
      <4> QED
        BY <1>0, <1>4
    <3> QED
      BY <1>2, <3>1
  <2>2. h[k + 1] = WithCap(h[k], safe)
    BY <1>3, <1>4
  <2>3. 1..(k + 1) = (1..k) \cup {k + 1}
    OBVIOUS
  <2>4. CASE k = 0
    <3>1. h[k + 1] = safe /\ 1..k = {}
      BY <1>3, <2>2, <2>4 DEF WithCap
    <3>2. \A i \in 1..(k + 1) : i = k + 1
      BY <2>3, <3>1
    <3>3. k + 1 \in 1..(k + 1)
      BY <2>3
    <3> QED
      BY <2>1, <3>1, <3>2, <3>3
  <2>5. CASE k # 0
    <3>1. Least(k)
      BY <1>4, <2>5
    <3>2. h[k + 1] = IF safe < h[k] THEN safe ELSE h[k]
      BY <2>2, <3>1 DEF WithCap
    <3>3. \A i \in 1..k : catalog[ds[i]] - 1 \in Int
      <4>1. \A i \in 1..k : i \in 1..n
        BY <1>0, <1>4
      <4> QED
        BY <1>2, <4>1
    <3>4. k + 1 \in 1..(k + 1) /\ \A i \in 1..k : i \in 1..(k + 1)
      BY <2>3
    <3> DEFINE now == h[k + 1]
               before == h[k]
               cap == [i \in 1..(k + 1) |-> catalog[ds[i]] - 1]
    <3>5. /\ before \in Nat /\ before >= 1 /\ now = IF safe < before THEN safe ELSE before
          /\ \A i \in 1..k : before <= cap[i] /\ cap[i] \in Int
          /\ \E i \in 1..k : before = cap[i]
          /\ cap[k + 1] = safe
      BY <3>1, <3>2, <3>3, <3>4
    <3>6. /\ now \in Nat /\ now >= 1
          /\ \A i \in (1..k) \cup {k + 1} : now <= cap[i]
          /\ \E i \in (1..k) \cup {k + 1} : now = cap[i]
      <4> HIDE DEF now, before, cap, safe, Least, S
      <4> QED
        BY <2>1, <3>5
    <3> QED
      BY <2>3, <3>6
  <2> QED
    BY <2>4, <2>5
<1>5. \A k \in 0..n : k \in S
  <2>1. 0 \in S
    OBVIOUS
  <2>2. \A k \in Nat : k + 1 <= n /\ k \in S => k + 1 \in S
    <3> SUFFICES ASSUME NEW k \in Nat, k + 1 <= n, k \in S PROVE k + 1 \in S
      OBVIOUS
    <3>1. Least(k + 1)
      BY <1>4
    <3> HIDE DEF Least
    <3> QED
      BY <3>1
  <2> HIDE DEF S
  <2> QED
    BY <1>0, <2>1, <2>2, InductionTo
<1>6. Least(n)
  <2>1. n \in 0..n /\ n # 0
    BY <1>0
  <2>2. n \in S
    <3> HIDE DEF S
    <3> QED
      BY <1>5, <2>1
  <2> HIDE DEF Least
  <2> QED
    BY <2>1, <2>2
<1>7. /\ \A m \in ToSet(ds) : h[n] <= catalog[m] - 1
      /\ \E m \in ToSet(ds) : h[n] = catalog[m] - 1
  BY <1>1, <1>6
<1> QED
  BY <1>3, <1>7 DEF ds

\* Models, and none.
Names == STRING \cup {""}

\* The cap of a complete catalogue without a cap of one is one less than the
\* least of its models.
LEMMA CapIsLeast ==
    ASSUME NEW catalog, NEW ids \in Seq(Names), ~ Incomplete(catalog, ids),
           \A m \in DOMAIN catalog : catalog[m] \in Nat,
           1 \notin {catalog[m] : m \in Models(ids)}
    PROVE  /\ maxOutput(catalog, ids) \in Nat
           /\ Min({catalog[m] : m \in Models(ids)}) = maxOutput(catalog, ids) + 1
<1> DEFINE C == {catalog[m] : m \in Models(ids)}
           cap == maxOutput(catalog, ids)
<1>1. dedupe(ids) \in Seq(Names) /\ ToSet(dedupe(ids)) = Models(ids)
  BY DedupeResult
<1>2. dedupe(ids) # <<>> /\ \A m \in Models(ids) : m \in DOMAIN catalog /\ catalog[m] # 0
  BY <1>1 DEF Incomplete
<1>3. \A m \in Models(ids) : catalog[m] \in Nat /\ catalog[m] >= 2
  <2> SUFFICES ASSUME NEW m \in Models(ids) PROVE catalog[m] \in Nat /\ catalog[m] >= 2
    OBVIOUS
  <2>1. catalog[m] \in Nat /\ catalog[m] # 0
    BY <1>2
  <2>2. catalog[m] # 1
    OBVIOUS
  <2> QED
    BY <2>1, <2>2
<1>4. /\ \A m \in Models(ids) : cap <= catalog[m] - 1
      /\ \E m \in Models(ids) : cap = catalog[m] - 1
  <2>1. \A m \in ToSet(dedupe(ids)) : catalog[m] \in Nat /\ catalog[m] >= 2
    BY <1>1, <1>3, Zenon
  <2>2. /\ \A m \in ToSet(dedupe(ids)) : cap <= catalog[m] - 1
        /\ \E m \in ToSet(dedupe(ids)) : cap = catalog[m] - 1
    BY <1>1, <1>2, <2>1, MaxOutputResult
  <2> QED
    BY <1>1, <2>2, Zenon
<1>5. /\ C \in SUBSET Nat /\ \A x \in C : x >= 2 /\ cap <= x - 1
      /\ \E x \in C : cap = x - 1
  BY <1>3, <1>4
<1> HIDE DEF C, cap
<1>6. PICK least \in C : cap = least - 1
  BY <1>5
<1>7. cap \in Nat /\ cap + 1 = least /\ \A y \in C : least <= y
  BY <1>5, <1>6
<1>8. Min(C) = least
  <2>1. \A x \in C : (\A y \in C : x <= y) => x = least
    <3> SUFFICES ASSUME NEW x \in C, \A y \in C : x <= y PROVE x = least
      OBVIOUS
    <3>1. x \in Nat /\ least \in Nat /\ x <= least /\ least <= x
      BY <1>5, <1>7
    <3> QED
      BY <3>1
  <2> QED
    BY <1>7, <2>1 DEF Min
<1> QED
  BY <1>7, <1>8 DEF C, cap

\* What a request asks.
AskType == [model: Names, field: Nat, alt: Nat]

\* What applyBudgetPolicy makes of any request, configuration and catalogue.
LEMMA PolicyResult ==
    ASSUME NEW a \in AskType, NEW c \in Configs, NEW catalog \in Held,
           budgetPolicy(a, c, catalog).verdict # "incomplete",
           1 \notin {catalog[m] : m \in Models(ActiveModels(a, c))}
    PROVE  LET least == Min({catalog[m] : m \in Models(ActiveModels(a, c))})
           IN  /\ budgetPolicy(a, c, catalog).verdict # "rejected"
                    => budgetPolicy(a, c, catalog).tokens[usedField(a)] < least
               /\ budgetPolicy(a, c, catalog).verdict # "passed" => requested(a) >= least
<1> DEFINE ids == ActiveModels(a, c)
           cap == maxOutput(catalog, ids)
           least == Min({catalog[m] : m \in Models(ids)})
           first == IF a.model = "" THEN c.defaultModel ELSE a.model
<1>1. ids \in Seq(Names)
  <2>1. first \in Names /\ c.tiers \in Seq(Names)
    <3>1. c.tiers \in Seq(STRING) /\ c.defaultModel \in Names
      BY ConfigsAssumption DEF Names
    <3>2. STRING \subseteq Names
      BY DEF Names
    <3>3. Seq(STRING) \subseteq Seq(Names)
      BY <3>2, SeqMonotonic
    <3> QED
      BY <3>1, <3>3 DEF AskType
  <2> HIDE DEF first
  <2>2. <<first>> \in Seq(Names)
    BY <2>1
  <2>3. <<first>> \o c.tiers \in Seq(Names)
    BY <2>1, <2>2, ConcatProperties
  <2> QED
    BY <2>3 DEF ActiveModels, first
<1>2. ~ Incomplete(catalog, ids)
  <2> SUFFICES ASSUME Incomplete(catalog, ids) PROVE FALSE
    OBVIOUS
  <2>1. budgetPolicy(a, c, catalog) = [Passed(a) EXCEPT !.verdict = "incomplete"]
    BY DEF budgetPolicy
  <2>2. [Passed(a) EXCEPT !.verdict = "incomplete"].verdict = "incomplete"
    BY DEF Passed
  <2> QED
    BY <2>1, <2>2
<1>3. \A m \in DOMAIN catalog : catalog[m] \in Nat
  BY CatalogsAssumption DEF Held
<1> HIDE DEF ids
<1>4. cap \in Nat /\ least = cap + 1
  BY <1>1, <1>2, <1>3, CapIsLeast DEF ids
<1>5. requested(a) \in Nat /\ usedField(a) \in {"field", "alt"} /\ requested(a) = a[usedField(a)]
  BY DEF requested, usedField, AskType
<1>6. CASE requested(a) <= cap
  <2>1. budgetPolicy(a, c, catalog) = Passed(a)
    BY <1>2, <1>4, <1>5, <1>6 DEF budgetPolicy, ids
  <2>2. Passed(a).tokens[usedField(a)] = requested(a) /\ Passed(a).verdict = "passed"
    BY <1>5 DEF Passed
  <2>3. requested(a) < least
    BY <1>4, <1>5, <1>6
  <2> QED
    BY <2>1, <2>2, <2>3 DEF ids
<1>7. CASE requested(a) > cap
  <2>1. ~ (requested(a) <= cap)
    BY <1>4, <1>5, <1>7
  <2>2. requested(a) >= least
    BY <1>4, <1>5, <1>7
  <2>3. budgetPolicy(a, c, catalog) =
          IF c.clamp
            THEN [verdict |-> "clamped", tokens |-> [a EXCEPT ![usedField(a)] = cap]]
            ELSE [verdict |-> "rejected", tokens |-> a]
    BY <1>2, <1>7, <2>1 DEF budgetPolicy, ids
  <2>4. CASE c.clamp
    <3>1. /\ budgetPolicy(a, c, catalog).tokens = [a EXCEPT ![usedField(a)] = cap]
          /\ budgetPolicy(a, c, catalog).verdict = "clamped"
      BY <2>3, <2>4
    <3>2. [a EXCEPT ![usedField(a)] = cap][usedField(a)] = cap
      BY <1>5 DEF AskType
    <3>3. cap < least
      BY <1>4
    <3> QED
      BY <2>2, <3>1, <3>2, <3>3 DEF ids
  <2>5. CASE ~ c.clamp
    <3>1. budgetPolicy(a, c, catalog).verdict = "rejected"
      BY <2>3, <2>5
    <3> QED
      BY <2>2, <3>1 DEF ids
  <2> QED
    BY <2>4, <2>5
<1> QED
  BY <1>4, <1>5, <1>6, <1>7

\* What every caller asks has its type.
AsksTyped == ask \in [Callers -> AskType]

LEMMA NoAskTyped == NoAsk \in AskType
BY DEF NoAsk, AskType, Names

LEMMA StepAsksTyped == Inv /\ AsksTyped /\ [Next]_vars => AsksTyped'
<1> SUFFICES ASSUME AsksTyped, [Next]_vars PROVE AsksTyped'
  OBVIOUS
<1> USE DEF AsksTyped
<1>1. ASSUME NEW p \in Callers, NEW a \in Asks, Ask(p, a) PROVE AsksTyped'
  BY <1>1, AsksAssumption DEF Ask, AskType, Names
<1>2. ASSUME NEW p \in Callers, NEW to, Leaves(p, to) PROVE AsksTyped'
  BY <1>2, NoAskTyped DEF Leaves
<1>3. ASSUME UNCHANGED ask PROVE AsksTyped'
  BY <1>3
<1> QED
  BY <1>1, <1>2, <1>3
     DEF Next, vars, budgetVars, Hit, Miss, Answer, Store, FetchFails, Decide, Fail, View,
         ReadConfig, ConfigureRecorder, RecordError, Reload, Tick, NextHour

\* A decision is as the policy says of what its caller asks, has read and was given.
LEMMA CapKept == Inv /\ AsksTyped => ForwardedWithinCap
<1> SUFFICES ASSUME Inv, AsksTyped, NEW p \in Callers, pc[p] = "deciding",
                    outcome(p).verdict # "incomplete", 1 \notin Caps(p)
             PROVE  /\ outcome(p).verdict # "rejected"
                         => outcome(p).tokens[usedField(ask[p])] < Min(Caps(p))
                    /\ outcome(p).verdict # "passed" => requested(ask[p]) >= Min(Caps(p))
  BY DEF ForwardedWithinCap
<1>1. ask[p] \in AskType /\ seen[p] \in Configs /\ got[p].catalog \in Held
  BY DEF Inv, Typed, AsksTyped
<1>2. Caps(p) = {got[p].catalog[m] : m \in Models(ActiveModels(ask[p], seen[p]))}
  BY DEF Caps, Models
<1>3. outcome(p) = budgetPolicy(ask[p], seen[p], got[p].catalog)
  BY DEF outcome
<1> QED
  BY <1>1, <1>2, <1>3, PolicyResult

-----------------------------------------------------------------------------
(***************************************************************************)
(* Theorems.                                                               *)
(***************************************************************************)

\* The invariant holds in every reachable state.
THEOREM InvCorrect == Spec => []Inv
  BY InitInv, StepInv, PTL DEF Spec

\* For any number of handlers, catalogues and configurations, a decision is made
\* on data at most one TTL and one timeout old (catalog.go:46-83).
THEOREM CatalogFreshCorrect == Spec => []CatalogFresh
<1>1. Inv => CatalogFresh
  BY DEF Inv
<1> QED
  BY InvCorrect, <1>1, PTL

\* For any number of handlers, and whether or not the directory can be made: between
\* two reloads no handler falls behind, and each that is behind sets limits other
\* than those in force at most once (service.go:428-431, admin_logs.go:58, 86).
THEOREM RecorderUndoneOnceCorrect == Spec => RecorderUndoneOnce
<1>1. Inv /\ [Next]_vars =>
        [cfg' = cfg =>
            /\ Behind' \subseteq Behind
            /\ limits' # limits /\ limits' # cfg.limits =>
                  \E p \in Behind : Behind' = Behind \ {p}]_vars
  BY StepUndoing DEF Undoing
<1> QED
  BY <1>1, InvCorrect, PTL DEF Spec, RecorderUndoneOnce

\* The files hold numbers of lines, and the limits are those of a configuration,
\* however errors, reloads and hours follow each other.
THEOREM RecorderTypeCorrect == Spec => []RecorderTyped
<1>1. Init => RecorderTyped
  BY ConfigsAssumption DEF Init, RecorderInit, RecorderTyped, Files
<1> QED
  BY <1>1, InvCorrect, StepRecorderTyped, PTL DEF Spec

\* For any hours and limits, and any handlers that record and configure: with a
\* new line no file is too old, what stays fits, and a file is given up only if
\* it would not fit beside the newer ones (error_events.go:93-135).
THEOREM LogKeptCorrect == Spec => LogKept
<1> DEFINE Before == [files' EXCEPT ![0] = @ - 1]
           LinesKept(p) == pc'[p] = "idle" /\ pc[p] \in {"recording", "fetching", "answered"} =>
                        /\ Lines(Before, Ages) <= limits.maxSize
                        /\ \A k \in Ages :
                              Before[k] = IF k > limits.maxAge \/ Lines(files, 0..k) > limits.maxSize
                                            THEN 0 ELSE files[k]
<1>1. Inv /\ RecorderTyped /\ [Next]_vars => [\A p \in Callers : LinesKept(p)]_vars
  <2> SUFFICES ASSUME Inv, RecorderTyped, Next, NEW p \in Callers,
                      pc'[p] = "idle", pc[p] \in {"recording", "fetching", "answered"}
               PROVE  /\ Lines(Before, Ages) <= limits.maxSize
                      /\ \A k \in Ages :
                            Before[k] = IF k > limits.maxAge \/ Lines(files, 0..k) > limits.maxSize
                                          THEN 0 ELSE files[k]
    OBVIOUS
  <2>1. Record
    BY OnlyRecordReturns
  <2>2. Before = cleanup(files, limits)
    BY <2>1, RecordTyped
  <2>3. files \in Files /\ limits \in [maxAge: Nat, maxSize: Nat \ {0}]
    BY LimitsTyped DEF RecorderTyped
  <2> HIDE DEF Before
  <2> QED
    BY <2>2, <2>3, CleanupResult
<1> QED
  BY <1>1, InvCorrect, RecorderTypeCorrect, PTL DEF Spec, LogKept

\* For any handlers, catalogues and configurations, and any number of models: what
\* goes on has fewer tokens than the least cap of its models, and what is rejected
\* or clamped asked for as many (catalog.go:108-136, service.go:311-350).
THEOREM ForwardedWithinCapCorrect == Spec => []ForwardedWithinCap
<1>1. Init => AsksTyped
  BY NoAskTyped DEF Init, AsksTyped
<1> QED
  BY <1>1, InvCorrect, StepAsksTyped, CapKept, PTL DEF Spec
=============================================================================
