------------------------------- MODULE Budget -------------------------------
(***************************************************************************)
(* catalog.go, CatalogService.Get, with service.go, applyBudgetPolicy and  *)
(* recordError, and the recorder of admin_logs.go's handlers: the output   *)
(* cap of a request comes from a catalogue that is cached without a lock   *)
(* around the fetch, the failures of both are recorded, and a reload may   *)
(* change the configuration between any two steps.                         *)
(*                                                                         *)
(* The cache has one entry per upstream address and key; this module has   *)
(* one entry.  Ages are counted in steps of the clock (Tick), which runs   *)
(* apart from the hours of the recorder's files (Hour).                    *)
(***************************************************************************)
EXTENDS SafeTier, ErrorRecorder

CONSTANTS
    Callers,        \* handlers, one request each
    Asks,           \* what a request may ask: [model, field, alt]
    Catalogs,       \* the catalogues the upstream may answer with
    Configs,        \* [defaultModel, tiers, clamp, catalogTTL, limits]
    FetchTimeout,   \* http.Client.Timeout; its zero, which means none, is left out
    Never           \* no catalogue is cached

ASSUME TimeoutAssumption == FetchTimeout \in Nat
ASSUME ConfigsAssumption ==
    \A c \in Configs : /\ c.catalogTTL \in Nat \ {0} /\ c.limits \in Limits
                       /\ c.defaultModel \in STRING /\ c.tiers \in Seq(STRING)
                       /\ c.clamp \in BOOLEAN
ASSUME AsksAssumption == \A a \in Asks : a \in [model: STRING, field: Nat, alt: Nat]
ASSUME CatalogsAssumption == \A c \in Catalogs : \A m \in DOMAIN c : c[m] \in Nat

VARIABLES
    cfg,        \* Service.currentConfig
    cache,      \* byKey: Never, or [catalog, since, age]: Fetched and the age of the data
    pc,         \* where a caller is
    ask,        \* what its request asks
    seen,       \* the configuration it has read
    got,        \* what Get returned, or is about to: [catalog, age]
    elapsed     \* how long its fetch has run

budgetVars == <<cfg, cache, ask, got, elapsed>>
vars == <<budgetVars, pc, seen, recorderVars>>

PCs == {"idle", "looking", "fetching", "answered", "deciding",
        "reporting", "viewing", "configuring", "showing", "recording"}

NoAsk == [model |-> "", field |-> 0, alt |-> 0]

Unread == CHOOSE c \in Configs : TRUE

Nothing == [catalog |-> <<>>, age |-> 0]

\* An entry of this age is used under no configuration, and kept as Never.
MaxTTL == Max({c.catalogTTL : c \in Configs})

Goes(p, from, to) == pc[p] = from /\ pc' = [pc EXCEPT ![p] = to]

-----------------------------------------------------------------------------
(***************************************************************************)
(* applyBudgetPolicy and Get.                                              *)
(***************************************************************************)

\* A request that asks for no number of tokens is passed as it is, and is no step.
Ask(p, a) ==
    /\ Goes(p, "idle", "looking")
    /\ requested(a) # 0
    /\ ask' = [ask EXCEPT ![p] = a]
    /\ seen' = [seen EXCEPT ![p] = cfg]
    /\ UNCHANGED <<cfg, cache, got, elapsed, recorderVars>>

Fresh(p) == cache # Never /\ cache.since < seen[p].catalogTTL

\* Mutant: a hit makes the entry new.
HitRenews(p) ==
    /\ Goes(p, "looking", "deciding")
    /\ Fresh(p)
    /\ got' = [got EXCEPT ![p] = [catalog |-> cache.catalog, age |-> cache.age]]
    /\ cache' = [cache EXCEPT !.since = 0]
    /\ UNCHANGED <<cfg, ask, seen, elapsed, recorderVars>>

Hit(p) ==
    /\ Goes(p, "looking", "deciding")
    /\ Fresh(p)
    /\ got' = [got EXCEPT ![p] = [catalog |-> cache.catalog, age |-> cache.age]]
    /\ UNCHANGED <<cfg, cache, ask, seen, elapsed, recorderVars>>

\* The lock is given up for the fetch.
Miss(p) ==
    /\ Goes(p, "looking", "fetching")
    /\ ~ Fresh(p)
    /\ elapsed' = [elapsed EXCEPT ![p] = 0]
    /\ UNCHANGED <<cfg, cache, ask, seen, got, recorderVars>>

\* The upstream answers with the catalogue of the moment.
Answer(p, c) ==
    /\ Goes(p, "fetching", "answered")
    /\ got' = [got EXCEPT ![p] = [catalog |-> c, age |-> 0]]
    /\ UNCHANGED <<cfg, cache, ask, seen, elapsed, recorderVars>>

\* Get reads the answer to its end and stores it, over whatever is there.
Store(p) ==
    /\ Goes(p, "answered", "deciding")
    /\ cache' = [catalog |-> got[p].catalog, since |-> 0, age |-> got[p].age]
    /\ elapsed' = [elapsed EXCEPT ![p] = 0]
    /\ UNCHANGED <<cfg, ask, seen, got, recorderVars>>

\* The caller is done with the catalogue, and goes on or is free for another request.
Leaves(p, next) ==
    /\ pc' = [pc EXCEPT ![p] = next]
    /\ ask' = [ask EXCEPT ![p] = NoAsk]
    /\ got' = [got EXCEPT ![p] = Nothing]
    /\ seen' = [seen EXCEPT ![p] = Unread]

\* The call fails, has another status, or does not decode: Get records that with
\* the recorder's limits of the moment, and the request is passed as it is.
FetchFails(p) ==
    /\ pc[p] \in {"fetching", "answered"}
    /\ Leaves(p, "idle")
    /\ elapsed' = [elapsed EXCEPT ![p] = 0]
    /\ Record
    /\ UNCHANGED <<cfg, cache>>

\* What applyBudgetPolicy is about to return to p.
outcome(p) == budgetPolicy(ask[p], seen[p], got[p].catalog)

\* A rejected request is answered with 400 once its rejection is recorded.
Decide(p) ==
    /\ pc[p] = "deciding"
    /\ Leaves(p, IF outcome(p).verdict = "rejected" THEN "reporting" ELSE "idle")
    /\ UNCHANGED <<cfg, cache, elapsed, recorderVars>>

-----------------------------------------------------------------------------
(***************************************************************************)
(* recordError, which every handler calls for its failures, and the two    *)
(* log handlers of the admin interface.                                    *)
(***************************************************************************)

\* Another failure than a rejection.
Fail(p) ==
    /\ Goes(p, "idle", "reporting")
    /\ UNCHANGED <<budgetVars, seen, recorderVars>>

View(p) ==
    /\ Goes(p, "idle", "viewing")
    /\ UNCHANGED <<budgetVars, seen, recorderVars>>

\* Mutant: the configuration of the start, and not the one in force.
ReadStartConfig(p) ==
    /\ Goes(p, "reporting", "configuring") \/ Goes(p, "viewing", "showing")
    /\ seen' = [seen EXCEPT ![p] = Unread]
    /\ UNCHANGED <<budgetVars, recorderVars>>

ReadConfig(p) ==
    /\ Goes(p, "reporting", "configuring") \/ Goes(p, "viewing", "showing")
    /\ seen' = [seen EXCEPT ![p] = cfg]
    /\ UNCHANGED <<budgetVars, recorderVars>>

ConfigureRecorder(p) ==
    /\ Goes(p, "configuring", "recording") \/ Goes(p, "showing", "idle")
    /\ Configure(seen[p].limits)
    /\ seen' = [seen EXCEPT ![p] = Unread]
    /\ UNCHANGED budgetVars

RecordError(p) ==
    /\ Goes(p, "recording", "idle")
    /\ Record
    /\ UNCHANGED <<budgetVars, seen>>

-----------------------------------------------------------------------------

Reload(c) ==
    /\ c # cfg
    /\ cfg' = c
    /\ UNCHANGED <<cache, pc, ask, seen, got, elapsed, recorderVars>>

\* Time passes; http.Client.Timeout ends every fetch.
Tick ==
    /\ \A p \in Callers : pc[p] \in {"fetching", "answered"} => elapsed[p] < FetchTimeout
    /\ elapsed' = [p \in Callers |->
                     IF pc[p] \in {"fetching", "answered"} THEN elapsed[p] + 1 ELSE elapsed[p]]
    /\ got' = [p \in Callers |->
                 IF pc[p] = "answered" THEN [got[p] EXCEPT !.age = @ + 1] ELSE got[p]]
    /\ cache' = IF cache = Never \/ cache.since + 1 = MaxTTL THEN Never
                ELSE [cache EXCEPT !.since = @ + 1, !.age = @ + 1]
    /\ UNCHANGED <<cfg, pc, ask, seen, recorderVars>>

NextHour == Hour /\ UNCHANGED <<budgetVars, pc, seen>>

Init ==
    /\ cfg \in Configs
    /\ cache = Never
    /\ pc = [p \in Callers |-> "idle"]
    /\ ask = [p \in Callers |-> NoAsk]
    /\ seen = [p \in Callers |-> Unread]
    /\ got = [p \in Callers |-> Nothing]
    /\ elapsed = [p \in Callers |-> 0]
    /\ RecorderInit(cfg.limits)

Next ==
    \/ \E p \in Callers :
         \/ \E a \in Asks : Ask(p, a)
         \/ Hit(p)
         \/ Miss(p)
         \/ \E c \in Catalogs : Answer(p, c)
         \/ Store(p)
         \/ FetchFails(p)
         \/ Decide(p)
         \/ Fail(p)
         \/ View(p)
         \/ ReadConfig(p)
         \/ ConfigureRecorder(p)
         \/ RecordError(p)
    \/ \E c \in Configs : Reload(c)
    \/ Tick
    \/ NextHour

Spec == Init /\ [][Next]_vars

-----------------------------------------------------------------------------
(***************************************************************************)
(* Properties.                                                             *)
(***************************************************************************)

\* The caps of the models that count for p's request, in the catalogue it used.
Caps(p) ==
    {got[p].catalog[m] : m \in ToSet(ActiveModels(ask[p], seen[p])) \ {""}}

\* A request that was held against a catalogue goes on with fewer tokens than
\* the cap of any of its models, in the field that was looked at, and one that
\* is rejected asked for too many (SafeTier, catalog.go:108-136; service.go:311-350).
\* A catalogue in which one of them has a cap of one is the exception.
ForwardedWithinCap ==
    \A p \in Callers :
        pc[p] = "deciding" /\ outcome(p).verdict # "incomplete" /\ 1 \notin Caps(p) =>
            /\ outcome(p).verdict # "rejected"
                 => outcome(p).tokens[usedField(ask[p])] < Min(Caps(p))
            /\ outcome(p).verdict # "passed" => requested(ask[p]) >= Min(Caps(p))

\* However fetches overlap, whichever answer comes last and whatever a reload
\* does to the TTL, what Get returns is data that the upstream gave at most one
\* TTL and one call's timeout ago (catalog.go:46-83).  The age is that of the moment
\* Get returns.  A timeout of zero, with which a call may last for ever, is left out.
CatalogFresh ==
    \A p \in Callers :
        pc[p] = "deciding" => got[p].age <= seen[p].catalogTTL + FetchTimeout

\* What cleanupLocked promises of the files (error_events.go:93-135), on a disk that
\* lists and removes them: when a line is recorded, no file older than the limit
\* stays, what stays is the newest files, they fit into the limit before the new
\* line, and a file is given up only if it would not fit beside the newer ones.
LogKept ==
    [][\A p \in Callers : pc'[p] = "idle" /\ pc[p] \in {"recording", "fetching", "answered"} =>
          LET before == [files' EXCEPT ![0] = @ - 1]
          IN  /\ Lines(before, Ages) <= limits.maxSize
              /\ \A k \in Ages :
                    before[k] = IF k > limits.maxAge \/ Lines(files, 0..k) > limits.maxSize
                                  THEN 0 ELSE files[k]]_vars

\* The recorder catches up with the configuration (service.go:419-434,
\* admin_logs.go:48-98): once reloads stop, and as long as configuring keeps
\* succeeding, it ends up with the limits in force and keeps them.  Until then it
\* may go back to older limits, any number of times, through handlers that read the
\* configuration before a reload, and stay behind while the directory cannot be made.
RecorderCatchesUp ==
    /\ <>[][FALSE]_cfg
    /\ []<><<\E p \in Callers : ConfigureRecorder(p) /\ limits' = seen[p].limits>>_vars
    => <>[](limits = cfg.limits)

\* The handlers that are about to configure the recorder with another configuration
\* than the one in force.
Behind == {p \in Callers : pc[p] \in {"configuring", "showing"} /\ seen[p] # cfg}

\* Between two reloads no handler falls behind, and whenever the recorder takes limits
\* other than those in force, one that was behind is so no longer: after the last
\* reload each slow handler undoes the recorder's limits at most once
\* (service.go:428-431, admin_logs.go:58, 86).
RecorderUndoneOnce ==
    [][cfg' = cfg =>
          /\ Behind' \subseteq Behind
          /\ limits' # limits /\ limits' # cfg.limits =>
                \E p \in Behind : Behind' = Behind \ {p}]_vars
=============================================================================
