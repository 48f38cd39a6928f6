# TLA+ for the umans transparent gateway

Specifications, model checking and proofs for the concurrent core of the gateway
in `src/internal/gateway`. Line numbers refer to that directory unless a path is
given.

## 1. The system

The gateway is one Go process between API clients and one upstream. A request
arrives over HTTP or on a WebSocket, is authenticated, takes a **lease** on an
upstream key, is sent upstream with retries, is streamed back, and returns its
lease. There are two ways to get a lease. Without managed keys the client's own
key goes through a first-come first-served gate (`KeyLimiter`, or `AcquireLegacy`
when there is a runtime store). With managed keys `RuntimeStore.AcquireManaged`
chooses one of the keys of a file: it balances by load, keeps a session on its
key, avoids keys that have produced errors, and follows changes of both files
while requests wait.

| Component | State it keeps | Operations | Interacts with |
|---|---|---|---|
| Legacy key limiter (`key_limiter.go`) | `buckets`: per key `active`, queue of channels | `Acquire`, `release`, `removeWaiter` | handlers, one goroutine per call |
| Runtime store (`runtime_store.go`) | `cfg`, `keyFile`, `active`, `sticky`, `keyErrors`, `legacyActive`, `notify` | `AcquireManaged`, `AcquireLegacy`, release, `RecordKeyError`, `ResetKeyBackoff`, `Reload`, `Status`, saving and editing keys | handlers, admin interface, 2 s watcher |
| Configuration and key files (`config.go`, `config_files.go`) | two JSON files | load, validate, write to a temporary file and rename | store, admin interface, editors of the files |
| Upstream retry (`retry.go`) | none across calls | `doUpstreamWithRetry` | handlers, upstream |
| HTTP handlers (`service.go`, `responses.go`) | per request only | `proxyJSON`, `handleResponses` | store or limiter, retry, recorder |
| WebSocket bridge (`service.go:629-792`) | cancel table per socket | `handleWS`, `runWSRequest` | as above, several requests per socket |
| Model catalogue (`catalog.go`) | one cached catalogue | `Get`, `SafeTier` | budget policy |
| Admin sessions (`admin_sessions.go`) | sessions, login attempts | create, check, clear, allow, fail | admin interface |
| Admin interface (`admin.go`, `admin_logs.go`) | none of its own | edits of configuration and keys, login, logs | store, sessions, recorder |
| Error recorder (`error_events.go`) | a file per hour, its limits | `Record`, `Configure`, cleanup | handlers, catalogue, log handlers |
| Authentication, model names (`auth.go`, `model_normalize.go`) | none | pure functions | handlers |
| Start and logging (`cmd/gateway/main.go`, `log.go`), admin web page | none | wiring, presentation | |

### What is hard, and what must hold

* **Legacy limiter.** A timeout or a cancellation races the release that hands
  over a slot. No slot may be lost or made up, nobody may wait beside a free slot,
  and the bare receives after a lost race must not block.
* **Managed keys.** Waiters sleep on a broadcast channel; every change that could
  help them must close it, and they must have captured it in the section in which
  they found nothing. A reload may lower limits and remove or bring back keys that
  are leased. Counts must stay the number of leases, grants must respect the
  limits in force, a session must stay on its key while the key is usable, and
  every request must be answered by its deadline.
* **Error window and backoff.** Errors arrive late, windows go stale, records are
  cleaned up, and limits change between the read of the configuration and the
  lock. A backoff needs as many errors as the threshold says, and is not prolonged
  by late ones.
* **Retry and handlers.** Every path from the lease to the release must answer
  once, release once, and charge the key at most once and never for a client that
  left; retries must respect a configuration that changes under them. An error
  body is read twice and still has to reach the client.
* **Two modes.** A request asks whether there are managed keys, and acts on the
  answer later. Requests of both kinds wait on one channel while a reload changes
  the mode and the limit. The clients' own counts must be exact, and no waiter may
  be left asleep beside a free slot.
* **Files and admin.** Both files are read, changed and written outside the lock,
  through a temporary file of a fixed name; reloads overlap and install what they
  have read in any order; the process may die between two system calls; a login
  may straddle the change of the password. Files must stay loadable, keys must not
  vanish, sessions of an old password must not live on, and the store must end up
  with what the files hold, each as far as the code goes.
* **WebSocket bridge.** Ids used twice, a cancel against the end of the request, a
  message cut off in its middle, an upstream that is silent when the request is
  aborted.
* **Catalogue, recorder, converted streams.** Concurrent misses, an older answer
  that comes last, the size limit, a recorder configured by a slow handler, a
  stream that breaks and must not be called complete.

`PROJECT.json` lists these hazards at their lines with the properties that cover
them; the few without a property say why.

## 2. The modules

| Module | Models | Lines of code |
|---|---|---|
| `SlotPool` | abstract: slots of a key and one line of clients | |
| `KeyLimiter` | `key_limiter.go`, implements `SlotPool` | 19-142 |
| `KeyErrors` | operators on a `keyErrorState` | `runtime_store.go` 553-610 |
| `KeyErrorWindow` | `RecordKeyError` of one key next to a rolling count | 310-339, 553-610 |
| `KeyPool` | managed keys of the store | 137-169, 196-231, 310-339, 387-610, 698-737 |
| `StickySwitch` | `KeyPool` with the sticky key a request was told to wait for | |
| `GatewayKeys` | `KeyPool` with the clients' own keys and the choice between both, implements `KeyUse` | `service.go` 357-390, `runtime_store.go` 233-237, 355-385, 454-464 |
| `LeaseUse` | abstract: what the store may expect of a request | |
| `ProxyRequest` | a request in any of the handlers, implements `LeaseUse` | `retry.go`, `service.go` 202-291, 436-468, 691-787, `responses.go` 27-101, 243-297 |
| `ErrorBody` | an error body under two readers and an append | `retry.go` 80-89, `service.go` 270-309 |
| `ConfigStore` | both files, the watcher, the admin requests and sessions | `runtime_store.go` 94-169, 239-308, 341-353, `config_files.go` 68-147, `admin.go` 69-241, `admin_sessions.go` 94-161 |
| `WSBridge` | the requests of one socket | `service.go` 637-792 |
| `SafeTier` | operators: the output cap and the budget policy | `catalog.go` 108-180, `service.go` 311-350 |
| `ErrorRecorder` | the hourly files of the recorder | `error_events.go` 22-135 |
| `Budget` | catalogue cache, `SafeTier` and `ErrorRecorder` together | `catalog.go` 46-106, `service.go` 231-240, 311-350, 419-434, `admin_logs.go` 48-98 |
| `KeyUse` | abstract: what the upstream sees of the requests on a key | |
| `*Proofs` | theorems about the module of that name; `KeyPoolProofs` also about `GatewayKeys` | |
| `FoldTheorems` | lemmas on induction, sums and folds | |
| `MC*` | values of the constants for TLC | |

### KeyLimiter

Every section of `l.mu` is an action. A call is at the `select` (`waiting`), between
the branch it took and `removeWaiter` (`timedOut`, `canceled`), in the receive of
lines 77 and 83 (`draining`), or has its lease. A queue entry is the call whose
channel it is, and `ready` says that the channel is closed. `release` closes the
first channel and leaves the count alone, or counts down and deletes an empty
bucket. `Release` may be called again (`sync.Once`). The channels are fresh for
each call, so `Arrive` opens a new one. A call owns a slot from the moment its
channel is closed, wherever it is; that is the `holders` of `SlotPool`.

### KeyPool

Every section of `s.mu` is an action. The turn of the loop in `AcquireManaged` is
one section with six outcomes, an action each: no enabled key, the sticky key
with room, a sticky key that is passed over for its backoff, a wait for the full
sticky key, a balanced grant, and a wait for any key. Each includes the cleanup at
the head of the turn. `signalLocked` marks every request that has captured the
current channel as woken. `ReadErrorConfig` and `RecordKeyError` are two steps
because the configuration is read before the lock is taken. `Release` includes the
signal, `Reload` the cleanups and the signal. Time is relative: a moment is the number
of ticks until it, so that the state space stays finite without a horizon; `Tick`
may come between any two sections. `pickAvailableKeyLocked` is the least of the
usable keys in its order; ids are numbers for the sake of that order.
`lapsed` is a history variable: the keys whose backoff ran out since the last
signal, which the code announces to nobody.

### GatewayKeys

`Ask` is `HasManagedKeys`: it puts a request or a client into `chosen`, and the
arrival, which takes it out, comes later and under whatever mode is in force by
then. Clients hold `lpc`, `lleft` and `lwoken` as the requests of `KeyPool` hold theirs. Every step of
`KeyPool` that closes the channel wakes the clients (`legacySignal`), and a client's release
wakes the managed requests (`LegacySignal` of `KeyPool`). `PoolStep` sorts the steps of `KeyPool` by that.
A client may come back when it is done. Errors of authentication, which end a
request before it asks for a key, are left out.

`KeyUse` is the same gateway without counts, waiting, sessions and modes: a key of
either kind has the set of requests that are on it and a number of requests that
are allowed on it. A request starts only on one key, and only while that set is
smaller than the number; the number may become anything at any time. In
`GatewayKeys` it is the limit in force, and zero while a managed key is disabled or cools
down, so that the cleanup at the head of a turn must not end a backoff in the same
section that hands out the key.

### KeyErrors and KeyErrorWindow

`KeyErrors` has the pure part: the stale window, the count, the threshold, the
cleanup. `KeyErrorWindow` runs it for one key beside `recent`, the errors of the
last window by age, which is what a rolling window would count.

### ProxyRequest

The four handlers (`proxyJSON`, `handleResponses` with and without a stream,
`runWSRequest`) differ in when they answer and what they report, so the handler
is a variable and the differences are in `BeginAnswer`, `fault` and `Finish`. The loop of
`doUpstreamWithRetry` is `Start` (which reads the bound), one action per outcome of
`client.Do` and of reading the body, and `Retry` or `StopRetrying` for `waitRetry`.
Statuses are the classes the code tells apart, bodies the set of phrases it
looks for, errors what `isClientCancellation` makes of them. The client may leave
at any step, a reload may come at any step. `blamed` records that the upstream has
failed the request. On the WebSocket an answer is the last message of
`runWSRequest`; what `handleWS` itself writes is not part of it. `stream` is the last event
of a converted stream: `convertChatStreamToResponses` says `response.completed` when the
upstream says `[DONE]` (`StreamDone`) or when its stream ends without an error (`BodyEnds`), and
nothing when it breaks (`BodyBreaks`).

### ErrorBody

Slices are modelled with the arrays under them: `io.ReadAll` leaves some room to
spare in its array, and `append` writes into that array when the mark fits.
`BodyLimit` stands for the 1 MiB after which an error body is cut off, also when no
retry follows; the run keeps it above every body, so that what it finds is the append
alone. A body beyond the limit would break the same property.

### ConfigStore

A step is one system call, or one section under a lock. `job` is what a goroutine
saves; `BeginSaveConfig`, `BeginUpsertKey` and `BeginDeleteKey` take it from the store, `OpenTmp` truncates
`path.tmp`, `Write` writes it, `Rename` renames it, and `ReadConfig`, `ReadKeys`, `Install` are the
`Reload` that follows; `ClearSessions` ends a save that changed the password. The name of the
temporary file is fixed, so a second writer truncates the file the first one
holds open, and may write on after the rename: `fd` follows the open file from one
name to the other. `Main` starts the gateway (`EnsureConfigFile`, then a `Reload` that must
succeed) and then is the watcher. `Crash` forgets all but the files; `EditFile` is an
operator's editor. Of a configuration the password is kept, of a key file the
ids; a file that does not parse or does not validate is `Bad`.

The history variables say what the properties excuse. `overlapped` has the files
that two goroutines wrote at once. `stale` has the admins whose copy of the keys is
not what `key.json` holds. `raced` has the browsers whose login was compared with the old
password and finished after the clearing. `loose` is set by a change of the password
that clears nothing: by hand, by a save whose reload fails or whose writing
overlaps another, by a reload that installs an older file.

How a key is lost without any overlap of writes: the watcher reads `key.json`; an
admin adds a key, which is written, read and installed; the watcher installs the
file it has read before; another request of the admin clones that older key
file, adds a key of its own and saves it. The first key is gone. `KeysDroppedOnPurpose` excuses it
by `stale`, and shows that there is no other way.

### WSBridge

One goroutine reads the socket (`Register`, `TakeCancel`, `CallCancel`, `Confirm`, `HangUp`), one serves each
request. Cancelling is in three steps: the entry is taken out of the table, its
function is called, the confirmation is written. A message whose context is done
is written, dropped, or cut off in its middle, upon which the WebSocket library
closes the connection. A second request under an id that is in use replaces the
entry of the first, which can then not be cancelled by its id, and whichever ends
first deletes what is there; `shared` records which requests met that. A body that
is no JSON object leaves `payload` nil, the assignment of line 724 panics, and since
nothing recovers in a goroutine of the bridge the process ends (`Panic`): every
request on every socket ends with it.

### SafeTier, ErrorRecorder, Budget

`SafeTier` is a function of the request, the configuration and the catalogue. `Budget` has
handlers that ask (`Ask`), hit or miss the one cache entry, fetch, store and decide,
fail and record, with a configuration that each of them reads at its own
moment. There is no single flight: fetches overlap and the last to arrive stays.
An entry older than every TTL is kept as `Never`. `ErrorRecorder` has a file per hour, by its
age, and a line counts one. `Record` includes the cleanup; hours and the ticks of the
catalogue are separate clocks, as they are orders of magnitude apart.
`Configure` installs the limits, or leaves the old ones when the directory cannot be made
(`error_events.go:72-74`), an error that none of its callers looks at. A handler reads the
configuration (`ReadConfig`) and configures the recorder with it later, so a slow one puts
older limits back. What remains true is `RecorderCatchesUp`: once reloads stop, and as long as
configuring succeeds again and again, the limits in force come and stay.

`CatalogFresh` speaks of the moment `Get` returns; the policy is applied without another wait,
and data does not age while a handler is `deciding`. It takes `UMANS_UPSTREAM_TIMEOUT` to be other
than zero, with which a call would have no timeout (`service.go:34-41`).

Two oddities of the code are kept. Zero is the mark of "no cap yet" in `SafeTier`, so a
model with a cap of one is forgotten as soon as another follows;
`ForwardedWithinCap` leaves such catalogues out. When a chat request has both
`max_tokens` and `max_completion_tokens`, only the former is looked at.

## 3. Runs

| Run | Constants | States | Shows |
|---|---|---|---|
| `key_limiter` | 4 calls, 2 keys, limit 2 | 104 448 | types, exact slots, no idle slot, no blocked receive, exact buckets, implements `SlotPool`, every `Acquire` returns |
| `key_pool` | 2 requests of one session, 2 keys, 2 configurations, 3 key files, fair | 248 482 | types, counts are leases, no lost wakeup, grants within limits, sticky keys kept, across reloads; every `AcquireManaged` returns |
| `gateway_keys` | 2 requests of 2 sessions, 1 managed key, 2 clients with one key, 2 limits, 2 modes | 891 727 | the clients' counts, no lost wakeup on either side while modes and limits change, implements `KeyUse` |
| `error_window` | threshold 4, window 4, backoff 2 | 273 | a backoff needs its errors within a window, is not prolonged, and the count is off by less than a window's worth |
| `proxy_request` | 1 request, 4 handlers, 3 configurations with 0 to 2 retries, fair | 12 684 | one answer, honest ends of streams, at most one error and only when the upstream failed, justified retries, the lease comes back, implements `LeaseUse` |
| `config_store` | 2 admins, 2 passwords, 2 keys, 2 saves, 1 crash or edit, fair | 1 015 922 | whole files, explained sessions and lost keys, and the store catches up with the files |
| `ws_bridge` | 3 requests, 2 ids, one body no object, fair | 113 857 | the cancel table is exact, one final message and one confirmation, aborted requests end |
| `budget` | 2 handlers, 2 configurations, 2 catalogues, 2 requests, 3 hours | 964 608 | requests within the cap, data at most one TTL and one timeout old, the log keeps its newest files, the recorder catches up with the configuration once reloads stop |
| `sticky_switch` | 2 requests of 2 sessions, timeout 3, sticky window 2 | violated | a request leaves its full sticky key before the queue timeout |
| `rolling_window` | as `error_window` | violated | the window does not roll |
| `upstream_reset` | as `proxy_request` | violated | a connection reset by the upstream is not charged to its key |
| `error_body` | 2 byte values, up to 5 bytes, 2 for the log | violated | the client gets the log's mark inside a long error body |

The violated runs are disagreements of the code with a comment or a document;
the findings in `PROJECT.json` quote both.

**Why the bounds are enough.** Four calls are the fewest with two holders, a
waiter that gives up and a waiter behind it; two keys are there because buckets
come and go. Two requests of one session share an entry and a key; `gateway_keys` has
them in two sessions, which compete. Three key files give every change of a key:
removed, brought back, disabled, and another limit. Configurations turn stickiness and
backoff off and raise the limit. The timers of `KeyPool` are at most two ticks,
since only their order matters and every order of expiry, of a tick and of a
section still happens. Window and threshold of four let errors straddle the edge of
a window in more than one way. Requests do not share state in `ProxyRequest`
except the configuration, so one request is enough, and two retries are the
fewest with a bound that a reload can move past an attempt already made.
In `gateway_keys` two clients of one key and two managed requests of one key are the fewest
with a holder and a waiter of each kind, and the two limits and two key files
give every switch of the mode. `ConfigStore` counts the saves and the faults: `MaxSaves` and
`MaxFaults` stand in the guards of `Begin`, `Crash` and `EditFile`. Two saves may overlap, follow a stale
copy or change the password in opposite directions; one fault may hit each of
their steps, and restarts, reloads and logins are not bounded. Three requests of
`WSBridge` are one pair under one id and one beside it; a request is sent once. In `Budget` the
two configurations differ in everything the policy and the recorder read,
`FetchTimeout` and the TTLs are one or two ticks, and `Hours` is one more than the largest age the
limits allow, so that a file grows too old.
Ages are capped at `MaxAge`, above every window, which `WindowsAssumption` demands.
No constraint cuts a behaviour off.

**Fairness.** `KeyLimiter`: a goroutine with a ready branch goes on and timers
fire; nobody has to call, cancel or release. `KeyPool`: time passes and
goroutines go on, which the Go scheduler gives; neither the watcher nor any
release is relied on, since the deadline alone bounds the wait.
`ProxyRequest`: a handler goes on. Calls of the upstream end because
`http.Client.Timeout` bounds them with their bodies (`service.go:30-41`); that a client
takes what is written to it, or closes, is an assumption about the client.

`ConfigStore`: a goroutine goes on with what it has begun, the watcher's ticker fires
again and again, and a gateway that has died or failed to start is started
again, which `deploy/systemd/umans-gateway.service:11` (`Restart=on-failure`) does.
Admins, crashes and edits are under no obligation. `WSBridge`: the goroutines of the
socket go on, and `acquireOutboundKey` returns, which `key_pool` shows for managed keys and `key_limiter` for
the limiter. Nothing is assumed of the upstream. The client need not send, cancel or close,
but it takes what is written to it, or closes: the reader writes the confirmation of a
cancel with the context of the socket, and a client that stops reading may hold it up
there. `Budget` has no fairness: `RecorderCatchesUp` names what it needs, that reloads stop and that
configuring goes on succeeding, and the second is the disk's and the callers' to give.

**Deadlock** is checked in all runs but `error_body`, where a body stops when it
is delivered, and `ws_bridge`, where requests are served once and the process may end.

## 4. Proofs

All theorems hold for every value of the constants that the named assumptions
allow (finite sets of calls or requests, a positive limit, configurations that
`Config.Validate` accepts, ages counted beyond every window; for `Budget` also that requests,
configurations and catalogues have the fields the code reads, with natural numbers
for caps and fields, and that `Hours` lies beyond every age limit).

`KeyLimiterProofs`: `TypeOK`, `DrainNeverBlocks`, `NoIdleSlot`, `BucketsExact`,
`SlotsAccounted`, and that `KeyLimiter` implements `SlotPool`. The inductive invariant adds
to these that the queue of a key holds exactly the calls inside `Acquire` with an
open channel, each once. Neither `NoIdleSlot` nor `SlotsAccounted` is inductive without
it: a stale queue entry would take the hand-over and be counted for ever. Counting
the holders uses that one step moves at most one call in or out of `Holders(k)`.

`KeyPoolProofs`, first half: `TypeOK`, `LeasesAccounted`, `GrantsWithinLimit`, `NoLostWakeup`, `StickyKept`.
All actions are first reduced to "one slot was granted", "one came back" or
"none moved" (`LeaseSteps`). `LeasesAccounted` needs that a lease names a key id, or its
release would find no count. `NoLostWakeup` is inductive with `TypeOK`: a step that
does not signal only raises counts or ends backoffs, and the latter is what
`lapsed` records. `LeasesBounded` puts the first two together: whatever the reloads do to
the limits, a key never carries more requests than the largest of them.

`KeyPoolProofs`, second half: `GatewaySpec => Spec`, so that what is proved of `KeyPool` holds of the gateway,
`NoLostWakeup` among it; and `GatewayTypeOK`, `LegacyAccounted`, `LegacyNoLostWakeup`. The steps of `KeyPool` are first
reduced to what they do to the clients (`PoolStepFacts`): nothing, or a signal, or a tick.
`LegacyNoLostWakeup` needs that a step that changes the limit signals, and that a release of
the same key does. `GatewayLeasesBounded` extends the bound to the clients' own keys. The last
section proves that the gateway implements `KeyUse`: with exact counts (`LeasesAccounted`,
`LegacyAccounted`) the guard on a count is the guard on the set of requests, and a step that
moves a lease leaves what is allowed alone (`AllowedKept`).

`KeyErrorWindowProofs`: `TypeOK`, which bounds the count below the threshold, `BackoffNotExtended`,
`BackoffNeedsThreshold` and `TwoWindowsBound`. The invariant (`Accounted`) ties the record to the ages of
the errors: the count of an open window is the number of errors since it opened,
and the errors of a rolling window from before that were fewer than the threshold;
when the window is stale, a rolling window holds fewer than the threshold. So two
windows' worth is the most, and the error that starts a backoff has the others of
its window beside it. A tick, which shifts the ages, and an error, which adds to the
youngest, are lemmas on sums.

`ProxyRequestProofs`: `TypeOK`, `ClientNeverBlamed`, `AnsweredOnce`, `StreamEndsHonestly`, `RetriesJustified`, and that `ProxyRequest` implements
`LeaseUse`. The invariant (`Life`) says for every place of a request what it has answered,
recorded and been blamed for so far; none of the properties is inductive without
knowing, for instance, that nothing was answered before the body is copied.

`ConfigStoreProofs`: `TypeOK`, `WholeUnlessOverlapped`, `StaleSessionsExplained`, `KeysDroppedOnPurpose`, for any number of admins, saves,
crashes and edits. `Places` ties what a goroutine holds to where it is; `Whole` says that
outside of `overlapped` a file has one writer, whose temporary file holds exactly what it
wrote; `Copies` that a copy that is not stale has all keys of the file but the one it
drops; `Agreed` that before anything loose the configuration on disk and in the store
differ only during a save with a new password.

`WSBridgeProofs`: `TableExact` and `ConfirmedOnce`. The invariant adds that a request without an entry was
taken, cancelled or shared its id (`Reached`), that requests of one id at once are
shared (`Twins`), and what the reader holds between the three steps of a cancel
(`Held`, `Called`).

`BudgetProofs`: `CatalogFresh`, `RecorderUndoneOnce`, `LogKept` and `ForwardedWithinCap`. The age of an answer is
bounded by the time its call has run, that of the entry by the time since it was
stored and one timeout. `RecorderUndoneOnce` is the safety part of `RecorderCatchesUp`: between two reloads
no handler falls behind the configuration, and one that sets limits other than those
in force is behind no longer, so that each slow handler undoes them once at most. `LogKept` is about the two passes of `cleanupLocked`: after
the first no file is too old, and the second, which drops the oldest file as long
as the rest is too large, stops with exactly the newest files that fit, by
induction over the files it may still drop. For `ForwardedWithinCap` the list of models without
doubles and the smallest cap, both folds, are characterised by induction over
their sequence (`PolicyResult`), and the decision is then one on a minimum.

`FoldTheorems` makes these inductions possible where the theorems of the library on
induction, which take an operator as a parameter, cannot be used: every set of
naturals that is not empty has a least element, a property is a set, and a
counterexample would have a least one. From that it proves that a function defined
by recursion over a bounded range satisfies its equation, that a sum may be split
and shifted, and that a left fold runs through its sequence element by element.

Only model-checked: liveness (`AcquireReturns`, `RequestAnswered`, `LeaseReturned`, `StoreCatchesUp`, `AbortReleases`, `RecorderCatchesUp`), which is beyond the
prover with fairness. Every safety property of a passing run has its theorem.

## 5. Not modelled

* The content of requests and answers, headers, authentication, model names and
  the translation between the APIs: data without shared state, with unit tests.
* The login limiter (`admin_sessions.go:19-85`): its counts meet no other state of the
  gateway; how many guesses pass in parallel is a question of rates.
* `SaveKeys` with a whole key file and the fields of a key: the interface only saves
  one key at a time, which `ConfigStore` has by its id. A key that an operator adds without an
  id gets a new one at every reload (`runtime_store.go:744`); to the models these are different keys.
* The service without a runtime store on the HTTP side: its limiter is `KeyLimiter`, its
  handlers are those of `ProxyRequest` with no key to charge.
* Which directory the recorder uses, the optional message and files of earlier runs.
* Errors of the disk while a line is recorded: a directory that cannot be read, a file
  that cannot be removed (`error_events.go:128-130` gives up on the rest), opened or written.
  `LogKept` holds of a disk without them. That the directory cannot be made is modelled.
* The length of the delay between retries; a delay ends at any time. Hashes of
  keys and sessions are taken as distinct. Logging is left out.
* The web page and `main.go`, which have no state of their own.

## 6. Plan

Done: all modules of section 2, and the eight modules with theorems. What is left,
in this order:

1. `StickySwitch` with a bound on how early a switch may come, the positive counterpart of
   its finding.
2. `KeyLimiter` as an implementation of `KeyUse`, with a step in which one request stops and
   another starts.
3. The login limiter beside the login of `ConfigStore`, if it comes to share state with the sessions.
4. Larger instances of `gateway_keys` and `ws_bridge`: two managed keys, three requests under one id.

Modules to be proved about declare no recursive operator.
