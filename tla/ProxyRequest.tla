---------------------------- MODULE ProxyRequest ----------------------------
(***************************************************************************)
(* service.go, retry.go, responses.go: the life of one request in the      *)
(* gateway, from its lease to its release.  Four handlers share it: the    *)
(* plain proxy (proxyJSON), the Responses API with and without a stream    *)
(* (handleResponses), and a request on the WebSocket (runWSRequest).  All  *)
(* of them call the upstream through doUpstreamWithRetry and tell the      *)
(* store about a failure through recordKeyError.                           *)
(*                                                                         *)
(* The upstream is free to answer anything at any time, the client to go   *)
(* away at any time, which cancels the request's context, and a reload to  *)
(* change the configuration between any two steps.  Request and answer     *)
(* bodies are left out but for the two kinds of phrases the code looks for *)
(* in them.  Building the upstream request fails only for a URL that       *)
(* Config.Validate rejects, and is not a step here.                        *)
(***************************************************************************)
EXTENDS Naturals

CONSTANTS
    Requests,   \* requests, each of them served once
    Managed,    \* those whose lease is on a managed key
    Configs     \* what a reload may install: [retryMax, retry429]

ASSUME ManagedAssumption == Managed \subseteq Requests
ASSUME ConfigsAssumption == \A c \in Configs : c \in [retryMax: Nat, retry429: BOOLEAN]

VARIABLES
    cfg,        \* Service.currentConfig
    kind,       \* the handler
    pc,         \* where the request is
    gone,       \* its context is done
    attempts,   \* doUpstreamWithRetry's bound, read once
    tries,      \* calls of client.Do
    result,     \* what the last of them returned
    reported,   \* calls of RuntimeStore.RecordKeyError
    answers,    \* answers to the client: status lines, or final messages
    stream,     \* the converted stream the client gets: "none" before it begins
    blamed      \* history: the upstream has failed this request

requestVars == <<kind, pc, gone, attempts, tries, result, reported, answers, stream, blamed>>
vars == <<cfg, requestVars>>

Kinds == {"proxy", "stream", "json", "ws"}

PCs == {"idle", "refused", "leased", "sending", "delaying", "failed", "copying",
        "releasing", "done"}

Holding == {"leased", "sending", "delaying", "failed", "copying", "releasing"}

(***************************************************************************)
(* Status codes by what the code tells apart: below 300, below 400, 429,   *)
(* the ones retryableStatus names, and the rest (501 among them).  Texts   *)
(* are the phrases a body contains: one that shouldRetryUpstream looks     *)
(* for, one that isClientCancellation looks for.                           *)
(***************************************************************************)
Statuses == {"success", "redirect", "tooMany", "unavailable", "rejected"}
Failures == {"tooMany", "unavailable", "rejected"}
Phrases == {"tryAgain", "reset"}

\* "canceled" is context.Canceled, "reset" a broken connection whose message
\* says so, "other" everything else, such as a timeout or an early end.
Errors == {"canceled", "reset", "other"}

\* What client.Do returns: an error, or a status with its text; broken is the
\* error with which the body of the answer ends before its end.
NoResult == [err |-> "none", status |-> "none", text |-> {}, broken |-> "none"]

Results ==
    [err: Errors \cup {"none"}, status: Statuses \cup {"none"}, text: SUBSET Phrases,
     broken: Errors \cup {"none"}]

-----------------------------------------------------------------------------

retryableStatus(s) == s = "unavailable"

\* Mutant: the text of the body is looked at before the status.
shouldRetryUpstreamByText(s, text, retry429) ==
    \/ "tryAgain" \in text
    \/ s = "tooMany" /\ retry429
    \/ retryableStatus(s)

shouldRetryUpstream(s, text, retry429) ==
    IF s = "tooMany" THEN retry429 ELSE retryableStatus(s) \/ "tryAgain" \in text

\* Mutant: only what unwraps to context.Canceled counts as a cancellation.
isContextCanceled(e) == e = "canceled"

isClientCancellation(e) == e \in {"canceled", "reset"}

\* The error made of a status: its message holds the beginning of the body.
statusError(res) == IF "reset" \in res.text THEN "reset" ELSE "other"

\* recordKeyError, with no error when e is "none".
recordKeyError(r, e) ==
    reported' = [reported EXCEPT ![r] =
        IF r \in Managed /\ e # "none" /\ ~ isClientCancellation(e) THEN @ + 1 ELSE @]

\* A call fails with context.Canceled only when the context is done.
Possible(r, e) == e = "canceled" => gone[r]

\* The upstream is to blame for every error but that.
Blame(r, e) == blamed' = [blamed EXCEPT ![r] = @ \/ e # "canceled"]

-----------------------------------------------------------------------------
(***************************************************************************)
(* Up to the first call of the upstream.                                   *)
(***************************************************************************)

\* acquireOutboundKey returns a lease.
Acquire(r, k) ==
    /\ pc[r] = "idle"
    /\ kind' = [kind EXCEPT ![r] = k]
    /\ pc' = [pc EXCEPT ![r] = "leased"]
    /\ UNCHANGED <<cfg, gone, attempts, tries, result, reported, answers, stream, blamed>>

\* It returns an error: 401, 429, 408, 503 or 500, and nothing to release.
Refuse(r, k) ==
    /\ pc[r] = "idle"
    /\ kind' = [kind EXCEPT ![r] = k]
    /\ pc' = [pc EXCEPT ![r] = "refused"]
    /\ answers' = [answers EXCEPT ![r] = @ + 1]
    /\ UNCHANGED <<cfg, gone, attempts, tries, result, reported, stream, blamed>>

\* The budget policy rejects the request, or its body cannot be converted.
Reject(r) ==
    /\ pc[r] = "leased"
    /\ pc' = [pc EXCEPT ![r] = "releasing"]
    /\ answers' = [answers EXCEPT ![r] = @ + 1]
    /\ UNCHANGED <<cfg, kind, gone, attempts, tries, result, reported, stream, blamed>>

\* doUpstreamWithRetry reads the bound on its attempts.
Start(r) ==
    /\ pc[r] = "leased"
    /\ attempts' = [attempts EXCEPT ![r] = cfg.retryMax + 1]
    /\ pc' = [pc EXCEPT ![r] = "sending"]
    /\ UNCHANGED <<cfg, kind, gone, tries, result, reported, answers, stream, blamed>>

-----------------------------------------------------------------------------
(***************************************************************************)
(* The loop of doUpstreamWithRetry.                                        *)
(***************************************************************************)

Sent(r, res) ==
    /\ pc[r] = "sending"
    /\ tries' = [tries EXCEPT ![r] = @ + 1]
    /\ result' = [result EXCEPT ![r] = res]
    /\ UNCHANGED <<cfg, kind, gone, attempts>>

\* Mutant: the bound is read from the configuration of the moment.
MoreAttemptsNow(r) == tries[r] + 1 < cfg.retryMax + 1

MoreAttempts(r) == tries[r] + 1 < attempts[r]

\* The handler goes on with the answer: it copies the status line to the client
\* before the body, but for the WebSocket, which has none, and for an answer
\* that is converted as a whole.  A stream that is converted begins with the
\* event response.created.
BeginAnswer(r, s) ==
    /\ pc' = [pc EXCEPT ![r] = "copying"]
    /\ answers' = [answers EXCEPT ![r] =
          IF kind[r] = "ws" \/ (kind[r] = "json" /\ s = "success") THEN @ ELSE @ + 1]
    /\ stream' = [stream EXCEPT ![r] =
          IF kind[r] = "stream" /\ s = "success" THEN "created" ELSE @]

\* Mutant: the attempt that failed is not counted.
DoFailsUncounted(r, e) ==
    /\ pc[r] = "sending"
    /\ Possible(r, e)
    /\ result' = [result EXCEPT ![r] = [NoResult EXCEPT !.err = e]]
    /\ Blame(r, e)
    /\ pc' = [pc EXCEPT ![r] = IF MoreAttempts(r) THEN "delaying" ELSE "failed"]
    /\ UNCHANGED <<cfg, kind, gone, attempts, tries, reported, answers, stream>>

\* client.Do returns an error.
DoFails(r, e) ==
    /\ Sent(r, [NoResult EXCEPT !.err = e])
    /\ Possible(r, e)
    /\ Blame(r, e)
    /\ pc' = [pc EXCEPT ![r] = IF MoreAttempts(r) THEN "delaying" ELSE "failed"]
    /\ UNCHANGED <<reported, answers, stream>>

\* It returns a status below 400; only the plain proxy takes one from 300 on.
DoSucceeds(r, s) ==
    /\ s \notin Failures
    /\ Sent(r, [NoResult EXCEPT !.status = s])
    /\ BeginAnswer(r, s)
    /\ IF s = "redirect" /\ kind[r] # "proxy" THEN Blame(r, "other") ELSE UNCHANGED blamed
    /\ UNCHANGED reported

\* Mutant: the retry begins its answer with the status it has seen.
DoRefusedAnswers(r, s, text) ==
    /\ s \in Failures
    /\ Sent(r, [NoResult EXCEPT !.status = s, !.text = text])
    /\ Blame(r, "other")
    /\ pc' = [pc EXCEPT ![r] = IF MoreAttempts(r) /\ shouldRetryUpstream(s, text, cfg.retry429)
                                 THEN "delaying" ELSE "copying"]
    /\ answers' = [answers EXCEPT ![r] = @ + 1]
    /\ UNCHANGED <<reported, stream>>

\* It returns another status, and the body has been read to decide on a retry.
DoRefused(r, s, text) ==
    /\ s \in Failures
    /\ Sent(r, [NoResult EXCEPT !.status = s, !.text = text])
    /\ Blame(r, "other")
    /\ IF MoreAttempts(r) /\ shouldRetryUpstream(s, text, cfg.retry429)
         THEN pc' = [pc EXCEPT ![r] = "delaying"] /\ UNCHANGED <<answers, stream>>
         ELSE BeginAnswer(r, s)
    /\ UNCHANGED reported

\* The body of such an answer cannot be read: no retry.
DoUnreadable(r, s, e) ==
    /\ s \in Failures
    /\ Sent(r, [NoResult EXCEPT !.status = s, !.broken = e])
    /\ Possible(r, e)
    /\ Blame(r, "other")
    /\ BeginAnswer(r, s)
    /\ UNCHANGED reported

\* waitRetry: the timer wins, which it may do after the client went away.
Retry(r) ==
    /\ pc[r] = "delaying"
    /\ pc' = [pc EXCEPT ![r] = "sending"]
    /\ UNCHANGED <<cfg, kind, gone, attempts, tries, result, reported, answers, stream, blamed>>

\* waitRetry: the context wins, and the last result stands.
StopRetrying(r) ==
    /\ pc[r] = "delaying"
    /\ gone[r]
    /\ IF result[r].err # "none"
         THEN pc' = [pc EXCEPT ![r] = "failed"] /\ UNCHANGED <<answers, stream>>
         ELSE BeginAnswer(r, result[r].status)
    /\ UNCHANGED <<cfg, kind, gone, attempts, tries, result, reported, blamed>>

-----------------------------------------------------------------------------
(***************************************************************************)
(* The end of the request.                                                 *)
(***************************************************************************)

\* Mutant: the failure that was retried is reported as well.
FailReportsRetries(r) ==
    /\ pc[r] = "failed"
    /\ reported' = [reported EXCEPT ![r] =
          IF r \in Managed /\ ~ isClientCancellation(result[r].err) THEN @ + tries[r] ELSE @]
    /\ answers' = [answers EXCEPT ![r] = @ + 1]
    /\ pc' = [pc EXCEPT ![r] = "releasing"]
    /\ UNCHANGED <<cfg, kind, gone, attempts, tries, result, stream, blamed>>

\* There is no answer to pass on: 502, or an error message on the WebSocket.
Fail(r) ==
    /\ pc[r] = "failed"
    /\ recordKeyError(r, result[r].err)
    /\ answers' = [answers EXCEPT ![r] = @ + 1]
    /\ pc' = [pc EXCEPT ![r] = "releasing"]
    /\ UNCHANGED <<cfg, kind, gone, attempts, tries, result, stream, blamed>>

\* What is reported when the copy of the body has ended with e.  The plain
\* proxy prefers the error of the copy to the status; the others report every
\* status but 2xx, and a JSON answer that does not decode is not reported.
fault(r, e) ==
    IF kind[r] = "proxy"
      THEN IF e # "none" \/ result[r].status \notin Failures THEN e ELSE statusError(result[r])
      ELSE IF result[r].status # "success" THEN statusError(result[r])
           ELSE IF kind[r] = "json" THEN "none" ELSE e

Finish(r, e) ==
    /\ pc[r] = "copying"
    /\ recordKeyError(r, fault(r, e))
    /\ answers' = [answers EXCEPT ![r] =
          IF kind[r] = "ws" \/ (kind[r] = "json" /\ result[r].status = "success")
            THEN @ + 1 ELSE @]
    /\ pc' = [pc EXCEPT ![r] = "releasing"]
    /\ UNCHANGED <<cfg, kind, gone, attempts, tries, result>>

\* The last event of a converted stream.
Terminal(r, event) == stream' = [stream EXCEPT ![r] = IF @ = "created" THEN event ELSE @]

\* The body ends, or was read before.
BodyEnds(r) ==
    /\ result[r].broken = "none"
    /\ Finish(r, "none")
    /\ Terminal(r, "completed")
    /\ UNCHANGED blamed

\* The upstream ends its stream with [DONE]; nothing after that is read.
StreamDone(r) ==
    /\ stream[r] = "created"
    /\ Finish(r, "none")
    /\ Terminal(r, "done")
    /\ UNCHANGED blamed

\* Mutant: a stream that broke off is completed all the same.
BodyBreaksCompleted(r, e) ==
    /\ IF result[r].status \in Failures THEN e = result[r].broken ELSE e # "canceled"
    /\ Finish(r, e)
    /\ Terminal(r, "completed")
    /\ Blame(r, e)

\* The upstream breaks the body off; a body that was read before is whole.
BodyBreaks(r, e) ==
    /\ IF result[r].status \in Failures THEN e = result[r].broken ELSE e # "canceled"
    /\ Finish(r, e)
    /\ Blame(r, e)
    /\ UNCHANGED stream

\* The client is gone: reading the body fails with the context, or writing to
\* the client with a broken connection, which only the plain proxy looks at.
CopyCanceled(r, e) ==
    /\ gone[r]
    /\ \/ e = "canceled" /\ result[r].status \notin Failures
       \/ e = "reset" /\ kind[r] = "proxy"
    /\ Finish(r, e)
    /\ UNCHANGED <<stream, blamed>>

\* The deferred lease.Release.
Release(r) ==
    /\ pc[r] = "releasing"
    /\ pc' = [pc EXCEPT ![r] = "done"]
    /\ UNCHANGED <<cfg, kind, gone, attempts, tries, result, reported, answers, stream, blamed>>

-----------------------------------------------------------------------------

\* The client closes its connection, or cancels its request on the WebSocket.
ClientGoes(r) ==
    /\ pc[r] \in Holding
    /\ gone' = [gone EXCEPT ![r] = TRUE]
    /\ UNCHANGED <<cfg, kind, pc, attempts, tries, result, reported, answers, stream, blamed>>

Reload(c) ==
    /\ cfg' = c
    /\ UNCHANGED requestVars

Init ==
    /\ cfg \in Configs
    /\ kind = [r \in Requests |-> "proxy"]
    /\ pc = [r \in Requests |-> "idle"]
    /\ gone = [r \in Requests |-> FALSE]
    /\ attempts = [r \in Requests |-> 0]
    /\ tries = [r \in Requests |-> 0]
    /\ result = [r \in Requests |-> NoResult]
    /\ reported = [r \in Requests |-> 0]
    /\ answers = [r \in Requests |-> 0]
    /\ stream = [r \in Requests |-> "none"]
    /\ blamed = [r \in Requests |-> FALSE]

Send(r) ==
    \/ \E e \in Errors : DoFails(r, e)
    \/ \E s \in Statuses :
         \/ DoSucceeds(r, s)
         \/ \E text \in SUBSET Phrases : DoRefused(r, s, text)
         \/ \E e \in Errors : DoUnreadable(r, s, e)

Copy(r) == BodyEnds(r) \/ StreamDone(r) \/ \E e \in Errors : BodyBreaks(r, e) \/ CopyCanceled(r, e)

\* What a handler does without waiting for anybody but the upstream and time.
Handle(r) ==
    \/ Reject(r)
    \/ Start(r)
    \/ Send(r)
    \/ Retry(r)
    \/ StopRetrying(r)
    \/ Fail(r)
    \/ Copy(r)
    \/ Release(r)

Next ==
    \/ \E r \in Requests :
         \/ \E k \in Kinds : Acquire(r, k) \/ Refuse(r, k)
         \/ Handle(r)
         \/ ClientGoes(r)
    \/ \E c \in Configs : Reload(c)

(***************************************************************************)
(* A handler goes on: every call of the upstream ends, its body included,  *)
(* since http.Client.Timeout bounds both (service.go:30-41), and a client  *)
(* that is there takes what is written to it.                              *)
(***************************************************************************)
Fairness == \A r \in Requests : WF_vars(Handle(r))

Spec == Init /\ [][Next]_vars

FairSpec == Spec /\ Fairness

-----------------------------------------------------------------------------
(***************************************************************************)
(* Properties.                                                             *)
(***************************************************************************)

\* Every variable has its type, and no request makes more attempts than the
\* configuration it started with allows (retry.go:17-22).
TypeOK ==
    /\ cfg \in Configs
    /\ kind \in [Requests -> Kinds]
    /\ pc \in [Requests -> PCs]
    /\ gone \in [Requests -> BOOLEAN]
    /\ attempts \in [Requests -> Nat]
    /\ \A r \in Requests : tries[r] \in 0..attempts[r]
    /\ result \in [Requests -> Results]
    /\ reported \in [Requests -> Nat]
    /\ answers \in [Requests -> Nat]
    /\ stream \in [Requests -> {"none", "created", "completed", "done"}]
    /\ blamed \in [Requests -> BOOLEAN]

\* A key is only charged with an error when the upstream has failed the
\* request: a client that goes away, at whatever moment, charges nobody
\* (recordKeyError, service.go:436-449).
ClientNeverBlamed ==
    \A r \in Requests : reported[r] > 0 => blamed[r]

\* The client gets one answer and no more, whatever was tried before it and
\* whatever breaks after it has begun: one status line, or one final message
\* on the WebSocket.
AnsweredOnce ==
    \A r \in Requests :
        /\ answers[r] <= 1
        /\ pc[r] \in {"refused", "releasing", "done"} => answers[r] = 1

\* A client of the Responses API is told that its stream is complete only if the
\* upstream ended it, and then no key is charged; a stream without that event
\* was broken off by the upstream, or by the client's own leaving, and in the
\* first case the key is charged, unless the error reads like a client that
\* went away (responses.go:243-297, service.go:436-468).
StreamEndsHonestly ==
    \A r \in Requests : pc[r] \in {"releasing", "done"} /\ stream[r] # "none" =>
        /\ stream[r] # "created" => reported[r] = 0
        /\ stream[r] = "created" /\ ~ gone[r] => blamed[r]
        /\ reported[r] > 0 => stream[r] = "created" /\ blamed[r]

\* Another attempt is made only before anything was sent to the client, never
\* for a success, and never for a 429 unless the configuration that was in force
\* when it came says so, whatever its body asks for (README.md:132).
RetriesJustified ==
    [][\A r \in Requests : pc'[r] = "delaying" /\ pc[r] # "delaying" =>
          /\ answers'[r] = 0
          /\ result'[r].status \in Failures \cup {"none"}
          /\ result'[r].status = "tooMany" => cfg.retry429]_vars

\* A lease is returned in the end, on every path through the handlers.
LeaseReturned ==
    \A r \in Requests : pc[r] \in Holding ~> pc[r] = "done"

Phase(r) ==
    IF pc[r] \in Holding THEN "held" ELSE IF pc[r] = "done" THEN "returned" ELSE "none"

phases == [r \in Requests |-> Phase(r)]

Lease == INSTANCE LeaseUse WITH Clients <- Requests, phase <- phases, errors <- reported

\* The store sees of a request what LeaseUse allows: one lease, at most one
\* error against its key while the lease is held, one release (223, 436-449).
ImplementsLeaseUse == Lease!Spec

\* What the comment of recordKeyError promises: a request that ends with a
\* failure of the upstream, while its client is there, is charged to its key.
UpstreamFailureCounted ==
    \A r \in Managed :
        pc[r] \in {"releasing", "done"} /\ ~ gone[r] /\ result[r].err # "none"
            => reported[r] = 1
=============================================================================
