------------------------- MODULE ProxyRequestProofs -------------------------
(***************************************************************************)
(* The safety properties of ProxyRequest for every set of requests and     *)
(* every set of configurations.                                            *)
(***************************************************************************)
EXTENDS ProxyRequest, TLAPS

(***************************************************************************)
(* The strengthening: what holds of a request at each place of its life.   *)
(* An error or a status is remembered together with whom it blames, and    *)
(* nothing has been reported or answered before the place that does so.    *)
(***************************************************************************)

Unanswered(r) == reported[r] = 0 /\ answers[r] = 0 /\ stream[r] = "none"

BlamedFor(r) ==
    /\ result[r].err \in {"none", "canceled"} \/ blamed[r]
    /\ result[r].status \in Failures => blamed[r]
    /\ result[r].status = "redirect" /\ kind[r] # "proxy" => blamed[r]

Late(r) == kind[r] = "ws" \/ (kind[r] = "json" /\ result[r].status = "success")

Converted(r) == kind[r] = "stream" /\ result[r].status = "success"

Answering(r) ==
    /\ result[r].status \in Statuses
    /\ reported[r] = 0
    /\ answers[r] = IF Late(r) THEN 0 ELSE 1
    /\ stream[r] = IF Converted(r) THEN "created" ELSE "none"

Ended(r) ==
    /\ answers[r] = 1
    /\ reported[r] \in {0, 1}
    /\ reported[r] > 0 => blamed[r]
    /\ stream[r] # "none" =>
         /\ stream[r] # "created" => reported[r] = 0
         /\ stream[r] = "created" /\ ~ gone[r] => blamed[r]

Life(r) ==
    /\ pc[r] \in {"idle", "leased", "sending", "delaying", "failed"} => Unanswered(r)
    /\ pc[r] \in {"idle", "leased"} => tries[r] = 0
    /\ pc[r] \in {"sending", "delaying"} => tries[r] < attempts[r]
    /\ pc[r] \in {"delaying", "failed", "copying"} => BlamedFor(r)
    /\ pc[r] = "delaying" => result[r].err # "none" \/ result[r].status \in Failures
    /\ pc[r] = "failed" => result[r].err # "none"
    /\ pc[r] = "copying" => Answering(r)
    /\ pc[r] = "refused" => reported[r] = 0 /\ answers[r] = 1 /\ stream[r] = "none"
    /\ pc[r] \in {"releasing", "done"} => Ended(r)

Inv ==
    /\ TypeOK
    /\ tries \in [Requests -> Nat]
    /\ \A r \in Requests : Life(r)

-----------------------------------------------------------------------------

\* The record of a call that failed, and of a status.
LEMMA ErrorResult ==
    ASSUME NEW e \in Errors
    PROVE  /\ [NoResult EXCEPT !.err = e] \in Results
           /\ [NoResult EXCEPT !.err = e].err = e
           /\ [NoResult EXCEPT !.err = e].status = "none"
  BY DEF NoResult, Results, Errors, Statuses, Phrases

LEMMA StatusResult ==
    ASSUME NEW s \in Statuses, NEW text \in SUBSET Phrases, NEW e \in Errors
    PROVE  /\ [NoResult EXCEPT !.status = s] \in Results
           /\ [NoResult EXCEPT !.status = s].err = "none"
           /\ [NoResult EXCEPT !.status = s].status = s
           /\ [NoResult EXCEPT !.status = s, !.text = text] \in Results
           /\ [NoResult EXCEPT !.status = s, !.text = text].err = "none"
           /\ [NoResult EXCEPT !.status = s, !.text = text].status = s
           /\ [NoResult EXCEPT !.status = s, !.broken = e] \in Results
           /\ [NoResult EXCEPT !.status = s, !.broken = e].err = "none"
           /\ [NoResult EXCEPT !.status = s, !.broken = e].status = s
  BY DEF NoResult, Results, Errors, Statuses, Phrases

LEMMA InitInv == Init => Inv
<1> SUFFICES ASSUME Init PROVE Inv
  OBVIOUS
<1>1. NoResult \in Results
  BY DEF NoResult, Results
<1>2. TypeOK
  BY <1>1 DEF Init, TypeOK, Kinds, PCs
<1>3. \A r \in Requests : Life(r)
  BY DEF Init, Life, Unanswered
<1> QED
  BY <1>2, <1>3 DEF Inv, Init

\* The variables of the requests, as functions.
Typed ==
    /\ cfg \in Configs
    /\ kind \in [Requests -> Kinds]
    /\ pc \in [Requests -> PCs]
    /\ gone \in [Requests -> BOOLEAN]
    /\ attempts \in [Requests -> Nat]
    /\ tries \in [Requests -> Nat]
    /\ result \in [Requests -> Results]
    /\ reported \in [Requests -> Nat]
    /\ answers \in [Requests -> Nat]
    /\ stream \in [Requests -> {"none", "created", "completed", "done"}]
    /\ blamed \in [Requests -> BOOLEAN]

\* A step of r leaves the other requests alone.
Others(r) ==
    \A q \in Requests \ {r} :
        /\ kind'[q] = kind[q] /\ pc'[q] = pc[q] /\ gone'[q] = gone[q]
        /\ attempts'[q] = attempts[q] /\ tries'[q] = tries[q] /\ result'[q] = result[q]
        /\ reported'[q] = reported[q] /\ answers'[q] = answers[q]
        /\ stream'[q] = stream[q] /\ blamed'[q] = blamed[q]

\* It is enough to look at r.
LEMMA OneRequest ==
    ASSUME Inv, NEW r \in Requests, Typed', Others(r), Life(r)', tries'[r] <= attempts'[r]
    PROVE  Inv'
<1>1. \A q \in Requests : Life(q)'
  <2> TAKE q \in Requests
  <2>1. CASE q = r
    BY <2>1
  <2>2. CASE q # r
    BY <2>2 DEF Inv, Others, Life, Unanswered, BlamedFor, Answering, Late, Converted, Ended
  <2> QED
    BY <2>1, <2>2
<1>2. \A q \in Requests : tries'[q] \in 0..attempts'[q]
  <2> TAKE q \in Requests
  <2>1. tries'[q] <= attempts'[q]
    BY DEF Inv, TypeOK, Others
  <2> QED
    BY <2>1 DEF Typed
<1> QED
  BY <1>1, <1>2 DEF Inv, TypeOK, Typed

LEMMA InvTyped == Inv => Typed
  BY DEF Inv, TypeOK, Typed

-----------------------------------------------------------------------------
(***************************************************************************)
(* One lemma for each part of a request's life.                            *)
(***************************************************************************)

\* Up to the first call of the upstream.
LEMMA BeginStep ==
    ASSUME Inv, NEW r \in Requests, NEW k \in Kinds,
           Acquire(r, k) \/ Refuse(r, k) \/ Reject(r) \/ Start(r)
    PROVE  Inv'
<1>0. Typed /\ Life(r)
  BY InvTyped DEF Inv
<1>1. CASE Acquire(r, k)
  <2>1. Typed' /\ Others(r) /\ tries'[r] = tries[r] /\ attempts'[r] = attempts[r]
    BY <1>0, <1>1 DEF Acquire, Typed, Others, PCs
  <2>2. Life(r)'
    BY <1>0, <1>1 DEF Acquire, Typed, Life, Unanswered
  <2> QED
    BY <1>0, <2>1, <2>2, OneRequest DEF Inv, TypeOK
<1>2. CASE Refuse(r, k)
  <2>1. Typed' /\ Others(r) /\ tries'[r] = tries[r] /\ attempts'[r] = attempts[r]
    BY <1>0, <1>2 DEF Refuse, Typed, Others, PCs
  <2>2. Life(r)'
    BY <1>0, <1>2 DEF Refuse, Typed, Life, Unanswered
  <2> QED
    BY <1>0, <2>1, <2>2, OneRequest DEF Inv, TypeOK
<1>3. CASE Reject(r)
  <2>1. Typed' /\ Others(r) /\ tries'[r] = tries[r] /\ attempts'[r] = attempts[r]
    BY <1>0, <1>3 DEF Reject, Typed, Others, PCs
  <2>2. Life(r)'
    BY <1>0, <1>3 DEF Reject, Typed, Life, Unanswered, Ended
  <2> QED
    BY <1>0, <2>1, <2>2, OneRequest DEF Inv, TypeOK
<1>4. CASE Start(r)
  <2>1. cfg.retryMax \in Nat
    BY <1>0, ConfigsAssumption DEF Typed
  <2>2. Typed' /\ Others(r) /\ attempts'[r] = cfg.retryMax + 1 /\ tries'[r] = 0
    BY <1>0, <1>4, <2>1 DEF Start, Typed, Others, PCs, Life
  <2>3. Life(r)'
    BY <1>0, <1>4, <2>1, <2>2 DEF Start, Typed, Life, Unanswered
  <2> QED
    BY <2>1, <2>2, <2>3, OneRequest
<1> QED
  BY <1>1, <1>2, <1>3, <1>4

\* What a call of the upstream does besides setting the place and the answer.
LEMMA SentFacts ==
    ASSUME Typed, NEW r \in Requests, NEW res \in Results, Sent(r, res)
    PROVE  /\ kind' = kind /\ gone' = gone /\ attempts' = attempts /\ cfg' = cfg
           /\ tries' \in [Requests -> Nat] /\ tries'[r] = tries[r] + 1
           /\ result' \in [Requests -> Results] /\ result'[r] = res
           /\ \A q \in Requests \ {r} : tries'[q] = tries[q] /\ result'[q] = result[q]
  BY DEF Sent, Typed

LEMMA BlameFacts ==
    ASSUME Typed, NEW r \in Requests, NEW e, Blame(r, e)
    PROVE  /\ blamed' \in [Requests -> BOOLEAN]
           /\ \A q \in Requests \ {r} : blamed'[q] = blamed[q]
           /\ blamed[r] => blamed'[r]
           /\ e # "canceled" => blamed'[r]
  BY DEF Blame, Typed

LEMMA AnswerFacts ==
    ASSUME Typed, NEW r \in Requests, NEW s, BeginAnswer(r, s), kind' = kind,
           Unanswered(r), reported' = reported, result'[r].status = s, s \in Statuses
    PROVE  /\ pc' \in [Requests -> PCs] /\ pc'[r] = "copying"
           /\ answers' \in [Requests -> Nat]
           /\ stream' \in [Requests -> {"none", "created", "completed", "done"}]
           /\ \A q \in Requests \ {r} :
                  pc'[q] = pc[q] /\ answers'[q] = answers[q] /\ stream'[q] = stream[q]
           /\ Answering(r)'
<1>1. pc' = [pc EXCEPT ![r] = "copying"] /\ "copying" \in PCs
  BY DEF BeginAnswer, PCs
<1>2. answers' = [answers EXCEPT ![r] =
                     IF kind[r] = "ws" \/ (kind[r] = "json" /\ s = "success") THEN 0 ELSE 1]
  BY DEF BeginAnswer, Unanswered, Typed
<1>3. stream' = [stream EXCEPT ![r] =
                     IF kind[r] = "stream" /\ s = "success" THEN "created" ELSE "none"]
  BY DEF BeginAnswer, Unanswered, Typed
<1>4. Answering(r)'
  BY <1>2, <1>3 DEF Answering, Late, Converted, Unanswered, Typed
<1> QED
  BY <1>1, <1>2, <1>3, <1>4 DEF Typed

\* A call that ends in an error, retried or not.
LEMMA DoFailsStep ==
    ASSUME Inv, NEW r \in Requests, NEW e \in Errors, DoFails(r, e)
    PROVE  Inv'
<1> DEFINE res == [NoResult EXCEPT !.err = e]
<1>0. Typed /\ Life(r)
  BY InvTyped DEF Inv
<1>1. res \in Results /\ res.err = e /\ res.status = "none" /\ e # "none"
  BY ErrorResult DEF Errors
<1>2. Sent(r, res) /\ Blame(r, e) /\ pc[r] = "sending"
  BY DEF DoFails, Sent
<1> HIDE DEF res
<1>3. /\ kind' = kind /\ gone' = gone /\ attempts' = attempts /\ cfg' = cfg
      /\ tries' \in [Requests -> Nat] /\ tries'[r] = tries[r] + 1
      /\ result' \in [Requests -> Results] /\ result'[r] = res
      /\ \A q \in Requests \ {r} : tries'[q] = tries[q] /\ result'[q] = result[q]
  BY <1>0, <1>1, <1>2, SentFacts
<1>4. /\ blamed' \in [Requests -> BOOLEAN]
      /\ \A q \in Requests \ {r} : blamed'[q] = blamed[q]
      /\ e # "canceled" => blamed'[r]
  BY <1>0, <1>2, BlameFacts
<1>5. /\ pc' = [pc EXCEPT ![r] = IF MoreAttempts(r) THEN "delaying" ELSE "failed"]
      /\ UNCHANGED <<reported, answers, stream>>
  BY DEF DoFails
<1>6. Typed' /\ Others(r)
  BY <1>0, <1>3, <1>4, <1>5 DEF Typed, Others, PCs
<1>7. tries'[r] <= attempts'[r] /\ (pc'[r] = "delaying" => tries'[r] < attempts'[r])
  BY <1>0, <1>2, <1>3, <1>5 DEF Life, Typed, MoreAttempts
<1>8. BlamedFor(r)' /\ Unanswered(r)'
  BY <1>0, <1>1, <1>2, <1>3, <1>4, <1>5 DEF BlamedFor, Unanswered, Life, Failures
<1>9. Life(r)'
  BY <1>0, <1>1, <1>3, <1>5, <1>7, <1>8 DEF Life, Typed
<1> QED
  BY <1>6, <1>7, <1>9, OneRequest

\* A call that is answered, when the answer goes on to the client.
LEMMA AnsweredStep ==
    ASSUME Inv, NEW r \in Requests, NEW res \in Results, res.err = "none", res.status \in Statuses,
           Sent(r, res), BeginAnswer(r, res.status), UNCHANGED reported,
           blamed' \in [Requests -> BOOLEAN], \A q \in Requests \ {r} : blamed'[q] = blamed[q],
           (res.status \in Failures \/ (res.status = "redirect" /\ kind[r] # "proxy")) => blamed'[r]
    PROVE  Inv'
<1>0. Typed /\ Life(r) /\ pc[r] = "sending" /\ Unanswered(r)
  BY InvTyped DEF Inv, Sent, Life
<1>1. /\ kind' = kind /\ gone' = gone /\ attempts' = attempts /\ cfg' = cfg
      /\ tries' \in [Requests -> Nat] /\ tries'[r] = tries[r] + 1
      /\ result' \in [Requests -> Results] /\ result'[r] = res
      /\ \A q \in Requests \ {r} : tries'[q] = tries[q] /\ result'[q] = result[q]
  BY <1>0, SentFacts
<1>2. /\ pc' \in [Requests -> PCs] /\ pc'[r] = "copying"
      /\ answers' \in [Requests -> Nat]
      /\ stream' \in [Requests -> {"none", "created", "completed", "done"}]
      /\ \A q \in Requests \ {r} :
             pc'[q] = pc[q] /\ answers'[q] = answers[q] /\ stream'[q] = stream[q]
      /\ Answering(r)'
  BY <1>0, <1>1, AnswerFacts
<1>3. Typed' /\ Others(r)
  BY <1>0, <1>1, <1>2 DEF Typed, Others
<1>4. tries'[r] <= attempts'[r]
  BY <1>0, <1>1 DEF Life, Typed
<1>5. BlamedFor(r)'
  BY <1>0, <1>1 DEF BlamedFor
<1>6. Life(r)'
  BY <1>2, <1>5 DEF Life
<1> QED
  BY <1>3, <1>4, <1>6, OneRequest

\* A call that ends in a status.
LEMMA StatusStep ==
    ASSUME Inv, NEW r \in Requests, NEW s \in Statuses, NEW text \in SUBSET Phrases, NEW e \in Errors,
           DoSucceeds(r, s) \/ DoRefused(r, s, text) \/ DoUnreadable(r, s, e)
    PROVE  Inv'
<1>0. Typed /\ Life(r)
  BY InvTyped DEF Inv
<1>1. CASE DoSucceeds(r, s)
  <2> DEFINE res == [NoResult EXCEPT !.status = s]
  <2>1. res \in Results /\ res.err = "none" /\ res.status = s /\ s \notin Failures
    BY <1>1, StatusResult DEF DoSucceeds
  <2>2. Sent(r, res) /\ BeginAnswer(r, s) /\ UNCHANGED reported
    BY <1>1 DEF DoSucceeds
  <2>3. /\ blamed' \in [Requests -> BOOLEAN]
        /\ \A q \in Requests \ {r} : blamed'[q] = blamed[q]
        /\ s = "redirect" /\ kind[r] # "proxy" => blamed'[r]
    <3>1. CASE s = "redirect" /\ kind[r] # "proxy"
      BY <1>0, <1>1, <3>1, BlameFacts DEF DoSucceeds
    <3>2. CASE ~ (s = "redirect" /\ kind[r] # "proxy")
      BY <1>0, <1>1, <3>2 DEF DoSucceeds, Typed
    <3> QED
      BY <3>1, <3>2
  <2> HIDE DEF res
  <2> QED
    BY <2>1, <2>2, <2>3, AnsweredStep
<1>2. CASE DoUnreadable(r, s, e)
  <2> DEFINE res == [NoResult EXCEPT !.status = s, !.broken = e]
  <2>1. res \in Results /\ res.err = "none" /\ res.status = s
    BY StatusResult
  <2>2. Sent(r, res) /\ BeginAnswer(r, s) /\ UNCHANGED reported /\ Blame(r, "other")
    BY <1>2 DEF DoUnreadable
  <2>3. /\ blamed' \in [Requests -> BOOLEAN]
        /\ \A q \in Requests \ {r} : blamed'[q] = blamed[q]
        /\ blamed'[r]
    BY <1>0, <2>2, BlameFacts
  <2> HIDE DEF res
  <2> QED
    BY <2>1, <2>2, <2>3, AnsweredStep
<1>3. CASE DoRefused(r, s, text)
  <2> DEFINE res == [NoResult EXCEPT !.status = s, !.text = text]
  <2>1. res \in Results /\ res.err = "none" /\ res.status = s /\ s \in Failures
    BY <1>3, StatusResult DEF DoRefused
  <2>2. Sent(r, res) /\ UNCHANGED reported /\ Blame(r, "other") /\ pc[r] = "sending"
    BY <1>3 DEF DoRefused, Sent
  <2>3. /\ blamed' \in [Requests -> BOOLEAN]
        /\ \A q \in Requests \ {r} : blamed'[q] = blamed[q]
        /\ blamed'[r]
    BY <1>0, <2>2, BlameFacts
  <2>4. \/ BeginAnswer(r, s)
        \/ /\ MoreAttempts(r) /\ pc' = [pc EXCEPT ![r] = "delaying"]
           /\ UNCHANGED <<answers, stream>>
    BY <1>3 DEF DoRefused
  <2> HIDE DEF res
  <2>5. CASE BeginAnswer(r, s)
    BY <2>1, <2>2, <2>3, <2>5, AnsweredStep
  <2>6. CASE MoreAttempts(r) /\ pc' = [pc EXCEPT ![r] = "delaying"] /\ UNCHANGED <<answers, stream>>
    <3>1. /\ kind' = kind /\ gone' = gone /\ attempts' = attempts /\ cfg' = cfg
          /\ tries' \in [Requests -> Nat] /\ tries'[r] = tries[r] + 1
          /\ result' \in [Requests -> Results] /\ result'[r] = res
          /\ \A q \in Requests \ {r} : tries'[q] = tries[q] /\ result'[q] = result[q]
      BY <1>0, <2>1, <2>2, SentFacts
    <3>2. Typed' /\ Others(r)
      BY <1>0, <2>2, <2>3, <2>6, <3>1 DEF Typed, Others, PCs
    <3>3. tries'[r] < attempts'[r]
      BY <1>0, <2>6, <3>1 DEF MoreAttempts
    <3>4. BlamedFor(r)' /\ Unanswered(r)' /\ pc'[r] = "delaying"
      BY <1>0, <2>2, <2>3, <2>6, <3>1 DEF BlamedFor, Unanswered, Life, Typed
    <3>5. Life(r)'
      BY <2>1, <3>1, <3>3, <3>4 DEF Life
    <3>6. tries'[r] <= attempts'[r]
      BY <3>2, <3>3 DEF Typed
    <3> QED
      BY <3>2, <3>5, <3>6, OneRequest
  <2> QED
    BY <2>4, <2>5, <2>6
<1> QED
  BY <1>1, <1>2, <1>3

\* The wait between two attempts ends, or the client's leaving ends it.
LEMMA DelayStep ==
    ASSUME Inv, NEW r \in Requests, Retry(r) \/ StopRetrying(r)
    PROVE  Inv'
<1>0. Typed /\ Life(r) /\ tries[r] <= attempts[r]
  BY InvTyped DEF Inv, TypeOK
<1>1. CASE Retry(r)
  <2>1. Typed' /\ Others(r) /\ tries' = tries /\ attempts' = attempts
    BY <1>0, <1>1 DEF Retry, Typed, Others, PCs
  <2>2. Life(r)'
    BY <1>0, <1>1 DEF Retry, Typed, Life, Unanswered
  <2> QED
    BY <1>0, <2>1, <2>2, OneRequest
<1>2. CASE StopRetrying(r) /\ result[r].err # "none"
  <2>1. Typed' /\ Others(r) /\ tries' = tries /\ attempts' = attempts
    BY <1>0, <1>2 DEF StopRetrying, Typed, Others, PCs
  <2>2. Life(r)'
    BY <1>0, <1>2 DEF StopRetrying, Typed, Life, Unanswered, BlamedFor
  <2> QED
    BY <1>0, <2>1, <2>2, OneRequest
<1>3. CASE StopRetrying(r) /\ result[r].err = "none"
  <2>1. /\ BeginAnswer(r, result[r].status) /\ pc[r] = "delaying"
        /\ UNCHANGED <<cfg, kind, gone, attempts, tries, result, reported, blamed>>
    BY <1>3 DEF StopRetrying
  <2>2. Unanswered(r) /\ BlamedFor(r) /\ result[r].status \in Statuses
    BY <1>0, <1>3, <2>1 DEF Life, Failures, Statuses
  <2>3. /\ pc' \in [Requests -> PCs] /\ pc'[r] = "copying"
        /\ answers' \in [Requests -> Nat]
        /\ stream' \in [Requests -> {"none", "created", "completed", "done"}]
        /\ \A q \in Requests \ {r} :
               pc'[q] = pc[q] /\ answers'[q] = answers[q] /\ stream'[q] = stream[q]
        /\ Answering(r)'
    BY <1>0, <2>1, <2>2, AnswerFacts
  <2>4. Typed' /\ Others(r)
    BY <1>0, <2>1, <2>3 DEF Typed, Others
  <2>5. Life(r)'
    BY <2>1, <2>2, <2>3 DEF Life, BlamedFor
  <2> QED
    BY <1>0, <2>1, <2>4, <2>5, OneRequest
<1> QED
  BY <1>1, <1>2, <1>3

\* recordKeyError counts once, for a managed key and an error that is the upstream's.
LEMMA ReportFacts ==
    ASSUME Typed, NEW r \in Requests, NEW e, recordKeyError(r, e), reported[r] = 0
    PROVE  /\ reported' \in [Requests -> Nat] /\ reported'[r] \in {0, 1}
           /\ \A q \in Requests \ {r} : reported'[q] = reported[q]
           /\ reported'[r] > 0 => e \notin {"none", "canceled", "reset"}
  BY DEF recordKeyError, isClientCancellation, Typed

\* There was no answer to pass on.
LEMMA FailStep ==
    ASSUME Inv, NEW r \in Requests, Fail(r)
    PROVE  Inv'
<1>0. Typed /\ Life(r) /\ tries[r] <= attempts[r]
  BY InvTyped DEF Inv, TypeOK
<1>1. /\ pc[r] = "failed" /\ pc' = [pc EXCEPT ![r] = "releasing"]
      /\ answers' = [answers EXCEPT ![r] = @ + 1]
      /\ UNCHANGED <<cfg, kind, gone, attempts, tries, result, stream, blamed>>
  BY DEF Fail
<1>2. Unanswered(r) /\ BlamedFor(r)
  BY <1>0, <1>1 DEF Life
<1>3. /\ reported' \in [Requests -> Nat] /\ reported'[r] \in {0, 1}
      /\ \A q \in Requests \ {r} : reported'[q] = reported[q]
      /\ reported'[r] > 0 => result[r].err \notin {"none", "canceled", "reset"}
  BY <1>0, <1>2, ReportFacts DEF Fail, Unanswered
<1>4. Typed' /\ Others(r)
  <2>1. pc' \in [Requests -> PCs] /\ answers' \in [Requests -> Nat]
    BY <1>0, <1>1 DEF Typed, PCs
  <2>2. Typed'
    BY <1>0, <1>1, <1>3, <2>1 DEF Typed
  <2>3. Others(r)
    BY <1>0, <1>1, <1>3 DEF Typed, Others
  <2> QED
    BY <2>2, <2>3
<1>5. Ended(r)' /\ pc'[r] = "releasing"
  BY <1>0, <1>1, <1>2, <1>3 DEF Ended, Unanswered, BlamedFor, Typed
<1>6. Life(r)'
  BY <1>5 DEF Life
<1> QED
  BY <1>0, <1>1, <1>4, <1>6, OneRequest

\* The fault that is reported is the upstream's: one that it has been blamed
\* for, or e itself.
LEMMA FaultBlamed ==
    ASSUME Typed, NEW r \in Requests, BlamedFor(r), result[r].status \in Statuses, NEW e,
           fault(r, e) \notin {"none", "canceled", "reset"}
    PROVE  blamed[r] \/ (fault(r, e) = e /\ kind[r] # "json")
<1>1. CASE kind[r] = "proxy"
  BY <1>1 DEF fault, BlamedFor
<1>2. CASE kind[r] # "proxy" /\ result[r].status = "success"
  BY <1>2 DEF fault
<1>3. CASE kind[r] # "proxy" /\ result[r].status # "success"
  BY <1>3 DEF BlamedFor, Statuses, Failures
<1> QED
  BY <1>1, <1>2, <1>3

\* The copy of the body ends with e, and with this event of a converted stream.
LEMMA FinishStep ==
    ASSUME Inv, NEW r \in Requests, NEW e, Finish(r, e),
           blamed' \in [Requests -> BOOLEAN], \A q \in Requests \ {r} : blamed'[q] = blamed[q],
           blamed[r] => blamed'[r],
           stream' \in [Requests -> {"none", "created", "completed", "done"}],
           \A q \in Requests \ {r} : stream'[q] = stream[q],
           stream[r] = "none" => stream'[r] = "none",
           e \notin {"none", "canceled", "reset"} => blamed'[r],
           stream[r] # "none" => IF e = "none" THEN stream'[r] # "created" ELSE stream'[r] = "created",
           stream[r] # "none" /\ e # "none" /\ ~ gone[r] => blamed'[r]
    PROVE  Inv'
<1>0. Typed /\ Life(r) /\ tries[r] <= attempts[r]
  BY InvTyped DEF Inv, TypeOK
<1>1. /\ pc[r] = "copying" /\ pc' = [pc EXCEPT ![r] = "releasing"]
      /\ answers' = [answers EXCEPT ![r] = IF Late(r) THEN @ + 1 ELSE @]
      /\ UNCHANGED <<cfg, kind, gone, attempts, tries, result>>
      /\ recordKeyError(r, fault(r, e))
  BY DEF Finish, Late
<1>2. Answering(r) /\ BlamedFor(r)
  BY <1>0, <1>1 DEF Life
<1>3. /\ reported' \in [Requests -> Nat] /\ reported'[r] \in {0, 1}
      /\ \A q \in Requests \ {r} : reported'[q] = reported[q]
      /\ reported'[r] > 0 => fault(r, e) \notin {"none", "canceled", "reset"}
  BY <1>0, <1>1, <1>2, ReportFacts DEF Answering
<1>4. pc' \in [Requests -> PCs] /\ answers' \in [Requests -> Nat]
  BY <1>0, <1>1 DEF Typed, PCs
<1>5. Typed'
  BY <1>0, <1>1, <1>3, <1>4 DEF Typed
<1>6. Others(r)
  BY <1>0, <1>1, <1>3 DEF Typed, Others
<1>7. answers'[r] = 1
  BY <1>0, <1>1, <1>2 DEF Answering, Typed
<1>8. reported'[r] > 0 => blamed'[r]
  BY <1>0, <1>2, <1>3, FaultBlamed DEF Answering
<1>9. stream'[r] # "none" =>
         /\ stream'[r] # "created" => reported'[r] = 0
         /\ stream'[r] = "created" /\ ~ gone'[r] => blamed'[r]
  <2> SUFFICES ASSUME stream'[r] # "none"
               PROVE  /\ stream'[r] # "created" => reported'[r] = 0
                      /\ stream'[r] = "created" /\ ~ gone[r] => blamed'[r]
    BY <1>1
  <2>1. kind[r] = "stream" /\ result[r].status = "success" /\ stream[r] = "created"
    BY <1>2 DEF Answering, Converted
  <2>2. fault(r, e) = e
    BY <2>1 DEF fault
  <2> QED
    BY <1>3, <2>1, <2>2
<1>10. Life(r)'
  <2>1. Ended(r)'
    BY <1>3, <1>7, <1>8, <1>9 DEF Ended
  <2>2. pc'[r] = "releasing"
    BY <1>0, <1>1 DEF Typed
  <2> QED
    BY <2>1, <2>2 DEF Life
<1> QED
  BY <1>0, <1>1, <1>5, <1>6, <1>10, OneRequest

\* The ways in which the copy ends.
LEMMA CopyStep ==
    ASSUME Inv, NEW r \in Requests, Copy(r)
    PROVE  Inv'
<1>0. Typed /\ Life(r)
  BY InvTyped DEF Inv
<1>a. pc[r] = "copying" => Answering(r)
  BY <1>0 DEF Life
<1>1. CASE BodyEnds(r) \/ StreamDone(r)
  <2>1. Finish(r, "none") /\ UNCHANGED blamed /\ (Terminal(r, "completed") \/ Terminal(r, "done"))
    BY <1>1 DEF BodyEnds, StreamDone
  <2>2. stream[r] \in {"none", "created"}
    BY <1>a, <2>1 DEF Finish, Answering
  <2>3. /\ stream' \in [Requests -> {"none", "created", "completed", "done"}]
        /\ \A q \in Requests \ {r} : stream'[q] = stream[q]
        /\ stream[r] = "none" => stream'[r] = "none"
        /\ stream[r] # "none" => stream'[r] # "created"
    BY <1>0, <2>1, <2>2 DEF Terminal, Typed
  <2> QED
    BY <1>0, <2>1, <2>3, FinishStep DEF Typed
<1>2. ASSUME NEW e \in Errors, BodyBreaks(r, e) PROVE Inv'
  <2>1. Finish(r, e) /\ Blame(r, e) /\ UNCHANGED stream /\ e # "none"
    BY <1>2 DEF BodyBreaks, Errors
  <2>2. /\ blamed' \in [Requests -> BOOLEAN]
        /\ \A q \in Requests \ {r} : blamed'[q] = blamed[q]
        /\ blamed[r] => blamed'[r]
        /\ e # "canceled" => blamed'[r]
    BY <1>0, <2>1, BlameFacts
  <2>3. stream[r] # "none" => e # "canceled" /\ stream[r] = "created"
    <3>1. Answering(r)
      BY <1>a, <2>1 DEF Finish
    <3> QED
      BY <1>2, <3>1 DEF BodyBreaks, Answering, Converted, Failures
  <2> QED
    BY <1>0, <2>1, <2>2, <2>3, FinishStep DEF Typed
<1>3. ASSUME NEW e \in Errors, CopyCanceled(r, e) PROVE Inv'
  <2>1. /\ Finish(r, e) /\ UNCHANGED <<stream, blamed>> /\ gone[r]
        /\ e \in {"canceled", "reset"}
    BY <1>3 DEF CopyCanceled
  <2>2. stream[r] \in {"none", "created"}
    BY <1>a, <2>1 DEF Finish, Answering
  <2> QED
    BY <1>0, <2>1, <2>2, FinishStep DEF Typed
<1> QED
  BY <1>1, <1>2, <1>3 DEF Copy

\* The lease is returned, or the client goes.
LEMMA EndStep ==
    ASSUME Inv, NEW r \in Requests, Release(r) \/ ClientGoes(r)
    PROVE  Inv'
<1>0. Typed /\ Life(r) /\ tries[r] <= attempts[r]
  BY InvTyped DEF Inv, TypeOK
<1>1. Typed' /\ Others(r) /\ tries' = tries /\ attempts' = attempts
  BY <1>0 DEF Release, ClientGoes, Typed, Others, PCs
<1>2. Life(r)'
  BY <1>0 DEF Release, ClientGoes, Typed, Life, Unanswered, BlamedFor, Answering, Late,
              Converted, Ended, Holding
<1> QED
  BY <1>0, <1>1, <1>2, OneRequest

\* Every step keeps the invariant.
LEMMA StepInv == Inv /\ [Next]_vars => Inv'
<1> SUFFICES ASSUME Inv, [Next]_vars PROVE Inv'
  OBVIOUS
<1>1. ASSUME NEW r \in Requests, NEW k \in Kinds, Acquire(r, k) \/ Refuse(r, k) PROVE Inv'
  BY <1>1, BeginStep
<1>2. ASSUME NEW r \in Requests, Handle(r) PROVE Inv'
  <2>1. CASE Reject(r) \/ Start(r)
    BY <2>1, BeginStep DEF Kinds
  <2>2. CASE Send(r)
    BY <2>2, DoFailsStep, StatusStep DEF Send, Errors, Phrases
  <2>3. CASE Retry(r) \/ StopRetrying(r)
    BY <2>3, DelayStep
  <2> QED
    BY <1>2, <2>1, <2>2, <2>3, FailStep, CopyStep, EndStep DEF Handle
<1>3. ASSUME NEW r \in Requests, ClientGoes(r) PROVE Inv'
  BY <1>3, EndStep
<1>4. ASSUME NEW c \in Configs, Reload(c) PROVE Inv'
  BY <1>4 DEF Reload, requestVars, Inv, TypeOK, Life, Unanswered, BlamedFor, Answering, Late,
              Converted, Ended
<1>5. CASE UNCHANGED vars
  BY <1>5 DEF vars, requestVars, Inv, TypeOK, Life, Unanswered, BlamedFor, Answering, Late,
              Converted, Ended
<1> QED
  BY <1>1, <1>2, <1>3, <1>4, <1>5 DEF Next

\* The invariant holds throughout.
THEOREM InvCorrect == Spec => []Inv
  BY InitInv, StepInv, PTL DEF Spec

\* Type correctness, with the bound on the attempts: TypeOK.
THEOREM TypeCorrect == Spec => []TypeOK
<1>1. Inv => TypeOK
  BY DEF Inv
<1> QED
  BY <1>1, InvCorrect, PTL

\* Only the upstream's own failures are charged to a key: ClientNeverBlamed.
THEOREM ClientNeverBlamedCorrect == Spec => []ClientNeverBlamed
<1>1. Inv => ClientNeverBlamed
  BY DEF Inv, TypeOK, PCs, Life, Unanswered, Answering, Ended, ClientNeverBlamed
<1> QED
  BY <1>1, InvCorrect, PTL

\* One answer, on every path: AnsweredOnce.
THEOREM AnsweredOnceCorrect == Spec => []AnsweredOnce
<1>1. Inv => AnsweredOnce
  <2> SUFFICES ASSUME Inv, NEW r \in Requests
               PROVE  /\ answers[r] <= 1
                      /\ pc[r] \in {"refused", "releasing", "done"} => answers[r] = 1
    BY DEF AnsweredOnce
  <2>1. pc[r] \in PCs /\ Life(r)
    BY DEF Inv, TypeOK
  <2>2. CASE pc[r] \in {"idle", "leased", "sending", "delaying", "failed"}
    BY <2>1, <2>2 DEF Life, Unanswered
  <2>3. CASE pc[r] = "copying"
    BY <2>1, <2>3 DEF Life, Answering
  <2>4. CASE pc[r] \in {"refused", "releasing", "done"}
    BY <2>1, <2>4 DEF Life, Ended
  <2> QED
    BY <2>1, <2>2, <2>3, <2>4 DEF PCs
<1> QED
  BY <1>1, InvCorrect, PTL

\* A converted stream tells its client the truth: StreamEndsHonestly.
THEOREM StreamEndsHonestlyCorrect == Spec => []StreamEndsHonestly
<1>1. Inv => StreamEndsHonestly
  BY DEF Inv, TypeOK, PCs, Life, Unanswered, Answering, Ended, StreamEndsHonestly
<1> QED
  BY <1>1, InvCorrect, PTL

-----------------------------------------------------------------------------

Retried(r) == pc'[r] = "delaying" /\ pc[r] # "delaying"

\* The steps that lead to another attempt.
LEMMA RetrySteps ==
    ASSUME Typed, [Next]_vars, NEW r \in Requests, Retried(r)
    PROVE  \/ \E e \in Errors : DoFails(r, e)
           \/ \E s \in Statuses, text \in SUBSET Phrases :
                 DoRefused(r, s, text) /\ shouldRetryUpstream(s, text, cfg.retry429)
<1>1. ASSUME NEW q \in Requests, pc' = [pc EXCEPT ![q] = pc'[q]], q # r PROVE FALSE
  BY <1>1 DEF Retried, Typed
<1>2. ASSUME NEW q \in Requests, NEW l, l # "delaying", pc' = [pc EXCEPT ![q] = l] PROVE FALSE
  BY <1>2 DEF Retried, Typed
<1>3. ASSUME UNCHANGED pc PROVE FALSE
  BY <1>3 DEF Retried
<1>4. ASSUME NEW q \in Requests, NEW k \in Kinds, Acquire(q, k) \/ Refuse(q, k) PROVE FALSE
  BY <1>4, <1>2 DEF Acquire, Refuse
<1>5. ASSUME NEW q \in Requests, Reject(q) \/ Start(q) \/ Retry(q) \/ Fail(q) \/ Release(q)
      PROVE  FALSE
  BY <1>5, <1>2 DEF Reject, Start, Retry, Fail, Release
<1>6. ASSUME NEW q \in Requests, StopRetrying(q) \/ Copy(q) PROVE FALSE
  BY <1>6, <1>2 DEF StopRetrying, BeginAnswer, Copy, BodyEnds, StreamDone, BodyBreaks, CopyCanceled, Finish
<1>7. ASSUME NEW q \in Requests, NEW s, NEW e, DoSucceeds(q, s) \/ DoUnreadable(q, s, e) PROVE FALSE
  BY <1>7, <1>2 DEF DoSucceeds, DoUnreadable, BeginAnswer
<1>8. ASSUME NEW q \in Requests, NEW e \in Errors, DoFails(q, e) PROVE q = r
  BY <1>8 DEF DoFails, Retried, Typed
<1>9. ASSUME NEW q \in Requests, NEW s \in Statuses, NEW text \in SUBSET Phrases, DoRefused(q, s, text)
      PROVE  q = r /\ shouldRetryUpstream(s, text, cfg.retry429)
  <2>1. CASE BeginAnswer(q, s)
    BY <2>1, <1>2 DEF BeginAnswer
  <2>2. CASE shouldRetryUpstream(s, text, cfg.retry429) /\ pc' = [pc EXCEPT ![q] = "delaying"]
    BY <2>2 DEF Retried, Typed
  <2> QED
    BY <1>9, <2>1, <2>2 DEF DoRefused
<1>10. ASSUME \/ \E q \in Requests : ClientGoes(q)
              \/ \E c \in Configs : Reload(c)
              \/ UNCHANGED vars
       PROVE  FALSE
  BY <1>10, <1>3 DEF ClientGoes, Reload, vars, requestVars
<1>11. PICK q \in Requests : Send(q)
  BY <1>4, <1>5, <1>6, <1>10 DEF Next, Handle
<1> QED
  BY <1>7, <1>8, <1>9, <1>11 DEF Send

\* Another attempt is justified by what came before it: RetriesJustified.
THEOREM RetriesJustifiedCorrect == Spec => RetriesJustified
<1> DEFINE Justified(r) ==
        Retried(r) =>
          /\ answers'[r] = 0
          /\ result'[r].status \in Failures \cup {"none"}
          /\ result'[r].status = "tooMany" => cfg.retry429
<1>1. Inv /\ [Next]_vars => \A r \in Requests : Justified(r)
  <2> SUFFICES ASSUME Inv, [Next]_vars, NEW r \in Requests, Retried(r)
               PROVE  /\ answers'[r] = 0
                      /\ result'[r].status \in Failures \cup {"none"}
                      /\ result'[r].status = "tooMany" => cfg.retry429
    OBVIOUS
  <2>0. Typed
    BY InvTyped
  <2>1. answers'[r] = 0
    BY StepInv DEF Inv, Life, Unanswered, Retried
  <2>2. ASSUME NEW e \in Errors, DoFails(r, e)
        PROVE  result'[r].status = "none"
    <3> DEFINE res == [NoResult EXCEPT !.err = e]
    <3>1. res \in Results /\ res.status = "none"
      BY ErrorResult
    <3>2. Sent(r, res)
      BY <2>2 DEF DoFails
    <3> HIDE DEF res
    <3> QED
      BY <2>0, <3>1, <3>2, SentFacts
  <2>3. ASSUME NEW s \in Statuses, NEW text \in SUBSET Phrases, DoRefused(r, s, text),
               shouldRetryUpstream(s, text, cfg.retry429)
        PROVE  result'[r].status \in Failures /\ (result'[r].status = "tooMany" => cfg.retry429)
    <3> DEFINE res == [NoResult EXCEPT !.status = s, !.text = text]
    <3>1. res \in Results /\ res.status = s
      BY StatusResult DEF Errors
    <3>2. Sent(r, res) /\ s \in Failures
      BY <2>3 DEF DoRefused
    <3> HIDE DEF res
    <3>3. result'[r].status = s
      BY <2>0, <3>1, <3>2, SentFacts
    <3> QED
      BY <2>3, <3>2, <3>3 DEF shouldRetryUpstream
  <2>4. CASE \E e \in Errors : DoFails(r, e)
    BY <2>1, <2>2, <2>4
  <2>5. CASE \E s \in Statuses, text \in SUBSET Phrases :
                DoRefused(r, s, text) /\ shouldRetryUpstream(s, text, cfg.retry429)
    BY <2>1, <2>3, <2>5
  <2> QED
    BY <2>0, <2>4, <2>5, RetrySteps
<1>2. Spec => [][\A r \in Requests : Justified(r)]_vars
  BY <1>1, InvCorrect, PTL DEF Spec
<1> QED
  BY <1>2 DEF RetriesJustified, Retried

-----------------------------------------------------------------------------
(***************************************************************************)
(* What the store sees of a request: the steps of LeaseUse.                *)
(***************************************************************************)

\* A step inside the time the lease is held.
LEMMA HeldStep ==
    ASSUME Typed, NEW r \in Requests, NEW l \in Holding, pc[r] \in Holding,
           pc' = [pc EXCEPT ![r] = l]
    PROVE  phases' = phases
<1>1. \A q \in Requests : Phase(q)' = Phase(q)
  BY DEF Typed, Phase
<1> QED
  BY <1>1 DEF phases

\* Steps that report nothing and leave the lease where it is.
LEMMA QuietStep ==
    ASSUME Inv, NEW r \in Requests, Reject(r) \/ Start(r) \/ Send(r) \/ Retry(r) \/ StopRetrying(r)
    PROVE  phases' = phases /\ reported' = reported
<1>0. Typed
  BY InvTyped
<1>1. pc[r] \in Holding /\ reported' = reported /\ \E l \in Holding : pc' = [pc EXCEPT ![r] = l]
  <2>1. CASE Reject(r) \/ Start(r) \/ Retry(r)
    BY <2>1 DEF Reject, Start, Retry, Holding
  <2>2. CASE StopRetrying(r)
    BY <2>2 DEF StopRetrying, BeginAnswer, Holding
  <2>3. CASE Send(r)
    <3>1. pc[r] \in Holding /\ reported' = reported
      BY <2>3 DEF Send, DoFails, DoSucceeds, DoRefused, DoUnreadable, Sent, Holding
    <3>2. ASSUME NEW s, BeginAnswer(r, s) PROVE \E l \in Holding : pc' = [pc EXCEPT ![r] = l]
      BY <3>2 DEF BeginAnswer, Holding
    <3>3. ASSUME NEW e \in Errors, DoFails(r, e)
          PROVE  \E l \in Holding : pc' = [pc EXCEPT ![r] = l]
      BY <3>3 DEF DoFails, Holding
    <3>4. ASSUME NEW s \in Statuses, NEW text \in SUBSET Phrases, DoRefused(r, s, text)
          PROVE  \E l \in Holding : pc' = [pc EXCEPT ![r] = l]
      BY <3>4, <3>2 DEF DoRefused, Holding
    <3> QED
      BY <2>3, <3>1, <3>2, <3>3, <3>4 DEF Send, DoSucceeds, DoUnreadable
  <2> QED
    BY <2>1, <2>2, <2>3
<1> QED
  BY <1>0, <1>1, HeldStep

\* The end of a request reports one error at most.
LEMMA ReportStep ==
    ASSUME Inv, NEW r \in Requests, Fail(r) \/ Copy(r)
    PROVE  Lease!Report(r) \/ (phases' = phases /\ reported' = reported)
<1>0. Typed /\ Life(r)
  BY InvTyped DEF Inv
<1>1. /\ pc[r] \in {"failed", "copying"} /\ pc' = [pc EXCEPT ![r] = "releasing"]
      /\ \E e : recordKeyError(r, e)
  BY DEF Fail, Copy, BodyEnds, StreamDone, BodyBreaks, CopyCanceled, Finish
<1>2. phases' = phases
  BY <1>0, <1>1, HeldStep DEF Holding
<1>3. reported[r] = 0
  BY <1>0, <1>1 DEF Life, Unanswered, Answering
<1>4. reported' = [reported EXCEPT ![r] = 0] \/ reported' = [reported EXCEPT ![r] = 1]
  <2>1. PICK e : recordKeyError(r, e)
    BY <1>1
  <2>2. CASE r \in Managed /\ e # "none" /\ ~ isClientCancellation(e)
    BY <1>3, <2>1, <2>2 DEF recordKeyError
  <2>3. CASE ~ (r \in Managed /\ e # "none" /\ ~ isClientCancellation(e))
    BY <1>3, <2>1, <2>3 DEF recordKeyError
  <2> QED
    BY <2>2, <2>3
<1>5. reported' = reported \/ reported' = [reported EXCEPT ![r] = 1]
  BY <1>0, <1>3, <1>4 DEF Typed
<1>6. phases[r] = "held"
  BY <1>1 DEF phases, Phase, Holding
<1> QED
  BY <1>2, <1>3, <1>5, <1>6 DEF Lease!Report

\* Every step of a request is a step of LeaseUse, or hidden from it.
LEMMA LeaseStep == Inv /\ [Next]_vars => [Lease!Next]_(Lease!vars)
<1> SUFFICES ASSUME Inv, [Next]_vars PROVE Lease!Next \/ (phases' = phases /\ reported' = reported)
  BY DEF Lease!vars
<1>0. Typed
  BY InvTyped
<1>1. ASSUME NEW r \in Requests, NEW k \in Kinds, Acquire(r, k) PROVE Lease!Take(r)
  <2>1. pc[r] = "idle" /\ pc' = [pc EXCEPT ![r] = "leased"] /\ reported' = reported
    BY <1>1 DEF Acquire
  <2>2. \A q \in Requests : Phase(q)' = IF q = r THEN "held" ELSE Phase(q)
    BY <1>0, <2>1 DEF Typed, Phase, Holding
  <2>3. phases[r] = "none"
    BY <2>1 DEF phases, Phase, Holding
  <2> QED
    BY <2>1, <2>2, <2>3 DEF phases, Lease!Take
<1>2. ASSUME NEW r \in Requests, Release(r) PROVE Lease!Return(r)
  <2>1. pc[r] = "releasing" /\ pc' = [pc EXCEPT ![r] = "done"] /\ reported' = reported
    BY <1>2 DEF Release
  <2>2. \A q \in Requests : Phase(q)' = IF q = r THEN "returned" ELSE Phase(q)
    BY <1>0, <2>1 DEF Typed, Phase, Holding
  <2>3. phases[r] = "held"
    BY <2>1 DEF phases, Phase, Holding
  <2> QED
    BY <2>1, <2>2, <2>3 DEF phases, Lease!Return
<1>3. ASSUME NEW r \in Requests, NEW k \in Kinds, Refuse(r, k)
      PROVE  phases' = phases /\ reported' = reported
  <2>1. \A q \in Requests : Phase(q)' = Phase(q)
    BY <1>0, <1>3 DEF Refuse, Typed, Phase, Holding
  <2> QED
    BY <1>3, <2>1 DEF Refuse, phases
<1>4. ASSUME pc' = pc, reported' = reported PROVE phases' = phases /\ reported' = reported
  BY <1>4 DEF phases, Phase
<1>5. ASSUME \/ \E r \in Requests : ClientGoes(r)
             \/ \E c \in Configs : Reload(c)
             \/ UNCHANGED vars
      PROVE  phases' = phases /\ reported' = reported
  BY <1>4, <1>5 DEF ClientGoes, Reload, vars, requestVars
<1>6. ASSUME NEW r \in Requests, Handle(r)
      PROVE  Lease!Next \/ (phases' = phases /\ reported' = reported)
  BY <1>2, <1>6, QuietStep, ReportStep DEF Handle, Lease!Next
<1> QED
  BY <1>1, <1>3, <1>5, <1>6 DEF Next, Lease!Next

\* A request gives the store one lease to take back and one error at most, in
\* this order: ImplementsLeaseUse.
THEOREM ImplementsLeaseUseCorrect == Spec => ImplementsLeaseUse
<1>1. Init => Lease!Init
  BY DEF Init, Lease!Init, phases, Phase, Holding
<1>2. QED
  BY <1>1, LeaseStep, InvCorrect, PTL DEF Spec, ImplementsLeaseUse, Lease!Spec
=============================================================================
