------------------------------ MODULE ErrorBody ------------------------------
(***************************************************************************)
(* retry.go, service.go: the body of an upstream's error on its way to the *)
(* client.  doUpstreamWithRetry reads it to decide on a retry, the handler *)
(* reads it again for the log, and both put a reader over what they read   *)
(* in its place.  A Go slice shares its array with the reader made from    *)
(* it, and append writes into that array when there is room: arrays are    *)
(* modelled as such, a byte as a value.                                    *)
(***************************************************************************)
EXTENDS Naturals, Sequences, FiniteSetsExt, SequencesExt

CONSTANTS
    Bytes,          \* values of a byte the upstream may send
    MaxBody,        \* bound on the length of a body
    BodyLimit,      \* retryDecisionBodyLimit
    CaptureLimit,   \* upstreamErrorBodyCaptureLimit
    Marker,         \* "...[truncated]"
    Spare           \* room io.ReadAll may leave in its array

VARIABLES
    stage,      \* how far the body is
    sent,       \* what the upstream sends
    array,      \* the array under the reader that is now resp.Body
    size,       \* how much of it the reader reads
    snippet,    \* captureUpstreamErrorBody's result
    received    \* what the client has got

vars == <<stage, sent, array, size, snippet, received>>

Init ==
    /\ stage = "answered"
    /\ sent \in BoundedSeq(Bytes, MaxBody)
    /\ array = sent
    /\ size = Len(sent)
    /\ snippet = <<>>
    /\ received = <<>>

\* io.ReadAll of a limited reader fills an array of its own, with room to
\* spare, and resp.Body becomes a reader of what was read.
readAndRestoreBody(before, after) ==
    /\ stage = before
    /\ stage' = after
    /\ size' = Min({size, BodyLimit})
    /\ \E room \in Spare :
         array' = SubSeq(array, 1, size') \o [i \in 1..room |-> "unset"]

\* doUpstreamWithRetry looks at the body and does not retry.
DecideOnRetry ==
    /\ readAndRestoreBody("answered", "restored")
    /\ UNCHANGED <<sent, snippet, received>>

\* captureUpstreamErrorBody reads the body again ...
Reread ==
    /\ readAndRestoreBody("restored", "reread")
    /\ UNCHANGED <<sent, snippet, received>>

\* What append(body[:n], m...) leaves in body's array.
AppendAt(body, n, m) ==
    IF n + Len(m) <= Len(body)
      THEN [i \in DOMAIN body |-> IF i \in n + 1..n + Len(m) THEN m[i - n] ELSE body[i]]
      ELSE body

\* ... and shortens what it returns.
Shorten ==
    /\ stage = "reread"
    /\ stage' = "captured"
    /\ IF size > CaptureLimit
         THEN /\ array' = AppendAt(array, CaptureLimit, Marker)
              /\ snippet' = SubSeq(array, 1, CaptureLimit) \o Marker
         ELSE /\ snippet' = SubSeq(array, 1, size)
              /\ UNCHANGED array
    /\ UNCHANGED <<sent, size, received>>

\* streamCopy delivers what the reader yields.
StreamCopy ==
    /\ stage = "captured"
    /\ stage' = "delivered"
    /\ received' = SubSeq(array, 1, size)
    /\ UNCHANGED <<sent, array, size, snippet>>

Next == DecideOnRetry \/ Reread \/ Shorten \/ StreamCopy

Spec == Init /\ [][Next]_vars

\* What the handler's comment promises (service.go:272-273): the client gets the
\* full error body, however much of it the log keeps.
ErrorBodyDelivered == stage = "delivered" => received = sent
=============================================================================
