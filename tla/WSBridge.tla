------------------------------ MODULE WSBridge ------------------------------
(***************************************************************************)
(* service.go, handleWS and runWSRequest: the requests of one WebSocket.   *)
(*                                                                         *)
(* One goroutine reads the socket.  It registers each request in a table   *)
(* of cancel functions, under the id the client gave it, and starts a      *)
(* goroutine that serves it; a cancel message takes the entry of its id    *)
(* out of the table and calls it.  Nothing keeps a client from using an    *)
(* id again while a request of that id runs: the new entry replaces the    *)
(* old one, and whichever request ends first deletes what is there.        *)
(*                                                                         *)
(* What a request does upstream, and what it reports, is in ProxyRequest.  *)
(* Here are its context, its lease and its messages.  Messages that are    *)
(* answered with an error and change nothing (bad JSON, an unknown type,   *)
(* no id) and cancels of an id the table does not have are not steps.      *)
(***************************************************************************)
EXTENDS Naturals, FiniteSets

CONSTANTS
    Requests,   \* requests, each of them sent once
    Ids,        \* the ids the client uses
    id,         \* the id it gives to each request
    Objects,    \* the requests whose body is a JSON object
    None        \* no request

ASSUME ObjectsAssumption == Objects \subseteq Requests
ASSUME IdAssumption == id \in [Requests -> Ids]
ASSUME NoneAssumption == None \notin Requests

VARIABLES
    up,         \* the process runs
    conn,       \* the socket is open
    loop,       \* the reader: where it is, and whose cancel it holds
    table,      \* wsCancelState.cancels
    pc,         \* where its goroutine is
    canceled,   \* the requests whose context is done
    shared,     \* history: the requests that ran beside another of their id
    finals,     \* history: final messages of its own that reached the socket
    confirms    \* history: confirmations of its cancellation that did

vars == <<up, conn, loop, table, pc, canceled, shared, finals, confirms>>

PCs == {"idle", "started", "waiting", "leased", "calling", "streaming",
        "releasing", "cleaning", "finished"}

Running == PCs \ {"idle", "finished"}

Reading == [at |-> "reading", cancel |-> None]

SameId(r) == {s \in Requests : id[s] = id[r] /\ pc[s] \in Running}

Begun == {r \in Requests : pc[r] # "idle"}

-----------------------------------------------------------------------------
(***************************************************************************)
(* The reader.                                                             *)
(***************************************************************************)

Register(r) ==
    /\ up /\ conn /\ loop = Reading
    /\ pc[r] = "idle"
    /\ table' = [table EXCEPT ![id[r]] = r]
    /\ pc' = [pc EXCEPT ![r] = "started"]
    /\ shared' = IF SameId(r) = {} THEN shared ELSE shared \cup SameId(r) \cup {r}
    /\ UNCHANGED <<up, conn, loop, canceled, finals, confirms>>

TakeCancel(i) ==
    /\ up /\ conn /\ loop = Reading
    /\ table[i] # None
    /\ loop' = [at |-> "taken", cancel |-> table[i]]
    /\ table' = [table EXCEPT ![i] = None]
    /\ UNCHANGED <<up, conn, pc, canceled, shared, finals, confirms>>

CallCancel ==
    /\ up /\ loop.at = "taken"
    /\ loop' = [loop EXCEPT !.at = "called"]
    /\ canceled' = canceled \cup {loop.cancel}
    /\ UNCHANGED <<up, conn, table, pc, shared, finals, confirms>>

\* The reader writes with the context of the connection.
Confirm ==
    /\ up /\ loop.at = "called"
    /\ loop' = Reading
    /\ confirms' = [confirms EXCEPT ![loop.cancel] = IF conn THEN @ + 1 ELSE @]
    /\ UNCHANGED <<up, conn, table, pc, canceled, shared, finals>>

\* Reading fails and the handler returns, which ends the context of the HTTP
\* request and with it that of every request of the socket.
HangUp ==
    /\ up /\ ~ conn /\ loop = Reading
    /\ loop' = [Reading EXCEPT !.at = "returned"]
    /\ canceled' = Begun
    /\ UNCHANGED <<up, conn, table, pc, shared, finals, confirms>>

-----------------------------------------------------------------------------
(***************************************************************************)
(* The goroutine of a request.  A message of a request whose context is    *)
(* done may still be written, may be dropped, or may make the WebSocket    *)
(* library close the connection, since it was cut off in its middle.       *)
(***************************************************************************)

Written == conn /\ UNCHANGED conn

Dropped(r) == (~ conn \/ r \in canceled) /\ UNCHANGED conn

CutOff(r) == conn /\ r \in canceled /\ conn' = FALSE

\* The last message of r, after which its goroutine goes to next.
Final(r, next) ==
    /\ \/ Written /\ finals' = [finals EXCEPT ![r] = @ + 1]
       \/ (Dropped(r) \/ CutOff(r)) /\ UNCHANGED finals
    /\ pc' = [pc EXCEPT ![r] = next]
    /\ UNCHANGED <<up, loop, table, canceled, shared, confirms>>

Goes(r, from, to) ==
    /\ up /\ pc[r] = from
    /\ pc' = [pc EXCEPT ![r] = to]
    /\ UNCHANGED <<up, conn, loop, shared, finals, confirms>>

\* The endpoint is known: acquireOutboundKey is called.
Begin(r) == Goes(r, "started", "waiting") /\ UNCHANGED <<table, canceled>>

UnsupportedEndpoint(r) == up /\ pc[r] = "started" /\ Final(r, "cleaning")

\* acquireOutboundKey returns an error: of the client's token, of the queue, or
\* of the context.
Refused(r) == up /\ pc[r] = "waiting" /\ Final(r, "cleaning")

Leased(r) == Goes(r, "waiting", "leased") /\ UNCHANGED <<table, canceled>>

\* A message on the way to the last one: the session id, or a line of the
\* answer.  Only one that is cut off changes anything.
CutOffMidway(r) ==
    /\ up /\ pc[r] \in {"leased", "streaming"}
    /\ CutOff(r)
    /\ UNCHANGED <<up, loop, table, pc, canceled, shared, finals, confirms>>

Convert(r) == r \in Objects /\ Goes(r, "leased", "calling") /\ UNCHANGED <<table, canceled>>

ConvertFails(r) == r \in Objects /\ up /\ pc[r] = "leased" /\ Final(r, "releasing")

\* A body that is no JSON object leaves payload nil, the assignment to it
\* panics, and nothing recovers: the process ends.
Panic(r) ==
    /\ r \notin Objects
    /\ up /\ pc[r] = "leased"
    /\ up' = FALSE
    /\ conn' = FALSE
    /\ UNCHANGED <<loop, table, pc, canceled, shared, finals, confirms>>

\* doUpstreamWithRetry returns a 2xx answer.
Answered(r) == Goes(r, "calling", "streaming") /\ UNCHANGED <<table, canceled>>

\* Mutant: the handler does not return after the message of a failed call.
UpstreamEndsAndGoesOn(r) ==
    \/ up /\ pc[r] = "calling" /\ Final(r, "streaming")
    \/ up /\ pc[r] = "streaming" /\ Final(r, "releasing")

\* The call or the stream ends, by the upstream's doing.
UpstreamEnds(r) == up /\ pc[r] \in {"calling", "streaming"} /\ Final(r, "releasing")

\* Mutant: only the stream ends with the context, the call does not.
AbortsStream(r) == up /\ r \in canceled /\ pc[r] = "streaming" /\ Final(r, "releasing")

\* It ends because the context is done, whatever the upstream does.
Aborts(r) == up /\ r \in canceled /\ pc[r] \in {"calling", "streaming"} /\ Final(r, "releasing")

\* The deferred lease.Release.
Release(r) == Goes(r, "releasing", "cleaning") /\ UNCHANGED <<table, canceled>>

\* Mutant: the entry is left in the table.
CleanUpAndKeep(r) ==
    /\ Goes(r, "cleaning", "finished")
    /\ canceled' = canceled \cup {r}
    /\ UNCHANGED table

\* The goroutine's own deferred function.
CleanUp(r) ==
    /\ Goes(r, "cleaning", "finished")
    /\ table' = [table EXCEPT ![id[r]] = None]
    /\ canceled' = canceled \cup {r}

\* The client closes the socket, or the network does.
Disconnect ==
    /\ up /\ conn
    /\ conn' = FALSE
    /\ UNCHANGED <<up, loop, table, pc, canceled, shared, finals, confirms>>

-----------------------------------------------------------------------------

Init ==
    /\ up = TRUE
    /\ conn = TRUE
    /\ loop = Reading
    /\ table = [i \in Ids |-> None]
    /\ pc = [r \in Requests |-> "idle"]
    /\ canceled = {}
    /\ shared = {}
    /\ finals = [r \in Requests |-> 0]
    /\ confirms = [r \in Requests |-> 0]

Reader == CallCancel \/ Confirm \/ HangUp

\* What the goroutine of r does without the upstream.
Serve(r) ==
    \/ Begin(r) \/ UnsupportedEndpoint(r)
    \/ Refused(r) \/ Leased(r)
    \/ Convert(r) \/ ConvertFails(r) \/ Panic(r)
    \/ Aborts(r)
    \/ Release(r)
    \/ CleanUp(r)

Next ==
    \/ Reader
    \/ Disconnect
    \/ \E i \in Ids : TakeCancel(i)
    \/ \E r \in Requests :
         \/ Register(r)
         \/ Serve(r)
         \/ CutOffMidway(r)
         \/ Answered(r)
         \/ UpstreamEnds(r)

(***************************************************************************)
(* Goroutines go on, and acquireOutboundKey returns (KeyPool and           *)
(* KeyLimiter show that).  Nothing is assumed of the upstream, which may   *)
(* never answer.  The client need not send or close, but takes what is     *)
(* written to it, or closes: the reader writes the confirmation of a       *)
(* cancel with the context of the socket, and reads on when that is done.  *)
(***************************************************************************)
Fairness == WF_vars(Reader) /\ \A r \in Requests : WF_vars(Serve(r))

Spec == Init /\ [][Next]_vars

FairSpec == Spec /\ Fairness

-----------------------------------------------------------------------------
(***************************************************************************)
(* Properties.                                                             *)
(***************************************************************************)

\* Every variable has its type.
TypeOK ==
    /\ up \in BOOLEAN
    /\ conn \in BOOLEAN
    /\ loop \in [at: {"reading", "taken", "called", "returned"}, cancel: Requests \cup {None}]
    /\ (loop.cancel = None) <=> (loop.at \in {"reading", "returned"})
    /\ table \in [Ids -> Requests \cup {None}]
    /\ pc \in [Requests -> PCs]
    /\ canceled \subseteq Requests
    /\ shared \subseteq Requests
    /\ finals \in [Requests -> Nat]
    /\ confirms \in [Requests -> Nat]

\* r has its entry, or the reader has just taken it, or it was cancelled.
Reachable(r) == table[id[r]] = r \/ loop.cancel = r \/ r \in canceled

\* The table and the running requests agree (handleWS, service.go:659-686): an
\* entry is that of a running request of its id, which no cancel has reached
\* before, and a running request can be cancelled by its id, unless another
\* request of that id ran beside it.
TableExact ==
    /\ \A i \in Ids : table[i] # None =>
          /\ id[table[i]] = i
          /\ pc[table[i]] \in Running
          /\ table[i] \in canceled => loop.at = "returned"
    /\ \A r \in Requests : pc[r] \in Running => Reachable(r) \/ r \in shared

\* However cancels race the end of the request they name, a request gets one
\* final message of its own at most, and one confirmation at most, which is only
\* sent once the request has been cancelled or has ended (service.go:659-670).
ConfirmedOnce ==
    \A r \in Requests :
        /\ finals[r] <= 1
        /\ confirms[r] <= 1
        /\ confirms[r] = 1 => r \in canceled

\* A request that is cancelled, or whose socket is gone, ends and gives its
\* lease back, even if the upstream never answers it.
AbortReleases ==
    \A r \in Requests :
        (r \in canceled \/ ~ conn) ~> (pc[r] \in {"idle", "finished"} \/ ~ up)
=============================================================================
