--------------------------- MODULE WSBridgeProofs ---------------------------
(***************************************************************************)
(* The safety properties of WSBridge for every set of requests and every   *)
(* way in which the client names them.                                     *)
(***************************************************************************)
EXTENDS WSBridge, TLAPS

(***************************************************************************)
(* The strengthening.  A request whose id another running request shares   *)
(* is in shared; the request whose cancel the reader holds has left the    *)
(* table and has not been confirmed; and what is confirmed never comes     *)
(* back into the table, since only a request that has not begun is put     *)
(* there.                                                                  *)
(***************************************************************************)

Entries ==
    \A i \in Ids : table[i] # None =>
        /\ id[table[i]] = i
        /\ pc[table[i]] \in Running
        /\ table[i] \in canceled => loop.at = "returned"

Reached == \A r \in Requests : pc[r] \in Running => Reachable(r) \/ r \in shared

Twins ==
    \A r, s \in Requests :
        r # s /\ id[r] = id[s] /\ pc[r] \in Running /\ pc[s] \in Running => r \in shared

Held ==
    \A r \in Requests : loop.cancel = r =>
        table[id[r]] # r /\ confirms[r] = 0 /\ pc[r] # "idle"

Called == loop.at = "called" => loop.cancel \in canceled

Speaking == {"idle", "started", "waiting", "leased", "calling", "streaming"}

Once ==
    \A r \in Requests :
        /\ r \in canceled => pc[r] # "idle"
        /\ pc[r] \in Speaking => finals[r] = 0
        /\ finals[r] <= 1
        /\ confirms[r] <= 1
        /\ confirms[r] = 1 => r \in canceled /\ table[id[r]] # r

Inv == TypeOK /\ Entries /\ Reached /\ Twins /\ Held /\ Called /\ Once

-----------------------------------------------------------------------------

LEMMA InitInv == Init => Inv
<1> SUFFICES ASSUME Init PROVE Inv
  OBVIOUS
<1>1. TypeOK
  BY DEF Init, TypeOK, Reading, PCs
<1>2. Entries /\ Reached /\ Twins /\ Held /\ Called /\ Once
  BY IdAssumption, NoneAssumption
     DEF Init, Reading, Running, PCs, Entries, Reached, Twins, Held, Called, Once, Speaking
<1> QED
  BY <1>1, <1>2 DEF Inv

\* The places of the reader.
LEMMA ReaderPlaces ==
    ASSUME TypeOK
    PROVE  /\ loop = Reading => loop.at = "reading" /\ loop.cancel = None
           /\ loop.at \in {"reading", "taken", "called", "returned"}
           /\ loop.cancel \in Requests \cup {None}
           /\ loop.cancel = None <=> loop.at \in {"reading", "returned"}
  BY DEF TypeOK, Reading

-----------------------------------------------------------------------------
(***************************************************************************)
(* The reader.                                                             *)
(***************************************************************************)

LEMMA RegisterStep ==
    ASSUME Inv, NEW r \in Requests, Register(r)
    PROVE  Inv'
<1>0. TypeOK /\ Entries /\ Reached /\ Twins /\ Held /\ Called /\ Once
  BY DEF Inv
<1>1. loop.at = "reading" /\ loop.cancel = None /\ loop' = loop
  BY <1>0, ReaderPlaces DEF Register
<1>2. /\ table' \in [Ids -> Requests \cup {None}]
      /\ table'[id[r]] = r
      /\ \A i \in Ids : i # id[r] => table'[i] = table[i]
  BY <1>0, IdAssumption DEF Register, TypeOK
<1>3. /\ pc' \in [Requests -> PCs]
      /\ pc'[r] = "started"
      /\ \A q \in Requests : q # r => pc'[q] = pc[q]
  BY <1>0 DEF Register, TypeOK, PCs
<1>4. /\ shared \subseteq shared' /\ shared' \subseteq Requests
      /\ \A q \in Requests : q # r /\ id[q] = id[r] /\ pc[q] \in Running =>
            q \in shared' /\ r \in shared'
  BY <1>0 DEF Register, TypeOK, SameId
<1>5. UNCHANGED <<up, conn, canceled, finals, confirms>> /\ pc[r] = "idle"
  BY DEF Register
<1>6. r \notin canceled /\ confirms[r] = 0 /\ finals[r] = 0
  BY <1>0, <1>5 DEF Once, Speaking, TypeOK
<1>7. TypeOK'
  BY <1>0, <1>1, <1>2, <1>3, <1>4, <1>5 DEF TypeOK
<1>8. Entries'
  BY <1>0, <1>1, <1>2, <1>3, <1>5, <1>6, IdAssumption, NoneAssumption
     DEF Entries, TypeOK, Running, PCs
<1>9. Reached'
  <2> SUFFICES ASSUME NEW q \in Requests, pc'[q] \in Running
               PROVE  Reachable(q)' \/ q \in shared'
    BY DEF Reached
  <2>1. CASE q = r
    BY <1>2, <2>1 DEF Reachable
  <2>2. CASE q # r /\ id[q] = id[r]
    BY <1>3, <1>4, <2>2
  <2>3. CASE q # r /\ id[q] # id[r]
    BY <1>0, <1>1, <1>2, <1>3, <1>4, <1>5, <2>3, IdAssumption DEF Reached, Reachable
  <2> QED
    BY <2>1, <2>2, <2>3
<1>10. Twins'
  BY <1>0, <1>3, <1>4 DEF Twins
<1>11. Held' /\ Called'
  BY <1>1, <1>5, NoneAssumption DEF Held, Called
<1>12. Once'
  BY <1>0, <1>2, <1>3, <1>5, <1>6, IdAssumption DEF Once, Speaking
<1> QED
  BY <1>7, <1>8, <1>9, <1>10, <1>11, <1>12 DEF Inv

LEMMA TakeStep ==
    ASSUME Inv, NEW i \in Ids, TakeCancel(i)
    PROVE  Inv'
<1>0. TypeOK /\ Entries /\ Reached /\ Twins /\ Held /\ Called /\ Once
  BY DEF Inv
<1>1. /\ loop.at = "reading" /\ loop.cancel = None
      /\ loop' = [at |-> "taken", cancel |-> table[i]]
      /\ loop'.at = "taken" /\ loop'.cancel = table[i]
  BY <1>0, ReaderPlaces DEF TakeCancel
<1>2. /\ table' \in [Ids -> Requests \cup {None}]
      /\ table'[i] = None
      /\ \A j \in Ids : j # i => table'[j] = table[j]
  BY <1>0 DEF TakeCancel, TypeOK
<1>3. UNCHANGED <<up, conn, pc, canceled, shared, finals, confirms>>
  BY DEF TakeCancel
<1>4. /\ table[i] \in Requests /\ id[table[i]] = i
      /\ pc[table[i]] \in Running /\ table[i] \notin canceled
  BY <1>0, <1>1 DEF TakeCancel, TypeOK, Entries
<1>5. TypeOK'
  BY <1>0, <1>1, <1>2, <1>3, <1>4, NoneAssumption DEF TypeOK
<1>6. Entries'
  BY <1>0, <1>1, <1>2, <1>3 DEF Entries
<1>7. Reached'
  <2> SUFFICES ASSUME NEW q \in Requests, pc[q] \in Running
               PROVE  Reachable(q)' \/ q \in shared
    BY <1>3 DEF Reached
  <2>1. CASE q = table[i]
    BY <1>1, <2>1 DEF Reachable
  <2>2. CASE q # table[i]
    BY <1>0, <1>1, <1>2, <1>3, <2>2, IdAssumption, NoneAssumption DEF Reached, Reachable
  <2> QED
    BY <2>1, <2>2
<1>8. Twins' /\ Called'
  BY <1>0, <1>1, <1>3 DEF Twins, Called
<1>9. Held'
  BY <1>0, <1>1, <1>2, <1>3, <1>4, NoneAssumption DEF Held, Once, Running, TypeOK
<1>10. Once'
  BY <1>0, <1>2, <1>3, IdAssumption, NoneAssumption DEF Once
<1> QED
  BY <1>5, <1>6, <1>7, <1>8, <1>9, <1>10 DEF Inv

LEMMA CallStep ==
    ASSUME Inv, CallCancel
    PROVE  Inv'
<1>0. TypeOK /\ Entries /\ Reached /\ Twins /\ Held /\ Called /\ Once
  BY DEF Inv
<1> DEFINE c == loop.cancel
<1>1. /\ c \in Requests /\ loop.at = "taken"
      /\ loop' \in [at: {"reading", "taken", "called", "returned"},
                    cancel: Requests \cup {None}]
      /\ loop'.at = "called" /\ loop'.cancel = c
  BY <1>0, ReaderPlaces DEF CallCancel, TypeOK
<1>2. canceled' = canceled \cup {c} /\ UNCHANGED <<up, conn, table, pc, shared, finals, confirms>>
  BY DEF CallCancel
<1>3. table[id[c]] # c /\ confirms[c] = 0 /\ pc[c] # "idle"
  BY <1>0, <1>1 DEF Held
<1> HIDE DEF c
<1>4. TypeOK'
  BY <1>0, <1>1, <1>2, NoneAssumption DEF TypeOK
<1>5. Entries'
  BY <1>0, <1>1, <1>2, <1>3 DEF Entries, TypeOK
<1>6. Reached'
  BY <1>0, <1>1, <1>2 DEF Reached, Reachable, c
<1>7. Twins' /\ Called'
  BY <1>0, <1>1, <1>2 DEF Twins, Called
<1>8. Held' /\ Once'
  BY <1>0, <1>1, <1>2, <1>3 DEF Held, Once
<1> QED
  BY <1>4, <1>5, <1>6, <1>7, <1>8 DEF Inv

LEMMA ConfirmStep ==
    ASSUME Inv, Confirm
    PROVE  Inv'
<1>0. TypeOK /\ Entries /\ Reached /\ Twins /\ Held /\ Called /\ Once
  BY DEF Inv
<1> DEFINE c == loop.cancel
<1>1. /\ c \in Requests /\ loop.at = "called" /\ c \in canceled
      /\ loop' = Reading /\ loop'.at = "reading" /\ loop'.cancel = None
  BY <1>0, ReaderPlaces DEF Confirm, Reading, Called
<1>2. UNCHANGED <<up, conn, table, pc, canceled, shared, finals>>
  BY DEF Confirm
<1>3. table[id[c]] # c /\ confirms[c] = 0
  BY <1>0, <1>1 DEF Held
<1>4. /\ confirms' \in [Requests -> Nat] /\ confirms'[c] \in {0, 1}
      /\ \A q \in Requests : q # c => confirms'[q] = confirms[q]
  BY <1>0, <1>1, <1>3 DEF Confirm, TypeOK
<1>5. \A q \in Requests : loop.cancel = q <=> q = c
  OBVIOUS
<1> HIDE DEF c
<1>6. TypeOK'
  BY <1>0, <1>1, <1>2, <1>4 DEF TypeOK, Reading
<1>7. Entries' /\ Twins' /\ Called'
  BY <1>0, <1>1, <1>2 DEF Entries, Twins, Called
<1>8. Reached'
  BY <1>0, <1>1, <1>2, <1>5 DEF Reached, Reachable
<1>9. Held' /\ Once'
  BY <1>0, <1>1, <1>2, <1>3, <1>4, NoneAssumption DEF Held, Once
<1> QED
  BY <1>6, <1>7, <1>8, <1>9 DEF Inv

LEMMA HangUpStep ==
    ASSUME Inv, HangUp
    PROVE  Inv'
<1>0. TypeOK /\ Entries /\ Reached /\ Twins /\ Held /\ Called /\ Once
  BY DEF Inv
<1>1. /\ loop.cancel = None
      /\ loop' = [at |-> "returned", cancel |-> None]
      /\ loop'.at = "returned" /\ loop'.cancel = None
  BY <1>0, ReaderPlaces DEF HangUp, Reading
<1>2. canceled' = Begun /\ UNCHANGED <<up, conn, table, pc, shared, finals, confirms>>
  BY DEF HangUp
<1>3. \A q \in Requests : q \in canceled' <=> pc[q] # "idle"
  BY <1>2 DEF Begun
<1>4. TypeOK'
  BY <1>0, <1>1, <1>2 DEF TypeOK, Begun
<1>5. Entries' /\ Twins' /\ Called'
  BY <1>0, <1>1, <1>2 DEF Entries, Twins, Called
<1>6. Reached'
  BY <1>2, <1>3 DEF Reached, Reachable, Running
<1>7. Held' /\ Once'
  BY <1>0, <1>1, <1>2, <1>3, NoneAssumption DEF Held, Once
<1> QED
  BY <1>4, <1>5, <1>6, <1>7 DEF Inv

-----------------------------------------------------------------------------
(***************************************************************************)
(* The goroutine of a request.                                             *)
(***************************************************************************)

\* A step of r within its time in the table: a message or none, the same entry.
LEMMA ServingStep ==
    ASSUME Inv, NEW r \in Requests, NEW to \in Running, pc[r] \in Running,
           pc' = [pc EXCEPT ![r] = to],
           UNCHANGED <<up, loop, table, canceled, shared, confirms>>, conn' \in BOOLEAN,
           \/ finals' = finals /\ (to \in Speaking => pc[r] \in Speaking)
           \/ finals' = [finals EXCEPT ![r] = @ + 1] /\ pc[r] \in Speaking /\ to \notin Speaking
    PROVE  Inv'
<1>0. TypeOK /\ Entries /\ Reached /\ Twins /\ Held /\ Called /\ Once
  BY DEF Inv
<1>1. /\ pc' \in [Requests -> PCs] /\ pc'[r] = to
      /\ \A q \in Requests : q # r => pc'[q] = pc[q]
      /\ \A q \in Requests : pc'[q] \in Running <=> pc[q] \in Running
  BY <1>0 DEF TypeOK, Running
<1>2. /\ finals' \in [Requests -> Nat]
      /\ pc'[r] \in Speaking => finals'[r] = 0
      /\ finals'[r] <= 1
      /\ \A q \in Requests : q # r => finals'[q] = finals[q]
  BY <1>0, <1>1 DEF TypeOK, Once
<1>3. TypeOK'
  BY <1>0, <1>1, <1>2 DEF TypeOK
<1>4. Entries' /\ Twins' /\ Called'
  BY <1>0, <1>1 DEF Entries, Twins, Called, TypeOK
<1>5. Reached'
  BY <1>0, <1>1 DEF Reached, Reachable
<1>6. Held'
  BY <1>0, <1>1 DEF Held, Running
<1>7. Once'
  BY <1>0, <1>1, <1>2 DEF Once, Running
<1> QED
  BY <1>3, <1>4, <1>5, <1>6, <1>7 DEF Inv

\* The last message of a request.
LEMMA FinalStep ==
    ASSUME Inv, NEW r \in Requests, pc[r] \in Speaking \ {"idle"},
           NEW to \in {"releasing", "cleaning"}, Final(r, to)
    PROVE  Inv'
<1>1. /\ pc' = [pc EXCEPT ![r] = to] /\ UNCHANGED <<up, loop, table, canceled, shared, confirms>>
      /\ finals' = finals \/ finals' = [finals EXCEPT ![r] = @ + 1]
  BY DEF Final
<1>2. conn' \in BOOLEAN
  BY DEF Final, Written, Dropped, CutOff, Inv, TypeOK
<1>3. to \in Running /\ pc[r] \in Running /\ to \notin Speaking
  BY DEF Running, PCs, Speaking
<1> QED
  BY <1>1, <1>2, <1>3, ServingStep

LEMMA CleanUpStep ==
    ASSUME Inv, NEW r \in Requests, CleanUp(r)
    PROVE  Inv'
<1>0. TypeOK /\ Entries /\ Reached /\ Twins /\ Held /\ Called /\ Once
  BY DEF Inv
<1>1. /\ pc' \in [Requests -> PCs] /\ pc[r] = "cleaning" /\ pc'[r] = "finished"
      /\ \A q \in Requests : q # r => pc'[q] = pc[q]
  BY <1>0 DEF CleanUp, Goes, TypeOK, PCs
<1>2. /\ table' \in [Ids -> Requests \cup {None}]
      /\ table'[id[r]] = None
      /\ \A i \in Ids : i # id[r] => table'[i] = table[i]
  BY <1>0, IdAssumption DEF CleanUp, TypeOK
<1>3. canceled' = canceled \cup {r} /\ UNCHANGED <<up, conn, loop, shared, finals, confirms>>
  BY DEF CleanUp, Goes
<1>4. TypeOK'
  BY <1>0, <1>1, <1>2, <1>3 DEF TypeOK
<1>5. Entries'
  BY <1>0, <1>1, <1>2, <1>3 DEF Entries, TypeOK
<1>6. Reached'
  <2> SUFFICES ASSUME NEW q \in Requests, pc'[q] \in Running
               PROVE  Reachable(q)' \/ q \in shared
    BY <1>3 DEF Reached
  <2>1. q # r /\ pc[q] \in Running /\ pc[r] \in Running
    BY <1>1 DEF Running, PCs
  <2>2. CASE id[q] = id[r]
    BY <1>0, <2>1, <2>2 DEF Twins
  <2>3. CASE id[q] # id[r]
    BY <1>0, <1>2, <1>3, <2>1, <2>3, IdAssumption DEF Reached, Reachable
  <2> QED
    BY <2>2, <2>3
<1>7. Twins' /\ Called'
  BY <1>0, <1>1, <1>3 DEF Twins, Called, Running
<1>8. Held' /\ Once'
  BY <1>0, <1>1, <1>2, <1>3, IdAssumption, NoneAssumption DEF Held, Once, Speaking
<1> QED
  BY <1>4, <1>5, <1>6, <1>7, <1>8 DEF Inv

\* The end of the process or of the socket changes nothing else.
LEMMA LostStep ==
    ASSUME Inv, up' \in BOOLEAN, conn' \in BOOLEAN,
           UNCHANGED <<loop, table, pc, canceled, shared, finals, confirms>>
    PROVE  Inv'
  BY DEF Inv, TypeOK, Entries, Reached, Reachable, Twins, Held, Called, Once

LEMMA ServeStep ==
    ASSUME Inv, NEW r \in Requests,
           Serve(r) \/ CutOffMidway(r) \/ Answered(r) \/ UpstreamEnds(r)
    PROVE  Inv'
<1>1. ASSUME NEW from \in Speaking \ {"idle"}, NEW to \in Running, Goes(r, from, to),
             to \in Speaking => from \in Speaking, UNCHANGED <<table, canceled>>
      PROVE  Inv'
  BY <1>1, ServingStep DEF Goes, Running, PCs, Speaking, Inv, TypeOK
<1>2. CASE Begin(r) \/ Leased(r) \/ Convert(r) \/ Answered(r)
  BY <1>1, <1>2 DEF Begin, Leased, Convert, Answered, Running, PCs, Speaking
<1>3. CASE UnsupportedEndpoint(r) \/ Refused(r) \/ ConvertFails(r)
  BY <1>3, FinalStep DEF UnsupportedEndpoint, Refused, ConvertFails, Speaking
<1>4. CASE Aborts(r) \/ UpstreamEnds(r)
  BY <1>4, FinalStep DEF Aborts, UpstreamEnds, Speaking
<1>5. CASE Panic(r) \/ CutOffMidway(r)
  BY <1>5, LostStep DEF Panic, CutOffMidway, CutOff, Inv, TypeOK
<1>6. CASE Release(r)
  BY <1>6, ServingStep DEF Release, Goes, Running, PCs, Speaking, Inv, TypeOK
<1> QED
  BY <1>2, <1>3, <1>4, <1>5, <1>6, CleanUpStep DEF Serve

-----------------------------------------------------------------------------

\* Every step keeps the invariant.
LEMMA StepInv == Inv /\ [Next]_vars => Inv'
<1> SUFFICES ASSUME Inv, [Next]_vars PROVE Inv'
  OBVIOUS
<1>1. CASE Reader
  BY <1>1, CallStep, ConfirmStep, HangUpStep DEF Reader
<1>2. CASE Disconnect \/ UNCHANGED vars
  BY <1>2, LostStep DEF Disconnect, vars, Inv, TypeOK
<1>3. ASSUME NEW i \in Ids, TakeCancel(i) PROVE Inv'
  BY <1>3, TakeStep
<1>4. ASSUME NEW r \in Requests, Register(r) PROVE Inv'
  BY <1>4, RegisterStep
<1> QED
  BY <1>1, <1>2, <1>3, <1>4, ServeStep DEF Next

\* The invariant holds throughout, and with it the types: TypeOK.
THEOREM InvCorrect == Spec => []Inv
  BY InitInv, StepInv, PTL DEF Spec

\* The table of cancel functions agrees with the requests that run, but for
\* those that share an id: TableExact.
THEOREM TableExactCorrect == Spec => []TableExact
<1>1. Inv => TableExact
  BY DEF Inv, Entries, Reached, TableExact
<1> QED
  BY <1>1, InvCorrect, PTL

\* One final message and one confirmation at most, whatever races: ConfirmedOnce.
THEOREM ConfirmedOnceCorrect == Spec => []ConfirmedOnce
<1>1. Inv => ConfirmedOnce
  BY DEF Inv, Once, ConfirmedOnce
<1> QED
  BY <1>1, InvCorrect, PTL
=============================================================================
