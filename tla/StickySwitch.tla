---------------------------- MODULE StickySwitch ----------------------------
(***************************************************************************)
(* KeyPool with the memory that a claim of the documents needs: the sticky *)
(* key a request has been told to wait for.                                *)
(***************************************************************************)
EXTENDS KeyPool

VARIABLE stuckOn    \* the full sticky key the request waits for, or NoKey

stickyVars == <<vars, stuckOn>>

\* The key r is told to wait for, kept until r leaves AcquireManaged or has one
\* of the reasons to switch that the documents name: the queue timeout has
\* passed, or the key cools down, or it may not be used any more.
StuckOn(r) ==
    LET k == IF Waiting(r)' /\ waitFor'[r] # NoKey THEN waitFor'[r] ELSE stuckOn[r] IN
    IF \/ k = NoKey
       \/ pc'[r] \notin {"trying", "parked", "late"}
       \/ left'[r] = 0
       \/ ~ cfg'.sticky
       \/ k \notin Enabled'
       \/ InBackoff(keyErrors'[k])
      THEN NoKey
      ELSE k

StickyInit == Init /\ stuckOn = [r \in Requests |-> NoKey]

StickyNext == Next /\ stuckOn' = [r \in Requests |-> StuckOn(r)]

StickySpec == StickyInit /\ [][StickyNext]_stickyVars

\* A request that found its sticky key full is served by another key only after
\* the queue timeout (runtime_store.go:420-421, README.md:59): until then every
\* wakeup takes it back to the sticky key.
WaitsBeforeSwitch ==
    [][\A r \in Requests :
          stuckOn[r] # NoKey /\ SomeoneAcquires(r) => leaseKey'[r] = stuckOn[r]]_stickyVars
=============================================================================
