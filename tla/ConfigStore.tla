----------------------------- MODULE ConfigStore -----------------------------
(***************************************************************************)
(* runtime_store.go, config_files.go, admin.go, admin_sessions.go: how     *)
(* config.json and key.json change while the gateway runs.  Admin requests *)
(* save them, a watcher loads them every two seconds, an operator edits    *)
(* them by hand, and the process may die between any two steps and be      *)
(* started again.  A new admin password ends the sessions of the old one.  *)
(*                                                                         *)
(* No lock is held while files are read or written, so a step is one       *)
(* system call, or one section under the lock of the store or of the       *)
(* sessions.  Of a configuration only its password is kept, of a key file  *)
(* the ids of its keys.                                                    *)
(***************************************************************************)
EXTENDS Naturals

CONSTANTS
    Admins,             \* the browsers admins work with, one request at a time each
    Main,               \* the goroutine that starts the gateway and then watches
    Passwords, DefaultPassword,
    KeyIds,
    Absent, Empty, Torn, Bad,   \* what a file may hold but a value, see Unreadable
    Edits,              \* what an editor may leave in each of the files
    MaxSaves,           \* bound on the saves admins begin
    MaxFaults           \* bound on crashes and edits by hand

ASSUME MainAssumption == Main \notin Admins
ASSUME PasswordsAssumption == DefaultPassword \in Passwords
ASSUME EditsAssumption ==
    /\ Edits["config"] \subseteq (Passwords \cup {Bad})
    /\ Edits["keys"] \subseteq (SUBSET KeyIds) \cup {Bad}
ASSUME BoundsAssumption == MaxSaves \in Nat /\ MaxFaults \in Nat

VARIABLES
    up,         \* the gateway serves requests
    cfg,        \* RuntimeStore.cfg
    keyFile,    \* RuntimeStore.keyFile
    disk,       \* what each file holds
    tmp,        \* what its temporary file holds
    pc,         \* where each goroutine is
    job,        \* what it saves
    fd,         \* which of the names its open file has now
    read,       \* what its Reload has read
    session,    \* whether the browser's session is in AdminSessions
    under,      \* history: the password its login was compared with
    saves, faults,
    overlapped, \* history: the files two goroutines wrote at once
    stale,      \* history: savers whose copy of the keys is not what key.json holds
    raced,      \* history: browsers whose login was overtaken by a Clear
    loose       \* history: the password has changed in a way that clears nothing

storeVars == <<up, cfg, keyFile>>
fileVars == <<disk, tmp, fd>>
boundVars == <<saves, faults>>
historyVars == <<overlapped, stale, raced, loose>>
vars == <<storeVars, fileVars, pc, job, read, session, under, boundVars, historyVars>>

Procs == Admins \cup {Main}
Files == {"config", "keys"}
Value(f) == IF f = "config" THEN Passwords ELSE SUBSET KeyIds
Default(f) == IF f = "config" THEN DefaultPassword ELSE {}

\* There is no file, or it has no bytes, a mixture of two writes, or what an
\* editor left and does not load.
Unreadable == {Absent, Empty, Torn, Bad}

ASSUME UnreadableAssumption ==
    /\ \A f \in Files : \A v \in Value(f) : v \notin Unreadable
    /\ Absent \notin {Empty, Torn, Bad} /\ Bad \notin {Empty, Torn}

NoKey == 0
NoJob == [file |-> "none", val |-> Absent, changed |-> FALSE, drops |-> NoKey]
NothingRead == [config |-> Absent, keys |-> Absent]

PCs == {"idle", "creating", "open", "write", "rename", "readConfig", "readKeys",
        "install", "clear"}

\* A goroutine between the truncation of a temporary file and its rename.
Writing(p, f) == pc[p] \in {"write", "rename"} /\ job[p].file = f

goto(p, l) == pc' = [pc EXCEPT ![p] = l]

\* The operation returns, with or without an error.
return(p) ==
    /\ goto(p, "idle")
    /\ job' = [job EXCEPT ![p] = NoJob]
    /\ read' = [read EXCEPT ![p] = NothingRead]

-----------------------------------------------------------------------------
(***************************************************************************)
(* Admin requests.  requireAdmin and what the handler takes from the store *)
(* under its lock are one step.                                            *)
(***************************************************************************)

Begin(a, j) ==
    /\ up
    /\ pc[a] = "idle"
    /\ session[a]
    /\ saves < MaxSaves
    /\ saves' = saves + 1
    /\ job' = [job EXCEPT ![a] = j]
    /\ goto(a, "open")
    /\ UNCHANGED <<storeVars, fileVars, read, session, under, faults, overlapped, raced>>

\* SaveConfig with a password, or with a blank one that stands for the current
\* one.  A form that Validate rejects changes nothing.
BeginSaveConfig(a) ==
    /\ \E p \in Passwords :
         Begin(a, [NoJob EXCEPT !.file = "config", !.val = p, !.changed = p # cfg])
    /\ loose' = (loose \/ \E q \in Procs : job[q].file = "config")
    /\ UNCHANGED stale

Copied(a) ==
    /\ stale' = IF keyFile = disk["keys"] THEN stale \ {a} ELSE stale \cup {a}
    /\ UNCHANGED loose

\* Mutant: the key is saved alone.
BeginUpsertAlone(a, k) ==
    /\ Begin(a, [NoJob EXCEPT !.file = "keys", !.val = {k}])
    /\ Copied(a)

\* UpsertKey of a new key, or of one that is there.
BeginUpsertKey(a, k) ==
    /\ Begin(a, [NoJob EXCEPT !.file = "keys", !.val = keyFile \cup {k}])
    /\ Copied(a)

BeginDeleteKey(a, k) ==
    /\ Begin(a, [NoJob EXCEPT !.file = "keys", !.val = keyFile \ {k}, !.drops = k])
    /\ Copied(a)

\* handleAdminLogin: a password that is not the current one changes nothing
\* but the login limiter.
Login(a) ==
    /\ up
    /\ pc[a] = "idle"
    /\ ~ session[a]
    /\ goto(a, "creating")
    /\ under' = [under EXCEPT ![a] = cfg]
    /\ UNCHANGED <<storeVars, fileVars, job, read, session, boundVars, historyVars>>

\* AdminSessions.Create.
CreateSession(a) ==
    /\ pc[a] = "creating"
    /\ session' = [session EXCEPT ![a] = TRUE]
    /\ goto(a, "idle")
    /\ UNCHANGED <<storeVars, fileVars, job, read, under, boundVars, historyVars>>

\* handleAdminLogout, or the session is older than twelve hours.
EndSession(a) ==
    /\ pc[a] = "idle"
    /\ session[a]
    /\ session' = [session EXCEPT ![a] = FALSE]
    /\ under' = [under EXCEPT ![a] = DefaultPassword]
    /\ raced' = raced \ {a}
    /\ UNCHANGED <<storeVars, fileVars, pc, job, read, boundVars, overlapped, stale, loose>>

-----------------------------------------------------------------------------
(***************************************************************************)
(* writeJSONFile: os.WriteFile of path + ".tmp", then os.Rename.  The name *)
(* of the temporary file is fixed: two writers may hold the same file, and *)
(* one may go on writing to it after the other has renamed it.             *)
(***************************************************************************)

\* Mutant: the file itself is truncated and written.
OpenInPlace(p) ==
    /\ pc[p] = "open"
    /\ LET f == job[p].file IN
         /\ disk' = [disk EXCEPT ![f] = Empty]
         /\ fd' = [fd EXCEPT ![p] = "target"]
         /\ overlapped' = IF \E q \in Procs \ {p} : Writing(q, f)
                            THEN overlapped \cup {f} ELSE overlapped
    /\ goto(p, "write")
    /\ UNCHANGED <<storeVars, tmp, job, read, session, under, boundVars, stale, raced, loose>>

OpenTmp(p) ==
    /\ pc[p] = "open"
    /\ LET f == job[p].file IN
         /\ tmp' = [tmp EXCEPT ![f] = Empty]
         /\ fd' = [fd EXCEPT ![p] = "tmp"]
         /\ overlapped' = IF \E q \in Procs \ {p} : Writing(q, f)
                            THEN overlapped \cup {f} ELSE overlapped
    /\ goto(p, "write")
    /\ UNCHANGED <<storeVars, disk, job, read, session, under, boundVars, stale, raced, loose>>

\* What is left of another write may be longer.
Written(old, v) == IF old = Empty THEN {v} ELSE {v, Torn}

Write(p) ==
    /\ pc[p] = "write"
    /\ LET f == job[p].file IN
         \/ /\ fd[p] = "tmp"
            /\ \E c \in Written(tmp[f], job[p].val) : tmp' = [tmp EXCEPT ![f] = c]
            /\ UNCHANGED disk
         \/ /\ fd[p] = "target"
            /\ \E c \in Written(disk[f], job[p].val) : disk' = [disk EXCEPT ![f] = c]
            /\ UNCHANGED tmp
         \/ fd[p] = "gone" /\ UNCHANGED <<disk, tmp>>
    /\ fd' = [fd EXCEPT ![p] = "closed"]
    /\ goto(p, "rename")
    /\ UNCHANGED <<storeVars, job, read, session, under, boundVars, historyVars>>

\* The file f has been replaced by the one of the given name, by p.
Replaced(f, name, p) ==
    /\ fd' = [q \in Procs |->
                 IF job[q].file # f THEN fd[q]
                 ELSE IF fd[q] = name THEN "target"
                 ELSE IF fd[q] = "target" THEN "gone" ELSE fd[q]]
    /\ stale' = IF f = "keys"
                   THEN {a \in Admins \ {p} : job[a].file = f /\ pc[a] \in {"open", "write", "rename"}}
                   ELSE stale

Rename(p) ==
    /\ pc[p] = "rename"
    /\ tmp[job[p].file] # Absent
    /\ LET f == job[p].file IN
         /\ disk' = [disk EXCEPT ![f] = tmp[f]]
         /\ tmp' = [tmp EXCEPT ![f] = Absent]
         /\ Replaced(f, "tmp", p)
    /\ IF p = Main THEN return(p) ELSE goto(p, "readConfig") /\ UNCHANGED <<job, read>>
    /\ UNCHANGED <<storeVars, session, under, boundVars, overlapped, raced, loose>>

\* Another writer has taken the temporary file away: the save fails.
RenameFails(p) ==
    /\ pc[p] = "rename"
    /\ tmp[job[p].file] = Absent
    /\ return(p)
    /\ UNCHANGED <<storeVars, fileVars, session, under, boundVars, historyVars>>

-----------------------------------------------------------------------------
(***************************************************************************)
(* Reload, which every save ends with.                                     *)
(***************************************************************************)

ReadConfig(p) ==
    /\ pc[p] = "readConfig"
    /\ disk["config"] \notin Unreadable
    /\ read' = [read EXCEPT ![p].config = disk["config"]]
    /\ goto(p, "readKeys")
    /\ UNCHANGED <<storeVars, fileVars, job, session, under, boundVars, historyVars>>

\* Mutant: a key file that does not parse is taken for what it is.
ReadKeysUnchecked(p) ==
    /\ pc[p] = "readKeys"
    /\ read' = [read EXCEPT ![p].keys = disk["keys"]]
    /\ goto(p, "install")
    /\ UNCHANGED <<storeVars, fileVars, job, session, under, boundVars, historyVars>>

ReadKeys(p) ==
    /\ pc[p] = "readKeys"
    /\ disk["keys"] \notin Unreadable
    /\ read' = [read EXCEPT ![p].keys = disk["keys"]]
    /\ goto(p, "install")
    /\ UNCHANGED <<storeVars, fileVars, job, session, under, boundVars, historyVars>>

\* A file that does not load: the store stays as it is, a gateway that starts
\* gives up, and a password that was to change may be on disk already.
ReloadFails(p) ==
    /\ \/ pc[p] = "readConfig" /\ disk["config"] \in Unreadable
       \/ pc[p] = "readKeys" /\ disk["keys"] \in Unreadable
    /\ return(p)
    /\ loose' = (loose \/ job[p].changed)
    /\ UNCHANGED <<storeVars, fileVars, session, under, boundVars, overlapped, stale, raced>>

\* Mutant: the sessions are kept when the password has changed.
InstallAndKeep(p) ==
    /\ pc[p] = "install"
    /\ up' = TRUE
    /\ cfg' = read[p].config
    /\ keyFile' = read[p].keys
    /\ loose' = (loose \/ read[p].config # disk["config"])
    /\ return(p)
    /\ UNCHANGED <<fileVars, session, under, boundVars, overlapped, stale, raced>>

\* Mutant: the keys are only taken when the gateway starts.
InstallConfigOnly(p) ==
    /\ pc[p] = "install"
    /\ up' = TRUE
    /\ cfg' = read[p].config
    /\ keyFile' = IF up THEN keyFile ELSE read[p].keys
    /\ loose' = (loose \/ read[p].config # disk["config"])
    /\ IF job[p].changed THEN goto(p, "clear") /\ UNCHANGED <<job, read>> ELSE return(p)
    /\ UNCHANGED <<fileVars, session, under, boundVars, overlapped, stale, raced>>

Install(p) ==
    /\ pc[p] = "install"
    /\ up' = TRUE
    /\ cfg' = read[p].config
    /\ keyFile' = read[p].keys
    /\ loose' = (loose \/ read[p].config # disk["config"])
    /\ IF job[p].changed THEN goto(p, "clear") /\ UNCHANGED <<job, read>> ELSE return(p)
    /\ UNCHANGED <<fileVars, session, under, boundVars, overlapped, stale, raced>>

\* AdminSessions.Clear, at the end of a SaveConfig with a new password.
ClearSessions(p) ==
    /\ pc[p] = "clear"
    /\ session' = [a \in Admins |-> FALSE]
    /\ under' = [a \in Admins |-> IF pc[a] = "creating" THEN under[a] ELSE DefaultPassword]
    /\ raced' = {a \in Admins : pc[a] = "creating"}
    /\ return(p)
    /\ UNCHANGED <<storeVars, fileVars, boundVars, overlapped, stale, loose>>

-----------------------------------------------------------------------------
(***************************************************************************)
(* Start, watch, crash, and the operator.                                  *)
(***************************************************************************)

\* EnsureConfigFiles: a file that is not there is written with its default.
EnsureConfigFile(f) ==
    /\ ~ up
    /\ pc[Main] = "idle"
    /\ disk[f] = Absent
    /\ f = "keys" => disk["config"] # Absent
    /\ job' = [job EXCEPT ![Main] = [NoJob EXCEPT !.file = f, !.val = Default(f)]]
    /\ goto(Main, "open")
    /\ UNCHANGED <<storeVars, fileVars, read, session, under, boundVars, historyVars>>

\* NewRuntimeStore loads what is there; once it runs, watch does.
BeginReload ==
    /\ pc[Main] = "idle"
    /\ \A f \in Files : up \/ disk[f] # Absent
    /\ goto(Main, "readConfig")
    /\ UNCHANGED <<storeVars, fileVars, job, read, session, under, boundVars, historyVars>>

Crash ==
    /\ faults < MaxFaults
    /\ faults' = faults + 1
    /\ up' = FALSE
    /\ pc' = [p \in Procs |-> "idle"]
    /\ job' = [p \in Procs |-> NoJob]
    /\ fd' = [p \in Procs |-> "closed"]
    /\ read' = [p \in Procs |-> NothingRead]
    /\ session' = [a \in Admins |-> FALSE]
    /\ under' = [a \in Admins |-> DefaultPassword]
    /\ stale' = {}
    /\ raced' = {}
    /\ UNCHANGED <<cfg, keyFile, disk, tmp, saves, overlapped, loose>>

\* The editor replaces the file, by something that loads or by something else.
EditFile(f, v) ==
    /\ faults < MaxFaults
    /\ faults' = faults + 1
    /\ disk[f] # Absent
    /\ disk' = [disk EXCEPT ![f] = v]
    /\ Replaced(f, "none", Main)
    /\ loose' = (loose \/ f = "config")
    /\ UNCHANGED <<storeVars, tmp, pc, job, read, session, under, saves, overlapped, raced>>

-----------------------------------------------------------------------------

Init ==
    /\ up = FALSE
    /\ cfg = DefaultPassword
    /\ keyFile = {}
    /\ disk = [f \in Files |-> Absent]
    /\ tmp = [f \in Files |-> Absent]
    /\ pc = [p \in Procs |-> "idle"]
    /\ job = [p \in Procs |-> NoJob]
    /\ fd = [p \in Procs |-> "closed"]
    /\ read = [p \in Procs |-> NothingRead]
    /\ session = [a \in Admins |-> FALSE]
    /\ under = [a \in Admins |-> DefaultPassword]
    /\ saves = 0
    /\ faults = 0
    /\ overlapped = {}
    /\ stale = {}
    /\ raced = {}
    /\ loose = FALSE

\* A goroutine goes on with what it has begun.
Proceed(p) ==
    \/ OpenTmp(p)
    \/ Write(p)
    \/ Rename(p)
    \/ RenameFails(p)
    \/ ReadConfig(p)
    \/ ReadKeys(p)
    \/ ReloadFails(p)
    \/ Install(p)
    \/ ClearSessions(p)

Browse(a) ==
    \/ BeginSaveConfig(a)
    \/ \E k \in KeyIds : BeginUpsertKey(a, k) \/ BeginDeleteKey(a, k)
    \/ Login(a)
    \/ CreateSession(a)
    \/ EndSession(a)

Tend == BeginReload \/ \E f \in Files : EnsureConfigFile(f)

Next ==
    \/ \E p \in Procs : Proceed(p)
    \/ \E a \in Admins : Browse(a)
    \/ Tend
    \/ Crash
    \/ \E f \in Files : \E v \in Edits[f] : EditFile(f, v)

Spec == Init /\ [][Next]_vars

(***************************************************************************)
(* A goroutine that can go on goes on, the ticker of watch fires again and *)
(* again, and systemd starts a gateway that has died or failed to start.   *)
(***************************************************************************)
Fairness == WF_vars(Tend) /\ \A p \in Procs : WF_vars(Proceed(p))

FairSpec == Spec /\ Fairness

-----------------------------------------------------------------------------
(***************************************************************************)
(* Properties.                                                             *)
(***************************************************************************)

Content(f) == Value(f) \cup Unreadable

\* Every variable has its type; what the store holds is always a configuration
\* and a key file, whatever the files hold (runtime_store.go:150-169).
TypeOK ==
    /\ up \in BOOLEAN
    /\ cfg \in Passwords
    /\ keyFile \notin Unreadable /\ keyFile \subseteq KeyIds
    /\ \A f \in Files : disk[f] \in Content(f) /\ tmp[f] \in Content(f) \ {Bad}
    /\ pc \in [Procs -> PCs]
    /\ \A p \in Procs : job[p].val \in Value("config") \cup Value("keys") \cup {Absent}
    /\ fd \in [Procs -> {"closed", "tmp", "target", "gone"}]
    /\ \A p \in Procs : read[p].config \in Content("config") /\ read[p].keys \in Content("keys")
    /\ session \in [Admins -> BOOLEAN]
    /\ under \in [Admins -> Passwords]

\* A save that no other save of the same file overlaps leaves the file whole
\* at every moment, through a crash at any of its steps: the gateway can load
\* it and start again (config_files.go:133-147).
WholeUnlessOverlapped ==
    \A f \in Files : disk[f] \in {Empty, Torn} => f \in overlapped

\* A session that was opened with another password than the one in force is
\* about to be cleared, or its login was overtaken by the clearing, or the
\* password has once changed in a way that clears nothing: by hand, by a save
\* whose reload failed, by saves that overlapped, or by a slow reload that
\* put an older one back (239-263, admin.go:69-101).
StaleSessionsExplained ==
    \A a \in Admins : session[a] /\ under[a] # cfg =>
        \/ a \in raced
        \/ \E p \in Admins : job[p].file = "config" /\ job[p].changed
        \/ loose

\* A key leaves key.json only by its own deletion, by an edit by hand, by
\* saves that overlapped, or by a save whose copy of the keys was not what the
\* file held: the store had not caught up with it, or another save came
\* between (273-308, 341-353).
KeysDroppedOnPurpose ==
    [][\A k \in KeyIds :
          disk["keys"] \notin Unreadable /\ k \in disk["keys"]
          /\ disk'["keys"] \notin Unreadable /\ k \notin disk'["keys"] =>
             \/ faults' # faults
             \/ "keys" \in overlapped
             \/ \E a \in Admins :
                  /\ pc[a] = "rename" /\ pc'[a] = "readConfig"
                  /\ job[a].drops = k \/ a \in stale]_vars

Quiet == \A a \in Admins : pc[a] = "idle"

Loadable == \A f \in Files : disk[f] \notin Unreadable

\* When the admins are done and the files load, the gateway ends up running
\* with what the files hold, whatever crashed, failed or raced before: no
\* reload is lost for good (137-169).
StoreCatchesUp ==
    <>[](Quiet /\ Loadable) =>
        <>[](up /\ cfg = disk["config"] /\ keyFile = disk["keys"])
=============================================================================
