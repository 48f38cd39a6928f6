------------------------- MODULE ConfigStoreProofs --------------------------
(***************************************************************************)
(* The safety properties of ConfigStore for every set of admins, passwords *)
(* and keys, whatever an editor leaves in the files, and without a bound   *)
(* on saves, crashes and edits.                                            *)
(***************************************************************************)
EXTENDS ConfigStore, TLAPS

(***************************************************************************)
(* The strengthening.  Typed and Places say what each goroutine knows at   *)
(* each place.  Whole: the only writer of a file that was never overlapped *)
(* has the temporary file for itself.  Copies: what a save of the keys is  *)
(* about to write holds the keys of the file, but the one it deletes.      *)
(* Agreed: as long as the password has only changed through saves, one at  *)
(* a time, that succeeded, the store and the file have the same one, and   *)
(* the sessions were opened with it, unless such a save is on its way.     *)
(***************************************************************************)

Jobs ==
    [file: Files \cup {"none"}, val: {Absent} \cup Passwords \cup (SUBSET KeyIds),
     changed: BOOLEAN, drops: KeyIds \cup {NoKey}]

Reads == [config: Content("config"), keys: Content("keys")]

AnyContent == Content("config") \cup Content("keys")

Typed ==
    /\ up \in BOOLEAN
    /\ cfg \in Passwords
    /\ keyFile \in SUBSET KeyIds
    /\ disk \in [Files -> AnyContent]
    /\ tmp \in [Files -> AnyContent]
    /\ pc \in [Procs -> PCs]
    /\ job \in [Procs -> Jobs]
    /\ fd \in [Procs -> {"closed", "tmp", "target", "gone"}]
    /\ read \in [Procs -> Reads]
    /\ session \in [Admins -> BOOLEAN]
    /\ under \in [Admins -> Passwords]

Contents == \A f \in Files : disk[f] \in Content(f) /\ tmp[f] \in Content(f) \ {Bad}

Saving == {"open", "write", "rename"}

Place(p) ==
    /\ pc[p] \in Saving => job[p].file \in Files /\ job[p].val \in Value(job[p].file)
    /\ pc[p] \in {"readKeys", "install"} => read[p].config \in Passwords
    /\ pc[p] = "install" => read[p].keys \in SUBSET KeyIds
    /\ pc[p] \in {"idle", "creating"} => job[p].file = "none"
    /\ pc[p] = "clear" => job[p].changed
    /\ job[p].changed => job[p].file = "config" /\ p # Main
    /\ p = Main =>
         /\ pc[p] \notin {"creating", "clear"}
         /\ pc[p] \in Saving => ~ up /\ (job[p].file \in overlapped \/ disk[job[p].file] = Absent)
         /\ pc[p] \notin Saving => job[p].file = "none"
    /\ p # Main => (pc[p] # "idle" \/ session[p] => up)

Places == \A p \in Procs : Place(p)

Whole ==
    \A f \in Files : f \notin overlapped =>
        /\ disk[f] \notin {Empty, Torn}
        /\ \A p, q \in Procs : Writing(p, f) /\ Writing(q, f) => p = q
        /\ \A p \in Procs : job[p].file = f =>
              /\ pc[p] = "write" => fd[p] = "tmp" /\ tmp[f] = Empty
              /\ pc[p] = "rename" => tmp[f] = job[p].val

Copies ==
    \A a \in Admins :
        "keys" \notin overlapped /\ pc[a] \in Saving /\ job[a].file = "keys" /\ a \notin stale
        /\ disk["keys"] \notin Unreadable
            => disk["keys"] \subseteq job[a].val \cup {job[a].drops}

Agreed ==
    ~ loose =>
        /\ "config" \notin overlapped
        /\ \A a, b \in Admins : job[a].file = "config" /\ job[b].file = "config" => a = b
        /\ \A a \in Admins : job[a].file = "config" /\ ~ job[a].changed /\ pc[a] \in Saving
              => job[a].val = cfg
        /\ up /\ (\A a \in Admins : job[a].changed => pc[a] = "clear") => disk["config"] = cfg
        /\ \A a \in Admins :
              (session[a] \/ pc[a] = "creating") /\ a \notin raced
              /\ (\A b \in Admins : ~ job[b].changed) => under[a] = cfg

Inv == Typed /\ Contents /\ Places /\ Whole /\ Copies /\ Agreed

-----------------------------------------------------------------------------
(***************************************************************************)
(* The constants and the records.                                          *)
(***************************************************************************)

LEMMA Values ==
    /\ Absent \notin Passwords /\ Empty \notin Passwords /\ Torn \notin Passwords
    /\ Bad \notin Passwords
    /\ \A k \in SUBSET KeyIds : k \notin {Absent, Empty, Torn, Bad}
    /\ Absent # Empty /\ Absent # Torn /\ Absent # Bad /\ Bad # Empty /\ Bad # Torn
  BY UnreadableAssumption DEF Files, Value, Unreadable

LEMMA JobFacts ==
    ASSUME NEW v \in {Absent} \cup Passwords \cup (SUBSET KeyIds), NEW b \in BOOLEAN,
           NEW k \in KeyIds, NEW f \in Files
    PROVE  /\ NoJob \in Jobs /\ NoJob.file = "none" /\ NoJob.changed = FALSE
           /\ [NoJob EXCEPT !.file = "config", !.val = v, !.changed = b] \in Jobs
           /\ [NoJob EXCEPT !.file = "config", !.val = v, !.changed = b].file = "config"
           /\ [NoJob EXCEPT !.file = "config", !.val = v, !.changed = b].val = v
           /\ [NoJob EXCEPT !.file = "config", !.val = v, !.changed = b].changed = b
           /\ [NoJob EXCEPT !.file = f, !.val = v] \in Jobs
           /\ [NoJob EXCEPT !.file = f, !.val = v].file = f
           /\ [NoJob EXCEPT !.file = f, !.val = v].val = v
           /\ [NoJob EXCEPT !.file = f, !.val = v].changed = FALSE
           /\ [NoJob EXCEPT !.file = f, !.val = v, !.drops = k] \in Jobs
           /\ [NoJob EXCEPT !.file = f, !.val = v, !.drops = k].file = f
           /\ [NoJob EXCEPT !.file = f, !.val = v, !.drops = k].val = v
           /\ [NoJob EXCEPT !.file = f, !.val = v, !.drops = k].changed = FALSE
           /\ [NoJob EXCEPT !.file = f, !.val = v, !.drops = k].drops = k
  BY DEF NoJob, Jobs, Files

LEMMA NoRecords ==
    /\ NoJob \in Jobs /\ NoJob.file = "none" /\ NoJob.changed = FALSE
    /\ NothingRead \in Reads
  BY DEF NoJob, Jobs, NothingRead, Reads, Content, Unreadable

LEMMA ReadFacts ==
    ASSUME read \in [Procs -> Reads], NEW p \in Procs
    PROVE  /\ \A c \in Content("config") : read' = [read EXCEPT ![p].config = c] =>
                /\ read' \in [Procs -> Reads] /\ read'[p].config = c
                /\ \A q \in Procs : q # p => read'[q] = read[q]
           /\ \A c \in Content("keys") : read' = [read EXCEPT ![p].keys = c] =>
                /\ read' \in [Procs -> Reads] /\ read'[p].keys = c
                /\ read'[p].config = read[p].config
                /\ \A q \in Procs : q # p => read'[q] = read[q]
<1>1. ASSUME NEW c \in Content("config"), read' = [read EXCEPT ![p].config = c]
      PROVE  /\ read' \in [Procs -> Reads] /\ read'[p].config = c
             /\ \A q \in Procs : q # p => read'[q] = read[q]
  <2>1. [read[p] EXCEPT !.config = c] \in Reads /\ [read[p] EXCEPT !.config = c].config = c
    BY DEF Reads
  <2> QED
    BY <1>1, <2>1
<1>2. ASSUME NEW c \in Content("keys"), read' = [read EXCEPT ![p].keys = c]
      PROVE  /\ read' \in [Procs -> Reads] /\ read'[p].keys = c
             /\ read'[p].config = read[p].config
             /\ \A q \in Procs : q # p => read'[q] = read[q]
  <2>1. /\ [read[p] EXCEPT !.keys = c] \in Reads /\ [read[p] EXCEPT !.keys = c].keys = c
        /\ [read[p] EXCEPT !.keys = c].config = read[p].config
    BY DEF Reads
  <2> QED
    BY <1>2, <2>1
<1> QED
  BY <1>1, <1>2

LEMMA ReturnFacts ==
    ASSUME Typed, NEW p \in Procs, return(p)
    PROVE  /\ pc' \in [Procs -> PCs] /\ pc'[p] = "idle"
           /\ job' \in [Procs -> Jobs] /\ job'[p].file = "none" /\ ~ job'[p].changed
           /\ read' \in [Procs -> Reads]
           /\ \A q \in Procs : q # p =>
                 pc'[q] = pc[q] /\ job'[q] = job[q] /\ read'[q] = read[q]
  BY NoRecords DEF return, goto, Typed, PCs

LEMMA GotoFacts ==
    ASSUME Typed, NEW p \in Procs, NEW l \in PCs, goto(p, l)
    PROVE  /\ pc' \in [Procs -> PCs] /\ pc'[p] = l
           /\ \A q \in Procs : q # p => pc'[q] = pc[q]
  BY DEF goto, Typed

LEMMA InitInv == Init => Inv
<1> SUFFICES ASSUME Init PROVE Inv
  OBVIOUS
<1>1. Typed
  BY NoRecords, PasswordsAssumption
     DEF Init, Typed, AnyContent, Content, Unreadable, PCs, Files, Value
<1>2. Contents
  BY Values DEF Init, Contents, Content, Unreadable
<1>3. Places /\ Agreed
  BY NoRecords DEF Init, Places, Place, Agreed, Saving, Procs
<1>4. Whole /\ Copies
  BY Values DEF Init, Whole, Copies, Writing, Saving, Procs
<1> QED
  BY <1>1, <1>2, <1>3, <1>4 DEF Inv

-----------------------------------------------------------------------------
(***************************************************************************)
(* Admin requests.                                                         *)
(***************************************************************************)

\* What a save that begins does to the goroutines.
LEMMA BeginFacts ==
    ASSUME Inv, NEW a \in Admins, NEW j \in Jobs, Begin(a, j),
           j.file \in Files, j.val \in Value(j.file), j.changed => j.file = "config"
    PROVE  Typed' /\ Contents' /\ Places' /\ Whole'
<1>0. Typed /\ Contents /\ Places /\ Whole
  BY DEF Inv
<1>1. a \in Procs /\ a # Main /\ up /\ pc[a] = "idle"
  BY MainAssumption DEF Begin, Procs
<1>2. /\ pc' \in [Procs -> PCs] /\ pc'[a] = "open"
      /\ job' \in [Procs -> Jobs] /\ job'[a] = j
      /\ \A q \in Procs : q # a => pc'[q] = pc[q] /\ job'[q] = job[q]
  BY <1>0, <1>1 DEF Begin, goto, Typed, PCs
<1>3. UNCHANGED <<storeVars, fileVars, read, session, under, overlapped>>
  BY DEF Begin
<1>4. Typed' /\ Contents'
  BY <1>0, <1>2, <1>3 DEF Typed, Contents, storeVars, fileVars
<1>5. Places'
  <2> SUFFICES ASSUME NEW q \in Procs PROVE Place(q)'
    BY DEF Places
  <2>1. CASE q = a
    BY <1>0, <1>1, <1>2, <1>3, <2>1 DEF Places, Place, Saving, storeVars, fileVars
  <2>2. CASE q # a
    BY <1>0, <1>2, <1>3, <2>2 DEF Places, Place, storeVars, fileVars
  <2> QED
    BY <2>1, <2>2
<1>6. Whole'
  BY <1>0, <1>1, <1>2, <1>3 DEF Whole, Writing, fileVars
<1> QED
  BY <1>4, <1>5, <1>6
LEMMA SaveConfigStep ==
    ASSUME Inv, NEW a \in Admins, BeginSaveConfig(a)
    PROVE  Inv'
<1>0. Typed /\ Contents /\ Places /\ Whole /\ Copies /\ Agreed
  BY DEF Inv
<1>1. PICK p \in Passwords :
          Begin(a, [NoJob EXCEPT !.file = "config", !.val = p, !.changed = p # cfg])
  BY DEF BeginSaveConfig
<1> DEFINE j == [NoJob EXCEPT !.file = "config", !.val = p, !.changed = p # cfg]
<1>2. /\ j \in Jobs /\ j.file = "config" /\ j.val = p /\ j.changed = (p # cfg)
      /\ Begin(a, j)
  <2>1. (p # cfg) \in BOOLEAN
    OBVIOUS
  <2> QED
    BY <1>1, <2>1 DEF NoJob, Jobs, Files
<1> HIDE DEF j
<1>3. Typed' /\ Contents' /\ Places' /\ Whole'
  BY <1>2, BeginFacts DEF Files, Value
<1>4. /\ a \in Procs /\ pc[a] = "idle" /\ up /\ pc'[a] = "open" /\ job'[a] = j
      /\ \A q \in Procs : q # a => pc'[q] = pc[q] /\ job'[q] = job[q]
      /\ Admins \subseteq Procs
  BY <1>0, <1>2 DEF Begin, goto, Typed, Procs
<1>5. /\ UNCHANGED <<up, cfg, keyFile, disk, session, under, overlapped, raced, stale>>
      /\ loose' = (loose \/ \E q \in Procs : job[q].file = "config")
  BY <1>2 DEF Begin, BeginSaveConfig, storeVars, fileVars
<1>6. Copies'
  BY <1>0, <1>2, <1>4, <1>5 DEF Copies
<1>7. Agreed'
  <2> SUFFICES ASSUME ~ loose'
               PROVE  /\ "config" \notin overlapped
                      /\ \A b, c \in Admins : job'[b].file = "config" /\ job'[c].file = "config"
                            => b = c
                      /\ \A b \in Admins : job'[b].file = "config" /\ ~ job'[b].changed
                            /\ pc'[b] \in Saving => job'[b].val = cfg
                      /\ (\A b \in Admins : job'[b].changed => pc'[b] = "clear")
                            => disk["config"] = cfg
                      /\ \A b \in Admins :
                            (session[b] \/ pc'[b] = "creating") /\ b \notin raced
                            /\ (\A c \in Admins : ~ job'[c].changed) => under[b] = cfg
    BY <1>5 DEF Agreed
  <2>1. ~ loose /\ \A q \in Procs : job[q].file # "config"
    BY <1>5
  <2>2. \A b \in Admins : ~ job[b].changed
    BY <1>0, <1>4, <2>1 DEF Places, Place
  <2> QED
    BY <1>0, <1>2, <1>4, <2>1, <2>2 DEF Agreed
<1> QED
  BY <1>3, <1>6, <1>7 DEF Inv

\* A change of the keys.
LEMMA KeysStep ==
    ASSUME Inv, NEW a \in Admins, NEW k \in KeyIds, BeginUpsertKey(a, k) \/ BeginDeleteKey(a, k)
    PROVE  Inv'
<1>0. Typed /\ Contents /\ Places /\ Whole /\ Copies /\ Agreed
  BY DEF Inv
<1>1. PICK j \in Jobs :
         /\ Begin(a, j) /\ j.file = "keys" /\ ~ j.changed
         /\ j.val \in SUBSET KeyIds /\ keyFile \subseteq j.val \cup {j.drops}
  <2>0. keyFile \in SUBSET KeyIds
    BY <1>0 DEF Typed
  <2>1. CASE BeginUpsertKey(a, k)
    <3> DEFINE j == [NoJob EXCEPT !.file = "keys", !.val = keyFile \cup {k}]
    <3>1. j \in Jobs /\ j.file = "keys" /\ ~ j.changed /\ j.val = keyFile \cup {k}
      <4>1. keyFile \cup {k} \in SUBSET KeyIds
        BY <2>0
      <4> QED
        BY <4>1 DEF NoJob, Jobs, Files
    <3> QED
      BY <2>0, <2>1, <3>1 DEF BeginUpsertKey
  <2>2. CASE BeginDeleteKey(a, k)
    <3> DEFINE j == [NoJob EXCEPT !.file = "keys", !.val = keyFile \ {k}, !.drops = k]
    <3>1. j \in Jobs /\ j.file = "keys" /\ ~ j.changed /\ j.val = keyFile \ {k} /\ j.drops = k
      <4>1. keyFile \ {k} \in SUBSET KeyIds
        BY <2>0
      <4> QED
        BY <4>1 DEF NoJob, Jobs, Files
    <3> QED
      BY <2>0, <2>2, <3>1 DEF BeginDeleteKey
  <2> QED
    BY <2>1, <2>2
<1>2. Copied(a)
  BY DEF BeginUpsertKey, BeginDeleteKey
<1>3. Typed' /\ Contents' /\ Places' /\ Whole'
  BY <1>1, BeginFacts DEF Files, Value
<1>4. /\ a \in Procs /\ pc[a] = "idle" /\ pc'[a] = "open" /\ job'[a] = j
      /\ \A q \in Procs : q # a => pc'[q] = pc[q] /\ job'[q] = job[q]
      /\ Admins \subseteq Procs
  BY <1>0, <1>1 DEF Begin, goto, Typed, Procs
<1>5. /\ UNCHANGED <<up, cfg, keyFile, disk, session, under, overlapped, raced, loose>>
      /\ \A b \in Admins : b # a => (b \in stale' <=> b \in stale)
      /\ a \notin stale' => keyFile = disk["keys"]
  BY <1>1, <1>2 DEF Begin, Copied, storeVars, fileVars
<1>6. Copies'
  BY <1>0, <1>1, <1>4, <1>5 DEF Copies
<1>7. \A b \in Admins : job'[b].file = "config" => job'[b] = job[b] /\ b # a
  BY <1>1, <1>4
<1>8. \A b \in Admins : job'[b].changed <=> job[b].changed
  BY <1>0, <1>1, <1>4, MainAssumption DEF Places, Place
<1>9. Agreed'
  BY <1>0, <1>1, <1>4, <1>5, <1>7, <1>8 DEF Agreed
<1> QED
  BY <1>3, <1>6, <1>9 DEF Inv

\* Sessions come and go.
LEMMA SessionStep ==
    ASSUME Inv, NEW a \in Admins, Login(a) \/ CreateSession(a) \/ EndSession(a)
    PROVE  Inv'
<1>0. Typed /\ Contents /\ Places /\ Whole /\ Copies /\ Agreed
  BY DEF Inv
<1>1. /\ a \in Procs /\ a # Main /\ Admins \subseteq Procs
      /\ pc[a] \in {"idle", "creating"} /\ pc'[a] \in {"idle", "creating"}
      /\ pc' \in [Procs -> PCs]
      /\ \A q \in Procs : q # a => pc'[q] = pc[q]
  BY <1>0, MainAssumption DEF Login, CreateSession, EndSession, goto, Typed, Procs, PCs
<1>2. UNCHANGED <<storeVars, fileVars, job, read, boundVars, overlapped, stale, loose>>
  BY DEF Login, CreateSession, EndSession, historyVars
<1>3. /\ session' \in [Admins -> BOOLEAN] /\ under' \in [Admins -> Passwords]
      /\ \A b \in Admins : b # a =>
            session'[b] = session[b] /\ under'[b] = under[b] /\ (b \in raced' <=> b \in raced)
  BY <1>0, PasswordsAssumption DEF Login, CreateSession, EndSession, Typed, historyVars
<1>4. /\ pc'[a] = "creating" \/ session'[a] => up
      /\ (session'[a] \/ pc'[a] = "creating") /\ a \notin raced' =>
            \/ under'[a] = cfg
            \/ (session[a] \/ pc[a] = "creating") /\ a \notin raced /\ under'[a] = under[a]
  BY <1>0, <1>1 DEF Login, CreateSession, EndSession, goto, Typed, historyVars, Places, Place
<1>5. Typed' /\ Contents'
  BY <1>0, <1>1, <1>2, <1>3 DEF Typed, Contents, storeVars, fileVars
<1>6. Places'
  <2> SUFFICES ASSUME NEW q \in Procs PROVE Place(q)'
    BY DEF Places
  <2>1. CASE q = a
    BY <1>0, <1>1, <1>2, <1>4, <2>1 DEF Places, Place, Saving, storeVars, fileVars
  <2>2. CASE q # a
    BY <1>0, <1>1, <1>2, <1>3, <2>2 DEF Places, Place, storeVars, fileVars, Procs
  <2> QED
    BY <2>1, <2>2
<1>7. Whole' /\ Copies'
  BY <1>0, <1>1, <1>2 DEF Whole, Copies, Writing, Saving, fileVars
<1>8. Agreed'
  BY <1>0, <1>1, <1>2, <1>3, <1>4 DEF Agreed, Saving, storeVars, fileVars
<1> QED
  BY <1>5, <1>6, <1>7, <1>8 DEF Inv
-----------------------------------------------------------------------------
(***************************************************************************)
(* writeJSONFile.                                                          *)
(***************************************************************************)

\* As long as nothing was loose, one goroutine at most is saving config.json.
LEMMA OneConfigSave ==
    ASSUME Inv, ~ loose, NEW p \in Procs, NEW q \in Procs,
           pc[p] \in Saving, pc[q] \in Saving, job[p].file = "config", job[q].file = "config"
    PROVE  p = q
<1>1. CASE p \in Admins /\ q \in Admins
  BY <1>1 DEF Inv, Agreed
<1>2. CASE p = Main \/ q = Main
  BY <1>2 DEF Inv, Places, Place, Saving
<1> QED
  BY <1>1, <1>2 DEF Procs

LEMMA OpenStep ==
    ASSUME Inv, NEW p \in Procs, OpenTmp(p)
    PROVE  Inv'
<1>0. Typed /\ Contents /\ Places /\ Whole /\ Copies /\ Agreed
  BY DEF Inv
<1> DEFINE f == job[p].file
<1>1. pc[p] = "open" /\ f \in Files
  BY <1>0 DEF OpenTmp, Places, Place, Saving
<1>2. /\ pc' \in [Procs -> PCs] /\ pc'[p] = "write"
      /\ \A q \in Procs : q # p => pc'[q] = pc[q]
  BY <1>0 DEF OpenTmp, goto, Typed, PCs
<1>3. Empty \in AnyContent /\ \A g \in Files : Empty \in Content(g) \ {Bad}
  BY Values DEF AnyContent, Content, Unreadable
<1>4. /\ tmp' \in [Files -> AnyContent] /\ tmp'[f] = Empty
      /\ \A g \in Files : g # f => tmp'[g] = tmp[g]
  BY <1>0, <1>1, <1>3 DEF OpenTmp, Typed
<1>5. /\ fd' \in [Procs -> {"closed", "tmp", "target", "gone"}] /\ fd'[p] = "tmp"
      /\ \A q \in Procs : q # p => fd'[q] = fd[q]
  BY <1>0 DEF OpenTmp, Typed
<1>6. UNCHANGED <<storeVars, disk, job, read, session, under, boundVars, stale, raced, loose>>
  BY DEF OpenTmp
<1>7. /\ overlapped' = IF \E q \in Procs \ {p} : Writing(q, f)
                         THEN overlapped \cup {f} ELSE overlapped
      /\ overlapped \subseteq overlapped'
  BY DEF OpenTmp
<1> HIDE DEF f
<1>8. Typed' /\ Contents'
  BY <1>0, <1>2, <1>3, <1>4, <1>5, <1>6 DEF Typed, Contents, storeVars
<1>9. Places'
  <2> SUFFICES ASSUME NEW q \in Procs PROVE Place(q)'
    BY DEF Places
  <2>1. CASE q = p
    BY <1>0, <1>1, <1>2, <1>6, <1>7, <2>1 DEF Places, Place, Saving, storeVars
  <2>2. CASE q # p
    BY <1>0, <1>2, <1>6, <1>7, <2>2 DEF Places, Place, storeVars
  <2> QED
    BY <2>1, <2>2
<1>10. Whole'
  <2> SUFFICES ASSUME NEW g \in Files, g \notin overlapped'
               PROVE  /\ disk[g] \notin {Empty, Torn}
                      /\ \A q, r \in Procs : Writing(q, g)' /\ Writing(r, g)' => q = r
                      /\ \A q \in Procs : job[q].file = g =>
                            /\ pc'[q] = "write" => fd'[q] = "tmp" /\ tmp'[g] = Empty
                            /\ pc'[q] = "rename" => tmp'[g] = job[q].val
    BY <1>6 DEF Whole
  <2>1. g \notin overlapped
    BY <1>7
  <2>2. CASE g = f
    <3>1. \A q \in Procs : q # p => ~ Writing(q, g)
      BY <1>7, <2>2
    <3>2. \A q \in Procs : Writing(q, g)' => q = p
      BY <1>2, <1>6, <3>1 DEF Writing
    <3> QED
      BY <1>0, <1>2, <1>4, <1>5, <1>6, <2>1, <2>2, <3>1, <3>2 DEF Whole, Writing
  <2>3. CASE g # f
    <3>1. job[p].file # g
      BY <2>3 DEF f
    <3> QED
      BY <1>0, <1>2, <1>4, <1>5, <1>6, <2>1, <2>3, <3>1 DEF Whole, Writing
  <2> QED
    BY <2>2, <2>3
<1>11. Copies'
  BY <1>0, <1>1, <1>2, <1>6, <1>7 DEF Copies, Saving, Procs
<1>12. ~ loose => "config" \notin overlapped'
  <2> SUFFICES ASSUME ~ loose, "config" \in overlapped' PROVE FALSE
    OBVIOUS
  <2>1. "config" \notin overlapped
    BY <1>0 DEF Agreed
  <2>2. PICK q \in Procs \ {p} : Writing(q, f) /\ f = "config"
    BY <1>7, <2>1
  <2> QED
    BY <1>1, <2>2, OneConfigSave DEF Writing, Saving, f
<1>13. Agreed'
  BY <1>0, <1>1, <1>2, <1>6, <1>12 DEF Agreed, Saving, Procs, storeVars
<1> QED
  BY <1>8, <1>9, <1>10, <1>11, <1>13 DEF Inv

LEMMA WriteStep ==
    ASSUME Inv, NEW p \in Procs, Write(p)
    PROVE  Inv'
<1>0. Typed /\ Contents /\ Places /\ Whole /\ Copies /\ Agreed
  BY DEF Inv
<1> DEFINE f == job[p].file
           v == job[p].val
<1>1. pc[p] = "write" /\ f \in Files /\ v \in Value(f)
  BY <1>0 DEF Write, Places, Place, Saving
<1>2. /\ pc' \in [Procs -> PCs] /\ pc'[p] = "rename"
      /\ \A q \in Procs : q # p => pc'[q] = pc[q]
  BY <1>0 DEF Write, goto, Typed, PCs
<1>3. \A c \in {v, Torn} : c \in AnyContent /\ c \in Content(f) \ {Bad}
  BY <1>1, Values DEF AnyContent, Content, Unreadable, Value, Files
<1>4. fd' \in [Procs -> {"closed", "tmp", "target", "gone"}] /\ \A q \in Procs : q # p => fd'[q] = fd[q]
  BY <1>0 DEF Write, Typed
<1>5. UNCHANGED <<storeVars, job, read, session, under, boundVars, historyVars>>
  BY DEF Write
<1>6. /\ tmp' \in [Files -> AnyContent] /\ disk' \in [Files -> AnyContent]
      /\ tmp'[f] = tmp[f] \/ tmp'[f] \in {v, Torn}
      /\ disk'[f] = disk[f] \/ disk'[f] \in {v, Torn}
      /\ \A g \in Files : g # f => tmp'[g] = tmp[g] /\ disk'[g] = disk[g]
  BY <1>0, <1>1, <1>3 DEF Write, Written, Typed
<1>7. f \notin overlapped => disk' = disk /\ tmp'[f] = v
  BY <1>0, <1>1 DEF Write, Written, Whole, Typed
<1> HIDE DEF f, v
<1>8. Typed'
  BY <1>0, <1>2, <1>4, <1>5, <1>6 DEF Typed, storeVars
<1>9. Contents'
  BY <1>0, <1>1, <1>3, <1>6 DEF Contents
<1>10. Places'
  <2> SUFFICES ASSUME NEW q \in Procs PROVE Place(q)'
    BY DEF Places
  <2>1. CASE q = p
    BY <1>0, <1>1, <1>2, <1>5, <1>7, <2>1 DEF Places, Place, Saving, storeVars, historyVars, f
  <2>2. CASE q # p
    <3>1. q = Main /\ pc[q] \in Saving => FALSE
      BY <1>0, <1>1, <2>2 DEF Places, Place, Saving
    <3> QED
      BY <1>0, <1>2, <1>5, <2>2, <3>1 DEF Places, Place, storeVars, historyVars
  <2> QED
    BY <2>1, <2>2
<1>11. Whole'
  <2> SUFFICES ASSUME NEW g \in Files, g \notin overlapped
               PROVE  /\ disk'[g] \notin {Empty, Torn}
                      /\ \A q, r \in Procs : Writing(q, g)' /\ Writing(r, g)' => q = r
                      /\ \A q \in Procs : job[q].file = g =>
                            /\ pc'[q] = "write" => fd'[q] = "tmp" /\ tmp'[g] = Empty
                            /\ pc'[q] = "rename" => tmp'[g] = job[q].val
    BY <1>5 DEF Whole, historyVars
  <2>1. /\ disk[g] \notin {Empty, Torn} /\ disk'[g] = disk[g]
        /\ \A q, r \in Procs : Writing(q, g) /\ Writing(r, g) => q = r
        /\ \A q \in Procs : job[q].file = g =>
              /\ pc[q] = "write" => fd[q] = "tmp" /\ tmp[g] = Empty
              /\ pc[q] = "rename" => tmp[g] = job[q].val
    BY <1>0, <1>6, <1>7 DEF Whole
  <2>2. \A q \in Procs : Writing(q, g)' <=> Writing(q, g)
    BY <1>1, <1>2, <1>5 DEF Writing
  <2>3. CASE g = f
    <3>1. Writing(p, g)
      BY <1>1, <2>3 DEF Writing, f
    <3>2. \A q \in Procs : q # p => ~ Writing(q, g)
      BY <2>1, <3>1
    <3> QED
      BY <1>2, <1>7, <2>1, <2>2, <2>3, <3>2 DEF Writing, v
  <2>4. CASE g # f
    <3>1. job[p].file # g /\ tmp'[g] = tmp[g]
      BY <1>6, <2>4 DEF f
    <3> QED
      BY <1>2, <1>4, <2>1, <2>2, <3>1
  <2> QED
    BY <2>3, <2>4
<1>12. Copies'
  <2> SUFFICES ASSUME NEW a \in Admins, "keys" \notin overlapped, pc'[a] \in Saving,
                      job[a].file = "keys", a \notin stale, disk'["keys"] \notin Unreadable
               PROVE  disk'["keys"] \subseteq job[a].val \cup {job[a].drops}
    BY <1>5 DEF Copies, historyVars
  <2>1. disk'["keys"] = disk["keys"] /\ pc[a] \in Saving
    BY <1>1, <1>2, <1>6, <1>7 DEF Files, Saving, Procs
  <2> QED
    BY <1>0, <2>1 DEF Copies
<1>13. Agreed'
  <2>1. ~ loose => disk'["config"] = disk["config"]
    BY <1>0, <1>6, <1>7 DEF Agreed, Files
  <2> QED
    BY <1>0, <1>1, <1>2, <1>5, <2>1 DEF Agreed, Saving, Procs, storeVars, historyVars
<1> QED
  BY <1>8, <1>9, <1>10, <1>11, <1>12, <1>13 DEF Inv
\* What the replacement of the file f by p does to the open files.
LEMMA ReplacedFacts ==
    ASSUME Typed, NEW f \in Files, NEW name, NEW p \in Procs, Replaced(f, name, p)
    PROVE  /\ fd' \in [Procs -> {"closed", "tmp", "target", "gone"}]
           /\ \A q \in Procs : job[q].file # f => fd'[q] = fd[q]
           /\ \A q \in Procs : fd[q] = "tmp" /\ name = "none" => fd'[q] = "tmp"
           /\ f # "keys" => stale' = stale
           /\ f = "keys" => \A a \in Admins \ {p} :
                 job[a].file = f /\ pc[a] \in Saving => a \in stale'
  BY DEF Replaced, Typed, Saving

LEMMA RenameStep ==
    ASSUME Inv, NEW p \in Procs, Rename(p)
    PROVE  Inv'
<1>0. Typed /\ Contents /\ Places /\ Whole /\ Copies /\ Agreed
  BY DEF Inv
<1> DEFINE f == job[p].file
<1>1. pc[p] = "rename" /\ f \in Files
  BY <1>0 DEF Rename, Places, Place, Saving
<1>2. /\ pc' \in [Procs -> PCs] /\ job' \in [Procs -> Jobs] /\ read' \in [Procs -> Reads]
      /\ p = Main => pc'[p] = "idle" /\ job'[p].file = "none" /\ ~ job'[p].changed
      /\ p # Main => pc'[p] = "readConfig" /\ job'[p] = job[p]
      /\ \A q \in Procs : q # p => pc'[q] = pc[q] /\ job'[q] = job[q] /\ read'[q] = read[q]
  <2>1. CASE p = Main
    BY <1>0, <2>1, ReturnFacts DEF Rename
  <2>2. CASE p # Main
    BY <1>0, <2>2, GotoFacts DEF Rename, Typed, PCs
  <2> QED
    BY <2>1, <2>2
<1>3. UNCHANGED <<storeVars, session, under, boundVars, overlapped, raced, loose>>
  BY DEF Rename
<1>4. /\ disk' = [disk EXCEPT ![f] = tmp[f]] /\ tmp' = [tmp EXCEPT ![f] = Absent]
      /\ Replaced(f, "tmp", p)
  BY DEF Rename
<1> HIDE DEF f
<1>5. /\ disk' \in [Files -> AnyContent] /\ tmp' \in [Files -> AnyContent]
      /\ disk'[f] = tmp[f] /\ tmp'[f] = Absent
      /\ \A g \in Files : g # f => disk'[g] = disk[g] /\ tmp'[g] = tmp[g]
  BY <1>0, <1>1, <1>4 DEF Typed, AnyContent, Content, Unreadable
<1>6. /\ fd' \in [Procs -> {"closed", "tmp", "target", "gone"}]
      /\ \A q \in Procs : job[q].file # f => fd'[q] = fd[q]
      /\ f # "keys" => stale' = stale
      /\ f = "keys" => \A a \in Admins \ {p} :
            job[a].file = f /\ pc[a] \in Saving => a \in stale'
  BY <1>0, <1>1, <1>4, ReplacedFacts
<1>7. Typed'
  BY <1>0, <1>2, <1>3, <1>5, <1>6 DEF Typed, storeVars
<1>8. Contents'
  <2>1. \A g \in Files : Absent \in Content(g) \ {Bad}
    BY Values DEF Content, Unreadable
  <2> QED
    BY <1>0, <1>1, <1>5, <2>1 DEF Contents
<1>9. Places'
  <2> SUFFICES ASSUME NEW q \in Procs PROVE Place(q)'
    BY DEF Places
  <2>1. CASE q = p
    BY <1>0, <1>1, <1>2, <1>3, <2>1 DEF Places, Place, Saving, storeVars
  <2>2. CASE q # p
    <3>1. q = Main /\ pc[q] \in Saving => FALSE
      BY <1>0, <1>1, <2>2 DEF Places, Place, Saving
    <3> QED
      BY <1>0, <1>2, <1>3, <2>2, <3>1 DEF Places, Place, storeVars
  <2> QED
    BY <2>1, <2>2
<1>10. Whole'
  <2> SUFFICES ASSUME NEW g \in Files, g \notin overlapped
               PROVE  /\ disk'[g] \notin {Empty, Torn}
                      /\ \A q, r \in Procs : Writing(q, g)' /\ Writing(r, g)' => q = r
                      /\ \A q \in Procs : job'[q].file = g =>
                            /\ pc'[q] = "write" => fd'[q] = "tmp" /\ tmp'[g] = Empty
                            /\ pc'[q] = "rename" => tmp'[g] = job'[q].val
    BY <1>3 DEF Whole
  <2>1. /\ disk[g] \notin {Empty, Torn}
        /\ \A q, r \in Procs : Writing(q, g) /\ Writing(r, g) => q = r
        /\ \A q \in Procs : job[q].file = g =>
              /\ pc[q] = "write" => fd[q] = "tmp" /\ tmp[g] = Empty
              /\ pc[q] = "rename" => tmp[g] = job[q].val
    BY <1>0 DEF Whole
  <2>2. ~ Writing(p, g)' /\ \A q \in Procs : q # p => (Writing(q, g)' <=> Writing(q, g))
    BY <1>2 DEF Writing
  <2>3. CASE g = f
    <3>1. Writing(p, g)
      BY <1>1, <2>3 DEF Writing, f
    <3>2. \A q \in Procs : ~ Writing(q, g)'
      BY <2>1, <2>2, <3>1
    <3>3. disk'[g] = job[p].val /\ job[p].val \in Value(f)
      BY <1>0, <1>1, <1>5, <2>1, <2>3 DEF f, Places, Place, Saving
    <3>4. disk'[g] \notin {Empty, Torn}
      BY <1>1, <3>3, Values DEF Value, Files
    <3> QED
      BY <3>2, <3>4 DEF Writing
  <2>4. CASE g # f
    <3>1. job[p].file # g /\ tmp'[g] = tmp[g] /\ disk'[g] = disk[g]
      BY <1>5, <2>4 DEF f
    <3> QED
      BY <1>2, <1>6, <2>1, <2>2, <2>4, <3>1
  <2> QED
    BY <2>3, <2>4
<1>11. Copies'
  <2> SUFFICES ASSUME NEW a \in Admins, "keys" \notin overlapped, pc'[a] \in Saving,
                      job'[a].file = "keys", a \notin stale', disk'["keys"] \notin Unreadable
               PROVE  disk'["keys"] \subseteq job'[a].val \cup {job'[a].drops}
    BY <1>3 DEF Copies
  <2>1. a # p /\ pc[a] \in Saving /\ job'[a] = job[a]
    BY <1>2 DEF Saving, Procs
  <2>2. f # "keys"
    BY <1>6, <2>1
  <2> QED
    BY <1>0, <1>5, <1>6, <2>1, <2>2 DEF Copies, Files
<1>12. Agreed'
  <2> SUFFICES ASSUME ~ loose PROVE Agreed'
    BY <1>3 DEF Agreed
  <2>1. \A a \in Admins : job'[a] = job[a] /\ (pc'[a] = pc[a] \/ (a = p /\ pc'[a] = "readConfig"))
    BY <1>2, MainAssumption DEF Procs
  <2>2. CASE p = Main
    <3>1. ~ up
      BY <1>0, <1>1, <2>2 DEF Places, Place, Saving
    <3> QED
      BY <1>0, <1>2, <1>3, <2>1, <3>1 DEF Agreed, Saving, storeVars
  <2>3. CASE p \in Admins /\ f = "keys"
    <3>1. disk'["config"] = disk["config"]
      BY <1>5, <2>3 DEF Files
    <3>2. ~ job[p].changed
      BY <1>0, <2>3 DEF Places, Place, f
    <3> QED
      BY <1>0, <1>1, <1>3, <2>1, <2>3, <3>1, <3>2 DEF Agreed, Saving, storeVars
  <2>4. CASE p \in Admins /\ f = "config"
    <3>1. disk'["config"] = job[p].val
      BY <1>0, <1>1, <1>5, <2>4 DEF Agreed, Whole, f
    <3>2. job[p].changed \/ disk'["config"] = cfg
      BY <1>0, <1>1, <2>4, <3>1 DEF Agreed, Saving, f
    <3>3. pc'[p] = "readConfig"
      BY <1>2, <2>4, MainAssumption
    <3> QED
      BY <1>0, <1>1, <1>3, <2>1, <2>4, <3>2, <3>3 DEF Agreed, Saving, storeVars
  <2> QED
    BY <1>1, <2>2, <2>3, <2>4 DEF Procs, Files
<1> QED
  BY <1>7, <1>8, <1>9, <1>10, <1>11, <1>12 DEF Inv

\* A goroutine returns and its job is forgotten; this is safe for an unchanged
\* password, or when the change is loose.
LEMMA ReturnStep ==
    ASSUME Inv, NEW p \in Procs, return(p),
           UNCHANGED <<storeVars, fileVars, session, under, overlapped, stale, raced>>,
           loose' <=> (loose \/ job[p].changed),
           pc[p] \notin {"idle", "creating"}
    PROVE  Inv'
<1>0. Typed /\ Contents /\ Places /\ Whole /\ Copies /\ Agreed
  BY DEF Inv
<1>1. /\ pc' \in [Procs -> PCs] /\ pc'[p] = "idle"
      /\ job' \in [Procs -> Jobs] /\ job'[p].file = "none" /\ ~ job'[p].changed
      /\ read' \in [Procs -> Reads]
      /\ \A q \in Procs : q # p =>
            pc'[q] = pc[q] /\ job'[q] = job[q] /\ read'[q] = read[q]
  BY <1>0, ReturnFacts
<1>2. Admins \subseteq Procs
  BY DEF Procs
<1>3. Typed' /\ Contents'
  BY <1>0, <1>1 DEF Typed, Contents, storeVars, fileVars
<1>4. Places'
  <2> SUFFICES ASSUME NEW q \in Procs PROVE Place(q)'
    BY DEF Places
  <2>1. CASE q = p
    BY <1>0, <1>1, <2>1 DEF Places, Place, Saving, storeVars
  <2>2. CASE q # p
    BY <1>0, <1>1, <2>2 DEF Places, Place, storeVars, fileVars
  <2> QED
    BY <2>1, <2>2
<1>5. Whole'
  BY <1>0, <1>1 DEF Whole, Writing, fileVars, Files
<1>6. Copies'
  BY <1>0, <1>1, <1>2 DEF Copies, Saving, fileVars
<1>7. Agreed'
  BY <1>0, <1>1, <1>2 DEF Agreed, Saving, storeVars, fileVars
<1> QED
  BY <1>3, <1>4, <1>5, <1>6, <1>7 DEF Inv

LEMMA RenameFailsStep ==
    ASSUME Inv, NEW p \in Procs, RenameFails(p)
    PROVE  Inv'
<1>0. Typed /\ Contents /\ Places /\ Whole /\ Copies /\ Agreed
  BY DEF Inv
<1> DEFINE f == job[p].file
<1>1. pc[p] = "rename" /\ f \in Files /\ job[p].val \in Value(f) /\ tmp[f] = Absent
  BY <1>0 DEF RenameFails, Places, Place, Saving
<1>2. job[p].changed => loose
  <2> SUFFICES ASSUME job[p].changed, ~ loose PROVE FALSE
    OBVIOUS
  <2>1. f = "config" /\ f \notin overlapped
    BY <1>0 DEF Places, Place, Agreed
  <2>2. tmp[f] = job[p].val
    BY <1>0, <1>1, <2>1 DEF Whole
  <2> QED
    BY <1>1, <2>1, <2>2, Values DEF Value
<1>3. /\ return(p)
      /\ UNCHANGED <<storeVars, fileVars, session, under, overlapped, stale, raced>>
      /\ loose' <=> (loose \/ job[p].changed)
  <2>1. loose' <=> (loose \/ job[p].changed)
    BY <1>2 DEF RenameFails, historyVars
  <2> QED
    BY <2>1 DEF RenameFails, historyVars
<1> QED
  BY <1>1, <1>3, ReturnStep
-----------------------------------------------------------------------------
(***************************************************************************)
(* Reload.                                                                 *)
(***************************************************************************)

LEMMA ReadStep ==
    ASSUME Inv, NEW p \in Procs, ReadConfig(p) \/ ReadKeys(p) \/ (BeginReload /\ p = Main)
    PROVE  Inv'
<1>0. Typed /\ Contents /\ Places /\ Whole /\ Copies /\ Agreed
  BY DEF Inv
<1>1. /\ UNCHANGED <<storeVars, fileVars, job, session, under, boundVars, historyVars>>
      /\ pc' \in [Procs -> PCs] /\ pc[p] \in {"idle", "readConfig", "readKeys"}
      /\ pc'[p] \in {"readConfig", "readKeys", "install"}
      /\ \A q \in Procs : q # p => pc'[q] = pc[q]
  BY <1>0, GotoFacts DEF ReadConfig, ReadKeys, BeginReload, PCs
<1>2. /\ disk["config"] \in Content("config") /\ disk["keys"] \in Content("keys")
      /\ disk["config"] \notin Unreadable => disk["config"] \in Passwords
      /\ disk["keys"] \notin Unreadable => disk["keys"] \in SUBSET KeyIds
  BY <1>0 DEF Contents, Content, Value, Files
<1>3. /\ read' \in [Procs -> Reads]
      /\ \A q \in Procs : q # p => read'[q] = read[q]
      /\ pc'[p] \in {"readKeys", "install"} => read'[p].config \in Passwords
      /\ pc'[p] = "install" => read'[p].keys \in SUBSET KeyIds
  <2>1. CASE ReadConfig(p)
    BY <1>0, <1>2, <2>1, ReadFacts, GotoFacts DEF ReadConfig, Typed, PCs
  <2>2. CASE ReadKeys(p)
    <3>1. /\ pc'[p] = "install" /\ pc[p] = "readKeys"
          /\ read' = [read EXCEPT ![p].keys = disk["keys"]] /\ disk["keys"] \in SUBSET KeyIds
      BY <1>0, <1>2, <2>2, GotoFacts DEF ReadKeys, PCs
    <3>2. read[p].config \in Passwords /\ read \in [Procs -> Reads]
      BY <1>0, <3>1 DEF Typed, Places, Place
    <3> QED
      BY <1>2, <3>1, <3>2, ReadFacts
  <2>3. CASE BeginReload /\ p = Main
    BY <1>0, <2>3, GotoFacts DEF BeginReload, Typed, PCs
  <2> QED
    BY <2>1, <2>2, <2>3
<1>4. Typed' /\ Contents'
  BY <1>0, <1>1, <1>3 DEF Typed, Contents, storeVars, fileVars
<1>5. Places'
  <2> SUFFICES ASSUME NEW q \in Procs PROVE Place(q)'
    BY DEF Places
  <2>1. CASE q = p
    <3>1. q # Main => pc[q] # "idle"
      BY <2>1 DEF ReadConfig, ReadKeys
    <3> QED
      BY <1>0, <1>1, <1>3, <2>1, <3>1 DEF Places, Place, Saving, storeVars
  <2>2. CASE q # p
    BY <1>0, <1>1, <1>3, <2>2 DEF Places, Place, storeVars, fileVars, historyVars
  <2> QED
    BY <2>1, <2>2
<1>6. Whole' /\ Copies'
  BY <1>0, <1>1 DEF Whole, Copies, Writing, Saving, Procs, fileVars, historyVars
<1>7. Agreed'
  BY <1>0, <1>1 DEF Agreed, Saving, Procs, storeVars, fileVars, historyVars
<1> QED
  BY <1>4, <1>5, <1>6, <1>7 DEF Inv

LEMMA ReloadFailsStep ==
    ASSUME Inv, NEW p \in Procs, ReloadFails(p)
    PROVE  Inv'
  BY ReturnStep DEF ReloadFails

LEMMA InstallStep ==
    ASSUME Inv, NEW p \in Procs, Install(p)
    PROVE  Inv'
<1>0. Typed /\ Contents /\ Places /\ Whole /\ Copies /\ Agreed
  BY DEF Inv
<1>1. /\ pc[p] = "install" /\ up' = TRUE /\ cfg' = read[p].config /\ keyFile' = read[p].keys
      /\ loose' <=> (loose \/ read[p].config # disk["config"])
      /\ UNCHANGED <<fileVars, session, under, boundVars, overlapped, stale, raced>>
  BY DEF Install
<1>2. cfg' \in Passwords /\ keyFile' \in SUBSET KeyIds
  BY <1>0, <1>1 DEF Places, Place
<1>3. /\ pc' \in [Procs -> PCs] /\ job' \in [Procs -> Jobs] /\ read' \in [Procs -> Reads]
      /\ ~ job[p].changed => pc'[p] = "idle" /\ job'[p].file = "none" /\ ~ job'[p].changed
      /\ job[p].changed => pc'[p] = "clear" /\ job'[p] = job[p]
      /\ \A q \in Procs : q # p => pc'[q] = pc[q] /\ job'[q] = job[q] /\ read'[q] = read[q]
  <2>1. CASE job[p].changed
    BY <1>0, <2>1, GotoFacts DEF Install, Typed, PCs
  <2>2. CASE ~ job[p].changed
    BY <1>0, <2>2, ReturnFacts DEF Install
  <2> QED
    BY <2>1, <2>2
<1>4. Typed' /\ Contents'
  BY <1>0, <1>1, <1>2, <1>3 DEF Typed, Contents, fileVars
<1>5. pc[Main] \notin Saving
  BY <1>0, <1>1 DEF Places, Place, Procs, Saving
<1>6. Places'
  <2> SUFFICES ASSUME NEW q \in Procs PROVE Place(q)'
    BY DEF Places
  <2>1. CASE q = p
    BY <1>0, <1>1, <1>3, <2>1 DEF Places, Place, Saving
  <2>2. CASE q # p
    BY <1>0, <1>1, <1>3, <1>5, <2>2 DEF Places, Place, fileVars
  <2> QED
    BY <2>1, <2>2
<1>7. Whole' /\ Copies'
  BY <1>0, <1>1, <1>3 DEF Whole, Copies, Writing, Saving, Procs, fileVars, Files
<1>8. Agreed'
  <2> SUFFICES ASSUME ~ loose', ~ loose, cfg' = disk["config"]
               PROVE  Agreed'
    BY <1>1 DEF Agreed
  <2>1. /\ "config" \notin overlapped'
        /\ \A a, b \in Admins : job'[a].file = "config" /\ job'[b].file = "config" => a = b
        /\ disk'["config"] = cfg'
    <3>1. \A a \in Admins : job'[a].file = "config" => job[a].file = "config"
      BY <1>3 DEF Procs
    <3>2. disk'["config"] = cfg' /\ overlapped' = overlapped
      BY <1>1 DEF fileVars
    <3> QED
      BY <1>0, <3>1, <3>2 DEF Agreed
  <2>2. \A a \in Admins : job'[a].changed <=> job[a].changed
    BY <1>3 DEF Procs
  <2>3. \A a \in Admins : job'[a].file = "config" /\ ~ job'[a].changed /\ pc'[a] \in Saving
            => job'[a].val = cfg'
    <3> SUFFICES ASSUME NEW a \in Admins, job'[a].file = "config", ~ job'[a].changed,
                        pc'[a] \in Saving
                 PROVE  job'[a].val = cfg'
      OBVIOUS
    <3>1. a # p /\ job'[a] = job[a] /\ pc[a] \in Saving /\ a # Main
      BY <1>3, MainAssumption DEF Saving, Procs
    <3>2. up
      BY <1>0, <3>1 DEF Places, Place, Saving, Procs
    <3>3. \A b \in Admins : ~ job[b].changed
      BY <1>0, <3>1 DEF Agreed, Places, Place, Procs
    <3> QED
      BY <1>0, <3>1, <3>2, <3>3 DEF Agreed
  <2>4. \A a \in Admins :
            (session'[a] \/ pc'[a] = "creating") /\ a \notin raced'
            /\ (\A b \in Admins : ~ job'[b].changed) => under'[a] = cfg'
    <3> SUFFICES ASSUME NEW a \in Admins, session[a] \/ pc'[a] = "creating", a \notin raced,
                        \A b \in Admins : ~ job[b].changed
                 PROVE  under[a] = cfg'
      BY <1>1, <2>2
    <3>1. session[a] \/ pc[a] = "creating"
      BY <1>3 DEF Procs
    <3>2. up
      BY <1>0, <3>1, MainAssumption DEF Places, Place, Procs
    <3> QED
      BY <1>0, <3>1, <3>2 DEF Agreed
  <2> QED
    BY <2>1, <2>3, <2>4 DEF Agreed
<1> QED
  BY <1>4, <1>6, <1>7, <1>8 DEF Inv

LEMMA ClearStep ==
    ASSUME Inv, NEW p \in Procs, ClearSessions(p)
    PROVE  Inv'
<1>0. Typed /\ Contents /\ Places /\ Whole /\ Copies /\ Agreed
  BY DEF Inv
<1>1. /\ pc[p] = "clear" /\ p # Main /\ p \in Admins /\ up
      /\ job[p].changed /\ job[p].file = "config"
      /\ UNCHANGED <<storeVars, fileVars, boundVars, overlapped, stale, loose>>
  BY <1>0 DEF ClearSessions, Places, Place, Procs
<1>2. /\ pc' \in [Procs -> PCs] /\ pc'[p] = "idle"
      /\ job' \in [Procs -> Jobs] /\ job'[p].file = "none" /\ ~ job'[p].changed
      /\ read' \in [Procs -> Reads]
      /\ \A q \in Procs : q # p =>
            pc'[q] = pc[q] /\ job'[q] = job[q] /\ read'[q] = read[q]
  BY <1>0, ReturnFacts DEF ClearSessions
<1>3. /\ session' = [a \in Admins |-> FALSE] /\ under' \in [Admins -> Passwords]
      /\ raced' = {a \in Admins : pc[a] = "creating"}
  BY <1>0, PasswordsAssumption DEF ClearSessions, Typed
<1>4. Typed' /\ Contents'
  BY <1>0, <1>1, <1>2, <1>3 DEF Typed, Contents, storeVars, fileVars
<1>5. Places'
  <2> SUFFICES ASSUME NEW q \in Procs PROVE Place(q)'
    BY DEF Places
  <2>1. CASE q = p
    BY <1>0, <1>1, <1>2, <1>3, <2>1 DEF Places, Place, Saving, storeVars
  <2>2. CASE q # p
    BY <1>0, <1>1, <1>2, <1>3, <2>2 DEF Places, Place, storeVars, fileVars, Procs
  <2> QED
    BY <2>1, <2>2
<1>6. Whole' /\ Copies'
  BY <1>0, <1>1, <1>2 DEF Whole, Copies, Writing, Saving, Procs, fileVars, Files
<1>7. Agreed'
  <2> SUFFICES ASSUME ~ loose PROVE Agreed'
    BY <1>1 DEF Agreed
  <2>1. \A a \in Admins : a # p => ~ job[a].changed
    BY <1>0, <1>1 DEF Agreed, Places, Place, Procs
  <2>2. disk["config"] = cfg
    BY <1>0, <1>1, <2>1 DEF Agreed
  <2>3. \A a \in Admins : ~ session'[a] /\ (pc'[a] = "creating" => a \in raced')
    BY <1>2, <1>3 DEF Procs
  <2> QED
    BY <1>0, <1>1, <1>2, <2>2, <2>3 DEF Agreed, Saving, Procs, storeVars, fileVars
<1> QED
  BY <1>4, <1>5, <1>6, <1>7 DEF Inv
-----------------------------------------------------------------------------
(***************************************************************************)
(* Start, crash, and the operator.                                         *)
(***************************************************************************)

LEMMA EnsureStep ==
    ASSUME Inv, NEW f \in Files, EnsureConfigFile(f)
    PROVE  Inv'
<1>0. Typed /\ Contents /\ Places /\ Whole /\ Copies /\ Agreed
  BY DEF Inv
<1> DEFINE j == [NoJob EXCEPT !.file = f, !.val = Default(f)]
<1>1. j \in Jobs /\ j.file = f /\ j.val = Default(f) /\ ~ j.changed
  BY PasswordsAssumption DEF NoJob, Jobs, Files, Default
<1>2. job' = [job EXCEPT ![Main] = j]
  BY DEF EnsureConfigFile
<1> HIDE DEF j
<1>3. Default(f) \in Value(f) /\ Main \in Procs /\ Main \notin Admins
  BY PasswordsAssumption, MainAssumption DEF Default, Value, Files, Procs
<1>4. /\ pc' \in [Procs -> PCs] /\ pc'[Main] = "open" /\ pc[Main] = "idle"
      /\ job' \in [Procs -> Jobs] /\ job'[Main] = j
      /\ \A q \in Procs : q # Main => pc'[q] = pc[q] /\ job'[q] = job[q]
  BY <1>0, <1>1, <1>2, <1>3, GotoFacts DEF EnsureConfigFile, Typed, PCs
<1>5. /\ ~ up /\ disk[f] = Absent
      /\ UNCHANGED <<storeVars, fileVars, read, session, under, boundVars, historyVars>>
  BY DEF EnsureConfigFile
<1>6. Typed' /\ Contents'
  BY <1>0, <1>4, <1>5 DEF Typed, Contents, storeVars, fileVars
<1>7. Places'
  <2> SUFFICES ASSUME NEW q \in Procs PROVE Place(q)'
    BY DEF Places
  <2>1. CASE q = Main
    BY <1>0, <1>1, <1>3, <1>4, <1>5, <2>1 DEF Places, Place, Saving, storeVars, fileVars
  <2>2. CASE q # Main
    BY <1>0, <1>4, <1>5, <2>2 DEF Places, Place, storeVars
  <2> QED
    BY <2>1, <2>2
<1>8. Whole' /\ Copies'
  BY <1>0, <1>3, <1>4, <1>5 DEF Whole, Copies, Writing, Procs, fileVars, historyVars
<1>9. \A a \in Admins : pc'[a] = pc[a] /\ job'[a] = job[a]
  BY <1>3, <1>4 DEF Procs
<1>10. Agreed'
  BY <1>0, <1>5, <1>9 DEF Agreed, storeVars, fileVars, historyVars
<1> QED
  BY <1>6, <1>7, <1>8, <1>10 DEF Inv

LEMMA CrashStep ==
    ASSUME Inv, Crash
    PROVE  Inv'
<1>0. Typed /\ Contents /\ Places /\ Whole /\ Copies /\ Agreed
  BY DEF Inv
<1>1. /\ UNCHANGED <<cfg, keyFile, disk, tmp, saves, overlapped, loose>> /\ up' = FALSE
      /\ pc' = [p \in Procs |-> "idle"] /\ job' = [p \in Procs |-> NoJob]
      /\ fd' = [p \in Procs |-> "closed"] /\ read' = [p \in Procs |-> NothingRead]
      /\ session' = [a \in Admins |-> FALSE] /\ under' = [a \in Admins |-> DefaultPassword]
  BY DEF Crash
<1>2. Typed' /\ Contents'
  BY <1>0, <1>1, NoRecords, PasswordsAssumption DEF Typed, Contents, PCs
<1>3. Places'
  BY <1>0, <1>1, NoRecords DEF Places, Place, Saving, Procs
<1>4. Whole' /\ Copies'
  BY <1>0, <1>1, NoRecords DEF Whole, Copies, Writing, Saving, Procs, Files
<1>5. Agreed'
  BY <1>0, <1>1, NoRecords DEF Agreed, Saving, Procs
<1> QED
  BY <1>2, <1>3, <1>4, <1>5 DEF Inv

LEMMA EditStep ==
    ASSUME Inv, NEW f \in Files, NEW v \in Edits[f], EditFile(f, v)
    PROVE  Inv'
<1>0. Typed /\ Contents /\ Places /\ Whole /\ Copies /\ Agreed
  BY DEF Inv
<1>1. v \in Value(f) \cup {Bad}
  BY EditsAssumption DEF Files, Value
<1>2. v \in AnyContent /\ v \in Content(f) /\ v \notin {Empty, Torn, Absent}
  BY <1>1, Values DEF AnyContent, Content, Unreadable, Value, Files
<1>3. /\ UNCHANGED <<storeVars, tmp, pc, job, read, session, under, saves, overlapped, raced>>
      /\ disk[f] # Absent /\ disk' = [disk EXCEPT ![f] = v]
      /\ loose' <=> (loose \/ f = "config")
      /\ Replaced(f, "none", Main)
  BY DEF EditFile
<1>4. /\ disk' \in [Files -> AnyContent] /\ disk'[f] = v
      /\ \A g \in Files : g # f => disk'[g] = disk[g]
  BY <1>0, <1>2, <1>3 DEF Typed
<1>5. /\ fd' \in [Procs -> {"closed", "tmp", "target", "gone"}]
      /\ \A q \in Procs : fd[q] = "tmp" => fd'[q] = "tmp"
      /\ f # "keys" => stale' = stale
      /\ f = "keys" => \A a \in Admins :
            job[a].file = f /\ pc[a] \in Saving => a \in stale'
  <2>1. \A a \in Admins : a \in Admins \ {Main}
    BY MainAssumption
  <2>2. Main \in Procs
    BY DEF Procs
  <2> QED
    BY <1>0, <1>3, <2>1, <2>2, ReplacedFacts
<1>6. Typed' /\ Contents'
  BY <1>0, <1>2, <1>3, <1>4, <1>5 DEF Typed, Contents, storeVars
<1>7. Places'
  <2> SUFFICES ASSUME NEW q \in Procs PROVE Place(q)'
    BY DEF Places
  <2>1. q = Main /\ pc[q] \in Saving /\ job[q].file \notin overlapped => job[q].file # f
    BY <1>0, <1>3 DEF Places, Place
  <2>2. pc[q] \in Saving => job[q].file \in Files
    BY <1>0 DEF Places, Place
  <2> QED
    BY <1>0, <1>3, <1>4, <2>1, <2>2 DEF Places, Place, storeVars
<1>8. Whole'
  BY <1>0, <1>2, <1>3, <1>4, <1>5 DEF Whole, Writing
<1>9. Copies'
  BY <1>0, <1>3, <1>4, <1>5 DEF Copies, Files
<1>10. Agreed'
  <2> SUFFICES ASSUME ~ loose, f = "keys" PROVE Agreed'
    BY <1>3 DEF Agreed, Files
  <2>1. disk'["config"] = disk["config"]
    BY <1>4 DEF Files
  <2> QED
    BY <1>0, <1>3, <2>1 DEF Agreed, storeVars
<1> QED
  BY <1>6, <1>7, <1>8, <1>9, <1>10 DEF Inv

-----------------------------------------------------------------------------

\* Every step keeps the invariant.
LEMMA StepInv == Inv /\ [Next]_vars => Inv'
<1> SUFFICES ASSUME Inv, [Next]_vars PROVE Inv'
  OBVIOUS
<1>1. ASSUME NEW p \in Procs, Proceed(p) PROVE Inv'
  <2>1. CASE OpenTmp(p) \/ Write(p) \/ Rename(p) \/ RenameFails(p)
    BY <2>1, OpenStep, WriteStep, RenameStep, RenameFailsStep
  <2>2. CASE ReadConfig(p) \/ ReadKeys(p)
    BY <2>2, ReadStep
  <2>3. CASE ReloadFails(p) \/ Install(p) \/ ClearSessions(p)
    BY <2>3, ReloadFailsStep, InstallStep, ClearStep
  <2> QED
    BY <1>1, <2>1, <2>2, <2>3 DEF Proceed
<1>2. ASSUME NEW a \in Admins, Browse(a) PROVE Inv'
  BY <1>2, SaveConfigStep, KeysStep, SessionStep DEF Browse
<1>3. CASE Tend
  <2>1. Main \in Procs
    BY DEF Procs
  <2> QED
    BY <1>3, <2>1, ReadStep, EnsureStep DEF Tend
<1>4. CASE \E f \in Files : \E v \in Edits[f] : EditFile(f, v)
  BY <1>4, EditStep
<1>5. CASE UNCHANGED vars
  BY <1>5 DEF vars, storeVars, fileVars, historyVars, Inv, Typed, Contents, Places, Place,
              Whole, Writing, Copies, Agreed
<1> QED
  BY <1>1, <1>2, <1>3, <1>4, <1>5, CrashStep DEF Next

\* The invariant holds throughout.
THEOREM InvCorrect == Spec => []Inv
  BY InitInv, StepInv, PTL DEF Spec

\* What the store holds is a configuration and a key file at every moment,
\* whatever the files hold: TypeOK.
THEOREM TypeCorrect == Spec => []TypeOK
<1>1. Inv => TypeOK
  <2> SUFFICES ASSUME Inv PROVE TypeOK
    OBVIOUS
  <2>1. Typed /\ Contents
    BY DEF Inv
  <2>2. keyFile \notin Unreadable /\ keyFile \subseteq KeyIds
    BY <2>1, Values DEF Typed, Unreadable
  <2>3. \A p \in Procs : job[p].val \in Value("config") \cup Value("keys") \cup {Absent}
    BY <2>1 DEF Typed, Jobs, Value
  <2>4. \A p \in Procs : read[p].config \in Content("config") /\ read[p].keys \in Content("keys")
    BY <2>1 DEF Typed, Reads
  <2> QED
    BY <2>1, <2>2, <2>3, <2>4 DEF Typed, Contents, TypeOK
<1> QED
  BY <1>1, InvCorrect, PTL

\* A file that no two saves ever wrote at once can always be loaded, or was
\* spoilt by hand: WholeUnlessOverlapped.
THEOREM WholeUnlessOverlappedCorrect == Spec => []WholeUnlessOverlapped
<1>1. Inv => WholeUnlessOverlapped
  BY DEF Inv, Whole, WholeUnlessOverlapped
<1> QED
  BY <1>1, InvCorrect, PTL

\* A session of another password has one of the causes named: StaleSessionsExplained.
THEOREM StaleSessionsExplainedCorrect == Spec => []StaleSessionsExplained
<1>1. Inv => StaleSessionsExplained
  <2> SUFFICES ASSUME Inv, NEW a \in Admins, session[a], a \notin raced, ~ loose, under[a] # cfg
               PROVE  \E p \in Admins : job[p].file = "config" /\ job[p].changed
    BY DEF StaleSessionsExplained
  <2>1. PICK p \in Admins : job[p].changed
    BY DEF Inv, Agreed
  <2> QED
    BY <2>1 DEF Inv, Places, Place, Procs
<1> QED
  BY <1>1, InvCorrect, PTL

-----------------------------------------------------------------------------

\* What a step that changes key.json is: a write into the file itself, which
\* takes an overlap, a rename, or an edit.
LEMMA KeyFileSteps ==
    ASSUME Inv, faults \in Nat, [Next]_vars, disk'["keys"] # disk["keys"]
    PROVE  \/ "keys" \in overlapped
           \/ \E p \in Procs : Rename(p) /\ job[p].file = "keys"
           \/ faults' # faults
<1>1. ASSUME NEW p \in Procs, Proceed(p), "keys" \notin overlapped
      PROVE  Rename(p) /\ job[p].file = "keys"
  <2>1. CASE Write(p)
    <3>1. pc[p] = "write" /\ (job[p].file = "keys" => fd[p] = "tmp")
      BY <1>1, <2>1 DEF Write, Inv, Whole, Files
    <3> QED
      BY <2>1, <3>1 DEF Write, Inv, Typed, Files
  <2>2. CASE Rename(p)
    BY <2>2 DEF Rename, Inv, Typed, Files
  <2> QED
    BY <1>1, <2>1, <2>2 DEF Proceed, OpenTmp, RenameFails, ReadConfig, ReadKeys, ReloadFails,
       Install, ClearSessions, fileVars
<1>2. ASSUME NEW a \in Admins, Browse(a) PROVE FALSE
  BY <1>2 DEF Browse, BeginSaveConfig, BeginUpsertKey, BeginDeleteKey, Begin, Login,
     CreateSession, EndSession, fileVars
<1>3. ASSUME Tend \/ Crash \/ UNCHANGED vars PROVE FALSE
  BY <1>3 DEF Tend, BeginReload, EnsureConfigFile, Crash, vars, fileVars
<1>4. ASSUME NEW f \in Files, NEW v \in Edits[f], EditFile(f, v)
      PROVE  faults' # faults
  BY <1>4 DEF EditFile
<1> QED
  BY <1>1, <1>2, <1>3, <1>4 DEF Next
Counted == faults \in Nat

LEMMA FaultsCounted == Spec => []Counted
<1>1. Init => Counted
  BY DEF Init, Counted
<1>2. Counted /\ [Next]_vars => Counted'
  <2> SUFFICES ASSUME Counted, [Next]_vars PROVE Counted'
    OBVIOUS
  <2>1. ASSUME NEW p \in Procs, Proceed(p) PROVE faults' = faults
    BY <2>1 DEF Proceed, OpenTmp, Write, Rename, RenameFails, ReadConfig, ReadKeys,
       ReloadFails, Install, ClearSessions, boundVars
  <2>2. ASSUME NEW a \in Admins, Browse(a) PROVE faults' = faults
    BY <2>2 DEF Browse, BeginSaveConfig, BeginUpsertKey, BeginDeleteKey, Begin, Login,
       CreateSession, EndSession, boundVars
  <2>3. ASSUME Tend \/ UNCHANGED vars PROVE faults' = faults
    BY <2>3 DEF Tend, BeginReload, EnsureConfigFile, vars, boundVars
  <2> QED
    BY <2>1, <2>2, <2>3 DEF Next, Crash, EditFile, Counted
<1> QED
  BY <1>1, <1>2, PTL DEF Spec

\* A key that leaves key.json was deleted, or has one of the causes named:
\* KeysDroppedOnPurpose.
THEOREM KeysDroppedOnPurposeCorrect == Spec => KeysDroppedOnPurpose
<1> DEFINE Dropped(k) ==
        disk["keys"] \notin Unreadable /\ k \in disk["keys"]
        /\ disk'["keys"] \notin Unreadable /\ k \notin disk'["keys"]
           Excused(k) ==
        \/ faults' # faults
        \/ "keys" \in overlapped
        \/ \E a \in Admins :
             /\ pc[a] = "rename" /\ pc'[a] = "readConfig"
             /\ job[a].drops = k \/ a \in stale
<1>1. Inv /\ Counted /\ [Next]_vars => \A k \in KeyIds : Dropped(k) => Excused(k)
  <2> SUFFICES ASSUME Inv, Counted, [Next]_vars, NEW k \in KeyIds, Dropped(k)
               PROVE  Excused(k)
    OBVIOUS
  <2>1. CASE "keys" \in overlapped \/ faults' # faults
    BY <2>1
  <2>2. ASSUME NEW p \in Procs, Rename(p), job[p].file = "keys", "keys" \notin overlapped
        PROVE  Excused(k)
    <3>1. pc[p] = "rename" /\ disk'["keys"] = tmp["keys"]
      BY <2>2 DEF Rename, Inv, Typed, Files
    <3>2. tmp["keys"] = job[p].val
      BY <2>2, <3>1 DEF Inv, Whole, Files
    <3>3. p # Main
      <4>1. disk["keys"] # Absent
        BY DEF Unreadable
      <4> QED
        BY <2>2, <3>1, <4>1 DEF Inv, Places, Place, Saving
    <3>4. p \in Admins /\ pc'[p] = "readConfig"
      BY <2>2, <3>3, GotoFacts DEF Rename, Procs, Inv, PCs
    <3>5. p \notin stale => disk["keys"] \subseteq job[p].val \cup {job[p].drops}
      BY <2>2, <3>1, <3>4 DEF Inv, Copies, Saving
    <3> QED
      BY <3>1, <3>2, <3>4, <3>5
  <2> QED
    BY <2>1, <2>2, KeyFileSteps DEF Counted
<1>2. Spec => [][\A k \in KeyIds : Dropped(k) => Excused(k)]_vars
  BY <1>1, InvCorrect, FaultsCounted, PTL DEF Spec
<1> QED
  BY <1>2 DEF KeysDroppedOnPurpose
=============================================================================
