------------------------- MODULE ModelStore_proofs -------------------------
(***************************************************************************)
(* Machine-checked facts about ModelStore, for every set of saves and      *)
(* loads, every bound and both operating systems: the two files implement  *)
(* CatalogStore, loads are fresh, a newer schema is left alone.            *)
(*                                                                         *)
(* The heart of the invariant is Safe: whatever pair of files a power loss *)
(* would leave, a load then finds a candidate.  The other parts say what a *)
(* save or a load under way may rely on until its next file system call.   *)
(* Every lemma named after an action shows that it preserves all of them;  *)
(* the refinement then follows from Safe, Hides and Numbered.              *)
(***************************************************************************)
EXTENDS ModelStore, TLAPS

SavePcs == {"idle", "readPrimary", "readBackup", "backup", "renameBackup",
            "primary", "renamePrimary", "sync"}
SaveStates == [pc: SavePcs, doc: Documents, current: Contents]
LoadStates == [pc: {"idle", "backup", "done"}, stale: SUBSET Contents, result: Contents]

\* The file has been read, and may be copied to the backup.
Copying == {"readBackup", "backup", "renameBackup"}

Typed ==
    /\ windows \in BOOLEAN
    /\ file \in [Names -> Contents] /\ maybe \in [Names -> SUBSET Contents]
    /\ \A n \in Names : file[n] \in maybe[n]
    /\ save \in [Saves -> SaveStates] /\ load \in [Loads -> LoadStates]
    /\ last \in Documents /\ crashes \in 0..MaxCrashes
    /\ candidates \subseteq Contents /\ base \subseteq Contents

\* Windows: the process alone crashes, and saves one at a time.
Alone ==
    windows => /\ \A n \in Names : maybe[n] = {file[n]}
               /\ \A v, w \in Saving : v = w

\* After any power loss a load finds a candidate.
Safe ==
    \A c \in maybe["primary"] :
        /\ Decides(c) => c \in candidates
        /\ ~Decides(c) => \A b \in maybe["backup"] : Outcome(b) \in candidates

\* What is about to be copied may be found, or will not be looked for.
Copies ==
    \A w \in Saves : save[w].pc \in Copying =>
        /\ save[w].pc # "readBackup" => Valid(save[w].current)
        /\ Valid(save[w].current) =>
              save[w].current \in candidates \/ \A c \in maybe["primary"] : Decides(c)

\* A save that has renamed its document hides every older one.
Hides == \A w \in Saves : save[w].pc = "sync" => file["primary"] \in Documents \ base

\* The documents under way are new, and newer ones will be newer.
Numbered ==
    /\ \A w \in Saving : save[w].doc \in candidates \ base
    /\ \A v, w \in Saving : save[v].doc = save[w].doc => v = w
    /\ \A d \in Documents : d \in candidates \cup base => d <= last

\* Windows: the primary is still the one read, and the backup stands in for it.
Stands ==
    windows => \A w \in Saves :
        /\ save[w].pc \in Copying => save[w].current = file["primary"]
        /\ save[w].pc = "primary" => Outcome(file["backup"]) \in candidates

\* A newer schema is there for good, and no save gets past its reads.
Blocked ==
    \A n \in Names : file[n] = Future =>
        /\ maybe[n] = {Future}
        /\ \A w \in Saves :
              /\ save[w].pc \in {"idle", "readPrimary", "readBackup"}
              /\ n = "primary" /\ save[w].pc = "readBackup" => save[w].current = Future

\* What a load under way has found or will find is not stale.
Fresh(r, c) == c \notin load[r].stale \/ (windows /\ c = Missing)
Freshness ==
    \A r \in Loads :
        /\ load[r].pc # "idle" =>
              /\ load[r].stale \subseteq (0..last) \cup {Missing}
              /\ load[r].stale \cap candidates = {}
        /\ load[r].pc = "done" => Fresh(r, load[r].result)
        /\ load[r].pc = "backup" =>
              /\ Fresh(r, Outcome(file["backup"]))
              /\ \A w \in Saves : save[w].pc \in Copying /\ Valid(save[w].current) =>
                    save[w].current \notin load[r].stale

IInv ==
    /\ Typed /\ Alone /\ Safe /\ Copies /\ Hides /\ Numbered /\ Stands /\ Blocked
    /\ Freshness

-----------------------------------------------------------------------------
\* What a load makes of a file.
LEMMA Reading ==
    /\ Missing \notin Documents /\ Corrupt \notin Documents /\ Future \notin Documents
    /\ \A c \in Documents : c \in Contents /\ Valid(c) /\ Decides(c) /\ Outcome(c) = c
    /\ \A c \in Contents : /\ Outcome(c) \in Contents
                           /\ Decides(c) => Outcome(c) = c
                           /\ ~Decides(c) => Outcome(c) = Missing /\ c # Future
                           /\ Valid(c) => c \in Documents
    /\ ~Decides(Missing) /\ Missing \in Contents /\ Outcome(Missing) = Missing
  BY ModelStoreConstants DEF Contents, Valid, Decides, Outcome

\* Whatever a power loss leaves, a candidate is found.
LEMMA Found ==
    ASSUME Typed, Safe, NEW f,
           f["primary"] \in maybe["primary"], f["backup"] \in maybe["backup"]
    PROVE  Readable(f) \in candidates
<1>1. CASE Decides(f["primary"])
  BY <1>1 DEF Safe, Readable
<1>2. CASE ~Decides(f["primary"])
  BY <1>2 DEF Safe, Readable
<1> QED
  BY <1>1, <1>2

\* So is one found now.
LEMMA FoundNow == ASSUME Typed, Safe PROVE Readable(file) \in candidates
  BY Found DEF Typed, Names

\* The record of one save changes.
LEMMA OneSave ==
    ASSUME Typed, NEW w \in Saves, NEW s \in SaveStates, save' = [save EXCEPT ![w] = s]
    PROVE  /\ save' \in [Saves -> SaveStates]
           /\ \A v \in Saves : save'[v] = IF v = w THEN s ELSE save[v]
  BY DEF Typed

\* An idle save is well typed.
LEMMA IdleSave == Idle \in SaveStates /\ Idle.pc = "idle"
<1>1. 0 \in Documents
  BY ModelStoreConstants DEF Documents
<1> QED
  BY <1>1, Reading DEF Idle, SaveStates, SavePcs

\* A save that moves on keeps its document.
LEMMA Moves ==
    ASSUME Typed, NEW w \in Saves, NEW pc \in SavePcs, Go(w, pc)
    PROVE  /\ save' \in [Saves -> SaveStates]
           /\ save'[w].pc = pc /\ save'[w].doc = save[w].doc
           /\ save'[w].current = save[w].current
           /\ \A v \in Saves : v # w => save'[v] = save[v]
  BY DEF Typed, Go, SaveStates

-----------------------------------------------------------------------------
\* The initial states satisfy the invariant.
LEMMA InitIInv == Init => IInv
<1> SUFFICES ASSUME Init PROVE IInv
  OBVIOUS
<1>1. \A w \in Saves : save[w] = Idle
  BY DEF Init
<1>2. \A r \in Loads : load[r] = Rest
  BY DEF Init
<1>3. /\ file \in [Names -> Contents]
      /\ \A n \in Names : maybe[n] = {file[n]}
      /\ maybe \in [Names -> SUBSET Contents]
      /\ last \in Documents /\ last = 1
  <2>1. {0, 1, Missing, Corrupt, Future} \subseteq Contents
    BY ModelStoreConstants DEF Contents, Documents
  <2>2. file \in [Names -> {0, 1, Missing, Corrupt, Future}]
    BY DEF Init
  <2>3. \A n \in Names : file[n] \in Contents
    BY <2>1, <2>2
  <2>4. 1 \in Documents
    BY ModelStoreConstants DEF Documents
  <2> QED
    BY <2>2, <2>3, <2>4 DEF Init
<1>4. Readable(file) \in Contents
  BY <1>3, Reading DEF Readable, Names
<1>5. \A d \in Documents : d = Readable(file) => d <= 1
  BY ModelStoreConstants, Reading DEF Init, Readable, Outcome, Names, Documents
<1>6. Typed
  BY <1>3, <1>4, IdleSave, Reading, ModelStoreConstants DEF Init, Typed, LoadStates, Rest
<1>7. Alone /\ Numbered
  BY <1>1, <1>3, <1>5, IdleSave DEF Init, Alone, Numbered, Saving
<1>8. Safe
  BY <1>3 DEF Init, Safe, Readable, Outcome, Names
<1>9. Copies /\ Hides /\ Stands /\ Blocked
  BY <1>1, <1>3, IdleSave DEF Copies, Hides, Stands, Blocked, Copying
<1>10. Freshness
  BY <1>2 DEF Freshness, Rest
<1> QED
  BY <1>6, <1>7, <1>8, <1>9, <1>10 DEF IInv

-----------------------------------------------------------------------------
(* The steps that change no file *)

\* A new save numbers its document; what was a candidate is now to be superseded.
LEMMA BeginInv == ASSUME IInv, NEW w \in Saves, Begin(w) PROVE IInv'
<1> USE DEF IInv
<1>1. /\ last \in Int /\ last' = last + 1 /\ last' \in Documents
      /\ \A d \in Documents : d <= last => d <= last' /\ d # last'
      /\ 0..last \subseteq 0..last' /\ last' \notin 0..last /\ last' # Missing
  BY ModelStoreConstants, Reading DEF Begin, Typed, Documents
<1>2. PICK new \in SaveStates : /\ new.pc = "readPrimary" /\ new.doc = last'
                               /\ save' = [save EXCEPT ![w] = new]
  BY <1>1, IdleSave DEF Begin, SaveStates, SavePcs
<1>3. /\ save' \in [Saves -> SaveStates]
      /\ \A v \in Saves : save'[v] = IF v = w THEN new ELSE save[v]
  BY <1>2, OneSave
<1>4. Saving' = Saving \cup {w} /\ w \notin Saving
  BY <1>2, <1>3 DEF Begin, Saving
<1>5. /\ candidates' = candidates \cup {last'} /\ base' \in {candidates, base}
      /\ Saving = {} => base' = candidates
      /\ Saving # {} => base' = base
      /\ UNCHANGED <<windows, file, maybe, load, crashes>>
  BY DEF Begin, files
<1>6. last' \in Contents
  BY <1>1, Reading
<1>7. Typed'
  BY <1>1, <1>3, <1>5, <1>6 DEF Typed
<1>8. Alone'
  BY <1>4, <1>5 DEF Alone, Begin
<1>9. Safe'
  BY <1>5 DEF Safe, Decides, Outcome, Valid
<1>10. Copies' /\ Stands' /\ Blocked'
  BY <1>2, <1>3, <1>5 DEF Copies, Stands, Blocked, Copying, Decides, Valid, Outcome
<1>11. Hides'
  BY <1>2, <1>3, <1>4, <1>5 DEF Hides, Saving
<1>12. Numbered'
  <2>1. last' \notin candidates \cup base
    BY <1>1 DEF Numbered
  <2>2. \A v \in Saving : save'[v].doc = save[v].doc /\ save[v].doc \in candidates
                          /\ save[v].doc # last'
    BY <1>3, <1>4, <2>1 DEF Numbered, Saving
  <2>3. \A v \in Saving' : save'[v].doc \in candidates' \ base'
    BY <1>2, <1>3, <1>4, <1>5, <2>1, <2>2 DEF Numbered
  <2>4. \A u, v \in Saving' : save'[u].doc = save'[v].doc => u = v
    BY <1>2, <1>3, <1>4, <2>2 DEF Numbered, Saving
  <2>5. \A d \in Documents : d \in candidates' \cup base' => d <= last'
    BY <1>1, <1>5 DEF Numbered
  <2> QED
    BY <2>3, <2>4, <2>5 DEF Numbered
<1>13. Freshness'
  BY <1>1, <1>2, <1>3, <1>5 DEF Freshness, Fresh, Copying, Outcome, Decides, Valid
<1> QED
  BY <1>7, <1>8, <1>9, <1>10, <1>11, <1>12, <1>13

\* A save that ends without having changed anything more leaves the rest as it is.
LEMMA EndInv ==
    ASSUME IInv, NEW w \in Saves, save' = [save EXCEPT ![w] = Idle],
           UNCHANGED <<windows, files, load, last, crashes, history>>
    PROVE  IInv'
<1> USE DEF IInv, files, history
<1>1. /\ save' \in [Saves -> SaveStates]
      /\ \A v \in Saves : save'[v] = IF v = w THEN Idle ELSE save[v]
  BY IdleSave, OneSave
<1>2. Saving' = Saving \ {w}
  BY <1>1, IdleSave DEF Saving
<1>3. Typed' /\ Alone' /\ Safe' /\ Hides'
  BY <1>1, <1>2, IdleSave DEF Typed, Alone, Safe, Hides, Decides, Outcome, Valid
<1>4. Numbered'
  BY <1>1, <1>2 DEF Numbered
<1>5. Copies' /\ Stands' /\ Blocked'
  BY <1>1, IdleSave DEF Copies, Stands, Blocked, Copying, Decides, Valid, Outcome
<1>6. Freshness'
  BY <1>1, IdleSave DEF Freshness, Fresh, Copying, Outcome, Decides, Valid
<1> QED
  BY <1>3, <1>4, <1>5, <1>6

\* What the primary held may be found, or a load would not stop there.
LEMMA ReadPrimaryInv == ASSUME IInv, NEW w \in Saves, ReadPrimary(w) PROVE IInv'
<1> USE DEF IInv, files, history
<1>1. file["primary"] \in Contents /\ file["primary"] \in maybe["primary"]
  BY DEF Typed, Names
<1>2. PICK read \in SaveStates : /\ read.pc = "readBackup" /\ read.doc = save[w].doc
                                /\ read.current = file["primary"]
                                /\ save' = [save EXCEPT ![w] = read]
  <2> DEFINE s == [pc |-> "readBackup", doc |-> save[w].doc, current |-> file["primary"]]
  <2>1. s \in SaveStates
    BY <1>1 DEF Typed, SaveStates, SavePcs
  <2> QED
    BY <2>1 DEF ReadPrimary
<1>4. /\ save' \in [Saves -> SaveStates]
      /\ \A v \in Saves : save'[v] = IF v = w THEN read ELSE save[v]
  BY <1>2, OneSave
<1>5. Saving' = Saving /\ save[w].pc = "readPrimary"
  BY <1>2, <1>4 DEF ReadPrimary, Saving
<1>6. UNCHANGED <<windows, file, maybe, load, last, crashes, candidates, base>>
  BY DEF ReadPrimary
<1>7. Typed' /\ Alone' /\ Safe' /\ Hides' /\ Numbered'
  BY <1>2, <1>4, <1>5, <1>6 DEF Typed, Alone, Safe, Hides, Numbered, Decides, Outcome, Valid
<1>8. Valid(file["primary"]) => file["primary"] \in candidates
  BY <1>1 DEF Safe, Decides
<1>9. Copies' /\ Stands' /\ Blocked'
  BY <1>2, <1>4, <1>5, <1>6, <1>8 DEF Copies, Stands, Blocked, Copying, Decides, Valid, Outcome
<1>10. Freshness'
  BY <1>2, <1>4, <1>6, <1>8 DEF Freshness, Fresh, Copying, Outcome, Decides, Valid
<1> QED
  BY <1>7, <1>9, <1>10

\* What the backup may hold was checked: no newer schema, and Windows lets no other
\* save in.
LEMMA ReadBackupInv == ASSUME IInv, NEW w \in Saves, ReadBackup(w) PROVE IInv'
<1> USE DEF IInv, files, history
<1>1. CASE Forbidden(w)
  BY <1>1, EndInv DEF ReadBackup
<1>2. CASE ~Forbidden(w)
  <2>1. save[w].pc = "readBackup" /\ save[w].current # Future /\ file["backup"] # Future
    BY <1>2 DEF ReadBackup, Forbidden
  <2>2. PICK pc \in {"backup", "primary"} :
           Go(w, pc) /\ (pc = "backup" <=> Valid(save[w].current))
    BY <1>2 DEF ReadBackup, Accepted
  <2>3. /\ save' \in [Saves -> SaveStates]
        /\ save'[w].pc = pc /\ save'[w].doc = save[w].doc
        /\ save'[w].current = save[w].current
        /\ \A v \in Saves : v # w => save'[v] = save[v]
    BY <2>2, Moves DEF SavePcs
  <2>4. Saving' = Saving
    BY <2>1, <2>3 DEF Saving
  <2>5. UNCHANGED <<windows, file, maybe, load, last, crashes, candidates, base>>
    BY DEF ReadBackup
  <2>6. Typed' /\ Alone' /\ Safe' /\ Hides' /\ Numbered'
    <3>1. Typed'
      BY <2>3, <2>5 DEF Typed
    <3>2. Alone' /\ Safe'
      BY <2>4, <2>5 DEF Alone, Safe, Decides, Outcome, Valid
    <3>3. Hides'
      BY <2>3, <2>5 DEF Hides
    <3>4. \A v \in Saves : save'[v].doc = save[v].doc
      BY <2>3
    <3>5. Numbered'
      BY <2>4, <2>5, <3>4 DEF Numbered, Saving
    <3> QED
      BY <3>1, <3>2, <3>3, <3>5
  <2>7. Copies'
    BY <2>1, <2>2, <2>3, <2>5 DEF Copies, Copying, Valid, Decides
  <2>8. Stands'
    <3> SUFFICES ASSUME windows PROVE Stands'
      BY <2>5 DEF Stands
    <3>1. save[w].current = file["primary"] /\ file["primary"] \in maybe["primary"]
          /\ file["backup"] \in maybe["backup"]
      BY <2>1 DEF Stands, Copying, Typed, Names
    <3>2. pc = "primary" => Outcome(file["backup"]) \in candidates
      BY <2>1, <2>2, <3>1 DEF Safe, Decides
    <3> QED
      BY <2>1, <2>3, <2>5, <3>1, <3>2 DEF Stands, Copying, Outcome, Decides, Valid
  <2>9. Blocked'
    BY <2>1, <2>3, <2>5 DEF Blocked, Names
  <2>10. Freshness'
    BY <2>1, <2>3, <2>5 DEF Freshness, Fresh, Copying, Outcome, Decides, Valid
  <2> QED
    BY <2>6, <2>7, <2>8, <2>9, <2>10
<1> QED
  BY <1>1, <1>2

-----------------------------------------------------------------------------
(* The steps that change a file *)

\* One name is replaced; on Unix the machine may still forget that.
LEMMA Puts ==
    ASSUME Typed, NEW n \in Names, NEW c \in Contents, Put(n, c)
    PROVE  /\ file' \in [Names -> Contents] /\ maybe' \in [Names -> SUBSET Contents]
           /\ file'[n] = c
           /\ maybe'[n] = IF windows THEN {c} ELSE maybe[n] \cup {c}
           /\ \A m \in Names : m # n => file'[m] = file[m] /\ maybe'[m] = maybe[m]
           /\ \A m \in Names : file'[m] \in maybe'[m]
  BY DEF Typed, Put

\* The parts of the invariant that do not depend on which file is replaced: a save
\* past its reads replaces one by what is no newer schema, and moves on.
LEMMA PutInv ==
    ASSUME IInv, NEW w \in Saves, NEW n \in Names, NEW c \in Contents, NEW pc \in SavePcs,
           save[w].pc \in {"backup", "renameBackup", "primary", "renamePrimary"},
           pc \in {"renameBackup", "primary", "renamePrimary", "sync"},
           c # Future, Put(n, c), Go(w, pc),
           UNCHANGED <<windows, load, last, crashes, history>>
    PROVE  Typed' /\ Alone' /\ Numbered' /\ Blocked'
<1> USE DEF IInv, history
<1>1. /\ save' \in [Saves -> SaveStates]
      /\ save'[w].pc = pc
      /\ \A v \in Saves : save'[v].doc = save[v].doc
      /\ \A v \in Saves : v # w => save'[v] = save[v]
  BY Moves
<1>2. Saving' = Saving
  BY <1>1 DEF Saving
<1>3. Typed'
  BY <1>1, Puts DEF Typed
<1>4. Alone'
  <2> SUFFICES ASSUME windows PROVE Alone'
    BY DEF Alone
  <2>1. \A m \in Names : maybe'[m] = {file'[m]}
    BY Puts DEF Alone
  <2> QED
    BY <1>2, <2>1 DEF Alone
<1>5. Numbered'
  BY <1>1, <1>2 DEF Numbered, Saving
<1>6. Blocked'
  <2>1. \A m \in Names : file[m] # Future
    BY DEF Blocked
  <2>2. \A m \in Names : file'[m] # Future
    BY <2>1, Puts
  <2> QED
    BY <2>2 DEF Blocked
<1> QED
  BY <1>3, <1>4, <1>5, <1>6

\* Windows: a name is removed only while the other one answers for it.
LEMMA RemoveInv == ASSUME IInv, NEW w \in Saves, NEW n \in Names, Remove(w, n) PROVE IInv'
<1> USE DEF IInv, history
<1>1. /\ windows /\ save[w].pc = n /\ Put(n, Missing)
      /\ UNCHANGED <<windows, load, last, crashes, candidates, base>>
  BY DEF Remove, RemovesFirst
<1>2. PICK pc \in {"renameBackup", "renamePrimary"} :
         Go(w, pc) /\ (pc = "renameBackup" <=> n = "backup")
  BY DEF Remove, Names
<1>3. Missing \in Contents /\ Missing # Future /\ ~Decides(Missing) /\ Outcome(Missing) = Missing
  BY Reading, ModelStoreConstants
<1>4. Typed' /\ Alone' /\ Numbered' /\ Blocked'
  BY <1>1, <1>2, <1>3, PutInv DEF Names, SavePcs
<1>5. /\ \A m \in Names : maybe[m] = {file[m]} /\ maybe'[m] = {file'[m]}
      /\ file'[n] = Missing /\ \A m \in Names : m # n => file'[m] = file[m]
  BY <1>1, <1>3, <1>4, Puts DEF Alone
<1>6. /\ save'[w].pc = pc /\ save'[w].current = save[w].current
      /\ \A v \in Saves : v # w => save'[v] = save[v] /\ save[v].pc = "idle"
  BY <1>1, <1>2, Moves DEF SavePcs, Alone, Saving, Names
<1>7. Safe'
  <2>1. CASE n = "backup"
    <3>1. Decides(file["primary"]) /\ file["primary"] \in candidates
      BY <1>1, <1>5, <2>1 DEF Stands, Copies, Copying, Safe, Names, Decides
    <3> QED
      BY <1>1, <1>5, <2>1, <3>1 DEF Safe, Names, Decides, Valid
  <2>2. CASE n = "primary"
    <3>1. Outcome(file["backup"]) \in candidates
      BY <1>1, <2>2 DEF Stands
    <3> QED
      BY <1>1, <1>3, <1>5, <2>2, <3>1 DEF Safe, Names, Outcome, Decides, Valid
  <2> QED
    BY <2>1, <2>2 DEF Names
<1>8. Copies'
  <2>1. CASE n = "backup"
    BY <1>1, <1>2, <1>5, <1>6, <2>1 DEF Copies, Copying, Names, Decides, Valid
  <2>2. CASE n = "primary"
    BY <1>2, <1>6, <2>2 DEF Copies, Copying
  <2> QED
    BY <2>1, <2>2 DEF Names
<1>9. Hides'
  BY <1>6, <1>2 DEF Hides
<1>10. Stands'
  BY <1>1, <1>2, <1>5, <1>6 DEF Stands, Copying, Names
<1>11. Freshness'
  BY <1>1, <1>2, <1>3, <1>5, <1>6 DEF Freshness, Fresh, Copying, Names, Outcome, Decides, Valid
<1> QED
  BY <1>4, <1>7, <1>8, <1>9, <1>10, <1>11

\* The copy of the primary may be found, and is not stale to any load under way.
LEMMA RenameBackupInv == ASSUME IInv, NEW w \in Saves, Rename(w, "backup") PROVE IInv'
<1> USE DEF IInv, history
<1> DEFINE c == save[w].current
<1>1. /\ save[w].pc \in {"backup", "renameBackup"} /\ Put("backup", c) /\ Go(w, "primary")
      /\ UNCHANGED <<windows, load, last, crashes, candidates, base>>
  BY DEF Rename
<1>2. /\ Valid(c) /\ Decides(c) /\ Outcome(c) = c /\ c \in Contents /\ c # Future
      /\ c \in candidates \/ \A p \in maybe["primary"] : Decides(p)
  BY <1>1, Reading DEF Copies, Copying, Valid
<1>3. Typed' /\ Alone' /\ Numbered' /\ Blocked'
  BY <1>1, <1>2, PutInv DEF Names, SavePcs
<1>4. /\ file'["backup"] = c /\ file'["primary"] = file["primary"]
      /\ maybe'["primary"] = maybe["primary"]
      /\ \A b \in maybe'["backup"] : b \in maybe["backup"] \/ b = c
  BY <1>1, <1>2, Puts DEF Names
<1>5. /\ save'[w].pc = "primary"
      /\ \A v \in Saves : v # w => save'[v] = save[v]
  BY <1>1, Moves DEF SavePcs
<1>6. Safe'
  BY <1>1, <1>2, <1>4 DEF Safe, Decides, Valid, Outcome
<1>7. Copies'
  BY <1>1, <1>4, <1>5 DEF Copies, Copying, Decides, Valid
<1>8. Hides'
  BY <1>1, <1>4, <1>5 DEF Hides
<1>9. Stands'
  <2> SUFFICES ASSUME windows PROVE Stands'
    BY <1>1 DEF Stands
  <2>1. c = file["primary"] /\ file["primary"] \in maybe["primary"]
    BY <1>1 DEF Stands, Copying, Typed, Names
  <2>2. Outcome(file'["backup"]) \in candidates'
    BY <1>1, <1>2, <1>4, <2>1 DEF Safe
  <2>3. \A v \in Saves : v # w => save[v].pc = "idle"
    BY <1>1 DEF Alone, Saving
  <2> QED
    BY <1>4, <1>5, <2>2, <2>3 DEF Stands, Copying, Outcome, Decides, Valid
<1>10. Freshness'
  BY <1>1, <1>2, <1>4, <1>5 DEF Freshness, Fresh, Copying, Outcome, Decides, Valid
<1> QED
  BY <1>3, <1>6, <1>7, <1>8, <1>9, <1>10

\* The new document may be found from now on, and supersedes what was there before.
LEMMA RenamePrimaryInv == ASSUME IInv, NEW w \in Saves, Rename(w, "primary") PROVE IInv'
<1> USE DEF IInv, history
<1> DEFINE d == save[w].doc
<1>1. /\ save[w].pc \in {"primary", "renamePrimary"} /\ Put("primary", d) /\ Go(w, "sync")
      /\ UNCHANGED <<windows, load, last, crashes, candidates, base>>
  BY DEF Rename
<1>2. /\ d \in Documents /\ Decides(d) /\ d \in Contents /\ d # Future
      /\ d \in candidates /\ d \notin base
  BY <1>1, Reading DEF Numbered, Saving, Typed, SaveStates
<1>3. Typed' /\ Alone' /\ Numbered' /\ Blocked'
  BY <1>1, <1>2, PutInv DEF Names, SavePcs
<1>4. /\ file'["primary"] = d /\ file'["backup"] = file["backup"]
      /\ maybe'["backup"] = maybe["backup"]
      /\ \A p \in maybe'["primary"] : p \in maybe["primary"] \/ p = d
  BY <1>1, <1>2, Puts DEF Names
<1>5. /\ save'[w].pc = "sync"
      /\ \A v \in Saves : v # w => save'[v] = save[v]
  BY <1>1, Moves DEF SavePcs
<1>6. Safe'
  BY <1>1, <1>2, <1>4 DEF Safe, Decides, Valid, Outcome
<1>7. Copies'
  BY <1>1, <1>2, <1>4, <1>5 DEF Copies, Copying, Decides, Valid
<1>8. Hides'
  BY <1>1, <1>2, <1>4, <1>5 DEF Hides
<1>9. Stands'
  <2> SUFFICES ASSUME windows PROVE Stands'
    BY <1>1 DEF Stands
  <2>1. \A v \in Saves : v # w => save[v].pc = "idle"
    BY <1>1 DEF Alone, Saving
  <2> QED
    BY <1>5, <2>1 DEF Stands, Copying
<1>10. Freshness'
  BY <1>1, <1>4, <1>5 DEF Freshness, Fresh, Copying, Outcome, Decides, Valid
<1> QED
  BY <1>3, <1>6, <1>7, <1>8, <1>9, <1>10

-----------------------------------------------------------------------------
(* Acknowledgements, loads and crashes *)

\* What a synced save found in the primary is what remains to be found.
LEMMA Acknowledgement ==
    ASSUME IInv, NEW w \in Saves, Sync(w)
    PROVE  /\ file["primary"] \in Documents /\ Readable(file) = file["primary"]
           /\ Decides(file["primary"]) /\ file["primary"] \notin base
           /\ maybe' = [n \in Names |-> {file[n]}]
           /\ candidates' \subseteq candidates /\ file["primary"] \in candidates'
           /\ Saving # {w} => candidates' = candidates \ base
           /\ UNCHANGED <<windows, file, load, last, crashes, base>>
           /\ save' = [save EXCEPT ![w] = Idle]
<1> USE DEF IInv
<1>1. file["primary"] \in Documents \ base /\ file["primary"] \in maybe["primary"]
  BY DEF Sync, Hides, Typed, Names
<1>2. Readable(file) = file["primary"] /\ Decides(file["primary"])
  BY <1>1, Reading DEF Readable
<1>3. file["primary"] \in candidates
  BY <1>1, <1>2 DEF Safe
<1> QED
  BY <1>1, <1>2, <1>3 DEF Sync, Acknowledged

\* Afterwards the files on disk are the ones seen, and older documents are gone.
LEMMA SyncInv == ASSUME IInv, NEW w \in Saves, Sync(w) PROVE IInv'
<1> USE DEF IInv
<1>1. /\ save' \in [Saves -> SaveStates]
      /\ \A v \in Saves : save'[v] = IF v = w THEN Idle ELSE save[v]
  BY IdleSave, OneSave, Acknowledgement
<1>2. Saving' = Saving \ {w}
  BY <1>1, IdleSave DEF Saving
<1>3. /\ \A n \in Names : file'[n] = file[n] /\ maybe'[n] = {file[n]}
      /\ maybe' \in [Names -> SUBSET Contents]
  BY Acknowledgement DEF Typed
<1>4. Typed' /\ Alone'
  BY <1>1, <1>2, <1>3, Acknowledgement DEF Typed, Alone
<1>5. \A c \in maybe'["primary"] : Decides(c) /\ c \in candidates'
  BY <1>3, Acknowledgement DEF Names
<1>6. Safe' /\ Copies'
  BY <1>1, <1>5, IdleSave DEF Safe, Copies, Copying, Decides, Valid, Outcome
<1>7. Hides'
  BY <1>1, IdleSave, Acknowledgement DEF Hides
<1>8. Numbered'
  <2>1. \A v \in Saving' : save'[v].doc \in candidates' \ base'
    BY <1>1, <1>2, Acknowledgement DEF Numbered, Saving
  <2> QED
    BY <1>1, <1>2, <2>1, Acknowledgement DEF Numbered, Saving
<1>9. Stands'
  <2> SUFFICES ASSUME windows PROVE Stands'
    BY Acknowledgement DEF Stands
  <2>1. \A v \in Saves : save'[v].pc = "idle"
    BY <1>1, IdleSave DEF Alone, Saving, Sync
  <2> QED
    BY <2>1 DEF Stands, Copying
<1>10. Blocked'
  BY <1>1, <1>3, IdleSave, Acknowledgement DEF Blocked
<1>11. Freshness'
  BY <1>1, IdleSave, Acknowledgement DEF Freshness, Fresh, Copying, Outcome, Decides, Valid
<1> QED
  BY <1>4, <1>6, <1>7, <1>8, <1>9, <1>10, <1>11

\* A load disturbs nothing but itself.
LEMMA LoadInv ==
    ASSUME IInv, load' \in [Loads -> LoadStates], Freshness',
           UNCHANGED <<windows, files, save, last, crashes, history>>
    PROVE  IInv'
<1> USE DEF IInv, files, history
<1>1. Typed' /\ Alone' /\ Safe' /\ Copies' /\ Hides'
  BY DEF Typed, Alone, Safe, Copies, Copying, Hides, Decides, Outcome, Valid, Saving
<1>2. Numbered' /\ Stands' /\ Blocked'
  BY DEF Numbered, Stands, Blocked, Copying, Decides, Outcome, Valid, Saving
<1> QED
  BY <1>1, <1>2

\* A load that goes on to the backup finds a candidate there, whatever is copied to it.
LEMMA LoadPrimaryInv == ASSUME IInv, NEW r \in Loads, LoadPrimary(r) PROVE IInv'
<1> USE DEF IInv, files, history
<1>1. PICK s : /\ s = [stale |-> {c \in 0..last : c \notin candidates}
                                    \cup (IF Missing \in candidates THEN {} ELSE {Missing}),
                       pc |-> IF Decides(file["primary"]) THEN "done" ELSE "backup",
                       result |-> Outcome(file["primary"])]
               /\ load' = [load EXCEPT ![r] = s]
  BY DEF LoadPrimary
<1>2. /\ file["primary"] \in Contents /\ file["primary"] \in maybe["primary"]
      /\ file["backup"] \in maybe["backup"] /\ last \in Documents
  BY DEF Typed, Names
<1>3. 0..last \subseteq Contents
  BY <1>2, ModelStoreConstants DEF Documents, Contents
<1>4. /\ s.stale \subseteq (0..last) \cup {Missing} /\ s.stale \cap candidates = {}
      /\ s.pc \in {"backup", "done"} /\ s.result = Outcome(file["primary"])
      /\ s.pc = "done" <=> Decides(file["primary"])
  BY <1>1
<1>5. s \in LoadStates
  BY <1>1, <1>2, <1>3, Reading DEF LoadStates
<1>6. /\ load' \in [Loads -> LoadStates]
      /\ \A q \in Loads : load'[q] = IF q = r THEN s ELSE load[q]
  BY <1>1, <1>5 DEF Typed
<1>7. UNCHANGED <<windows, file, maybe, save, last, candidates>>
  BY DEF LoadPrimary
<1>8. s.pc = "done" => s.result \notin s.stale
  BY <1>2, <1>4, Reading DEF Safe
<1>9. s.pc = "backup" =>
         /\ Outcome(file["backup"]) \notin s.stale
         /\ \A w \in Saves : save[w].pc \in Copying /\ Valid(save[w].current) =>
               save[w].current \notin s.stale
  BY <1>2, <1>4 DEF Safe, Copies
<1>10. Freshness'
  BY <1>4, <1>6, <1>7, <1>8, <1>9 DEF Freshness, Fresh, Copying, Outcome, Decides, Valid
<1> QED
  BY <1>6, <1>10, LoadInv DEF LoadPrimary

\* The backup, read last, is not stale either.
LEMMA LoadBackupInv == ASSUME IInv, NEW r \in Loads, LoadBackup(r) PROVE IInv'
<1> USE DEF IInv, files, history
<1>1. PICK s : /\ s = [pc |-> "done", stale |-> load[r].stale,
                       result |-> Outcome(file["backup"])]
               /\ load' = [load EXCEPT ![r] = s]
  BY DEF LoadBackup
<1>2. file["backup"] \in Contents /\ load[r] \in LoadStates
  BY DEF Typed, Names
<1>3. s \in LoadStates
  BY <1>1, <1>2, Reading DEF LoadStates
<1>4. /\ load' \in [Loads -> LoadStates]
      /\ \A q \in Loads : load'[q] = IF q = r THEN s ELSE load[q]
  BY <1>1, <1>3 DEF Typed
<1>5. /\ load[r].pc = "backup" /\ s.pc = "done" /\ s.stale = load[r].stale
      /\ s.result = Outcome(file["backup"])
      /\ UNCHANGED <<windows, file, maybe, save, last, candidates>>
  BY <1>1 DEF LoadBackup
<1>6. Freshness'
  BY <1>4, <1>5 DEF Freshness, Fresh, Copying, Outcome, Decides, Valid
<1> QED
  BY <1>4, <1>6, LoadInv DEF LoadBackup

\* A load that is over is forgotten.
LEMMA LoadedInv == ASSUME IInv, NEW r \in Loads, Loaded(r) PROVE IInv'
<1> USE DEF IInv, files, history
<1>1. Rest \in LoadStates /\ Rest.pc = "idle"
  BY Reading DEF Rest, LoadStates
<1>2. /\ load' \in [Loads -> LoadStates]
      /\ \A q \in Loads : load'[q] = IF q = r THEN Rest ELSE load[q]
  BY <1>1 DEF Typed, Loaded
<1>3. Freshness'
  BY <1>1, <1>2 DEF Loaded, Freshness, Fresh, Copying, Outcome, Decides, Valid
<1> QED
  BY <1>2, <1>3, LoadInv DEF Loaded

\* After a crash nothing is under way, and what the disk kept may be found.
LEMMA CrashInv == ASSUME IInv, Crash PROVE IInv'
<1> USE DEF IInv, files, history
<1>1. /\ save' = [w \in Saves |-> Idle] /\ load' = [r \in Loads |-> Rest]
      /\ crashes' \in 0..MaxCrashes
      /\ UNCHANGED <<windows, last, candidates, base>>
  BY ModelStoreConstants DEF Crash, Typed
<1>2. /\ file' \in [Names -> Contents] /\ maybe' \in [Names -> SUBSET Contents]
      /\ \A n \in Names : file'[n] \in maybe'[n] /\ maybe'[n] \subseteq maybe[n]
      /\ windows => \A n \in Names : maybe'[n] = {file'[n]}
      /\ \A n \in Names : file'[n] = Future => maybe'[n] = {Future}
  <2>1. CASE UNCHANGED files
    BY <2>1 DEF Typed, Alone, Blocked
  <2>2. CASE /\ file' \in {f \in [Names -> Contents] : \A n \in Names : f[n] \in maybe[n]}
             /\ maybe' = [n \in Names |-> {file'[n]}]
    BY <2>2
  <2> QED
    BY <2>1, <2>2 DEF Crash
<1>3. Rest \in LoadStates /\ Rest.pc = "idle"
  BY Reading DEF Rest, LoadStates
<1>4. Saving' = {}
  BY <1>1, IdleSave DEF Saving
<1>5. Typed' /\ Alone'
  BY <1>1, <1>2, <1>3, <1>4, IdleSave DEF Typed, Alone
<1>6. Safe'
  BY <1>1, <1>2 DEF Safe, Names, Decides, Outcome, Valid
<1>7. Copies' /\ Hides' /\ Stands' /\ Blocked'
  BY <1>1, <1>2, IdleSave DEF Copies, Hides, Stands, Blocked, Copying
<1>8. Numbered'
  BY <1>1, <1>4, IdleSave DEF Numbered, Saving, Idle
<1>9. Freshness'
  BY <1>1, <1>3 DEF Freshness
<1> QED
  BY <1>5, <1>6, <1>7, <1>8, <1>9

\* Every step preserves the invariant.
LEMMA NextIInv == IInv /\ [Next]_vars => IInv'
<1> SUFFICES ASSUME IInv, [Next]_vars PROVE IInv'
  OBVIOUS
<1>1. CASE Crash
  BY <1>1, CrashInv
<1>2. ASSUME NEW w \in Saves, Begin(w) PROVE IInv'
  BY <1>2, BeginInv
<1>3. ASSUME NEW w \in Saves, Fail(w) PROVE IInv'
  BY <1>3, EndInv DEF Fail
<1>4. ASSUME NEW w \in Saves, ReadPrimary(w) PROVE IInv'
  BY <1>4, ReadPrimaryInv
<1>5. ASSUME NEW w \in Saves, ReadBackup(w) PROVE IInv'
  BY <1>5, ReadBackupInv
<1>6. ASSUME NEW w \in Saves, Sync(w) PROVE IInv'
  BY <1>6, SyncInv
<1>7. ASSUME NEW w \in Saves, NEW n \in Names, Remove(w, n) PROVE IInv'
  BY <1>7, RemoveInv
<1>8. ASSUME NEW w \in Saves, NEW n \in Names, Rename(w, n) PROVE IInv'
  BY <1>8, RenameBackupInv, RenamePrimaryInv DEF Names
<1>9. ASSUME NEW r \in Loads, LoadPrimary(r) \/ LoadBackup(r) \/ Loaded(r) PROVE IInv'
  BY <1>9, LoadPrimaryInv, LoadBackupInv, LoadedInv
<1>10. CASE UNCHANGED vars
  <2> USE <1>10 DEF IInv, vars, files, history
  <2>1. Freshness' /\ load' \in [Loads -> LoadStates]
    BY DEF Freshness, Fresh, Copying, Outcome, Decides, Valid, Typed
  <2> QED
    BY <2>1, LoadInv
<1> QED
  BY <1>1, <1>2, <1>3, <1>4, <1>5, <1>6, <1>7, <1>8, <1>9, <1>10 DEF Next

(***************************************************************************)
(* Theorems                                                                *)
(***************************************************************************)

\* The invariant holds in every reachable state.
THEOREM Invariance == Spec => []IInv
  BY InitIInv, NextIInv, PTL DEF Spec

\* Files, saves and loads keep their types, and only a document that validated is on its
\* way into the backup (writeModelCacheAtomic).
THEOREM TypeCorrect == Spec => []TypeOK
<1>1. IInv => TypeOK
  BY DEF IInv, Typed, TypeOK, SaveStates, SavePcs, LoadStates, Copies, Copying
<1> QED
  BY <1>1, Invariance, PTL

\* A load never returns a document that was superseded before it began, and on Unix never
\* misses one, however many saves and crashes it meets (loadModelCache).
THEOREM FreshTheorem == Spec => []LoadsFresh
<1>1. IInv => LoadsFresh
  BY DEF IInv, Freshness, Fresh, LoadsFresh
<1> QED
  BY <1>1, Invariance, PTL

\* Only a validated document is on its way into the backup, and only a current one is
\* handed out (writeModelCacheAtomic, loadModelCache).
THEOREM DocumentsTheorem == Spec => []DocumentsSound
  BY TypeCorrect, FreshTheorem, PTL DEF DocumentsSound

\* What a step does to a file that has a newer schema: nothing.
LEMMA FutureStep ==
    ASSUME IInv, [Next]_vars, NEW n \in Names, file[n] = Future PROVE file'[n] = Future
<1> USE DEF IInv
<1>1. maybe[n] = {Future}
      /\ \A w \in Saves : save[w].pc \in {"idle", "readPrimary", "readBackup"}
  BY DEF Blocked
<1>2. CASE Crash
  BY <1>1, <1>2 DEF Crash, files
<1>3. ASSUME NEW w \in Saves, NEW m \in Names, Remove(w, m) \/ Rename(w, m)
      PROVE  FALSE
  BY <1>1, <1>3 DEF Remove, Rename, Names
<1>4. CASE UNCHANGED file
  BY <1>4
<1> QED
  BY <1>2, <1>3, <1>4 DEF Next, vars, files, Begin, Fail, ReadPrimary, ReadBackup, Sync,
     Acknowledged, LoadPrimary, LoadBackup, Loaded

\* A file of a newer schema is never replaced or removed, whatever the other file holds
\* and however many saves are tried (errFutureModelCacheSchema).
THEOREM FutureTheorem == Spec => FutureUntouched
<1>1. IInv /\ [Next]_vars => [\A n \in Names : file[n] = Future => file'[n] = Future]_vars
  BY FutureStep
<1> QED
  BY <1>1, Invariance, PTL DEF Spec, FutureUntouched

(***************************************************************************)
(* The refinement: what each step is for the one document                  *)
(***************************************************************************)

Value == Readable(file)
Docs == {save[w].doc : w \in Saving}

\* What is found is a candidate.
LEMMA ValueFound == IInv => Value \in candidates
  BY FoundNow DEF IInv, Value

\* The document under way is that of one save only.
LEMMA EndOfSave ==
    ASSUME IInv, NEW w \in Saving, save' = [save EXCEPT ![w] = Idle]
    PROVE  /\ save[w].doc \in Documents /\ save[w].doc \in Docs
           /\ Docs' = Docs \ {save[w].doc}
           /\ Docs = {save[w].doc} <=> Saving = {w}
<1> USE DEF IInv
<1>1. /\ w \in Saves /\ save[w] \in SaveStates
      /\ \A v \in Saves : save'[v] = IF v = w THEN Idle ELSE save[v]
  BY IdleSave, OneSave DEF Saving, Typed
<1>2. Saving' = Saving \ {w}
  BY <1>1, IdleSave DEF Saving
<1>3. \A v \in Saving : save[v].doc = save[w].doc => v = w
  BY DEF Numbered
<1>4. Docs' = {save'[v].doc : v \in Saving \ {w}}
  BY <1>2 DEF Docs
<1>5. \A v \in Saving \ {w} : save'[v].doc = save[v].doc
  BY <1>1 DEF Saving
<1>6. Docs' = {save[v].doc : v \in Saving \ {w}}
  BY <1>4, <1>5
<1>7. Docs' = Docs \ {save[w].doc}
  BY <1>3, <1>6 DEF Docs
<1>8. Docs = {save[w].doc} <=> Saving = {w}
  BY <1>3 DEF Docs
<1> QED
  BY <1>1, <1>7, <1>8 DEF Docs, SaveStates

\* A save that moves on is still under way, with the same document.
LEMMA OnTheWay ==
    ASSUME Typed, NEW w \in Saving, save' \in [Saves -> SaveStates],
           save'[w].pc # "idle", save'[w].doc = save[w].doc,
           \A v \in Saves : v # w => save'[v] = save[v]
    PROVE  Docs' = Docs /\ Docs # {}
<1>1. Saving' = Saving
  BY DEF Saving
<1>2. \A v \in Saving : save'[v].doc = save[v].doc
  BY DEF Saving
<1> QED
  BY <1>1, <1>2 DEF Docs

\* What the store promises of each step.
Promise ==
    \/ /\ \E d \in Documents :
             /\ d \notin candidates /\ Docs' = Docs \cup {d}
             /\ candidates' = candidates \cup {d}
             /\ base' = IF Docs = {} THEN candidates ELSE base
       /\ Value' = Value
    \/ Docs # {} /\ Value' \in candidates /\ UNCHANGED <<candidates, base>> /\ Docs' = Docs
    \/ /\ \E d \in Documents :
             /\ d \in Docs /\ Value \notin base /\ Docs' = Docs \ {d}
             /\ candidates' = IF Docs = {d} THEN {Value} ELSE candidates \ base
       /\ Value' = Value /\ base' = base
    \/ /\ \E d \in Documents : d \in Docs /\ Docs' = Docs \ {d}
       /\ Value' = Value /\ UNCHANGED <<candidates, base>>
    \/ Docs' = {} /\ Value' \in candidates /\ UNCHANGED <<candidates, base>>
    \/ Value' = Value /\ Docs' = Docs /\ UNCHANGED <<candidates, base>>

\* Every step of the saves keeps the promise.
LEMMA SaveKeeps ==
    ASSUME IInv, IInv', NEW w \in Saves,
           \/ Begin(w) \/ Fail(w) \/ ReadPrimary(w) \/ ReadBackup(w) \/ Sync(w)
           \/ \E n \in Names : Remove(w, n) \/ Rename(w, n)
    PROVE  Promise
<1>0. (Value \in candidates)'
  BY ValueFound, PTL
<1> USE DEF IInv
<1>1. CASE Begin(w)
  <2>1. PICK new \in SaveStates : /\ new.pc = "readPrimary" /\ new.doc = last'
                                 /\ save' = [save EXCEPT ![w] = new]
    BY <1>1, IdleSave DEF Begin, Typed, SaveStates, SavePcs
  <2>2. \A v \in Saves : save'[v] = IF v = w THEN new ELSE save[v]
    BY <2>1, OneSave
  <2>3. Saving' = Saving \cup {w} /\ w \notin Saving
    BY <1>1, <2>1, <2>2 DEF Begin, Saving
  <2>4. Docs' = {save'[v].doc : v \in Saving \cup {w}}
    BY <2>3 DEF Docs
  <2>5. \A v \in Saving : save'[v].doc = save[v].doc
    BY <2>2, <2>3 DEF Saving
  <2>6. Docs' = Docs \cup {last'}
    BY <2>1, <2>2, <2>4, <2>5 DEF Docs
  <2>7. Docs = {} <=> Saving = {}
    BY DEF Docs
  <2>8. last' \in Documents /\ last' \notin candidates
    BY <1>1, ModelStoreConstants DEF Begin, Typed, Numbered, Documents
  <2>9. Value' = Value
    BY <1>1 DEF Begin, files, Value, Readable, Outcome, Decides, Valid
  <2> QED
    BY <1>1, <2>6, <2>7, <2>8, <2>9 DEF Begin, Promise
<1>2. ASSUME save[w].pc # "idle", save' = [save EXCEPT ![w] = Idle],
             UNCHANGED <<files, history>>
      PROVE  Promise
  <2>1. w \in Saving
    BY <1>2 DEF Saving
  <2>2. Value' = Value
    BY <1>2 DEF files, Value, Readable, Outcome, Decides, Valid
  <2> QED
    BY <1>2, <2>1, <2>2, EndOfSave DEF Promise, history
<1>3. CASE Fail(w)
  BY <1>2, <1>3 DEF Fail
<1>4. ASSUME w \in Saving, NEW pc \in SavePcs \ {"idle"}, Go(w, pc), UNCHANGED history
      PROVE  Promise
  <2>1. Docs' = Docs /\ Docs # {}
    BY <1>4, Moves, OnTheWay
  <2> QED
    BY <1>0, <1>4, <2>1 DEF Promise, history
<1>5. CASE ReadPrimary(w)
  <2>1. /\ save[w] \in SaveStates /\ save[w].pc = "readPrimary" /\ w \in Saving
        /\ save' \in [Saves -> SaveStates]
    BY <1>5 DEF ReadPrimary, Typed, Saving
  <2>2. /\ save'[w].pc = "readBackup" /\ save'[w].doc = save[w].doc
        /\ \A v \in Saves : v # w => save'[v] = save[v]
    BY <1>5 DEF ReadPrimary, Typed
  <2>3. Docs' = Docs
    BY <2>1, <2>2, OnTheWay
  <2>4. Value' = Value
    BY <1>5 DEF ReadPrimary, files, Value, Readable, Outcome, Decides, Valid
  <2> QED
    BY <1>5, <2>3, <2>4 DEF ReadPrimary, history, Promise
<1>6. CASE ReadBackup(w)
  <2>1. CASE Forbidden(w)
    BY <1>2, <1>6, <2>1 DEF ReadBackup
  <2>2. CASE ~Forbidden(w)
    BY <1>4, <1>6, <2>2 DEF ReadBackup, Saving, SavePcs
  <2> QED
    BY <2>1, <2>2
<1>7. ASSUME NEW n \in Names, Remove(w, n) \/ Rename(w, n) PROVE Promise
  <2>1. w \in Saving
    BY <1>7 DEF Remove, Rename, Saving, Names
  <2>2. \E pc \in SavePcs \ {"idle"} : Go(w, pc)
    BY <1>7 DEF Remove, Rename, SavePcs
  <2> QED
    BY <1>4, <1>7, <2>1, <2>2 DEF Remove, Rename
<1>8. CASE Sync(w)
  <2>1. w \in Saving
    BY <1>8 DEF Sync, Saving
  <2>2. Value \notin base /\ Value' = Value /\ base' = base
    BY <1>8, Acknowledgement DEF Value, Readable, Outcome, Decides, Valid
  <2>3. candidates' = IF Saving = {w} THEN {Value} ELSE candidates \ base
    BY <1>8 DEF Sync, Acknowledged, Value
  <2>4. save' = [save EXCEPT ![w] = Idle]
    BY <1>8, Acknowledgement
  <2> QED
    BY <2>1, <2>2, <2>3, <2>4, EndOfSave DEF Promise
<1> QED
  BY <1>1, <1>3, <1>5, <1>6, <1>7, <1>8

\* So do loads and crashes.
LEMMA OthersKeep ==
    ASSUME IInv, IInv',
           \/ Crash \/ UNCHANGED vars
           \/ \E r \in Loads : LoadPrimary(r) \/ LoadBackup(r) \/ Loaded(r)
    PROVE  Promise
<1>0. (Value \in candidates)'
  BY ValueFound, PTL
<1>1. CASE Crash
  <2>1. save' = [w \in Saves |-> Idle]
    BY <1>1 DEF Crash
  <2>2. Saving' = {}
    BY <2>1, IdleSave DEF Saving
  <2>3. Docs' = {}
    BY <2>2 DEF Docs
  <2> QED
    BY <1>0, <1>1, <2>3 DEF Promise, Crash, history
<1>2. CASE \/ UNCHANGED vars
           \/ \E r \in Loads : LoadPrimary(r) \/ LoadBackup(r) \/ Loaded(r)
  <2>1. UNCHANGED <<file, save, candidates, base>>
    BY <1>2 DEF vars, files, history, LoadPrimary, LoadBackup, Loaded
  <2> QED
    BY <2>1 DEF Promise, Value, Docs, Saving, Readable, Outcome, Decides, Valid
<1> QED
  BY <1>1, <1>2

\* The promise is a step of the abstract specification, or none.
LEMMA PromiseRefines == Promise => [Store!Next]_(Store!vars)
<1> SUFFICES ASSUME Promise PROVE [Store!Next]_(Store!vars)
  OBVIOUS
<1> USE DEF Value, Docs
<1>1. CASE /\ \E d \in Documents :
                 /\ d \notin candidates /\ Docs' = Docs \cup {d}
                 /\ candidates' = candidates \cup {d}
                 /\ base' = IF Docs = {} THEN candidates ELSE base
           /\ Value' = Value
  BY <1>1 DEF Store!Next, Store!Begin
<1>2. CASE Docs # {} /\ Value' \in candidates /\ UNCHANGED <<candidates, base>> /\ Docs' = Docs
  BY <1>2 DEF Store!Next, Store!Replace
<1>3. CASE /\ \E d \in Documents :
                 /\ d \in Docs /\ Value \notin base /\ Docs' = Docs \ {d}
                 /\ candidates' = IF Docs = {d} THEN {Value} ELSE candidates \ base
           /\ Value' = Value /\ base' = base
  BY <1>3 DEF Store!Next, Store!Acknowledge
<1>4. CASE /\ \E d \in Documents : d \in Docs /\ Docs' = Docs \ {d}
           /\ Value' = Value /\ UNCHANGED <<candidates, base>>
  BY <1>4 DEF Store!Next, Store!Fail
<1>5. CASE Docs' = {} /\ Value' \in candidates /\ UNCHANGED <<candidates, base>>
  BY <1>5 DEF Store!Next, Store!Restart
<1>6. CASE Value' = Value /\ Docs' = Docs /\ UNCHANGED <<candidates, base>>
  BY <1>6 DEF Store!vars
<1> QED
  BY <1>1, <1>2, <1>3, <1>4, <1>5, <1>6 DEF Promise

\* The two files together behave as one document that is replaced atomically and durably
\* (writeModelCacheAtomic): every behaviour of the saves, loads and crashes is one of
\* CatalogStore.
THEOREM Refinement == Spec => Atomic
<1>1. Init => Store!Init
  <2> SUFFICES ASSUME Init PROVE Store!Init
    OBVIOUS
  <2>1. Readable(file) \in Documents \cup {Missing, Future}
    BY DEF Readable, Outcome, Decides, Valid
  <2>2. Saving = {}
    BY IdleSave DEF Init, Saving
  <2> QED
    BY <2>1, <2>2 DEF Init, Store!Init
<1>2. IInv /\ IInv' /\ [Next]_vars => [Store!Next]_(Store!vars)
  <2> SUFFICES ASSUME IInv, IInv', [Next]_vars PROVE Promise
    BY PromiseRefines
  <2> QED
    BY SaveKeeps, OthersKeep DEF Next
<1> QED
  BY <1>1, <1>2, Invariance, PTL DEF Spec, Atomic, Store!Spec

=============================================================================
