----------------------------- MODULE ModelStore -----------------------------
(***************************************************************************)
(* One document of the catalog cache (model_store.go): the primary file,   *)
(* its backup, the saves that replace them in several file system calls,   *)
(* the loads that read first one and then the other, and crashes between   *)
(* any two calls.  Documents are numbered in the order their saves begin;  *)
(* what a file holds instead is nothing, a document that does not          *)
(* validate, or one of a newer schema.                                     *)
(*                                                                         *)
(* A rename is durable once the directory has been synced; until then a    *)
(* power loss may leave each name at any file it has had since.  On        *)
(* Windows the code removes the destination first and does not sync; there *)
(* only the process is taken to crash.                                     *)
(***************************************************************************)
EXTENDS Integers, FiniteSets

CONSTANTS
    Saves,         \* saves that can be under way at once
    Loads,         \* loads that can be under way at once
    Missing, Corrupt, Future,   \* what a file may hold instead of a document
    MaxDoc,        \* bound: the last document saved
    MaxCrashes     \* bound: how often the process or the power fails

Documents == 0..MaxDoc
Contents == Documents \cup {Missing, Corrupt, Future}

ASSUME ModelStoreConstants ==
    /\ {Missing, Corrupt, Future} \cap Documents = {}
    /\ Missing # Corrupt /\ Missing # Future /\ Corrupt # Future
    /\ MaxDoc \in Nat \ {0} /\ MaxCrashes \in Nat

VARIABLES
    windows,       \* runtime.GOOS = "windows"
    file,          \* what each name holds
    maybe,         \* what it may hold after a power loss
    save,          \* the saves and their local variables
    load,          \* the loads and their local variables
    last,          \* the newest document whose save has begun
    crashes,       \* failures so far
    candidates,    \* history: the documents a load may find
    base           \* history: those of before the saves under way

files == <<file, maybe>>
history == <<candidates, base>>
vars == <<windows, files, save, load, last, crashes, history>>

Names == {"primary", "backup"}
Idle == [pc |-> "idle", doc |-> 0, current |-> Missing]
Rest == [pc |-> "idle", stale |-> {}, result |-> Missing]

\* validateCurrent accepts a document of this schema and this identity.
Valid(c) == c \in Documents

\* What ends a load: a document, or a newer schema.
Decides(c) == Valid(c) \/ c = Future
Outcome(c) == IF Decides(c) THEN c ELSE Missing

\* loadModelCache on files that do not change meanwhile.
Readable(f) == IF Decides(f["primary"]) THEN f["primary"] ELSE Outcome(f["backup"])

Saving == {w \in Saves : save[w].pc # "idle"}

\* Earlier saves have left any pair of files; document 1 was saved after 0.
Init ==
    /\ windows \in BOOLEAN
    /\ file \in {f \in [Names -> {0, 1, Missing, Corrupt, Future}] :
                    f["primary"] # 0 /\ f["backup"] # 1}
    /\ maybe = [n \in Names |-> {file[n]}]
    /\ save = [w \in Saves |-> Idle]
    /\ load = [r \in Loads |-> Rest]
    /\ last = 1 /\ crashes = 0
    /\ candidates = {Readable(file)} /\ base = {Readable(file)}

-----------------------------------------------------------------------------
(* Saves *)

Go(w, pc) == save' = [save EXCEPT ![w].pc = pc]

\* saveModels, saveMetadata: the temporary file is written and synced.  Bound: on
\* Windows one save at a time.
Begin(w) ==
    /\ save[w].pc = "idle" /\ last < MaxDoc
    /\ windows => Saving = {}
    /\ last' = last + 1
    /\ save' = [save EXCEPT ![w] = [Idle EXCEPT !.pc = "readPrimary", !.doc = last']]
    /\ candidates' = candidates \cup {last'}
    /\ base' = IF Saving = {} THEN candidates ELSE base
    /\ UNCHANGED <<windows, files, load, crashes>>

\* Any of the calls fails: the error is returned at once, the temporary file removed.
Fail(w) ==
    /\ save[w].pc # "idle"
    /\ save' = [save EXCEPT ![w] = Idle]
    /\ UNCHANGED <<windows, files, load, last, crashes, history>>

Accepted(c) == Valid(c)

ReadPrimary(w) ==
    /\ save[w].pc = "readPrimary"
    /\ save' = [save EXCEPT ![w] = [pc |-> "readBackup", doc |-> save[w].doc,
                                    current |-> file["primary"]]]
    /\ UNCHANGED <<windows, files, load, last, crashes, history>>

\* Seeded fault: the backup's schema is not looked at.
forbiddenPrimary(w) == save[w].current = Future

\* A newer schema in either file blocks the save.
Forbidden(w) == save[w].current = Future \/ file["backup"] = Future

\* The backup is read, both are validated, and a valid primary is copied first.
ReadBackup(w) ==
    /\ save[w].pc = "readBackup"
    /\ IF Forbidden(w) THEN save' = [save EXCEPT ![w] = Idle]
       ELSE IF Accepted(save[w].current) THEN Go(w, "backup")
       ELSE Go(w, "primary")
    /\ UNCHANGED <<windows, files, load, last, crashes, history>>

Put(n, c) ==
    /\ file' = [file EXCEPT ![n] = c]
    /\ maybe' = [maybe EXCEPT ![n] = IF windows THEN {c} ELSE @ \cup {c}]

\* Seeded fault: the destination is always removed first.
removesAlways == TRUE
RemovesFirst == windows

\* replaceModelCacheFile, the removal
Remove(w, n) ==
    /\ save[w].pc = n /\ RemovesFirst
    /\ Put(n, Missing)
    /\ Go(w, IF n = "backup" THEN "renameBackup" ELSE "renamePrimary")
    /\ UNCHANGED <<windows, load, last, crashes, history>>

\* replaceModelCacheFile, the rename
Rename(w, n) ==
    /\ \/ save[w].pc = n /\ ~RemovesFirst
       \/ save[w].pc = (IF n = "backup" THEN "renameBackup" ELSE "renamePrimary")
    /\ Put(n, IF n = "backup" THEN save[w].current ELSE save[w].doc)
    /\ Go(w, IF n = "backup" THEN "primary" ELSE "sync")
    /\ UNCHANGED <<windows, load, last, crashes, history>>

\* The save returns without an error.
Acknowledged(w) ==
    /\ save' = [save EXCEPT ![w] = Idle]
    /\ candidates' = IF Saving = {w} THEN {Readable(file)} ELSE candidates \ base
    /\ UNCHANGED <<windows, file, load, last, crashes, base>>

\* Seeded fault: the directory is not synced.
syncSkipped(w) == save[w].pc = "sync" /\ Acknowledged(w) /\ UNCHANGED maybe

\* syncModelCacheDirectory
Sync(w) ==
    /\ save[w].pc = "sync"
    /\ maybe' = [n \in Names |-> {file[n]}]
    /\ Acknowledged(w)

-----------------------------------------------------------------------------
(* Loads: loadModelCache reads the primary, then the backup. *)

\* History: what was superseded when the load began must not be its result.
LoadPrimary(r) ==
    /\ load[r].pc = "idle"
    /\ load' = [load EXCEPT ![r] =
                   [stale |-> {c \in 0..last : c \notin candidates}
                                \cup (IF Missing \in candidates THEN {} ELSE {Missing}),
                    pc |-> IF Decides(file["primary"]) THEN "done" ELSE "backup",
                    result |-> Outcome(file["primary"])]]
    /\ UNCHANGED <<windows, files, save, last, crashes, history>>

LoadBackup(r) ==
    /\ load[r].pc = "backup"
    /\ load' = [load EXCEPT ![r] = [pc |-> "done", stale |-> load[r].stale,
                                    result |-> Outcome(file["backup"])]]
    /\ UNCHANGED <<windows, files, save, last, crashes, history>>

Loaded(r) ==
    /\ load[r].pc = "done"
    /\ load' = [load EXCEPT ![r] = Rest]
    /\ UNCHANGED <<windows, files, save, last, crashes, history>>

-----------------------------------------------------------------------------

\* The process dies, and on Unix perhaps the machine with it.
Crash ==
    /\ crashes < MaxCrashes
    /\ crashes' = crashes + 1
    /\ save' = [w \in Saves |-> Idle] /\ load' = [r \in Loads |-> Rest]
    /\ \/ UNCHANGED files
       \/ /\ file' \in {f \in [Names -> Contents] : \A n \in Names : f[n] \in maybe[n]}
          /\ maybe' = [n \in Names |-> {file'[n]}]
    /\ UNCHANGED <<windows, last, history>>

Next ==
    \/ Crash
    \/ \E w \in Saves :
          \/ Begin(w) \/ Fail(w) \/ ReadPrimary(w) \/ ReadBackup(w) \/ Sync(w)
          \/ \E n \in Names : Remove(w, n) \/ Rename(w, n)
    \/ \E r \in Loads : LoadPrimary(r) \/ LoadBackup(r) \/ Loaded(r)

Spec == Init /\ [][Next]_vars

-----------------------------------------------------------------------------
(* Properties *)

TypeOK ==
    /\ windows \in BOOLEAN
    /\ file \in [Names -> Contents] /\ maybe \in [Names -> SUBSET Contents]
    /\ \A n \in Names : file[n] \in maybe[n]
    /\ \A w \in Saves :
          /\ save[w].pc \in {"idle", "readPrimary", "readBackup", "backup", "renameBackup",
                             "primary", "renamePrimary", "sync"}
          /\ save[w].doc \in Documents /\ save[w].current \in Contents
          \* Only what validated goes into the backup.
          /\ save[w].pc \in {"backup", "renameBackup"} => Valid(save[w].current)
    /\ \A r \in Loads : load[r].pc \in {"idle", "backup", "done"} /\ load[r].result \in Contents
    /\ last \in Documents /\ crashes \in 0..MaxCrashes
    /\ candidates \subseteq Contents /\ base \subseteq Contents

\* The two files together behave as one document that is replaced atomically and
\* durably (writeModelCacheAtomic): what a load would find is a save's document or the
\* one before it, and after an acknowledgement never again the one before it.
Store == INSTANCE CatalogStore WITH
    Documents <- Documents,
    Others <- {Missing, Future},
    value <- Readable(file),
    saving <- {save[w].doc : w \in Saving}
Atomic == Store!Spec

\* A file of a newer schema is never replaced or removed, whatever the other file
\* holds and however many saves are tried (errFutureModelCacheSchema).
FutureUntouched == [][\A n \in Names : file[n] = Future => file'[n] = Future]_vars

\* A load never returns a document that was superseded before it began, and on Unix it
\* finds one whenever there was one when it began, although it reads two files that are
\* being replaced (loadModelCache).
LoadsFresh ==
    \A r \in Loads : load[r].pc = "done" =>
        load[r].result \notin load[r].stale \/ (windows /\ load[r].result = Missing)

\* The two promises about single steps: only a validated document is on its way into
\* the backup, and only a current one is handed out (replaceModelCache, loadModelCache).
DocumentsSound == TypeOK /\ LoadsFresh
=============================================================================
