-------------------------- MODULE AuthFile_proofs --------------------------
(***************************************************************************)
(* Machine-checked facts about AuthFile, for every set of runs, every      *)
(* realm and every bound.                                                  *)
(*                                                                         *)
(* Every step of every actor is of one of five kinds (StepKinds): a run    *)
(* moves on without touching the file, it opens its window by reading the  *)
(* live file, it closes the window by saving, the host writes the file, or *)
(* neither the file nor a run changes.  The invariant is preserved by each *)
(* kind.                                                                   *)
(***************************************************************************)
EXTENDS AuthFile, TLAPS

\* A reason only stands in a document that is parked.
Sound(f) == f.reason # "none" => f.disabled

\* What the writers rely on between their read of the live file and their save:
\* a revival starts from a file parked for exhaustion, a dead-session mark from
\* one that is not parked; without hasty writers the file is still the one read.
Windows ==
    /\ \A p \in Reconciles : proc[p].pc = "save" /\ proc[p].goal = "revive" =>
          shouldReenableCN(proc[p].live.disabled, proc[p].live.reason)
    /\ \A p \in Keepalives : proc[p].pc = "save" /\ proc[p].goal = "dead" =>
          ~proc[p].live.disabled
    /\ ~Hasty => \A p \in Procs : proc[p].pc = "save" =>
          proc[p].live = file /\ \A q \in Procs : proc[q].pc = "save" => q = p

IInv ==
    /\ TypeOK
    /\ Sound(file) /\ \A p \in Procs : Sound(proc[p].live)
    /\ Windows

Typed ==
    /\ memory \in [disabled: BOOLEAN, note: Notes \cup {"unset"}]
    /\ entry \in Mutexes /\ lock \in [Mutexes -> Procs \cup {None}]
    /\ issued \in Nat /\ alive \in BOOLEAN /\ row \in Rows

\* The run moves on; the file stays.
Moves(p) ==
    /\ file' = file
    /\ \E r \in Runs : r.pc # "save" /\ Sound(r.live) /\ proc' = [proc EXCEPT ![p] = r]

\* The run reads the live file and means to save it.
Opens(p) ==
    /\ file' = file /\ Free(p)
    /\ \E r \in Runs :
          /\ r.pc = "save" /\ r.live = file
          /\ p \in Reconciles /\ r.goal = "revive" => shouldReenableCN(file.disabled, file.reason)
          /\ p \in Keepalives /\ r.goal = "dead" => ~file.disabled
          /\ proc' = [proc EXCEPT ![p] = r]

\* The run saves, or fails to.
Closes(p) ==
    /\ proc[p].pc = "save"
    /\ file' \in Files /\ Sound(file')
    /\ proc' = [proc EXCEPT ![p] = Done]

HostWrites == file' \in Files /\ Sound(file') /\ Free(None) /\ proc' = proc

Stays == file' = file /\ proc' = proc

-----------------------------------------------------------------------------
\* The missing document, an idle run and a finished run are well typed and sound.
LEMMA Documents ==
    /\ Absent \in Files /\ Sound(Absent)
    /\ Idle \in Runs /\ Idle.pc = "idle" /\ Idle.live = Absent
    /\ Done \in Runs /\ Done.pc = "done" /\ Done.live = Absent
<1>1. Absent \in Files /\ Sound(Absent)
  BY DEF Absent, Files, Reasons, Notes, Sound
<1>2. 0 \in Mutexes
  BY AuthFileConstants DEF Mutexes
<1>3. Idle \in Runs /\ Idle.pc = "idle" /\ Idle.live = Absent
  BY <1>1, <1>2 DEF Idle, Runs, Pcs
<1>4. Done \in Runs /\ Done.pc = "done" /\ Done.live = Absent
  BY <1>3 DEF Done, Runs, Pcs
<1> QED
  BY <1>1, <1>3, <1>4

\* A document rebuilt over a base keeps the base's reason (buildAuthFileJSONFrom).
LEMMA Rebuilt ==
    ASSUME NEW base \in Files, NEW sa \in Files, NEW d \in BOOLEAN, NEW n \in Notes
    PROVE  LET f == buildAuthFileJSONFrom(base, sa, d, n)
           IN  f \in Files /\ f.reason = base.reason /\ f.disabled = d
  BY DEF buildAuthFileJSONFrom, Files

\* The note shown is a note (displayNoteWithPrev).
LEMMA NoteShown ==
    ASSUME NEW c \in Balances \cup {NoNote}, NEW prev \in Notes
    PROVE  displayNote(c, prev) \in Notes
  BY DEF displayNote, Notes

\* Locking and unlocking keep the type of the table of mutexes.
LEMMA Locking ==
    ASSUME TypeOK, NEW p \in Procs
    PROVE  /\ Take(p) => lock' \in [Mutexes -> Procs \cup {None}]
           /\ Unlock(p) => lock' \in [Mutexes -> Procs \cup {None}]
           /\ Leave(p) => /\ lock' \in [Mutexes -> Procs \cup {None}]
                          /\ proc' = [proc EXCEPT ![p] = Done]
  BY DEF TypeOK, Take, Unlock, Leave, Runs

-----------------------------------------------------------------------------
\* The initial states satisfy the invariant: no run holds a copy of the document.
LEMMA InitIInv == Init => IInv
<1> SUFFICES ASSUME Init PROVE IInv
  OBVIOUS
<1>1. file \in Files /\ Sound(file)
  <2>1. PICK disabled \in {FALSE, Legacy}, reason \in {"none", "exhausted"} :
           /\ reason # "none" => disabled
           /\ file = [tok |-> 1, disabled |-> disabled, reason |-> reason,
                      note |-> NoNote, name |-> 0]
    BY DEF Init
  <2>2. disabled \in BOOLEAN
    BY AuthFileConstants
  <2>3. file.reason = reason /\ file.disabled = disabled
    BY <2>1
  <2>4. file \in Files
    BY <2>1, <2>2 DEF Files, Reasons, Notes
  <2> QED
    BY <2>1, <2>3, <2>4 DEF Sound
<1>2. \A p \in Procs : proc[p] = Idle
  BY DEF Init
<1>3. TypeOK
  BY <1>1, Documents, AuthFileConstants DEF Init, TypeOK, Unset, Mutexes, Rows
<1>4. Windows
  BY <1>2, Documents DEF Windows, Procs
<1> QED
  BY <1>1, <1>2, <1>3, <1>4, Documents DEF IInv

(***************************************************************************)
(* The kinds of steps.                                                     *)
(***************************************************************************)

\* What a step of a reconciliation (reconcileAuth) does to the file and its run.
LEMMA ReconcileKinds ==
    ASSUME IInv, NEW p \in Reconciles, CheckinWait(p) \/ Reconcile(p)
    PROVE  Typed' /\ (Moves(p) \/ Opens(p) \/ Closes(p))
<1> USE DEF IInv
<1>0. p \in Procs /\ proc[p] \in Runs /\ proc[p].live \in Files /\ proc[p].sa \in Files
      /\ file \in Files /\ Sound(proc[p].live) /\ Sound(file)
  BY DEF Procs, TypeOK, Runs
<1> DEFINE With(r) == proc' = [proc EXCEPT ![p] = r]
<1>1. CASE CheckinWait(p)
  <2> DEFINE r == [proc[p] EXCEPT !.pc = "wait", !.mu = entry]
  <2>1. r \in Runs /\ r.pc # "save" /\ r.live = proc[p].live
    BY <1>0 DEF Runs, Pcs, TypeOK
  <2>2. With(r) /\ file' = file
    BY <1>1 DEF CheckinWait
  <2>3. Typed'
    BY <1>1 DEF CheckinWait, TypeOK, Typed
  <2> QED
    BY <1>0, <2>1, <2>2, <2>3 DEF Moves
<1>2. CASE CheckinLock(p)
  <2> DEFINE r == [proc[p] EXCEPT !.pc = "checkin"]
  <2>1. r \in Runs /\ r.pc # "save" /\ r.live = proc[p].live
    BY <1>0 DEF Runs, Pcs
  <2>2. With(r) /\ file' = file
    BY <1>2 DEF CheckinLock
  <2>3. Typed'
    BY <1>0, <1>2, Locking DEF CheckinLock, TypeOK, Typed
  <2> QED
    BY <1>0, <2>1, <2>2, <2>3 DEF Moves
<1>3. CASE CheckinUnlock(p)
  <2> DEFINE r == [proc[p] EXCEPT !.pc = "read"]
  <2>1. r \in Runs /\ r.pc # "save" /\ r.live = proc[p].live
    BY <1>0 DEF Runs, Pcs
  <2>2. With(r) /\ file' = file
    BY <1>3 DEF CheckinUnlock
  <2>3. Typed'
    BY <1>0, <1>3, Locking DEF CheckinUnlock, TypeOK, Typed
  <2> QED
    BY <1>0, <2>1, <2>2, <2>3 DEF Moves
<1>4. CASE ReadBundle(p)
  <2> DEFINE r == IF file = Absent THEN Done ELSE [Idle EXCEPT !.pc = "credits", !.sa = file]
  <2>1. r \in Runs /\ r.pc # "save" /\ r.live = Absent
    BY <1>0, Documents DEF Runs, Pcs
  <2>2. With(r) /\ file' = file
    BY <1>4 DEF ReadBundle
  <2>3. Typed'
    BY <1>4 DEF ReadBundle, TypeOK, Typed
  <2> QED
    BY <2>1, <2>2, <2>3, Documents DEF Moves
<1>5. CASE Credits(p)
  <2>0. PICK cr \in Balances \cup {NoNote}, parked \in {proc[p].sa.disabled, FALSE} :
          \/ proc' = [proc EXCEPT ![p].credits = cr, ![p].pc = "lock", ![p].goal = "revive",
                                  ![p].mu = entry]
          \/ proc' = [proc EXCEPT ![p].credits = cr, ![p].pc = "look",
                                  ![p].parked = parked, ![p].goal = "note"]
          \/ With(Done)
    BY <1>5, Zenon DEF Credits
  <2>1. \/ With([proc[p] EXCEPT !.credits = cr, !.pc = "lock", !.goal = "revive",
                                !.mu = entry])
        \/ With([proc[p] EXCEPT !.credits = cr, !.pc = "look", !.parked = parked,
                                !.goal = "note"])
        \/ With(Done)
    BY <2>0, <1>0 DEF TypeOK, Runs
  <2>2. parked \in BOOLEAN
    BY <1>0 DEF Files
  <2>3. \E r \in Runs : r.pc # "save" /\ Sound(r.live) /\ With(r)
    <3>1. CASE With([proc[p] EXCEPT !.credits = cr, !.pc = "lock", !.goal = "revive",
                                   !.mu = entry])
      <4> DEFINE r == [proc[p] EXCEPT !.credits = cr, !.pc = "lock", !.goal = "revive",
                                      !.mu = entry]
      <4>1. r \in Runs /\ r.pc # "save" /\ r.live = proc[p].live
        BY <1>0 DEF Runs, Pcs, TypeOK
      <4> QED
        BY <1>0, <3>1, <4>1
    <3>2. CASE With([proc[p] EXCEPT !.credits = cr, !.pc = "look", !.parked = parked,
                                   !.goal = "note"])
      <4> DEFINE r == [proc[p] EXCEPT !.credits = cr, !.pc = "look", !.parked = parked,
                                      !.goal = "note"]
      <4>1. r \in Runs /\ r.pc # "save" /\ r.live = proc[p].live
        BY <1>0, <2>2 DEF Runs, Pcs
      <4> QED
        BY <1>0, <3>2, <4>1
    <3>3. CASE With(Done)
      BY <3>3, Documents
    <3> QED
      BY <2>1, <3>1, <3>2, <3>3
  <2>4. file' = file /\ Typed'
    BY <1>5 DEF Credits, TypeOK, Typed
  <2> QED
    BY <2>3, <2>4 DEF Moves
<1>6. CASE SyncLook(p)
  <2> DEFINE r == [proc[p] EXCEPT !.pc = "lock", !.mu = entry]
  <2>1. r \in Runs /\ r.pc # "save" /\ r.live = proc[p].live
    BY <1>0 DEF Runs, Pcs, TypeOK
  <2>2. With(Done) \/ With(r)
    BY <1>6 DEF SyncLook
  <2>3. file' = file /\ Typed'
    BY <1>6 DEF SyncLook, TypeOK, Typed
  <2> QED
    BY <1>0, <2>1, <2>2, <2>3, Documents DEF Moves
<1>7. CASE Lock(p)
  <2> DEFINE r == [proc[p] EXCEPT !.pc = "live"]
  <2>1. r \in Runs /\ r.pc # "save" /\ r.live = proc[p].live
    BY <1>0 DEF Runs, Pcs
  <2>2. With(r) /\ file' = file
    BY <1>7 DEF Lock
  <2>3. Typed'
    BY <1>0, <1>7, Locking DEF Lock, TypeOK, Typed
  <2> QED
    BY <1>0, <2>1, <2>2, <2>3 DEF Moves
<1>8. CASE ReviveLook(p)
  <2> DEFINE r == [proc[p] EXCEPT !.live = file, !.pc = "save"]
  <2>1. r \in Runs /\ r.pc = "save" /\ r.live = file /\ r.goal = proc[p].goal
    BY <1>0 DEF Runs, Pcs
  <2>2. file' = file /\ Typed'
    BY <1>0, <1>8, Locking DEF ReviveLook, TypeOK, Typed
  <2>3. Free(p) /\ proc[p].goal = "revive"
    BY <1>8 DEF ReviveLook
  <2>4. \/ shouldReenableCN(file.disabled, file.reason) /\ With(r)
        \/ With(Done)
    BY <1>0, <1>8, Locking DEF ReviveLook
  <2> QED
    BY <2>1, <2>2, <2>3, <2>4, Documents DEF Moves, Opens
<1>9. CASE Revive(p)
  <2> DEFINE g == buildAuthFileJSONFrom(proc[p].live, proc[p].sa, FALSE, proc[p].credits)
             f == [g EXCEPT !.reason = "none"]
  <2>1. proc[p].credits \in Notes
    BY <1>0 DEF Runs, Notes
  <2>2. f \in Files /\ f.reason = "none"
    <3>1. g \in Files
      BY <1>0, <2>1, Rebuilt
    <3> HIDE DEF g
    <3> QED
      BY <3>1 DEF Files, Reasons
  <2>3. \/ file' = f /\ memory' = [disabled |-> FALSE, note |-> proc[p].credits]
        \/ file' = file /\ memory' = memory
    BY <1>9 DEF Revive
  <2>4. lock' \in [Mutexes -> Procs \cup {None}] /\ With(Done) /\ proc[p].pc = "save"
    BY <1>0, <1>9, Locking DEF Revive
  <2>5. UNCHANGED <<entry, issued, alive, row>>
    BY <1>9 DEF Revive
  <2>6. Typed'
    <3>0. [disabled |-> FALSE, note |-> proc[p].credits]
             \in [disabled: BOOLEAN, note: Notes \cup {"unset"}]
      BY <2>1
    <3>1. memory' \in [disabled: BOOLEAN, note: Notes \cup {"unset"}]
      BY <2>3, <3>0, Zenon DEF TypeOK
    <3> QED
      BY <3>1, <2>4, <2>5 DEF TypeOK, Typed
  <2> QED
    BY <1>0, <2>2, <2>3, <2>4, <2>6 DEF Closes, Sound
<1>10. CASE SyncRead(p)
  <2> DEFINE r == [proc[p] EXCEPT !.live = file, !.pc = "save"]
  <2>1. r \in Runs /\ r.pc = "save" /\ r.live = file /\ r.goal = proc[p].goal
    BY <1>0 DEF Runs, Pcs
  <2>2. file' = file /\ Typed'
    BY <1>0, <1>10, Locking DEF SyncRead, TypeOK, Typed
  <2>3. Free(p) /\ proc[p].goal = "note"
    BY <1>10 DEF SyncRead
  <2>4. With(r) \/ With(Done)
    BY <1>0, <1>10, Locking DEF SyncRead
  <2> QED
    BY <2>1, <2>2, <2>3, <2>4, Documents DEF Moves, Opens
<1>11. CASE syncAuthNote(p)
  <2> DEFINE n == displayNote(proc[p].credits, proc[p].live.note)
             f == buildAuthFileJSONFrom(proc[p].live, proc[p].sa, proc[p].live.disabled, n)
  <2>1. n \in Notes
    BY <1>0, NoteShown DEF Runs, Files
  <2>2. f \in Files /\ f.reason = proc[p].live.reason /\ f.disabled = proc[p].live.disabled
    BY <1>0, <2>1, Rebuilt DEF Files
  <2>3. \/ file' = f /\ memory' = [disabled |-> proc[p].live.disabled, note |-> n]
        \/ file' = file /\ memory' = memory
    BY <1>11 DEF syncAuthNote
  <2>4. lock' \in [Mutexes -> Procs \cup {None}] /\ With(Done) /\ proc[p].pc = "save"
    BY <1>0, <1>11, Locking DEF syncAuthNote
  <2>5. UNCHANGED <<entry, issued, alive, row>>
    BY <1>11 DEF syncAuthNote
  <2>6. proc[p].live.disabled \in BOOLEAN
    BY <1>0 DEF Files
  <2>7. Typed'
    BY <2>1, <2>3, <2>4, <2>5, <2>6 DEF TypeOK, Typed
  <2> QED
    BY <1>0, <2>2, <2>3, <2>4, <2>7 DEF Closes, Sound
<1> QED
  BY <1>1, <1>2, <1>3, <1>4, <1>5, <1>6, <1>7, <1>8, <1>9, <1>10, <1>11 DEF Reconcile

\* What a step of a token refresh (keepaliveOneWithCallback) does.
LEMMA KeepaliveKinds ==
    ASSUME IInv, NEW p \in Keepalives, Keepalive(p)
    PROVE  Typed' /\ (Moves(p) \/ Opens(p) \/ Closes(p))
<1> USE DEF IInv
<1>0. p \in Procs /\ proc[p] \in Runs /\ proc[p].live \in Files /\ proc[p].sa \in Files
      /\ file \in Files /\ Sound(proc[p].live) /\ Sound(file)
  BY DEF Procs, TypeOK, Runs
<1> DEFINE With(r) == proc' = [proc EXCEPT ![p] = r]
<1>1. CASE KeepaliveWait(p)
  <2> DEFINE r == [proc[p] EXCEPT !.pc = "wait", !.mu = entry]
  <2>1. r \in Runs /\ r.pc # "save" /\ r.live = proc[p].live
    BY <1>0 DEF Runs, Pcs, TypeOK
  <2>2. With(r) /\ file' = file
    BY <1>1 DEF KeepaliveWait
  <2>3. Typed'
    BY <1>1 DEF KeepaliveWait, TypeOK, Typed
  <2> QED
    BY <1>0, <2>1, <2>2, <2>3 DEF Moves
<1>2. CASE KeepaliveLock(p)
  <2> DEFINE r == [proc[p] EXCEPT !.pc = "read"]
  <2>1. r \in Runs /\ r.pc # "save" /\ r.live = proc[p].live
    BY <1>0 DEF Runs, Pcs
  <2>2. With(r) /\ file' = file
    BY <1>2 DEF KeepaliveLock
  <2>3. Typed'
    BY <1>0, <1>2, Locking DEF KeepaliveLock, TypeOK, Typed
  <2> QED
    BY <1>0, <2>1, <2>2, <2>3 DEF Moves
<1>3. CASE KeepaliveRead(p)
  <2> DEFINE r == [proc[p] EXCEPT !.sa = file, !.pc = "refresh"]
  <2>1. r \in Runs /\ r.pc # "save" /\ r.live = proc[p].live
    BY <1>0 DEF Runs, Pcs
  <2>2. With(r) \/ With(Done)
    BY <1>0, <1>3, Locking DEF KeepaliveRead, Report
  <2>3. file' = file /\ Typed'
    BY <1>0, <1>3, Locking DEF KeepaliveRead, Report, TypeOK, Typed, Rows
  <2> QED
    BY <1>0, <2>1, <2>2, <2>3, Documents DEF Moves
<1>4. CASE Refresh(p)
  <2> DEFINE s == [proc[p].sa EXCEPT !.tok = issued + 1]
             r == [proc[p] EXCEPT !.sa = s, !.pc = "refreshed", !.goal = "tokens"]
             d == [proc[p] EXCEPT !.pc = "refreshed", !.goal = "dead"]
  <2>1. s \in Files
    BY <1>0 DEF Files, TypeOK
  <2>2. r \in Runs /\ r.pc # "save" /\ r.live = proc[p].live
    <3> HIDE DEF s
    <3> QED
      BY <1>0, <2>1 DEF Runs, Pcs
  <2>3. d \in Runs /\ d.pc # "save" /\ d.live = proc[p].live
    BY <1>0 DEF Runs, Pcs
  <2>4. With(r) \/ With(d) \/ With(Done)
    BY <1>0, <1>4, Locking DEF Refresh, Report
  <2>5. /\ lock' \in [Mutexes -> Procs \cup {None}] /\ row' \in Rows
        /\ issued' \in Nat /\ alive' \in BOOLEAN
    <3>1. \/ issued' = issued + 1 /\ UNCHANGED <<lock, alive, row>>
          \/ alive' = FALSE /\ UNCHANGED <<lock, issued, row>>
          \/ row' = "failed" /\ Leave(p) /\ UNCHANGED <<issued, alive>>
      BY <1>4 DEF Refresh, Report
    <3>2. /\ lock \in [Mutexes -> Procs \cup {None}] /\ row \in Rows /\ "failed" \in Rows
          /\ issued \in Nat /\ issued + 1 \in Nat /\ alive \in BOOLEAN
      BY DEF TypeOK, Rows
    <3>3. Leave(p) => lock' \in [Mutexes -> Procs \cup {None}]
      BY <1>0, Locking
    <3>4. issued' \in Nat /\ lock' \in [Mutexes -> Procs \cup {None}]
      BY <3>1, <3>2, <3>3
    <3>5. alive' \in BOOLEAN /\ row' \in Rows
      BY <3>1, <3>2, Zenon
    <3> QED
      BY <3>4, <3>5
  <2>6. file' = file /\ Typed'
    BY <1>4, <2>5 DEF Refresh, TypeOK, Typed
  <2> QED
    BY <1>0, <2>2, <2>3, <2>4, <2>6, Documents DEF Moves
<1>5. CASE KeepaliveReread(p)
  <2> DEFINE r == [proc[p] EXCEPT !.live = file, !.pc = "save"]
  <2>1. r \in Runs /\ r.pc = "save" /\ r.live = file /\ r.goal = proc[p].goal
    BY <1>0 DEF Runs, Pcs
  <2>2. file' = file /\ Typed'
    BY <1>0, <1>5, Locking DEF KeepaliveReread, Report, TypeOK, Typed, Rows
  <2>3. Free(p)
    BY <1>5 DEF KeepaliveReread
  <2>4. \/ (proc[p].goal = "dead" => ~file.disabled) /\ With(r)
        \/ With(Done)
    BY <1>0, <1>5, Locking DEF KeepaliveReread, Report
  <2>5. p \notin Reconciles
    BY AuthFileConstants
  <2> QED
    BY <2>1, <2>2, <2>3, <2>4, <2>5, Documents DEF Moves, Opens
<1>6. CASE persistAuthTokens(p)
  <2> DEFINE f == [proc[p].live EXCEPT !.tok = proc[p].sa.tok, !.name = proc[p].sa.name]
  <2>1. f \in Files /\ f.reason = proc[p].live.reason /\ f.disabled = proc[p].live.disabled
    BY <1>0 DEF Files
  <2>2. file' = f \/ file' = file
    BY <1>6 DEF persistAuthTokens
  <2>3. With(Done) /\ proc[p].pc = "save"
    BY <1>0, <1>6, Locking DEF persistAuthTokens, Report
  <2>4. Typed'
    BY <1>0, <1>6, Locking DEF persistAuthTokens, Report, TypeOK, Typed, Rows
  <2> QED
    BY <1>0, <2>1, <2>2, <2>3, <2>4 DEF Closes, Sound
<1>7. CASE markSessionDead(p)
  <2> DEFINE f == [proc[p].live EXCEPT !.disabled = TRUE, !.note = Dead,
                                      !.reason = "session_dead"]
  <2>1. f \in Files /\ f.disabled
    BY <1>0 DEF Files, Notes, Reasons
  <2>2. file' = f \/ file' = file
    BY <1>7 DEF markSessionDead
  <2>3. With(Done) /\ proc[p].pc = "save"
    BY <1>0, <1>7, Locking DEF markSessionDead, Report
  <2>4. Typed'
    BY <1>0, <1>7, Locking DEF markSessionDead, Report, TypeOK, Typed, Rows
  <2> QED
    BY <1>0, <2>1, <2>2, <2>3, <2>4 DEF Closes, Sound
<1> QED
  BY <1>1, <1>2, <1>3, <1>4, <1>5, <1>6, <1>7 DEF Keepalive

\* What the operator's disable and enable handlers do.
LEMMA OperatorKinds ==
    ASSUME IInv, NEW p \in Operators, OperatorRead(p) \/ OperatorSave(p)
    PROVE  Typed' /\ (Opens(p) \/ Closes(p))
<1> USE DEF IInv
<1>0. p \in Procs /\ proc[p] \in Runs /\ proc[p].live \in Files
      /\ file \in Files /\ Sound(proc[p].live) /\ Sound(file) /\ p \notin Reconciles \cup Keepalives
  BY AuthFileConstants DEF Procs, TypeOK, Runs
<1>1. CASE OperatorRead(p)
  <2>1. PICK goal \in Goals :
           proc' = [proc EXCEPT ![p].pc = "save", ![p].live = file, ![p].goal = goal]
    BY <1>1 DEF OperatorRead
  <2> DEFINE r == [proc[p] EXCEPT !.pc = "save", !.live = file, !.goal = goal]
  <2>2. r \in Runs /\ r.pc = "save" /\ r.live = file
    BY <1>0 DEF Runs, Pcs, Goals
  <2>3. proc' = [proc EXCEPT ![p] = r]
    BY <2>1
  <2>4. file' = file /\ Free(p) /\ Typed'
    BY <1>1 DEF OperatorRead, TypeOK, Typed
  <2> QED
    BY <1>0, <2>2, <2>3, <2>4 DEF Opens
<1>2. CASE OperatorSave(p)
  <2>1. ASSUME NEW goal
        PROVE  OperatorFile(goal, proc[p].live) \in Files
               /\ Sound(OperatorFile(goal, proc[p].live))
    <3>1. CASE goal = "park"
      BY <1>0, <3>1 DEF OperatorFile, Files, Reasons, Sound
    <3>2. CASE goal = "enable"
      BY <1>0, <3>2 DEF OperatorFile, Files, Reasons, Sound
    <3>3. CASE goal = "rename"
      BY <1>0, <3>3 DEF OperatorFile, Files, Sound
    <3>4. CASE goal \notin {"park", "enable", "rename"}
      BY <3>4, Documents DEF OperatorFile
    <3> QED
      BY <3>1, <3>2, <3>3, <3>4
  <2>2. file' \in {OperatorFile(proc[p].goal, proc[p].live), file}
    BY <1>2 DEF OperatorSave
  <2>3. proc[p].pc = "save" /\ proc' = [proc EXCEPT ![p] = Done] /\ Typed'
    BY <1>2 DEF OperatorSave, TypeOK, Typed
  <2> QED
    BY <1>0, <2>1, <2>2, <2>3 DEF Closes
<1> QED
  BY <1>1, <1>2

\* What a re-registration of the account does.
LEMMA RegistrarKinds ==
    ASSUME IInv, NEW p \in Registrars, RegisterRead(p) \/ RegisterSave(p)
    PROVE  Typed' /\ (Opens(p) \/ Closes(p))
<1> USE DEF IInv
<1>0. p \in Procs /\ proc[p] \in Runs /\ proc[p].live \in Files
      /\ file \in Files /\ Sound(proc[p].live) /\ Sound(file) /\ p \notin Reconciles \cup Keepalives
  BY AuthFileConstants DEF Procs, TypeOK, Runs
<1>1. CASE RegisterRead(p)
  <2> DEFINE r == [proc[p] EXCEPT !.pc = "save", !.live = file]
  <2>1. r \in Runs /\ r.pc = "save" /\ r.live = file
    BY <1>0 DEF Runs, Pcs
  <2>2. proc' = [proc EXCEPT ![p] = r]
    BY <1>1 DEF RegisterRead
  <2>3. file' = file /\ Free(p) /\ Typed'
    BY <1>1 DEF RegisterRead, TypeOK, Typed
  <2> QED
    BY <1>0, <2>1, <2>2, <2>3 DEF Opens
<1>2. CASE RegisterSave(p)
  BY <1>0, <1>2 DEF RegisterSave, Closes, TypeOK, Typed
<1> QED
  BY <1>1, <1>2

\* What the host's own login and refresh, and the pruning of the mutex map, do.
LEMMA HostKinds ==
    ASSUME IInv, ForgetState \/ PruneLock \/ HostLogin \/ HostRefresh
    PROVE  Typed' /\ (HostWrites \/ Stays)
<1> USE DEF IInv
<1>1. CASE ForgetState
  BY <1>1 DEF ForgetState, Stays, TypeOK, Typed, Unset
<1>2. CASE PruneLock
  BY <1>2, AuthFileConstants DEF PruneLock, Stays, TypeOK, Typed, Mutexes
<1>3. CASE HostLogin
  <2>1. file' \in Files /\ Sound(file')
    BY <1>3 DEF HostLogin, TypeOK, Files, Reasons, Notes, Sound
  <2> QED
    BY <1>3, <2>1 DEF HostLogin, HostWrites, TypeOK, Typed
<1>4. CASE HostRefresh
  <2>1. file' \in Files /\ Sound(file')
    BY <1>4 DEF HostRefresh, TypeOK, Files, Sound
  <2> QED
    BY <1>4, <2>1 DEF HostRefresh, HostWrites, TypeOK, Typed
<1> QED
  BY <1>1, <1>2, <1>3, <1>4

\* Every step of the system is of one of five kinds.
LEMMA StepKinds ==
    ASSUME IInv, Next
    PROVE  Typed' /\ \/ \E p \in Procs : Moves(p) \/ Opens(p) \/ Closes(p)
                     \/ HostWrites \/ Stays
  BY ReconcileKinds, KeepaliveKinds, OperatorKinds, RegistrarKinds, HostKinds DEF Next, Procs

-----------------------------------------------------------------------------
\* Every step preserves the invariant, by the kind of the step.
LEMMA NextIInv == IInv /\ [Next]_vars => IInv'
<1> SUFFICES ASSUME IInv, [Next]_vars PROVE IInv'
  OBVIOUS
<1> USE DEF IInv
<1>1. CASE UNCHANGED vars
  BY <1>1 DEF vars, TypeOK, Windows
<1>2. CASE Next
  <2>1. Typed'
    BY <1>2, StepKinds
  <2>2. \/ \E p \in Procs : Moves(p) \/ Opens(p) \/ Closes(p)
        \/ HostWrites \/ Stays
    BY <1>2, StepKinds
  <2>3. ASSUME NEW p \in Procs, Moves(p)
        PROVE  IInv'
    <3>1. PICK r \in Runs : r.pc # "save" /\ Sound(r.live) /\ proc' = [proc EXCEPT ![p] = r]
      BY <2>3 DEF Moves
    <3>2. /\ file' = file /\ proc' \in [Procs -> Runs]
          /\ \A q \in Procs : proc'[q] = IF q = p THEN r ELSE proc[q]
      BY <2>3, <3>1 DEF Moves, TypeOK
    <3>3. TypeOK'
      BY <2>1, <3>2 DEF TypeOK, Typed
    <3>4. Windows'
      BY <3>1, <3>2 DEF Windows, Procs
    <3> QED
      BY <3>1, <3>2, <3>3, <3>4
  <2>4. ASSUME NEW p \in Procs, Opens(p)
        PROVE  IInv'
    <3>1. PICK r \in Runs :
             /\ r.pc = "save" /\ r.live = file
             /\ p \in Reconciles /\ r.goal = "revive" =>
                   shouldReenableCN(file.disabled, file.reason)
             /\ p \in Keepalives /\ r.goal = "dead" => ~file.disabled
             /\ proc' = [proc EXCEPT ![p] = r]
      BY <2>4 DEF Opens
    <3>2. /\ file' = file /\ proc' \in [Procs -> Runs]
          /\ \A q \in Procs : proc'[q] = IF q = p THEN r ELSE proc[q]
      BY <2>4, <3>1 DEF Opens, TypeOK
    <3>3. TypeOK'
      BY <2>1, <3>2 DEF TypeOK, Typed
    <3>4. ~Hasty => \A q \in Procs : q # p => proc[q].pc # "save"
      BY <2>4 DEF Opens, Free
    <3>5. Windows'
      BY <3>1, <3>2, <3>4 DEF Windows, Procs
    <3> QED
      BY <3>1, <3>2, <3>3, <3>5
  <2>5. ASSUME NEW p \in Procs, Closes(p)
        PROVE  IInv'
    <3>1. /\ proc[p].pc = "save" /\ file' \in Files /\ Sound(file')
          /\ proc' \in [Procs -> Runs]
          /\ \A q \in Procs : proc'[q] = IF q = p THEN Done ELSE proc[q]
      BY <2>5, Documents DEF Closes, TypeOK
    <3>2. TypeOK'
      BY <2>1, <3>1 DEF TypeOK, Typed
    <3>3. Windows'
      BY <3>1, Documents DEF Windows, Procs
    <3> QED
      BY <3>1, <3>2, <3>3, Documents
  <2>6. CASE HostWrites
    <3>1. TypeOK'
      BY <2>1, <2>6 DEF HostWrites, TypeOK, Typed
    <3>2. ~Hasty => \A q \in Procs : proc[q].pc # "save"
      BY <2>6, AuthFileConstants DEF HostWrites, Free
    <3>3. Windows'
      BY <2>6, <3>2 DEF HostWrites, Windows
    <3> QED
      BY <2>6, <3>1, <3>3 DEF HostWrites
  <2>7. CASE Stays
    <3>1. TypeOK'
      BY <2>1, <2>7 DEF Stays, TypeOK, Typed
    <3> QED
      BY <2>7, <3>1 DEF Stays, Windows
  <2> QED
    BY <2>2, <2>3, <2>4, <2>5, <2>6, <2>7
<1> QED
  BY <1>1, <1>2

\* The invariant holds in every reachable state.
THEOREM Inductive == Spec => []IInv
  BY InitIInv, NextIInv, PTL DEF Spec

\* The document and the runs have their types in every reachable state.
THEOREM TypeCorrect == Spec => []TypeOK
<1>1. IInv => TypeOK
  BY DEF IInv
<1> QED
  BY <1>1, Inductive, PTL

\* No interleaving of the writers, with or without hasty ones, leaves a reason on
\* an enabled account.
THEOREM ReasonTheorem == Spec => []ReasonOnlyWhenDisabled
<1>1. IInv => ReasonOnlyWhenDisabled
  BY DEF IInv, Sound, ReasonOnlyWhenDisabled
<1> QED
  BY <1>1, Inductive, PTL

\* What one step may do to a park by the operator or for a dead session.
ParkStep ==
    file.disabled /\ file.reason \in {"manual", "session_dead"} =>
          \/ file'.disabled /\ file'.reason = file.reason
          \/ HostLogin
          \/ \E o \in Operators : OperatorSave(o)

\* A single step leaves a manual or dead-session park alone unless the operator or
\* a login undoes it.
LEMMA NextParkStep == ASSUME IInv, ~Hasty, [Next]_vars PROVE ParkStep
<1> SUFFICES ASSUME file.disabled, file.reason \in {"manual", "session_dead"}
             PROVE  \/ file'.disabled /\ file'.reason = file.reason
                    \/ HostLogin
                    \/ \E o \in Operators : OperatorSave(o)
  BY DEF ParkStep
<1>0. ASSUME NEW p \in Procs
      PROVE  /\ proc[p].live \in Files /\ proc[p].sa \in Files
             /\ proc[p].credits \in Balances \cup {NoNote}
             /\ proc[p].pc = "save" => proc[p].live = file
  BY DEF IInv, TypeOK, Runs, Windows
<1>1. CASE file' = file
  BY <1>1
<1>2. ASSUME NEW p \in Reconciles, Revive(p)
      PROVE  file' = file
  <2>1. p \in Procs /\ proc[p].pc = "save" /\ proc[p].goal = "revive"
    BY <1>2 DEF Procs, Revive
  <2>2. shouldReenableCN(file.disabled, file.reason)
    BY <1>0, <2>1 DEF IInv, Windows
  <2> QED
    BY <2>2 DEF shouldReenableCN
<1>3. ASSUME NEW p \in Reconciles, syncAuthNote(p)
      PROVE  file' = file \/ (file'.disabled /\ file'.reason = file.reason)
  <2> DEFINE n == displayNote(proc[p].credits, proc[p].live.note)
             f == buildAuthFileJSONFrom(proc[p].live, proc[p].sa, proc[p].live.disabled, n)
  <2>1. p \in Procs /\ proc[p].live = file
    BY <1>0, <1>3 DEF Procs, syncAuthNote
  <2>2. n \in Notes
    BY <1>0, <2>1, NoteShown DEF Files
  <2>3. f.reason = file.reason /\ f.disabled = file.disabled
    BY <1>0, <2>1, <2>2, Rebuilt DEF Files
  <2>4. file' = f \/ file' = file
    BY <1>3 DEF syncAuthNote
  <2> QED
    BY <2>3, <2>4
<1>4. ASSUME NEW k \in Keepalives, persistAuthTokens(k)
      PROVE  file' = file \/ (file'.disabled /\ file'.reason = file.reason)
  BY <1>0, <1>4 DEF Procs, persistAuthTokens, Files
<1>5. ASSUME NEW k \in Keepalives, markSessionDead(k)
      PROVE  file' = file
  BY <1>0, <1>5 DEF Procs, markSessionDead, IInv, Windows
<1>6. ASSUME NEW g \in Registrars, RegisterSave(g)
      PROVE  file' = file
  BY <1>0, <1>6 DEF Procs, RegisterSave
<1>7. CASE HostRefresh
  BY <1>7 DEF HostRefresh, IInv, TypeOK, Files
<1>8. \/ file' = file
      \/ \E p \in Reconciles : Revive(p) \/ syncAuthNote(p)
      \/ \E k \in Keepalives : persistAuthTokens(k) \/ markSessionDead(k)
      \/ \E o \in Operators : OperatorSave(o)
      \/ \E g \in Registrars : RegisterSave(g)
      \/ HostLogin \/ HostRefresh
  <2>1. ASSUME NEW p \in Reconciles, CheckinWait(p) \/ Reconcile(p)
        PROVE  file' = file \/ Revive(p) \/ syncAuthNote(p)
    BY <2>1 DEF CheckinWait, Reconcile, CheckinLock, CheckinUnlock, ReadBundle, Credits, SyncLook,
       Lock, ReviveLook, SyncRead
  <2>2. ASSUME NEW k \in Keepalives, Keepalive(k)
        PROVE  file' = file \/ persistAuthTokens(k) \/ markSessionDead(k)
    BY <2>2 DEF Keepalive, KeepaliveWait, KeepaliveLock, KeepaliveRead, Refresh, KeepaliveReread
  <2>3. ASSUME NEW o \in Operators, OperatorRead(o)
        PROVE  file' = file
    BY <2>3 DEF OperatorRead
  <2>4. ASSUME NEW g \in Registrars, RegisterRead(g)
        PROVE  file' = file
    BY <2>4 DEF RegisterRead
  <2>5. ForgetState \/ PruneLock => file' = file
    BY DEF ForgetState, PruneLock
  <2>6. UNCHANGED vars => file' = file
    BY DEF vars
  <2> QED
    BY <2>1, <2>2, <2>3, <2>4, <2>5, <2>6 DEF Next
<1> QED
  BY <1>1, <1>2, <1>3, <1>4, <1>5, <1>6, <1>7, <1>8

\* While nobody else writes between a rewrite's read of the live file and its save,
\* a park by the operator or for a dead session is only undone by the operator or
\* a login, however long ago the billing answer was asked for.
THEOREM ParkTheorem == ASSUME ~Hasty PROVE Spec => ParkStands
<1>1. IInv /\ [Next]_vars => [ParkStep]_vars
  BY NextParkStep
<1>2. ParkStands <=> [][ParkStep]_vars
  BY PTL DEF ParkStands, ParkStep
<1> QED
  BY <1>1, <1>2, Inductive, PTL DEF Spec
=============================================================================
