------------------------------ MODULE AuthFile ------------------------------
(***************************************************************************)
(* The credential file of one account and everyone who rewrites it: the    *)
(* reconciler (lifecycle.go), the panel's note refresh, the keepalive      *)
(* (keepalive.go), the operator's switch, rename and delete                *)
(* (management.go), the re-registration after a catalog refresh            *)
(* (model_catalog_single.go), and the host, which rotates tokens and       *)
(* stores new logins on its own.                                           *)
(*                                                                         *)
(* host.auth.get and host.auth.save are separate steps, and so is every    *)
(* upstream request between them.  The per-account lock is the one of      *)
(* checkin.go; who takes it is part of each action.  Tokens are numbered   *)
(* in the order the upstream issued them; display text is abstracted to    *)
(* the facts it shows.                                                     *)
(***************************************************************************)
EXTENDS Integers, FiniteSets

CONSTANTS
    Reconciles,    \* reconciliations and note refreshes, each used once
    Keepalives,    \* token refreshes under the lock
    Operators,     \* panel requests on the account
    Registrars,    \* re-registrations after a catalog refresh
    None,          \* nobody holds the lock
    Balances,      \* balances a note can show
    CN,            \* the account's realm: TRUE for CN, FALSE for Global
    Legacy,        \* bound: may the account start as parked by an earlier release?
    Hasty,         \* bound: does anyone act between another's host.auth.get and save?
    Hosts,         \* bound: does the host rotate tokens and store logins?
    MaxTok,        \* bound: the last tokens issued
    MaxMutex,      \* bound: how often the account's mutex is pruned
    NoNote, Dead   \* the notes of an unknown balance and of a dead session

Procs == Reconciles \cup Keepalives \cup Operators \cup Registrars

ASSUME AuthFileConstants ==
    /\ None \notin Procs
    /\ Reconciles \cap Keepalives = {} /\ Operators \cap Registrars = {}
    /\ (Reconciles \cup Keepalives) \cap (Operators \cup Registrars) = {}
    /\ NoNote \notin Balances /\ Dead \notin Balances /\ NoNote # Dead
    /\ CN \in BOOLEAN /\ Legacy \in BOOLEAN /\ Hasty \in BOOLEAN /\ Hosts \in BOOLEAN
    /\ MaxTok \in Nat /\ MaxMutex \in Nat

VARIABLES
    file,      \* the credential file, or Absent
    memory,    \* lifecycleState: what was last written, while it is fresh
    entry,     \* checkinLocks[account]: the mutex a new caller gets
    lock,      \* who holds each mutex
    issued,    \* upstream: the newest tokens
    alive,     \* upstream: is the offline session of the login still there?
    row,       \* lastKeepalive: the account's status in the last keepalive report
    proc       \* the runs and their local variables

vars == <<file, memory, entry, lock, issued, alive, row, proc>>

Mutexes == 0..MaxMutex
Reasons == {"none", "exhausted", "session_dead", "manual"}
Notes == Balances \cup {NoNote, Dead}

\* The document: the tokens it stores, the parked flag and its reason ("none" when
\* the key is absent), the note's balance segment, the display name.
Files == [tok: Nat, disabled: BOOLEAN, reason: Reasons, note: Notes, name: 0..2]
Absent == [tok |-> 0, disabled |-> TRUE, reason |-> "none", note |-> NoNote, name |-> 2]

\* lifecycleState entry; Unset is no entry or an expired one.
Unset == [disabled |-> FALSE, note |-> "unset"]

Idle == [pc |-> "idle", sa |-> Absent, live |-> Absent, credits |-> NoNote, parked |-> FALSE,
         goal |-> "none", mu |-> 0]
Done == [Idle EXCEPT !.pc = "done"]
Rows == {"none", "refreshed", "failed", "error", "session-dead"}

-----------------------------------------------------------------------------
(* policy.go and authfile.go *)

\* shouldReenableCN: only the retired reason is undone.
shouldReenableCN(disabled, reason) == disabled /\ reason = "exhausted"

\* buildAuthFileJSONFrom: the login and the name come from the credential the
\* caller holds, everything it does not mention from the base document.
buildAuthFileJSONFrom(base, sa, disabled, note) ==
    [base EXCEPT !.tok = sa.tok, !.name = sa.name, !.disabled = disabled, !.note = note]

\* displayNoteWithPrev: an unknown balance keeps the segment shown before.
displayNote(credits, prev) == IF credits = NoNote THEN prev ELSE credits

lifecycleStateUnchanged(disabled, note) == memory = [disabled |-> disabled, note |-> note]

\* The states the account starts in: enabled, or parked by an earlier release with
\* or without a reason on record.
Init ==
    /\ \E disabled \in {FALSE, Legacy}, reason \in {"none", "exhausted"} :
          /\ reason # "none" => disabled
          /\ file = [tok |-> 1, disabled |-> disabled, reason |-> reason,
                     note |-> NoNote, name |-> 0]
    /\ memory = Unset
    /\ entry = 0
    /\ lock = [mu \in Mutexes |-> None]
    /\ issued = 1
    /\ alive = TRUE
    /\ row = "none"
    /\ proc = [p \in Procs |-> Idle]

\* checkinLockFor hands out the mutex; the caller locks it in a later step.
Take(p) == lock[proc[p].mu] = None /\ lock' = [lock EXCEPT ![proc[p].mu] = p]
Unlock(p) == lock' = [lock EXCEPT ![proc[p].mu] = None]
Leave(p) == Unlock(p) /\ proc' = [proc EXCEPT ![p] = Done]

\* pruneCheckinLocks: a deleted account's mutex is dropped, held or not.
PruneLock ==
    /\ file = Absent /\ entry < MaxMutex
    /\ entry' = entry + 1
    /\ UNCHANGED <<file, memory, lock, issued, alive, row, proc>>

\* Bound: with Hasty FALSE nobody else touches the file between a get and its save.
Free(p) == Hasty \/ \A q \in Procs \ {p} : proc[q].pc # "save"

(***************************************************************************)
(* reconcileOneAccount and the panel's note refresh                        *)
(***************************************************************************)

\* A check-in holds the same lock during its upstream calls and reconciles only
\* after it has released it (processAutoCheckinAccount).
CheckinWait(p) ==
    /\ proc[p].pc = "idle"
    /\ proc' = [proc EXCEPT ![p].pc = "wait", ![p].mu = entry]
    /\ UNCHANGED <<file, memory, entry, lock, issued, alive, row>>

CheckinLock(p) ==
    /\ proc[p].pc = "wait"
    /\ Take(p)
    /\ proc' = [proc EXCEPT ![p].pc = "checkin"]
    /\ UNCHANGED <<file, memory, entry, issued, alive, row>>

\* Seeded fault: the reconciliation runs inside the check-in's critical section.
CheckinKeepsLock(p) ==
    /\ proc[p].pc = "checkin"
    /\ proc' = [proc EXCEPT ![p].pc = "read"]
    /\ UNCHANGED <<file, memory, entry, lock, issued, alive, row>>

CheckinUnlock(p) ==
    /\ proc[p].pc = "checkin"
    /\ Unlock(p)
    /\ proc' = [proc EXCEPT ![p].pc = "read"]
    /\ UNCHANGED <<file, memory, entry, issued, alive, row>>

\* host.auth.get: the credential used from here on, and the parked flag.
ReadBundle(p) ==
    /\ proc[p].pc \in {"idle", "read"}
    /\ proc' = [proc EXCEPT ![p] =
                  IF file = Absent THEN Done
                  ELSE [Idle EXCEPT !.pc = "credits", !.sa = file]]
    /\ UNCHANGED <<file, memory, entry, lock, issued, alive, row>>

\* The billing answer.  A reconciler brings a CN account back, rewrites the note or
\* gives up without a balance; the panel only ever rewrites the note.
Credits(p) ==
    /\ proc[p].pc = "credits"
    /\ \E cr \in Balances \cup {NoNote}, parked \in {proc[p].sa.disabled, FALSE} :
          \/ /\ CN /\ cr # NoNote
             /\ shouldReenableCN(proc[p].sa.disabled, proc[p].sa.reason)
             /\ proc' = [proc EXCEPT ![p].credits = cr, ![p].pc = "lock", ![p].goal = "revive",
                                     ![p].mu = entry]
          \/ proc' = [proc EXCEPT ![p].credits = cr, ![p].pc = "look",
                                  ![p].parked = parked, ![p].goal = "note"]
          \/ cr = NoNote /\ proc' = [proc EXCEPT ![p] = Done]
    /\ UNCHANGED <<file, memory, entry, lock, issued, alive, row>>

\* syncAuthNote before the lock: nothing new to show.
SyncLook(p) ==
    /\ proc[p].pc = "look"
    /\ LET note == displayNote(proc[p].credits, file.note) IN
       proc' = [proc EXCEPT ![p] = IF lifecycleStateUnchanged(proc[p].parked, note)
                                   THEN Done ELSE [@ EXCEPT !.pc = "lock", !.mu = entry]]
    /\ UNCHANGED <<file, memory, entry, lock, issued, alive, row>>

Lock(p) ==
    /\ proc[p].pc = "lock"
    /\ Take(p)
    /\ proc' = [proc EXCEPT ![p].pc = "live"]
    /\ UNCHANGED <<file, memory, entry, issued, alive, row>>

\* Seeded fault: the decision taken before the billing request stands.
ReviveBlind(p) ==
    /\ proc[p].pc = "live" /\ proc[p].goal = "revive" /\ Free(p)
    /\ \/ /\ file # Absent
          /\ proc' = [proc EXCEPT ![p].live = file, ![p].pc = "save"]
          /\ UNCHANGED lock
       \/ /\ file = Absent
          /\ Leave(p)
    /\ UNCHANGED <<file, memory, entry, issued, alive, row>>

\* reenableAuth under the lock: the live file must still be parked for
\* exhaustion.
ReviveLook(p) ==
    /\ proc[p].pc = "live" /\ proc[p].goal = "revive" /\ Free(p)
    /\ LET stands == /\ ~lifecycleStateUnchanged(FALSE, proc[p].credits)
                     /\ file # Absent /\ shouldReenableCN(file.disabled, file.reason)
       IN  \/ /\ stands
              /\ proc' = [proc EXCEPT ![p].live = file, ![p].pc = "save"]
              /\ UNCHANGED lock
           \/ /\ ~stands
              /\ Leave(p)
    /\ UNCHANGED <<file, memory, entry, issued, alive, row>>

\* Seeded fault: the reason stays behind.
ReviveKeepsReason(p) ==
    /\ proc[p].pc = "save" /\ proc[p].goal = "revive"
    /\ LET r == proc[p] IN
       /\ file' = buildAuthFileJSONFrom(r.live, r.sa, FALSE, r.credits)
       /\ memory' = [disabled |-> FALSE, note |-> r.credits]
    /\ Leave(p)
    /\ UNCHANGED <<entry, issued, alive, row>>

\* Save the revived file without its reason, or fail to.
Revive(p) ==
    /\ proc[p].pc = "save" /\ proc[p].goal = "revive"
    /\ \/ LET r == proc[p] IN
          /\ file' = [buildAuthFileJSONFrom(r.live, r.sa, FALSE, r.credits)
                        EXCEPT !.reason = "none"]
          /\ memory' = [disabled |-> FALSE, note |-> r.credits]
       \/ UNCHANGED <<file, memory>>
    /\ Leave(p)
    /\ UNCHANGED <<entry, issued, alive, row>>

\* syncAuthNote under the lock: the parked flag is the live one.
SyncRead(p) ==
    /\ proc[p].pc = "live" /\ proc[p].goal = "note" /\ Free(p)
    /\ \/ /\ file # Absent
          /\ ~lifecycleStateUnchanged(file.disabled, displayNote(proc[p].credits, file.note))
          /\ proc' = [proc EXCEPT ![p].live = file, ![p].pc = "save"]
          /\ UNCHANGED lock
       \/ /\ \/ file = Absent
             \/ lifecycleStateUnchanged(file.disabled, displayNote(proc[p].credits, file.note))
          /\ Leave(p)
    /\ UNCHANGED <<file, memory, entry, issued, alive, row>>

syncAuthNote(p) ==
    /\ proc[p].pc = "save" /\ proc[p].goal = "note"
    /\ \/ LET r == proc[p]
              note == displayNote(r.credits, r.live.note)
          IN  /\ file' = buildAuthFileJSONFrom(r.live, r.sa, r.live.disabled, note)
              /\ memory' = [disabled |-> r.live.disabled, note |-> note]
       \/ UNCHANGED <<file, memory>>
    /\ Leave(p)
    /\ UNCHANGED <<entry, issued, alive, row>>

\* lifecycleSaveTTL passes, or the dashboard prunes the entry.
ForgetState ==
    /\ memory # Unset
    /\ memory' = Unset
    /\ UNCHANGED <<file, entry, lock, issued, alive, row, proc>>

(***************************************************************************)
(* refreshOneAuth                                                          *)
(***************************************************************************)

KeepaliveWait(k) ==
    /\ proc[k].pc = "idle"
    /\ proc' = [proc EXCEPT ![k].pc = "wait", ![k].mu = entry]
    /\ UNCHANGED <<file, memory, entry, lock, issued, alive, row>>

KeepaliveLock(k) ==
    /\ proc[k].pc = "wait"
    /\ Take(k)
    /\ proc' = [proc EXCEPT ![k].pc = "read"]
    /\ UNCHANGED <<file, memory, entry, issued, alive, row>>

\* The run reports its status, releases the lock and ends.
Report(k, status) == row' = status /\ Leave(k)

KeepaliveRead(k) ==
    /\ proc[k].pc = "read"
    /\ \/ /\ file # Absent
          /\ proc' = [proc EXCEPT ![k].sa = file, ![k].pc = "refresh"]
          /\ UNCHANGED <<lock, row>>
       \/ /\ file = Absent
          /\ Report(k, "error")
    /\ UNCHANGED <<file, memory, entry, issued, alive>>

\* Seeded fault: an answer without an access token is taken for a refresh.
RefreshBlank(k) ==
    /\ proc[k].pc = "refresh"
    /\ proc' = [proc EXCEPT ![k].sa.tok = -1, ![k].pc = "refreshed", ![k].goal = "tokens"]
    /\ UNCHANGED <<file, memory, entry, lock, issued, alive, row>>

\* The upstream rotates the tokens, reports the session dead, or fails.
Refresh(k) ==
    /\ proc[k].pc = "refresh"
    /\ \/ /\ alive /\ issued < MaxTok
          /\ issued' = issued + 1
          /\ proc' = [proc EXCEPT ![k].sa.tok = issued + 1, ![k].pc = "refreshed",
                                  ![k].goal = "tokens"]
          /\ UNCHANGED <<lock, alive, row>>
       \/ /\ alive' = FALSE
          /\ proc' = [proc EXCEPT ![k].pc = "refreshed", ![k].goal = "dead"]
          /\ UNCHANGED <<lock, issued, row>>
       \/ /\ Report(k, "failed")
          /\ UNCHANGED <<issued, alive>>
    /\ UNCHANGED <<file, memory, entry>>

\* persistAuthTokens and markSessionDead read the live file.  A file that is parked
\* already, for whatever reason, is left alone and the run reports success.
KeepaliveReread(k) ==
    /\ proc[k].pc = "refreshed" /\ Free(k)
    /\ \/ /\ file # Absent
          /\ proc[k].goal = "dead" => ~file.disabled
          /\ proc' = [proc EXCEPT ![k].live = file, ![k].pc = "save"]
          /\ UNCHANGED <<lock, row>>
       \/ /\ file = Absent
          /\ Report(k, "error")
       \/ /\ file # Absent
          /\ proc[k].goal = "dead" /\ file.disabled
          /\ Report(k, "session-dead")
    /\ UNCHANGED <<file, memory, entry, issued, alive>>

\* buildRefreshedAuthJSON: the login and the name the run holds, over the live
\* file.
persistAuthTokens(k) ==
    /\ proc[k].pc = "save" /\ proc[k].goal = "tokens"
    /\ \/ /\ file' = [proc[k].live EXCEPT !.tok = proc[k].sa.tok, !.name = proc[k].sa.name]
          /\ Report(k, "refreshed")
       \/ /\ UNCHANGED file
          /\ Report(k, "error")
    /\ UNCHANGED <<entry, memory, issued, alive>>

markSessionDead(k) ==
    /\ proc[k].pc = "save" /\ proc[k].goal = "dead"
    /\ \/ /\ file' = [proc[k].live EXCEPT !.disabled = TRUE, !.note = Dead,
                                          !.reason = "session_dead"]
          /\ Report(k, "session-dead")
       \/ /\ UNCHANGED file
          /\ Report(k, "error")
    /\ UNCHANGED <<entry, memory, issued, alive>>

(***************************************************************************)
(* The operator, the re-registration and the host: none takes the lock     *)
(***************************************************************************)

Goals == {"park", "enable", "rename", "delete"}

\* host.auth.get of a management handler.
OperatorRead(o) ==
    /\ proc[o].pc = "idle" /\ Free(o)
    /\ file # Absent
    /\ \E goal \in Goals :
          proc' = [proc EXCEPT ![o].pc = "save", ![o].live = file, ![o].goal = goal]
    /\ UNCHANGED <<file, memory, entry, lock, issued, alive, row>>

\* What each handler leaves, given the file it read; "delete" leaves none.
OperatorFile(goal, f) ==
    CASE goal = "park" -> [f EXCEPT !.disabled = TRUE, !.reason = "manual"]
      [] goal = "enable" -> [f EXCEPT !.disabled = FALSE, !.reason = "none"]
      [] goal = "rename" -> [f EXCEPT !.name = 1]
      [] OTHER -> Absent

OperatorSave(o) ==
    /\ proc[o].pc = "save"
    /\ file' \in {OperatorFile(proc[o].goal, proc[o].live), file}
    /\ proc' = [proc EXCEPT ![o] = Done]
    /\ UNCHANGED <<entry, memory, lock, issued, alive, row>>

\* triggerHostAuthReregister: the file as it was read is saved back.
RegisterRead(g) ==
    /\ proc[g].pc = "idle" /\ Free(g)
    /\ file # Absent
    /\ proc' = [proc EXCEPT ![g].pc = "save", ![g].live = file]
    /\ UNCHANGED <<file, memory, entry, lock, issued, alive, row>>

RegisterSave(g) ==
    /\ proc[g].pc = "save"
    /\ file' \in {proc[g].live, file}
    /\ proc' = [proc EXCEPT ![g] = Done]
    /\ UNCHANGED <<entry, memory, lock, issued, alive, row>>

\* A login replaces the credential.
HostLogin ==
    /\ Hosts /\ issued < MaxTok /\ Free(None)
    /\ issued' = issued + 1 /\ alive' = TRUE
    /\ file' = [tok |-> issued + 1, disabled |-> FALSE, reason |-> "none",
                note |-> NoNote, name |-> 0]
    /\ UNCHANGED <<entry, memory, lock, row, proc>>

\* The host refreshes the tokens through handleRefreshAuth and saves them.
HostRefresh ==
    /\ Hosts /\ alive /\ issued < MaxTok /\ Free(None)
    /\ file # Absent
    /\ issued' = issued + 1
    /\ file' = [file EXCEPT !.tok = issued + 1]
    /\ UNCHANGED <<entry, memory, lock, alive, row, proc>>

-----------------------------------------------------------------------------
Reconcile(p) ==
    \/ CheckinLock(p) \/ CheckinUnlock(p) \/ ReadBundle(p) \/ Credits(p) \/ SyncLook(p) \/ Lock(p)
    \/ ReviveLook(p) \/ Revive(p) \/ SyncRead(p) \/ syncAuthNote(p)

Keepalive(k) ==
    \/ KeepaliveWait(k) \/ KeepaliveLock(k) \/ KeepaliveRead(k) \/ Refresh(k) \/ KeepaliveReread(k)
    \/ persistAuthTokens(k) \/ markSessionDead(k)

Next ==
    \/ \E p \in Reconciles : CheckinWait(p) \/ Reconcile(p)
    \/ \E k \in Keepalives : Keepalive(k)
    \/ \E o \in Operators : OperatorRead(o) \/ OperatorSave(o)
    \/ \E g \in Registrars : RegisterRead(g) \/ RegisterSave(g)
    \/ ForgetState \/ PruneLock \/ HostLogin \/ HostRefresh

Spec == Init /\ [][Next]_vars

\* Goroutines run, upstream and host answer, and a waiting goroutine gets the
\* mutex in the end (sync.Mutex does not starve its waiters).
FairSpec ==
    /\ Spec
    /\ \A p \in Reconciles : WF_vars(Reconcile(p)) /\ SF_vars(CheckinLock(p) \/ Lock(p))
    /\ \A k \in Keepalives : WF_vars(Keepalive(k)) /\ SF_vars(KeepaliveLock(k))
    /\ \A o \in Operators : WF_vars(OperatorSave(o))
    /\ \A g \in Registrars : WF_vars(RegisterSave(g))

-----------------------------------------------------------------------------
(* Properties *)

Pcs == {"idle", "wait", "checkin", "read", "credits", "look", "lock", "live", "save",
        "refresh", "refreshed", "done"}
Runs == [pc: Pcs, sa: Files, live: Files, credits: Balances \cup {NoNote}, parked: BOOLEAN,
         goal: Goals \cup {"none", "revive", "note", "tokens", "dead"}, mu: Mutexes]

\* Types of the document, of the remembered save and of the runs.
TypeOK ==
    /\ file \in Files
    /\ memory \in [disabled: BOOLEAN, note: Notes \cup {"unset"}]
    /\ entry \in Mutexes /\ lock \in [Mutexes -> Procs \cup {None}]
    /\ issued \in Nat /\ alive \in BOOLEAN /\ row \in Rows
    /\ proc \in [Procs -> Runs]

\* disabled_reason describes why the account is parked now: no interleaving of
\* the writers, whichever stale document each of them holds, leaves a reason on
\* an account that is enabled (reenableAuth: "leaving a stale one behind would
\* make the NEXT disable decision read a reason that no longer describes this
\* credential's state").
ReasonOnlyWhenDisabled == file.reason # "none" => file.disabled

\* A park by the operator or for a dead session is undone by a request of the
\* operator or a login, never by a reconciliation that decided on an older
\* document, a note refresh, a token refresh or a re-registration (policy.go:
\* "Automation must never undo a deliberate choice").
ParkStands ==
    [][file.disabled /\ file.reason \in {"manual", "session_dead"} =>
          \/ file'.disabled /\ file'.reason = file.reason
          \/ HostLogin
          \/ \E o \in Operators : OperatorSave(o)]_vars

\* Every reconciliation and every token refresh ends and frees the lock: nothing
\* waits for the account lock while holding it.
RunsReturn ==
    \A p \in Reconciles \cup Keepalives : proc[p].pc # "idle" ~> proc[p].pc = "done"

\* An account whose keepalive reported a dead session stays parked until the
\* operator or a login brings it back (keepalive.go: "reviving a dead session is
\* precisely what must not happen").
DeadStaysParked ==
    [][row = "session-dead" /\ ~alive /\ file.disabled =>
          file'.disabled \/ HostLogin \/ \E o \in Operators : OperatorSave(o)]_vars
=============================================================================
