---------------------------- MODULE OAuthPending ----------------------------
(***************************************************************************)
(* Pending OAuth logins (oauth_pending.go, oauth_pending_flow.go,          *)
(* oauth_pending_store_unix.go, oauth.go): their contexts in memory, their *)
(* records on disk, the polls of the host and of the panel that drive      *)
(* them, the janitor, and the restarts between any two steps.              *)
(*                                                                         *)
(* A login goes through three stages, each reached by one request that     *)
(* must not be made twice: the token, the account, the saved credential.   *)
(* A poll holds its context's mutex from Acquire to its return; persist is *)
(* one step, under the lock of the pending table; the upstream answers and *)
(* the host's save are steps of their own.  Cookies, profiles and routing  *)
(* are abstracted to the failures they cause.                              *)
(***************************************************************************)
EXTENDS Integers, FiniteSets

CONSTANTS
    Logins,        \* states the upstream can issue
    Polled,        \* bound: those somebody polls for; the others are abandoned
    Polls,         \* polls that can be under way at once
    Panel,         \* those the panel sends: they store the credential themselves
    Ctxs,          \* login contexts in memory
    None,          \* no context
    MaxFiles,      \* oauthPendingMaxFiles
    LoginTTL,      \* loginTTL
    ResultTTL,     \* oauthResultTTL
    MaxNow,        \* bound: the last instant
    MaxCrashes     \* bound: how often the process restarts

ASSUME OAuthPendingConstants ==
    /\ Polled \subseteq Logins /\ Panel \subseteq Polls /\ None \notin Ctxs
    /\ IsFiniteSet(Logins) /\ IsFiniteSet(Polls) /\ IsFiniteSet(Ctxs)
    /\ Cardinality(Ctxs) >= Cardinality(Logins) + Cardinality(Polls)
    /\ MaxFiles \in Nat /\ MaxNow \in Nat /\ MaxCrashes \in Nat
    /\ LoginTTL \in Nat \ {0} /\ ResultTTL \in Nat \ {0}

VARIABLES
    now,           \* the clock
    up,            \* upstream: what has become of each login
    loginStates,   \* logins still waiting for their token
    recent,        \* logins past it, and those whose routing was blocked
    ctx,           \* loginCtx: the contexts themselves
    disk,          \* the record of each login in the auth directory, or Absent
    store,         \* has the process opened that directory?
    initErr,       \* the sticky error of configureOAuthPending
    poll,          \* the polls and their local variables
    crashes,       \* restarts so far
    reached,       \* history: the furthest stage of each login in this process
    kept,          \* history: the furthest stage acknowledged as written to disk
    told           \* history: the stage a client was told of, and until when it may ask again

memory == <<loginStates, recent, ctx>>
history == <<reached, kept, told>>
vars == <<now, up, memory, disk, store, initErr, poll, crashes, history>>

\* Stages: nothing yet, token received, account known, credential saved.
Opened == 0
Token == 1
Result == 2
Saved == 3

Times == Nat
Records == [created: Times, expires: Times, tokenAt: Times, stage: Opened..Saved]
Absent == [created |-> 0, expires |-> 0, tokenAt |-> 0, stage |-> Opened]
Contexts == [login: Logins, rec: Records, store: BOOLEAN]
ASSUME NoneIsNoContext == None \notin Contexts
Idle == [pc |-> "idle", login |-> None, ctx |-> None]
Untold == [stage |-> Opened, until |-> 0]

Holding == {"token", "keep", "account", "keepResult", "save", "keepSaved"}
Locked(c) == \E p \in Polls : poll[p].ctx = c /\ poll[p].pc \in Holding

\* A new context: any one that nothing refers to.
NewCtx == CHOOSE c \in Ctxs : /\ \A s \in Logins : loginStates[s] # c /\ recent[s] # c
                              /\ \A p \in Polls : poll[p].ctx # c

-----------------------------------------------------------------------------
(* The directory.  What can happen to it is a set of outcomes [disk, ok].    *)

Files(d) == {s \in Logins : d[s] # Absent}
\* Seeded fault: a record lives as long as its login, whatever came of it.
expiredLogin(d) == {s \in Files(d) : now >= d[s].created + LoginTTL}
Expired(d) == {s \in Files(d) : now >= d[s].expires}
Without(d, gone) == [s \in Logins |-> IF s \in gone THEN Absent ELSE d[s]]

\* validOAuthPendingRecord
Valid(r) ==
    /\ r.expires > r.created
    /\ r.expires <= r.created + LoginTTL + ResultTTL
    /\ IF r.stage = Opened
         THEN r.tokenAt = 0 /\ r.expires <= r.created + LoginTTL
         ELSE r.tokenAt >= r.created /\ r.expires <= r.tokenAt + ResultTTL

\* scan removes expired records; it fails when it cannot.
Scans(d) == {[disk |-> Without(d, gone), ok |-> gone = Expired(d)] : gone \in SUBSET Expired(d)}

\* Seeded fault: the register's own count is thought to be enough.
uncounted(d, s) == TRUE
Room(d, s) == d[s] # Absent \/ Cardinality(Files(d)) < MaxFiles

\* Seeded fault: a record that exists is not replaced.
writesOnce(d, s, r) ==
    {[disk |-> e.disk, ok |-> FALSE] : e \in Scans(d)}
        \cup {[disk |-> [e.disk EXCEPT ![s] = IF @ = Absent THEN r ELSE @], ok |-> ok] :
                 e \in {f \in Scans(d) : f.ok /\ Room(f.disk, s) /\ Valid(r)}, ok \in BOOLEAN}

\* write: scan, temporary file, rename, then a sync that can still fail.
Writes(d, s, r) ==
    {[disk |-> e.disk, ok |-> FALSE] : e \in Scans(d)}
        \cup {[disk |-> [e.disk EXCEPT ![s] = r], ok |-> ok] :
                 e \in {f \in Scans(d) : f.ok /\ Room(f.disk, s) /\ Valid(r)}, ok \in BOOLEAN}

\* remove, whose error is ignored
Removals(c) == IF ctx[c].store THEN {disk, Without(disk, {ctx[c].login})} ELSE {disk}

-----------------------------------------------------------------------------
(* The table of pending logins *)

Init ==
    /\ now = 0
    /\ up = [s \in Logins |-> "fresh"]
    /\ loginStates = [s \in Logins |-> None] /\ recent = [s \in Logins |-> None]
    /\ ctx = [c \in Ctxs |-> None]
    /\ disk = [s \in Logins |-> Absent]
    /\ store = FALSE /\ initErr = FALSE
    /\ poll = [p \in Polls |-> Idle]
    /\ crashes = 0
    /\ reached = [s \in Logins |-> Opened]
    /\ kept = [s \in Logins |-> Opened]
    /\ told = [s \in Logins |-> Untold]

\* configureOAuthPending, when the host names a directory: the first usable one is
\* kept; a relative or another one, or one that cannot be opened, is a sticky error.
configureOAuthPending ==
    /\ \/ /\ store
          /\ initErr' \in BOOLEAN
          /\ UNCHANGED <<store, disk>>
       \/ /\ ~store
          /\ \E e \in Scans(disk) :
                /\ disk' = e.disk
                /\ store' \in {FALSE, e.ok /\ Cardinality(Files(e.disk)) <= MaxFiles}
                /\ initErr' = ~store'
    /\ UNCHANGED <<now, up, memory, poll, crashes, history>>

\* startLoginWithModeRegion and registerOAuthPending.  Bound: a login starts early
\* enough to end within MaxNow.
Start(s) ==
    /\ up[s] = "fresh" /\ ~initErr
    /\ now + LoginTTL + ResultTTL <= MaxNow
    /\ Cardinality({t \in Logins : loginStates[t] # None})
         + Cardinality({t \in Logins : recent[t] # None}) < MaxFiles
    /\ loginStates[s] = None /\ recent[s] = None
    /\ store => disk[s] = Absent
    /\ LET rec == [created |-> now, expires |-> now + LoginTTL, tokenAt |-> 0, stage |-> Opened]
       IN  \E e \in IF store THEN Writes(disk, s, rec) ELSE {[disk |-> disk, ok |-> TRUE]} :
              /\ disk' = e.disk
              /\ up' = [up EXCEPT ![s] = IF e.ok THEN "open" ELSE "refused"]
              /\ IF e.ok
                   THEN /\ loginStates' = [loginStates EXCEPT ![s] = NewCtx]
                        /\ ctx' = [ctx EXCEPT ![NewCtx] = [login |-> s, rec |-> rec, store |-> store]]
                   ELSE UNCHANGED <<loginStates, ctx>>
    /\ UNCHANGED <<now, recent, store, initErr, poll, crashes, history>>

\* The operator signs in at the upstream.
Authorise(s) ==
    /\ up[s] = "open"
    /\ up' = [up EXCEPT ![s] = "authorised"]
    /\ UNCHANGED <<now, memory, disk, store, initErr, poll, crashes, history>>

\* Seeded fault: the table of finished logins is not consulted.
heldInStates(s) == loginStates[s]

\* The context the table holds for a login.
Held(s) == IF recent[s] # None THEN recent[s] ELSE loginStates[s]

\* lookupOAuthPending, a context in memory
Lookup(p, s) ==
    /\ poll[p].pc = "idle" /\ up[s] \notin {"fresh", "refused"} /\ ~initErr
    /\ Held(s) # None
    /\ poll' = [poll EXCEPT ![p] = [pc |-> "waiting", login |-> s, ctx |-> Held(s)]]
    /\ UNCHANGED <<now, up, memory, disk, store, initErr, crashes, history>>

\* lookupOAuthPending, a record on disk: it becomes a context again.
Restore(p, s) ==
    /\ poll[p].pc = "idle" /\ up[s] \notin {"fresh", "refused"} /\ ~initErr
    /\ Held(s) = None /\ store
    /\ disk[s] # Absent /\ now < disk[s].expires
    /\ ctx' = [ctx EXCEPT ![NewCtx] = [login |-> s, rec |-> disk[s], store |-> TRUE]]
    /\ IF disk[s].stage = Opened
         THEN loginStates' = [loginStates EXCEPT ![s] = NewCtx] /\ UNCHANGED recent
         ELSE recent' = [recent EXCEPT ![s] = NewCtx] /\ UNCHANGED loginStates
    /\ poll' = [poll EXCEPT ![p] = [pc |-> "waiting", login |-> s, ctx |-> NewCtx]]
    /\ UNCHANGED <<now, up, disk, store, initErr, crashes, history>>

\* lookupOAuthPending, an expired record: removed, and the state is unknown.
Discard(p, s) ==
    /\ poll[p].pc = "idle" /\ up[s] \notin {"fresh", "refused"} /\ ~initErr
    /\ Held(s) = None /\ store
    /\ disk[s] # Absent /\ now >= disk[s].expires
    /\ disk' = Without(disk, {s})
    /\ UNCHANGED <<now, up, memory, store, initErr, poll, crashes, history>>

\* retainOAuthResult
retain(s, c) ==
    /\ recent' = [recent EXCEPT ![s] = c]
    /\ loginStates' = [loginStates EXCEPT ![s] = None]

\* removeOAuthPending: the login is over, and so is what it had reached.
remove(c) ==
    LET s == ctx[c].login
    IN  /\ loginStates' = [loginStates EXCEPT ![s] = IF @ = c THEN None ELSE @]
        /\ recent' = [recent EXCEPT ![s] = IF @ = c THEN None ELSE @]
        /\ disk' \in Removals(c)
        /\ reached' = [reached EXCEPT ![s] = Opened]
        /\ kept' = [kept EXCEPT ![s] = Opened]
        /\ UNCHANGED <<ctx, told>>

-----------------------------------------------------------------------------
(* pollOAuthPending *)

Go(p, pc) == poll' = [poll EXCEPT ![p].pc = pc]
Return(p) == poll' = [poll EXCEPT ![p] = Idle]

\* Seeded fault: a poll goes on without its checkpoint.
persistAnyway(p, onward) ==
    LET c == ctx[poll[p].ctx]
    IN  \E e \in IF c.store THEN Writes(disk, c.login, c.rec) ELSE {[disk |-> disk, ok |-> TRUE]} :
           /\ disk' = e.disk
           /\ kept' = [kept EXCEPT ![c.login] = IF e.ok /\ c.store THEN c.rec.stage ELSE @]
           /\ onward

\* persistOAuthPending: on success the poll goes on, otherwise it returns.
persist(p, onward) ==
    LET c == ctx[poll[p].ctx]
    IN  \E e \in IF c.store THEN Writes(disk, c.login, c.rec) ELSE {[disk |-> disk, ok |-> TRUE]} :
           /\ disk' = e.disk
           /\ kept' = [kept EXCEPT ![c.login] = IF e.ok /\ c.store THEN c.rec.stage ELSE @]
           /\ IF e.ok THEN onward ELSE Return(p) /\ UNCHANGED told

\* The mutex of the context is free; an expired login ends here.
Acquire(p) ==
    LET c == poll[p].ctx
    IN  /\ poll[p].pc = "waiting" /\ ~Locked(c)
        /\ IF now >= ctx[c].rec.expires
             THEN remove(c) /\ Return(p)
             ELSE /\ Go(p, CASE ctx[c].rec.stage = Opened -> "token"
                             [] ctx[c].rec.stage = Token -> "keep"
                             [] OTHER -> "keepResult")
                  /\ UNCHANGED <<memory, disk, history>>
        /\ UNCHANGED <<now, up, store, initErr, crashes>>

\* Routing is blocked: the login is kept but not polled for.
Blocked(p) ==
    /\ poll[p].pc = "token"
    /\ retain(poll[p].login, poll[p].ctx)
    /\ Return(p)
    /\ UNCHANGED <<now, up, ctx, disk, store, initErr, crashes, history>>

\* auth/token brings no token: not yet, an error, or an answer lost on its way.
NoToken(p) ==
    /\ poll[p].pc = "token"
    /\ \/ UNCHANGED up
       \/ /\ up[poll[p].login] = "authorised"
          /\ up' = [up EXCEPT ![poll[p].login] = "consumed"]
    /\ persist(p, Return(p) /\ UNCHANGED told)
    /\ UNCHANGED <<now, memory, store, initErr, crashes, reached>>

\* Seeded fault: the new deadline is not limited.
uncapped(r) == now + ResultTTL
Deadline(r) ==
    IF now + ResultTTL > r.created + LoginTTL + ResultTTL
      THEN r.created + LoginTTL + ResultTTL ELSE now + ResultTTL

\* auth/token answers, and the token is kept in memory.
GetToken(p) ==
    LET s == poll[p].login
        r == ctx[poll[p].ctx].rec
    IN  /\ poll[p].pc = "token" /\ up[s] = "authorised"
        /\ up' = [up EXCEPT ![s] = "consumed"]
        /\ ctx' = [ctx EXCEPT ![poll[p].ctx].rec =
                      [r EXCEPT !.stage = Token, !.tokenAt = now, !.expires = Deadline(r)]]
        /\ retain(s, poll[p].ctx)
        /\ reached' = [reached EXCEPT ![s] = Token]
        /\ Go(p, "keep")
        /\ UNCHANGED <<now, disk, store, initErr, crashes, kept, told>>

\* The token is checkpointed before the account is looked up.
Keep(p) ==
    /\ poll[p].pc = "keep"
    /\ persist(p, Go(p, "account") /\ UNCHANGED told)
    /\ UNCHANGED <<now, up, memory, store, initErr, crashes, reached>>

\* Routing is blocked, or the answer cannot be used: the next poll tries again.
AccountUnusable(p) ==
    /\ poll[p].pc = "account"
    /\ Return(p)
    /\ UNCHANGED <<now, up, memory, disk, store, initErr, crashes, history>>

\* login/account fails: its cookies are checkpointed all the same.
AccountFails(p) ==
    /\ poll[p].pc = "account"
    /\ persist(p, Return(p) /\ UNCHANGED told)
    /\ UNCHANGED <<now, up, memory, store, initErr, crashes, reached>>

\* login/account answers.
GetAccount(p) ==
    /\ poll[p].pc = "account"
    /\ ctx' = [ctx EXCEPT ![poll[p].ctx].rec.stage = Result]
    /\ reached' = [reached EXCEPT ![poll[p].login] = Result]
    /\ Go(p, "keepResult")
    /\ UNCHANGED <<now, up, loginStates, recent, disk, store, initErr, crashes, kept, told>>

\* The poll answers success, with the stage it stands for.
Tell(p, stage) ==
    LET c == ctx[poll[p].ctx]
    IN  /\ told' = [told EXCEPT ![c.login] =
                       IF c.store /\ stage >= @.stage THEN [stage |-> stage, until |-> c.rec.expires] ELSE @]
        /\ Return(p)

\* The result is checkpointed; the host's poll is done, the panel's has it saved.
KeepResult(p) ==
    /\ poll[p].pc = "keepResult"
    /\ persist(p, IF p \in Panel /\ ctx[poll[p].ctx].rec.stage < Saved
                    THEN Go(p, "save") /\ UNCHANGED told
                    ELSE Tell(p, IF p \in Panel THEN Saved ELSE Result))
    /\ UNCHANGED <<now, up, memory, store, initErr, crashes, reached>>

\* host.auth.save: refused, or done.
SaveFails(p) ==
    /\ poll[p].pc = "save"
    /\ Return(p)
    /\ UNCHANGED <<now, up, memory, disk, store, initErr, crashes, history>>

Save(p) ==
    /\ poll[p].pc = "save"
    /\ ctx' = [ctx EXCEPT ![poll[p].ctx].rec.stage = Saved]
    /\ reached' = [reached EXCEPT ![poll[p].login] = Saved]
    /\ Go(p, "keepSaved")
    /\ UNCHANGED <<now, up, loginStates, recent, disk, store, initErr, crashes, kept, told>>

KeepSaved(p) ==
    /\ poll[p].pc = "keepSaved"
    /\ persist(p, Tell(p, Saved))
    /\ UNCHANGED <<now, up, memory, store, initErr, crashes, reached>>

-----------------------------------------------------------------------------
(* The janitor, restarts and the clock *)

\* Seeded fault: the logins past their token are not looked at.
pruneStates(c) ==
    /\ \E s \in Logins : loginStates[s] = c
    /\ ~Locked(c) /\ now >= ctx[c].rec.expires
    /\ remove(c)
    /\ UNCHANGED <<now, up, store, initErr, poll, crashes>>

\* pruneOAuthPending, one entry: TryLock, and away with an expired login.
Prune(c) ==
    /\ \E s \in Logins : loginStates[s] = c \/ recent[s] = c
    /\ ~Locked(c) /\ now >= ctx[c].rec.expires
    /\ remove(c)
    /\ UNCHANGED <<now, up, store, initErr, poll, crashes>>

\* pruneOAuthPending, the directory
PruneScan ==
    /\ store
    /\ \E e \in Scans(disk) : disk' = e.disk
    /\ UNCHANGED <<now, up, memory, store, initErr, poll, crashes, history>>

\* The process restarts: memory is gone, and what was never acknowledged with it.
Crash ==
    /\ crashes < MaxCrashes
    /\ crashes' = crashes + 1
    /\ loginStates' = [s \in Logins |-> None] /\ recent' = [s \in Logins |-> None]
    /\ ctx' = [c \in Ctxs |-> None]
    /\ store' = FALSE /\ initErr' = FALSE
    /\ poll' = [p \in Polls |-> Idle]
    /\ reached' = kept
    /\ UNCHANGED <<now, up, disk, kept, told>>

Tick ==
    /\ now < MaxNow
    /\ now' = now + 1
    /\ UNCHANGED <<up, memory, disk, store, initErr, poll, crashes, history>>

\* What a poll past its lookup does next.
Step(p) ==
    \/ Blocked(p) \/ NoToken(p) \/ GetToken(p) \/ Keep(p)
    \/ AccountUnusable(p) \/ AccountFails(p) \/ GetAccount(p)
    \/ KeepResult(p) \/ SaveFails(p) \/ Save(p) \/ KeepSaved(p)

Next ==
    \/ configureOAuthPending \/ PruneScan \/ Crash \/ Tick
    \/ \E s \in Logins : Start(s) \/ Authorise(s)
    \/ \E p \in Polls, s \in Polled : Lookup(p, s) \/ Restore(p, s) \/ Discard(p, s)
    \/ \E p \in Polls : Acquire(p) \/ Step(p)
    \/ \E c \in Ctxs : Prune(c)

Spec == Init /\ [][Next]_vars

FairSpec ==
    /\ Spec /\ WF_vars(Tick)
    /\ \A p \in Polls : SF_vars(Acquire(p)) /\ WF_vars(Step(p))
    /\ \A c \in Ctxs : WF_vars(Prune(c))

-----------------------------------------------------------------------------
(* Properties *)

TypeOK ==
    /\ now \in 0..MaxNow /\ crashes \in 0..MaxCrashes
    /\ up \in [Logins -> {"fresh", "refused", "open", "authorised", "consumed"}]
    /\ loginStates \in [Logins -> Ctxs \cup {None}] /\ recent \in [Logins -> Ctxs \cup {None}]
    /\ ctx \in [Ctxs -> Contexts \cup {None}]
    /\ disk \in [Logins -> Records]
    /\ store \in BOOLEAN /\ initErr \in BOOLEAN
    /\ poll \in [Polls -> [pc: {"idle", "waiting"} \cup Holding, login: Logins \cup {None},
                           ctx: Ctxs \cup {None}]]
    /\ reached \in [Logins -> Opened..Saved] /\ kept \in [Logins -> Opened..Saved]
    /\ told \in [Logins -> [stage: Opened..Saved, until: Times]]
    \* A context in a table, or in use, is one of that login.
    /\ \A s \in Logins, c \in Ctxs : loginStates[s] = c \/ recent[s] = c => ctx[c] # None /\ ctx[c].login = s
    /\ \A p \in Polls : poll[p].pc # "idle" => ctx[poll[p].ctx] # None /\ ctx[poll[p].ctx].login = poll[p].login

\* What a login has been given is not asked for again: no token request once a token
\* was received, no account request once the account is known, no second save, by
\* whichever poll, until the login is over; across a restart, as far as a write was
\* acknowledged (pollOAuthPending).
NeverRepeated ==
    \A p \in Polls :
        /\ poll[p].pc = "token" => reached[poll[p].login] = Opened
        /\ poll[p].pc = "account" => reached[poll[p].login] <= Token
        /\ poll[p].pc = "save" => reached[poll[p].login] <= Result

\* One poll at a time acts for a login, also when its context was lost and read back
\* from disk (lookupOAuthPending, loginCtx.mu).
OneConsumer ==
    \A p, q \in Polls :
        poll[p].pc \in Holding /\ poll[q].pc \in Holding /\ poll[p].login = poll[q].login => p = q

\* The account is looked up, and the credential saved, only after the stage before was
\* acknowledged on disk ("Checkpoint token BEFORE account lookup").
CheckpointFirst ==
    \A p \in Polls :
        poll[p].pc \in {"account", "save"} /\ ctx[poll[p].ctx].store =>
            kept[poll[p].login] >= IF poll[p].pc = "account" THEN Token ELSE Result

\* A login reported as successful is found again after any restart, at the stage that
\* was reported, for as long as it may be asked for (KeepResult, KeepSaved).
SuccessDurable ==
    \A s \in Logins : now < told[s].until => disk[s] # Absent /\ disk[s].stage >= told[s].stage

\* The directory never holds more records than it may, whatever was forgotten by a
\* restart or could not be removed (write, registerOAuthPending).
FilesBounded == Cardinality(Files(disk)) <= MaxFiles

\* A login in memory can always be written: its record stays within what a reader
\* accepts, however late its token came (validOAuthPendingRecord).
AlwaysWritable == \A s \in Logins : Held(s) # None => Valid(ctx[Held(s)].rec)

\* The directory stays usable through crashes, failed removals and late tokens: no
\* more records than it may hold, every one acceptable to a later reader, and every
\* context found under its own login (write, writeCheckpoint, lookupOAuthPending).
DirectoryUsable == TypeOK /\ FilesBounded /\ AlwaysWritable

\* A login leaves memory, polled for or abandoned (pruneOAuthPending).
LoginsEnd == \A s \in Logins : Held(s) # None ~> Held(s) = None
=============================================================================
