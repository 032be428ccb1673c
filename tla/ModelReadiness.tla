--------------------------- MODULE ModelReadiness ---------------------------
(***************************************************************************)
(* Model discovery (model_readiness.go): per-account slots gated by a      *)
(* generation, per-identity catalog flights, one process-wide models.dev   *)
(* flight, and the refresh, reconfigure and token-refresh paths that       *)
(* retire or republish what discovery found.                               *)
(*                                                                         *)
(* A call is one run of ensureForAuth, or of a refresh that wraps one.     *)
(* Each critical section (configCommitMu, slot.mu, identitySlot.mu and     *)
(* metadataMu, always taken in that order) is one step; network and disk   *)
(* answers are nondeterministic and arrive in a step of their own.         *)
(* Catalog and metadata contents are abstracted to where they came from.   *)
(***************************************************************************)
EXTENDS Integers, FiniteSets

CONSTANTS
    Calls,        \* discovery runs, each used once
    Auths,        \* host auth IDs: one slot each
    Tokens,       \* access tokens found in valid stored credentials
    Bad,          \* a stored credential that does not parse
    NoToken,      \* the zero token of a key that only names a generation
    Identities,   \* identity SHA-256 values
    IdentityOf,   \* the identity a credential belongs to
    Lists,        \* configured `models` lists
    NoList,       \* no configured list: the catalog is discovered
    Writers,      \* goroutines that commit a feature configuration
    NoCall,       \* nil call pointer
    Refreshing,   \* bound: may calls be refreshes?
    MaxGen,       \* bound: highest config generation explored
    MaxAuth       \* bound: highest auth generation a token refresh may start

ASSUME ReadinessConstants ==
    /\ Bad \notin Tokens /\ NoToken \notin Tokens
    /\ IdentityOf \in [Tokens -> Identities]
    /\ NoList \notin Lists
    /\ NoCall \notin Calls
    /\ Refreshing \in BOOLEAN
    /\ MaxGen \in Nat
    /\ MaxAuth \in Nat

VARIABLES
    gen,       \* configGeneration
    features,  \* featureRuntime: the configured list and the order/context tier
    commit,    \* commitFeatureRuntime runs between their read and their lock
    storeOK,   \* r.store is usable (storeError is none)
    slot,      \* authSlots
    ident,     \* identitySlots
    disk,      \* persisted catalogs: who wrote the current one
    meta,      \* metadataResult, metadataCache, metadataCall
    call       \* the discovery runs and their local variables

vars == <<gen, features, commit, storeOK, slot, ident, disk, meta, call>>

Keys == [cfg: Nat, tok: Tokens \cup {NoToken}]
BlankKey(g) == [cfg |-> g, tok |-> NoToken]

States == {"not_started", "loading", "ready", "stale", "failed"}
Executable == {"ready", "stale"}

(* A published snapshot.  `for` and `list` record which key and which       *)
(* configured list its content was discovered for; `restored` whether       *)
(* restoreModelSnapshot put it there.                                       *)
Snapshots ==
    [state: States, cfg: Nat, auth: Nat, for: Keys, list: Lists \cup {NoList},
     restored: BOOLEAN]

Nil == [state |-> "nil"]

Snapshot(state, g, n, k, l) ==
    [state |-> state, cfg |-> g, auth |-> n, for |-> k, list |-> l, restored |-> FALSE]

notStartedModelReadinessSnapshot(g) ==
    Snapshot("not_started", g, 0, BlankKey(g), NoList)

NoWrite == [cfg |-> 0, seq |-> 0]

Features == [list: Lists \cup {NoList}, tier: {0, 1}]

IdleCall ==
    [pc |-> "idle", auth |-> NoToken, tok |-> NoToken, key |-> BlankKey(0), gen |-> 0,
     list |-> NoList, seq |-> 0, waits |-> {}, owner |-> NoCall,
     model |-> "none", cached |-> FALSE, meta |-> "none", mcached |-> FALSE,
     mcall |-> "none", refresh |-> FALSE, force |-> FALSE, prev |-> Nil]

-----------------------------------------------------------------------------
\* authGenerationCurrentLocked
Current(p) ==
    LET c == call[p] IN
    /\ slot[c.auth].key = c.key
    /\ slot[c.auth].next = c.gen
    /\ gen = c.key.cfg

\* snapshotForAuthID: a snapshot of another config generation is not visible.
snapshotForAuthID(a) ==
    IF slot[a].cur # Nil /\ slot[a].cur.cfg = gen
    THEN slot[a].cur
    ELSE notStartedModelReadinessSnapshot(gen)

\* A slot takes a new key: every change of key starts a new auth generation.
nextAuthFor(a, k) == IF slot[a].key = k THEN slot[a].next ELSE slot[a].next + 1

\* Seeded fault: the registered call is not looked up.
callsNever(a, n) == {}

\* The registered call of a generation (slot.calls[authGeneration]).
callsOf(a, n) == {p \in slot[a].calls : call[p].gen = n}

\* A call that is over: only its metadata flight can still be looked at.
Over(c) == [IdleCall EXCEPT !.pc = "done", !.mcall = c.mcall]

\* ensureForAuth returns a snapshot in state st.  A refresh that got nothing
\* usable goes on to restore what it captured (refreshModelCatalogForAuth).
Return(c, st) ==
    IF c.refresh /\ st \notin Executable /\ c.prev.state \in Executable
    THEN [Over(c) EXCEPT !.pc = "restore", !.auth = c.auth, !.prev = c.prev]
    ELSE Over(c)

\* The model source is chosen; the locals of the catalog flight are dead.
Chosen(c, source) ==
    [c EXCEPT !.model = source, !.cached = FALSE, !.seq = 0, !.waits = {}, !.pc = "meta"]

\* selectModelCatalog and selectMetadata: fresh, else the cached value.
selectSource(freshOK, cacheOK) ==
    IF freshOK THEN "fresh" ELSE IF cacheOK THEN "cache" ELSE "none"

\* The state ensureForAuth derives from its two sources.
outcome(c) ==
    LET models == IF c.list # NoList THEN "fresh" ELSE c.model IN
    IF ~storeOK \/ models = "none" \/ c.meta = "none" THEN "failed"
    ELSE IF models = "fresh" /\ c.meta = "fresh" THEN "ready"
    ELSE "stale"

-----------------------------------------------------------------------------
Init ==
    /\ gen = 0
    /\ features = [list |-> NoList, tier |-> 0]
    /\ commit = [w \in Writers |-> [pc |-> "idle"]]
    /\ storeOK \in BOOLEAN
    /\ slot = [a \in Auths |-> [key |-> BlankKey(0), next |-> 0, cur |-> Nil, calls |-> {}]]
    /\ ident = [i \in Identities |-> [next |-> 0, seq |-> 0, cfg |-> 0, active |-> {}]]
    /\ disk = [i \in Identities |-> NoWrite]
    /\ \E c \in BOOLEAN : meta = [result |-> "none", cache |-> c, call |-> NoCall]
    /\ call = [p \in Calls |-> IdleCall]

(***************************************************************************)
(* ensureForAuth                                                           *)
(***************************************************************************)

\* model.for_auth: the host passes the stored credential it has at this moment.
BeginEnsure(p, a, t) ==
    /\ call[p].pc = "idle"
    /\ call' = [call EXCEPT ![p] = [IdleCall EXCEPT !.pc = "enter", !.auth = a, !.tok = t]]
    /\ UNCHANGED <<gen, features, commit, storeOK, slot, ident, disk, meta>>

\* Lines up to the release of slot.mu: publish a parse failure, return what the
\* generation already found, join its call, or register a call and publish
\* loading.
Enter(p) ==
    /\ call[p].pc = "enter"
    /\ LET c == call[p]
           a == c.auth
           k == [cfg |-> gen, tok |-> IF c.tok = Bad THEN NoToken ELSE c.tok]
           n == nextAuthFor(a, k)
           cur == slot[a].cur
           settled == cur # Nil /\ cur.auth = n /\ cur.state # "loading"
           rekeyed == [slot EXCEPT ![a].key = k, ![a].next = n]
       IN  \/ /\ c.tok = Bad
              /\ LET s == Snapshot("failed", gen, n, k, NoList)
                 IN  /\ slot' = [rekeyed EXCEPT ![a].cur = s]
                     /\ call' = [call EXCEPT ![p] = Return(c, "failed")]
           \/ /\ c.tok # Bad /\ settled
              /\ slot' = rekeyed
              /\ call' = [call EXCEPT ![p] = Return(c, cur.state)]
           \/ /\ c.tok # Bad /\ ~settled
              /\ \E q \in callsOf(a, n) :
                    /\ slot' = rekeyed
                    /\ call' = [call EXCEPT ![p].pc = "joined", ![p].owner = q, ![p].tok = NoToken]
           \/ /\ c.tok # Bad /\ ~settled
              /\ callsOf(a, n) = {}
              /\ slot' = [rekeyed EXCEPT
                            ![a].cur = Snapshot("loading", gen, n, k, features.list),
                            ![a].calls = @ \cup {p}]
              /\ call' = [call EXCEPT ![p].key = k, ![p].gen = n, ![p].list = features.list,
                            ![p].pc = IF ~storeOK THEN "finish"
                                      ELSE IF features.list # NoList THEN "meta"
                                      ELSE "identity"]
    /\ UNCHANGED <<gen, features, commit, storeOK, ident, disk, meta>>

\* A joiner wakes when the owner's done channel is closed and reads the slot.
Joined(p) ==
    /\ call[p].pc = "joined"
    /\ call[p].owner \notin slot[call[p].auth].calls
    /\ call' = [call EXCEPT ![p] = Return(call[p], snapshotForAuthID(call[p].auth).state)]
    /\ UNCHANGED <<gen, features, commit, storeOK, slot, ident, disk, meta>>

startIdentityCall(p) ==
    /\ call[p].pc = "identity"
    /\ LET i == IdentityOf[call[p].tok]
           n == ident[i].next + 1
       IN  /\ ident' = [ident EXCEPT ![i].next = n, ![i].active = @ \cup {n}]
           /\ call' = [call EXCEPT ![p].seq = n, ![p].pc = "load"]
    /\ UNCHANGED <<gen, features, commit, storeOK, slot, disk, meta>>

\* store.loadModels: nothing there, or unreadable, leaves no cached catalog.
ReadCatalog(p, from, to) ==
    /\ call[p].pc = from
    /\ \E ok \in {FALSE, disk[IdentityOf[call[p].tok]] # NoWrite} :
          call' = [call EXCEPT ![p].cached = ok, ![p].pc = to]
    /\ UNCHANGED <<gen, features, commit, storeOK, slot, ident, disk, meta>>

LoadCached(p) == ReadCatalog(p, "load", "fetch")

FetchOK(p) ==
    /\ call[p].pc = "fetch"
    /\ call' = [call EXCEPT ![p].pc = "save"]
    /\ UNCHANGED <<gen, features, commit, storeOK, slot, ident, disk, meta>>

\* Seeded fault: the failed call stays among the active ones.
settledNever(i, s) == ident

\* The identity slot after settleIdentityCallLocked: the call leaves the active
\* set (its done channel closes); the others' channels are what it may wait on.
settled(i, s) == [ident EXCEPT ![i].active = @ \ {s}]

\* fetchWorkBuddyCatalog fails: settle, then wait for the other calls of the
\* identity, one of which may still save a catalog.
FetchFailed(p) ==
    /\ call[p].pc = "fetch"
    /\ LET i == IdentityOf[call[p].tok]
           s == call[p].seq
       IN  /\ ident' = settled(i, s)
           /\ call' = [call EXCEPT ![p].waits = ident[i].active \ {s}, ![p].pc = "wait"]
    /\ UNCHANGED <<gen, features, commit, storeOK, slot, disk, meta>>

\* Seeded fault: the order in which the calls started is not compared.
newerNever(c) == FALSE

\* A call of this config generation that started later has already saved.
newerCommitted(c) ==
    LET s == ident[IdentityOf[c.tok]] IN s.cfg = c.key.cfg /\ c.seq < s.seq

\* saveModelsForGeneration: a retired call saves nothing; a call older than the
\* committed one of this config generation adopts the committed catalog.
saveModelsForGeneration(p) ==
    /\ call[p].pc = "save"
    /\ LET c == call[p]
           i == IdentityOf[c.tok]
           left == settled(i, c.seq)
           older == newerCommitted(c)
       IN  \/ /\ ~Current(p)
              /\ ident' = left
              /\ call' = [call EXCEPT ![p] = [Chosen(c, "none") EXCEPT !.pc = "finish"]]
              /\ UNCHANGED disk
           \/ /\ Current(p) /\ older
              /\ ident' = left
              /\ call' = [call EXCEPT ![p].pc = "shared"]
              /\ UNCHANGED disk
           \/ /\ Current(p) /\ ~older
              /\ ident' = [left EXCEPT ![i].cfg = c.key.cfg, ![i].seq = c.seq]
              /\ disk' = [disk EXCEPT ![i] = [cfg |-> c.key.cfg, seq |-> c.seq]]
              /\ call' = [call EXCEPT ![p] = Chosen(c, "fresh")]
           \/ /\ Current(p) /\ ~older                      \* the write fails
              /\ ident' = left
              /\ call' = [call EXCEPT ![p].waits = ident[i].active \ {c.seq}, ![p].pc = "wait"]
              /\ UNCHANGED disk
    /\ UNCHANGED <<gen, features, commit, storeOK, slot, meta>>

\* sharedFresh: the committed catalog counts as fresh; if it cannot be read the
\* catalog read at the start is the fallback.
LoadShared(p) ==
    /\ call[p].pc = "shared"
    /\ \E ok \in {FALSE, disk[IdentityOf[call[p].tok]] # NoWrite} :
          call' = [call EXCEPT ![p] = Chosen(call[p], selectSource(ok, call[p].cached))]
    /\ UNCHANGED <<gen, features, commit, storeOK, slot, ident, disk, meta>>

\* waitForIdentityCalls, then the reload.
WaitIdentity(p) ==
    /\ call[p].pc = "wait"
    /\ call[p].waits \cap ident[IdentityOf[call[p].tok]].active = {}
    /\ \E ok \in {FALSE, disk[IdentityOf[call[p].tok]] # NoWrite} :
          call' = [call EXCEPT ![p] = Chosen(call[p], selectSource(FALSE, ok))]
    /\ UNCHANGED <<gen, features, commit, storeOK, slot, ident, disk, meta>>

(***************************************************************************)
(* metadataForAuth                                                         *)
(***************************************************************************)

\* The head of the loop: a retired call gives up with an empty result.
MetaCheck(p) ==
    /\ call[p].pc = "meta"
    /\ call' = [call EXCEPT ![p].pc = IF Current(p) THEN "look" ELSE "finish"]
    /\ UNCHANGED <<gen, features, commit, storeOK, slot, ident, disk, meta>>

\* Under metadataMu: use the settled result, join the active call, or own one.
MetaLook(p) ==
    /\ call[p].pc = "look"
    /\ \/ /\ meta.result # "none"
          /\ call' = [call EXCEPT ![p].meta = meta.result, ![p].pc = "finish"]
          /\ UNCHANGED meta
       \/ /\ meta.result = "none" /\ meta.call # NoCall
          /\ call' = [call EXCEPT ![p].owner = meta.call, ![p].pc = "mwait"]
          /\ UNCHANGED meta
       \/ /\ meta.result = "none" /\ meta.call = NoCall
          /\ meta' = [meta EXCEPT !.call = p]
          /\ call' = [call EXCEPT ![p].mcall = "open", ![p].mcached = meta.cache,
                                  ![p].pc = "mfetch"]
    /\ UNCHANGED <<gen, features, commit, storeOK, slot, ident, disk>>

\* The joined call is over: its committed result, or another round.
MetaJoined(p) ==
    /\ call[p].pc = "mwait"
    /\ LET r == call[call[p].owner].mcall
       IN  /\ r # "open"
           /\ call' = [call EXCEPT
                         ![p].meta = IF r = "dropped" THEN call[p].meta ELSE r,
                         ![p].pc = IF r = "dropped" THEN "meta" ELSE "finish"]
    /\ UNCHANGED <<gen, features, commit, storeOK, slot, ident, disk, meta>>

\* models.dev answered: the records arrived and were saved, or the cached copy
\* still holds (304), or there is only the cached copy, or nothing.  A retired
\* call closes its flight without a result.
MetaCommit(p) ==
    /\ call[p].pc = "mfetch"
    /\ LET released == IF meta.call = p THEN NoCall ELSE meta.call
       IN  \/ /\ ~Current(p)
              /\ meta' = [meta EXCEPT !.call = released]
              /\ call' = [call EXCEPT ![p].mcall = "dropped", ![p].pc = "finish"]
           \/ /\ Current(p)
              /\ \E fresh \in BOOLEAN :
                   LET r == selectSource(fresh, call[p].mcached)
                   IN  /\ meta' = [result |-> r,
                                   cache |-> meta.cache \/ r # "none",
                                   call |-> released]
                       /\ call' = [call EXCEPT ![p].mcall = r, ![p].meta = r,
                                               ![p].pc = "finish"]
    /\ UNCHANGED <<gen, features, commit, storeOK, slot, ident, disk>>

\* Seeded fault: a call that found no catalog leaves without publishing.
finishQuietFailure(p) ==
    /\ call[p].pc = "finish"
    /\ LET c == call[p]
           a == c.auth
           s == Snapshot(outcome(c), c.key.cfg, c.gen, c.key, c.list)
           left == [slot EXCEPT ![a].calls = @ \ {p}]
       IN  /\ slot' = IF Current(p) /\ s.state # "failed"
                      THEN [left EXCEPT ![a].cur = s] ELSE left
           /\ call' = [call EXCEPT ![p] = Return(c, s.state)]
    /\ UNCHANGED <<gen, features, commit, storeOK, ident, disk, meta>>

\* Seeded fault: a call publishes whether or not its generation is current.
finishUngated(p) ==
    /\ call[p].pc = "finish"
    /\ LET c == call[p]
           a == c.auth
           s == Snapshot(outcome(c), c.key.cfg, c.gen, c.key, c.list)
       IN  /\ slot' = [slot EXCEPT ![a].calls = @ \ {p}, ![a].cur = s]
           /\ call' = [call EXCEPT ![p] = Return(c, s.state)]
    /\ UNCHANGED <<gen, features, commit, storeOK, ident, disk, meta>>

\* finishAuthCall: publish if the generation is still current; wake the joiners.
finishAuthCall(p) ==
    /\ call[p].pc = "finish"
    /\ LET c == call[p]
           a == c.auth
           s == Snapshot(outcome(c), c.key.cfg, c.gen, c.key, c.list)
           left == [slot EXCEPT ![a].calls = @ \ {p}]
       IN  \/ /\ Current(p)
              /\ slot' = [left EXCEPT ![a].cur = s]
              /\ call' = [call EXCEPT ![p] = Return(c, s.state)]
           \/ /\ ~Current(p)
              /\ slot' = left
              /\ call' = [call EXCEPT ![p] = Return(c, snapshotForAuthID(a).state)]
    /\ UNCHANGED <<gen, features, commit, storeOK, ident, disk, meta>>

(***************************************************************************)
(* Refresh, token refresh, reconfigure                                     *)
(***************************************************************************)

\* Bound: a generation is left for everyone who is about to advance it.
mayAdvance ==
    gen + Cardinality({p \in Calls : call[p].pc \in {"captured", "cleared"}})
        + Cardinality({w \in Writers : commit[w].pc = "read"}) < MaxGen

\* buildModelListQuery(force) captures the snapshots and then invalidates; the
\* nightly and the per-account refresh only capture.
BeginRefresh(p, a, force) ==
    /\ Refreshing
    /\ force => mayAdvance
    /\ call[p].pc = "idle"
    /\ call' = [call EXCEPT ![p] =
                  [IdleCall EXCEPT !.pc = IF force THEN "captured" ELSE "read",
                                   !.auth = a, !.refresh = TRUE, !.force = force,
                                   !.prev = snapshotForAuthID(a)]]
    /\ UNCHANGED <<gen, features, commit, storeOK, slot, ident, disk, meta>>

\* invalidateModelCaches: drop the shared results, then advance the generation.
InvalidateMeta(p) ==
    /\ call[p].pc = "captured"
    /\ meta' = [meta EXCEPT !.result = "none", !.call = NoCall]
    /\ call' = [call EXCEPT ![p].pc = "cleared"]
    /\ UNCHANGED <<gen, features, commit, storeOK, slot, ident, disk>>

advanceConfigGeneration(p) ==
    /\ call[p].pc = "cleared"
    /\ gen' = gen + 1
    /\ call' = [call EXCEPT ![p].pc = "read"]
    /\ UNCHANGED <<features, commit, storeOK, slot, ident, disk, meta>>

\* host.auth.get: the credential of the moment, or an error.
ReadAuth(p) ==
    /\ call[p].pc = "read"
    /\ \/ \E t \in Tokens \cup {Bad} :
             call' = [call EXCEPT ![p].tok = t, ![p].pc = "enter"]
       \/ call' = [call EXCEPT ![p] = Return(call[p], "failed")]
    /\ UNCHANGED <<gen, features, commit, storeOK, slot, ident, disk, meta>>

\* restoreModelSnapshot: the captured snapshot under the current generation.
restoreModelSnapshot(p) ==
    /\ call[p].pc = "restore"
    /\ LET a == call[p].auth
           k == BlankKey(gen)
           n == nextAuthFor(a, k)
       IN  slot' = [slot EXCEPT ![a].key = k, ![a].next = n,
                      ![a].cur = [call[p].prev EXCEPT !.cfg = gen, !.auth = n,
                                                      !.restored = TRUE]]
    /\ call' = [call EXCEPT ![p] = Over(call[p])]
    /\ UNCHANGED <<gen, features, commit, storeOK, ident, disk, meta>>

\* handleRefreshAuth replaced the token: the slot starts over.
markAuthNotStarted(a) ==
    /\ slot[a].next < MaxAuth
    /\ LET k == BlankKey(gen)
           n == nextAuthFor(a, k)
       IN  slot' = [slot EXCEPT ![a].key = k, ![a].next = n,
                      ![a].cur = Snapshot("not_started", gen, n, k, NoList)]
    /\ UNCHANGED <<gen, features, commit, storeOK, ident, disk, meta, call>>

\* commitFeatureRuntime reads the previous configuration before it takes the
\* commit lock.
CommitRead(w, f) ==
    /\ commit[w].pc = "idle"
    /\ mayAdvance
    /\ commit' = [commit EXCEPT ![w] = [pc |-> "read", prev |-> features, next |-> f]]
    /\ UNCHANGED <<gen, features, storeOK, slot, ident, disk, meta, call>>

\* Seeded fault: any change of order or context counts as one of nothing else.
onlyTierLoose(f, g) == f.tier # g.tier

\* onlyModelOrderChanged / onlyModelContextChanged: snapshots stay valid.
onlyTierChanged(f, g) == f.list = g.list /\ f.tier # g.tier

commitFeatureRuntime(w) ==
    /\ commit[w].pc = "read"
    /\ features' = commit[w].next
    /\ \/ /\ onlyTierChanged(commit[w].prev, commit[w].next)
          /\ UNCHANGED gen
       \/ /\ ~onlyTierChanged(commit[w].prev, commit[w].next)
          /\ gen' = gen + 1
    /\ commit' = [commit EXCEPT ![w] = [pc |-> "idle"]]
    /\ UNCHANGED <<storeOK, slot, ident, disk, meta, call>>

-----------------------------------------------------------------------------
\* The steps of a call once it has begun.
Step(p) ==
    \/ Enter(p) \/ Joined(p)
    \/ startIdentityCall(p) \/ LoadCached(p) \/ FetchOK(p) \/ FetchFailed(p)
    \/ saveModelsForGeneration(p) \/ LoadShared(p) \/ WaitIdentity(p)
    \/ MetaCheck(p) \/ MetaLook(p) \/ MetaJoined(p) \/ MetaCommit(p)
    \/ finishAuthCall(p)
    \/ InvalidateMeta(p) \/ advanceConfigGeneration(p) \/ ReadAuth(p)
    \/ restoreModelSnapshot(p)

Next ==
    \/ \E p \in Calls, a \in Auths, t \in Tokens \cup {Bad} : BeginEnsure(p, a, t)
    \/ \E p \in Calls, a \in Auths, force \in BOOLEAN : BeginRefresh(p, a, force)
    \/ \E p \in Calls : Step(p)
    \/ \E a \in Auths : markAuthNotStarted(a)
    \/ \E w \in Writers, f \in Features : CommitRead(w, f)
    \/ \E w \in Writers : commitFeatureRuntime(w)

Spec == Init /\ [][Next]_vars

\* Every goroutine keeps running and every source request is answered.
FairSpec == Spec /\ \A p \in Calls : WF_vars(Step(p))

-----------------------------------------------------------------------------
(* Properties *)

Phases ==
    {"idle", "captured", "cleared", "read", "enter", "joined", "identity", "load",
     "fetch", "save", "shared", "wait", "meta", "look", "mwait", "mfetch", "finish",
     "restore", "done"}

Sources == {"none", "fresh", "cache"}

\* Types of the runtime's maps, of the disk and of the calls.
TypeOK ==
    /\ gen \in Nat
    /\ features \in Features
    /\ storeOK \in BOOLEAN
    /\ slot \in [Auths -> [key: Keys, next: Nat, cur: Snapshots \cup {Nil},
                           calls: SUBSET Calls]]
    /\ ident \in [Identities -> [next: Nat, seq: Nat, cfg: Nat, active: SUBSET Nat]]
    /\ disk \in [Identities -> [cfg: Nat, seq: Nat]]
    /\ meta \in [result: Sources, cache: BOOLEAN, call: Calls \cup {NoCall}]
    /\ \A p \in Calls : call[p].pc \in Phases

\* The generation gate: what the executor may run on (a visible ready or stale
\* snapshot) was discovered for exactly the config generation, token and
\* identity the slot now stands for.  A restored snapshot is the one exception
\* the code makes on purpose.
GenerationGate ==
    \A a \in Auths :
        LET s == snapshotForAuthID(a) IN
        s.state \in Executable /\ ~s.restored => s.for = slot[a].key

\* A configured list in force is the one that visible snapshots were built from.
CatalogFollowsConfig ==
    \A a \in Auths :
        LET s == snapshotForAuthID(a) IN
        s.state \in Executable /\ ~s.restored => s.list = features.list

\* "loading" is never left behind: whoever reads it can rely on a current call
\* that is still registered and will replace it.
LoadingHasOwner ==
    \A a \in Auths :
        snapshotForAuthID(a).state = "loading" =>
            \E p \in slot[a].calls : Current(p)

\* Per account and generation there is at most one discovery in flight.
OneFlightPerGeneration ==
    \A a \in Auths : \A p, q \in slot[a].calls :
        call[p].gen = call[q].gen => p = q

\* A discovery in flight is registered once and found by whoever needs it: no
\* second one beside it, and no "loading" that nobody will replace
\* (ensureForAuth, finishAuthCall).
FlightsOwned == TypeOK /\ LoadingHasOwner /\ OneFlightPerGeneration

\* The catalog persisted for an identity is only ever replaced by that of a
\* call which started later, across accounts, tokens and config generations.
CatalogNeverRegresses ==
    [][\A i \in Identities :
          disk'[i] # disk[i] =>
              disk'[i].seq > disk[i].seq /\ disk'[i].cfg >= disk[i].cfg]_vars

\* Every discovery and every refresh returns: joiners, identity waiters and
\* metadata waiters are always released, whatever fails.
CallsReturn == \A p \in Calls : call[p].pc # "idle" ~> call[p].pc = "done"
=============================================================================
