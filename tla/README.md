# Formal models of the WorkBuddy provider plugin

This directory holds TLA+ models of the Go plugin under `src/workbuddy`: a
c-shared provider that a proxy host loads to serve chat requests through
WorkBuddy accounts.  The models follow the code; documents and comments are
used only as claims to compare it with.

## The system

| Component | Code | State it keeps | Who acts on it |
|---|---|---|---|
| Quota holds | `quota_freeze.go`, `cooldown.go`, `chat_error.go` | a bounded table of holds per (account, model) | executor calls, billing queries, the operator |
| Model readiness | `model_readiness.go`, `model_catalog_*.go` | config generation, account slots, identity flights, the models.dev flight | host discovery calls, manual and nightly refreshes, token refresh, reconfigure |
| Catalog store | `model_store.go` | a primary file and a backup per identity, and for the models.dev records | discoveries, the models.dev flight |
| Account cache | `cache.go`, parts of `panel.go`, `credits_handler.go` | snapshot cache and fetch flights per account | panel, reconciler, credit queries, check-ins, invalidations |
| Account lifecycle | `lifecycle.go`, `authfile.go`, `policy.go`, `keepalive.go`, `management.go` | the credential file, a note throttle, per-account locks | reconciler, keepalive, operator, host |
| Check-in | `checkin*.go` | run records per account, retry budget, schedule | timer, operator |
| OAuth login | `oauth*.go` | pending logins in memory and on disk | host polls, panel |
| Executor and stream | `main.go`, `stream.go`, `executor_http.go` | one upstream response per call | host, the client that leaves |
| Host bridge, proxy | `host_bridge.go`, `host_auth.go`, `proxy.go` | callback table, the routing state | every component |
| Model sources | `model_source_workbuddy.go`, `promotions.go` | none: what an account's upstream offers | discoveries |
| Realm panel | `panel_realm_catalog.go`, `panel.html` | none: computed from the snapshots | panel |
| Model curation | `model_config.go`, `model_context*.go`, `model_readiness.go` | overlay, configuration in force, recorded lengths, the host's file | panels, the host's reconfigure call |
| Rate limit | `management.go` | a bucket per client | management requests |
| Payload, usage | `payload.go`, ... | none, or read-only settings | executor |

Components interact through shared maps and through the host: executor calls
mark holds and invalidate cached balances; billing answers lift holds;
readiness decides whether an account may execute; check-ins write the account
cache; lifecycle operations rewrite the credential that every other component
reads back from the host; what the panel saves reaches the plugin through the
host's file and a reconfiguration.

What makes the system hard, and what each part has to get right:

- **Quota holds.** Calls fail concurrently with different evidence about the
  same account or model; the mutex orders the marks differently from the
  failures.  A hold must not be weakened, must not outlive its horizon, must
  concern the whole account only on proof, and the table must stay small.
- **Model readiness.** Discoveries, refreshes, configuration changes and token
  changes overlap.  A late answer must not be published or saved over newer
  state, a waiter must always be woken, and one account must not be discovered
  twice at once.
- **Catalog store.** A save is several file system calls; a load reads two files; the
  process may stop between any two.  The last good document must survive.
- **Account cache.** Six kinds of writers update one entry with data of
  different age.  A confirmed check-in must survive, a lifecycle decision must
  get a balance that was read for it.
- **Credential file.** Reconciler, keepalive, operator, catalog refresh and host
  read, think (an upstream request long) and write the same document.  An
  operator's decision must survive, the reason on file must stay true, and the
  mutex the writers share must not be awaited by its holder.
- **Check-in.** A claim that timed out may have succeeded: it must be confirmed,
  never repeated, also across midnight and with a full record table.
- **OAuth login.** Polls of the host and the panel, expiry and restarts race for one
  pending login.  What the upstream gives once must be written down before it is
  built on, and must not be asked for again.
- **Streams.** A hold, a reconfigured proxy, a broken upstream or a leaving client
  may come at any point of a call.  One usage record must say what happened, the
  client must not take a part for the whole, the account must answer for its
  upstream's errors only, no request may go out twice, and everything opened must
  be closed.
- **Catalogs.** Two views of one account's models are joined and several accounts'
  catalogs are shown as one; nothing may be lost in either, and the host's order of
  listing accounts must not show.
- **Curation.** Panels change the overlay and the tiers in memory and in the host's
  file, in several steps, while the host reconfigures and discoveries publish.  In
  the end the file must rule.

## Modules

| Module | Models | Used by |
|---|---|---|
| `QuotaFreeze` | the hold table and the calls around it | `MCQuotaFreeze`, `Executor_proofs` |
| `ModelReadiness` | slots, identity flights, the models.dev flight, the saved catalog, configuration commits | `MCModelReadiness`, `ModelReadiness_proofs` |
| `CatalogStore` | what the catalog store promises: one document, replaced atomically and durably | `ModelStore` |
| `ModelStore` | primary and backup file, the steps of a save and of a load, crashes and power loss | implements `CatalogStore` |
| `AccountCache` | the snapshot cache, its fetch flights and every other writer | `MCAccountCache`, `Clocks_proofs` |
| `AuthFile` | one account's credential file, its mutex and its writers | `MCAuthFile`, `AuthFile_proofs` |
| `Checkin` | the check-in runs, their record store, mutex and timer | `MCCheckin`, `Checkin_proofs` |
| `OAuthPending` | pending logins in memory and on disk, the polls, the janitor, restarts | `MCOAuthPending`, `OAuthPending_proofs` |
| `StreamPump` | an executor call from admission to its last deferred close, its transport, and its surroundings | `MCStreamPump`, `Executor_proofs` |
| `WorkBuddyCatalog` | the parse and union of an account's upstream views (operators) | `ModelCuration`, `ModelCuration_proofs` |
| `RealmCatalog` | the panel's view by realm and the base catalog (operators) | `ModelCuration`, `ModelCuration_proofs` |
| `ModelCuration` | snapshots with their contents, the panels' changes, the host's file, commits | `MCModelCuration`, `ModelCuration_proofs` |
| `PromoWindow` | the daily window of a campaign | `MCModelCuration`, `Clocks_proofs` |
| `RateLimit` | the token buckets before the management routes | `Clocks_proofs` |
| `Executor_proofs`, `ModelStore_proofs`, `AuthFile_proofs`, `ModelCuration_proofs`, `OAuthPending_proofs`, `Checkin_proofs`, `ModelReadiness_proofs`, `Clocks_proofs` | inductive invariants and theorems | |

The `MC*` modules define symmetry sets and the functions that give constants
their values.  Definitions keep the names of the Go functions; `PROJECT.json`
maps each to its lines.  Definitions introduced as "Seeded fault" are not part
of any specification: each is a plausible bug in the definition that follows it,
and `PROJECT.json` names the property that notices it; in `StreamPump` and the catalog modules they are introduced
as "Mutated".

### QuotaFreeze

`table` is `cooldownTable`, keyed by account and model or by the account alone
(`NoModel`).  A call is admitted (first guard), dispatched (second guard, at
`Dispatch`), answered, classified (`classifyChatFailure` over the evidence an
answer can show), stamped with its own clock reading before the mutex, and
marked (`Mark`: sweep of expired entries, merge, eviction).  A billing query reads
the balance and later delivers it (`observeQuotaCredits`).  The operator clears
entries (`clearModelCooldown`).  The clock may move between any two steps, so a
mark may carry a stamp older than the entries it meets.

### ModelReadiness

A call is a discovery or a refresh of one account.  Its program counter follows
`model_readiness.go`: capture the generation, look for a flight to join, run the
identity's discovery or wait for the one under way, fetch and save the models.dev
records, finish under the generation gate, or restore.  `gen` and `features` are
the committed configuration, `slot` an account's current snapshot and flights,
`ident` the identity's sequence numbers and active flights, `disk` which call
wrote the saved catalog, `meta` the models.dev cache and flight.  Catalog contents
are reduced to who built them, from which list, for which key.

### CatalogStore and ModelStore

`CatalogStore` is the promise: `value` is what a reader finds, `candidates` what it may
find after a restart.  A save takes effect in one step or not at all; an
acknowledgement removes everything older from the candidates.  `ModelStore` has the
two files (`file`), what a power loss could make of each name (`maybe`: every file the
name has had since the directory was last synced, since `rename` is durable only
then), and one action per file system call of `writeModelCacheAtomic` and
`loadModelCache`.  `Fail` is the early return of any of them.  The initial state is any
pair of files an earlier release, a downgrade or a damaged disk can leave.  `Atomic`
is the refinement: `value` is mapped to what a load of the present files would
return, `saving` to the saves under way.  On Windows the destination is removed
before the rename and nothing is synced; `windows` chooses that branch, and power loss
is then taken to lose nothing.  `disk` in `ModelReadiness` is this document at the
grain of `CatalogStore`: who wrote what a load finds.

### AccountCache

`cache` maps an account to the time-stamped facts of `accountCacheEntry`; a clock
reading is a step, so two readings are never equal and an age can be compared.
`cachedAccountDetails` is one action per read, store, prune, close and release;
`storeAccountSnapshot`'s compare-and-swap loop takes effect at its successful swap.
The load-copy-store writers (`invalidateAccountCredits`, the credit query) are two
actions.  The soft cap's pruning looks and deletes in two actions, as
`sync.Map.Range` does.

### AuthFile

`file` is the document in the host's store, with the fields the writers disagree
about: tokens, `disabled`, `disabled_reason`, the balance segment of the note, the
name.  `host.auth.get`, each upstream request and `host.auth.save` are separate
steps.  `entry` is the mutex `checkinLockFor` hands out now, `lock` who holds each
mutex: `pruneCheckinLocks` drops a deleted account's mutex even while it is held.
The operator, `triggerHostAuthReregister` and the host do not take it.  `row` is
the status the last keepalive reported.  A note's second `host.auth.get`
(`existingNoteCredits` in the panel's handlers) is taken together with the first.

### Checkin

`run` holds one background run per account and the panel's runs, each following
`checkinOneAccountFrom`: look up the mutex, take it and reserve the account (one
step: nothing can be seen in between), decide whether only to verify, read the
credential, the status, claim, read the status again, record and return.  `latest`
and `inFlight` are the fields of `checkinRunStore`, `mutex` the entry of
`checkinLocks` an account has now, `loop` the timer goroutine.  Time is an instant
of a day, and `Tick` may fall between any two steps, midnight included.  The
upstream keeps whether today's benefit is granted and whether its status endpoint
shows it yet; a claim that times out may have been granted, lost or still be under
way (`late`).  `claimed` and `tried` are history: accounts with a claim sent today
that nothing refused, and retries begun today.  The cache a run also writes is the
subject of `AccountCache`, the reconciliation after it of `AuthFile`.

### OAuthPending

`loginStates` and `recent` are the two tables of contexts, `ctx` the contexts
(`loginCtx`), `disk` the records in the auth directory, `store` and `initErr` what
`configureOAuthPending` has established.  `poll` follows `pollOAuthPending`: look up
(or `Restore` from disk), wait for the context's mutex (`Acquire`), ask for the token,
checkpoint, ask for the account, checkpoint, save for the panel, checkpoint, answer.
A stage of a login is a number, so "ahead" and "behind" can be compared between
memory, disk and what a client was told.  `persist`, `retain` and `remove` are single
steps because the code holds the table's lock around them; what the file system
does to a write is the set `Writes`: it may fail before the rename, after it, or
because the directory is full, and expired records may refuse to go.  A removal may
fail silently, as in the code.  `reached`, `kept` and `told` are history: how far the
process got, what was acknowledged as written, what a client was told.  Cookies are
abstracted to the writes that an overflowing jar makes fail.  The janitor takes its
list and visits it in one step per entry; an entry that left the table in between is
not visited again.

### StreamPump

`call` holds the calls.  `kind` is the route: `fold` for `handleExecExecute`, `async`
and `sync` for `handleExecStream` with and without a stream of the host, `raw` and
`plain` for `handleExecHTTPRequest` with and without a chat.  `pc` follows the code:
the second guard, the choice of a transport, the request, an error status and its
body, the scan loop, what follows it, and the deferred calls.  A line of the upstream is
one of what the loops tell apart: an event, metadata, an empty shell, two kinds of
error frames and `[DONE]`.  `up` and `end` are the upstream's history; `got`, `told`,
`usage`, `blame`, `sent` and `answer` what became of it: which lines reached the
client, how many error frames, usage records, failures recorded against the account,
transports and the RPC's answer.  Each goroutine owns its stream, so a line is read
and handed on in one step; `held`, `proxy` and the client may change between any two.
`held` is one boolean here; `QuotaFreeze` is about how it comes about.

### WorkBuddyCatalog, RealmCatalog and PromoWindow

`fetchWorkBuddyCatalog` takes an answer (status and decoded body of the desktop view,
the CLI view and the legacy list) to the account's models and campaigns: parse,
entitlement, facts, union, gap filling and validation, one operator per function of the
code.  A model's facts are its ID, its name and its context length; other descriptive
fields are filled in as the name is.  `RealmCatalog` computes the panel's cells, states
and campaigns from the snapshots in a given order of the host's list, which the host
does not promise.  `PromoWindow` is the arithmetic of a campaign's hours: clock times of
the campaign's zone, minutes of the UTC day, and the browser's clock.

### ModelCuration

A discovery is `Discover`, `UseList` or `Fetch`, `Publish`: `ModelReadiness` with the
content put back in and its concurrency reduced to the generation gate.  A panel's
change is a `job` whose steps are the handler's locks, loads and stores: an edit loads
the overlay, stores what it made of it, copies the configuration in force and stores
the copy; then the browser saves the list to the host's `file`, or fails to.  A tier
choice commits a configuration, writes it into the snapshots account by account, and
is saved too.  `Reconfigure` is the host applying its file (`commitFeatureRuntime`).
`late` is history: models of a snapshot whose length was overtaken by a racing write, or
whose tier was cleared before the model's own length was known (see "Without a run").

### RateLimit

`bucket` is `mgmtRateLimit`; `Grant` and `Refuse` are the two outcomes of
`allowManagementRequest`, each a step because one mutex covers it.  Tokens are counted in
the seconds they take to grow.  `from`, `granted` and `last` are history: a span observed
from any moment on, what was granted in it, and when each client was granted its last
request.  With the constants of the code eviction needs a thousand clients, so no run
reaches it; it is covered by the proof.

## Runs

Every run explores all interleavings within its bounds.  `checkin` and `stream` check
for deadlock, since the timer and the surroundings never stop; elsewhere
`CHECK_DEADLOCK FALSE` stands because each call, query or request is used once and the
system is then at rest.

| Run | Instance and bounds | Shows |
|---|---|---|
| `quota_marks` | 1 account, 2 models, 2 calls, 1 query, table of 2, 2 instants | holds are proven, bounded, never weakened, lost for a reason only; no call is sent into a hold |
| `readiness_gate` | 3 discoveries of one account, 2 tokens of one identity, 1 writer, 1 generation step | what is visible belongs to the generation, token and list in force; one flight; no orphaned loading |
| `readiness_live` | 2 accounts of one identity, 2 calls with refreshes, every source may fail | every call returns; the saved catalog never goes back |
| `model_store` | 2 saves, 1 load, 3 new documents, 1 crash, Unix and Windows, any pair of files to begin with | the two files implement `CatalogStore`; loads are fresh; a newer schema is left alone |
| `cache_views` | 1 account, 2 detail calls, 1 credit query, 2 check-ins, status reads may fail | one fetch at a time; forced answers are fresh; a confirmed check-in is never shown as missing again |
| `cache_live` | 2 accounts, room for 1 entry, 2 detail calls, 1 invalidation, 1 sweep, deletions, credit reads may fail | every call returns, with pruning, sweeping, deletions and failed reads |
| `auth_file` | 1 reconciliation, 1 keepalive, 1 operator, 1 re-registration, the host, 3 logins or rotations, 1 pruned mutex | parks and reasons stand; every run returns |
| `auth_dead_session` | 1 reconciliation, 1 keepalive, 1 operator | **violation** of `DeadStaysParked` |
| `checkin` | 1 CN and 1 global account, a store of 1, 1 panel slot, 2 requests or changes, 1 retry a day, the end of a day and a day of 3 instants, 2 mutexes | no claim is repeated; the retry budget; admitted runs keep their record; planned retries end |
| `oauth` | 2 logins, 1 of them abandoned, 1 panel and 1 host poll, a directory for 1 record, lifetimes of 2 and 1 instants, 1 restart | nothing is asked for twice; checkpoints come before what builds on them; the directory stays bounded; logins end |
| `stream` | 1 call of any of 5 kinds, streams of up to 3 lines, 3 hosts, any reconfiguration, hold and disconnect | usage, error frames, blame and transports fit what the upstream did; everything is closed |
| `catalog` | 2 accounts of one realm or of two, 2 discoveries out of 5 pairs of answers, 2 panels and the host, 3 changes or discoveries | nothing of a catalog is lost; the panel does not depend on the host's order; the views agree; the file rules |

Why these bounds are enough: every property relates at most two runs of one kind
and one entry, and every run has at least that many.  `quota_marks` has a table of
two for three keys, so eviction happens; `cache_live` fills a cache of one from two
accounts; `oauth` has a directory for one record and two logins, and a result that
outlives its login as well as one that does not; `auth_file` has a deletion, a new login and a second mutex; in `checkin` a
deleted account can come back with a new mutex while its first run is still under
way, and the store of one is contended by two accounts.  Calls of `StreamPump`
share only `held` and `proxy`, which change freely around one call, and three lines are
enough for an event before and after any other; its theorems have no bound.  In
`catalog` two accounts, two discoveries and two panels are enough for every pair of
racing writes; its theorems have no bound either.  Bounds are constants of the
modules, named there: `MaxNow`, `MaxGen`, `MaxAuth`, `Cap`, `MaxTok`, `MaxMutex`,
`MaxActs`, `MaxLines`, `MaxFetches`, `MaxMoves`, `Legacy`, `Hosts`, `MaxDoc`, `MaxCrashes` and `Polled` (the logins somebody
polls for).  `Touched`, `Tiered`, `Orders`, `Lists` and `Answers` are the models, lists
and upstream answers that the panels and discoveries of `catalog` choose from.  `Hasty` FALSE in the `AuthFile` runs keeps other writers out between
a rewrite's `host.auth.get` and its `host.auth.save`; see "Without a run".

### Fairness

Liveness is checked under weak fairness of each run's own steps: goroutines are
scheduled, and upstream and host requests end because every client in the code has
a timeout.  `AuthFile` adds strong fairness for taking the account mutex, since
`sync.Mutex` hands a starved waiter the lock.  `Checkin` adds weak fairness of the
clock and of the timer, which fires at least every thirty seconds, and strong
fairness of `StartRetries`: `host.auth.list` does not fail for ever.  `OAuthPending` has
strong fairness for taking a context's mutex and weak fairness of the clock and of
the janitor, a ticker of one minute.  In `StreamPump` reads and requests return, since every
client has a timeout and so has the host.  Starting a run,
the operator, the host's logins, configuration commits and invalidations have no
fairness beyond that of a request already begun.

## What the runs found

`auth_dead_session`: `markSessionDead` returns early for an account that is
parked already, so an account parked for exhausted credits keeps that reason
and is enabled by the next reconciliation.  The counterexample does not need a
billing answer from a dead session: the balance is read first, the keepalive
reports the session dead, and the revival then finds the old reason on file.

### Without a run

Seen while modelling, described by a hazard in `PROJECT.json` or here, and not
the subject of a run:

- `commitFeatureRuntime` compares the new configuration with one it read before
  taking the commit lock (`model_readiness.go:742`).  With two overlapping writers
  TLC finds `CatalogFollowsConfig` violated: the second compares against the list of
  before the first one's commit, takes its change for one of order alone, and leaves
  the generation as it is while snapshots of the previous list stay visible, against
  `docs/architecture.md:160-161`.  `readiness_gate` has one writer.
- On Windows two overlapping saves of one document can lose an acknowledged one: the
  second reads the primary while the first has removed it, makes no backup, and then
  removes what the first has just renamed into place (`model_store.go:336`, `409`).
  Two saves of the models.dev records overlap when `invalidateModelCaches` drops a
  flight that is saving.  `Begin` in `ModelStore` keeps saves apart on Windows, and
  without that conjunct TLC finds `Atomic` violated.  A load on Windows that overlaps
  two saves may find neither file; `LoadsFresh` allows it.
- `handleOAuthPoll` does not call `configureOAuthPending`.  After a restart a panel
  that polls before any request has named the auth directory is answered "unknown
  state", without an expiry and therefore not retryable (`oauth_panel.go:137`), and
  drops the login although its record is on disk (`panel.html:1897`); `CHANGELOG.md:23`
  says unexpired tasks are restored after a restart.  The same answer is given while
  the directory's error is not a storage error (`oauth_pending.go:102`, `111`).
- A token shortens a login's lifetime, and a failed checkpoint leaves the older
  record with the longer one.  If its removal fails too, the login is read back
  without its token and asks for it again; `reached` starts anew when a login ends.
- `host.auth.save` has no compare-and-swap.  What the operator or the host saves
  between a rewrite's get and its save is lost, a deleted file comes back, and a
  reconciliation writes the tokens it read before its billing request over newer
  ones (`buildAuthFileJSONFrom` takes them from its own credential).  With `Hasty`
  TRUE TLC finds each.  `ReasonOnlyWhenDisabled` still holds then, and is proved.
- `observeQuotaCredits` says it accepts fresh billing evidence only
  (`quota_freeze.go:187`); it compares nothing, so a balance read before the
  exhaustion was reported lifts the newer hold.  `HoldLossJustified` allows it.
- `restoreModelSnapshot` (`model_readiness.go:869`) takes the current generation for
  itself and stores the snapshot captured before a refresh over whatever the slot
  holds by then, although `docs/architecture.md:161-163` says that a late request
  does not publish over current state.
- `pruneCheckinLocks` deletes a mutex that is held; after a new login a second run
  can enter.  The check-in's own `inFlight` mark still keeps claims apart, which
  `NoReplay` checks in `checkin`.
- `invalidateModelCaches` drops the metadata before the generation advances
  (`model_readiness.go:808-815`), so a call of the old generation can fill it again.
- A nightly refresh accepts snapshots settled before it began
  (`model_catalog_refresh.go:77`, `109`).
- A forced reader that joins a forced fetch can be given an older balance: a credit
  query stores the one it read before the fetch began (`credits_handler.go:219-227`,
  against "at most a few hundred ms old", `cache.go:65-68`).  `ForcedAnswerFresh` excepts
  exactly that balance.
- A fetch that began before its entry was deleted and whose status read fails falls back
  on the entry it saw.  If that was newer than what another fetch has stored since, it
  hides a check-in shown by then: TLC finds `ConfirmedKept` violated with two
  check-ins and a sweep; `cache_views` has no deletions.  When a balance read
  fails, the answer likewise is older than the flight.  The soft cap is passed by at most the fetchers that have
  not pruned yet and the invalidations that put a dropped entry back.
- An in-flight fetch stores a balance read before a chat invalidated it
  (`lifecycle.go:563`); forced calls read again.  `cachedAccountDetails` falls back
  on the entry it saw when it was called, not on the present one
  (`cache.go:126-132`).
- The dashboard's sweep treats the zero fetch time of an entry a check-in created
  as expired (`panel.go:166`, `checkin.go:354`).
- `handleAccountSetDisabled` deletes `accountCache` entries under the account's
  index and UID; the cache is keyed by the file's ID.  `management.go:201` says the
  manual state is not recorded as a reason; it is, as `"manual"`.
- `handleKeepaliveNow` says manual runs ignore the `token_keepalive` toggle
  (`keepalive.go:321-323`); `runTokenKeepaliveWithCallback` returns at once when it
  is off.
- `invalidateAccountCredits` (`lifecycle.go:574`) copies an entry and stores the copy
  without comparing; a check-in confirmed in between disappears from the cache, against
  "keep plan/checkin in cache" (`lifecycle.go:567`).  `handleClaimTrial`
  (`credits_handler.go:141-146`) does the same.  With a member of `Invalidators` beside the
  check-in TLC finds `ConfirmedKept` violated; `cache_views` has none.
- A check-in's result is filed under the day on which it is recorded
  (`checkin_state.go:257`).  A claim sent before midnight whose outcome is unknown when it
  is recorded after midnight plans its verifications on the new day, against "do not
  cross the natural day" (`docs/reliability.md:55`), and makes the whole new day
  confirm-only: its scheduled runs verify and never claim.
- The panel's tier choice commits under the present generation, and then the panel
  saves the same tiers to the host's file.  The reconfiguration that follows commits an
  identical configuration, which is neither a change of tiers alone nor of order alone,
  so the generation advances and every snapshot retires: the outage that the comment at
  `model_readiness.go:775` says a tier choice cannot cause.  Any reload without a change
  does the same.
- Because `previous` is read before the commit lock, and handlers store copies of the
  configuration they read earlier (`syncHiddenModelsConfig`, `setModelContextOverride`), a
  tier written by an overlapping commit can stay in the snapshots or be taken back
  until a later reload; a snapshot built before a tier change and published after it
  was re-applied keeps the old length.  A tier cleared before the model's own length was
  ever seen stays as well, since there is nothing to roll back to
  (`model_context.go:217-219`).  `late` marks these and `ConfigRules` excepts them.
- Adding a hidden ID takes it out of the hidden set in memory, and nothing saves that:
  the next reload hides it again.  An added ID that the catalog already has is listed
  twice.  `recordBaseContextLength` keeps the first length seen over all accounts; re-applying
  does nothing when the host's list fails.
- `validateContextMetadata` says that it drops an inconsistent default; it adds it to
  the tiers.  `boundedString` can leave the first byte of a cut character.
  `promotionOrder`, the clock's zone and the union of tiers follow the host's order,
  although `panel_realm_catalog.go:137-144` says that the panel does not depend on it;
  `PanelUnion` is about cells, states and the campaigns' contents.  `promotionsForModel`
  has no caller.
- `main.go:861-864` says that a client's disconnect cancels the upstream request; it is
  noticed at the next emit, so a silent upstream is read on until its timeout.
- A stream of metadata alone is an answer for the pump and empty for the fold; empty
  shells are the reverse.  A stream without `[DONE]` counts as complete; one that
  breaks right behind an unterminated `[DONE]` counts as failed.
- When the second guard refuses a call, the collected route publishes a failed usage
  record and the others none.
- `lifecycleActionFor` always answers "none": `disableAuth` and `deleteAuth` cannot
  be reached from the reconciler.

## Proofs

The theorems hold for every set of actors, every bound and every value of the other
constants that satisfies the named assumptions `QuotaConstants`, `QuotaFinite`,
`AbsentIsNoEntry`, `ReadinessConstants`, `ModelStoreConstants`, `AuthFileConstants`,
`StreamPumpConstants`, `OAuthPendingConstants`, `NoneIsNoContext`, `CheckinConstants`,
`CacheConstants` (a run is of one kind only, and the clock can start),
`CurationConstants` (accounts are finitely many positive numbers, ordered as their IDs
are; answers and lists have their types) and `TierUnlikeLengths` (a tier differs from
every length an upstream answers, so that a catalog shows which of the two it
carries); the set of clients of `RateLimit` is any set, and `PromoWindow` has no
constants.

**QuotaFreeze.** Proved: `TableSound` (types, horizon and size of the table),
`AccountHoldProven`, `HoldNeverWeakened`, `NoDispatchIntoHold`, `HoldLossJustified`.
`HoldBounded` is not inductive: a mark merges the expiry it computed from its own earlier clock reading,
and the merge keeps the later of two.  The strengthening carries, for every call
that has classified a failure, that its expiry lies within the horizon of the clock,
and once it is stamped that the stamp is not in the future and its key has the scope
of its reason (`PendingProven`).  `TableBounded` needs finitely many keys
and goes through `MarkEffect`, which states what the locked section does to the
table as a whole.  The same lemma explains a lost hold: as no stamp is in the future, every
live hold is still there after the sweep, and the one that goes is the earliest of what
the sweep left (`MarkLoses`).

**ModelStore.** Proved: every property its run checks (`DocumentsSound` is the types and
the freshness of loads), the refinement
`Spec => Atomic` included.  None is inductive.  `IInv` rests on `Safe`: for every
pair of files a power loss could leave (`maybe`), a load then finds a candidate.  To
keep it, a save must not put a superseded document into the backup while the primary
may turn out unreadable (`Copies`); to acknowledge, its own document must not be one
of those it supersedes (`Hides`, `Numbered`).  On Windows, where a name is removed
before it is replaced, `Stands` says that the other name answers meanwhile.
`Freshness` carries what a load between its two reads relies on: whatever is being
copied to the backup was no older than the load.  Each action has a lemma that it
preserves all parts.  For the refinement, `Promise` states what `CatalogStore` allows
of a step in terms of the files; the saves keep it (`SaveKeeps`), everything else too
(`OthersKeep`), and it is a step of the abstract `Next` or a stutter
(`PromiseRefines`).

**AuthFile.** Proved: `TypeOK`, `ReasonOnlyWhenDisabled`, and, for `Hasty` FALSE,
`ParkStands`.  `IInv` says of every run what its saved copy of the document must
satisfy: it is sound itself; one that is about to be revived was parked for
exhaustion; one that is about to be marked dead was not parked; and while writers
do not overlap it still equals the file, for at most one run.  `StepKinds` sorts the
steps of all actors into five kinds, so the induction has five cases instead of
twenty-five.  `ParkTheorem` covers the long window, between the billing request and
the save, for any number of reconcilers and keepalives.

**StreamPump.** Proved: every safety property its run checks, for any number of calls
and lines.  `CallInv` says what holds of a call at each point of its code: before the
loops nothing is reported and nothing has come; in a loop there was no error frame and
exactly the events so far were handed on (`got = EventsOf`); on the way out the reports
fit.  A step changes one call, so the induction is one lemma per action about the next
record of that call (`FailKeeps`, `SucceedKeeps` and `AbandonKeeps` are the ways out) and
`OneCall`, which carries it to all of them.

**OAuthPending.** Proved: every safety property its run checks, for any number of logins,
polls and contexts, any failing writes and any number of restarts.  Three parts of
`IInv` carry the argument.  Records of one login, in memory and on disk, never disagree
about what happened: they have its beginning in common and, once the token is
consumed, its end.  The context that the table holds for a login is ahead of everything
else known of it (`MemoryAhead`): of its file, of what was acknowledged as written and of
what a client was told; that is what lets a later poll trust it.  Across a restart only
the disk speaks (`DiskKeeps`, `Durable`), and it speaks for what was acknowledged.  A poll
that still waits for the mutex of a context the table has given up can bring nothing
back (`Forgotten`): the context has expired, and if a record of the login is found on
disk again it is one without a token, which the upstream has given away meanwhile.  That there is always a context left to
allocate is a counting argument (`NewCtxFree`).  Steps are sorted by what they do to the
table and the directory (a new context, a removal, a write, a stage in memory), and
each sort has one lemma that carries all the parts.

**Checkin.** Proved: `RetryBudget`, `RecordKept` and `NoReplay`.  A claim that may have
arrived and that the upstream does not show (`Open`) is `Guarded`: the day's record
remembers it, or the run holding the account's reservation carries it to the record;
meanwhile every run is `Careful`, so it only verifies and confirms nothing that is not
shown.  `Exclusive` rests on the in-flight mark alone: the account's mutex, which
pruning may exchange under a run, is not needed for any of the three.  `Counted` ties
the retries of the day to the count in the day's record and the one under way.  The
third pillar is the store: a record that makes room for another held neither a claim
nor a retry of the day (`UnprotectedFree`).  A step of a run has to do with its own
account only (`OwnStep`), whatever it does to the others' records being a cancelled retry
or a permitted eviction (`Kept`); at midnight claims and counts start again while the
runs go on (`StepTick`).  The schedule needs some arithmetic of its own: there is always
a next hour (`NextTimeTyped`).

**ModelReadiness.** Proved: every safety property its runs check, for any number of
discoveries, accounts, tokens and identities; `CatalogFollowsConfig` for one writer of
the configuration (`OneWriterFollows`), since two that overlap break it, as described
above.  The gate alone is not inductive.  `SlotFits` adds who is registered: a slot's
calls are in flight for its account, under different auth generations, none later than
the slot's own; what the slot shows carries its auth generation (`Belongs`), so a call
that finds an answer or a flight of its generation has the slot's key already and
changes no slot (`SameSlot`); and a "loading" of the present config generation has a
call registered under the slot's key (`Owned`), which is why a retired call may leave
in silence.  `NumbersFit` orders the saves: the calls of an
identity have different numbers, the number of the saved catalog is not active any
more, and a call of a later config generation than that catalog started after it; the
comparison in `newerCommitted` covers only the calls of the same generation, and this
the others.  A step touches either nothing shared, or the numbers of one identity, or
the slot of one account, and each kind has one lemma (`CalmStep`, `NumbersStep`, `SlotStep`).
TLC checked the invariant on both instances of the runs before it was proved.

**AccountCache.** Proved: `OneFetcher`, without an assumption; `ForcedAnswerFresh` while no
balance read fails; `ConfirmedKept` without invalidations, and with either no failed
status read or nothing deleted (`NothingDeleted`: no operator, no sweep, and room for all
accounts).  The two assumptions are the divergences described above, no more: for
`ConfirmedKept`, TLC finds a counterexample where the code leaves the assumption.  `Inv`
has three layers.  `Base` types the runs and ties each flight to its one fetcher and
each joiner to a fetcher of its account; no stamp is later than the clock (`Past`).
`Fresh` says that a balance a fetcher has read is later than *every* flight of its
account (`ReadLater`), so that whatever a stored flight shows is too, or a query's answer
(`CacheLater`): a joiner does not know which of them it will find.  `Kept` says that nobody
claims a check-in that the upstream has not recorded (`Known`), that a check-in merges
what the upstream says now (`Confirmed`, by the account's lock), and compares stamps: a
read that came too early to see the check-in has an older stamp than the
entry that shows it (`OlderRun`), and the entry a fetch may fall back on is the present one or
an older one (`FallbackRun`).  Each action has one lemma (`StoreKeeps`, `LeadKeeps`, ...);
`Shows` lists the four sources that the status of a stored entry can have.  TLC checked
the layers on small instances before they were proved.

**ModelCuration.** Proved: every property its run checks, for any number of accounts,
panels and discoveries and any answers.  The work is of two kinds.

What the catalogs hold is a matter of loops.  The loops of the code are recursive
functions, and the prover has no induction theorem it can use, so each is
unfolded once into its steps (`EntriesSteps`, `SelectionSteps`, `CatalogSteps`) and an
invariant of it goes `UpTo` its end: the set of indexes where the invariant fails has no
least element.  `Picked`, `FirstSeenFacts`, `ParsedFacts`, `Merged` and `CampaignFacts` say
what the parsers, the union and the campaigns return for every body; `DesktopComplete`
puts them together, and `Discoveries` carries the result through a discovery: a persisted
catalog, a flight and a snapshot that come from an answer are complete for it.
`CatalogComplete` follows.

The panel's selection by realm goes over the host's list, and the better source
wins (`panelRealmSourceWins`, and the display it orders models by).  Both comparisons are
strict total orders (`WinsOrder`, `DisplaysOrder`), so what is selected is determined
by the *set* of accounts it has seen: `Selects` describes it without an order, one more account
keeps it (`SelectsOneMore`) and it has one solution (`SelectsUnique`).  That is `PanelUnion`;
`TheOwner` finds the source of a cell.  `ViewsAgree` then compares sets: the rows
(`SelectionShows`), the base catalog (`CatalogSet`), the overlay for the panel
(`AdminSet`) and for clients (`ServedSet`).

What the file rules is a matter of steps.  `ConfigRules` is not inductive.  `IInv` says
that a length that does not show the tier in force is `late` or still `Owed` by the
commit of some panel or of the host (`Lengths`), and that a flight about to publish
carries the tiers it was built for (`Flights`).  While no panel has anything under way
or unsaved (`Clean`), the host's reconfiguration is carrying the file into hidden set,
order and configuration, or has (`Carried`).  A panel that starts a change ends the
premise, and one that finishes leaves the file `changed` or its change `unsaved`.  Looking for this invariant
showed the cleared tier that nothing takes back, which `late` had not covered.

**PromoWindow.** `WindowFollowsWall`: for every clock times, zone offset and minute, the
normalized window is active in the browser exactly when the local wall clock is inside
the campaign's hours.  `ClockLagsAMinute`: the browser's clock is never ahead and at most a
minute behind.  Both are arithmetic; the ASSUME of `MCModelCuration` evaluates the first
at its edges.

**RateLimit.** `RateTheorem`: in any span a client is granted at most a full bucket and one
request per refill interval; the invariant adds what is left in the bucket (`Counted`), and an
evicted bucket counts as full, which it was by then since `mgmtRateLimitTTL` is longer than
a bucket takes to fill.  `RefusedTheorem`: a client is refused only within a refill
interval of a granted request.  The code's quotients are floats, and the theorems are
exact.

Model-checked only: all liveness, `CallersReturn`, `LoginsEnd` and `RetriesEnd` included
(the prover does not reason about fairness).  Every other property of the passing runs
is proved, under the assumptions named above.

## Not modelled

HTTP and YAML decoding, the rewriting of request bodies, redaction, the fields of a
usage record, how a transport is built and the cgo bridge are data transformations or
pure I/O without shared state; their table tests cover them better.  Display texts,
regions and the migration of old file names are left out of `AuthFile`; plan details
and response rows of `AccountCache`; catalog contents of `ModelReadiness` (they are in
`ModelCuration`); the diagnostic history and the response counters of `Checkin`; URLs,
profiles and cookies of `OAuthPending`; the contents and validation rules of
`ModelStore`; credits, badges and validity dates of the catalog modules, and the host's
own exclusions and aliases.  Holds, run records and caches live in the process and
a restart clears them, as `docs/reliability.md` states: only `ModelStore` and
`OAuthPending`, whose state is on disk, have restarts.

## Plan

1. `OAuthPanel`: the panel's remembered sessions (`panel.html`) over `OAuthPending`, for
   the logins a panel gives up although the server still has them.
2. The composition of `QuotaFreeze` with `StreamPump`: the hold that `held` abstracts,
   and of `AccountCache` with `Checkin`.
3. Proofs: what holds of the compositions of step 2.
