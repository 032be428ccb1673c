---------------------------- MODULE ModelCuration ----------------------------
(***************************************************************************)
(* What becomes of the discovered catalogs: the panel's hide, restore, add *)
(* and reorder (model_config.go), its choice of a context tier             *)
(* (model_context.go, model_context_config.go), the host configuration     *)
(* that persists them and is applied again on every reconfiguration        *)
(* (commitFeatureRuntime), and the views that clients and the panel get.   *)
(*                                                                         *)
(* Panels run their handlers concurrently, with each other and with a      *)
(* reconfiguration; each lock's section, each load and each store of the   *)
(* shared configuration is a step.  Discovery is the gate of               *)
(* ModelReadiness with the catalog's content put back in.                  *)
(***************************************************************************)
EXTENDS RealmCatalog, FiniteSets

CONSTANTS
    Accounts,     \* auth files: positive numbers, ordered as their IDs are
    RealmsOf,     \* the realms the accounts' tokens may have been issued for
    Answers,      \* what an account's upstream may answer, by number
    Panels,       \* browser tabs, each making one change
    Touched,      \* the models a panel hides or restores
    Host,         \* the host's reconfigure call
    Custom,       \* a model ID an operator may add
    Orders,       \* `model_order` lists an operator may save
    Lists,        \* configured `models` lists an operator may save
    Tiered,       \* the models whose context tier is changed
    Tier,         \* a tier those models offer, unlike any upstream length
    MaxFetches,   \* bound: discoveries
    MaxMoves      \* bound: discoveries and panel changes together

ASSUME CurationConstants ==
    /\ Accounts \subseteq Nat \ {0}
    /\ RealmsOf \subseteq [Accounts -> Realms]
    /\ Host \notin Panels
    /\ IsFiniteSet(Accounts)
    /\ Answers \in Seq([desktop : Reply, cli : Reply, legacy : Reply])
    /\ Lists \subseteq Seq(STRING) /\ Orders \subseteq Seq(STRING)
    /\ MaxPromotions \in Nat /\ MaxFetches \in Nat /\ MaxMoves \in Nat

VARIABLES
    realmOf,     \* the realm of each account's token
    file,        \* the plugin's section of the host configuration
    changed,     \* the host has saved it and not yet called reconfigure
    unsaved,     \* a change was made in memory alone since the last reconfigure
    features,    \* featureRuntime
    overlay,     \* overlayState
    gen,         \* configGeneration
    base,        \* modelContextCatalog.baseLength
    snap,        \* the accounts' published snapshots
    cache,       \* their persisted catalogs
    flight,      \* their discoveries
    job,         \* the panels' changes and the reconfiguration
    now          \* discoveries so far, which is also the time

vars == <<realmOf, file, changed, unsaved, features, overlay, gen, base, snap, cache, flight, job, now>>
curated == <<realmOf, file, changed, unsaved, features, overlay, job>>
found == <<gen, base, snap, cache, flight, now>>

NoTier == 0

\* A tier that a catalog shows is then known not to be the model's own length.
ASSUME TierUnlikeLengths ==
    /\ Tier # NoTier
    /\ \A n \in DOMAIN Answers :
         LET list == fetchWorkBuddyCatalog(Answers[n]).models
         IN  \A id \in Named(list) : Entry(list, id).ctx # Tier

Plain == [models |-> <<>>, hidden |-> {}, order |-> <<>>, tier |-> [m \in Tiered |-> NoTier]]
NoOverlay == [hide |-> {}, order |-> <<>>, add |-> {}]

(* of: the answer the facts came from; late: the models whose length is not *)
(* made for the tier in force, for two writes of the configuration, or one  *)
(* and a publication, overtook each other, or a tier was cleared before the *)
(* model's own length was known.                                            *)
NotStarted ==
    [state |-> "not_started", gen |-> 0, realm |-> "none", at |-> 0, models |-> <<>>,
     facts |-> <<>>, promos |-> <<>>, len |-> <<>>, of |-> 0, late |-> {}]
NoCache == [models |-> Error, promos |-> <<>>, at |-> 0, of |-> 0]
NoFlight == [pc |-> "none", gen |-> 0, list |-> <<>>, tier |-> Plain.tier, built |-> NotStarted]
NoJob == [pc |-> "idle", kind |-> "none", id |-> Blank, overlay |-> NoOverlay,
          next |-> Plain, prev |-> Plain, todo |-> {}, read |-> <<>>]

-----------------------------------------------------------------------------
(* Views.                                                                   *)

\* snapshotForAuthID
visible == [a \in Accounts |-> IF snap[a].gen = gen THEN snap[a] ELSE NotStarted]

Without(s, ids) == Those(s, ToSet(s) \ ids)
Only(s, ids) == Those(s, ids)

\* applyModelOverlay: pinned entries in the operator's order, the others in
\* theirs, then the additions (a set here: their order is the operator's).
applyModelOverlay(ids, o) ==
    Only(o.order, ToSet(ids) \ o.hide) \o Without(ids, o.hide \cup ToSet(o.order))
    \o SetToSeq(o.add \ o.hide)

\* applyModelOverlayForAdmin: the hidden ones stay, to be restored.
applyModelOverlayForAdmin(ids, o) == applyModelOverlay(ids, o) \o Only(ids, o.hide)

\* handleModelForAuth, without the host's exclusions and the cooling models.
\* filterHiddenModels runs after the overlay and reads the configuration.
modelsForAuth(a) ==
    IF executable(visible[a])
    THEN Without(applyModelOverlay(visible[a].models, overlay), features.hidden)
    ELSE <<>>

-----------------------------------------------------------------------------
(* The panel's changes.                                                     *)

changedContextOverrides(prev, next) == {m \in Tiered : prev.tier[m] # next.tier[m]}

\* handleModelOverlayAction: hiding wins over a pin and an addition.
edited(kind, id, o) ==
    CASE kind = "hide" -> [hide |-> o.hide \cup {id}, order |-> Without(o.order, {id}),
                           add |-> o.add \ {id}]
      [] kind = "restore" -> [o EXCEPT !.hide = @ \ {id}]
      [] kind = "add" -> [o EXCEPT !.add = @ \cup {id}, !.hide = @ \ {id}]
      \* handleModelOverlayWrite, here with an empty overlay
      [] kind = "reset" -> NoOverlay

MayMove == now + Cardinality({p \in Panels : job[p].pc # "idle"}) < MaxMoves

\* next replaces the configuration in force and re-applies the tiers of known only.
Missed(next, known) ==
    [a \in Accounts |-> [snap[a] EXCEPT
        !.late = @ \cup (changedContextOverrides(features, next) \ known)]]

Begin(p, j) == MayMove /\ job[p].pc = "idle" /\ job' = [job EXCEPT ![p] = j]
Move(p, pc) == job' = [job EXCEPT ![p].pc = pc]
Finish(p) == job' = [job EXCEPT ![p] = [NoJob EXCEPT !.pc = "done"]]

\* The handler loads the overlay, and stores what it made of it.
BeginEdit(p, kind, id) ==
    /\ Begin(p, [NoJob EXCEPT !.pc = "store", !.kind = kind, !.id = id,
                              !.overlay = edited(kind, id, overlay)])
    /\ UNCHANGED <<realmOf, file, changed, unsaved, features, overlay, found>>

storeModelOverlay(p) ==
    /\ job[p].pc = "store"
    /\ overlay' = job[p].overlay
    /\ Move(p, "copy")
    /\ UNCHANGED <<realmOf, file, changed, unsaved, features, found>>

\* syncHiddenModelsConfig copies the configuration in force ...
CopyFeatures(p) ==
    /\ job[p].pc = "copy"
    /\ job' = [job EXCEPT ![p].pc = "sync",
                          ![p].next = [features EXCEPT !.hidden = job[p].overlay.hide]]
    /\ UNCHANGED <<realmOf, file, changed, unsaved, features, overlay, found>>

\* ... and stores the copy.  After a hide or a restore the panel saves the list
\* that the handler returned; nothing saves an addition or a reset.
syncHiddenModelsConfig(p) ==
    /\ job[p].pc = "sync"
    /\ features' = job[p].next
    /\ snap' = Missed(job[p].next, {})
    /\ IF job[p].kind \in {"hide", "restore"}
       THEN Move(p, "save") /\ UNCHANGED unsaved
       ELSE Finish(p) /\ unsaved' = TRUE
    /\ UNCHANGED <<realmOf, file, changed, overlay, gen, base, cache, flight, now>>

\* setModelContextOverride: a copy with one tier changed, then a commit.
BeginTier(p, m, v) ==
    /\ features.tier[m] # v
    /\ Begin(p, [NoJob EXCEPT !.pc = "previous", !.kind = "tier", !.id = m,
                              !.next = [features EXCEPT !.tier[m] = v]])
    /\ UNCHANGED <<realmOf, file, changed, unsaved, features, overlay, found>>

\* What a panel saves: the hidden list, or the map of tiers, of its own handler.
Saved(p) ==
    IF job[p].kind = "tier" THEN [file EXCEPT !.tier = job[p].next.tier]
    ELSE [file EXCEPT !.hidden = job[p].overlay.hide]

\* PATCH /plugins/workbuddy/config; the host then calls reconfigure.
SaveConfig(p) ==
    /\ job[p].pc = "save"
    /\ file' = Saved(p) /\ changed' = TRUE
    /\ Finish(p)
    /\ UNCHANGED <<realmOf, unsaved, features, overlay, found>>

\* The tab is closed before it saves, or its request fails.
SaveLost(p) ==
    /\ job[p].pc = "save"
    /\ unsaved' = TRUE
    /\ Finish(p)
    /\ UNCHANGED <<realmOf, file, changed, features, overlay, found>>

\* saveModelOrder, or an operator who edits the host's configuration: only the
\* file changes, and the plugin hears of it from the host.
EditFile(p, next) ==
    /\ next # file
    /\ Begin(p, [NoJob EXCEPT !.pc = "done"])
    /\ file' = next /\ changed' = TRUE
    /\ UNCHANGED <<realmOf, unsaved, features, overlay, found>>

FileEdits ==
    {[file EXCEPT !.order = o] : o \in Orders}
    \cup {[file EXCEPT !.hidden = {}]}
    \cup {[file EXCEPT !.tier[m] = v] : m \in Tiered, v \in {NoTier, Tier}}
    \cup {[file EXCEPT !.models = l] : l \in Lists}

-----------------------------------------------------------------------------
(* commitFeatureRuntime, for a reconfiguration or for a choice of tier.     *)

Reconfigure ==
    /\ changed /\ job[Host].pc = "idle"
    /\ job' = [job EXCEPT ![Host] = [NoJob EXCEPT !.pc = "previous", !.next = file]]
    /\ changed' = FALSE /\ unsaved' = FALSE
    /\ UNCHANGED <<realmOf, file, features, overlay, found>>

ReadPrevious(p) ==
    /\ job[p].pc = "previous"
    /\ job' = [job EXCEPT ![p].pc = "hidden", ![p].prev = features]
    /\ UNCHANGED <<realmOf, file, changed, unsaved, features, overlay, found>>

\* Mutated: an empty list is taken for no statement.
hiddenUnlessEmpty(p) == IF job[p].next.hidden = {} THEN overlay.hide ELSE job[p].next.hidden

hiddenOf(p) == job[p].next.hidden

syncOverlayHiddenModels(p) ==
    /\ job[p].pc = "hidden"
    /\ overlay' = [overlay EXCEPT !.hide = hiddenOf(p)]
    /\ Move(p, "order")
    /\ UNCHANGED <<realmOf, file, changed, unsaved, features, found>>

syncOverlayModelOrder(p) ==
    /\ job[p].pc = "order"
    /\ overlay' = [overlay EXCEPT !.order = job[p].next.order]
    /\ Move(p, "commit")
    /\ UNCHANGED <<realmOf, file, changed, unsaved, features, found>>

onlyModelOrderChanged(prev, next) ==
    prev.order # next.order /\ [prev EXCEPT !.order = next.order] = next
onlyModelContextChanged(prev, next) ==
    prev.tier # next.tier /\ [prev EXCEPT !.tier = next.tier] = next

\* Under configCommitMu.  A change of order or of tiers alone keeps the
\* generation; a tier is then written into the snapshots, account by account.
\* `prev` was read before the lock: a tier that another commit has set since is
\* in the snapshots and nobody's to re-apply.
commitFeatureRuntime(p) ==
    LET prev == job[p].prev
        next == job[p].next
        tiers == onlyModelContextChanged(prev, next)
        keeps == tiers \/ onlyModelOrderChanged(prev, next)
        known == IF tiers THEN changedContextOverrides(prev, next) ELSE {}
    IN  /\ job[p].pc = "commit"
        /\ features' = next
        /\ gen' = IF keeps THEN gen ELSE gen + 1
        /\ snap' = Missed(next, known)
        /\ job' = [job EXCEPT ![p].pc = "reapply", ![p].todo = known \X Accounts]
        /\ UNCHANGED <<realmOf, file, changed, unsaved, overlay, base, cache, flight, now>>

Applying(p) == job[p].pc \in {"reapply", "again"}

\* Model by model and account by account, in the order of the host's list (here
\* the IDs'): the override and the recorded length are read ...
ReadTier(p, m, a) ==
    /\ Applying(p) /\ <<m, a>> \in job[p].todo /\ job[p].read = <<>>
    /\ \A b \in Accounts : <<m, b>> \in job[p].todo => a <= b
    /\ job' = [job EXCEPT ![p].todo = @ \ {<<m, a>>},
                          ![p].read = <<m, a, features.tier[m], base[m]>>]
    /\ UNCHANGED <<realmOf, file, changed, unsaved, features, overlay, found>>

\* ... and then the snapshot is written, under the slot's lock.
WriteTier(p) ==
    LET m == job[p].read[1]
        a == job[p].read[2]
        tier == job[p].read[3]
        length == IF tier # NoTier THEN tier ELSE job[p].read[4]
    IN  /\ job[p].read # <<>>
        /\ snap' = [snap EXCEPT
               ![a].len = [id \in DOMAIN @ |-> IF id = m /\ length # 0 THEN length ELSE @[id]],
               ![a].late = (@ \ {m}) \cup (IF tier # features.tier[m] \/ length = 0 THEN {m} ELSE {})]
        /\ job' = [job EXCEPT ![p].read = <<>>]
        /\ UNCHANGED <<realmOf, file, changed, unsaved, features, overlay, gen, base, cache,
                       flight, now>>

\* handleModelContextWrite applies its tier once more before it answers.
Reapplied(p) ==
    /\ Applying(p) /\ job[p].todo = {} /\ job[p].read = <<>>
    /\ job' = IF p = Host THEN [job EXCEPT ![p] = NoJob]
              ELSE IF job[p].pc = "reapply"
                   THEN [job EXCEPT ![p].pc = "again", ![p].todo = {job[p].id} \X Accounts]
                   ELSE [job EXCEPT ![p].pc = "save"]
    /\ UNCHANGED <<realmOf, file, changed, unsaved, features, overlay, found>>

-----------------------------------------------------------------------------
(* Discovery (ensureForAuth), with the catalog that it finds.               *)

\* A new generation or a new token starts one; the account is loading.
Discover(a) ==
    /\ flight[a].pc = "none" /\ now < MaxFetches /\ MayMove
    /\ now' = now + 1
    /\ snap' = [snap EXCEPT ![a] = [NotStarted EXCEPT !.state = "loading", !.gen = gen,
                                                      !.realm = realmOf[a]]]
    /\ flight' = [flight EXCEPT ![a] = [NoFlight EXCEPT !.pc = "fetch", !.gen = gen,
                                                        !.list = features.models]]
    /\ UNCHANGED <<curated, gen, base, cache>>

\* effectiveModelContext: an override wins over the model's own length.
effectiveModelContext(m, own) ==
    IF m \in Tiered /\ features.tier[m] # NoTier THEN features.tier[m] ELSE own

\* discoveredModelInfos: the lengths are baked in as they are in force now, and
\* recordBaseContextLength keeps the first length seen of a model.
Built(a, state, c) ==
    LET len == [id \in Named(c.models) |-> effectiveModelContext(id, Entry(c.models, id).ctx)]
    IN  [NotStarted EXCEPT !.state = state, !.gen = flight[a].gen, !.realm = realmOf[a],
            !.at = c.at, !.models = IdsOf(c.models), !.facts = c.models,
            !.promos = c.promos, !.len = len, !.of = c.of]

FirstLength(c) ==
    [m \in Tiered |-> IF base[m] = 0 /\ m \in Named(c.models) THEN Entry(c.models, m).ctx
                      ELSE base[m]]

Ready(a, built) ==
    flight' = [flight EXCEPT ![a].pc = "publish", ![a].tier = features.tier,
                             ![a].built = built]

\* A configured list needs no upstream and carries no facts.
UseList(a) ==
    LET ids == flight[a].list
        named == [models |-> [i \in DOMAIN ids |-> [id |-> ids[i], name |-> Blank, ctx |-> 0]],
                  promos |-> <<>>, at |-> 0, of |-> 0]
    IN  /\ flight[a].pc = "fetch" /\ ids # <<>>
        /\ Ready(a, [Built(a, "ready", named) EXCEPT !.facts = <<>>])
        /\ UNCHANGED <<curated, gen, base, snap, cache, now>>

\* The upstream answers; a catalog is saved, and without one the saved one serves.
Fetch(a, n) ==
    LET got == fetchWorkBuddyCatalog(Answers[n])
        c == IF got.models # Error
             THEN [models |-> got.models, promos |-> got.promos, at |-> now, of |-> n]
             ELSE cache[a]
        state == IF got.models # Error THEN "ready"
                 ELSE IF c # NoCache THEN "stale" ELSE "failed"
    IN  /\ flight[a].pc = "fetch" /\ flight[a].list = <<>>
        /\ cache' = [cache EXCEPT ![a] = c]
        /\ base' = FirstLength(c)
        /\ Ready(a, Built(a, state, c))
        /\ UNCHANGED <<curated, gen, snap, now>>

\* finishAuthCall: published if the generation is still the one it began in.
Publish(a) ==
    /\ flight[a].pc = "publish"
    /\ snap' = IF flight[a].gen = gen
               THEN [snap EXCEPT ![a] = [flight[a].built EXCEPT
                                            !.late = {m \in Tiered : flight[a].tier[m] # features.tier[m]}]]
               ELSE snap
    /\ flight' = [flight EXCEPT ![a] = NoFlight]
    /\ UNCHANGED <<curated, gen, base, cache, now>>

-----------------------------------------------------------------------------
Init ==
    /\ realmOf \in RealmsOf
    /\ file = Plain /\ changed = FALSE /\ unsaved = FALSE
    /\ features = Plain /\ overlay = NoOverlay
    /\ gen = 1 /\ base = [m \in Tiered |-> 0]
    /\ snap = [a \in Accounts |-> NotStarted]
    /\ cache = [a \in Accounts |-> NoCache]
    /\ flight = [a \in Accounts |-> NoFlight]
    /\ job = [p \in Panels \cup {Host} |-> NoJob]
    /\ now = 0

Offered == UNION {ToSet(visible[a].models) : a \in Accounts}

PanelStep(p) ==
    \/ \E id \in Touched \cap Offered :
         BeginEdit(p, IF id \in overlay.hide THEN "restore" ELSE "hide", id)
    \/ \E kind \in {"add", "reset"} : BeginEdit(p, kind, Custom)
    \/ storeModelOverlay(p) \/ CopyFeatures(p) \/ syncHiddenModelsConfig(p)
    \/ \E m \in Tiered, v \in {NoTier, Tier} : BeginTier(p, m, v)
    \/ SaveConfig(p) \/ SaveLost(p)
    \/ \E next \in FileEdits : EditFile(p, next)

CommitStep(p) ==
    \/ ReadPrevious(p) \/ syncOverlayHiddenModels(p) \/ syncOverlayModelOrder(p)
    \/ commitFeatureRuntime(p) \/ WriteTier(p) \/ Reapplied(p)
    \/ \E m \in Tiered, a \in Accounts : ReadTier(p, m, a)

Next ==
    \/ \E p \in Panels : PanelStep(p)
    \/ Reconfigure
    \/ \E p \in Panels \cup {Host} : CommitStep(p)
    \/ \E a \in Accounts :
         Discover(a) \/ UseList(a) \/ Publish(a) \/ \E n \in DOMAIN Answers : Fetch(a, n)

Spec == Init /\ [][Next]_vars

-----------------------------------------------------------------------------
(* Properties.                                                              *)

listings == SetToSeqs(Accounts)

\* What a decoded body puts on offer.
offers(body) ==
    ToSet(body.agent) \cup
    {body.rich[i].id : i \in {j \in DOMAIN body.rich :
                                  ~body.rich[j].off /\ body.rich[j].id \in ChatUsable \ {Blank}}}

\* The models of a body that it also names.
named(body) == {id \in offers(body) : richFacts(id, body.rich).name # Blank}

\* The union of the two identities loses nothing of either, repeats nothing and
\* invents nothing: the desktop's entitlement leads in its order, its name of a
\* model it offers stands, every usable model of a CLI answer that parsed is there,
\* and the campaigns are the desktop's usable ones, all of them or as many as are
\* kept (fetchWorkBuddyCatalog).  A refused answer shows as the last good catalog or
\* as none, never as an empty one.
CatalogComplete ==
    \A a \in Accounts :
        LET s == snap[a]
            answer == Answers[s.of]
            desktop == answer.desktop.body
            cli == answer.cli.body
            second == IF answer.cli.status = "ok" /\ parseWorkBuddyV3Config(cli) # Error
                      THEN offers(cli) ELSE {}
            usable == {p \in ToSet(desktop.promos) : normalizeOnePromotion(p)}
        IN  /\ executable(s) => s.models # <<>>
            /\ s.of # 0 /\ answer.desktop.status = "ok" =>
                 /\ Distinct(s.models)
                 /\ IsPrefix(desktop.agent, s.models)
                 /\ ToSet(s.models) = offers(desktop) \cup second
                 /\ \A i \in DOMAIN s.facts :
                      s.facts[i].id \in named(desktop) =>
                        s.facts[i].name = richFacts(s.facts[i].id, desktop.rich).name
                 /\ ToSet(s.promos) \subseteq usable
                 /\ Len(s.promos) <= MaxPromotions
                 /\ desktop.campaigns = "ok" /\ Len(s.promos) < MaxPromotions =>
                      usable \subseteq ToSet(s.promos)

\* The account whose copy of an entry a realm has to show: of those that have it,
\* the one fetched last, and of these the one with the smallest ID.
Owner(S, realm, has(_)) ==
    LET who == {a \in Accounts : realmOf[a] = realm /\ loads(S[a]) /\ has(S[a])}
        last == {a \in who : \A b \in who : S[b].at <= S[a].at}
    IN  CHOOSE a \in last : \A b \in last : a <= b

\* The panel's rows, states and campaigns do not depend on the order in which the
\* host lists the auth files: every cell and every campaign is its owner's copy
\* (panelRealmSelectionAddFacts, panelRealmSelectionAddPromotions).
PanelUnion ==
    LET S == visible
        first == SetToSeq(Accounts)
        rows == buildPanelRealmModels(first, S)
        status == buildPanelRealmStatus(first, S)
        owned == [r \in Realms |-> realmPromotions(first, S, r)]
    IN  /\ \A l \in listings \ {first} :
             /\ buildPanelRealmModels(l, S) = rows
             /\ buildPanelRealmStatus(l, S) = status
             /\ \A r \in Realms : realmPromotions(l, S, r) = owned[r]
        /\ \A r \in Realms :
             /\ \A id \in DOMAIN rows :
                  rows[id][r].status = "present" =>
                    LET a == Owner(S, r, LAMBDA s : id \in FactIds(s))
                    IN  rows[id][r].of = <<Entry(S[a].facts, id)>>
             /\ \A id \in DOMAIN owned[r] :
                  LET a == Owner(S, r, LAMBDA s : \E i \in DOMAIN s.promos : s.promos[i].id = id)
                  IN  owned[r][id] = Entry(S[a].promos, id)

\* The views that are built apart tell one story: a realm is loaded exactly when
\* some row shows a model of it, and then no row says it was not loaded; what a
\* discovered account offers is in its realm's rows and in the catalog; the panel
\* lists every model of the catalog, hidden ones included; a client gets exactly
\* the account's models that nobody hid, and the additions.  (In one order of the
\* host's list; PanelUnion says that it does not matter.)
ViewsAgree ==
    LET S == visible
        l == SetToSeq(Accounts)
        rows == buildPanelRealmModels(l, S)
        status == buildPanelRealmStatus(l, S)
        base_ == baseModelCatalog(l, S, features.models)
        catalog == ToSet(base_)
        hidden == overlay.hide \cup features.hidden
    IN  /\ \A r \in Realms :
             /\ status[r].loaded <=> \E id \in DOMAIN rows : rows[id][r].status = "present"
             /\ status[r].loaded => \A id \in DOMAIN rows : rows[id][r].status # "not_loaded"
             /\ promotionPanelStatus(l, S, r) \in {"loaded", "empty"} => status[r].loaded
        /\ DOMAIN rows \subseteq catalog
        /\ catalog \subseteq ToSet(applyModelOverlayForAdmin(base_, overlay))
        /\ \A a \in Accounts :
             /\ \A id \in FactIds(S[a]) : rows[id][realmOf[a]].status = "present"
             /\ ToSet(S[a].models) \subseteq catalog
             /\ executable(S[a]) =>
                  ToSet(modelsForAuth(a)) =
                    (ToSet(S[a].models) \cup overlay.add) \ hidden

\* Nobody is in the middle of a change, and the last one was saved and applied.
Quiet == ~changed /\ ~unsaved /\ \A p \in Panels \cup {Host} : job[p].pc \in {"idle", "done"}

\* However the changes of several panels and the reconfigurations interleave, once
\* all of them are through the host's file rules: the configuration in force and
\* the overlay are what it says, and every published catalog carries its tiers, and
\* none that was cleared (the lengths that were overtaken between a read and a
\* write, or that there was nothing to roll back to, `late`, excepted).
\* (syncHiddenModelsConfig, commitFeatureRuntime, reapplyModelContextSnapshots.)
ConfigRules ==
    Quiet =>
        /\ features = file
        /\ overlay.hide = file.hidden /\ overlay.order = file.order
        /\ \A a \in Accounts : \A m \in (Tiered \cap DOMAIN visible[a].len) \ visible[a].late :
             IF file.tier[m] # NoTier THEN visible[a].len[m] = file.tier[m]
             ELSE visible[a].len[m] # Tier
=============================================================================
