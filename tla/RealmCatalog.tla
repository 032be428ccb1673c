---------------------------- MODULE RealmCatalog ----------------------------
(***************************************************************************)
(* The panel's view by realm (panel_realm_catalog.go) and the union that   *)
(* the catalog view is built from (model_config.go).  Both walk the auth   *)
(* files in the order in which the host lists them, which it does not      *)
(* promise; every operator takes that order (`listing`) and the snapshots. *)
(***************************************************************************)
EXTENDS WorkBuddyCatalog

Realms == {"cn", "global"}
Executable == {"ready", "stale"}
Nobody == 0

executable(s) == s.state \in Executable
FactIds(s) == {s.facts[i].id : i \in DOMAIN s.facts}

\* Whose copy of each model and each campaign a realm shows, and whose state.
NoSelection ==
    [loaded |-> FALSE, display |-> Nobody, facts |-> <<>>, promos |-> <<>>]

\* Mutated: of two catalogs fetched at the same time the one listed last wins.
sourceWinsByOrder(S, c, k) == c # k /\ S[c].at >= S[k].at

\* panelRealmSourceWins, panelRealmFactWins: newest, then smallest auth ID.
panelRealmSourceWins(S, c, k) ==
    c # k /\ (S[c].at > S[k].at \/ (S[c].at = S[k].at /\ c < k))

\* owner: ID -> account.  Account a brings the entries of list.
Claim(S, owner, a, list) ==
    LET ids == {list[i].id : i \in DOMAIN list}
    IN  [id \in DOMAIN owner \cup ids |->
            IF id \in ids /\ (id \notin DOMAIN owner \/ panelRealmSourceWins(S, a, owner[id]))
            THEN a ELSE owner[id]]

\* panelRealmSnapshotBetter, panelRealmSnapshotEquivalent
displays(S, a, k) ==
    \/ k = Nobody
    \/ executable(S[a]) /\ ~executable(S[k])
    \/ executable(S[a]) = executable(S[k]) /\ S[a].at > S[k].at
    \/ executable(S[a]) = executable(S[k]) /\ S[a].at = S[k].at /\ a < k

\* Mutated: an executable snapshot loads the realm even when it has no facts.
loadsAny(s) == executable(s)

\* A configured list is executable and carries no facts.
loads(s) == executable(s) /\ s.facts # <<>>

\* panelRealmSelections, for one realm: what account a's snapshot makes of sel ...
Selected(sel, S, realm, a) ==
    IF S[a].realm # realm THEN sel
    ELSE [loaded |-> sel.loaded \/ loads(S[a]),
          display |-> IF displays(S, a, sel.display) THEN a ELSE sel.display,
          facts |-> IF loads(S[a]) THEN Claim(S, sel.facts, a, S[a].facts) ELSE sel.facts,
          promos |-> IF loads(S[a]) THEN Claim(S, sel.promos, a, S[a].promos) ELSE sel.promos]

\* ... and what all of them do, in the order of the listing.
selectionOf(listing, S, realm) ==
    LET sel[n \in 0 .. Len(listing)] ==
            IF n = 0 THEN NoSelection
            ELSE LET before == sel[n - 1] IN Selected(before, S, realm, listing[n])
    IN  sel[Len(listing)]

\* buildPanelRealmModels.  The rows are sorted by ID, so a row is found by it.
buildPanelRealmModels(listing, S) ==
    LET sel == [r \in Realms |-> selectionOf(listing, S, r)]
        ids == UNION {DOMAIN sel[r].facts : r \in {x \in Realms : sel[x].loaded}}
        cell(r, id) ==
            IF ~sel[r].loaded THEN [status |-> "not_loaded", of |-> <<>>]
            ELSE IF id \notin DOMAIN sel[r].facts THEN [status |-> "absent", of |-> <<>>]
            ELSE [status |-> "present", of |-> <<Entry(S[sel[r].facts[id]].facts, id)>>]
    IN  [id \in ids |-> [r \in Realms |-> cell(r, id)]]

\* buildPanelRealmStatus
buildPanelRealmStatus(listing, S) ==
    [r \in Realms |->
        LET sel == selectionOf(listing, S, r)
        IN  [loaded |-> sel.loaded,
             status |-> IF sel.display = Nobody THEN "not_loaded" ELSE S[sel.display].state]]

\* realmPromotions: the campaigns by ID.
realmPromotions(listing, S, realm) ==
    LET sel == selectionOf(listing, S, realm)
    IN  [id \in DOMAIN sel.promos |-> Entry(S[sel.promos[id]].promos, id)]

\* promotionPanelStatus
promotionPanelStatus(listing, S, realm) ==
    LET sel == selectionOf(listing, S, realm)
    IN  IF sel.loaded /\ DOMAIN sel.promos # {} THEN "loaded"
        ELSE IF sel.display # Nobody /\ S[sel.display].state = "failed" THEN "failed"
        ELSE IF sel.loaded THEN "empty" ELSE "not_loaded"

\* baseModelCatalogTyped: the served IDs in the order first seen, or the
\* configured list when no account has any.
baseModelCatalog(listing, S, configured) ==
    LET ids[n \in 0 .. Len(listing)] ==
            IF n = 0 THEN <<>> ELSE ids[n - 1] \o S[listing[n]].models
        union == FirstSeen(ids[Len(listing)])
    IN  IF union = <<>> THEN configured ELSE union
=============================================================================
