-------------------------- MODULE WorkBuddyCatalog --------------------------
(***************************************************************************)
(* What one account's upstream offers (model_source_workbuddy.go): the two *)
(* /v3/config answers, the legacy list behind them, and the campaigns that *)
(* ride along (promotions.go).  Operators only; ModelCuration runs them.   *)
(*                                                                         *)
(* An answer is its status and its decoded body.  A model's facts are its  *)
(* ID, its name and its context length: the other descriptive fields are   *)
(* copied and filled in the way the name is.  validateModelFacts refuses   *)
(* an empty list, so <<>> stands for every error of a parse.               *)
(***************************************************************************)
EXTENDS Integers, Sequences, SequencesExt

CONSTANTS
    ChatUsable,     \* the IDs classifyModelID takes for chat or inline models
    MaxPromotions   \* maxPromotions

Blank == ""
Error == <<>>

\* What the decoders let through, and the facts that are made of it.
WireModel == [id : STRING, name : STRING, off : BOOLEAN, input : Int, window : Int]
WireCampaign == [id : STRING, on : BOOLEAN, models : SUBSET STRING, text : STRING]
WireBody ==
    [valid : BOOLEAN, agent : Seq(STRING), rich : Seq(WireModel),
     campaigns : {"ok", "malformed"}, promos : Seq(WireCampaign),
     tiers : Seq([id : STRING, on : BOOLEAN])]
Reply == [status : {"ok", "absent", "down"}, body : WireBody]
Fact == [id : STRING, name : STRING \cup {Blank}, ctx : Int]

IdsOf(list) == [i \in DOMAIN list |-> list[i].id]
Named(list) == {list[i].id : i \in DOMAIN list}
Distinct(s) == \A i, j \in DOMAIN s : s[i] = s[j] => i = j

\* The entries of s at the indexes of I, in their order.
EntriesAt(s, I) ==
    LET at[n \in 0 .. Len(s)] ==
            IF n = 0 THEN <<>> ELSE IF n \in I THEN Append(at[n - 1], s[n]) ELSE at[n - 1]
    IN  at[Len(s)]

\* The entries of s that are in T, and those that no earlier one repeats.
Those(s, T) == EntriesAt(s, {i \in DOMAIN s : s[i] \in T})
FirstSeen(s) == EntriesAt(s, {i \in DOMAIN s : \A j \in DOMAIN s : j < i => s[j] # s[i]})

\* The indexes of the entries with that ID, and the first entry of them.
Under(list, id) == {i \in DOMAIN list : list[i].id = id}
Entry(list, id) == list[CHOOSE i \in Under(list, id) : \A j \in Under(list, id) : i <= j]

-----------------------------------------------------------------------------
validateModelFacts(list) ==
    IF /\ Blank \notin Named(list)
       /\ Distinct(IdsOf(list))
       /\ \A i \in DOMAIN list : list[i].ctx >= 0
    THEN list ELSE Error

\* fillMissingModelFacts: only what the destination left blank (0: unreported).
fillMissingModelFacts(dst, src) ==
    [dst EXCEPT !.name = IF @ = Blank THEN src.name ELSE @,
                !.ctx = IF @ = 0 THEN src.ctx ELSE @]

\* Of several rich entries with one ID the last describes the model; without a
\* maxInputTokens its context window's default is the length.
richFacts(id, rich) ==
    LET last == rich[CHOOSE i \in Under(rich, id) : \A j \in Under(rich, id) : j <= i]
    IN  IF id \notin Named(rich) THEN [id |-> id, name |-> Blank, ctx |-> 0]
        ELSE [id |-> id, name |-> last.name,
              ctx |-> IF last.input # 0 THEN last.input ELSE last.window]

\* Mutated: a withdrawn rich entry is served.
entitledAndOff(body) ==
    FirstSeen(body.agent \o Those(IdsOf(body.rich), ChatUsable))

\* Entitlement order leads; then the rich entries that can serve chat.
unionOf(body) ==
    LET on == EntriesAt(body.rich, {i \in DOMAIN body.rich : ~body.rich[i].off})
    IN  FirstSeen(body.agent \o Those(IdsOf(on), ChatUsable \ {Blank}))

\* One successful body with exactly one cli agent is `valid`; an empty or a
\* repeated entitlement is a schema error, never a shorter list.
parseWorkBuddyV3Config(body) ==
    IF body.valid /\ Blank \notin ToSet(body.agent) /\ Distinct(body.agent)
    THEN LET ids == unionOf(body)
         IN  validateModelFacts([i \in DOMAIN ids |-> richFacts(ids[i], body.rich)])
    ELSE Error

\* The whole list is validated, withdrawn models included, before they go.
parseWorkBuddyLegacyModels(body) ==
    LET facts(e) == [id |-> e.id, name |-> e.name, ctx |-> e.input]
        all == [i \in DOMAIN body.rich |-> facts(body.rich[i])]
        kept == EntriesAt(body.rich, {i \in DOMAIN body.rich : ~body.rich[i].off})
    IN  IF body.valid /\ validateModelFacts(all) # Error
        THEN [i \in DOMAIN kept |-> facts(kept[i])] ELSE Error

\* The primary list leads and only its gaps are filled; what the secondary
\* alone has is appended.
mergeModelCatalog(primary, secondary) ==
    LET filled(m) == IF m.id \notin Named(secondary) THEN m
                     ELSE fillMissingModelFacts(m, Entry(secondary, m.id))
    IN  [i \in DOMAIN primary |-> filled(primary[i])]
        \o EntriesAt(secondary, {i \in DOMAIN secondary : secondary[i].id \notin Named(primary)})

-----------------------------------------------------------------------------
(* Campaigns.  An entry that is off, nameless or names no model is dropped. *)

normalizeOnePromotion(p) == p.id # Blank /\ p.on /\ p.models # {}

normalizeModelPromotions(entries) ==
    LET usable == EntriesAt(entries, {i \in DOMAIN entries : normalizeOnePromotion(entries[i])})
    IN  SubSeq(usable, 1, IF Len(usable) < MaxPromotions THEN Len(usable) ELSE MaxPromotions)

normalizeModelTiers(entries) ==
    EntriesAt(entries, {i \in DOMAIN entries : entries[i].on /\ entries[i].id # Blank})

\* A campaign block that does not decode is dropped, the catalog stays.
parseWorkBuddyV3Promotions(body) ==
    IF body.campaigns = "malformed" THEN [promos |-> <<>>, tiers |-> <<>>]
    ELSE [promos |-> normalizeModelPromotions(body.promos),
          tiers |-> normalizeModelTiers(body.tiers)]

-----------------------------------------------------------------------------
NoCatalog == [models |-> Error, promos |-> <<>>, tiers |-> <<>>]

\* Mutated: the campaigns are read from the answer that came last.
campaignsLast(answer) ==
    parseWorkBuddyV3Promotions(IF answer.cli.status = "ok" THEN answer.cli.body
                               ELSE answer.desktop.body)

\* The CLI identity is served a narrower payload without campaigns.
campaigns(answer) == parseWorkBuddyV3Promotions(answer.desktop.body)

\* The desktop view decides; the CLI view is best effort and only adds models;
\* the legacy list is asked when /v3/config does not exist (404, 405).
fetchWorkBuddyCatalog(answer) ==
    LET desktop == parseWorkBuddyV3Config(answer.desktop.body)
        cli == IF answer.cli.status = "ok" THEN parseWorkBuddyV3Config(answer.cli.body) ELSE Error
        legacy == parseWorkBuddyLegacyModels(answer.legacy.body)
    IN  CASE answer.desktop.status = "ok" /\ desktop # Error ->
               [models |-> mergeModelCatalog(desktop, cli), promos |-> campaigns(answer).promos,
                tiers |-> campaigns(answer).tiers]
          [] answer.desktop.status = "absent" /\ answer.legacy.status = "ok" ->
               [NoCatalog EXCEPT !.models = legacy]
          [] OTHER -> NoCatalog
=============================================================================
