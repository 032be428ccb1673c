-------------------------- MODULE MCModelCuration --------------------------
(* A TLC instance of ModelCuration, and clock times of PromoWindow. *)
EXTENDS ModelCuration, TLC

CONSTANTS b1, b2

Window == INSTANCE PromoWindow

Model(id, name, off, input, window) ==
    [id |-> id, name |-> name, off |-> off, input |-> input, window |-> window]
Promo(id, on, models, text) == [id |-> id, on |-> on, models |-> models, text |-> text]
Body(agent, rich, block, promos) ==
    [valid |-> TRUE, agent |-> agent, rich |-> rich, campaigns |-> block,
     promos |-> promos, tiers |-> <<>>]
Said(body) == [status |-> "ok", body |-> body]
Silent(status) == [status |-> status, body |-> [Body(<<>>, <<>>, "ok", <<>>) EXCEPT !.valid = FALSE]]
Answer(desktop, cli, legacy) == [desktop |-> desktop, cli |-> cli, legacy |-> legacy]

\* The desktop view: m1 leads, m3 is offered beside the entitlement, m4 was
\* withdrawn and m5 is no chat model; a campaign is off and three are on, one more
\* than are kept.
Rich == Body(<<"m1">>,
    <<Model("m1", "one", FALSE, 2, 1), Model("m3", "", FALSE, 0, 1),
      Model("m4", "four", TRUE, 1, 1), Model("m5", "five", FALSE, 1, 1)>>,
    "ok", <<Promo("p1", TRUE, {"m1"}, "night"), Promo("p2", FALSE, {"m1"}, "day"),
            Promo("p3", TRUE, {"m1"}, "new"), Promo("p4", TRUE, {"m3"}, "last")>>)
\* A later answer of it, with another length and another campaign: m1 is described
\* twice, which leaves it the nameless second description, and m3 is withdrawn.
Poor == Body(<<"m2", "m1">>,
    <<Model("m1", "uno", FALSE, 2, 1), Model("m3", "drei", TRUE, 1, 1),
      Model("m1", "", FALSE, 1, 1)>>, "ok", <<Promo("p1", TRUE, {"m2"}, "autumn")>>)
\* The CLI view: it names m1 and m3, adds m2 and m4, and has no campaigns.
Cli == Body(<<"m2", "m3", "m4">>,
    <<Model("m3", "three", FALSE, 1, 1), Model("m4", "quatre", FALSE, 1, 1),
      Model("m1", "eins", FALSE, 1, 1)>>, "ok", <<>>)
\* A repeated entitlement: a schema error.
Twice == Body(<<"m2", "m2">>, <<>>, "ok", <<>>)
Legacy == Body(<<>>, <<Model("m1", "old", FALSE, 1, 0), Model("m4", "off", TRUE, 1, 0)>>,
    "ok", <<>>)

SomeAnswers == <<
    Answer(Said(Rich), Said(Cli), Silent("down")),
    Answer(Said([Poor EXCEPT !.campaigns = "malformed"]), Said(Twice), Silent("down")),
    Answer(Said(Poor), Said(Cli), Silent("down")),
    Answer(Silent("absent"), Silent("down"), Said(Legacy)),
    Answer(Said(Twice), Said(Cli), Said(Legacy)) >>

SomeRealms == {[a \in Accounts |-> "cn"], [a \in Accounts |-> IF a = 1 THEN "cn" ELSE "global"]}
SomeOrders == {<<>>, <<"m2", "m1">>}
SomeLists == {<<"m1">>}

Symmetry == Permutations(Panels)

\* The theorem of PromoWindow at clock times around its edges.
ASSUME \A start, end \in {0, 1, 470, 1380, 1439, 1440},
          offset \in {-300, 0, 480}, minute \in {0, 1, 470, 479, 900, 1380, 1439} :
    Window!promoActive(Window!normalizePromoWindow(start, end, offset), minute)
        <=> Window!RunsAt(start, end, Window!LocalMinute(minute, offset))
=============================================================================
