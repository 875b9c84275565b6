--------------------------- MODULE MCAlgorithms ---------------------------
(* Sizing and Matching side by side: a behaviour is one of the one or one of *)
(* the other.                                                                *)
EXTENDS Sizing, Matching

CONSTANTS g1, g2   \* games

\* bids for [yes, no], in mills; a crossed market is never quoted
SomeKalshiBooks ==
    {[yes |-> {<<480, 3>>, <<450, 2>>}, no |-> {<<500, 3>>, <<480, 3>>}],
     [yes |-> {<<470, 3>>}, no |-> {<<520, 1>>, <<490, 2>>}],
     [yes |-> {<<200, 3>>}, no |-> {<<760, 3>>}],
     [yes |-> {<<600, 4>>}, no |-> {}]}
SomePolyBooks ==
    {[yes |-> {<<425, 3>>, <<410, 3>>}, no |-> {<<556, 3>>, <<535, 3>>}],
     [yes |-> {<<430, 4>>}, no |-> {<<560, 1>>, <<550, 3>>}],
     [yes |-> {<<505, 2>>}, no |-> {<<455, 3>>}],
     [yes |-> {<<320, 1>>}, no |-> {<<650, 3>>}]}

-----------------------------------------------------------------------------
\* What the exchanges list.
Names == [cavs |-> "CLE", lakers |-> "LAL"]
Spellings == "Ann Lee" :> "ANN LEE" @@ "ann-lee" :> "ANN LEE" @@ "Bea Cruz" :> "BEA CRUZ"
PlainCodes == {"MIL", "TB", "MON", "MTL", "BOS"}
SeriesOf == "nba" :> "s1" @@ "nhl" :> "s2" @@ "mlb" :> "s3" @@ "atp" :> "s4" @@ "wta" :> "s4" @@ "btc" :> "s5"

KListed(event, suffix, is) ==
    [ticker |-> <<event, suffix>>, sub |-> suffix, title |-> suffix, quoted |-> TRUE,
     reads |-> NoOne, minutes |-> NoOne, closes |-> NoOne, is |-> is]
KEvent(event, category, date, ms) ==
    [ticker |-> event, category |-> category, codes |-> NoOne, expires |-> date, coded |-> date,
     index |-> NoOne, markets |-> ms]
Side(name, long, is) == [name |-> name, long |-> long, quoted |-> TRUE, is |-> is]
PListed(id, type, sides) ==
    [id |-> id, slug |-> id, question |-> NoOne, type |-> type, reads |-> NoOne,
     outcomes |-> [i \in DOMAIN sides |-> sides[i].name], sides |-> sides]
PEvent(series, date, ms) ==
    [series |-> series, title |-> "game", slugdate |-> date, minutes |-> NoOne, ends |-> NoOne,
     index |-> NoOne, markets |-> ms]

\* A doubleheader, of which Polymarket lists the teams in opposite orders.
BaseballGame(event) == KEvent(event, "MLB", 1, <<KListed(event, "MIL", "a"), KListed(event, "TB", "b")>>)
Doubleheader ==
    [kalshi |-> g1 :> BaseballGame("K1") @@ g2 :> BaseballGame("K2"),
     poly |->
        g1 :> PEvent("s3", 1, <<PListed("p1", "baseball_team_full_game_winner",
                                  <<Side("MIL", TRUE, "a"), Side("TB", FALSE, "b")>>)>>)
     @@ g2 :> PEvent("s3", 1, <<PListed("p2", "baseball_team_full_game_winner",
                                  <<Side("MIL", FALSE, "a"), Side("TB", TRUE, "b")>>)>>)]

\* Of one game each: a tennis match in two spellings and without a date on
\* Polymarket, the LONG side listed last, beside a market of its first set; an
\* NHL game of a team that the exchanges abbreviate differently; an NBA game
\* beside its total; a window of Bitcoin.
Single(k, p) == [kalshi |-> g1 :> k, poly |-> g1 :> p]
Tennis == Single(
    KEvent("K1", "TENNIS", 1, <<KListed("K1", "Ann Lee", "a"), KListed("K1", "Bea Cruz", "b")>>),
    PEvent("s4", NoOne, <<PListed("p1", "tennis_match_winner",
                                  <<Side("ann-lee", FALSE, "a"), Side("Bea Cruz", TRUE, "b")>>),
                          PListed("p2", "tennis_set_winner",
                                  <<Side("ann-lee", TRUE, "a"), Side("Bea Cruz", FALSE, "b")>>)>>))
Hockey == Single(
    KEvent("K1", "NHL", 1, <<KListed("K1", "MTL", "a"), KListed("K1", "BOS", "b")>>),
    PEvent("s2", 1, <<PListed("p1", "hockey_team_full_game_winner",
                              <<Side("BOS", FALSE, "b"), Side("MON", TRUE, "a")>>)>>))
Basketball == Single(
    [KEvent("K1", "NBA", 1, <<KListed("K1", "CLE", "a"), KListed("K1", "LAL", "b")>>)
        EXCEPT !.codes = <<"CLE", "LAL">>],
    PEvent("s1", 1, <<[PListed("p1", NoOne, <<Side("lakers", TRUE, "b"), Side("cavs", FALSE, "a")>>)
                          EXCEPT !.outcomes = <<"cavs", "lakers">>],
                      PListed("p2", NoOne, <<Side("Over", TRUE, "a"), Side("Under", FALSE, "b")>>)>>))
Window == Single(
    [KEvent("K1", "CRYPTO15", NoOne,
            <<[KListed("K1", "15", "a") EXCEPT !.reads = "BRTI", !.minutes = 15, !.closes = 1]>>)
        EXCEPT !.index = "BRTI"],
    [PEvent("s5", NoOne, <<[PListed("p1", NoOne, <<Side("No", FALSE, "b"), Side("Yes", TRUE, "a")>>)
                               EXCEPT !.reads = "BRTI"]>>)
        EXCEPT !.index = "BRTI", !.minutes = 15, !.ends = 1])

OneOfEach == {<<"K1", "MIL">>, <<"K1", "Ann Lee">>}
SomeCatalogues ==
    "doubleheader" :> Doubleheader @@ "tennis" :> Tennis @@ "hockey" :> Hockey
        @@ "basketball" :> Basketball @@ "window" :> Window

AlgInit == SizingInit /\ MatchInit
SizingStep == /\ catalogue = "doubleheader" /\ kopen = {} /\ popen = {} /\ over = {}
              /\ SizingNext
              /\ UNCHANGED matchVars
MatchStep == /\ phase = "idle" /\ kside = "yes" /\ pside = "yes"
             /\ MatchNext
             /\ UNCHANGED sizingVars
AlgSpec == AlgInit /\ [][SizingStep \/ MatchStep]_<<sizingVars, matchVars>>
=============================================================================
