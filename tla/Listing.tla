------------------------------ MODULE Listing ------------------------------
(***************************************************************************)
(* How the two market catalogues are read (clients/kalshi/events.rs,       *)
(* clients/polymarket/events.rs): from what an exchange lists, in its own  *)
(* spelling, to events with canonical competitors, a date, and for each    *)
(* Polymarket market the competitor on its LONG side.                      *)
(*                                                                         *)
(* A listed Kalshi event is [ticker, category, codes, expires, coded,      *)
(* index, markets]; its markets are [ticker, sub, title, quoted, reads,    *)
(* minutes, closes, is].  A listed Polymarket event is [series, title,     *)
(* slugdate, minutes, ends, index, markets]; its markets are [id, slug,    *)
(* question, type, reads, outcomes, sides], their sides [name, long,       *)
(* quoted, is].  The field is, which no parser reads, is the competitor    *)
(* whose victory pays.  A field that is missing is NoOne.                  *)
(***************************************************************************)
EXTENDS Integers, FiniteSets, Sequences, SequencesExt, TLC

CONSTANTS
    NoOne,
    Codes,      \* the abbreviations that are plain codes of two or three letters
    NbaNames,   \* NBA name or alias -> code (NBA_TEAM_MAPPINGS)
    FullNames   \* tennis spelling -> canonical name; the others are refused

-----------------------------------------------------------------------------
(* Names *)
normalize_team_name(s) == IF s \in DOMAIN NbaNames THEN NbaNames[s] ELSE s
nba_outcome(s) == IF s \in {"Yes", "No", "Over", "Under"} THEN NoOne ELSE normalize_team_name(s)

normalize_competitor_name(s) == IF s \in DOMAIN FullNames THEN FullNames[s] ELSE NoOne

NHL_POLYMARKET_TO_KALSHI == "MON" :> "MTL" @@ "NAS" :> "NSH" @@ "VEG" :> "VGK" @@ "WAS" :> "WSH"
canonical_team_code(category, s) ==
    IF s \notin Codes THEN NoOne
    ELSE IF category = "NHL" /\ s \in DOMAIN NHL_POLYMARKET_TO_KALSHI
         THEN NHL_POLYMARKET_TO_KALSHI[s] ELSE s

\* The exchanges list the competitors in either order: an event is named by
\* its category and the set of them.
event_name(category, a, b) == <<category, {a, b}>>
crypto_window_event_name(coin, end) == <<"CRYPTO15", coin, end>>
is_window(minutes) == minutes = 15

Two(s) == Len(s) = 2
Named(s, norm(_)) == [i \in DOMAIN s |-> norm(s[i])]
TwoNames(names) == Two(names) /\ NoOne \notin ToSet(names) /\ names[1] # names[2]

-----------------------------------------------------------------------------
(* Kalshi: a parsed event is [id, name, date, markets], a parsed market     *)
(* [ticker, team].                                                          *)
(* A market without a price is left out. *)
build_kalshi_market(m, team) == IF m.quoted THEN <<[ticker |-> m.ticker, team |-> team]>> ELSE <<>>

KalshiEvent(e, name, date, ms) ==
    <<[id |-> e.ticker, name |-> name, date |-> date, markets |-> ms]>>

extract_event_start_time(e) == IF e.expires # NoOne THEN e.expires ELSE e.coded

\* The event's ticker names both teams, each market's ticker one.
parse_nba_event(e) ==
    IF e.codes = NoOne THEN <<>>
    ELSE KalshiEvent(e, event_name("NBA", e.codes[1], e.codes[2]), extract_event_start_time(e),
            FlattenSeq([i \in DOMAIN e.markets |->
                build_kalshi_market(e.markets[i], e.markets[i].ticker[2])]))

\* Exactly two markets, one for each of two competitors, or no event at all.
TwoMarketEvent(e, category, names, date) ==
    IF TwoNames(names) /\ \A i \in 1..2 : e.markets[i].quoted
    THEN KalshiEvent(e, event_name(category, names[1], names[2]), date,
            build_kalshi_market(e.markets[1], names[1]) \o build_kalshi_market(e.markets[2], names[2]))
    ELSE <<>>

extract_tennis_competitor(m) ==
    LET sub == normalize_competitor_name(m.sub)
    IN  IF sub # NoOne THEN sub ELSE normalize_competitor_name(m.title)
parse_tennis_event(e) ==
    TwoMarketEvent(e, "TENNIS", Named(e.markets, extract_tennis_competitor), extract_event_start_time(e))

\* A team game is dated by its ticker, as the Polymarket slug is.
parse_team_game_event(e, category) ==
    LET team(m) == IF m.ticker[1] = e.ticker THEN canonical_team_code(category, m.ticker[2]) ELSE NoOne
    IN  TwoMarketEvent(e, category, Named(e.markets, team), e.coded)

\* One market, whose YES is "up": it reads so, and by the series' own index.
parse_crypto_window_event(e) ==
    IF Len(e.markets) = 1 /\ e.markets[1].reads = e.index /\ is_window(e.markets[1].minutes)
    THEN LET m == e.markets[1]
             ms == build_kalshi_market(m, "UP")
         IN  IF ms = <<>> THEN <<>>
             ELSE KalshiEvent(e, crypto_window_event_name(e.index, m.closes), m.closes, ms)
    ELSE <<>>

parse_kalshi_event(e) ==
    CASE e.category = "NBA" -> parse_nba_event(e)
      [] e.category = "TENNIS" -> parse_tennis_event(e)
      [] e.category \in {"NHL", "MLB"} -> parse_team_game_event(e, e.category)
      [] e.category = "CRYPTO15" -> parse_crypto_window_event(e)
      [] OTHER -> <<>>

-----------------------------------------------------------------------------
(* Polymarket: every parsed market is an event of its own, [id, name, date, *)
(* teams, long] with long the competitors on a LONG side.                   *)
build_competitor_market(m, name, teams, long, date) ==
    IF NoOne \in {m.id, m.slug} THEN <<>>
    ELSE <<[id |-> m.id, name |-> name, date |-> date, teams |-> teams, long |-> long]>>

\* A market with the names of its outcomes and of its sides normalised.
Normalised(m, norm(_)) ==
    [id |-> m.id, slug |-> m.slug, outcomes |-> Named(m.outcomes, norm),
     sides |-> [i \in DOMAIN m.sides |->
                   [name |-> norm(m.sides[i].name), long |-> m.sides[i].long,
                    quoted |-> m.sides[i].quoted]]]
LongOf(sides) == {s.name : s \in {t \in ToSet(sides) : t.long}}

\* Mutant of competitor_sides: the first outcome is taken to be LONG.
SidesByOrder(m, category, date) ==
    IF TwoNames(m.outcomes)
    THEN build_competitor_market(m, event_name(category, m.outcomes[1], m.outcomes[2]),
                                 ToSet(m.outcomes), {m.outcomes[1]}, date)
    ELSE <<>>
\* The outcomes name the two competitors; each must be described by exactly
\* one side, which says itself whether it is LONG.  Other sides are skipped.
competitor_sides(m, category, date) ==
    LET sides_of(t) == {i \in DOMAIN m.sides : m.sides[i].name = t}
    IN  IF /\ TwoNames(m.outcomes)
           /\ \A t \in ToSet(m.outcomes) :
                  \E i \in DOMAIN m.sides : sides_of(t) = {i} /\ m.sides[i].quoted
        THEN build_competitor_market(m, event_name(category, m.outcomes[1], m.outcomes[2]),
                                     ToSet(m.outcomes), LongOf(m.sides) \cap ToSet(m.outcomes), date)
        ELSE <<>>

parse_nba_market(e, m) ==
    IF m.question \in {NoOne, e.title}
    THEN competitor_sides(Normalised(m, nba_outcome), "NBA", e.slugdate) ELSE <<>>

parse_tennis_match_winner_market(e, m) ==
    IF m.type = "tennis_match_winner"
    THEN competitor_sides(Normalised(m, normalize_competitor_name), "TENNIS", e.slugdate) ELSE <<>>

full_game_winner == "NHL" :> "hockey_team_full_game_winner" @@ "MLB" :> "baseball_team_full_game_winner"

\* Two sides with a price, for two teams, one LONG and one SHORT.
parse_team_game_market(category, e, m) ==
    LET sides == Normalised(m, LAMBDA s : canonical_team_code(category, s)).sides
        names == [i \in DOMAIN sides |-> sides[i].name]
    IN  IF /\ m.type = full_game_winner[category]
           /\ TwoNames(names) /\ \A s \in ToSet(sides) : s.quoted
           /\ Cardinality(LongOf(sides)) = 1
        THEN build_competitor_market(m, event_name(category, names[1], names[2]), ToSet(names),
                                     LongOf(sides), e.slugdate)
        ELSE <<>>

\* One market of two sides, Yes LONG and No SHORT; one of them may lack a price.
parse_crypto_window_market(e) ==
    IF Len(e.markets) # 1 THEN <<>>
    ELSE LET m == e.markets[1]
         IN  IF /\ is_window(e.minutes) /\ m.reads = e.index
                /\ Two(m.sides) /\ \E s \in ToSet(m.sides) : s.quoted
                /\ {<<s.name, s.long>> : s \in ToSet(m.sides)} = {<<"Yes", TRUE>>, <<"No", FALSE>>}
             THEN build_competitor_market(m, crypto_window_event_name(e.index, e.ends),
                                          {"UP", "DOWN"}, {"UP"}, e.ends)
             ELSE <<>>

parse_polymarket_event(category, e) ==
    IF category = "CRYPTO15" THEN parse_crypto_window_market(e)
    ELSE FlattenSeq([i \in DOMAIN e.markets |->
            CASE category = "NBA" -> parse_nba_market(e, e.markets[i])
              [] category = "TENNIS" -> parse_tennis_match_winner_market(e, e.markets[i])
              [] category \in {"NHL", "MLB"} -> parse_team_game_market(category, e, e.markets[i])
              [] OTHER -> <<>>])

\* What is fetched, in order: the sport codes with their categories, then the
\* crypto series.
SportFeeds == << <<"nba", "NBA">>, <<"nhl", "NHL">>, <<"mlb", "MLB">>,
                 <<"atp", "TENNIS">>, <<"wta", "TENNIS">> >>
CRYPTO_WINDOW_SERIES == << <<"btc", "CRYPTO15">>, <<"eth", "CRYPTO15">>, <<"sol", "CRYPTO15">> >>
Feeds == SportFeeds \o CRYPTO_WINDOW_SERIES

\* series: code -> series, for the codes the exchange knows; fails: the series
\* that do not answer; parsed[c][s]: what series s reads as in category c.
\* A series is fetched once, for the first code that has it.
Fetched(i, series) ==
    /\ SportFeeds[i][1] \in DOMAIN series
    /\ \A j \in 1..(i - 1) :
          SportFeeds[j][1] \in DOMAIN series => series[SportFeeds[j][1]] # series[SportFeeds[i][1]]
Fails(i, series, fails) == Fetched(i, series) /\ series[SportFeeds[i][1]] \in fails

append_series_events_and_markets(i, series, fails, parsed) ==
    IF Fetched(i, series) /\ ~Fails(i, series, fails)
    THEN parsed[SportFeeds[i][2]][series[SportFeeds[i][1]]] ELSE <<>>

get_crypto_window_events_and_markets(code, series, fails, parsed) ==
    IF code \notin DOMAIN series THEN <<>>
    ELSE IF series[code] \in fails THEN <<>> ELSE parsed["CRYPTO15"][series[code]]

\* Without NBA, and when NBA or a tennis series fails, there is no scan; a team
\* sport or a crypto series that fails, and an unknown code, is passed over.
get_supported_events_and_markets(series, fails, parsed) ==
    [ok |-> /\ "nba" \in DOMAIN series
            /\ \A i \in DOMAIN SportFeeds :
                  Fails(i, series, fails) => SportFeeds[i][2] \notin {"NBA", "TENNIS"},
     events |->
        FlattenSeq([i \in DOMAIN SportFeeds |->
            append_series_events_and_markets(i, series, fails, parsed)])
        \o FlattenSeq([i \in DOMAIN CRYPTO_WINDOW_SERIES |->
            get_crypto_window_events_and_markets(CRYPTO_WINDOW_SERIES[i][1], series, fails, parsed)])]
=============================================================================
