------------------------------ MODULE MCHouse ------------------------------
(***************************************************************************)
(* Instances of what a household looks at: its games, its channels and     *)
(* what they play, the health of its services, its media shelf, and the    *)
(* catalogues its owner imports.  They share nothing, so TLC runs one of   *)
(* them at a time; the others rest in one of their initial states.         *)
(***************************************************************************)
EXTENDS GameDesk, TuneIn, ServiceHealth, MediaShelf, RomImports, ChannelLineup, TLC

CONSTANTS p1, p2, g1

\* A public channel of one programme and a private one of two.
Programme(s, e, from, r) == [starts |-> s, ends |-> e, server |-> from, runs |-> r]
MCGuide == [pub |-> <<Programme(1, 3, "archive", 2)>>,
            jel |-> <<Programme(0, 3, "jellyfin", 2), Programme(3, 6, "plex", 2)>>]
MCChain == <<"archive", "jellyfin", "plex">>

\* One service of each kind in turn, whose id another claims too, and two services.
Service(id, kind) == [id |-> id, kind |-> kind]
MCHouseholds == {<<Service("x", k), Service("x", "plex")>> : k \in Kinds}
                \cup {<<Service("radarr", "radarr"), Service("plex", "plex")>>}
MCTroubles == Wrong \ {"webPage"}

\* Two collections, and one that is never published.
MCCollectionOf == <<"nointro", "redump", "outliers">>

\* Two shows, one of a single episode that can be scheduled.
Item(s, e, gs, y, r) == [show |-> s, episode |-> e, genres |-> gs, year |-> y, runs |-> r]
MCProgrammes ==
    {Item(1, 1, {{"a"}}, 4, 1), Item(1, 2, {{"a"}, {"b"}}, 5, 1),
     Item(1, 3, {{"a"}, {"b", "c"}}, 6, 1), Item(2, 1, {{"b"}}, 5, 1), Item(2, 2, {{"a"}}, 7, 0)}

Rule(f, o, v, vs, lo, hi) ==
    [field |-> f, op |-> o, value |-> v, values |-> vs, min |-> lo, max |-> hi]
Group(m, n, rs) == [match |-> m, negate |-> n, rules |-> rs]
RuleSet(m, n, rs, gs) == [match |-> m, negate |-> n, rules |-> rs, groups |-> gs]
IsA == Rule("genre", "is", {"a"}, {}, 0, 0)
HasB == Rule("genre", "contains", {"b"}, {}, 0, 0)
IsZ == Rule("genre", "is", {"z"}, {}, 0, 0)
Mid == Rule("year", "between", 0, {}, 5, 6)
Everything == RuleSet("", FALSE, {}, {})
MCRuleSets ==
    {Everything, RuleSet("all", FALSE, {IsA}, {}),
     RuleSet("any", FALSE, {IsA}, {Group("all", TRUE, {HasB})}),
     RuleSet("all", TRUE, {IsZ}, {Group("any", FALSE, {IsA, Mid})}),
     RuleSet("odd", FALSE, {IsA}, {})}

\* Nights and mornings, with a part that wraps midnight; a weekday, and a part with nothing
\* to play.
Part(n, a, b, ds, rs, s) ==
    [name |-> n, from |-> a, to |-> b, days |-> ds, rules |-> rs, strategy |-> s]
PartSets ==
    {<<Part("x", 3, 1, {}, RuleSet("all", FALSE, {IsA}, {}), "CYCLIC"),
       Part("", 1, 3, {}, RuleSet("all", FALSE, {HasB}, {}), "BLOCK")>>,
     <<Part("x", 0, 4, {0}, Everything, ""),
       Part("y", 0, 0, {1}, RuleSet("all", FALSE, {IsZ}, {}), "BLOCK_CYCLIC")>>}
Channel(s, rs, ps) == [strategy |-> s, block |-> 0, rules |-> rs, parts |-> ps]
MCDrafts ==
    {Channel(s, rs, <<>>) : s \in Plain \cup {"", "DAY_BASED"}, rs \in MCRuleSets}
    \cup {Channel(s, rs, ps) : s \in Partitioned, ps \in PartSets,
                               rs \in {Everything, RuleSet("any", FALSE, {Mid}, {})}}

VARIABLE room   \* the one somebody is in

houseVars ==
    <<room, gameVars, tuneVars, healthVars, shelfVars, importVars, lineupVars>>

GamesAtRest == roms = [g \in Games |-> "no"] /\ playOK
HealthAtRest == /\ registry = Registered(CHOOSE h \in Households : TRUE)
                /\ faults = {} /\ busy = {}
ShelfAtRest == server = "jellyfin" /\ stock = {}
LineupAtRest == /\ draft = (CHOOSE d \in Drafts : d.parts = <<>>)
                /\ \A r \in DOMAIN deals[0] : deals[0][r] = (CHOOSE d \in Deals : TRUE)

HouseInit ==
    /\ room \in {"games", "tuner", "health", "shelf", "imports", "lineup"}
    /\ GamesInit /\ (room = "games" \/ GamesAtRest)
    /\ TuneInit
    /\ HealthInit /\ (room = "health" \/ HealthAtRest)
    /\ ShelfInit /\ (room = "shelf" \/ ShelfAtRest)
    /\ ImportsInit
    /\ LineupInit /\ (room = "lineup" \/ LineupAtRest)

InGames == room = "games" /\ GamesNext
           /\ UNCHANGED <<room, tuneVars, healthVars, shelfVars, importVars, lineupVars>>
InTuner == room = "tuner" /\ TuneNext
           /\ UNCHANGED <<room, gameVars, healthVars, shelfVars, importVars, lineupVars>>
InHealth == room = "health" /\ HealthNext
            /\ UNCHANGED <<room, gameVars, tuneVars, shelfVars, importVars, lineupVars>>
InShelf == room = "shelf" /\ ShelfNext
           /\ UNCHANGED <<room, gameVars, tuneVars, healthVars, importVars, lineupVars>>
InImports == room = "imports" /\ ImportsNext
             /\ UNCHANGED <<room, gameVars, tuneVars, healthVars, shelfVars, lineupVars>>
InLineup == room = "lineup" /\ LineupNext
            /\ UNCHANGED <<room, gameVars, tuneVars, healthVars, shelfVars, importVars>>

HouseNext == InGames \/ InTuner \/ InHealth \/ InShelf \/ InImports \/ InLineup

HouseSpec == HouseInit /\ [][HouseNext]_houseVars

\* The type invariants of the six modules.
HouseTypeOK == /\ GamesTypeOK /\ TuneTypeOK /\ HealthTypeOK
               /\ ShelfTypeOK /\ ImportsTypeOK /\ LineupTypeOK
=============================================================================
