------------------------------ MODULE GameDesk ------------------------------
(***************************************************************************)
(* Games (provider_romarr.go, provider_romm.go): Romarr fetches them and   *)
(* keeps two lists, what is wanted and what is under way; RomM holds the   *)
(* finished shelf and plays it.  A question about a game is put to both at *)
(* once; Romarr's part of the answer is read from its two lists one after  *)
(* the other, while Romarr goes on; RomM's needs a token, which lasts a    *)
(* while and is renewed before it lapses.  Both services are external.     *)
(***************************************************************************)
EXTENDS Naturals, FiniteSets

CONSTANTS
    Games,      \* by name and platform
    Gamers,     \* who asks, one question at a time each
    TokenLife,  \* ticks a token of RomM is good for
    Margin,     \* ticks before that at which it is renewed (a minute)
    MaxReleases, \* bound: stages at which one game is in the queue at once
    MaxTroubles \* bound: failures of the two services, refusals of a token

ASSUME GameAssumption ==
    TokenLife \in Nat /\ Margin \in Nat /\ MaxReleases \in Nat /\ MaxTroubles \in Nat

VARIABLES
    underWay,  \* Romarr's queue: per game the stages its releases are at
    wanted,    \* Romarr's list of wanted games
    roms,      \* RomM's shelf: per game
    token,     \* rommClient.token: ticks until it is renewed, and until RomM refuses it
    playOK,    \* the answer of verifyPlay, asked once at the start
    gamer,     \* per person: the question and what came back
    troubles

gameVars == <<underWay, wanted, roms, token, playOK, gamer, troubles>>

Stages == {"grabbed", "downloading", "verifying", "importing", "imported", "failed"}
Providers == {"romarr", "romm"}
OneOrAll == {Providers, {"romarr"}, {"romm"}}
States == {"available", "importing", "downloading", "requested", "missing", "unknown"}

\* The identities: Romarr's of a game and of a release, RomM's of a file.
GameIds == [of : {"romarr:game", "romarr:release", "romm:release"}, game : Games]

Nothing == [of |-> "nothing", game |-> "none"]
Shelves == [of |-> "shelves", game |-> "any"]

NoToken == [renew |-> 0, good |-> 0]
NoList == [read |-> FALSE, rows |-> {}]
NoQuestion == [at |-> "idle", about |-> Nothing, waits |-> {}, queue |-> NoList,
               best |-> "unknown", rows |-> {}, failed |-> {}, of |-> {}, play |-> FALSE,
               seen |-> {}, stayed |-> {}]

-----------------------------------------------------------------------------
(* The states of a game.                                                   *)

LibraryState(stage) ==
    CASE stage = "imported" -> "available"
      [] stage \in {"verifying", "importing"} -> "importing"
      [] stage \in {"grabbed", "downloading"} -> "downloading"
      [] stage = "failed" -> "missing"
      [] OTHER -> "unknown"

Rank(state) ==
    CASE state = "available" -> 5 [] state = "importing" -> 4
      [] state = "downloading" -> 3 [] state = "requested" -> 2
      [] state = "missing" -> 1 [] OTHER -> 0

Stronger(s, t) == IF Rank(t) > Rank(s) THEN t ELSE s

\* A row of the queue is a release: a game may have several.
QueueRows == UNION {{[game |-> g, state |-> LibraryState(stage)] : stage \in underWay[g]} :
                       g \in Games}
GamesIn(rows) == {r.game : r \in rows}

\* Slip: what both lists hold is listed twice.
LedgerOfBoth(queue) == queue \cup {[game |-> g, state |-> "requested"] : g \in wanted}

\* Library of Romarr: the queue, then what is wanted and was not in the queue.
Ledger(queue) ==
    queue \cup {[game |-> g, state |-> "requested"] : g \in wanted \ GamesIn(queue)}

\* LibraryStatus of Romarr: the queue first, and the wanted list for what it lacks.
\* Of several rows of a game the first in the queue's order, which is Romarr's.
StatusOf(g, queue) ==
    IF g \in GamesIn(queue) THEN {r.state : r \in {x \in queue : x.game = g}}
    ELSE {IF g \in wanted THEN "requested" ELSE "unknown"}

\* LibraryStatus of RomM, and the rows of its Library.
Shelved(g) == IF roms[g] = "there" THEN "available" ELSE "missing"
ShelfRows == {[game |-> g, state |-> Shelved(g)] : g \in {h \in Games : roms[h] # "no"}}

\* Where the games are now, for what the answers are held to.
Present == {g \in Games : "imported" \in underWay[g] \/ roms[g] = "there"}
Listed == {<<"queue", g>> : g \in {h \in Games : underWay[h] # {}}}
          \cup {<<"wanted", g>> : g \in wanted}

-----------------------------------------------------------------------------
GamesInit ==
    /\ underWay = [g \in Games |-> {}] /\ wanted = {} /\ troubles = 0
    /\ roms \in [Games -> {"no", "there"}]
    /\ token = NoToken /\ playOK \in BOOLEAN
    /\ gamer = [p \in Gamers |-> NoQuestion]

Asked(p, about, waits) ==
    [NoQuestion EXCEPT !.at = "asking", !.about = about, !.waits = waits, !.of = waits,
                       !.seen = Present, !.stayed = Listed]

\* handleStatus; the provider parameter may name one of them.
AskStatus(p, id, of) ==
    /\ gamer[p].at = "idle"
    /\ gamer' = [gamer EXCEPT ![p] = Asked(p, id, of)]
    /\ UNCHANGED <<underWay, wanted, roms, token, playOK, troubles>>

\* handleLibrary.
AskShelves(p, of) ==
    /\ gamer[p].at = "idle"
    /\ gamer' = [gamer EXCEPT ![p] = Asked(p, Shelves, of)]
    /\ UNCHANGED <<underWay, wanted, roms, token, playOK, troubles>>

\* One answer among those waited for.
Says(p, who, state, rows) ==
    gamer' = [gamer EXCEPT ![p].waits = @ \ {who}, ![p].best = Stronger(@, state),
                           ![p].rows = @ \cup {[r EXCEPT !.game = <<who, @>>] : r \in rows}]

\* An error, a panic or a time-out costs this provider's part only, and is told.
Falters(p, who) ==
    /\ gamer[p].at = "asking" /\ who \in gamer[p].waits /\ troubles < MaxTroubles
    /\ troubles' = troubles + 1
    /\ gamer' = [gamer EXCEPT ![p].waits = @ \ {who}, ![p].failed = @ \cup {who}]
    /\ UNCHANGED <<underWay, wanted, roms, token, playOK>>

Foreign(p, who) ==
    /\ gamer[p].about # Shelves
    /\ who = "romarr" => gamer[p].about.of # "romarr:game"
    /\ who = "romm" => gamer[p].about.of # "romm:release"

\* An identity somebody else issued: no opinion, and no call.
NotMine(p, who) ==
    /\ gamer[p].at = "asking" /\ who \in gamer[p].waits /\ Foreign(p, who)
    /\ Says(p, who, "unknown", {})
    /\ UNCHANGED <<underWay, wanted, roms, token, playOK, troubles>>

ReadQueue(p) ==
    /\ gamer[p].at = "asking" /\ "romarr" \in gamer[p].waits
    /\ ~Foreign(p, "romarr") /\ ~gamer[p].queue.read
    /\ gamer' = [gamer EXCEPT ![p].queue = [read |-> TRUE, rows |-> QueueRows]]
    /\ UNCHANGED <<underWay, wanted, roms, token, playOK, troubles>>

ReadWanted(p) ==
    /\ gamer[p].at = "asking" /\ "romarr" \in gamer[p].waits /\ gamer[p].queue.read
    /\ LET rows == gamer[p].queue.rows
       IN  IF gamer[p].about = Shelves THEN Says(p, "romarr", "unknown", Ledger(rows))
           ELSE \E s \in StatusOf(gamer[p].about.game, rows) : Says(p, "romarr", s, {})
    /\ UNCHANGED <<underWay, wanted, roms, token, playOK, troubles>>

\* accessToken: renewed a minute early; one that lasts no longer than that is not kept.
RenewedAfter(life) == IF life > Margin THEN life - Margin ELSE 0

\* getAuthed: a token is fetched if none is held; RomM may not know the one that is.
ReadShelf(p) ==
    /\ gamer[p].at = "asking" /\ "romm" \in gamer[p].waits /\ ~Foreign(p, "romm")
    /\ token' = IF token.renew > 0 THEN token
                ELSE [renew |-> RenewedAfter(TokenLife), good |-> TokenLife]
    /\ IF token'.good = 0
       THEN gamer' = [gamer EXCEPT ![p].waits = @ \ {"romm"}, ![p].failed = @ \cup {"romm"}]
       ELSE IF gamer[p].about = Shelves THEN Says(p, "romm", "unknown", ShelfRows)
       ELSE Says(p, "romm", Shelved(gamer[p].about.game), {})
    /\ UNCHANGED <<underWay, wanted, roms, playOK, troubles>>

GameAnswered(p) ==
    /\ gamer[p].at = "asking" /\ gamer[p].waits = {}
    /\ gamer' = [gamer EXCEPT ![p].at = "told"]
    /\ UNCHANGED <<underWay, wanted, roms, token, playOK, troubles>>

AskNoMore(p) ==
    /\ gamer[p].at = "told" /\ gamer' = [gamer EXCEPT ![p] = NoQuestion]
    /\ UNCHANGED <<underWay, wanted, roms, token, playOK, troubles>>

\* Details of the two: a game and its releases, or a file; nothing of a release.
Describable(id) == id.of # "romarr:release"

\* PlayURL: a page to play it on, for a file of RomM, if one was seen at the start.
Playable(id) == playOK /\ id.of = "romm:release"

\* handleDetails: the first provider that can describe it.
AskDetails(p, id) ==
    /\ gamer[p].at = "idle" /\ Describable(id)
    /\ gamer' = [gamer EXCEPT ![p] = [NoQuestion EXCEPT !.at = "told", !.about = id,
                                      !.play = Playable(id)]]
    /\ UNCHANGED <<underWay, wanted, roms, token, playOK, troubles>>

\* handleSearch: Romarr's releases, none of which anybody has.
SearchGames(p) ==
    /\ gamer[p].at = "idle"
    /\ gamer' = [gamer EXCEPT ![p] = [NoQuestion EXCEPT !.at = "told",
                     !.rows = {[game |-> <<"release", g>>, state |-> "missing"] : g \in Games}]]
    /\ UNCHANGED <<underWay, wanted, roms, token, playOK, troubles>>

\* What changes at the services while a question is under way.
Witnessed ==
    gamer' = [p \in Gamers |-> IF gamer[p].at = "asking"
                               THEN [gamer[p] EXCEPT !.seen = @ \cup Present',
                                                     !.stayed = @ \cap Listed']
                               ELSE gamer[p]]

\* Request: a game is wanted, a release is grabbed; a file of RomM names neither.
Obtained(id) ==
    CASE id.of = "romarr:game" -> wanted' = wanted \cup {id.game} /\ UNCHANGED underWay
      [] id.of = "romarr:release" ->
             /\ Cardinality(underWay[id.game] \cup {"grabbed"}) <= MaxReleases
             /\ underWay' = [underWay EXCEPT ![id.game] = @ \cup {"grabbed"}] /\ UNCHANGED wanted
      [] OTHER -> UNCHANGED <<underWay, wanted>>

\* handleRequest: of the first provider that can obtain anything.
RequestGame(p, id) ==
    /\ gamer[p].at = "idle" /\ Obtained(id)
    /\ Witnessed /\ UNCHANGED <<roms, token, playOK, troubles>>

-----------------------------------------------------------------------------
(* Romarr, RomM and the clock.                                             *)

Follows == [grabbed |-> {"downloading", "failed"}, downloading |-> {"verifying", "failed"},
            verifying |-> {"importing", "failed"}, importing |-> {"imported", "failed"},
            imported |-> {"no"}, failed |-> {"no", "grabbed"}]

Grab(g) ==
    /\ g \in wanted /\ underWay[g] = {}
    /\ underWay' = [underWay EXCEPT ![g] = {"grabbed"}] /\ wanted' = wanted \ {g}
    /\ UNCHANGED roms

\* What failed is wanted again, and stays in the queue for a while.
Proceed(g, from, stage) ==
    /\ from \in underWay[g] /\ stage \in Follows[from]
    /\ underWay' = [underWay EXCEPT ![g] = (@ \ {from}) \cup ({stage} \cap Stages)]
    /\ wanted' = IF stage = "failed" THEN wanted \cup {g} ELSE wanted \ {g}
    /\ roms' = IF stage = "imported" THEN [roms EXCEPT ![g] = "there"] ELSE roms

FileLost(g) ==
    roms[g] = "there" /\ roms' = [roms EXCEPT ![g] = "missing"] /\ UNCHANGED <<underWay, wanted>>

GoesOn(g) ==
    /\ \/ Grab(g) \/ FileLost(g)
       \/ \E from \in Stages, stage \in Stages \cup {"no"} : Proceed(g, from, stage)
    /\ Witnessed /\ UNCHANGED <<token, playOK, troubles>>

Less(n) == IF n = 0 THEN 0 ELSE n - 1

TokenAges ==
    /\ token # NoToken
    /\ token' = [renew |-> Less(token.renew), good |-> Less(token.good)]
    /\ UNCHANGED <<underWay, wanted, roms, playOK, gamer, troubles>>

\* RomM restarts, and knows none of the tokens it gave.
RommForgets ==
    /\ troubles < MaxTroubles /\ troubles' = troubles + 1
    /\ token' = [token EXCEPT !.good = 0]
    /\ UNCHANGED <<underWay, wanted, roms, playOK, gamer>>

\* verifyPlay and Roles: whether the file that plays games is there, asked once.
VerifyPlay == playOK' \in BOOLEAN

GamesRestart ==
    /\ token' = NoToken /\ VerifyPlay
    /\ gamer' = [p \in Gamers |-> NoQuestion]
    /\ UNCHANGED <<underWay, wanted, roms, troubles>>

GamesNext ==
    \/ TokenAges \/ RommForgets \/ GamesRestart
    \/ \E g \in Games : GoesOn(g)
    \/ \E p \in Gamers :
        \/ \E id \in GameIds : \/ AskDetails(p, id) \/ RequestGame(p, id)
                               \/ \E of \in OneOrAll : AskStatus(p, id, of)
        \/ \E of \in OneOrAll : AskShelves(p, of)
        \/ \E who \in Providers : Falters(p, who) \/ NotMine(p, who)
        \/ ReadQueue(p) \/ ReadWanted(p) \/ ReadShelf(p) \/ SearchGames(p)
        \/ GameAnswered(p) \/ AskNoMore(p)

GamesSpec == GamesInit /\ [][GamesNext]_gameVars

-----------------------------------------------------------------------------
\* Every variable has its type, a provider is heard once in an answer, and a token that
\* is used has a minute left, unless RomM forgot it.
GamesTypeOK ==
    /\ underWay \in [Games -> SUBSET Stages] /\ wanted \subseteq Games
    /\ roms \in [Games -> {"no", "there", "missing"}]
    /\ playOK \in BOOLEAN /\ troubles \in 0..MaxTroubles
    /\ token.renew > 0 => token.good \in {0, token.renew + Margin}
    /\ \A p \in Gamers :
         /\ gamer[p].at \in {"idle", "asking", "told"} /\ gamer[p].best \in States
         /\ gamer[p].waits \cap gamer[p].failed = {}
         /\ gamer[p].waits \cup gamer[p].failed \subseteq gamer[p].of

InLedger(p) == {r.game[2] : r \in {x \in gamer[p].rows : x.game[1] = "romarr"}}

\* What a person is told of games while Romarr moves them between its two lists, which
\* are read one after the other: a game that is under way is not listed as wanted as
\* well; what stayed on either of the two all the while is listed (Library); and a game
\* is only called available if it was on a shelf at some moment of the question: one
\* that is being verified is not (LibraryState).
LedgerIsHonest ==
    \A p \in Gamers : gamer[p].at = "told" =>
        /\ \A r, s \in gamer[p].rows : r.game = s.game /\ r.state = "requested" => r = s
        /\ gamer[p].about = Shelves /\ "romarr" \in gamer[p].of \ gamer[p].failed =>
             {l[2] : l \in gamer[p].stayed} \subseteq InLedger(p)
        /\ \A r \in gamer[p].rows : r.state = "available" => r.game[2] \in gamer[p].seen
        /\ gamer[p].best = "available" =>
             gamer[p].about.game \in gamer[p].seen
=============================================================================
