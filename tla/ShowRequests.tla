---------------------------- MODULE ShowRequests ----------------------------
(***************************************************************************)
(* Requests for a television show, one of its seasons or an episode        *)
(* (provider_sonarr.go).  A request is a sequence of calls to Sonarr, any  *)
(* of which may fail, and requests of one show overlap.  Sonarr itself is  *)
(* external: it has one show to offer, lists the episodes of a new one     *)
(* some time after it was added, and downloads what it is told to look     *)
(* for.                                                                    *)
(***************************************************************************)
EXTENDS Naturals, FiniteSets

CONSTANTS
    Viewers,         \* who makes requests, one at a time each
    Seasons,         \* numbers; 0 is the specials
    EpisodeNumbers,  \* of each season, from 1
    MaxFailures,     \* bounds: calls that fail,
    MaxAsks          \* and requests a viewer starts

ASSUME ShowAssumption ==
    /\ IsFiniteSet(Seasons) /\ Seasons \subseteq Nat
    /\ IsFiniteSet(EpisodeNumbers) /\ EpisodeNumbers \subseteq Nat \ {0}
    /\ MaxFailures \in Nat /\ MaxAsks \in Nat

Episodes == Seasons \X EpisodeNumbers
OfSeason(n) == {n} \X EpisodeNumbers

\* A canonical id, and whether the part is to be obtained or only listed.
Parts == [type : {"series"}, season : {0}, episode : {0}]
         \cup [type : {"season"}, season : Seasons, episode : {0}]
         \cup [type : {"episode"}, season : Seasons, episode : EpisodeNumbers]
EpisodesOf(part) ==
    CASE part.type = "series"  -> Episodes
      [] part.type = "season"  -> OfSeason(part.season)
      [] part.type = "episode" -> {<<part.season, part.episode>>}

VARIABLES
    show,       \* external: the row of the show, and its episodes
    searching,  \* external: episodes of the searches that were started
    request,    \* per viewer: the request it makes
    asked,      \* history: episodes somebody asked to obtain
    failed,     \* history: calls that failed
    asks        \* history: per viewer, requests started

showVars == <<show, searching, request, asked, failed, asks>>

\* A row as requests carry it around: what is put is a whole row.
Row(there, on, seasons) == [there |-> there, monitored |-> on, seasons |-> seasons]
NoRow == Row(FALSE, FALSE, {})
NoPart == [type |-> "series", season |-> 0, episode |-> 0]
NoRequest == [at |-> "none", part |-> NoPart, monitor |-> FALSE, row |-> NoRow, said |-> "nothing"]

ShowInit ==
    /\ show = [row |-> NoRow, listed |-> {}, monitored |-> {}, files |-> {}]
    /\ searching = {}
    /\ request = [v \in Viewers |-> NoRequest]
    /\ asked = {}
    /\ failed = 0
    /\ asks = [v \in Viewers |-> 0]

-----------------------------------------------------------------------------
\* alreadyComplete; requestEpisode looks at its episode's own file.
AlreadyComplete(part) ==
    /\ show.row.there
    /\ part.type # "episode"
    /\ show.listed # {}
    /\ EpisodesOf(part) \subseteq show.files

-----------------------------------------------------------------------------
(* A request.                                                              *)

Continue(v, at) == request' = [request EXCEPT ![v] = [@ EXCEPT !.at = at]]
Answer(v, said) == request' = [request EXCEPT ![v] = [@ EXCEPT !.at = "none", !.said = said]]

\* handleRequest.  A viewer that was refused asks for the same again.
Ask(v, part, monitor) ==
    /\ request[v].at = "none"
    /\ asks[v] < MaxAsks \/ request[v].said \in {"refused", "failed"}
    /\ request[v].said \in {"refused", "failed"} =>
           part = request[v].part /\ monitor = request[v].monitor
    /\ request' = [request EXCEPT ![v] = [NoRequest EXCEPT
                       !.at = "find", !.part = part, !.monitor = monitor]]
    /\ asked' = IF monitor THEN asked \cup EpisodesOf(part) ELSE asked
    /\ asks' = IF request[v].said \in {"refused", "failed"} THEN asks
               ELSE [asks EXCEPT ![v] = @ + 1]
    /\ UNCHANGED <<show, searching, failed>>

\* What Request does with a row it has: the three depths.
Depth(part) == IF part.type = "episode" THEN "episodes"
               ELSE IF part.type = "season" THEN "season" ELSE "series"
Act(v, row) ==
    LET r == request[v] IN
    request' = [request EXCEPT ![v] =
        IF AlreadyComplete(r.part) \/ ~r.monitor
        THEN [r EXCEPT !.at = "none", !.said = "accepted"]
        ELSE [r EXCEPT !.at = Depth(r.part), !.row = row]]

\* librarySeries  (slip: a row that is not monitored is not seen)
FindMonitored(v) ==
    /\ request[v].at = "find"
    /\ IF show.row.there /\ show.row.monitored THEN Act(v, show.row) ELSE Continue(v, "add")
    /\ UNCHANGED <<show, searching, asked, failed, asks>>
Find(v) ==
    /\ request[v].at = "find"
    /\ IF show.row.there THEN Act(v, show.row) ELSE Continue(v, "add")
    /\ UNCHANGED <<show, searching, asked, failed, asks>>

\* addSeries: the whole show, or nothing of it yet.
WholeShow(r) == r.monitor /\ r.part.season = 0 /\ r.part.episode = 0

AddSeries(v) ==
    LET all == WholeShow(request[v])
        row == Row(TRUE, request[v].monitor, IF all THEN Seasons ELSE {})
    IN  /\ request[v].at = "add" /\ ~show.row.there
        /\ show' = [show EXCEPT !.row = row]
        /\ IF all THEN Answer(v, "accepted") /\ searching' = Episodes
           ELSE Act(v, row) /\ UNCHANGED searching
        /\ UNCHANGED <<asked, failed, asks>>

\* Another request added it meanwhile: a 400, passed on as the answer.
AddedAlready(v) ==
    /\ request[v].at = "add" /\ show.row.there
    /\ Answer(v, "refused")
    /\ UNCHANGED <<show, searching, asked, failed, asks>>

\* External: a row that is put switches the episodes of the seasons it changes.
PutRow(row) ==
    show' = [show EXCEPT !.row = row,
        !.monitored = {e \in show.listed :
            IF (e[1] \in row.seasons) = (e[1] \in show.row.seasons)
            THEN e \in show.monitored ELSE e[1] \in row.seasons}]

\* requestSeries and requestSeason, down to their search.
\* (slip: a season is switched on together with the rest of the show)
AllSwitchedOn(r) == Row(TRUE, TRUE, Seasons)
SwitchedOn(r) ==
    IF r.part.type = "season" THEN Row(TRUE, TRUE, r.row.seasons \cup {r.part.season})
    ELSE IF r.row.monitored THEN r.row ELSE Row(TRUE, TRUE, Seasons)

MonitorRow(v) ==
    /\ request[v].at \in {"series", "season"}
    /\ IF SwitchedOn(request[v]) = request[v].row THEN UNCHANGED show
       ELSE PutRow(SwitchedOn(request[v]))
    /\ Continue(v, "search")
    /\ UNCHANGED <<searching, asked, failed, asks>>

\* requestEpisode: no such row (yet), a file, or a search of its own.
MonitorEpisode(v) ==
    LET e == EpisodesOf(request[v].part) IN
    /\ request[v].at = "episodes"
    /\ IF ~(e \subseteq show.listed) THEN Answer(v, "refused") /\ UNCHANGED show
       ELSE IF e \subseteq show.files THEN Answer(v, "accepted") /\ UNCHANGED show
       ELSE /\ show' = [show EXCEPT !.monitored = @ \cup e]
            /\ Continue(v, "search")
    /\ UNCHANGED <<searching, asked, failed, asks>>

\* The search command.  Sonarr looks for what is monitored of a show or a
\* season, and for the episode it is given.
Search(v) ==
    LET part == request[v].part IN
    /\ request[v].at = "search"
    /\ searching' = searching \cup (IF part.type = "episode" THEN EpisodesOf(part)
                                    ELSE EpisodesOf(part) \cap show.monitored)
    /\ Answer(v, "accepted")
    /\ UNCHANGED <<show, asked, failed, asks>>

RequestStep(v) ==
    Find(v) \/ AddSeries(v) \/ AddedAlready(v) \/ MonitorRow(v) \/ MonitorEpisode(v) \/ Search(v)

\* A call does not get through, or its answer does not get back.
CallFails(v) ==
    /\ request[v].at # "none" /\ failed < MaxFailures
    /\ failed' = failed + 1
    /\ Answer(v, "failed")
    /\ UNCHANGED <<show, searching, asked, asks>>
AnswerLost(v) ==
    /\ failed < MaxFailures
    /\ failed' = failed + 1
    /\ Answer(v, "failed")
    /\ \/ /\ request[v].at = "add" /\ ~show.row.there
          /\ show' = [show EXCEPT !.row = Row(TRUE, request[v].monitor,
                          IF WholeShow(request[v]) THEN Seasons ELSE {})]
          /\ searching' = IF WholeShow(request[v]) THEN Episodes ELSE searching
       \/ /\ request[v].at \in {"series", "season"}
          /\ PutRow(SwitchedOn(request[v]))
          /\ UNCHANGED searching
    /\ UNCHANGED <<asked, asks>>

-----------------------------------------------------------------------------
(* Sonarr.                                                                 *)

EpisodesListed ==
    /\ show.row.there /\ show.listed = {}
    /\ show' = [show EXCEPT !.listed = Episodes,
                            !.monitored = {e \in Episodes : e[1] \in show.row.seasons}]
    /\ UNCHANGED <<searching, request, asked, failed, asks>>

Downloaded(e) ==
    /\ e \in searching \cap show.listed
    /\ show' = [show EXCEPT !.files = @ \cup {e}]
    /\ searching' = searching \ {e}
    /\ UNCHANGED <<request, asked, failed, asks>>

ShowNext ==
    \/ \E v \in Viewers :
          \/ \E part \in Parts, monitor \in BOOLEAN : Ask(v, part, monitor)
          \/ RequestStep(v) \/ CallFails(v) \/ AnswerLost(v)
    \/ EpisodesListed
    \/ \E e \in Episodes : Downloaded(e)

ShowSpec == ShowInit /\ [][ShowNext]_showVars

\* Calls end within their timeouts, a viewer that was turned down asks again,
\* and Sonarr gets round to listing the episodes.
AskAgain(v) == request[v].said \in {"refused", "failed"}
               /\ Ask(v, request[v].part, request[v].monitor)
ShowFairness == /\ \A v \in Viewers : WF_showVars(RequestStep(v)) /\ WF_showVars(AskAgain(v))
                /\ WF_showVars(EpisodesListed)

-----------------------------------------------------------------------------
Places == {"none", "find", "add", "series", "season", "episodes", "search"}
Rows == [there : BOOLEAN, monitored : BOOLEAN, seasons : SUBSET Seasons]

ShowTypeOK ==
    /\ show \in [row : Rows, listed : SUBSET Episodes, monitored : SUBSET Episodes,
                 files : SUBSET Episodes]
    /\ {searching, asked} \subseteq SUBSET Episodes
    /\ request \in [Viewers -> [at : Places, part : Parts, monitor : BOOLEAN, row : Rows,
                                said : {"nothing", "accepted", "refused", "failed"}]]
    /\ failed \in 0..MaxFailures /\ asks \in [Viewers -> 0..MaxAsks]

\* "monitor exactly what was asked for, then search for exactly that", which
\* "keeps a request for one episode from becoming a nine-season grab": whatever
\* requests overlap, fail half-way and are made again, Sonarr looks for nothing
\* that nobody asked to obtain.
NothingElseIsGrabbed == searching \cup show.monitored \cup show.files \subseteq asked

\* An episode that a viewer asks to obtain, and asks for again when turned down,
\* is accepted in the end, and is then looked for or there: what requests that
\* failed half-way left behind, a row nobody monitors or one whose episodes are
\* not listed, does not stop it.  Of seasons and shows the code does not keep
\* as much: they look for what is monitored when their search starts.
WantsAnEpisode(v) ==
    request[v].at # "none" /\ request[v].monitor /\ request[v].part.type = "episode"
IsSought(v) ==
    request[v].said = "accepted" /\ EpisodesOf(request[v].part) \subseteq searching \cup show.files
EpisodesAreSought == \A v \in Viewers : WantsAnEpisode(v) ~> IsSought(v)
=============================================================================
