----------------------------- MODULE DesksProofs ----------------------------
(***************************************************************************)
(* The owner's desks, for any shows, seasons, albums, artists, releases    *)
(* and films: a request is only ever what was asked for, nothing else is   *)
(* grabbed, the artists' other albums are left alone, and a film is        *)
(* followed from the request to the shelf; and no addon is dropped by a    *)
(* browser that does not know of it.                                       *)
(***************************************************************************)
EXTENDS MCDesks, LineProofs

-----------------------------------------------------------------------------
(* Requests for episodes.                                                    *)
Requests == [at : Places, part : Parts, monitor : BOOLEAN, row : Rows,
             said : {"nothing", "accepted", "refused", "failed"}]
ShowRecords == [row : Rows, listed : SUBSET Episodes, monitored : SUBSET Episodes,
                files : SUBSET Episodes]

\* The seasons that are switched on in a row are among these episodes.
OnlyAskedFor(row, these) == \A n \in row.seasons : OfSeason(n) \subseteq these

\* What a request knows: who gets as far as switching something on asked to obtain
\* its part, and the row it carries, read some steps ago, has nothing else on.
InOrder(r, these) ==
    /\ OnlyAskedFor(r.row, these)
    /\ r.at # "none" /\ r.monitor => EpisodesOf(r.part) \subseteq these
    /\ r.at \in {"series", "season", "episodes", "search"} => r.monitor
    /\ r.at = "series" => r.part.type = "series"
    /\ r.at = "season" => r.part.type = "season"

RequestsInOrder == \A v \in Viewers : InOrder(request[v], asked)

\* The invariant: types, without the counters that bound the model, and where the
\* show and everybody who handles it stand.
Honest ==
    /\ show \in ShowRecords
    /\ {searching, asked} \subseteq SUBSET Episodes
    /\ request \in [Viewers -> Requests]
    /\ NothingElseIsGrabbed
    /\ OnlyAskedFor(show.row, asked)
    /\ RequestsInOrder

-----------------------------------------------------------------------------
(* Parts and rows.                                                         *)

LEMMA PartFacts ==
    ASSUME NEW part \in Parts
    PROVE  /\ EpisodesOf(part) \subseteq Episodes
           /\ part.type \in {"series", "season", "episode"}
           /\ part.type = "series" => EpisodesOf(part) = Episodes
           /\ part.type = "season" =>
                  part.season \in Seasons /\ EpisodesOf(part) = OfSeason(part.season)
           /\ part.type = "episode" => part.episode \in EpisodeNumbers
<1>1. CASE part \in [type : {"series"}, season : {0}, episode : {0}]
  BY <1>1 DEF EpisodesOf
<1>2. CASE part \in [type : {"season"}, season : Seasons, episode : {0}]
  BY <1>2 DEF EpisodesOf, OfSeason, Episodes
<1>3. CASE part \in [type : {"episode"}, season : Seasons, episode : EpisodeNumbers]
  BY <1>3 DEF EpisodesOf, Episodes
<1> QED BY <1>1, <1>2, <1>3 DEF Parts

LEMMA SeasonsCoverEpisodes ==
    ASSUME NEW e \in Episodes
    PROVE  e[1] \in Seasons /\ e \in OfSeason(e[1])
BY DEF Episodes, OfSeason

\* A whole show is only asked for by its own name.
LEMMA WholeShowIsASeries ==
    ASSUME 0 \notin Seasons, NEW r \in Requests, WholeShow(r)
    PROVE  r.monitor /\ EpisodesOf(r.part) = Episodes
<1>1. r.part \in Parts /\ r.monitor /\ r.part.season = 0 /\ r.part.episode = 0
  BY DEF Requests, WholeShow
<1>2. 0 \notin EpisodeNumbers
  BY ShowAssumption
<1>3. r.part.type = "series"
  BY <1>1, <1>2, PartFacts
<1> QED BY <1>1, <1>3, PartFacts

LEMMA RowIsARow ==
    ASSUME NEW there \in BOOLEAN, NEW on \in BOOLEAN, NEW S \in SUBSET Seasons
    PROVE  Row(there, on, S) \in Rows /\ Row(there, on, S).seasons = S
BY DEF Row, Rows

\* The row a request puts has nothing on that nobody asked for.
LEMMA SwitchedOnIsAsked ==
    ASSUME NEW r \in Requests, InOrder(r, asked), r.at \in {"series", "season"}
    PROVE  SwitchedOn(r) \in Rows /\ OnlyAskedFor(SwitchedOn(r), asked)
<1>1. /\ r.part \in Parts /\ r.row \in Rows /\ r.row.seasons \in SUBSET Seasons
      /\ OnlyAskedFor(r.row, asked) /\ EpisodesOf(r.part) \subseteq asked
  BY DEF Requests, InOrder, Rows
<1>2. CASE r.at = "season"
  <2>1. r.part.type = "season" /\ r.part.season \in Seasons
        /\ OfSeason(r.part.season) \subseteq asked
    BY <1>1, <1>2, PartFacts DEF InOrder
  <2>2. SwitchedOn(r) = Row(TRUE, TRUE, r.row.seasons \cup {r.part.season})
    BY <2>1 DEF SwitchedOn
  <2>3. r.row.seasons \cup {r.part.season} \in SUBSET Seasons
    BY <1>1, <2>1
  <2>4. SwitchedOn(r) \in Rows
        /\ SwitchedOn(r).seasons = r.row.seasons \cup {r.part.season}
    BY <2>2, <2>3, RowIsARow
  <2> QED BY <1>1, <2>1, <2>4 DEF OnlyAskedFor
<1>3. CASE r.at = "series"
  <2>1. r.part.type = "series" /\ Episodes \subseteq asked
    BY <1>1, <1>3, PartFacts DEF InOrder
  <2>2. SwitchedOn(r) = IF r.row.monitored THEN r.row ELSE Row(TRUE, TRUE, Seasons)
    BY <2>1 DEF SwitchedOn
  <2>3. Row(TRUE, TRUE, Seasons) \in Rows /\ Row(TRUE, TRUE, Seasons).seasons = Seasons
    BY RowIsARow
  <2>4. \A n \in Seasons : OfSeason(n) \subseteq Episodes
    BY DEF OfSeason, Episodes
  <2> QED BY <1>1, <2>1, <2>2, <2>3, <2>4 DEF OnlyAskedFor
<1> QED BY <1>2, <1>3

-----------------------------------------------------------------------------
(* What is left of the invariant when one request moves on.                *)

LEMMA InOrderStays ==
    ASSUME asked \subseteq asked', NEW r, InOrder(r, asked)
    PROVE  InOrder(r, asked')
BY DEF InOrder, OnlyAskedFor

\* A request becomes another one that is in order.
LEMMA RequestMoves ==
    ASSUME request \in [Viewers -> Requests], RequestsInOrder, asked \subseteq asked',
           NEW v \in Viewers, NEW r \in Requests, InOrder(r, asked'),
           request' = [request EXCEPT ![v] = r]
    PROVE  request' \in [Viewers -> Requests] /\ RequestsInOrder'
<1>1. request' \in [Viewers -> Requests]
  OBVIOUS
<1>2. ASSUME NEW u \in Viewers PROVE InOrder(request'[u], asked')
  <2>1. CASE u = v
    BY <2>1
  <2>2. CASE u # v
    BY <2>2, InOrderStays DEF RequestsInOrder
  <2> QED BY <2>1, <2>2
<1> QED BY <1>1, <1>2 DEF RequestsInOrder

LEMMA AnswerMoves ==
    ASSUME request \in [Viewers -> Requests], RequestsInOrder, UNCHANGED asked,
           NEW v \in Viewers, NEW said \in {"accepted", "refused", "failed"}, Answer(v, said)
    PROVE  request' \in [Viewers -> Requests] /\ RequestsInOrder'
<1> DEFINE r == [request[v] EXCEPT !.at = "none", !.said = said]
<1>1. request[v] \in Requests /\ InOrder(request[v], asked)
  BY DEF RequestsInOrder
<1>2. r \in Requests /\ r.row = request[v].row /\ r.at = "none"
  BY <1>1 DEF Requests, Places
<1>3. InOrder(r, asked')
  BY <1>1, <1>2 DEF InOrder, OnlyAskedFor
<1>4. request' = [request EXCEPT ![v] = r]
  BY DEF Answer
<1> HIDE DEF r
<1> QED BY <1>2, <1>3, <1>4, RequestMoves

LEMMA ContinueMoves ==
    ASSUME request \in [Viewers -> Requests], RequestsInOrder, UNCHANGED asked,
           NEW v \in Viewers, NEW at \in {"add", "search"}, Continue(v, at),
           request[v].at # "none", at = "search" => request[v].monitor
    PROVE  request' \in [Viewers -> Requests] /\ RequestsInOrder'
<1> DEFINE r == [request[v] EXCEPT !.at = at]
<1>1. request[v] \in Requests /\ InOrder(request[v], asked)
  BY DEF RequestsInOrder
<1>2. /\ r \in Requests /\ r.row = request[v].row /\ r.at = at
      /\ r.monitor = request[v].monitor /\ r.part = request[v].part
  BY <1>1 DEF Requests, Places
<1>3. InOrder(r, asked')
  <2>1. EpisodesOf(r.part) \subseteq asked \/ ~r.monitor
    BY <1>1, <1>2 DEF InOrder
  <2> QED BY <1>1, <1>2, <2>1 DEF InOrder, OnlyAskedFor
<1>4. request' = [request EXCEPT ![v] = r]
  BY DEF Continue
<1> HIDE DEF r
<1> QED BY <1>2, <1>3, <1>4, RequestMoves

LEMMA ActMoves ==
    ASSUME request \in [Viewers -> Requests], RequestsInOrder, UNCHANGED asked,
           NEW v \in Viewers, NEW row \in Rows, OnlyAskedFor(row, asked), Act(v, row),
           request[v].at # "none"
    PROVE  request' \in [Viewers -> Requests] /\ RequestsInOrder'
<1>1. request[v] \in Requests /\ InOrder(request[v], asked) /\ request[v].part \in Parts
  BY DEF RequestsInOrder, Requests
<1>2. CASE AlreadyComplete(request[v].part) \/ ~request[v].monitor
  <2>1. Answer(v, "accepted")
    BY <1>2 DEF Act, Answer
  <2> QED BY <2>1, AnswerMoves
<1>3. CASE ~AlreadyComplete(request[v].part) /\ request[v].monitor
  <2> DEFINE r == [request[v] EXCEPT !.at = Depth(request[v].part), !.row = row]
  <2>1. /\ Depth(request[v].part) \in {"series", "season", "episodes"}
        /\ Depth(request[v].part) = "series" => request[v].part.type = "series"
        /\ Depth(request[v].part) = "season" => request[v].part.type = "season"
    BY <1>1, PartFacts DEF Depth
  <2>2. /\ r \in Requests /\ r.row = row /\ r.at = Depth(request[v].part)
        /\ r.monitor /\ r.part = request[v].part
    BY <1>1, <1>3, <2>1 DEF Requests, Places
  <2>3. InOrder(r, asked')
    <3>1. EpisodesOf(r.part) \subseteq asked
      BY <1>1, <1>3, <2>2 DEF InOrder
    <3> QED BY <2>1, <2>2, <3>1 DEF InOrder, OnlyAskedFor
  <2>4. request' = [request EXCEPT ![v] = r]
    BY <1>3 DEF Act
  <2> HIDE DEF r
  <2> QED BY <2>2, <2>3, <2>4, RequestMoves
<1> QED BY <1>2, <1>3

\* Putting a row that has nothing else on switches nothing else on.
LEMMA PutRowIsSafe ==
    ASSUME show \in ShowRecords, NothingElseIsGrabbed, UNCHANGED <<asked, searching>>,
           NEW row \in Rows, OnlyAskedFor(row, asked), PutRow(row)
    PROVE  show' \in ShowRecords /\ NothingElseIsGrabbed' /\ OnlyAskedFor(show'.row, asked')
<1> DEFINE on == {e \in show.listed :
            IF (e[1] \in row.seasons) = (e[1] \in show.row.seasons)
            THEN e \in show.monitored ELSE e[1] \in row.seasons}
<1>1. show.listed \subseteq Episodes /\ show.monitored \subseteq asked
      /\ show.files \subseteq asked /\ searching \subseteq asked
  BY DEF ShowRecords, NothingElseIsGrabbed
<1>2. on \subseteq Episodes
  BY <1>1
<1>3. on \subseteq asked
  <2> SUFFICES ASSUME NEW e \in on PROVE e \in asked
    OBVIOUS
  <2>1. e \in show.monitored \/ e[1] \in row.seasons
    OBVIOUS
  <2>2. e \in Episodes
    BY <1>2
  <2>3. e \in OfSeason(e[1])
    BY <2>2, SeasonsCoverEpisodes
  <2> QED BY <1>1, <2>1, <2>3 DEF OnlyAskedFor
<1>4. show' = [show EXCEPT !.row = row, !.monitored = on]
  BY DEF PutRow
<1> HIDE DEF on
<1>5. /\ show' \in ShowRecords /\ show'.row = row /\ show'.monitored = on
      /\ show'.files = show.files
  BY <1>2, <1>4 DEF ShowRecords
<1>6. NothingElseIsGrabbed'
  BY <1>1, <1>3, <1>5 DEF NothingElseIsGrabbed
<1>7. OnlyAskedFor(show'.row, asked')
  BY <1>5 DEF OnlyAskedFor
<1> QED BY <1>5, <1>6, <1>7

-----------------------------------------------------------------------------
(* The steps.                                                              *)

LEMMA AskKeeps ==
    ASSUME Honest, NEW v \in Viewers, NEW part \in Parts, NEW monitor \in BOOLEAN,
           Ask(v, part, monitor)
    PROVE  Honest'
<1>1. PICK r : r = [NoRequest EXCEPT !.at = "find", !.part = part, !.monitor = monitor]
  OBVIOUS
<1>2. /\ r \in Requests /\ r.at = "find" /\ r.part = part /\ r.monitor = monitor
      /\ r.row.seasons = {}
  BY <1>1 DEF Requests, NoRequest, NoRow, Row, Rows, Places, NoPart
<1>3. /\ asked' = IF monitor THEN asked \cup EpisodesOf(part) ELSE asked
      /\ request' = [request EXCEPT ![v] = r] /\ UNCHANGED <<show, searching>>
  BY <1>1 DEF Ask
<1>4. asked \subseteq asked' /\ asked' \subseteq Episodes
  BY <1>3, PartFacts DEF Honest
<1>5. InOrder(r, asked')
  BY <1>2, <1>3 DEF InOrder, OnlyAskedFor
<1>6. request' \in [Viewers -> Requests] /\ RequestsInOrder'
  BY <1>2, <1>3, <1>4, <1>5, RequestMoves DEF Honest
<1> QED BY <1>3, <1>4, <1>6 DEF Honest, NothingElseIsGrabbed, OnlyAskedFor

LEMMA FindKeeps ==
    ASSUME Honest, NEW v \in Viewers, Find(v)
    PROVE  Honest'
<1>1. /\ request[v].at = "find" /\ UNCHANGED <<show, searching, asked>>
      /\ show.row \in Rows /\ OnlyAskedFor(show.row, asked)
  BY DEF Find, Honest, ShowRecords
<1>2. request' \in [Viewers -> Requests] /\ RequestsInOrder'
  <2>1. CASE show.row.there
    <3>1. Act(v, show.row)
      BY <2>1 DEF Find
    <3>2. PICK row \in Rows : row = show.row
      BY <1>1
    <3> QED BY <1>1, <3>1, <3>2, ActMoves DEF Honest
  <2>2. CASE ~show.row.there
    <3>1. Continue(v, "add")
      BY <2>2 DEF Find
    <3> QED BY <1>1, <3>1, ContinueMoves DEF Honest
  <2> QED BY <2>1, <2>2
<1> QED BY <1>1, <1>2 DEF Honest, NothingElseIsGrabbed, OnlyAskedFor

\* The row that is added, and the search that adding starts.
LEMMA AddedIsAsked ==
    ASSUME 0 \notin Seasons, Honest, NEW v \in Viewers, request[v].at = "add",
           NEW row, row = Row(TRUE, request[v].monitor,
                              IF WholeShow(request[v]) THEN Seasons ELSE {}),
           show' = [show EXCEPT !.row = row],
           searching' = IF WholeShow(request[v]) THEN Episodes ELSE searching,
           UNCHANGED asked
    PROVE  /\ row \in Rows /\ OnlyAskedFor(row, asked)
           /\ show' \in ShowRecords /\ searching' \subseteq Episodes
           /\ NothingElseIsGrabbed' /\ OnlyAskedFor(show'.row, asked')
<1>1. request[v] \in Requests /\ InOrder(request[v], asked) /\ request[v].monitor \in BOOLEAN
  BY DEF Honest, RequestsInOrder, Requests
<1>2. WholeShow(request[v]) => Episodes \subseteq asked
  BY <1>1, WholeShowIsASeries DEF InOrder
<1>3. row \in Rows /\ row.seasons = IF WholeShow(request[v]) THEN Seasons ELSE {}
  BY <1>1, RowIsARow
<1>4. OnlyAskedFor(row, asked)
  <2>1. \A n \in Seasons : OfSeason(n) \subseteq Episodes
    BY DEF OfSeason, Episodes
  <2> QED BY <1>2, <1>3, <2>1 DEF OnlyAskedFor
<1>5. /\ show' \in ShowRecords /\ show'.row = row /\ show'.monitored = show.monitored
      /\ show'.files = show.files
  BY <1>3 DEF Honest, ShowRecords
<1>6. searching' \subseteq Episodes /\ searching' \subseteq searching \cup asked
  BY <1>2 DEF Honest
<1> QED BY <1>3, <1>4, <1>5, <1>6 DEF Honest, NothingElseIsGrabbed

LEMMA AddSeriesKeeps ==
    ASSUME 0 \notin Seasons, Honest, NEW v \in Viewers, AddSeries(v)
    PROVE  Honest'
<1>1. PICK row : row = Row(TRUE, request[v].monitor,
                           IF WholeShow(request[v]) THEN Seasons ELSE {})
  OBVIOUS
<1>2. /\ request[v].at = "add" /\ UNCHANGED asked /\ show' = [show EXCEPT !.row = row]
      /\ searching' = IF WholeShow(request[v]) THEN Episodes ELSE searching
      /\ WholeShow(request[v]) => Answer(v, "accepted")
      /\ ~WholeShow(request[v]) => Act(v, row)
  BY <1>1 DEF AddSeries
<1>3. /\ row \in Rows /\ OnlyAskedFor(row, asked)
      /\ show' \in ShowRecords /\ searching' \subseteq Episodes
      /\ NothingElseIsGrabbed' /\ OnlyAskedFor(show'.row, asked')
  BY <1>1, <1>2, AddedIsAsked
<1>4. request' \in [Viewers -> Requests] /\ RequestsInOrder'
  BY <1>2, <1>3, AnswerMoves, ActMoves DEF Honest
<1> QED BY <1>2, <1>3, <1>4 DEF Honest

LEMMA MonitorRowKeeps ==
    ASSUME Honest, NEW v \in Viewers, MonitorRow(v)
    PROVE  Honest'
<1>1. /\ request[v] \in Requests /\ InOrder(request[v], asked)
      /\ request[v].at \in {"series", "season"} /\ UNCHANGED <<asked, searching>>
      /\ Continue(v, "search")
  BY DEF MonitorRow, Honest, RequestsInOrder
<1>2. PICK row \in Rows : row = SwitchedOn(request[v]) /\ OnlyAskedFor(row, asked)
  BY <1>1, SwitchedOnIsAsked
<1>3. UNCHANGED show \/ PutRow(row)
  BY <1>2 DEF MonitorRow
<1>4. show' \in ShowRecords /\ NothingElseIsGrabbed' /\ OnlyAskedFor(show'.row, asked')
  BY <1>1, <1>2, <1>3, PutRowIsSafe DEF Honest, NothingElseIsGrabbed
<1>5. request' \in [Viewers -> Requests] /\ RequestsInOrder'
  BY <1>1, ContinueMoves DEF Honest, InOrder
<1> QED BY <1>1, <1>4, <1>5 DEF Honest

LEMMA MonitorEpisodeKeeps ==
    ASSUME Honest, NEW v \in Viewers, MonitorEpisode(v)
    PROVE  Honest'
<1>1. /\ request[v] \in Requests /\ InOrder(request[v], asked)
      /\ request[v].at = "episodes" /\ UNCHANGED <<asked, searching>>
      /\ request[v].part \in Parts
  BY DEF MonitorEpisode, Honest, RequestsInOrder, Requests
<1>2. PICK e : e = EpisodesOf(request[v].part)
  OBVIOUS
<1>3. e \subseteq asked /\ e \subseteq Episodes
  BY <1>1, <1>2, PartFacts DEF InOrder
<1>4. \/ (Answer(v, "refused") \/ Answer(v, "accepted")) /\ UNCHANGED show
      \/ show' = [show EXCEPT !.monitored = @ \cup e] /\ Continue(v, "search")
  BY <1>2 DEF MonitorEpisode
<1>5. /\ show' \in ShowRecords /\ show'.row = show.row /\ show'.files = show.files
      /\ show'.monitored \subseteq show.monitored \cup e
  BY <1>3, <1>4 DEF Honest, ShowRecords
<1>6. request' \in [Viewers -> Requests] /\ RequestsInOrder'
  BY <1>1, <1>4, AnswerMoves, ContinueMoves DEF Honest, InOrder
<1> QED BY <1>1, <1>3, <1>5, <1>6 DEF Honest, NothingElseIsGrabbed

LEMMA SearchKeeps ==
    ASSUME Honest, NEW v \in Viewers, Search(v)
    PROVE  Honest'
<1>1. /\ request[v] \in Requests /\ InOrder(request[v], asked) /\ request[v].part \in Parts
      /\ request[v].at = "search" /\ UNCHANGED <<show, asked>> /\ Answer(v, "accepted")
  BY DEF Search, Honest, RequestsInOrder, Requests
<1>2. EpisodesOf(request[v].part) \subseteq asked /\ asked \subseteq Episodes
  BY <1>1 DEF InOrder, Honest
<1>3. searching' \subseteq searching \cup EpisodesOf(request[v].part)
  BY DEF Search
<1>4. request' \in [Viewers -> Requests] /\ RequestsInOrder'
  BY <1>1, AnswerMoves DEF Honest
<1> QED BY <1>1, <1>2, <1>3, <1>4 DEF Honest, NothingElseIsGrabbed

LEMMA FailuresKeep ==
    ASSUME 0 \notin Seasons, Honest, NEW v \in Viewers,
           CallFails(v) \/ AddedAlready(v) \/ AnswerLost(v)
    PROVE  Honest'
<1>1. UNCHANGED asked /\ (Answer(v, "failed") \/ Answer(v, "refused"))
  BY DEF CallFails, AddedAlready, AnswerLost
<1>2. request' \in [Viewers -> Requests] /\ RequestsInOrder'
  BY <1>1, AnswerMoves DEF Honest
<1>3. CASE CallFails(v) \/ AddedAlready(v)
  BY <1>2, <1>3 DEF CallFails, AddedAlready, Honest, NothingElseIsGrabbed, OnlyAskedFor
<1>4. CASE AnswerLost(v) /\ request[v].at = "add"
  <2>1. PICK row : row = Row(TRUE, request[v].monitor,
                             IF WholeShow(request[v]) THEN Seasons ELSE {})
    OBVIOUS
  <2>2. /\ show' = [show EXCEPT !.row = row]
        /\ searching' = IF WholeShow(request[v]) THEN Episodes ELSE searching
    BY <1>4, <2>1 DEF AnswerLost
  <2>3. /\ show' \in ShowRecords /\ searching' \subseteq Episodes
        /\ NothingElseIsGrabbed' /\ OnlyAskedFor(show'.row, asked')
    BY <1>1, <1>4, <2>1, <2>2, AddedIsAsked
  <2> QED BY <1>1, <1>2, <2>3 DEF Honest
<1>5. CASE AnswerLost(v) /\ request[v].at # "add"
  <2>1. /\ request[v] \in Requests /\ InOrder(request[v], asked)
        /\ request[v].at \in {"series", "season"} /\ UNCHANGED searching
        /\ PutRow(SwitchedOn(request[v]))
    BY <1>5 DEF AnswerLost, Honest, RequestsInOrder
  <2>2. PICK row \in Rows : row = SwitchedOn(request[v]) /\ OnlyAskedFor(row, asked)
    BY <2>1, SwitchedOnIsAsked
  <2>3. PutRow(row)
    BY <2>1, <2>2
  <2>4. show' \in ShowRecords /\ NothingElseIsGrabbed' /\ OnlyAskedFor(show'.row, asked')
    BY <1>1, <2>1, <2>2, <2>3, PutRowIsSafe DEF Honest
  <2> QED BY <1>1, <1>2, <2>1, <2>4 DEF Honest
<1> QED BY <1>3, <1>4, <1>5

LEMMA SonarrKeeps ==
    ASSUME Honest, EpisodesListed \/ \E e \in Episodes : Downloaded(e)
    PROVE  Honest'
<1>1. UNCHANGED <<request, asked>>
  BY DEF EpisodesListed, Downloaded
<1>2. RequestsInOrder' /\ request' \in [Viewers -> Requests]
  BY <1>1 DEF Honest, RequestsInOrder
<1>3. CASE EpisodesListed
  <2>1. PICK on : on = {e \in Episodes : e[1] \in show.row.seasons}
    OBVIOUS
  <2>2. on \subseteq asked
    <3> SUFFICES ASSUME NEW e \in on PROVE e \in asked
      OBVIOUS
    <3>1. e \in Episodes /\ e[1] \in show.row.seasons
      BY <2>1
    <3> QED BY <3>1, SeasonsCoverEpisodes DEF Honest, OnlyAskedFor
  <2>3. show' = [show EXCEPT !.listed = Episodes, !.monitored = on] /\ UNCHANGED searching
    BY <1>3, <2>1 DEF EpisodesListed
  <2>4. /\ show' \in ShowRecords /\ show'.row = show.row /\ show'.files = show.files
        /\ show'.monitored = on
    BY <2>1, <2>3 DEF Honest, ShowRecords
  <2> QED BY <1>1, <1>2, <2>2, <2>3, <2>4 DEF Honest, NothingElseIsGrabbed
<1>4. ASSUME NEW e \in Episodes, Downloaded(e) PROVE Honest'
  <2>1. /\ e \in searching /\ show' = [show EXCEPT !.files = @ \cup {e}]
        /\ searching' = searching \ {e}
    BY <1>4 DEF Downloaded
  <2>2. /\ show' \in ShowRecords /\ show'.row = show.row
        /\ show'.files = show.files \cup {e} /\ show'.monitored = show.monitored
    BY <2>1 DEF Honest, ShowRecords
  <2> QED BY <1>1, <1>2, <2>1, <2>2 DEF Honest, NothingElseIsGrabbed
<1> QED BY <1>3, <1>4

-----------------------------------------------------------------------------
LEMMA HonestInitially == ShowInit => Honest
<1> SUFFICES ASSUME ShowInit PROVE Honest
  OBVIOUS
<1>1. /\ NoRow \in Rows /\ NoRow.seasons = {} /\ NoRequest \in Requests
      /\ NoRequest.row = NoRow /\ NoRequest.at = "none"
  BY DEF NoRow, Row, Rows, NoRequest, NoPart, Requests, Places, Parts
<1>2. InOrder(NoRequest, asked)
  BY <1>1 DEF InOrder, OnlyAskedFor
<1> QED BY <1>1, <1>2
        DEF ShowInit, Honest, ShowRecords, RequestsInOrder, NothingElseIsGrabbed, OnlyAskedFor

LEMMA HonestStays ==
    ASSUME 0 \notin Seasons
    PROVE  Honest /\ [ShowNext]_showVars => Honest'
<1> SUFFICES ASSUME Honest, [ShowNext]_showVars PROVE Honest'
  OBVIOUS
<1>1. ASSUME NEW v \in Viewers, RequestStep(v) PROVE Honest'
  <2>1. CASE AddedAlready(v)
    BY <2>1, FailuresKeep
  <2>2. CASE ~AddedAlready(v)
    BY <1>1, <2>2, FindKeeps, AddSeriesKeeps, MonitorRowKeeps, MonitorEpisodeKeeps,
       SearchKeeps DEF RequestStep
  <2> QED BY <2>1, <2>2
<1>2. ASSUME NEW v \in Viewers, NEW part \in Parts, NEW monitor \in BOOLEAN,
             Ask(v, part, monitor)
      PROVE  Honest'
  BY <1>2, AskKeeps
<1>3. ASSUME NEW v \in Viewers, CallFails(v) \/ AnswerLost(v) PROVE Honest'
  BY <1>3, FailuresKeep
<1>4. CASE EpisodesListed \/ \E e \in Episodes : Downloaded(e)
  BY <1>4, SonarrKeeps
<1>5. CASE UNCHANGED showVars
  <2>1. UNCHANGED <<show, searching, request, asked>>
    BY <1>5 DEF showVars
  <2> QED BY <2>1 DEF Honest, NothingElseIsGrabbed, OnlyAskedFor, RequestsInOrder
<1> QED BY <1>1, <1>2, <1>3, <1>4, <1>5 DEF ShowNext

-----------------------------------------------------------------------------
\* What requests know of a row they read, in every reachable state, where no
\* season has number 0 (addSeries takes that number for no season at all).
THEOREM RequestsAreHonest == 0 \notin Seasons => (ShowSpec => []Honest)
<1> SUFFICES ASSUME 0 \notin Seasons PROVE ShowSpec => []Honest
  OBVIOUS
<1> QED BY HonestInitially, HonestStays, PTL DEF ShowSpec

\* "Monitor exactly what was asked for": whatever requests overlap and wherever
\* they fail, for any number of viewers, seasons and episodes, Sonarr looks for,
\* monitors and downloads nothing that nobody asked to obtain (Request).
THEOREM NothingElseIsEverGrabbed == 0 \notin Seasons => (ShowSpec => []NothingElseIsGrabbed)
<1> SUFFICES ASSUME 0 \notin Seasons PROVE ShowSpec => []NothingElseIsGrabbed
  OBVIOUS
<1>1. Honest => NothingElseIsGrabbed
  BY DEF Honest
<1>2. ShowSpec => []Honest
  BY RequestsAreHonest
<1> QED BY <1>1, <1>2, PTL

-----------------------------------------------------------------------------
(* Requests for albums.                                                      *)
Errands == [at : Stops, thing : Things, monitor : BOOLEAN,
            said : {"nothing", "accepted", "refused", "failed"}]
AlbumStates == {"unlisted", "shelved", "monitored", "file"}

\* Whoever may switch something on asked to obtain it.
InHand(e, these) ==
    /\ e.at # "none" /\ e.monitor => AlbumsOf(e.thing) \subseteq these
    /\ e.at = "monitor" => e.monitor

\* What a new artist's albums will be listed as is what its request asked for.
Modest ==
    /\ artist \in {"absent", "shelved", "monitored"}
    /\ added \in {"shelved", "monitored"}
    /\ album \in [Albums -> AlbumStates]
    /\ looking \subseteq Albums /\ wanted \subseteq Albums
    /\ errand \in [Listeners -> Errands]
    /\ NoDiscographyGrab
    /\ added = "monitored" => Albums \subseteq wanted
    /\ \A l \in Listeners : InHand(errand[l], wanted)

-----------------------------------------------------------------------------
LEMMA AlbumsOfThings ==
    ASSUME NEW thing \in Things
    PROVE  /\ AlbumsOf(thing) \subseteq Albums
           /\ thing # Artist => thing \in Albums /\ AlbumsOf(thing) = {thing}
           /\ thing = Artist => AlbumsOf(thing) = Albums
BY DEF Things, AlbumsOf

\* An errand becomes another one that is in hand.
LEMMA ErrandMoves ==
    ASSUME Modest, wanted \subseteq wanted', NEW l \in Listeners, NEW e \in Errands,
           InHand(e, wanted'), errand' = [errand EXCEPT ![l] = e]
    PROVE  /\ errand' \in [Listeners -> Errands]
           /\ \A k \in Listeners : InHand(errand'[k], wanted')
<1>1. errand \in [Listeners -> Errands]
  BY DEF Modest
<1>2. ASSUME NEW k \in Listeners PROVE InHand(errand'[k], wanted')
  <2>1. CASE k = l
    BY <1>1, <2>1
  <2>2. CASE k # l
    <3>1. errand'[k] = errand[k] /\ InHand(errand[k], wanted)
      BY <1>1, <2>2 DEF Modest
    <3> QED BY <3>1 DEF InHand
  <2> QED BY <2>1, <2>2
<1> QED BY <1>1, <1>2

LEMMA SayMoves ==
    ASSUME Modest, UNCHANGED wanted, NEW l \in Listeners,
           NEW said \in {"accepted", "refused", "failed"}, Say(l, said)
    PROVE  /\ errand' \in [Listeners -> Errands]
           /\ \A k \in Listeners : InHand(errand'[k], wanted')
<1>1. PICK e : e = [errand[l] EXCEPT !.at = "none", !.said = said]
  OBVIOUS
<1>2. e \in Errands /\ e.at = "none"
  BY <1>1 DEF Modest, Errands, Stops
<1>3. InHand(e, wanted') /\ errand' = [errand EXCEPT ![l] = e]
  BY <1>1, <1>2 DEF InHand, Say
<1> QED BY <1>2, <1>3, ErrandMoves

LEMMA GoToMoves ==
    ASSUME Modest, UNCHANGED wanted, NEW l \in Listeners,
           NEW at \in {"album again", "ensure", "add", "monitor", "search"}, GoTo(l, at),
           errand[l].at # "none", at = "monitor" => errand[l].monitor
    PROVE  /\ errand' \in [Listeners -> Errands]
           /\ \A k \in Listeners : InHand(errand'[k], wanted')
<1>1. PICK e : e = [errand[l] EXCEPT !.at = at]
  OBVIOUS
<1>2. /\ e \in Errands /\ e.at = at /\ e.monitor = errand[l].monitor
      /\ e.thing = errand[l].thing
  BY <1>1 DEF Modest, Errands, Stops
<1>3. InHand(e, wanted')
  BY <1>2 DEF Modest, InHand
<1>4. errand' = [errand EXCEPT ![l] = e]
  BY <1>1 DEF GoTo
<1> QED BY <1>2, <1>3, <1>4, ErrandMoves

LEMMA WithArtistMoves ==
    ASSUME Modest, UNCHANGED wanted, NEW l \in Listeners, NEW row, WithArtist(l, row),
           errand[l].at # "none"
    PROVE  /\ errand' \in [Listeners -> Errands]
           /\ \A k \in Listeners : InHand(errand'[k], wanted')
<1>1. errand[l].monitor \in BOOLEAN
  BY DEF Modest, Errands
<1>2. CASE errand[l].thing # Artist
  <2>1. GoTo(l, "album again")
    BY <1>2 DEF WithArtist
  <2> QED BY <2>1, GoToMoves
<1>3. CASE errand[l].thing = Artist /\
           (~errand[l].monitor \/ (row # "absent" /\ \A a \in Albums : album[a] = "file"))
  <2>1. Say(l, "accepted")
    BY <1>3 DEF WithArtist
  <2> QED BY <2>1, SayMoves
<1>4. CASE errand[l].thing = Artist /\
           ~(~errand[l].monitor \/ (row # "absent" /\ \A a \in Albums : album[a] = "file"))
  <2>1. GoTo(l, IF row = "shelved" THEN "monitor" ELSE "search")
    BY <1>4 DEF WithArtist
  <2>2. GoTo(l, "monitor") \/ GoTo(l, "search")
    BY <2>1
  <2> QED BY <1>4, <2>2, GoToMoves
<1> QED BY <1>2, <1>3, <1>4

-----------------------------------------------------------------------------
(* The steps.                                                              *)

\* A step that only moves errands.
LEMMA OnlyErrandsMove ==
    ASSUME Modest, UNCHANGED <<artist, album, added, looking, wanted>>,
           errand' \in [Listeners -> Errands], \A k \in Listeners : InHand(errand'[k], wanted')
    PROVE  Modest'
BY DEF Modest, NoDiscographyGrab

LEMMA AskLidarrKeeps ==
    ASSUME Modest, NEW l \in Listeners, NEW thing \in Things, NEW monitor \in BOOLEAN,
           AskLidarr(l, thing, monitor)
    PROVE  Modest'
<1>1. PICK e : e = [at |-> IF thing = Artist THEN "ensure" ELSE "album",
                    thing |-> thing, monitor |-> monitor, said |-> "nothing"]
  OBVIOUS
<1>2. /\ e \in Errands /\ e.at \in {"ensure", "album"} /\ e.thing = thing
      /\ e.monitor = monitor
  BY <1>1 DEF Errands, Stops
<1>3. /\ errand' = [errand EXCEPT ![l] = e]
      /\ wanted' = IF monitor THEN wanted \cup AlbumsOf(thing) ELSE wanted
      /\ UNCHANGED <<artist, album, added, looking>>
  BY <1>1 DEF AskLidarr
<1>4. wanted \subseteq wanted' /\ wanted' \subseteq Albums
  BY <1>3, AlbumsOfThings DEF Modest
<1>5. InHand(e, wanted')
  BY <1>2, <1>3 DEF InHand
<1>6. /\ errand' \in [Listeners -> Errands]
      /\ \A k \in Listeners : InHand(errand'[k], wanted')
  BY <1>2, <1>3, <1>4, <1>5, ErrandMoves
<1> QED BY <1>3, <1>4, <1>6 DEF Modest, NoDiscographyGrab

LEMMA FindAlbumKeeps ==
    ASSUME Modest, NEW l \in Listeners, FindAlbum(l)
    PROVE  Modest'
<1>1. /\ errand[l].at # "none" /\ errand[l].monitor \in BOOLEAN
      /\ UNCHANGED <<artist, album, added, looking, wanted>>
  BY DEF FindAlbum, Modest, Errands
<1>2. \/ GoTo(l, "ensure") \/ Say(l, "refused") \/ Say(l, "accepted")
      \/ errand[l].monitor /\ (GoTo(l, "monitor") \/ GoTo(l, "search"))
  BY <1>1 DEF FindAlbum
<1> QED BY <1>1, <1>2, SayMoves, GoToMoves, OnlyErrandsMove

LEMMA FindArtistKeeps ==
    ASSUME Modest, NEW l \in Listeners, FindArtist(l)
    PROVE  Modest'
<1>1. errand[l].at # "none" /\ UNCHANGED <<artist, album, added, looking, wanted>>
  BY DEF FindArtist
<1>2. GoTo(l, "add") \/ WithArtist(l, artist)
  BY DEF FindArtist
<1>3. PICK row : row = artist
  OBVIOUS
<1> QED BY <1>1, <1>2, <1>3, GoToMoves, WithArtistMoves, OnlyErrandsMove

\* The artist is monitored, and its albums with it, only for who asked for all.
LEMMA AddArtistKeeps ==
    ASSUME Modest, NEW l \in Listeners, AddArtist(l)
    PROVE  Modest'
<1>1. /\ errand[l].at = "add" /\ UNCHANGED <<album, looking, wanted>>
      /\ errand[l].thing \in Things /\ InHand(errand[l], wanted)
  BY DEF AddArtist, Modest, Errands
<1>2. CASE artist = "absent"
  <2>1. /\ artist' = IF AddsMonitored(errand[l]) THEN "monitored" ELSE "shelved"
        /\ added' = artist' /\ WithArtist(l, "absent")
    BY <1>2 DEF AddArtist
  <2>2. AddsMonitored(errand[l]) => Albums \subseteq wanted
    BY <1>1, AlbumsOfThings DEF AddsMonitored, InHand
  <2>3. /\ errand' \in [Listeners -> Errands]
        /\ \A k \in Listeners : InHand(errand'[k], wanted')
    BY <1>1, <2>1, WithArtistMoves
  <2> QED BY <1>1, <2>1, <2>2, <2>3 DEF Modest, NoDiscographyGrab
<1>3. CASE artist # "absent"
  <2>1. Say(l, "refused") /\ UNCHANGED <<artist, added>>
    BY <1>3 DEF AddArtist
  <2> QED BY <1>1, <2>1, SayMoves, OnlyErrandsMove
<1> QED BY <1>2, <1>3

LEMMA MonitorThingKeeps ==
    ASSUME Modest, NEW l \in Listeners, MonitorThing(l)
    PROVE  Modest'
<1>1. /\ errand[l].at = "monitor" /\ errand[l].thing \in Things
      /\ UNCHANGED <<added, looking, wanted>> /\ GoTo(l, "search")
      /\ AlbumsOf(errand[l].thing) \subseteq wanted
  BY DEF MonitorThing, Modest, Errands, InHand
<1>2. /\ errand' \in [Listeners -> Errands]
      /\ \A k \in Listeners : InHand(errand'[k], wanted')
  BY <1>1, GoToMoves
<1>3. CASE errand[l].thing = Artist
  <2>1. artist' = "monitored" /\ UNCHANGED album
    BY <1>3 DEF MonitorThing
  <2> QED BY <1>1, <1>2, <2>1 DEF Modest, NoDiscographyGrab
<1>4. CASE errand[l].thing # Artist
  <2>1. PICK a \in Albums : a = errand[l].thing /\ a \in wanted
    BY <1>1, <1>4, AlbumsOfThings
  <2>2. album' = [album EXCEPT ![a] = IF @ = "shelved" THEN "monitored" ELSE @]
        /\ UNCHANGED artist
    BY <1>4, <2>1 DEF MonitorThing
  <2>3. /\ album' \in [Albums -> AlbumStates]
        /\ \A b \in Albums : b = a \/ album'[b] = album[b]
    BY <2>2 DEF Modest, AlbumStates
  <2>4. NoDiscographyGrab'
    BY <1>1, <2>1, <2>3 DEF Modest, NoDiscographyGrab
  <2> QED BY <1>1, <1>2, <2>2, <2>3, <2>4 DEF Modest
<1> QED BY <1>3, <1>4

LEMMA SearchThingKeeps ==
    ASSUME Modest, NEW l \in Listeners, SearchThing(l)
    PROVE  Modest'
<1>1. /\ Say(l, "accepted") /\ UNCHANGED <<artist, album, added, wanted>>
      /\ errand[l].thing \in Things
  BY DEF SearchThing, Modest, Errands
<1>2. looking' = looking \cup {a \in AlbumsOf(errand[l].thing) : album[a] = "monitored"}
  BY DEF SearchThing
<1>3. {a \in AlbumsOf(errand[l].thing) : album[a] = "monitored"} \subseteq wanted
  BY <1>1, AlbumsOfThings DEF Modest, NoDiscographyGrab
<1>4. /\ errand' \in [Listeners -> Errands]
      /\ \A k \in Listeners : InHand(errand'[k], wanted')
  BY <1>1, SayMoves
<1>5. looking' \subseteq Albums /\ NoDiscographyGrab'
  BY <1>1, <1>2, <1>3 DEF Modest, NoDiscographyGrab
<1> QED BY <1>1, <1>4, <1>5 DEF Modest

LEMMA LidarrKeeps ==
    ASSUME Modest, NEW a \in Albums, AlbumListed(a) \/ AlbumDownloaded(a)
    PROVE  Modest'
<1>1. UNCHANGED <<artist, added, errand, wanted>>
  BY DEF AlbumListed, AlbumDownloaded
<1>2. CASE AlbumListed(a)
  <2>1. album' = [album EXCEPT ![a] = added] /\ UNCHANGED looking
    BY <1>2 DEF AlbumListed
  <2>2. /\ album' \in [Albums -> AlbumStates] /\ album'[a] = added
        /\ \A b \in Albums : b = a \/ album'[b] = album[b]
    BY <2>1 DEF Modest, AlbumStates
  <2>3. NoDiscographyGrab'
    BY <1>1, <2>1, <2>2 DEF Modest, NoDiscographyGrab
  <2> QED BY <1>1, <2>1, <2>2, <2>3 DEF Modest
<1>3. CASE AlbumDownloaded(a)
  <2>1. /\ a \in looking /\ album' = [album EXCEPT ![a] = "file"]
        /\ looking' = looking \ {a}
    BY <1>3 DEF AlbumDownloaded
  <2>2. /\ album' \in [Albums -> AlbumStates]
        /\ \A b \in Albums : b = a \/ album'[b] = album[b]
    BY <2>1 DEF Modest, AlbumStates
  <2>3. NoDiscographyGrab'
    BY <1>1, <2>1, <2>2 DEF Modest, NoDiscographyGrab
  <2> QED BY <1>1, <2>1, <2>2, <2>3 DEF Modest
<1> QED BY <1>2, <1>3

LEMMA ModestInitially == AlbumsInit => Modest
BY AlbumAssumption
   DEF AlbumsInit, Modest, Errands, AlbumStates, NoErrand, Stops, Things, InHand,
       NoDiscographyGrab

LEMMA ModestStays == Modest /\ [AlbumsNext]_albumVars => Modest'
<1> SUFFICES ASSUME Modest, [AlbumsNext]_albumVars PROVE Modest'
  OBVIOUS
<1>1. ASSUME NEW l \in Listeners, ErrandStep(l) PROVE Modest'
  BY <1>1, FindAlbumKeeps, FindArtistKeeps, AddArtistKeeps, MonitorThingKeeps,
     SearchThingKeeps DEF ErrandStep
<1>2. ASSUME NEW l \in Listeners, ErrandFails(l) PROVE Modest'
  <2>1. Say(l, "failed") /\ UNCHANGED <<artist, album, added, looking, wanted>>
    BY <1>2 DEF ErrandFails
  <2> QED BY <2>1, SayMoves, OnlyErrandsMove
<1>3. CASE UNCHANGED albumVars
  <2>1. UNCHANGED <<artist, album, added, looking, errand, wanted>>
    BY <1>3 DEF albumVars
  <2> QED BY <2>1 DEF Modest, NoDiscographyGrab
<1> QED BY <1>1, <1>2, <1>3, AskLidarrKeeps, LidarrKeeps DEF AlbumsNext

-----------------------------------------------------------------------------
\* Lidarr and its requests in every reachable state, what a new artist was added
\* as among it (requestAlbum, ensureArtist).
THEOREM RequestsAreModest == AlbumsSpec => []Modest
BY ModestInitially, ModestStays, PTL DEF AlbumsSpec

\* "Adding an artist for one album does not start a discography-wide grab": for
\* any number of albums and overlapping requests, wherever they fail.
THEOREM NoDiscographyIsGrabbed == AlbumsSpec => []NoDiscographyGrab
<1>1. Modest => NoDiscographyGrab
  BY DEF Modest
<1> QED BY <1>1, RequestsAreModest, PTL

-----------------------------------------------------------------------------
(* Films.                                                                    *)
Wishes == [at : {"none", "find", "add", "monitor", "search"}, instance : Instances,
           monitor : BOOLEAN, said : {"nothing", "accepted", "refused", "failed"}]
Questions == [open : BOOLEAN, pending : SUBSET Instances,
              halfway : SUBSET (Instances \X {"wanted", "shelved"}),
              state : FilmStates, failed : SUBSET Instances, held : SUBSET Instances]
Found == {"requested", "downloading", "importing", "available"}

\* An instance that has the film has it still, is not taken for one that shelved
\* it, and has yet to answer, failed, or was heard.
Heard(q, i) ==
    /\ film[i] \in Wanted
    /\ <<i, "shelved">> \notin q.halfway
    /\ i \in q.pending \/ i \in q.failed \/ q.state \in Found

Followed ==
    /\ film \in [Instances -> Stages]
    /\ wish \in [Requesters -> Wishes]
    /\ question \in [Askers -> Questions]
    /\ \A a \in Askers : \A i \in question[a].held : Heard(question[a], i)

-----------------------------------------------------------------------------
(* Answers only get better.                                                *)

LEMMA BetterKeepsWhatWasFound ==
    ASSUME NEW best \in FilmStates, NEW state \in FilmStates
    PROVE  /\ Better(best, state) \in FilmStates
           /\ best \in Found => Better(best, state) \in Found
           /\ state \in Found => Better(best, state) \in Found
<1>1. \A s \in FilmStates : Rank(s) = IF s = "available" THEN 5 ELSE IF s = "importing" THEN 4
          ELSE IF s = "downloading" THEN 3 ELSE IF s = "requested" THEN 2
          ELSE IF s = "missing" THEN 1 ELSE 0
  BY DEF FilmStates, Rank
<1>2. \A s \in FilmStates : Rank(s) \in Nat /\ (s \in Found <=> Rank(s) >= 2)
  BY <1>1 DEF FilmStates, Found
<1>3. Better(best, state) = IF Rank(state) > Rank(best) THEN state ELSE best
  BY DEF Better
<1> QED BY <1>2, <1>3

LEMMA QueueStatesAreFound ==
    ASSUME NEW stage \in InQueue
    PROVE  QueueState(stage) \in Found
<1>1. CASE stage = "importing"
  BY <1>1 DEF QueueState, Found
<1>2. CASE stage = "failed"
  BY <1>2 DEF QueueState, Found
<1>3. CASE stage = "downloading"
  BY <1>3 DEF QueueState, Found
<1> QED BY <1>1, <1>2, <1>3 DEF InQueue

-----------------------------------------------------------------------------
(* Questions.                                                              *)

\* One question becomes another, in which nobody it follows is lost.
LEMMA QuestionMoves ==
    ASSUME Followed, NEW a \in Askers, NEW q \in Questions,
           question' = [question EXCEPT ![a] = q], UNCHANGED <<film, wish>>,
           \A i \in q.held : Heard(q, i)
    PROVE  Followed'
<1>1. question \in [Askers -> Questions] /\ question' \in [Askers -> Questions]
  BY DEF Followed
<1>2. ASSUME NEW b \in Askers, NEW i \in question'[b].held
      PROVE  /\ film'[i] \in Wanted /\ <<i, "shelved">> \notin question'[b].halfway
             /\ \/ i \in question'[b].pending \/ i \in question'[b].failed
                \/ question'[b].state \in Found
  <2>1. CASE b = a
    BY <1>1, <1>2, <2>1 DEF Heard
  <2>2. CASE b # a
    <3>1. question'[b] = question[b]
      BY <1>1, <2>2
    <3>2. i \in question[b].held /\ Heard(question[b], i)
      BY <1>2, <3>1 DEF Followed
    <3> QED BY <3>1, <3>2 DEF Heard
  <2> QED BY <2>1, <2>2
<1> QED BY <1>1, <1>2 DEF Followed, Heard

LEMMA AskStatusKeeps ==
    ASSUME Followed, NEW a \in Askers, AskStatus(a)
    PROVE  Followed'
<1>1. PICK q : q = [NoQuestion EXCEPT !.open = TRUE, !.pending = Instances,
                        !.held = {i \in Instances : film[i] \in Wanted}]
  OBVIOUS
<1>2. /\ q \in Questions /\ q.pending = Instances /\ q.halfway = {}
      /\ q.held = {i \in Instances : film[i] \in Wanted}
  BY <1>1 DEF Questions, NoQuestion, FilmStates
<1>3. question' = [question EXCEPT ![a] = q] /\ UNCHANGED <<film, wish>>
  BY <1>1 DEF AskStatus
<1>4. \A i \in q.held : Heard(q, i)
  BY <1>2 DEF Heard
<1> QED BY <1>2, <1>3, <1>4, QuestionMoves

\* An instance's answer, which is of a film it has if it is followed.
LEMMA ToldKeeps ==
    ASSUME Followed, NEW a \in Askers, NEW i \in Instances, NEW state \in FilmStates,
           Told(a, i, state), UNCHANGED <<film, wish>>,
           i \in question[a].held => state \in Found
    PROVE  Followed'
<1>1. question[a] \in Questions /\ question[a].state \in FilmStates
  BY DEF Followed, Questions
<1>2. PICK best : best = Better(question[a].state, state)
  OBVIOUS
<1>3. PICK q : q = [question[a] EXCEPT !.pending = @ \ {i}, !.state = best,
                        !.halfway = @ \ {<<i, "wanted">>, <<i, "shelved">>}]
  OBVIOUS
<1>4. /\ best \in FilmStates
      /\ question[a].state \in Found => best \in Found
      /\ state \in Found => best \in Found
  BY <1>1, <1>2, BetterKeepsWhatWasFound
<1>5. /\ q \in Questions /\ q.held = question[a].held /\ q.failed = question[a].failed
      /\ q.pending = question[a].pending \ {i} /\ q.state = best
      /\ q.halfway \subseteq question[a].halfway
  <2>1. PICK half : half = question[a].halfway \ {<<i, "wanted">>, <<i, "shelved">>}
    OBVIOUS
  <2>2. PICK left : left = question[a].pending \ {i}
    OBVIOUS
  <2>3. q = [question[a] EXCEPT !.pending = left, !.state = best, !.halfway = half]
    BY <1>3, <2>1, <2>2
  <2>4. /\ half \in SUBSET (Instances \X {"wanted", "shelved"})
        /\ left \in SUBSET Instances /\ half \subseteq question[a].halfway
    BY <1>1, <2>1, <2>2 DEF Questions
  <2> QED BY <1>1, <1>4, <2>2, <2>3, <2>4 DEF Questions
<1>6. question' = [question EXCEPT ![a] = q]
  BY <1>2, <1>3 DEF Told
<1>7. \A j \in q.held : Heard(q, j)
  <2> SUFFICES ASSUME NEW j \in q.held PROVE Heard(q, j)
    OBVIOUS
  <2>1. Heard(question[a], j)
    BY <1>5 DEF Followed
  <2>2. film[j] \in Wanted /\ <<j, "shelved">> \notin q.halfway
    BY <1>5, <2>1 DEF Heard
  <2>3. CASE j = i
    BY <1>4, <1>5, <2>2, <2>3 DEF Heard
  <2>4. CASE j # i
    BY <1>4, <1>5, <2>1, <2>2, <2>4 DEF Heard
  <2> QED BY <2>3, <2>4
<1> QED BY <1>5, <1>6, <1>7, QuestionMoves

LEMMA ReadMovieKeeps ==
    ASSUME Followed, NEW a \in Askers, NEW i \in Instances, ReadMovie(a, i)
    PROVE  Followed'
<1>1. /\ question[a] \in Questions /\ i \in question[a].pending /\ film[i] \in Stages
      /\ UNCHANGED <<film, wish>>
      /\ i \in question[a].held => film[i] \in Wanted
  BY DEF Followed, ReadMovie, Heard
<1>2. CASE film[i] = "absent"
  <2>1. Told(a, i, "missing")
    BY <1>2 DEF ReadMovie
  <2>2. i \notin question[a].held
    BY <1>1, <1>2 DEF Wanted, InQueue
  <2> QED BY <1>1, <2>1, <2>2, ToldKeeps DEF FilmStates
<1>3. CASE film[i] = "file"
  <2>1. Told(a, i, "available")
    BY <1>3 DEF ReadMovie
  <2> QED BY <1>1, <2>1, ToldKeeps DEF FilmStates, Found
<1>4. CASE film[i] \notin {"absent", "file"}
  <2>1. PICK row \in {"wanted", "shelved"} :
            row = IF film[i] = "shelved" THEN "shelved" ELSE "wanted"
    OBVIOUS
  <2>2. PICK q : q = [question[a] EXCEPT !.halfway = @ \cup {<<i, row>>}]
    OBVIOUS
  <2>3. /\ q \in Questions /\ q.held = question[a].held /\ q.failed = question[a].failed
        /\ q.pending = question[a].pending /\ q.state = question[a].state
        /\ q.halfway = question[a].halfway \cup {<<i, row>>}
    BY <1>1, <2>1, <2>2 DEF Questions
  <2>4. question' = [question EXCEPT ![a] = q]
    BY <1>4, <2>1, <2>2 DEF ReadMovie
  <2>5. \A j \in q.held : Heard(q, j)
    <3> SUFFICES ASSUME NEW j \in q.held PROVE Heard(q, j)
      OBVIOUS
    <3>1. Heard(question[a], j)
      BY <2>3 DEF Followed
    <3>2. j = i => row = "wanted"
      BY <2>1, <3>1 DEF Heard, Wanted, InQueue
    <3> QED BY <2>1, <2>3, <3>1, <3>2 DEF Heard
  <2> QED BY <1>1, <2>3, <2>4, <2>5, QuestionMoves
<1> QED BY <1>2, <1>3, <1>4

LEMMA ReadQueueKeeps ==
    ASSUME Followed, NEW a \in Askers, NEW i \in Instances, NEW row \in {"wanted", "shelved"},
           ReadQueue(a, i, row)
    PROVE  Followed'
<1>1. <<i, row>> \in question[a].halfway /\ UNCHANGED <<film, wish>>
  BY DEF ReadQueue
<1>2. i \in question[a].held => row = "wanted"
  BY <1>1 DEF Followed, Heard
<1>3. CASE "queue" \in answers[i] /\ film[i] \in InQueue
  <2>1. PICK state : state = QueueState(film[i])
    OBVIOUS
  <2>2. Told(a, i, state)
    BY <1>3, <2>1 DEF ReadQueue
  <2>3. state \in Found /\ state \in FilmStates
    BY <1>3, <2>1, QueueStatesAreFound DEF Found, FilmStates
  <2> QED BY <1>1, <2>2, <2>3, ToldKeeps
<1>4. CASE ~("queue" \in answers[i] /\ film[i] \in InQueue)
  <2>1. PICK state \in {"requested", "missing"} :
            state = IF row = "wanted" THEN "requested" ELSE "missing"
    OBVIOUS
  <2>2. Told(a, i, state)
    BY <1>4, <2>1 DEF ReadQueue
  <2>3. state \in FilmStates /\ (i \in question[a].held => state \in Found)
    BY <1>2, <2>1 DEF Found, FilmStates
  <2> QED BY <1>1, <2>2, <2>3, ToldKeeps
<1> QED BY <1>3, <1>4

LEMMA AskFailedKeeps ==
    ASSUME Followed, NEW a \in Askers, NEW i \in Instances, AskFailed(a, i)
    PROVE  Followed'
<1>1. question[a] \in Questions /\ UNCHANGED <<film, wish>>
  BY DEF Followed, AskFailed
<1>2. PICK q : q = [question[a] EXCEPT !.pending = @ \ {i}, !.failed = @ \cup {i}]
  OBVIOUS
<1>3. /\ q \in Questions /\ q.held = question[a].held /\ q.halfway = question[a].halfway
      /\ q.pending = question[a].pending \ {i} /\ q.failed = question[a].failed \cup {i}
      /\ q.state = question[a].state
  BY <1>1, <1>2 DEF Questions
<1>4. question' = [question EXCEPT ![a] = q]
  BY <1>2 DEF AskFailed
<1>5. \A j \in q.held : Heard(q, j)
  BY <1>3 DEF Followed, Heard
<1> QED BY <1>1, <1>3, <1>4, <1>5, QuestionMoves

LEMMA StatusAnsweredKeeps ==
    ASSUME Followed, NEW a \in Askers, StatusAnswered(a)
    PROVE  Followed'
<1>1. PICK q : q = NoQuestion
  OBVIOUS
<1>2. q \in Questions /\ q.held = {}
  BY <1>1 DEF NoQuestion, Questions, FilmStates
<1>3. question' = [question EXCEPT ![a] = q] /\ UNCHANGED <<film, wish>>
  BY <1>1 DEF StatusAnswered
<1> QED BY <1>2, <1>3, QuestionMoves

-----------------------------------------------------------------------------
(* Films and requests.                                                     *)

\* The film moves on, and stays where it is wanted.
LEMMA FilmMoves ==
    ASSUME Followed, UNCHANGED question, wish' \in [Requesters -> Wishes],
           film' \in [Instances -> Stages],
           \A i \in Instances : film[i] \in Wanted => film'[i] \in Wanted
    PROVE  Followed'
<1>1. ASSUME NEW a \in Askers, NEW i \in question'[a].held
      PROVE  /\ film'[i] \in Wanted /\ <<i, "shelved">> \notin question'[a].halfway
             /\ \/ i \in question'[a].pending \/ i \in question'[a].failed
                \/ question'[a].state \in Found
  <2>1. i \in question[a].held /\ i \in Instances /\ Heard(question[a], i)
    BY <1>1 DEF Followed, Questions
  <2> QED BY <2>1 DEF Heard
<1> QED BY <1>1 DEF Followed, Heard

LEMMA WishMoves ==
    ASSUME Followed, NEW r \in Requesters,
           \/ \E at \in {"add", "monitor", "search"} : GoOn(r, at)
           \/ \E said \in {"accepted", "refused", "failed"} : Reply(r, said)
    PROVE  wish' \in [Requesters -> Wishes]
<1>1. wish[r] \in Wishes
  BY DEF Followed
<1>2. ASSUME NEW at \in {"add", "monitor", "search"}, GoOn(r, at)
      PROVE  wish' \in [Requesters -> Wishes]
  <2>1. [wish[r] EXCEPT !.at = at] \in Wishes
    BY <1>1 DEF Wishes
  <2> QED BY <1>2, <2>1 DEF GoOn, Followed
<1>3. ASSUME NEW said \in {"accepted", "refused", "failed"}, Reply(r, said)
      PROVE  wish' \in [Requesters -> Wishes]
  <2>1. [wish[r] EXCEPT !.at = "none", !.said = said] \in Wishes
    BY <1>1 DEF Wishes
  <2> QED BY <1>3, <2>1 DEF Reply, Followed
<1> QED BY <1>2, <1>3

LEMMA RequestsKeep ==
    ASSUME Followed, NEW r \in Requesters,
           FindFilm(r) \/ AddFilm(r) \/ MonitorFilm(r) \/ SearchFilm(r) \/ RequestFails(r)
    PROVE  Followed'
<1>1. PICK i \in Instances : i = wish[r].instance /\ film[i] \in Stages
  BY DEF Followed, Wishes
<1>2. UNCHANGED question
  BY DEF FindFilm, AddFilm, MonitorFilm, SearchFilm, RequestFails
<1>3. \/ \E at \in {"add", "monitor", "search"} : GoOn(r, at)
      \/ \E said \in {"accepted", "refused", "failed"} : Reply(r, said)
  BY DEF FindFilm, AddFilm, MonitorFilm, SearchFilm, RequestFails
<1>4. wish' \in [Requesters -> Wishes]
  BY <1>3, WishMoves
<1>5. \/ UNCHANGED film
      \/ film[i] \in {"absent", "shelved"} /\
         \E stage \in {"monitored", "shelved"} : film' = [film EXCEPT ![i] = stage]
  BY <1>1 DEF FindFilm, AddFilm, MonitorFilm, SearchFilm, RequestFails, Becomes, Of
<1>6. /\ film' \in [Instances -> Stages]
      /\ \A j \in Instances : film[j] \in Wanted => film'[j] \in Wanted
  BY <1>1, <1>5 DEF Followed, Stages, Wanted, InQueue
<1> QED BY <1>2, <1>4, <1>6, FilmMoves

LEMMA FirstInstance == 1 \in Instances /\ 0 \notin Instances
<1>1. Cardinality(Instances) \in Nat
  BY FilmAssumption, FS_CardinalityType
<1> QED BY <1>1, FilmAssumption

LEMMA WishForKeeps ==
    ASSUME Followed, NEW r \in Requesters, NEW named \in Instances \cup {0},
           NEW monitor \in BOOLEAN, WishFor(r, named, monitor)
    PROVE  Followed'
<1>1. PickTarget(named) \in Instances
  BY FirstInstance DEF PickTarget
<1>2. [at |-> "find", instance |-> PickTarget(named), monitor |-> monitor,
       said |-> "nothing"] \in Wishes
  BY <1>1 DEF Wishes
<1>3. wish' \in [Requesters -> Wishes]
  BY <1>2 DEF WishFor, Followed
<1> QED BY <1>3, FilmMoves DEF WishFor, Followed

LEMMA RadarrKeeps ==
    ASSUME Followed, NEW i \in Instances, Downloads(i) \/ DownloadFails(i) \/ Outage(i)
    PROVE  Followed'
<1>1. UNCHANGED <<wish, question>> /\ film[i] \in Stages
  BY DEF Downloads, DownloadFails, Outage, Followed
<1>2. \/ UNCHANGED film
      \/ \E stage \in Stages : film' = [film EXCEPT ![i] = stage]
                              /\ (film[i] \in Wanted => stage \in Wanted)
  <2>1. CASE Downloads(i)
    <3>1. PICK stage : stage = CASE film[i] = "monitored" -> "downloading"
                            [] film[i] = "downloading" -> "importing"
                            [] film[i] = "importing" -> "file"
                            [] film[i] = "failed" -> "downloading" [] OTHER -> film[i]
      OBVIOUS
    <3>2. stage \in Stages /\ (film[i] \in Wanted => stage \in Wanted)
      BY <1>1, <3>1 DEF Stages, Wanted, InQueue
    <3>3. film' = [film EXCEPT ![i] = stage]
      BY <2>1, <3>1 DEF Downloads
    <3> QED BY <3>2, <3>3
  <2>2. CASE DownloadFails(i)
    BY <2>2 DEF DownloadFails, Stages, Wanted, InQueue
  <2>3. CASE Outage(i)
    BY <2>3 DEF Outage
  <2> QED BY <2>1, <2>2, <2>3
<1>3. /\ film' \in [Instances -> Stages]
      /\ \A j \in Instances : film[j] \in Wanted => film'[j] \in Wanted
  BY <1>2 DEF Followed
<1> QED BY <1>1, <1>3, FilmMoves DEF Followed

\* Nobody is asked to have found a film that was taken off.
LEMMA RemovedKeeps ==
    ASSUME Followed, NEW i \in Instances, Removed(i)
    PROVE  Followed'
<1>1. /\ film' = [film EXCEPT ![i] = "absent"] /\ UNCHANGED wish
      /\ question' = [a \in Askers |-> [question[a] EXCEPT !.held = @ \ {i}]]
  BY DEF Removed
<1>2. ASSUME NEW a \in Askers
      PROVE  /\ question'[a] \in Questions
             /\ question'[a].held = question[a].held \ {i}
             /\ question'[a].halfway = question[a].halfway
             /\ question'[a].pending = question[a].pending
             /\ question'[a].failed = question[a].failed
             /\ question'[a].state = question[a].state
  BY <1>1 DEF Followed, Questions
<1>3. question' \in [Askers -> Questions] /\ film' \in [Instances -> Stages]
  BY <1>1, <1>2 DEF Followed, Stages
<1>4. ASSUME NEW a \in Askers, NEW j \in question'[a].held
      PROVE  /\ film'[j] \in Wanted /\ <<j, "shelved">> \notin question'[a].halfway
             /\ \/ j \in question'[a].pending \/ j \in question'[a].failed
                \/ question'[a].state \in Found
  <2>1. j \in question[a].held /\ j # i /\ j \in Instances
    BY <1>2, <1>4 DEF Followed, Questions
  <2>2. Heard(question[a], j) /\ film'[j] = film[j]
    BY <1>1, <2>1 DEF Followed
  <2> QED BY <1>2, <2>2 DEF Heard
<1> QED BY <1>1, <1>3, <1>4 DEF Followed, Heard

-----------------------------------------------------------------------------

LEMMA FollowedInitially == FilmInit => Followed
<1> SUFFICES ASSUME FilmInit PROVE Followed
  OBVIOUS
<1>1. film \in [Instances -> Stages]
  BY DEF FilmInit, Stages
<1>2. NoWish \in Wishes
  BY FirstInstance DEF NoWish, Wishes
<1>3. wish \in [Requesters -> Wishes]
  BY <1>2 DEF FilmInit
<1>4. NoQuestion \in Questions /\ NoQuestion.held = {}
  BY DEF NoQuestion, Questions, FilmStates
<1>5. question \in [Askers -> Questions] /\ \A a \in Askers : question[a].held = {}
  BY <1>4 DEF FilmInit
<1> QED BY <1>1, <1>3, <1>5 DEF Followed

LEMMA FollowedStays == Followed /\ [FilmNext]_filmVars => Followed'
<1> SUFFICES ASSUME Followed, [FilmNext]_filmVars PROVE Followed'
  OBVIOUS
<1>1. CASE \E a \in Askers : StatusAnswered(a) \/ AskStatus(a)
  BY <1>1, StatusAnsweredKeeps, AskStatusKeeps
<1>2. CASE \E a \in Askers, i \in Instances :
              \/ ReadMovie(a, i) \/ AskFailed(a, i)
              \/ \E row \in {"wanted", "shelved"} : ReadQueue(a, i, row)
  BY <1>2, ReadMovieKeeps, AskFailedKeeps, ReadQueueKeeps
<1>3. CASE \E r \in Requesters :
              FindFilm(r) \/ AddFilm(r) \/ MonitorFilm(r) \/ SearchFilm(r) \/ RequestFails(r)
  BY <1>3, RequestsKeep
<1>4. CASE \E r \in Requesters, named \in Instances \cup {0}, monitor \in BOOLEAN :
              WishFor(r, named, monitor)
  BY <1>4, WishForKeeps
<1>5. CASE \E i \in Instances : Downloads(i) \/ DownloadFails(i) \/ Removed(i) \/ Outage(i)
  BY <1>5, RadarrKeeps, RemovedKeeps
<1>6. CASE UNCHANGED filmVars
  BY <1>6 DEF filmVars, Followed, Heard
<1> QED BY <1>1, <1>2, <1>3, <1>4, <1>5, <1>6 DEF FilmNext, DeskStep

\* Every instance that had the film when the question was put, and has it still,
\* is yet to answer, is named as failed, or has been heard (handleStatus).
THEOREM FilmsAreFollowed == FilmSpec => []Followed
<1> QED BY FollowedInitially, FollowedStays, PTL DEF FilmSpec

\* A film that is somewhere is not called missing, in whatever order instances
\* answer, unless all that have it are named as failed.
THEOREM FilmInHandIsNeverMissing == FilmSpec => []FilmInHandIsNotMissing
<1>1. Followed => FilmInHandIsNotMissing
  <2> SUFFICES ASSUME Followed, NEW a \in Askers, question[a].pending = {},
                      question[a].state \in {"missing", "unknown"}, NEW i \in question[a].held
               PROVE  i \in question[a].failed
    BY DEF FilmInHandIsNotMissing
  <2>1. Heard(question[a], i)
    BY DEF Followed
  <2> QED BY <2>1 DEF Heard, Found
<1> QED BY <1>1, FilmsAreFollowed, PTL

-----------------------------------------------------------------------------
(* The addons.                                                             *)

AddonRows == [addon : Addons, config : Configurations, enabled : BOOLEAN]
AddonLists == installed \in Seq(AddonRows) /\ onDisk \in Seq(AddonRows)

LEMMA PlaceIsThere == ASSUME NEW a, Has(a) PROVE Place(a) \in DOMAIN installed /\ installed[Place(a)].addon = a
BY DEF Has, Place, Position

\* Where an id is named does not depend on the lists.
LEMMA NamesAreCounted ==
    ASSUME NEW a, NEW b, NEW x
    PROVE  NamedAs(<<a, b>>, x) \in Nat
<1> DEFINE ids == <<a, b>>
<1>1. DOMAIN ids = 1..2 /\ ids[1] = a /\ ids[2] = b /\ Len(ids) = 2 /\ ToSet(ids) = {a, b}
  BY DEF ToSet
<1> SUFFICES NamedAs(ids, x) \in Nat
  OBVIOUS
<1> HIDE DEF ids
<1>2. CASE x \notin {a, b}
  BY <1>1, <1>2 DEF NamedAs
<1>3. CASE x \in {a, b}
  <2>1. \E i \in DOMAIN ids : ids[i] = x /\ \A j \in 1..(i - 1) : ids[j] # x
    <3>1. CASE x = a
      BY <1>1, <3>1
    <3>2. CASE x = b /\ x # a
      <4>1. ids[2] = x /\ \A j \in 1..(2 - 1) : ids[j] # x
        BY <1>1, <3>2
      <4> QED BY <1>1, <4>1
    <3> QED BY <3>1, <3>2, <1>3
  <2>2. NamedAs(ids, x) = CHOOSE i \in DOMAIN ids : ids[i] = x /\ \A j \in 1..(i - 1) : ids[j] # x
    BY <1>1, <1>3 DEF NamedAs
  <2>3. NamedAs(ids, x) \in DOMAIN ids
    BY <2>1, <2>2
  <2> QED BY <1>1, <2>3
<1> QED BY <1>2, <1>3

\* A stable sort puts every row somewhere, and no two of them in one place.
LEMMA RowsKeepAPlace ==
    ASSUME NEW a, NEW b, AddonLists
    PROVE  LET ids == <<a, b>> IN
           /\ \A i \in DOMAIN installed : /\ Cardinality(Ahead(ids, i)) \in Nat
                                          /\ Cardinality(Ahead(ids, i)) + 1 \in DOMAIN installed
           /\ \A i, j \in DOMAIN installed :
                 Cardinality(Ahead(ids, i)) = Cardinality(Ahead(ids, j)) => i = j
<1> DEFINE ids == <<a, b>>
           rank(k) == NamedAs(ids, installed[k].addon)
<1>1. \A k : rank(k) \in Nat
  BY NamesAreCounted
<1>2. DOMAIN installed = 1..Len(installed) /\ Len(installed) \in Nat
  BY DEF AddonLists
<1>3. IsFiniteSet(DOMAIN installed) /\ Cardinality(DOMAIN installed) = Len(installed)
  <2>1. /\ IsFiniteSet(1..Len(installed))
        /\ Cardinality(1..Len(installed)) = IF 1 > Len(installed) THEN 0 ELSE Len(installed) - 1 + 1
    BY <1>2, FS_Interval
  <2> QED BY <1>2, <2>1
<1>4. \A i, k : k \in Ahead(ids, i) <=>
          k \in DOMAIN installed /\ (rank(k) < rank(i) \/ (rank(k) = rank(i) /\ k < i))
  BY DEF Ahead
<1> HIDE DEF rank, ids
<1>5. ASSUME NEW i \in DOMAIN installed
      PROVE  /\ Ahead(ids, i) \subseteq DOMAIN installed /\ IsFiniteSet(Ahead(ids, i))
             /\ i \notin Ahead(ids, i)
             /\ Cardinality(Ahead(ids, i)) \in Nat
             /\ Cardinality(Ahead(ids, i)) + 1 \in DOMAIN installed
  <2>1. Ahead(ids, i) \subseteq DOMAIN installed /\ i \notin Ahead(ids, i)
    BY <1>1, <1>2, <1>4
  <2>2. IsFiniteSet(Ahead(ids, i)) /\ Cardinality(Ahead(ids, i)) \in Nat
    BY <1>3, <2>1, FS_Subset, FS_CardinalityType
  <2>3. Cardinality(Ahead(ids, i)) < Cardinality(DOMAIN installed)
    <3>1. Ahead(ids, i) # DOMAIN installed /\ Cardinality(DOMAIN installed) \in Nat
      BY <1>2, <1>3, <2>1
    <3>2. /\ Cardinality(Ahead(ids, i)) <= Cardinality(DOMAIN installed)
          /\ Cardinality(DOMAIN installed) = Cardinality(Ahead(ids, i)) => DOMAIN installed = Ahead(ids, i)
      BY <1>3, <2>1, FS_Subset
    <3> QED BY <2>2, <3>1, <3>2
  <2> QED BY <1>2, <1>3, <2>1, <2>2, <2>3
<1>6. ASSUME NEW i \in DOMAIN installed, NEW j \in DOMAIN installed, i \in Ahead(ids, j)
      PROVE  Cardinality(Ahead(ids, i)) < Cardinality(Ahead(ids, j))
  <2>1. Ahead(ids, i) \subseteq Ahead(ids, j)
    BY <1>1, <1>2, <1>4, <1>6
  <2>2. IsFiniteSet(Ahead(ids, j)) /\ Ahead(ids, i) # Ahead(ids, j)
    BY <1>5, <1>6
  <2>3. /\ Cardinality(Ahead(ids, i)) <= Cardinality(Ahead(ids, j))
        /\ Cardinality(Ahead(ids, j)) = Cardinality(Ahead(ids, i)) => Ahead(ids, j) = Ahead(ids, i)
    BY <2>1, <2>2, FS_Subset
  <2>4. Cardinality(Ahead(ids, i)) \in Nat /\ Cardinality(Ahead(ids, j)) \in Nat
    BY <1>5
  <2> QED BY <2>2, <2>3, <2>4
<1>7. ASSUME NEW i \in DOMAIN installed, NEW j \in DOMAIN installed, i # j
      PROVE  i \in Ahead(ids, j) \/ j \in Ahead(ids, i)
  BY <1>1, <1>2, <1>4, <1>7
<1>8. ASSUME NEW i \in DOMAIN installed, NEW j \in DOMAIN installed,
             Cardinality(Ahead(ids, i)) = Cardinality(Ahead(ids, j))
      PROVE  i = j
  <2>1. Cardinality(Ahead(ids, i)) \in Nat /\ Cardinality(Ahead(ids, j)) \in Nat
    BY <1>5
  <2> QED BY <1>6, <1>7, <1>8, <2>1
<1> QED BY <1>5, <1>8 DEF ids

LEMMA ReorderingKeepsRows ==
    ASSUME NEW a, NEW b, AddonLists
    PROVE  /\ Reordered(<<a, b>>) \in Seq(AddonRows)
           /\ \A i \in DOMAIN installed : \E n \in DOMAIN Reordered(<<a, b>>) :
                  Reordered(<<a, b>>)[n] = installed[i]
           /\ DOMAIN Reordered(<<a, b>>) = DOMAIN installed
           /\ \A n \in DOMAIN installed : \E i \in DOMAIN installed :
                  Cardinality(Ahead(<<a, b>>, i)) = n - 1
<1> DEFINE ids == <<a, b>>
           new == Reordered(ids)
           at(i) == Cardinality(Ahead(ids, i)) + 1
           from(n) == CHOOSE i \in DOMAIN installed : Cardinality(Ahead(ids, i)) = n - 1
<1>1. DOMAIN installed = 1..Len(installed) /\ Len(installed) \in Nat
  BY DEF AddonLists
<1>2. DOMAIN new = DOMAIN installed /\ \A n \in DOMAIN installed : new[n] = installed[from(n)]
  BY DEF Reordered
<1>3. \A i \in DOMAIN installed : Cardinality(Ahead(ids, i)) \in Nat /\ at(i) \in DOMAIN installed
  BY RowsKeepAPlace
<1>4. ASSUME NEW i \in DOMAIN installed PROVE from(at(i)) = i
  <2>1. Cardinality(Ahead(ids, i)) = at(i) - 1
    BY <1>3
  <2>2. \A j \in DOMAIN installed : Cardinality(Ahead(ids, j)) = at(i) - 1 => j = i
    BY <2>1, RowsKeepAPlace
  <2> QED BY <2>1, <2>2
<1>5. ASSUME NEW n \in DOMAIN installed
      PROVE  \E i \in DOMAIN installed : at(i) = n
  <2> DEFINE f == [i \in DOMAIN installed |-> at(i)]
  <2>1. \A i, j \in DOMAIN installed : at(i) = at(j) => i = j
    <3> SUFFICES ASSUME NEW i \in DOMAIN installed, NEW j \in DOMAIN installed, at(i) = at(j)
                 PROVE  i = j
      OBVIOUS
    <3>1. Cardinality(Ahead(ids, i)) = Cardinality(Ahead(ids, j))
      BY <1>3
    <3> QED BY <3>1, RowsKeepAPlace
  <2>2. f \in [DOMAIN installed -> DOMAIN installed]
    BY <1>3
  <2>3. f \in Injection(DOMAIN installed, DOMAIN installed)
    BY <2>1, <2>2 DEF Injection, IsInjective
  <2>4. IsFiniteSet(DOMAIN installed)
    BY <1>1, FS_Interval
  <2>5. f \in Surjection(DOMAIN installed, DOMAIN installed)
    BY <2>3, <2>4, FS_Injection
  <2> QED BY <2>5 DEF Surjection
<1>6. \A n \in DOMAIN installed : from(n) \in DOMAIN installed
  <2> SUFFICES ASSUME NEW n \in DOMAIN installed PROVE from(n) \in DOMAIN installed
    OBVIOUS
  <2>1. PICK i \in DOMAIN installed : at(i) = n
    BY <1>5
  <2> QED BY <1>4, <2>1
<1>9. \A n \in DOMAIN installed : \E i \in DOMAIN installed : Cardinality(Ahead(ids, i)) = n - 1
  <2> SUFFICES ASSUME NEW n \in DOMAIN installed
               PROVE  \E i \in DOMAIN installed : Cardinality(Ahead(ids, i)) = n - 1
    OBVIOUS
  <2>1. PICK i \in DOMAIN installed : at(i) = n
    BY <1>5
  <2>2. Cardinality(Ahead(ids, i)) \in Nat /\ Cardinality(Ahead(ids, i)) + 1 = n
    BY <1>3, <2>1
  <2>3. Cardinality(Ahead(ids, i)) = n - 1
    BY <2>2
  <2> QED BY <2>3
<1> HIDE DEF new, at, from
<1>7. new \in Seq(AddonRows)
  <2>1. \A i \in DOMAIN installed : installed[i] \in AddonRows
    BY DEF AddonLists
  <2>2. new \in [1..Len(installed) -> AddonRows]
    BY <1>1, <1>6, <2>1 DEF new, from, Reordered
  <2> QED BY <1>1, <2>2
<1>8. \A i \in DOMAIN installed : at(i) \in DOMAIN new /\ new[at(i)] = installed[i]
  BY <1>2, <1>3, <1>4
<1> QED BY <1>2, <1>7, <1>8, <1>9 DEF new

LEMMA AddonsStart == AddonsInit => AddonLists
BY DEF AddonsInit, AddonLists

\* A change keeps the list a list and on disk what it was or the list.
LEMMA ChangesKeepLists ==
    ASSUME AddonLists, NEW h, NEW list \in Seq(AddonRows), Changes(h, list)
    PROVE  AddonLists' /\ installed' = list
BY DEF AddonLists, Changes, Saved, NotSaved

\* Whoever is on the list stays there.
Stay(before, after) == \A i \in DOMAIN before : \E n \in DOMAIN after : after[n].addon = before[i].addon

LEMMA ListsKeep ==
    AddonLists /\ [AddonsNext]_addonVars =>
        /\ AddonLists'
        /\ \A a \in Addons : Has(a) /\ ~Has(a)' => AddonRestart \/ \E h \in Homes : RemoveAddon(h, a)
<1> SUFFICES ASSUME AddonLists, [AddonsNext]_addonVars
             PROVE  /\ AddonLists'
                    /\ \A a \in Addons : Has(a) /\ ~Has(a)' =>
                          AddonRestart \/ \E h \in Homes : RemoveAddon(h, a)
  OBVIOUS
<1>1. installed \in Seq(AddonRows) /\ onDisk \in Seq(AddonRows)
  BY DEF AddonLists
<1>2. Stay(installed, installed') => \A a : Has(a) => Has(a)'
  BY DEF Stay, Has, Position
<1>4. CASE UNCHANGED <<installed, onDisk>>
  BY <1>1, <1>4 DEF AddonLists, Has, Position
<1>5. CASE AddonRestart
  BY <1>1, <1>5 DEF AddonRestart, AddonLists
<1>6. ASSUME NEW h \in Homes, NEW a \in Addons, NEW c \in Configurations, InstallAddon(h, a, c)
      PROVE  AddonLists' /\ Stay(installed, installed')
  <2> DEFINE row == [addon |-> a, config |-> c, enabled |-> TRUE]
  <2>1. row \in AddonRows
    BY DEF AddonRows
  <2>2. WithAddon(a, c) \in Seq(AddonRows) /\ Stay(installed, WithAddon(a, c))
    <3>1. CASE Has(a)
      <4>1. WithAddon(a, c) = [i \in DOMAIN installed |-> IF i \in Position(a) THEN row ELSE installed[i]]
        BY <3>1 DEF WithAddon
      <4>2. WithAddon(a, c) \in [1..Len(installed) -> AddonRows]
        BY <1>1, <2>1, <4>1
      <4>3. \A i \in DOMAIN installed : WithAddon(a, c)[i].addon = installed[i].addon
        BY <4>1 DEF Position
      <4>4. WithAddon(a, c) \in Seq(AddonRows)
        BY <1>1, <4>2
      <4>5. DOMAIN WithAddon(a, c) = DOMAIN installed
        BY <4>1
      <4> QED BY <4>3, <4>4, <4>5, Zenon DEF Stay
    <3>2. CASE ~Has(a)
      <4>1. WithAddon(a, c) = Append(installed, row)
        BY <3>2 DEF WithAddon
      <4> HIDE DEF row
      <4> QED BY <1>1, <2>1, <4>1 DEF Stay
    <3> QED BY <3>1, <3>2
  <2>3. UNCHANGED <<installed, onDisk>> \/ (installed' = WithAddon(a, c) /\ onDisk' \in {onDisk, installed'})
    BY <1>6 DEF InstallAddon, Saved, NotSaved
  <2>4. Stay(installed, installed)
    BY DEF Stay
  <2> QED BY <1>1, <2>2, <2>3, <2>4 DEF AddonLists
<1>7. ASSUME NEW h \in Homes, NEW a \in Addons, NEW on \in BOOLEAN, SwitchAddon(h, a, on)
      PROVE  AddonLists' /\ Stay(installed, installed')
  <2> DEFINE new == [i \in DOMAIN installed |->
        IF i \in Position(a) THEN [installed[i] EXCEPT !.enabled = on] ELSE installed[i]]
  <2>1. \A row \in AddonRows : [row EXCEPT !.enabled = on] \in AddonRows
                               /\ [row EXCEPT !.enabled = on].addon = row.addon
    BY DEF AddonRows
  <2>2. new \in [1..Len(installed) -> AddonRows]
    BY <1>1, <2>1
  <2>3. Stay(installed, new)
    BY <1>1, <2>1 DEF Stay
  <2>4. Changes(h, new)
    BY <1>7 DEF SwitchAddon
  <2> HIDE DEF new
  <2>5. new \in Seq(AddonRows)
    BY <1>1, <2>2
  <2> QED BY <2>3, <2>4, <2>5, ChangesKeepLists
<1>8. ASSUME NEW h \in Homes, NEW a \in Addons, NEW b \in Addons, ReorderAddons(h, <<a, b>>)
      PROVE  AddonLists' /\ Stay(installed, installed')
  <2> DEFINE new == Reordered(<<a, b>>)
  <2>1. new \in Seq(AddonRows) /\ Stay(installed, new)
    <3>1. /\ new \in Seq(AddonRows)
          /\ \A i \in DOMAIN installed : \E n \in DOMAIN new : new[n] = installed[i]
      BY ReorderingKeepsRows
    <3> HIDE DEF new
    <3> QED BY <3>1 DEF Stay
  <2>2. Changes(h, new)
    BY <1>8 DEF ReorderAddons
  <2> HIDE DEF new
  <2> QED BY <2>1, <2>2, ChangesKeepLists
<1>9. ASSUME NEW h \in Homes, NEW a \in Addons, RemoveAddon(h, a)
      PROVE  AddonLists' /\ \A b : b # a /\ Has(b) => Has(b)'
  <2> DEFINE k == Place(a)
             new == Others(a)
  <2>1. k \in 1..Len(installed) /\ installed[k].addon = a
    BY <1>1, <1>9, PlaceIsThere DEF RemoveAddon
  <2>2. new = SubSeq(installed, 1, k - 1) \o SubSeq(installed, k + 1, Len(installed))
    BY DEF Others, RemoveAt
  <2> HIDE DEF k, new
  <2> DEFINE front == SubSeq(installed, 1, k - 1)
             back == SubSeq(installed, k + 1, Len(installed))
             n == Len(installed)
  <2>7. /\ front \in Seq(AddonRows) /\ Len(front) = k - 1
        /\ \A i \in 1..(k - 1) : front[i] = installed[i]
    BY <1>1, <2>1
  <2>8. /\ back \in Seq(AddonRows) /\ Len(back) = n - k
        /\ \A i \in 1..(n - k) : back[i] = installed[k + i]
    <3>1. n \in Nat /\ k \in 1..n /\ n - k = IF k + 1 <= n THEN n - (k + 1) + 1 ELSE 0
      BY <1>1, <2>1
    <3>2. \A i \in (k + 1)..n : installed[i] \in AddonRows
      BY <1>1, <3>1
    <3>3. Len(back) = n - k /\ \A i \in 1..(n - k) : back[i] = installed[k + 1 + i - 1]
      BY <1>1, <3>1
    <3>4. back \in Seq(AddonRows)
      BY <1>1, <3>1, <3>2
    <3> QED BY <3>1, <3>3, <3>4
  <2>9. new = front \o back
    BY <2>2
  <2> HIDE DEF front, back, n
  <2>3. /\ new \in Seq(AddonRows) /\ Len(new) = Len(installed) - 1
        /\ \A i \in 1..(k - 1) : new[i] = installed[i]
        /\ \A i \in (k + 1)..Len(installed) : new[i - 1] = installed[i]
    <3>5. n \in Nat /\ k \in 1..n /\ n = Len(installed)
      BY <1>1, <2>1 DEF n
    <3>0. new \in Seq(AddonRows)
      BY <2>7, <2>8, <2>9
    <3>1. new \in Seq(AddonRows) /\ Len(new) = n - 1
      <4>1. front \in Seq(AddonRows) /\ back \in Seq(AddonRows)
        BY <2>7, <2>8
      <4>2. Len(front \o back) = Len(front) + Len(back)
        BY <4>1
      <4>3. Len(new) = Len(front) + Len(back)
        BY <4>2, <2>9
      <4> QED BY <3>0, <3>5, <4>3, <2>7, <2>8
    <3>2. \A i \in 1..(k - 1) : new[i] = installed[i]
      BY <3>5, <2>7, <2>8, <2>9
    <3>3. \A i \in (k + 1)..n : new[i - 1] = back[i - k]
      BY <3>5, <2>7, <2>8, <2>9
    <3>4. \A i \in (k + 1)..n : i - k \in 1..(n - k) /\ k + (i - k) = i
      BY <3>5
    <3> QED BY <2>8, <3>5, <3>1, <3>2, <3>3, <3>4
  <2>4. ASSUME NEW b, b # a, NEW i \in DOMAIN installed, installed[i].addon = b
        PROVE  \E m \in DOMAIN new : new[m].addon = b
    <3>1. i # k
      BY <2>1, <2>4
    <3>2. CASE i < k
      BY <1>1, <2>1, <2>3, <2>4, <3>2
    <3>3. CASE i > k
      <4>1. i - 1 \in DOMAIN new /\ new[i - 1] = installed[i]
        BY <1>1, <2>1, <2>3, <3>3
      <4> QED BY <2>4, <4>1
    <3> QED BY <1>1, <2>1, <3>1, <3>2, <3>3
  <2>5. Changes(h, new)
    BY <1>9 DEF RemoveAddon, new
  <2>6. AddonLists' /\ installed' = new
    BY <2>3, <2>5, ChangesKeepLists
  <2> QED BY <2>4, <2>6 DEF Has, Position
<1>10. ASSUME NEW h \in Homes,
              \/ \E a \in Addons : Unknown(h, a) \/ AskAddon(h, a) \/ AddonAnswers(h, a)
              \/ RefuseAddon(h) \/ ReadForRegistry(h) \/ ReplaceAddons(h)
              \/ SearchAddons(h) \/ SearchAnswered(h)
       PROVE  UNCHANGED <<installed, onDisk>>
  BY <1>10 DEF Unknown, AskAddon, AddonAnswers, RefuseAddon, ReadForRegistry, ReplaceAddons,
               SearchAddons, SearchAnswered
<1>11. CASE UNCHANGED addonVars
  BY <1>4, <1>11 DEF addonVars
<1>12. ASSUME NEW h \in Homes, AddonStep(h)
       PROVE  /\ AddonLists'
              /\ \A a \in Addons : Has(a) /\ ~Has(a)' => RemoveAddon(h, a)
  <2>1. \/ \E a \in Addons, c \in Configurations : InstallAddon(h, a, c)
        \/ \E a \in Addons, on \in BOOLEAN : SwitchAddon(h, a, on)
        \/ \E a, b \in Addons : ReorderAddons(h, <<a, b>>)
        \/ \E a \in Addons : RemoveAddon(h, a)
        \/ UNCHANGED <<installed, onDisk>>
    <3> HIDE DEF AddonLists
    <3> QED BY <1>10, <1>12, Zenon DEF AddonStep
  <2>2. CASE \/ \E a \in Addons, c \in Configurations : InstallAddon(h, a, c)
             \/ \E a \in Addons, on \in BOOLEAN : SwitchAddon(h, a, on)
             \/ \E a, b \in Addons : ReorderAddons(h, <<a, b>>)
    <3>1. AddonLists' /\ Stay(installed, installed')
      BY <1>6, <1>7, <1>8, <2>2, Zenon
    <3> QED BY <1>2, <3>1
  <2>3. ASSUME NEW a \in Addons, RemoveAddon(h, a)
        PROVE  /\ AddonLists'
               /\ \A b \in Addons : Has(b) /\ ~Has(b)' => RemoveAddon(h, b)
    BY <1>9, <2>3
  <2>4. CASE UNCHANGED <<installed, onDisk>>
    BY <1>1, <2>4 DEF AddonLists, Has, Position
  <2> QED BY <2>1, <2>2, <2>3, <2>4, Zenon
<1> QED BY <1>4, <1>5, <1>11, <1>12 DEF AddonsNext

\* However many browsers install, switch, remove and reorder from lists they read earlier,
\* an addon leaves only when it is removed or the service restarts (Reorder: "a browser that
\* reorders three rows while a phone installs a fourth does not delete the fourth").
THEOREM NoAddonIsDropped == AddonsSpec => NoBrowserDropsAnothersAddon
<1>1. AddonLists /\ [AddonsNext]_addonVars =>
         AddonLists' /\ [\A a \in Addons : Has(a) /\ ~Has(a)' =>
                          AddonRestart \/ \E h \in Homes : RemoveAddon(h, a)]_addonVars
  BY ListsKeep
<1> QED BY <1>1, AddonsStart, PTL DEF AddonsSpec, NoBrowserDropsAnothersAddon

\* A roster: it fits, and no addon is on it twice.
NamedOnce(list) == \A i, j \in DOMAIN list : list[i].addon = list[j].addon => i = j
IsRoster(list) == list \in Seq(AddonRows) /\ Len(list) <= MaxInstalled /\ NamedOnce(list)

LEMMA RostersAreRosters ==
    ASSUME NEW list, IsRoster(list) PROVE list \in Rosters /\ OneRowEach(list)
<1>1. list \in Seq(AddonRows) /\ Len(list) \in Nat /\ DOMAIN list = 1..Len(list)
  BY DEF IsRoster
<1>2. list \in [1..Len(list) -> AddonRows] /\ Len(list) \in 0..MaxInstalled
  BY <1>1, AddonAssumption DEF IsRoster
<1>3. list \in Rosters
  <2>1. list \in UNION {[1..m -> AddonRows] : m \in 0..MaxInstalled}
    BY <1>2
  <2> QED BY <2>1 DEF Rosters, BoundedSeq, SeqOf, AddonRows
<1> DEFINE f == [i \in 1..Len(list) |-> list[i].addon]
<1>4. \A i, j \in 1..Len(list) : f[i] = f[j] => i = j
  BY <1>1 DEF IsRoster, NamedOnce
<1>5. Listed(list) = Values(f, Len(list))
  BY <1>1 DEF Listed, Values
<1> HIDE DEF f
<1>6. Cardinality(Values(f, Len(list))) = Len(list)
  BY <1>1, <1>4, EachCountsOnce
<1> QED BY <1>3, <1>5, <1>6 DEF OneRowEach

LEMMA EmptyIsARoster == IsRoster(<<>>) /\ Listed(<<>>) = {}
BY AddonAssumption DEF IsRoster, NamedOnce, Listed

\* Whatever rows are kept, moved or rewritten: if no two come from one, it is a roster.
LEMMA RostersAreKept ==
    ASSUME NEW list, IsRoster(list), NEW after \in Seq(AddonRows), Len(after) <= Len(list),
           NEW from, \A n \in DOMAIN after : /\ from[n] \in DOMAIN list
                                             /\ after[n].addon = list[from[n]].addon,
           \A n, m \in DOMAIN after : from[n] = from[m] => n = m
    PROVE  IsRoster(after)
<1>1. Len(after) \in Nat /\ Len(list) \in Nat /\ Len(after) <= MaxInstalled
  BY AddonAssumption DEF IsRoster
<1>2. NamedOnce(after)
  BY DEF IsRoster, NamedOnce
<1> QED BY <1>1, <1>2 DEF IsRoster

\* The rows that are kept of a roster.
LEMMA KeptRosters ==
    ASSUME NEW list, IsRoster(list), NEW places \in SUBSET DOMAIN list
    PROVE  /\ IsRoster(Kept(list, places))
           /\ \A i \in places : list[i].addon \in Listed(Kept(list, places))
<1> DEFINE kept == Kept(list, places)
           at == Ascending(places)
<1>1. list \in Seq(AddonRows)
  BY DEF IsRoster
<1>2. /\ kept \in Seq(AddonRows) /\ Len(kept) <= Len(list)
      /\ \A k \in DOMAIN kept : at[k] \in places /\ kept[k] = list[at[k]]
      /\ \A k, m \in DOMAIN kept : at[k] = at[m] => k = m
      /\ \A i \in places : \E k \in DOMAIN kept : at[k] = i
  BY <1>1, RowsAreKept
<1> HIDE DEF kept, at
<1>3. \A k \in DOMAIN kept : at[k] \in DOMAIN list /\ kept[k].addon = list[at[k]].addon
  BY <1>2
<1>4. IsRoster(kept)
  BY <1>2, <1>3, RostersAreKept
<1>5. \A i \in places : list[i].addon \in Listed(kept)
  BY <1>2 DEF Listed
<1> QED BY <1>4, <1>5 DEF kept

\* Add: a row of its own, or the row that is there.
LEMMA AddingKeepsRosters ==
    ASSUME IsRoster(installed), NEW a \in Addons, NEW c \in Configurations,
           Has(a) \/ Len(installed) < MaxInstalled
    PROVE  IsRoster(WithAddon(a, c))
<1> DEFINE row == [addon |-> a, config |-> c, enabled |-> TRUE]
<1>1. installed \in Seq(AddonRows) /\ row \in AddonRows /\ row.addon = a
  BY DEF IsRoster, AddonRows
<1>2. CASE Has(a)
  <2>1. WithAddon(a, c) = [i \in DOMAIN installed |-> IF i \in Position(a) THEN row ELSE installed[i]]
    BY <1>2 DEF WithAddon
  <2>2. WithAddon(a, c) \in [1..Len(installed) -> AddonRows]
    BY <1>1, <2>1
  <2>3. /\ WithAddon(a, c) \in Seq(AddonRows) /\ Len(WithAddon(a, c)) = Len(installed)
        /\ DOMAIN WithAddon(a, c) = DOMAIN installed
    BY <1>1, <2>2
  <2>4. \A i \in DOMAIN installed : WithAddon(a, c)[i].addon = installed[i].addon
    BY <1>1, <2>1 DEF Position
  <2> QED BY <2>3, <2>4 DEF IsRoster, NamedOnce
<1>3. CASE ~Has(a)
  <2>1. WithAddon(a, c) = Append(installed, row) /\ Len(installed) < MaxInstalled
    BY <1>3 DEF WithAddon
  <2>2. \A i \in DOMAIN installed : installed[i].addon # a
    BY <1>3 DEF Has, Position
  <2> HIDE DEF row
  <2>3. /\ WithAddon(a, c) \in Seq(AddonRows) /\ Len(WithAddon(a, c)) = Len(installed) + 1
        /\ WithAddon(a, c)[Len(installed) + 1] = row
        /\ \A i \in DOMAIN installed : WithAddon(a, c)[i] = installed[i]
        /\ \A i \in DOMAIN WithAddon(a, c) : i \in DOMAIN installed \/ i = Len(installed) + 1
    BY <1>1, <2>1
  <2>4. Len(WithAddon(a, c)) <= MaxInstalled
    BY <1>1, <2>1, <2>3, AddonAssumption
  <2>5. NamedOnce(WithAddon(a, c))
    BY <1>1, <2>2, <2>3 DEF IsRoster, NamedOnce
  <2> QED BY <2>3, <2>4, <2>5 DEF IsRoster
<1> QED BY <1>2, <1>3

LEMMA SwitchingKeepsRosters ==
    ASSUME IsRoster(installed), NEW a, NEW on \in BOOLEAN, NEW new,
           new = [i \in DOMAIN installed |->
                     IF i \in Position(a) THEN [installed[i] EXCEPT !.enabled = on] ELSE installed[i]]
    PROVE  IsRoster(new)
<1>1. installed \in Seq(AddonRows)
  BY DEF IsRoster
<1>2. \A row \in AddonRows : [row EXCEPT !.enabled = on] \in AddonRows
                             /\ [row EXCEPT !.enabled = on].addon = row.addon
  BY DEF AddonRows
<1>3. new \in [1..Len(installed) -> AddonRows]
  BY <1>1, <1>2
<1>4. new \in Seq(AddonRows) /\ Len(new) = Len(installed) /\ DOMAIN new = DOMAIN installed
  BY <1>1, <1>3
<1>5. \A i \in DOMAIN installed : new[i].addon = installed[i].addon
  BY <1>1, <1>2
<1> QED BY <1>4, <1>5 DEF IsRoster, NamedOnce

LEMMA ReorderingKeepsRosters ==
    ASSUME AddonLists, IsRoster(installed), NEW a, NEW b
    PROVE  IsRoster(Reordered(<<a, b>>))
<1> DEFINE ids == <<a, b>>
           new == Reordered(ids)
           from == [n \in DOMAIN installed |->
                       CHOOSE i \in DOMAIN installed : Cardinality(Ahead(ids, i)) = n - 1]
<1>1. DOMAIN installed = 1..Len(installed) /\ Len(installed) \in Nat
  BY DEF IsRoster
<1>2. new \in Seq(AddonRows) /\ DOMAIN new = DOMAIN installed
  BY ReorderingKeepsRows
<1>3. ASSUME NEW n \in DOMAIN installed
      PROVE  /\ from[n] \in DOMAIN installed /\ Cardinality(Ahead(ids, from[n])) = n - 1
             /\ new[n] = installed[from[n]]
  <2>1. \E i \in DOMAIN installed : Cardinality(Ahead(ids, i)) = n - 1
    BY ReorderingKeepsRows
  <2>2. from[n] = CHOOSE i \in DOMAIN installed : Cardinality(Ahead(ids, i)) = n - 1
    OBVIOUS
  <2> HIDE DEF from, ids
  <2>3. from[n] \in DOMAIN installed /\ Cardinality(Ahead(ids, from[n])) = n - 1
    BY <2>1, <2>2
  <2>4. new[n] = installed[from[n]]
    BY <2>2 DEF Reordered
  <2> QED BY <2>3, <2>4
<1> HIDE DEF new, from
<1>4. \A n, m \in DOMAIN new : from[n] = from[m] => n = m
  BY <1>1, <1>2, <1>3
<1>5. Len(new) <= Len(installed)
  BY <1>1, <1>2
<1>6. \A n \in DOMAIN new : from[n] \in DOMAIN installed /\ new[n].addon = installed[from[n]].addon
  BY <1>2, <1>3
<1>7. PICK after, origin : after = new /\ origin = from
  OBVIOUS
<1>8. /\ after \in Seq(AddonRows) /\ Len(after) <= Len(installed)
      /\ \A n \in DOMAIN after : /\ origin[n] \in DOMAIN installed
                                 /\ after[n].addon = installed[origin[n]].addon
      /\ \A n, m \in DOMAIN after : origin[n] = origin[m] => n = m
  BY <1>2, <1>4, <1>5, <1>6, <1>7
<1>9. IsRoster(after)
  BY <1>8, RostersAreKept
<1> QED BY <1>7, <1>9 DEF new

LEMMA RemovingKeepsRosters ==
    ASSUME IsRoster(installed), NEW a, Has(a)
    PROVE  IsRoster(Others(a))
<1> DEFINE k == Place(a)
           n == Len(installed)
           new == Others(a)
           front == SubSeq(installed, 1, k - 1)
           back == SubSeq(installed, k + 1, n)
           from == [m \in 1..(n - 1) |-> IF m < k THEN m ELSE m + 1]
<1>1. installed \in Seq(AddonRows) /\ n \in Nat /\ k \in 1..n
  BY PlaceIsThere DEF IsRoster
<1>2. new = front \o back
  BY DEF Others, RemoveAt
<1> HIDE DEF k, new
<1>3. front \in Seq(AddonRows) /\ Len(front) = k - 1 /\ \A i \in 1..(k - 1) : front[i] = installed[i]
  BY <1>1
<1>4. back \in Seq(AddonRows) /\ Len(back) = n - k /\ \A i \in 1..(n - k) : back[i] = installed[k + i]
  <2>1. n - k = IF k + 1 <= n THEN n - (k + 1) + 1 ELSE 0
    BY <1>1
  <2>2. \A i \in (k + 1)..n : installed[i] \in AddonRows
    BY <1>1
  <2>3. Len(back) = n - k /\ \A i \in 1..(n - k) : back[i] = installed[k + 1 + i - 1]
    BY <1>1, <2>1
  <2>4. back \in Seq(AddonRows)
    BY <1>1, <2>2
  <2> QED BY <1>1, <2>3, <2>4
<1>5. n = Len(installed)
  OBVIOUS
<1> HIDE DEF front, back, n
<1>6. new \in Seq(AddonRows) /\ Len(new) = n - 1
  <2>1. front \o back \in Seq(AddonRows) /\ Len(front \o back) = Len(front) + Len(back)
    BY <1>3, <1>4
  <2> QED BY <1>1, <1>2, <1>3, <1>4, <2>1
<1>7. \A m \in 1..(n - 1) : new[m] = installed[from[m]]
  <2> SUFFICES ASSUME NEW m \in 1..(n - 1) PROVE new[m] = installed[from[m]]
    OBVIOUS
  <2>1. CASE m < k
    BY <1>1, <1>2, <1>3, <1>4, <2>1
  <2>2. CASE ~(m < k)
    <3>1. m - (k - 1) \in 1..(n - k) /\ k + (m - (k - 1)) = m + 1 /\ m \in Nat
      BY <1>1, <2>2
    <3>2. (front \o back)[m] = IF m <= Len(front) THEN front[m] ELSE back[m - Len(front)]
      BY <1>1, <1>3, <1>4, <2>2
    <3>3. ~(m <= k - 1)
      BY <1>1, <2>2, <3>1
    <3>4. new[m] = back[m - (k - 1)]
      BY <1>2, <1>3, <3>2, <3>3
    <3> QED BY <1>4, <2>2, <3>1, <3>4
  <2> QED BY <2>1, <2>2
<1>8. \A m \in 1..(n - 1) : from[m] \in 1..n
  BY <1>1
<1>9. \A m, j \in 1..(n - 1) : from[m] = from[j] => m = j
  BY <1>1
<1> HIDE DEF from
<1>10. PICK after, origin : after = new /\ origin = from
  OBVIOUS
<1>11. /\ after \in Seq(AddonRows) /\ Len(after) <= Len(installed)
       /\ \A m \in DOMAIN after : /\ origin[m] \in DOMAIN installed
                                  /\ after[m].addon = installed[origin[m]].addon
       /\ \A m, j \in DOMAIN after : origin[m] = origin[j] => m = j
  <2>1. DOMAIN new = 1..(n - 1) /\ DOMAIN installed = 1..n /\ Len(new) <= n
    BY <1>1, <1>5, <1>6
  <2> QED BY <1>5, <1>6, <1>7, <1>8, <1>9, <1>10, <2>1
<1>12. IsRoster(after)
  BY <1>11, RostersAreKept
<1> QED BY <1>10, <1>12 DEF new

\* Who asks: the list it was given is a roster, and it hears from those that are on it.
HomeRecords == [at : {"idle", "changed", "syncing", "searching"}, list : Seq(AddonRows),
                waits : SUBSET Addons, silent : SUBSET Addons, told : {"nothing", "no", "yes"}]
HomeIsFair(r) ==
    /\ r \in HomeRecords /\ IsRoster(r.list) /\ r.waits \cap r.silent = {}
    /\ r.waits \cup r.silent \subseteq Listed(r.list)
    /\ r.at # "searching" => r.waits = {} /\ r.silent = {}
AddonShapes ==
    /\ IsRoster(installed) /\ IsRoster(onDisk) /\ IsRoster(registry)
    /\ home \in [Homes -> HomeRecords] /\ \A h \in Homes : HomeIsFair(home[h])
    /\ unsaved \in 0..MaxUnsaved

LEMMA AddonTypesFollow == AddonShapes => AddonsTypeOK
<1> SUFFICES ASSUME AddonShapes PROVE AddonsTypeOK
  OBVIOUS
<1>1. \A s \in {installed, onDisk, registry} \cup {home[h].list : h \in Homes} : IsRoster(s)
  BY DEF AddonShapes, HomeIsFair
<1>2. \A s \in {installed, onDisk, registry} \cup {home[h].list : h \in Homes} :
         s \in Rosters /\ OneRowEach(s)
  BY <1>1, RostersAreRosters
<1>3. \A h \in Homes : /\ home[h].at \in {"idle", "changed", "syncing", "searching"}
                       /\ home[h].waits \cap home[h].silent = {}
                       /\ home[h].waits \cup home[h].silent \subseteq Listed(home[h].list)
  BY DEF AddonShapes, HomeIsFair, HomeRecords
<1> QED BY <1>2, <1>3 DEF AddonsTypeOK, AddonShapes

LEMMA IdlingIsFair ==
    ASSUME NEW place \in {"idle", "changed"}, NEW told \in {"nothing", "no", "yes"}
    PROVE  /\ HomeIsFair([Idling EXCEPT !.at = place]) /\ HomeIsFair([Idling EXCEPT !.told = told])
           /\ HomeIsFair(Idling)
<1>1. /\ Idling \in HomeRecords /\ Idling.list = <<>> /\ Idling.waits = {} /\ Idling.silent = {}
      /\ Idling.at = "idle"
  BY DEF Idling, HomeRecords
<1>2. ASSUME NEW r \in HomeRecords, r.list = <<>>, r.waits = {}, r.silent = {} PROVE HomeIsFair(r)
  BY <1>2, EmptyIsARoster DEF HomeIsFair
<1>3. ASSUME NEW r, r \in {[Idling EXCEPT !.at = place], [Idling EXCEPT !.told = told], Idling}
      PROVE  r \in HomeRecords /\ r.list = <<>> /\ r.waits = {} /\ r.silent = {}
  BY <1>1, <1>3 DEF HomeRecords
<1> QED BY <1>2, <1>3

LEMMA AddonShapesStart == AddonsInit => AddonShapes
<1> SUFFICES ASSUME AddonsInit PROVE AddonShapes
  OBVIOUS
<1>1. HomeIsFair(Idling)
  BY IdlingIsFair
<1> QED BY <1>1, EmptyIsARoster, AddonAssumption DEF AddonsInit, AddonShapes, HomeIsFair

\* One browser goes on.
LEMMA OneHomeMoves ==
    ASSUME AddonShapes, NEW h \in Homes, NEW r, HomeIsFair(r), home' = [home EXCEPT ![h] = r]
    PROVE  home' \in [Homes -> HomeRecords] /\ \A g \in Homes : HomeIsFair(home'[g])
BY DEF AddonShapes, HomeIsFair

LEMMA RepliesAreFair ==
    ASSUME AddonShapes, NEW h \in Homes,
           \/ \E told \in {"nothing", "no", "yes"} : Replies(h, told)
           \/ Goes(h, "changed")
    PROVE  home' \in [Homes -> HomeRecords] /\ \A g \in Homes : HomeIsFair(home'[g])
<1>1. PICK r : HomeIsFair(r) /\ home' = [home EXCEPT ![h] = r]
  BY IdlingIsFair DEF Replies, Goes
<1> QED BY <1>1, OneHomeMoves

LEMMA ChangesKeepShapes ==
    ASSUME AddonShapes, NEW h \in Homes, NEW list, IsRoster(list), Changes(h, list)
    PROVE  AddonShapes'
<1>1. home' \in [Homes -> HomeRecords] /\ \A g \in Homes : HomeIsFair(home'[g])
  BY RepliesAreFair DEF Changes
<1>2. /\ installed' = list /\ onDisk' \in {onDisk, list} /\ registry' = registry
      /\ unsaved' \in 0..MaxUnsaved
  BY AddonAssumption DEF Changes, Saved, NotSaved, AddonShapes
<1> QED BY <1>1, <1>2 DEF AddonShapes, IsRoster

LEMMA InstallingKeepsShapes ==
    ASSUME AddonShapes, NEW h \in Homes, NEW a \in Addons, NEW c \in Configurations,
           InstallAddon(h, a, c)
    PROVE  AddonShapes'
<1>1. home' \in [Homes -> HomeRecords] /\ \A g \in Homes : HomeIsFair(home'[g])
  BY RepliesAreFair DEF InstallAddon
<1>2. registry' = registry /\ unsaved' \in 0..MaxUnsaved
  BY AddonAssumption DEF InstallAddon, Saved, NotSaved, AddonShapes
<1>3. CASE UNCHANGED <<installed, onDisk>>
  BY <1>1, <1>2, <1>3 DEF AddonShapes, IsRoster
<1>4. CASE /\ Has(a) \/ ~(Len(installed) >= MaxInstalled)
           /\ installed' = WithAddon(a, c) /\ onDisk' \in {onDisk, installed'}
  <2>1. Has(a) \/ Len(installed) < MaxInstalled
    <3>1. Len(installed) \in Nat
      BY DEF AddonShapes, IsRoster
    <3> QED BY <1>4, <3>1, AddonAssumption
  <2>2. IsRoster(WithAddon(a, c))
    BY <2>1, AddingKeepsRosters DEF AddonShapes
  <2> QED BY <1>1, <1>2, <1>4, <2>2 DEF AddonShapes, IsRoster
<1> QED BY <1>3, <1>4 DEF InstallAddon, Saved, NotSaved

LEMMA EnabledIsARoster == ASSUME NEW list, IsRoster(list) PROVE IsRoster(Enabled(list))
<1>1. TurnedOn(list) \in SUBSET DOMAIN list
  BY DEF TurnedOn
<1> QED BY <1>1, KeptRosters DEF Enabled

\* The registry is made to match, and everybody is queried.
LEMMA QuestionsKeepShapes ==
    ASSUME AddonShapes, NEW h \in Homes,
           \/ ReadForRegistry(h) \/ ReplaceAddons(h) \/ SearchAddons(h)
           \/ \E a \in Addons : AddonAnswers(h, a)
    PROVE  AddonShapes'
<1>1. HomeIsFair(home[h]) /\ home[h] \in HomeRecords
  BY DEF AddonShapes
<1>2. UNCHANGED <<installed, onDisk, unsaved>>
  BY DEF ReadForRegistry, ReplaceAddons, SearchAddons, AddonAnswers
<1>3. CASE ReadForRegistry(h)
  <2> DEFINE list == Enabled(installed)
             r == [home[h] EXCEPT !.at = "syncing", !.list = list]
  <2>1. IsRoster(list) /\ list \in Seq(AddonRows)
    BY EnabledIsARoster DEF AddonShapes, IsRoster
  <2>2. home' = [home EXCEPT ![h] = r] /\ registry' = registry
    BY <1>3 DEF ReadForRegistry, AddonShapes
  <2>3. home[h].waits = {} /\ home[h].silent = {}
    BY <1>1, <1>3 DEF ReadForRegistry, HomeIsFair
  <2> HIDE DEF list
  <2>4. HomeIsFair(r)
    BY <1>1, <2>1, <2>3 DEF HomeIsFair, HomeRecords
  <2>5. home' \in [Homes -> HomeRecords] /\ \A g \in Homes : HomeIsFair(home'[g])
    BY <2>2, <2>4, OneHomeMoves
  <2> QED BY <1>2, <2>2, <2>5 DEF AddonShapes, IsRoster
<1>4. CASE ReplaceAddons(h)
  <2>1. home' \in [Homes -> HomeRecords] /\ \A g \in Homes : HomeIsFair(home'[g])
    BY <1>4, RepliesAreFair DEF ReplaceAddons
  <2>2. registry' = home[h].list
    BY <1>4 DEF ReplaceAddons
  <2> QED BY <1>1, <1>2, <2>1, <2>2 DEF AddonShapes, HomeIsFair, IsRoster
<1>5. CASE SearchAddons(h)
  <2> DEFINE able == {i \in TurnedOn(installed) : installed[i].addon \in Searchable}
             list == Kept(installed, able)
             queried == {installed[i].addon : i \in able}
             r == [Idling EXCEPT !.at = "searching", !.list = list, !.waits = queried]
  <2>1. able \in SUBSET DOMAIN installed /\ IsRoster(installed)
    BY DEF TurnedOn, AddonShapes
  <2>2. home' = [home EXCEPT ![h] = r] /\ registry' = registry
    BY <1>5 DEF SearchAddons
  <2>3. queried \subseteq Addons
    <3>1. \A i \in DOMAIN installed : installed[i] \in AddonRows
      BY <2>1 DEF IsRoster
    <3>2. \A i \in able : installed[i].addon \in Addons
      BY <2>1, <3>1 DEF AddonRows
    <3> HIDE DEF able
    <3> QED BY <3>2
  <2> HIDE DEF able
  <2>4. IsRoster(list) /\ \A i \in able : installed[i].addon \in Listed(list)
    BY <2>1, KeptRosters
  <2>5. queried \subseteq Listed(list)
    BY <2>4
  <2>6. list \in Seq(AddonRows)
    BY <2>4 DEF IsRoster
  <2> HIDE DEF list, queried
  <2>7. HomeIsFair(r)
    BY <2>3, <2>4, <2>5, <2>6 DEF HomeIsFair, HomeRecords, Idling
  <2>8. home' \in [Homes -> HomeRecords] /\ \A g \in Homes : HomeIsFair(home'[g])
    BY <2>2, <2>7, OneHomeMoves
  <2> QED BY <1>2, <2>2, <2>8 DEF AddonShapes, IsRoster
<1>6. ASSUME NEW a \in Addons, AddonAnswers(h, a) PROVE AddonShapes'
  <2>1. PICK r : /\ \/ r = [home[h] EXCEPT !.waits = @ \ {a}]
                    \/ r = [home[h] EXCEPT !.waits = @ \ {a}, !.silent = @ \cup {a}]
                 /\ home' = [home EXCEPT ![h] = r]
    BY <1>6 DEF AddonAnswers, Silent, AddonShapes
  <2>2. a \in home[h].waits /\ registry' = registry /\ home[h].at = "searching"
    BY <1>6 DEF AddonAnswers
  <2>3. HomeIsFair(r)
    <3>1. /\ r.at = "searching" /\ r.list = home[h].list /\ r.waits = home[h].waits \ {a}
          /\ r.silent \in {home[h].silent, home[h].silent \cup {a}}
      BY <1>1, <2>1, <2>2 DEF HomeRecords
    <3>2. r \in HomeRecords
      <4>1. home[h].waits \ {a} \in SUBSET Addons /\ home[h].silent \cup {a} \in SUBSET Addons
        BY <1>1 DEF HomeRecords
      <4>2. CASE r = [home[h] EXCEPT !.waits = @ \ {a}]
        BY <1>1, <4>1, <4>2 DEF HomeRecords
      <4>3. CASE r = [home[h] EXCEPT !.waits = @ \ {a}, !.silent = @ \cup {a}]
        <5> DEFINE left == home[h].waits \ {a}
                   mute == home[h].silent \cup {a}
        <5>1. r = [[home[h] EXCEPT !.waits = left] EXCEPT !.silent = mute]
          BY <1>1, <4>3 DEF HomeRecords
        <5>2. left \in SUBSET Addons /\ mute \in SUBSET Addons
          BY <4>1
        <5> HIDE DEF left, mute
        <5>3. [home[h] EXCEPT !.waits = left] \in HomeRecords
          BY <1>1, <5>2 DEF HomeRecords
        <5> QED BY <5>1, <5>2, <5>3 DEF HomeRecords
      <4> QED BY <2>1, <4>2, <4>3
    <3>3. a \notin r.waits /\ r.waits \cap r.silent = {}
      BY <1>1, <3>1 DEF HomeIsFair
    <3>4. r.waits \cup r.silent \subseteq Listed(r.list)
      BY <1>1, <2>2, <3>1 DEF HomeIsFair
    <3> QED BY <1>1, <3>1, <3>2, <3>3, <3>4 DEF HomeIsFair
  <2>4. home' \in [Homes -> HomeRecords] /\ \A g \in Homes : HomeIsFair(home'[g])
    BY <2>1, <2>3, OneHomeMoves
  <2> QED BY <1>2, <2>2, <2>4 DEF AddonShapes, IsRoster
<1> QED BY <1>3, <1>4, <1>5, <1>6

LEMMA AddonShapesStay == AddonShapes /\ [AddonsNext]_addonVars => AddonShapes'
<1> SUFFICES ASSUME AddonShapes, [AddonsNext]_addonVars PROVE AddonShapes'
  OBVIOUS
<1>1. CASE UNCHANGED addonVars
  BY <1>1 DEF addonVars, AddonShapes, IsRoster
<1>2. CASE AddonRestart
  <2>1. IsRoster(Enabled(onDisk)) /\ HomeIsFair(Idling)
    BY EnabledIsARoster, IdlingIsFair DEF AddonShapes
  <2>2. home' \in [Homes -> HomeRecords] /\ \A h \in Homes : HomeIsFair(home'[h])
    BY <1>2, <2>1 DEF AddonRestart, HomeIsFair
  <2>3. installed' = onDisk /\ registry' = Enabled(onDisk) /\ UNCHANGED <<onDisk, unsaved>>
    BY <1>2 DEF AddonRestart
  <2> QED BY <2>1, <2>2, <2>3 DEF AddonShapes, IsRoster
<1>3. ASSUME NEW h \in Homes, NEW a \in Addons, NEW c \in Configurations, InstallAddon(h, a, c)
      PROVE  AddonShapes'
  BY <1>3, InstallingKeepsShapes
<1>4. ASSUME NEW h \in Homes, NEW a \in Addons, RemoveAddon(h, a) PROVE AddonShapes'
  <2>1. IsRoster(Others(a)) /\ Changes(h, Others(a))
    BY <1>4, RemovingKeepsRosters DEF RemoveAddon, AddonShapes
  <2> QED BY <2>1, ChangesKeepShapes
<1>5. ASSUME NEW h \in Homes, NEW a \in Addons, NEW on \in BOOLEAN, SwitchAddon(h, a, on)
      PROVE  AddonShapes'
  <2>1. PICK new : /\ new = [i \in DOMAIN installed |->
                                IF i \in Position(a) THEN [installed[i] EXCEPT !.enabled = on]
                                ELSE installed[i]]
                   /\ Changes(h, new)
    BY <1>5 DEF SwitchAddon
  <2>2. IsRoster(new)
    BY <2>1, SwitchingKeepsRosters DEF AddonShapes
  <2> QED BY <2>1, <2>2, ChangesKeepShapes
<1>6. ASSUME NEW h \in Homes, NEW a \in Addons, NEW b \in Addons, ReorderAddons(h, <<a, b>>)
      PROVE  AddonShapes'
  <2>1. AddonLists /\ IsRoster(installed)
    BY DEF AddonLists, AddonShapes, IsRoster
  <2>2. PICK new : new = Reordered(<<a, b>>)
    OBVIOUS
  <2>3. IsRoster(new) /\ Changes(h, new)
    BY <1>6, <2>1, <2>2, ReorderingKeepsRosters DEF ReorderAddons
  <2> QED BY <2>3, ChangesKeepShapes
<1>7. ASSUME NEW h \in Homes,
             \/ RefuseAddon(h) \/ SearchAnswered(h)
             \/ \E a \in Addons : Unknown(h, a) \/ AskAddon(h, a)
      PROVE  AddonShapes'
  <2>1. /\ Replies(h, "no") \/ Replies(h, "yes")
        /\ UNCHANGED <<installed, onDisk, registry, unsaved>>
    BY <1>7 DEF RefuseAddon, SearchAnswered, Unknown, AskAddon
  <2>2. home' \in [Homes -> HomeRecords] /\ \A g \in Homes : HomeIsFair(home'[g])
    BY <2>1, RepliesAreFair
  <2> QED BY <2>1, <2>2 DEF AddonShapes, IsRoster
<1>8. ASSUME NEW h \in Homes, AddonStep(h) PROVE AddonShapes'
  BY <1>3, <1>4, <1>5, <1>6, <1>7, <1>8, QuestionsKeepShapes, Zenon DEF AddonStep
<1> QED BY <1>1, <1>2, <1>8 DEF AddonsNext

\* The types, and no addon is listed, saved, registered or queried twice, whoever installs,
\* reorders and restarts (addonStore.Add, ReplaceAddons).
THEOREM AddonsAreTyped == AddonsSpec => []AddonsTypeOK
<1> QED BY AddonShapesStart, AddonShapesStay, AddonTypesFollow, PTL DEF AddonsSpec

-----------------------------------------------------------------------------
(* The types of the other desks, their counters and outages among them.    *)

ShowShapes ==
    /\ show \in ShowRecords
    /\ {searching, asked} \subseteq SUBSET Episodes
    /\ request \in [Viewers -> Requests]

LEMMA ActsAreShaped ==
    ASSUME request \in [Viewers -> Requests], NEW v \in Viewers,
           \/ \E said \in {"accepted", "refused", "failed"} : Answer(v, said)
           \/ \E at \in {"add", "search"} : Continue(v, at)
           \/ \E row \in Rows : Act(v, row)
    PROVE  request' \in [Viewers -> Requests]
<1>1. request[v] \in Requests
  OBVIOUS
<1>2. ASSUME NEW said \in {"accepted", "refused", "failed"}, Answer(v, said)
      PROVE  request' \in [Viewers -> Requests]
  <2>1. [request[v] EXCEPT !.at = "none", !.said = said] \in Requests
    BY <1>1 DEF Requests, Places
  <2>2. [request[v] EXCEPT !.at = "none", !.said = said]
          = [[request[v] EXCEPT !.at = "none"] EXCEPT !.said = said]
    BY <1>1 DEF Requests
  <2> QED BY <1>2, <2>1 DEF Answer
<1>3. ASSUME NEW at \in {"add", "search"}, Continue(v, at) PROVE request' \in [Viewers -> Requests]
  <2>1. [request[v] EXCEPT !.at = at] \in Requests
    BY <1>1 DEF Requests, Places
  <2> QED BY <1>3, <2>1 DEF Continue
<1>4. ASSUME NEW row \in Rows, Act(v, row) PROVE request' \in [Viewers -> Requests]
  <2>1. [request[v] EXCEPT !.at = "none", !.said = "accepted"] \in Requests
    BY <1>1 DEF Requests, Places
  <2>2. Depth(request[v].part) \in Places
    BY DEF Depth, Places
  <2>3. [request[v] EXCEPT !.at = Depth(request[v].part), !.row = row] \in Requests
    BY <1>1, <2>2 DEF Requests
  <2> QED BY <1>4, <2>1, <2>3 DEF Act
<1> QED BY <1>2, <1>3, <1>4

LEMMA PutRowsAreShaped ==
    ASSUME show \in ShowRecords, NEW row \in Rows, PutRow(row)
    PROVE  show' \in ShowRecords
<1> DEFINE on == {e \in show.listed :
            IF (e[1] \in row.seasons) = (e[1] \in show.row.seasons)
            THEN e \in show.monitored ELSE e[1] \in row.seasons}
<1>1. on \in SUBSET Episodes
  BY DEF ShowRecords
<1>2. show' = [show EXCEPT !.row = row, !.monitored = on]
  BY DEF PutRow
<1> HIDE DEF on
<1> QED BY <1>1, <1>2 DEF ShowRecords

LEMMA RowsPutAreRows ==
    ASSUME NEW r \in Requests
    PROVE  /\ SwitchedOn(r) \in Rows
           /\ \A on \in BOOLEAN, all \in BOOLEAN : Row(TRUE, on, IF all THEN Seasons ELSE {}) \in Rows
<1>1. r.part \in Parts /\ r.row \in Rows /\ r.row.seasons \in SUBSET Seasons
  BY DEF Requests, Rows
<1>2. CASE r.part.type = "season"
  <2>1. r.row.seasons \cup {r.part.season} \in SUBSET Seasons
    BY <1>1, <1>2, PartFacts
  <2> QED BY <1>2, <2>1, RowIsARow DEF SwitchedOn
<1>3. CASE r.part.type # "season"
  BY <1>1, <1>3, RowIsARow DEF SwitchedOn
<1>4. ASSUME NEW on \in BOOLEAN, NEW all \in BOOLEAN
      PROVE  Row(TRUE, on, IF all THEN Seasons ELSE {}) \in Rows
  BY RowIsARow
<1> QED BY <1>2, <1>3, <1>4

\* One step of a request, which may fail.
LEMMA RequestsAreShaped ==
    ASSUME ShowShapes, NEW v \in Viewers,
           RequestStep(v) \/ CallFails(v) \/ AnswerLost(v)
    PROVE  ShowShapes'
<1>1. request[v] \in Requests /\ request[v].monitor \in BOOLEAN /\ request[v].part \in Parts
  BY DEF ShowShapes, Requests
<1>2. /\ SwitchedOn(request[v]) \in Rows /\ WholeShow(request[v]) \in BOOLEAN
      /\ Row(TRUE, request[v].monitor, IF WholeShow(request[v]) THEN Seasons ELSE {}) \in Rows
      /\ show.row \in Rows
  BY <1>1, RowsPutAreRows DEF ShowShapes, ShowRecords, WholeShow
<1>3. EpisodesOf(request[v].part) \subseteq Episodes /\ show.monitored \subseteq Episodes
  BY <1>1, PartFacts DEF ShowShapes, ShowRecords
<1>4. \A row \in Rows : [show EXCEPT !.row = row] \in ShowRecords
  BY DEF ShowShapes, ShowRecords
<1>5. UNCHANGED asked
  BY DEF RequestStep, CallFails, AnswerLost, Find, AddSeries, AddedAlready, MonitorRow,
         MonitorEpisode, Search
<1>6. request' \in [Viewers -> Requests]
  <2>1. \/ \E said \in {"accepted", "refused", "failed"} : Answer(v, said)
        \/ \E at \in {"add", "search"} : Continue(v, at)
        \/ \E row \in Rows : Act(v, row)
    BY <1>2 DEF RequestStep, CallFails, AnswerLost, Find, AddSeries, AddedAlready,
                MonitorRow, MonitorEpisode, Search
  <2> QED BY <2>1, ActsAreShaped DEF ShowShapes
<1>7. searching' \in SUBSET Episodes
  <2>1. searching \in SUBSET Episodes
    BY DEF ShowShapes
  <2> QED BY <1>3, <2>1 DEF RequestStep, CallFails, AnswerLost, Find, AddSeries,
                AddedAlready, MonitorRow, MonitorEpisode, Search
<1>8. show' \in ShowRecords
  <2>1. show \in ShowRecords
    BY DEF ShowShapes
  <2>2. CASE AddSeries(v)
    BY <1>2, <1>4, <2>2 DEF AddSeries
  <2>3. CASE MonitorRow(v)
    BY <1>2, <2>1, <2>3, PutRowsAreShaped DEF MonitorRow
  <2>4. CASE MonitorEpisode(v)
    <3>1. [show EXCEPT !.monitored = @ \cup EpisodesOf(request[v].part)] \in ShowRecords
      BY <1>3, <2>1 DEF ShowRecords
    <3> QED BY <2>1, <2>4, <3>1 DEF MonitorEpisode
  <2>5. CASE AnswerLost(v)
    BY <1>2, <1>4, <2>1, <2>5, PutRowsAreShaped DEF AnswerLost
  <2>6. CASE Find(v) \/ AddedAlready(v) \/ Search(v) \/ CallFails(v)
    BY <2>1, <2>6 DEF Find, AddedAlready, Search, CallFails
  <2> QED BY <2>2, <2>3, <2>4, <2>5, <2>6 DEF RequestStep
<1> QED BY <1>5, <1>6, <1>7, <1>8 DEF ShowShapes

LEMMA ShowShapesStay == ShowShapes /\ [ShowNext]_showVars => ShowShapes'
<1> SUFFICES ASSUME ShowShapes, [ShowNext]_showVars PROVE ShowShapes'
  OBVIOUS
<1>1. ASSUME NEW v \in Viewers, NEW part \in Parts, NEW monitor \in BOOLEAN, Ask(v, part, monitor)
      PROVE  ShowShapes'
  <2>1. [NoRequest EXCEPT !.at = "find", !.part = part, !.monitor = monitor] \in Requests
    BY DEF NoRequest, NoPart, NoRow, Row, Requests, Places, Rows
  <2>2. EpisodesOf(part) \subseteq Episodes
    BY PartFacts
  <2>3. request' \in [Viewers -> Requests]
    BY <1>1, <2>1 DEF Ask, ShowShapes
  <2> QED BY <1>1, <2>2, <2>3 DEF Ask, ShowShapes
<1>2. CASE EpisodesListed
  <2> DEFINE on == {e \in Episodes : e[1] \in show.row.seasons}
  <2>1. on \in SUBSET Episodes /\ Episodes \in SUBSET Episodes
    OBVIOUS
  <2>2. show' = [show EXCEPT !.listed = Episodes, !.monitored = on]
    BY <1>2 DEF EpisodesListed
  <2> HIDE DEF on
  <2>3. show' \in ShowRecords
    BY <2>1, <2>2 DEF ShowShapes, ShowRecords
  <2> QED BY <1>2, <2>3 DEF EpisodesListed, ShowShapes
<1>3. ASSUME NEW e \in Episodes, Downloaded(e) PROVE ShowShapes'
  <2>1. show' \in ShowRecords
    BY <1>3 DEF Downloaded, ShowShapes, ShowRecords
  <2> QED BY <1>3, <2>1 DEF Downloaded, ShowShapes
<1>4. CASE UNCHANGED showVars
  BY <1>4 DEF showVars, ShowShapes
<1> QED BY <1>1, <1>2, <1>3, <1>4, RequestsAreShaped DEF ShowNext

\* What the bounds count: calls that failed, and requests that were started.
ShowCounts == failed \in 0..MaxFailures /\ asks \in [Viewers -> 0..MaxAsks]

LEMMA ShowCountsStay == ShowCounts /\ [ShowNext]_showVars => ShowCounts'
<1> SUFFICES ASSUME ShowCounts, [ShowNext]_showVars PROVE ShowCounts'
  OBVIOUS
<1>1. MaxFailures \in Nat /\ MaxAsks \in Nat
  BY ShowAssumption
<1>2. ASSUME NEW v \in Viewers, NEW part \in Parts, NEW monitor \in BOOLEAN, Ask(v, part, monitor)
      PROVE  ShowCounts'
  <2>1. asks[v] \in 0..MaxAsks
    BY DEF ShowCounts
  <2>2. asks' = asks \/ (asks[v] < MaxAsks /\ asks' = [asks EXCEPT ![v] = @ + 1])
    BY <1>2 DEF Ask
  <2>3. asks[v] < MaxAsks => asks[v] + 1 \in 0..MaxAsks
    BY <1>1, <2>1
  <2>4. asks' \in [Viewers -> 0..MaxAsks] /\ failed' = failed
    BY <1>2, <2>2, <2>3 DEF ShowCounts, Ask
  <2> QED BY <2>4 DEF ShowCounts
<1>3. ASSUME NEW v \in Viewers, CallFails(v) \/ AnswerLost(v) PROVE ShowCounts'
  <2>1. failed < MaxFailures /\ failed' = failed + 1 /\ asks' = asks
    BY <1>3 DEF CallFails, AnswerLost
  <2> QED BY <1>1, <2>1 DEF ShowCounts
<1>4. ASSUME NEW v \in Viewers, RequestStep(v) PROVE UNCHANGED <<failed, asks>>
  BY <1>4 DEF RequestStep, Find, AddSeries, AddedAlready, MonitorRow, MonitorEpisode, Search
<1>5. CASE EpisodesListed \/ (\E e \in Episodes : Downloaded(e)) \/ UNCHANGED showVars
  BY <1>5 DEF EpisodesListed, Downloaded, showVars, ShowCounts
<1> QED BY <1>2, <1>3, <1>4, <1>5 DEF ShowNext, ShowCounts

\* Which services answer, and how often that changed.
FilmServices == answers \in [Instances -> SUBSET Endpoints] /\ outages \in 0..MaxOutages

LEMMA FilmServicesStay == FilmServices /\ [FilmNext]_filmVars => FilmServices'
<1> SUFFICES ASSUME FilmServices, [FilmNext]_filmVars PROVE FilmServices'
  OBVIOUS
<1>1. ASSUME NEW i \in Instances, Outage(i) PROVE FilmServices'
  <2>1. outages < MaxOutages /\ outages' = outages + 1 /\ MaxOutages \in Nat
    BY <1>1, FilmAssumption DEF Outage
  <2>2. answers' \in [Instances -> SUBSET Endpoints]
    BY <1>1 DEF Outage, FilmServices
  <2> QED BY <2>1, <2>2 DEF FilmServices
<1>2. CASE UNCHANGED filmVars
  BY <1>2 DEF filmVars, FilmServices
<1>3. CASE \/ DeskStep \/ \E a \in Askers : AskStatus(a)
           \/ \E r \in Requesters, named \in Instances \cup {0}, monitor \in BOOLEAN :
                 WishFor(r, named, monitor)
           \/ \E i \in Instances : Downloads(i) \/ DownloadFails(i) \/ Removed(i)
  <2>1. UNCHANGED <<answers, outages>>
    BY <1>3 DEF DeskStep, StatusAnswered, ReadMovie, AskFailed, ReadQueue, FindFilm, AddFilm,
                MonitorFilm, SearchFilm, RequestFails, AskStatus, WishFor, Downloads,
                DownloadFails, Removed
  <2> QED BY <2>1 DEF FilmServices
<1> QED BY <1>1, <1>2, <1>3 DEF FilmNext

-----------------------------------------------------------------------------
DesksInvariant ==
    ShowShapes /\ ShowCounts /\ Followed /\ FilmServices /\ Modest /\ AddonShapes

\* Whichever desk is open, and whatever its requests met: every variable of the four
\* has its type, and no addon is listed twice.
THEOREM DesksAreTyped == DesksSpec => []DesksTypeOK
<1>1. DesksInit => DesksInvariant
  <2> SUFFICES ASSUME DesksInit PROVE DesksInvariant
    OBVIOUS
  <2>1. ShowShapes
    <3>1. NoRequest \in Requests /\ NoRow \in Rows
      BY DEF NoRequest, NoPart, NoRow, Row, Requests, Places, Rows, Parts
    <3> QED BY <3>1 DEF DesksInit, ShowInit, ShowShapes, ShowRecords
  <2>2. ShowCounts /\ FilmServices
    BY ShowAssumption, FilmAssumption DEF DesksInit, ShowInit, FilmInit, ShowCounts, FilmServices
  <2> QED BY <2>1, <2>2, FollowedInitially, ModestInitially, AddonShapesStart
          DEF DesksInit, DesksInvariant
<1>2. DesksInvariant /\ [DesksNext]_deskVars => DesksInvariant'
  <2> SUFFICES ASSUME DesksInvariant, [DesksNext]_deskVars PROVE DesksInvariant'
    OBVIOUS
  <2>1. /\ [ShowNext]_showVars /\ [FilmNext]_filmVars
        /\ [AlbumsNext]_albumVars /\ [AddonsNext]_addonVars
    BY DEF DesksNext, ShowsOpen, FilmsOpen, AlbumsOpen, AddonsOpen, deskVars
  <2> QED BY <2>1, ShowShapesStay, ShowCountsStay, FollowedStays, FilmServicesStay,
             ModestStays, AddonShapesStay DEF DesksInvariant
<1>3. DesksInvariant => DesksTypeOK
  <2> SUFFICES ASSUME DesksInvariant PROVE DesksTypeOK
    OBVIOUS
  <2>1. ShowTypeOK
    BY DEF DesksInvariant, ShowShapes, ShowCounts, ShowTypeOK, ShowRecords, Requests
  <2>2. FilmTypeOK
    BY DEF DesksInvariant, Followed, FilmServices, FilmTypeOK, Wishes, Questions
  <2>3. AlbumsTypeOK
    BY DEF DesksInvariant, Modest, AlbumsTypeOK, AlbumStates, Errands
  <2> QED BY <2>1, <2>2, <2>3, AddonTypesFollow DEF DesksInvariant, DesksTypeOK
<1> QED BY <1>1, <1>2, <1>3, PTL DEF DesksSpec
=============================================================================
