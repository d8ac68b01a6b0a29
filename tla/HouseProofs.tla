----------------------------- MODULE HouseProofs -----------------------------
(***************************************************************************)
(* The games catalogue, the tuner, the game desk, the health of the        *)
(* services, the media shelf and the lineup of a channel, for any          *)
(* catalogues, programmes, recordings, viewers, games, requests, outages,  *)
(* libraries and rules: what worked stays, a viewer is told how her        *)
(* programme really went, the ledger of game requests says what the shelf  *)
(* and the queue say, the screens say what is so, a pool that was read is  *)
(* the library, and a show's episodes come in order.                       *)
(***************************************************************************)
EXTENDS MCHouse, LineProofs

-----------------------------------------------------------------------------
(* The games catalogues.                                                   *)

\* The server's copy has nothing the files lack, a vault being written nothing less than the
\* file, and a set goes from the other file only if its collection was on the last walk.
FilesOnlyGain(games, held, sets, next, snap) ==
    /\ games \in [VaultGames -> VaultEntries] /\ held \in [VaultGames -> VaultEntries]
    /\ sets \subseteq Sets /\ \A s \in sets : CollectionOf[s] \in Known
    /\ \A g \in VaultGames : AtLeast(held[g], games[g])
    /\ next.of \in {"none", "vault", "sets"} /\ (next.of = "none" => next = NothingUnfinished)
    /\ next.of = "vault" =>
         /\ next.is \in [VaultGames -> VaultEntries]
         /\ \A g \in VaultGames : AtLeast(next.is[g], held[g])
    /\ next.of = "sets" =>
         /\ next.is \subseteq Sets /\ \A s \in next.is : CollectionOf[s] \in Known
         /\ \A s \in sets \ next.is : CollectionOf[s] \in Collections(snap.browse)
SnapshotRecords == {NoWalk, HalfWalk} \cup [seen : {"all"}, browse : SUBSET Sets,
                                            sized : SUBSET Sets, agree : BOOLEAN]
ImportsInvariant ==
    /\ FilesOnlyGain(onSale.games, vault, torrents, unfinished, snapshot)
    /\ snapshot \in SnapshotRecords
    /\ snapshot.seen = "all" => snapshot.sized \subseteq snapshot.browse
    /\ onSale.sets \subseteq Sets /\ imports \in 0..MaxImports

\* A row only ever adds to an entry (vimm_import.go).
LEMMA RowsOnlyAdd ==
    ASSUME NEW old \in VaultEntries, NEW row \in ExportRows
    PROVE  Imported(old, row) \in VaultEntries /\ AtLeast(Imported(old, row), old)
<1>1. AtLeast(old, old)
  BY DEF AtLeast
<1> DEFINE n == WithRow(old, row)
<1>2. n \in VaultEntries /\ AtLeast(n, old)
  <2>1. CASE old = Absent
    BY <2>1 DEF WithRow, VaultEntries, ExportRows, Absent, AtLeast
  <2>2. CASE old # Absent
    BY <2>2 DEF WithRow, VaultEntries, ExportRows, AtLeast
  <2> QED BY <2>1, <2>2
<1> QED BY <1>1, <1>2 DEF Imported

LEMMA AtLeastIsTransitive ==
    ASSUME NEW a, NEW b, NEW c, AtLeast(a, b), AtLeast(b, c)
    PROVE  AtLeast(a, c)
BY DEF AtLeast

\* An import of the sets keeps what the walk did not see (minerva_import.go).
LEMMA SetsAreCarried ==
    ASSUME snapshot \in SnapshotRecords, snapshot.seen = "all",
           torrents \subseteq Sets, \A s \in torrents : CollectionOf[s] \in Known,
           snapshot.sized \subseteq snapshot.browse,
           Collections(snapshot.browse) \subseteq Known,
           NEW sets, sets = Reduced(snapshot) \cup Carried(snapshot)
    PROVE  /\ sets \subseteq Sets /\ \A s \in sets : CollectionOf[s] \in Known
           /\ \A s \in torrents \ sets : CollectionOf[s] \in Collections(snapshot.browse)
BY DEF SnapshotRecords, NoWalk, HalfWalk, Reduced, Carried, Collections

LEMMA ImportsStart == ImportsInit => ImportsInvariant
<1> SUFFICES ASSUME ImportsInit PROVE ImportsInvariant
  OBVIOUS
<1>1. vault = [g \in VaultGames |-> Absent] /\ vault \in [VaultGames -> VaultEntries]
  BY DEF ImportsInit, VaultEntries
<1>2. onSale.games = vault /\ onSale.sets = {} /\ torrents = {} /\ snapshot = NoWalk
      /\ unfinished = NothingUnfinished /\ imports = 0
  BY DEF ImportsInit
<1>3. unfinished.of = "none" /\ snapshot.seen = "nothing" /\ snapshot \in SnapshotRecords
  BY <1>2 DEF NothingUnfinished, NoWalk, SnapshotRecords
<1>4. FilesOnlyGain(onSale.games, vault, torrents, unfinished, snapshot)
  BY <1>1, <1>2, <1>3 DEF FilesOnlyGain, AtLeast
<1> QED BY <1>2, <1>3, <1>4, ImportsAssumption DEF ImportsInvariant

\* A vault that is being imported.
LEMMA VaultImported ==
    ASSUME NEW held \in [VaultGames -> VaultEntries], NEW export \in [VaultGames -> ExportRows],
           NEW next, next = [g \in VaultGames |-> Imported(held[g], export[g])]
    PROVE  next \in [VaultGames -> VaultEntries] /\ \A g \in VaultGames : AtLeast(next[g], held[g])
<1>1. \A g \in VaultGames : Imported(held[g], export[g]) \in VaultEntries
                           /\ AtLeast(Imported(held[g], export[g]), held[g])
  BY RowsOnlyAdd
<1> QED BY <1>1

LEMMA ImportsStay == ImportsInvariant /\ [ImportsNext]_importVars => ImportsInvariant'
<1> SUFFICES ASSUME ImportsInvariant, [ImportsNext]_importVars PROVE ImportsInvariant'
  OBVIOUS
<1>0. /\ FilesOnlyGain(onSale.games, vault, torrents, unfinished, snapshot)
      /\ snapshot \in SnapshotRecords /\ onSale.sets \subseteq Sets /\ imports \in 0..MaxImports
      /\ snapshot.seen = "all" => snapshot.sized \subseteq snapshot.browse
      /\ vault \in [VaultGames -> VaultEntries] /\ torrents \subseteq Sets
      /\ \A s \in torrents : CollectionOf[s] \in Known
  BY DEF ImportsInvariant, FilesOnlyGain
<1>1. ASSUME NEW export \in [VaultGames -> ExportRows], ImportVault(export)
      PROVE  ImportsInvariant'
  <2>1. unfinished'.of = "vault" /\ unfinished'.is = [g \in VaultGames |-> Imported(vault[g], export[g])]
    BY <1>1 DEF ImportVault
  <2>2. /\ unfinished'.is \in [VaultGames -> VaultEntries]
        /\ \A g \in VaultGames : AtLeast(unfinished'.is[g], vault[g])
    BY <1>0, <2>1, VaultImported
  <2>3. imports' \in 0..MaxImports /\ UNCHANGED <<vault, torrents, snapshot, onSale>>
    BY <1>0, <1>1, ImportsAssumption DEF ImportVault
  <2>4. FilesOnlyGain(onSale.games, vault, torrents, unfinished', snapshot)
    BY <1>0, <2>1, <2>2 DEF FilesOnlyGain
  <2> QED BY <1>0, <2>3, <2>4 DEF ImportsInvariant
<1>2. ASSUME NEW walk \in Walks, Fetch(walk) PROVE ImportsInvariant'
  <2>1. unfinished = NothingUnfinished /\ UNCHANGED <<vault, torrents, unfinished, onSale>>
        /\ imports' \in 0..MaxImports
    BY <1>0, <1>2, ImportsAssumption DEF Fetch
  <2>2. snapshot' \in SnapshotRecords
        /\ (snapshot'.seen = "all" => snapshot'.sized \subseteq snapshot'.browse)
    BY <1>2 DEF Fetch, SnapshotRecords, HalfWalk, Walks
  <2>3. FilesOnlyGain(onSale.games, vault, torrents, unfinished, snapshot')
    BY <1>0, <2>1 DEF FilesOnlyGain, NothingUnfinished
  <2> QED BY <1>0, <2>1, <2>2, <2>3 DEF ImportsInvariant
<1>3. ASSUME NEW force \in BOOLEAN, ImportSets(force) PROVE ImportsInvariant'
  <2>1. PICK sets : /\ sets = Reduced(snapshot) \cup Carried(snapshot)
                    /\ unfinished' = [of |-> "sets", is |-> sets]
    BY <1>3 DEF ImportSets
  <2>2. snapshot.seen = "all" /\ Collections(snapshot.browse) \subseteq Known
        /\ UNCHANGED <<vault, torrents, snapshot, onSale>> /\ imports' \in 0..MaxImports
    BY <1>0, <1>3, ImportsAssumption DEF ImportSets
  <2>3. /\ sets \subseteq Sets /\ \A s \in sets : CollectionOf[s] \in Known
        /\ \A s \in torrents \ sets : CollectionOf[s] \in Collections(snapshot.browse)
    BY <1>0, <2>1, <2>2, SetsAreCarried
  <2>4. FilesOnlyGain(onSale.games, vault, torrents, unfinished', snapshot)
    BY <1>0, <2>1, <2>3 DEF FilesOnlyGain
  <2> QED BY <1>0, <2>2, <2>4 DEF ImportsInvariant
<1>4. CASE Publish
  <2>1. unfinished' = NothingUnfinished /\ unfinished'.of = "none"
        /\ UNCHANGED <<snapshot, onSale, imports>> /\ unfinished # NothingUnfinished
    BY <1>4 DEF Publish, NothingUnfinished
  <2>2. CASE unfinished.of = "vault"
    <3>1. vault' = unfinished.is /\ torrents' = torrents
      BY <1>4, <2>2 DEF Publish
    <3>2. \A g \in VaultGames : AtLeast(vault'[g], onSale.games[g])
      BY <1>0, <2>2, <3>1, AtLeastIsTransitive DEF FilesOnlyGain
    <3>3. FilesOnlyGain(onSale.games, vault', torrents, unfinished', snapshot)
      BY <1>0, <2>1, <2>2, <3>1, <3>2 DEF FilesOnlyGain
    <3> QED BY <1>0, <2>1, <3>1, <3>3 DEF ImportsInvariant
  <2>3. CASE unfinished.of = "sets"
    <3>1. torrents' = unfinished.is /\ vault' = vault
      BY <1>4, <2>3 DEF Publish
    <3>3. FilesOnlyGain(onSale.games, vault, torrents', unfinished', snapshot)
      BY <1>0, <2>1, <2>3, <3>1 DEF FilesOnlyGain
    <3> QED BY <1>0, <2>1, <3>1, <3>3 DEF ImportsInvariant
  <2> QED BY <1>0, <2>1, <2>2, <2>3 DEF FilesOnlyGain
<1>5. CASE GiveUp
  <2>1. unfinished'.of = "none" /\ unfinished' = NothingUnfinished
        /\ UNCHANGED <<vault, torrents, snapshot, onSale, imports>>
    BY <1>5 DEF GiveUp, NothingUnfinished
  <2>2. FilesOnlyGain(onSale.games, vault, torrents, unfinished', snapshot)
    BY <1>0, <2>1 DEF FilesOnlyGain
  <2> QED BY <1>0, <2>1, <2>2 DEF ImportsInvariant
<1>6. CASE LoadCatalogues
  <2>1. onSale'.games = [g \in VaultGames |-> vault[g]] /\ onSale'.sets = torrents
        /\ UNCHANGED <<vault, torrents, snapshot, unfinished, imports>>
    BY <1>6 DEF LoadCatalogues
  <2>2. onSale'.games = vault
    BY <1>0, <2>1
  <2>3. FilesOnlyGain(vault, vault, torrents, unfinished, snapshot)
    BY <1>0 DEF FilesOnlyGain, AtLeast
  <2> QED BY <1>0, <2>1, <2>2, <2>3 DEF ImportsInvariant
<1>7. CASE UNCHANGED importVars
  BY <1>0, <1>7 DEF importVars, ImportsInvariant
<1> QED BY <1>1, <1>2, <1>3, <1>4, <1>5, <1>6, <1>7 DEF ImportsNext

LEMMA ImportsLoseNothing ==
    ImportsInvariant /\ [ImportsNext]_importVars =>
        [/\ \A g \in VaultGames : AtLeast(onSale'.games[g], onSale.games[g])
         /\ \A s \in torrents \ torrents' :
               CollectionOf[s] \in Collections(snapshot.browse)]_importVars
<1> SUFFICES ASSUME ImportsInvariant, [ImportsNext]_importVars, importVars' # importVars
             PROVE  /\ \A g \in VaultGames : AtLeast(onSale'.games[g], onSale.games[g])
                    /\ \A s \in torrents \ torrents' :
                          CollectionOf[s] \in Collections(snapshot.browse)
  OBVIOUS
<1>1. FilesOnlyGain(onSale.games, vault, torrents, unfinished, snapshot)
  BY DEF ImportsInvariant
<1>2. CASE LoadCatalogues
  <2>1. onSale'.games = [g \in VaultGames |-> vault[g]] /\ torrents' = torrents
    BY <1>2 DEF LoadCatalogues
  <2> QED BY <1>1, <2>1 DEF FilesOnlyGain
<1>3. CASE onSale' = onSale
  <2>1. \A g \in VaultGames : AtLeast(onSale'.games[g], onSale.games[g])
    BY <1>3 DEF AtLeast
  <2>2. CASE Publish /\ unfinished.of # "vault"
    <3>1. torrents' = unfinished.is /\ unfinished.of = "sets"
      BY <1>1, <2>2 DEF Publish, FilesOnlyGain
    <3> QED BY <1>1, <2>1, <3>1 DEF FilesOnlyGain
  <2>3. CASE torrents' = torrents
    BY <2>1, <2>3
  <2> QED BY <2>1, <2>2, <2>3 DEF ImportsNext, ImportVault, Fetch, ImportSets, Publish, GiveUp,
             LoadCatalogues, importVars
<1> QED BY <1>2, <1>3 DEF ImportsNext, ImportVault, Fetch, ImportSets, Publish, GiveUp, importVars

\* For any export of any number of games and any walks of a site of any size, imported in any
\* order, forced or not, with the importer and the server dying anywhere: a game on offer
\* keeps what it had, and a set goes only if its collection was walked (vimm_import.go:205).
THEOREM CataloguesOnlyGain == ImportsSpec => WhatWorkedStays
<1> QED BY ImportsStart, ImportsStay, ImportsLoseNothing, PTL DEF ImportsSpec, WhatWorkedStays

-----------------------------------------------------------------------------
(* Tuning in.                                                              *)

\* The servers know a stream by a session that is nobody else's.
SessionsAreCounted(kept) ==
    IsFiniteSet(kept) /\ \A t \in kept : t.session \in 1..Cardinality(kept)

Tidings == {"nothing", "guide", "no such channel", "off air", "on air", "playing", "gone",
            "unavailable"}
Requests == [at : {"idle", "asking", "resting", "told"}, channel : Channels \cup {"none"},
             index : Nat, offset : Nat, member : 0..(Len(Chain) + 1), attempt : 0..Attempts,
             real : BOOLEAN, told : Tidings, begins : Int, seekable : BOOLEAN,
             shown : SUBSET Channels]

\* A moment of a programme, what a stream of it may be, and what is known of its file once
\* some of the servers were asked.
IsAMoment(t) ==
    /\ t.channel \in Channels /\ t.index \in DOMAIN Guide[t.channel]
    /\ LET p == Guide[t.channel][t.index] IN t.offset \in 0..(p.ends - p.starts - 1)
BeginsWell(p, offset, begins, seekable) ==
    \/ begins \in {offset, Clamped(offset, p.runs)} /\ begins < p.runs
    \/ p.server = "archive" /\ begins = 0 /\ ~seekable
AskedInVain(t, gone) ==
    \A k \in 1..(t.member - 1) : Chain[k] = Guide[t.channel][t.index].server =>
        t.real \/ <<t.channel, t.index>> \in gone
TrulyTold(t, gone) ==
    /\ t.at \in {"asking", "resting"} => IsAMoment(t) /\ t.told = "nothing" /\ t.attempt >= 1
    /\ t.at = "asking" => t.member >= 1 /\ AskedInVain(t, gone)
    /\ t.at = "resting" => t.attempt < Attempts
    /\ t.told = "playing" =>
         BeginsWell(Guide[t.channel][t.index], t.offset, t.begins, t.seekable)
    /\ t.told = "gone" => <<t.channel, t.index>> \in gone

TuneInvariant ==
    /\ clock \in 0..MaxClock /\ mishaps \in 0..MaxMishaps
    /\ down \subseteq {Chain[i] : i \in DOMAIN Chain}
    /\ \A w \in deleted : w[1] \in Channels /\ w[2] \in DOMAIN Guide[w[1]]
    /\ \A r \in ranges : r[2] \in BOOLEAN /\ ~\E x \in ranges : x[1] = r[1] /\ x # r
    /\ SessionsAreCounted(transcodes)
    /\ tuning \in [Viewers -> Requests]
    /\ \A v \in Viewers : TrulyTold(tuning[v], deleted)

LEMMA AwayIsTyped == Away \in Requests /\ Away.at = "idle" /\ Away.told = "nothing"
<1>1. Len(Chain) \in Nat /\ Attempts \in Nat \ {0}
  BY TuneInAssumption
<1>2. 0 \in 0..(Len(Chain) + 1) /\ 0 \in 0..Attempts /\ 1 \in 0..(Len(Chain) + 1) /\ 1 \in 0..Attempts
  BY <1>1
<1> QED BY <1>2 DEF Away, Requests, NoProgramme, Tidings

LEMMA GuideIsServed ==
    ASSUME NEW c \in Channels, NEW i \in DOMAIN Guide[c], NEW p, p = Guide[c][i]
    PROVE  /\ p.starts \in Int /\ p.ends \in Int /\ p.starts < p.ends /\ p.runs \in Nat \ {0}
           /\ p.server \in {"archive", "jellyfin", "plex"}
           /\ \E k \in DOMAIN Chain : Chain[k] = p.server
           /\ p.server = "archive" \/ p.runs = 1 => p.ends - p.starts <= p.runs
<1>1. Guide[c] \in Seq(ProgrammeRecords)
  BY TuneInAssumption DEF Channels
<1>2. p \in ProgrammeRecords
  BY <1>1
<1>3. p.starts < p.ends /\ (\E k \in DOMAIN Chain : Chain[k] = p.server)
      /\ (p.server = "archive" \/ p.runs = 1 => p.ends - p.starts <= p.runs)
  BY TuneInAssumption DEF Channels
<1> QED BY <1>2, <1>3 DEF ProgrammeRecords

\* A position is at least a second short of the end of the file (mediaClamp).
LEMMA PositionsAreInTheFile ==
    ASSUME NEW runs \in Nat \ {0}, NEW offset \in Nat, runs = 1 => offset = 0
    PROVE  /\ Clamped(offset, runs) \in Nat /\ Clamped(offset, runs) < runs
           /\ PlexClamped(offset, runs) \in {offset, Clamped(offset, runs)}
           /\ PlexClamped(offset, runs) < runs /\ PlexClamped(offset, runs) \in Nat
BY DEF Clamped, PlexClamped, Least

\* A new session is one more (mediaRandomSession), so a server plays from where it is told.
LEMMA ANewSessionBegins ==
    ASSUME SessionsAreCounted(transcodes), NEW what, NEW start, NEW seekable,
           NEW s, s = Transcoded(what, start, seekable)
    PROVE  /\ s.stream = Stream(start, seekable) /\ SessionsAreCounted(s.kept)
<1> DEFINE n == Cardinality(transcodes)
           t == [session |-> n + 1, what |-> what, start |-> start]
<1>1. IsFiniteSet(transcodes) /\ n \in Nat /\ \A x \in transcodes : x.session \in 1..n
  BY FS_CardinalityType DEF SessionsAreCounted
<1>2. FreshSession(transcodes) = n + 1
  BY DEF FreshSession
<1>3. {x \in transcodes : x.session = n + 1 /\ x.what = what} = {}
  BY <1>1
<1>4. Plays(FreshSession(transcodes), what, start) = start
  BY <1>2, <1>3 DEF Plays
<1>5. s.stream = Stream(start, seekable) /\ s.kept = transcodes \cup {t}
  BY <1>2, <1>4 DEF Transcoded
<1>6. t \notin transcodes /\ t.session = n + 1
  BY <1>1
<1> HIDE DEF t
<1>7. IsFiniteSet(s.kept) /\ Cardinality(s.kept) = n + 1
  <2>1. IsFiniteSet(transcodes \cup {t}) /\ Cardinality(transcodes \cup {t}) = Cardinality(transcodes) + 1
    BY <1>1, <1>6, FS_AddElement
  <2> QED BY <1>5, <2>1
<1>8. \A x \in s.kept : x.session \in 1..(n + 1)
  BY <1>1, <1>5, <1>6
<1> QED BY <1>5, <1>7, <1>8 DEF SessionsAreCounted

LEMMA PlannedStreamsBegin ==
    ASSUME NEW what, NEW offset, NEW start, NEW s \in PlannedStreams(what, offset, start)
    PROVE  s = Transcoded(what, start, TRUE) \/ s = Transcoded(what, start, FALSE)
<1>1. \A planned : StartTicks(planned, start) = start
  BY DEF StartTicks
<1> QED BY <1>1 DEF PlannedStreams

\* Whatever a server answers with begins where it was asked to (Stream, LinearResolve).
LEMMA StreamsBeginWell ==
    ASSUME SessionsAreCounted(transcodes), \A r \in ranges : r[2] \in BOOLEAN,
           NEW p, p.runs \in Nat \ {0}, p.server \in {"archive", "jellyfin", "plex"},
           NEW offset \in Nat, p.server = "archive" \/ p.runs = 1 => offset < p.runs,
           NEW what, NEW s \in Streams(p.server, what, offset, p.runs)
    PROVE  /\ BeginsWell(p, offset, s.stream.begins, s.stream.seekable)
           /\ s.stream.begins \in Int /\ s.stream.seekable \in BOOLEAN
           /\ SessionsAreCounted(s.kept)
<1>0. /\ Clamped(offset, p.runs) \in Nat /\ Clamped(offset, p.runs) < p.runs
      /\ PlexClamped(offset, p.runs) \in {offset, Clamped(offset, p.runs)}
      /\ PlexClamped(offset, p.runs) < p.runs /\ PlexClamped(offset, p.runs) \in Nat
  <2>1. p.runs = 1 => offset = 0
    OBVIOUS
  <2> QED BY <2>1, PositionsAreInTheFile
<1>1. ASSUME NEW start \in {Clamped(offset, p.runs), PlexClamped(offset, p.runs)},
             NEW hls \in BOOLEAN, s = Transcoded(what, start, hls)
      PROVE  /\ BeginsWell(p, offset, s.stream.begins, s.stream.seekable)
             /\ s.stream.begins \in Int /\ s.stream.seekable \in BOOLEAN
             /\ SessionsAreCounted(s.kept)
  <2>1. s.stream = Stream(start, hls) /\ SessionsAreCounted(s.kept)
    BY <1>1, ANewSessionBegins
  <2>2. s.stream.begins = start /\ s.stream.seekable = hls
    BY <2>1 DEF Stream
  <2> QED BY <1>0, <2>1, <2>2 DEF BeginsWell
<1>2. ASSUME NEW start \in {Clamped(offset, p.runs), PlexClamped(offset, p.runs)}, start = 0,
             s = [stream |-> Direct, kept |-> transcodes]
      PROVE  /\ BeginsWell(p, offset, s.stream.begins, s.stream.seekable)
             /\ s.stream.begins \in Int /\ s.stream.seekable \in BOOLEAN
             /\ SessionsAreCounted(s.kept)
  <2>1. s.stream.begins = 0 /\ s.stream.seekable = TRUE /\ s.kept = transcodes
    BY <1>2 DEF Direct, Stream
  <2>2. 0 \in {offset, Clamped(offset, p.runs)} /\ 0 < p.runs
    BY <1>0, <1>2
  <2>3. BeginsWell(p, offset, 0, TRUE)
    BY <2>2 DEF BeginsWell
  <2>4. BeginsWell(p, offset, s.stream.begins, s.stream.seekable)
    BY <2>1, <2>3, Zenon
  <2>5. s.stream.begins \in Int
    BY <2>1
  <2>6. s.stream.seekable \in BOOLEAN
    BY <2>1, Zenon
  <2> QED BY <1>2, <2>1, <2>4, <2>5, <2>6
<1>3. CASE p.server = "jellyfin"
  <2> DEFINE start == Clamped(offset, p.runs)
  <2>1. s \in JellyfinStreams(what, offset, p.runs)
    BY <1>3 DEF Streams
  <2>2. \/ start = 0 /\ s = [stream |-> Direct, kept |-> transcodes]
        \/ s = Transcoded(what, start, TRUE) \/ s = Transcoded(what, start, FALSE)
    <3>1. \/ s \in (IF start = 0 THEN {[stream |-> Direct, kept |-> transcodes]} ELSE {})
          \/ s \in PlannedStreams(what, offset, start) \/ s = Transcoded(what, start, FALSE)
      BY <2>1 DEF JellyfinStreams
    <3> QED BY <3>1, PlannedStreamsBegin
  <2> HIDE DEF start
  <2>3. start \in {Clamped(offset, p.runs), PlexClamped(offset, p.runs)}
    BY DEF start
  <2> QED BY <1>1, <1>2, <2>2, <2>3
<1>4. CASE p.server = "plex"
  <2> DEFINE start == PlexClamped(offset, p.runs)
  <2>1. s \in PlexStreams(what, offset, p.runs)
    BY <1>4 DEF Streams
  <2>2. \/ start = 0 /\ s = [stream |-> Direct, kept |-> transcodes]
        \/ s = Transcoded(what, start, FALSE)
    BY <2>1 DEF PlexStreams
  <2> QED BY <1>1, <1>2, <2>2
<1>5. CASE p.server = "archive"
  <2>1. s \in ArchiveStreams(what, offset)
    BY <1>5 DEF Streams
  <2>2. PICK ok \in BOOLEAN : s = [stream |-> IF ok THEN Stream(offset, TRUE) ELSE Stream(0, FALSE),
                                   kept |-> transcodes]
    BY <2>1 DEF ArchiveStreams
  <2>3. /\ s.kept = transcodes
        /\ ok => s.stream.begins = offset /\ s.stream.seekable = TRUE
        /\ ~ok => s.stream.begins = 0 /\ s.stream.seekable = FALSE
    BY <2>2 DEF Stream
  <2>4. CASE ok
    <3>1. BeginsWell(p, offset, offset, TRUE)
      BY <1>5 DEF BeginsWell
    <3>2. BeginsWell(p, offset, s.stream.begins, s.stream.seekable)
      BY <2>3, <2>4, <3>1, Zenon
    <3>3. s.stream.begins \in Int
      BY <2>3, <2>4
    <3>4. s.stream.seekable \in BOOLEAN
      BY <2>3, <2>4, Zenon
    <3> QED BY <2>3, <3>2, <3>3, <3>4
  <2>5. CASE ~ok
    <3>1. BeginsWell(p, offset, 0, FALSE)
      BY <1>5 DEF BeginsWell
    <3>2. BeginsWell(p, offset, s.stream.begins, s.stream.seekable)
      BY <2>3, <2>5, <3>1, Zenon
    <3>3. s.stream.begins \in Int
      BY <2>3, <2>5
    <3>4. s.stream.seekable \in BOOLEAN
      BY <2>3, <2>5, Zenon
    <3> QED BY <2>3, <3>2, <3>3, <3>4
  <2> QED BY <2>4, <2>5
<1> QED BY <1>3, <1>4, <1>5

\* What is on is a programme of the channel, and how far it has got is within it
\* (linearIndexAt, linearLiveOffset).
LEMMA WhatIsOnIsAMoment ==
    ASSUME NEW c \in Channels, clock \in Nat
    PROVE  /\ NowPlaying(c) \in Requests /\ NowPlaying(c).at = "told"
           /\ NowPlaying(c).told \in {"off air", "on air"}
           /\ NowPlaying(c).told = "on air" => IsAMoment(NowPlaying(c))
<1> DEFINE i == IndexAt(c, clock)
           S == {k \in DOMAIN Guide[c] : Guide[c][k].starts <= clock}
<1>1. PICK n \in Nat : DOMAIN Guide[c] = 1..n
  <2>1. Guide[c] \in Seq(ProgrammeRecords)
    BY TuneInAssumption DEF Channels
  <2> QED BY <2>1
<1>2. Cardinality(S) \in 0..n
  <2>1. IsFiniteSet(1..n) /\ Cardinality(1..n) = n
    BY <1>1, FS_Interval
  <2>2. S \subseteq 1..n
    BY <1>1
  <2>3. IsFiniteSet(S) /\ Cardinality(S) <= n /\ Cardinality(S) \in Nat
    BY <2>1, <2>2, FS_Subset, FS_CardinalityType
  <2> QED BY <1>1, <2>3
<1>3. i \in 0..n
  BY <1>2 DEF IndexAt, NoProgramme
<1> DEFINE off == [Away EXCEPT !.channel = c, !.at = "told", !.told = "off air"]
           on == [Away EXCEPT !.channel = c, !.at = "told", !.told = "on air", !.index = i,
                              !.offset = LiveOffset(Guide[c][i], clock)]
<1>4. CASE i = NoProgramme
  <2>1. NowPlaying(c) = off
    BY <1>4 DEF NowPlaying
  <2>2. off \in Requests /\ off.at = "told" /\ off.told = "off air"
    BY AwayIsTyped DEF Requests, Tidings
  <2> HIDE DEF off
  <2> QED BY <2>1, <2>2
<1>5. CASE i # NoProgramme
  <2>1. i \in DOMAIN Guide[c] /\ i \in Nat
    BY <1>1, <1>3, <1>5 DEF NoProgramme
  <2> HIDE DEF i
  <2>2. PICK p : p = Guide[c][i]
    OBVIOUS
  <2>3. p.starts \in Int /\ p.ends \in Int /\ p.starts < p.ends
    BY <2>1, <2>2, GuideIsServed
  <2>4. LiveOffset(p, clock) \in 0..(p.ends - p.starts - 1)
    BY <2>3 DEF LiveOffset
  <2>5. LiveOffset(p, clock) \in Nat
    BY <2>3, <2>4
  <2>6. NowPlaying(c) = on
    BY <1>5 DEF NowPlaying, i
  <2>7. on \in Requests /\ on.at = "told" /\ on.told = "on air"
        /\ on.channel = c /\ on.index = i /\ on.offset = LiveOffset(p, clock)
    BY <2>1, <2>2, <2>5, AwayIsTyped DEF Requests, Tidings
  <2> HIDE DEF on
  <2> QED BY <2>1, <2>2, <2>4, <2>6, <2>7 DEF IsAMoment
<1> QED BY <1>4, <1>5

LEMMA TuneStarts == TuneInit => TuneInvariant
<1> SUFFICES ASSUME TuneInit PROVE TuneInvariant
  OBVIOUS
<1>1. Away \in Requests /\ Away.at = "idle" /\ Away.told = "nothing"
  BY AwayIsTyped
<1>2. \A gone : TrulyTold(Away, gone)
  BY <1>1 DEF TrulyTold
<1>3. SessionsAreCounted({})
  BY FS_EmptySet DEF SessionsAreCounted
<1>4. tuning = [v \in Viewers |-> Away]
  BY DEF TuneInit
<1>5. tuning \in [Viewers -> Requests] /\ \A v \in Viewers : TrulyTold(tuning[v], deleted)
  BY <1>1, <1>2, <1>4
<1> QED BY <1>3, <1>5, TuneInAssumption DEF TuneInit, TuneInvariant

\* One viewer's request changes, and nothing that was told of the others does.
LEMMA OneViewerAsks ==
    ASSUME TuneInvariant, NEW v \in Viewers, NEW t \in Requests, TrulyTold(t, deleted),
           tuning' = [tuning EXCEPT ![v] = t],
           UNCHANGED <<clock, down, deleted, ranges, mishaps>>,
           SessionsAreCounted(transcodes')
    PROVE  TuneInvariant'
<1>1. tuning' \in [Viewers -> Requests]
  BY DEF TuneInvariant
<1>2. \A x \in Viewers : TrulyTold(tuning'[x], deleted)
  BY DEF TuneInvariant
<1> QED BY <1>1, <1>2 DEF TuneInvariant

LEMMA ViewersReadOrLeave ==
    ASSUME TuneInvariant, NEW v \in Viewers,
           TuneOut(v) \/ \E asked \in SUBSET Channels : ReadGuide(v, asked)
    PROVE  TuneInvariant'
<1>0. SessionsAreCounted(transcodes)
  BY DEF TuneInvariant
<1>1. CASE TuneOut(v)
  <2>1. Away \in Requests /\ TrulyTold(Away, deleted)
    BY AwayIsTyped DEF TrulyTold
  <2> QED BY <1>0, <1>1, <2>1, OneViewerAsks DEF TuneOut
<1>2. ASSUME NEW asked \in SUBSET Channels, ReadGuide(v, asked) PROVE TuneInvariant'
  <2> DEFINE t == [Away EXCEPT !.at = "told", !.told = "guide", !.shown = GuideFor(v, asked)]
  <2>1. GuideFor(v, asked) \subseteq Channels
    BY DEF GuideFor
  <2>2. t \in Requests /\ t.at = "told" /\ t.told = "guide"
    BY <2>1, AwayIsTyped DEF Requests, Tidings
  <2>3. tuning' = [tuning EXCEPT ![v] = t]
        /\ UNCHANGED <<clock, down, deleted, ranges, transcodes, mishaps>>
    BY <1>2 DEF ReadGuide
  <2> HIDE DEF t
  <2>4. TrulyTold(t, deleted)
    BY <2>2 DEF TrulyTold
  <2> QED BY <1>0, <2>2, <2>3, <2>4, OneViewerAsks
<1> QED BY <1>1, <1>2

\* Whoever tunes in asks the first resolver, for the first time.
LEMMA AMomentIsResolved ==
    ASSUME NEW n \in Requests, IsAMoment(n), NEW t,
           t = [n EXCEPT !.at = "asking", !.told = "nothing", !.member = 1, !.attempt = 1]
    PROVE  t \in Requests /\ TrulyTold(t, deleted)
<1>1. Len(Chain) \in Nat /\ Attempts \in Nat \ {0}
  BY TuneInAssumption
<1>2. 1 \in 0..(Len(Chain) + 1) /\ 1 \in 0..Attempts
  BY <1>1
<1>3. t \in Requests
  BY <1>2 DEF Requests, Tidings
<1>4. t.at = "asking" /\ t.told = "nothing" /\ t.member = 1 /\ t.attempt = 1
      /\ t.channel = n.channel /\ t.index = n.index /\ t.offset = n.offset
  BY DEF Requests
<1>5. IsAMoment(t)
  BY <1>4 DEF IsAMoment
<1>6. \A k \in 1..(1 - 1) : FALSE
  OBVIOUS
<1>7. AskedInVain(t, deleted)
  BY <1>4, <1>6 DEF AskedInVain
<1> QED BY <1>3, <1>4, <1>5, <1>7 DEF TrulyTold

LEMMA QuestionsAreAsked ==
    ASSUME TuneInvariant, NEW v \in Viewers, NEW c \in Channels, TuneTo(v, c) \/ AskNow(v, c)
    PROVE  TuneInvariant'
<1>0. clock \in Nat /\ SessionsAreCounted(transcodes)
  BY TuneInAssumption DEF TuneInvariant
<1>3. NoSuchChannel(c) \in Requests /\ TrulyTold(NoSuchChannel(c), deleted)
  BY AwayIsTyped DEF NoSuchChannel, TrulyTold, Requests, Tidings
<1>4. PICK n : n = NowPlaying(c)
  OBVIOUS
<1>5. /\ n \in Requests /\ n.at = "told" /\ n.told \in {"off air", "on air"}
      /\ n.told = "on air" => IsAMoment(n)
  BY <1>0, <1>4, WhatIsOnIsAMoment
<1>6. TrulyTold(n, deleted)
  BY <1>5 DEF TrulyTold
<1>7. CASE AskNow(v, c)
  <2>1. CASE Visible(v, c)
    BY <1>0, <1>4, <1>5, <1>6, <1>7, <2>1, OneViewerAsks DEF AskNow
  <2>2. CASE ~Visible(v, c)
    BY <1>0, <1>3, <1>7, <2>2, OneViewerAsks DEF AskNow
  <2> QED BY <2>1, <2>2
<1>8. CASE TuneTo(v, c)
  <2> DEFINE t == [n EXCEPT !.at = "asking", !.told = "nothing", !.member = 1, !.attempt = 1]
  <2>1. TuningIn(c) = IF n.told = "on air" THEN t ELSE n
    BY <1>4 DEF TuningIn
  <2>2. n.told = "on air" => t \in Requests /\ TrulyTold(t, deleted)
    BY <1>5, AMomentIsResolved
  <2> HIDE DEF t
  <2>3. TuningIn(c) \in Requests /\ TrulyTold(TuningIn(c), deleted)
    BY <1>5, <1>6, <2>1, <2>2
  <2>4. CASE Visible(v, c)
    BY <1>0, <1>8, <2>3, <2>4, OneViewerAsks DEF TuneTo
  <2>5. CASE ~Visible(v, c)
    BY <1>0, <1>3, <1>8, <2>5, OneViewerAsks DEF TuneTo
  <2> QED BY <2>4, <2>5
<1> QED BY <1>7, <1>8

\* The chain of resolvers goes on: whoever passes does so for a reason.
LEMMA TheNextIsAsked ==
    ASSUME NEW gone, NEW t \in Requests, TrulyTold(t, gone), t.at = "asking",
           t.member \in 1..Len(Chain), NEW real \in BOOLEAN,
           Guide[t.channel][t.index].server = Chain[t.member] =>
               real \/ <<t.channel, t.index>> \in gone,
           NEW u, u = [t EXCEPT !.member = t.member + 1, !.real = t.real \/ real]
    PROVE  u \in Requests /\ TrulyTold(u, gone)
<1>1. Len(Chain) \in Nat
  BY TuneInAssumption
<1>2. t.member + 1 \in 0..(Len(Chain) + 1) /\ t.member + 1 >= 1
      /\ \A k \in 1..(t.member + 1 - 1) : k \in 1..(t.member - 1) \/ k = t.member
  BY <1>1
<1>3. (t.real \/ real) \in BOOLEAN
  BY DEF Requests
<1>4. u \in Requests
  BY <1>2, <1>3 DEF Requests
<1>5. /\ u.at = "asking" /\ u.member = t.member + 1 /\ (u.real <=> t.real \/ real)
      /\ u.channel = t.channel /\ u.index = t.index /\ u.offset = t.offset
      /\ u.told = t.told /\ u.attempt = t.attempt /\ u.begins = t.begins
      /\ u.seekable = t.seekable
  BY DEF Requests
<1>6. IsAMoment(u) /\ u.told = "nothing" /\ u.attempt >= 1
  BY <1>5 DEF TrulyTold, IsAMoment
<1>7. AskedInVain(t, gone)
  BY DEF TrulyTold
<1>8. AskedInVain(u, gone)
  BY <1>2, <1>5, <1>7 DEF AskedInVain
<1> QED BY <1>2, <1>4, <1>5, <1>6, <1>8 DEF TrulyTold

LEMMA ResolversAnswer ==
    ASSUME TuneInvariant, NEW v \in Viewers,
           HasNone(v) \/ FailsToServe(v) \/ Serves(v)
    PROVE  TuneInvariant'
<1>1. PICK t \in Requests : t = tuning[v]
  BY DEF TuneInvariant
<1>2. /\ TrulyTold(t, deleted) /\ SessionsAreCounted(transcodes) /\ tuning \in [Viewers -> Requests]
      /\ \A r \in ranges : r[2] \in BOOLEAN
  BY <1>1 DEF TuneInvariant
<1>3. PICK m : m = t.member
  OBVIOUS
<1>4. t.at = "asking" /\ m \in DOMAIN Chain /\ m \in 1..Len(Chain)
  <2>1. Asking(v)
    BY DEF HasNone, FailsToServe, Serves
  <2>2. DOMAIN Chain = 1..Len(Chain)
    BY TuneInAssumption
  <2> QED BY <1>1, <1>3, <2>1, <2>2 DEF Asking
<1>5. /\ IsAMoment(t) /\ t.told = "nothing"
  BY <1>2, <1>4 DEF TrulyTold
<1>6. PICK p : p = Guide[t.channel][t.index]
  OBVIOUS
<1>7. On(v) = p /\ What(v) = <<t.channel, t.index>> /\ Member(v) = Chain[m]
  BY <1>1, <1>3, <1>6 DEF On, What, Member
<1>8. ASSUME NEW real \in BOOLEAN, Passes(v, real), UNCHANGED <<clock, down, deleted, ranges, transcodes, mishaps>>,
             p.server = Chain[m] => real \/ <<t.channel, t.index>> \in deleted
      PROVE  TuneInvariant'
  <2> DEFINE u == [t EXCEPT !.member = t.member + 1, !.real = t.real \/ real]
  <2>1. tuning' = [tuning EXCEPT ![v] = u]
    BY <1>1, <1>2, <1>8 DEF Passes
  <2>2. u \in Requests /\ TrulyTold(u, deleted)
    BY <1>2, <1>3, <1>4, <1>6, <1>8, TheNextIsAsked
  <2> HIDE DEF u
  <2> QED BY <1>2, <1>8, <2>1, <2>2, OneViewerAsks
<1>9. CASE HasNone(v)
  <2>1. Passes(v, FALSE) /\ UNCHANGED <<clock, down, deleted, ranges, transcodes, mishaps>>
    BY <1>9 DEF HasNone
  <2>2. p.server = Chain[m] => <<t.channel, t.index>> \in deleted
    BY <1>7, <1>9 DEF HasNone
  <2> QED BY <1>8, <2>1, <2>2
<1>10. CASE FailsToServe(v)
  <2>1. Passes(v, TRUE) /\ UNCHANGED <<clock, down, deleted, ranges, transcodes, mishaps>>
    BY <1>10 DEF FailsToServe
  <2> QED BY <1>8, <2>1
<1>11. CASE Serves(v)
  <2>1. p.server = Chain[m] /\ UNCHANGED <<clock, down, deleted, ranges, mishaps>>
    BY <1>7, <1>11 DEF Serves
  <2>2. PICK s \in Streams(p.server, <<t.channel, t.index>>, t.offset, p.runs) :
          /\ transcodes' = s.kept
          /\ tuning' = [tuning EXCEPT ![v].at = "told", ![v].told = "playing",
                            ![v].begins = s.stream.begins, ![v].seekable = s.stream.seekable]
    BY <1>1, <1>7, <1>11, <2>1 DEF Serves
  <2>3. /\ p.starts \in Int /\ p.ends \in Int /\ p.runs \in Nat \ {0}
        /\ p.server \in {"archive", "jellyfin", "plex"}
        /\ p.server = "archive" \/ p.runs = 1 => p.ends - p.starts <= p.runs
    BY <1>5, <1>6, GuideIsServed DEF IsAMoment
  <2>4. t.offset \in 0..(p.ends - p.starts - 1)
    BY <1>5, <1>6 DEF IsAMoment
  <2>5. t.offset \in Nat /\ (p.server = "archive" \/ p.runs = 1 => t.offset < p.runs)
    BY <2>3, <2>4
  <2>6. /\ BeginsWell(p, t.offset, s.stream.begins, s.stream.seekable)
        /\ s.stream.begins \in Int /\ s.stream.seekable \in BOOLEAN
        /\ SessionsAreCounted(s.kept)
    BY <1>2, <2>2, <2>3, <2>5, StreamsBeginWell
  <2>7. PICK b \in Int : b = s.stream.begins
    BY <2>6
  <2>8. PICK k \in BOOLEAN : k = s.stream.seekable
    BY <2>6
  <2> DEFINE u == [t EXCEPT !.at = "told", !.told = "playing", !.begins = b, !.seekable = k]
  <2>9. tuning' = [tuning EXCEPT ![v] = u]
    BY <1>1, <1>2, <2>2, <2>7, <2>8
  <2>10. u \in Requests
    BY DEF Requests, Tidings
  <2>11. u.at = "told" /\ u.told = "playing" /\ u.channel = t.channel /\ u.index = t.index
         /\ u.offset = t.offset /\ u.begins = b /\ u.seekable = k
    BY DEF Requests
  <2> HIDE DEF u
  <2>12. BeginsWell(Guide[u.channel][u.index], u.offset, u.begins, u.seekable)
    BY <1>6, <2>6, <2>7, <2>8, <2>11, Zenon
  <2>13. TrulyTold(u, deleted)
    BY <2>11, <2>12 DEF TrulyTold
  <2> QED BY <2>1, <2>2, <2>6, <2>9, <2>10, <2>13, OneViewerAsks
<1> QED BY <1>9, <1>10, <1>11

LEMMA TheChainEnds ==
    ASSUME TuneInvariant, NEW v \in Viewers, ChainEnds(v) \/ TryAgain(v)
    PROVE  TuneInvariant'
<1>1. PICK t \in Requests : t = tuning[v]
  BY DEF TuneInvariant
<1>2. /\ TrulyTold(t, deleted) /\ SessionsAreCounted(transcodes) /\ tuning \in [Viewers -> Requests]
      /\ Len(Chain) \in Nat /\ Attempts \in Nat \ {0}
  BY <1>1, TuneInAssumption DEF TuneInvariant
<1>3. UNCHANGED <<clock, down, deleted, ranges, transcodes, mishaps>>
  BY DEF ChainEnds, TryAgain
<1>4. ASSUME NEW u \in Requests, TrulyTold(u, deleted), tuning' = [tuning EXCEPT ![v] = u]
      PROVE  TuneInvariant'
  BY <1>2, <1>3, <1>4, OneViewerAsks
<1>5. CASE ChainEnds(v)
  <2>1. t.at = "asking" /\ t.member = Len(Chain) + 1
    BY <1>1, <1>5 DEF ChainEnds
  <2>2. IsAMoment(t) /\ t.told = "nothing" /\ t.attempt >= 1 /\ AskedInVain(t, deleted)
    BY <1>2, <2>1 DEF TrulyTold
  <2>3. CASE NobodyHasIt(t.real)
    <3> DEFINE u == [t EXCEPT !.at = "told", !.told = "gone"]
    <3>1. tuning' = [tuning EXCEPT ![v] = u]
      BY <1>1, <1>2, <1>5, <2>3 DEF ChainEnds, Told
    <3>2. u \in Requests /\ u.at = "told" /\ u.told = "gone" /\ u.channel = t.channel
          /\ u.index = t.index
      BY DEF Requests, Tidings
    <3> HIDE DEF u
    <3>3. PICK k \in 1..Len(Chain) : Chain[k] = Guide[t.channel][t.index].server
      <4>1. PICK k \in DOMAIN Chain : Chain[k] = Guide[t.channel][t.index].server
        BY <2>2, GuideIsServed DEF IsAMoment
      <4>2. DOMAIN Chain = 1..Len(Chain)
        BY TuneInAssumption
      <4> QED BY <4>1, <4>2
    <3>4. k \in 1..(t.member - 1)
      BY <1>2, <2>1, <3>3
    <3>5. <<t.channel, t.index>> \in deleted
      BY <2>2, <2>3, <3>3, <3>4 DEF AskedInVain, NobodyHasIt
    <3>6. TrulyTold(u, deleted)
      BY <3>2, <3>5 DEF TrulyTold
    <3> QED BY <1>4, <3>1, <3>2, <3>6
  <2>4. CASE ~NobodyHasIt(t.real) /\ LastAttempt(t.attempt)
    <3> DEFINE u == [t EXCEPT !.at = "told", !.told = "unavailable"]
    <3>1. tuning' = [tuning EXCEPT ![v] = u]
      BY <1>1, <1>2, <1>5, <2>4 DEF ChainEnds, Told
    <3>2. u \in Requests /\ u.at = "told" /\ u.told = "unavailable"
      BY DEF Requests, Tidings
    <3> HIDE DEF u
    <3>3. TrulyTold(u, deleted)
      BY <3>2 DEF TrulyTold
    <3> QED BY <1>4, <3>1, <3>2, <3>3
  <2>5. CASE ~NobodyHasIt(t.real) /\ ~LastAttempt(t.attempt)
    <3> DEFINE u == [t EXCEPT !.at = "resting"]
    <3>1. tuning' = [tuning EXCEPT ![v] = u]
      BY <1>1, <1>2, <1>5, <2>5 DEF ChainEnds
    <3>2. u \in Requests /\ u.at = "resting" /\ u.told = "nothing" /\ u.channel = t.channel
          /\ u.index = t.index /\ u.offset = t.offset /\ u.attempt = t.attempt
      BY <2>2 DEF Requests
    <3>3. t.attempt \in 0..Attempts /\ t.attempt # Attempts
      BY <2>5 DEF LastAttempt, Requests
    <3> HIDE DEF u
    <3>4. TrulyTold(u, deleted)
      BY <1>2, <2>2, <3>2, <3>3 DEF TrulyTold, IsAMoment
    <3> QED BY <1>4, <3>1, <3>2, <3>4
  <2> QED BY <2>3, <2>4, <2>5
<1>6. CASE TryAgain(v)
  <2> DEFINE u == [t EXCEPT !.at = "asking", !.member = 1, !.real = FALSE,
                            !.attempt = t.attempt + 1]
  <2>1. t.at = "resting"
    BY <1>1, <1>6 DEF TryAgain
  <2>2. IsAMoment(t) /\ t.told = "nothing" /\ t.attempt >= 1 /\ t.attempt < Attempts
    BY <1>2, <2>1 DEF TrulyTold
  <2>3. tuning' = [tuning EXCEPT ![v] = u]
    BY <1>1, <1>2, <1>6 DEF TryAgain
  <2>4. t.attempt + 1 \in 0..Attempts /\ t.attempt + 1 >= 1 /\ 1 \in 0..(Len(Chain) + 1)
    <3>1. t.attempt \in 0..Attempts
      BY DEF Requests
    <3> QED BY <1>2, <2>2, <3>1
  <2>5. u \in Requests /\ u.at = "asking" /\ u.told = "nothing" /\ u.member = 1
        /\ u.channel = t.channel /\ u.index = t.index /\ u.offset = t.offset
        /\ u.attempt = t.attempt + 1
    BY <2>2, <2>4 DEF Requests
  <2> HIDE DEF u
  <2>6. \A k \in 1..(1 - 1) : FALSE
    OBVIOUS
  <2>7. TrulyTold(u, deleted)
    BY <2>2, <2>4, <2>5, <2>6 DEF TrulyTold, IsAMoment, AskedInVain
  <2> QED BY <1>4, <2>3, <2>5, <2>7
<1> QED BY <1>5, <1>6

LEMMA TuneStays == TuneInvariant /\ [TuneNext]_tuneVars => TuneInvariant'
<1> SUFFICES ASSUME TuneInvariant, [TuneNext]_tuneVars PROVE TuneInvariant'
  OBVIOUS
<1>0. /\ MaxClock \in Nat /\ MaxMishaps \in Nat
      /\ \A n \in 0..MaxClock : n < MaxClock => n + 1 \in 0..MaxClock
      /\ \A n \in 0..MaxMishaps : n < MaxMishaps => n + 1 \in 0..MaxMishaps
  BY TuneInAssumption
<1>1. CASE TimeGoesOn
  BY <1>0, <1>1 DEF TimeGoesOn, TuneInvariant
<1>2. ASSUME NEW s \in {Chain[i] : i \in DOMAIN Chain}, ServerDown(s) \/ ServerBack(s)
      PROVE  TuneInvariant'
  BY <1>0, <1>2 DEF ServerDown, ServerBack, Mishap, TuneInvariant
<1>3. ASSUME NEW c \in Channels, NEW i \in DOMAIN Guide[c], FileDeleted(<<c, i>>)
      PROVE  TuneInvariant'
  <2>1. deleted' = deleted \cup {<<c, i>>}
        /\ UNCHANGED <<clock, down, ranges, transcodes, tuning>> /\ mishaps' \in 0..MaxMishaps
    BY <1>0, <1>3 DEF FileDeleted, Mishap, TuneInvariant
  <2>2. \A v \in Viewers : TrulyTold(tuning[v], deleted')
    BY <2>1 DEF TuneInvariant, TrulyTold, AskedInVain
  <2>3. \A w \in deleted' : w[1] \in Channels /\ w[2] \in DOMAIN Guide[w[1]]
    BY <2>1 DEF TuneInvariant
  <2> QED BY <2>1, <2>2, <2>3 DEF TuneInvariant
<1>4. ASSUME NEW v \in Viewers, NEW ok \in BOOLEAN, ProbeRanges(v, ok) PROVE TuneInvariant'
  <2>1. /\ ranges' = ranges \cup {<<What(v), ok>>} /\ ~\E r \in ranges : r[1] = What(v)
        /\ UNCHANGED <<clock, down, deleted, transcodes, tuning, mishaps>>
    BY <1>4 DEF ProbeRanges
  <2>2. PICK r : r = <<What(v), ok>>
    OBVIOUS
  <2>3. r[1] = What(v) /\ r[2] = ok
    BY <2>2, Zenon
  <2>4. r[2] \in BOOLEAN
    BY <2>3, Zenon
  <2>5. \A q \in ranges' : q[2] \in BOOLEAN /\ ~\E x \in ranges' : x[1] = q[1] /\ x # q
    BY <2>1, <2>2, <2>3, <2>4 DEF TuneInvariant
  <2> QED BY <2>1, <2>5 DEF TuneInvariant
<1>5. ASSUME NEW v \in Viewers, ViewerStep(v) PROVE TuneInvariant'
  BY <1>4, <1>5, ResolversAnswer, TheChainEnds DEF ViewerStep
<1>6. ASSUME NEW v \in Viewers,
             \/ TuneOut(v) \/ \E c \in Channels : TuneTo(v, c) \/ AskNow(v, c)
             \/ \E asked \in SUBSET Channels : ReadGuide(v, asked)
      PROVE  TuneInvariant'
  BY <1>6, QuestionsAreAsked, ViewersReadOrLeave
<1>7. CASE UNCHANGED tuneVars
  BY <1>7 DEF tuneVars, TuneInvariant
<1> QED BY <1>1, <1>2, <1>3, <1>5, <1>6, <1>7 DEF TuneNext

LEMMA TruthFollows == TuneInvariant => TheViewerIsToldTheTruth /\ TuneTypeOK
<1> SUFFICES ASSUME TuneInvariant PROVE TheViewerIsToldTheTruth /\ TuneTypeOK
  OBVIOUS
<1>1. PlaysFromWhereItIsTold
  BY DEF TuneInvariant, TrulyTold, BeginsWell, PlaysFromWhereItIsTold, On
<1>2. GoneIsGone
  BY DEF TuneInvariant, TrulyTold, GoneIsGone, What
<1>3. TuneTypeOK
  BY DEF TuneInvariant, TuneTypeOK, Requests
<1> QED BY <1>1, <1>2, <1>3 DEF TheViewerIsToldTheTruth

\* For any guide, any chain of servers and any number of viewers: whatever fails, is deleted
\* or comes back while a stream is looked for, what plays begins where the channel was, and
\* only what its server has lost is called gone (linear_position.go:205).
THEOREM ViewersAreToldTheTruth == TuneSpec => [](TheViewerIsToldTheTruth /\ TuneTypeOK)
<1> QED BY TuneStarts, TuneStays, TruthFollows, PTL DEF TuneSpec

-----------------------------------------------------------------------------
(* Games.                                                                  *)

QueueRecords == [game : Games, state : States]
RowRecords == [game : (Providers \cup {"release"}) \X Games, state : States]
QuestionRecords ==
    [at : {"idle", "asking", "told"}, about : GameIds \cup {Nothing, Shelves},
     waits : SUBSET Providers, queue : [read : BOOLEAN, rows : SUBSET QueueRecords],
     best : States, rows : SUBSET RowRecords, failed : SUBSET Providers,
     of : SUBSET Providers, play : BOOLEAN, seen : SUBSET Games,
     stayed : SUBSET ({"queue", "wanted"} \X Games)]
TokenRecords == [renew : Nat, good : Nat]

\* What is listed as wanted is not listed otherwise.
WantedAlone(rows) == \A r, s \in rows : r.game = s.game /\ r.state = "requested" => r = s

\* A question that is under way saw every shelf there was, and what it says has stayed has;
\* who is waited for has said nothing yet, and who has spoken told the truth.
AskedNow(q, present, listed) ==
    /\ q.about \in GameIds \cup {Shelves} /\ present \subseteq q.seen /\ q.stayed \subseteq listed
    /\ \A r \in q.rows : r.game[1] \in Providers \ q.waits
SaidSoFar(q) ==
    /\ WantedAlone(q.rows) /\ \A r \in q.queue.rows : r.state # "requested"
    /\ q.queue.read => \A l \in q.stayed : l[1] = "queue" => l[2] \in GamesIn(q.queue.rows)
    /\ \A r \in q.queue.rows : r.state = "available" => r.game \in q.seen
    /\ \A r \in q.rows : r.state = "available" => r.game[2] \in q.seen
    /\ q.best = "available" => q.about.game \in q.seen
    /\ q.about = Shelves /\ "romarr" \in q.of \ (q.failed \cup q.waits) =>
         \A l \in q.stayed : \E r \in q.rows : r.game = <<"romarr", l[2]>>
HonestQuestion(q, present, listed) ==
    /\ q.waits \cap q.failed = {} /\ q.waits \cup q.failed \subseteq q.of
    /\ q.at = "told" => q.waits = {}
    /\ q.at = "asking" => AskedNow(q, present, listed)
    /\ SaidSoFar(q)

\* Between its renewals a token lasts a margin longer.
TokenLasts(t) == t \in TokenRecords /\ (t.renew > 0 => t.good \in {0, t.renew + Margin})
GamesInvariant ==
    /\ underWay \in [Games -> SUBSET Stages] /\ wanted \subseteq Games
    /\ roms \in [Games -> {"no", "there", "missing"}]
    /\ playOK \in BOOLEAN /\ troubles \in 0..MaxTroubles /\ TokenLasts(token)
    /\ gamer \in [Gamers -> QuestionRecords]
    /\ \A p \in Gamers : HonestQuestion(gamer[p], Present, Listed)

LEMMA NoQuestionIsHonest ==
    /\ NoQuestion \in QuestionRecords
    /\ \A present, listed : HonestQuestion(NoQuestion, present, listed)
<1>1. NoQuestion \in QuestionRecords
  BY DEF NoQuestion, QuestionRecords, NoList, States
<1>2. /\ NoQuestion.at = "idle" /\ NoQuestion.waits = {} /\ NoQuestion.failed = {}
      /\ NoQuestion.of = {} /\ NoQuestion.rows = {} /\ NoQuestion.queue = NoList
      /\ NoQuestion.best = "unknown" /\ NoList.rows = {} /\ NoList.read = FALSE
  BY DEF NoQuestion, NoList
<1>3. SaidSoFar(NoQuestion)
  BY <1>2, Zenon DEF SaidSoFar, WantedAlone
<1> QED BY <1>1, <1>2, <1>3 DEF HonestQuestion

LEMMA StrongerIs ==
    ASSUME NEW s \in States, NEW t \in States
    PROVE  Stronger(s, t) \in {s, t} /\ Stronger(s, "unknown") = s /\ Rank(s) \in 0..5
BY DEF Stronger, Rank, States

\* One answer is heard, from somebody who had not spoken yet.
LEMMA OneAnswerIsHeard ==
    ASSUME NEW present, NEW listed, NEW q \in QuestionRecords,
           HonestQuestion(q, present, listed), q.at = "asking", NEW who \in q.waits,
           NEW state \in States, NEW rows \in SUBSET QueueRecords, WantedAlone(rows),
           \A r \in rows : r.state = "available" => r.game \in q.seen,
           state = "available" => q.about.game \in q.seen,
           who = "romarr" /\ q.about = Shelves => \A l \in q.stayed : l[2] \in GamesIn(rows),
           NEW u, u = [q EXCEPT !.waits = q.waits \ {who}, !.best = Stronger(q.best, state),
                                !.rows = q.rows \cup {[r EXCEPT !.game = <<who, r.game>>] :
                                                         r \in rows}]
    PROVE  u \in QuestionRecords /\ HonestQuestion(u, present, listed)
<1> DEFINE said == {[r EXCEPT !.game = <<who, r.game>>] : r \in rows}
<1>1. who \in Providers /\ q.waits \subseteq Providers /\ q.best \in States
  BY DEF QuestionRecords
<1>2. \A x \in said : x \in RowRecords /\ x.game[1] = who
  BY <1>1 DEF QueueRecords, RowRecords
<1>3. \A x \in said : \E r \in rows : x.game = <<who, r.game>> /\ x.state = r.state
                                      /\ x = [r EXCEPT !.game = <<who, r.game>>]
  BY DEF QueueRecords
<1>4. \A r \in rows : \E x \in said : x.game = <<who, r.game>>
  <2> SUFFICES ASSUME NEW r \in rows PROVE \E x \in said : x.game = <<who, r.game>>
    OBVIOUS
  <2>1. [r EXCEPT !.game = <<who, r.game>>] \in said
    OBVIOUS
  <2>2. [r EXCEPT !.game = <<who, r.game>>].game = <<who, r.game>>
    BY DEF QueueRecords
  <2> HIDE DEF said
  <2> QED BY <2>1, <2>2
<1> HIDE DEF said
<1>5. Stronger(q.best, state) \in {q.best, state}
  BY <1>1, StrongerIs
<1>6. u \in QuestionRecords
  <2>1. q.rows \cup said \subseteq RowRecords
    BY <1>2 DEF QuestionRecords
  <2>2. u = [q EXCEPT !.waits = q.waits \ {who}, !.best = Stronger(q.best, state),
                      !.rows = q.rows \cup said]
    BY DEF said
  <2>3. q.waits \ {who} \in SUBSET Providers /\ Stronger(q.best, state) \in States
    BY <1>1, <1>5
  <2> QED BY <2>1, <2>2, <2>3 DEF QuestionRecords
<1>7. /\ u.at = q.at /\ u.about = q.about /\ u.waits = q.waits \ {who} /\ u.queue = q.queue
      /\ u.best = Stronger(q.best, state) /\ u.rows = q.rows \cup said /\ u.failed = q.failed
      /\ u.of = q.of /\ u.seen = q.seen /\ u.stayed = q.stayed
  BY DEF QuestionRecords, said
<1>8. AskedNow(q, present, listed) /\ SaidSoFar(q)
  BY DEF HonestQuestion
<1>9. AskedNow(u, present, listed)
  BY <1>1, <1>2, <1>7, <1>8 DEF AskedNow
<1>10. WantedAlone(u.rows)
  <2> SUFFICES ASSUME NEW r \in u.rows, NEW s \in u.rows, r.game = s.game,
                      r.state = "requested"
               PROVE  r = s
    BY DEF WantedAlone
  <2>1. CASE r \in q.rows /\ s \in q.rows
    BY <1>8, <2>1 DEF SaidSoFar, WantedAlone
  <2>2. CASE r \in said /\ s \in said
    <3>1. PICK x \in rows : r.game = <<who, x.game>> /\ r = [x EXCEPT !.game = <<who, x.game>>]
                            /\ r.state = x.state
      BY <1>3, <2>2
    <3>2. PICK y \in rows : s.game = <<who, y.game>> /\ s = [y EXCEPT !.game = <<who, y.game>>]
      BY <1>3, <2>2
    <3>3. x.game = y.game
      <4>1. <<who, x.game>> = <<who, y.game>>
        BY <3>1, <3>2, Zenon
      <4> QED BY <4>1, Zenon
    <3>4. x.state = "requested"
      BY <3>1
    <3>5. x = y
      BY <3>3, <3>4 DEF WantedAlone
    <3> QED BY <3>1, <3>2, <3>5
  <2>3. CASE r \in q.rows /\ s \in said
    BY <1>2, <1>8, <2>3 DEF AskedNow
  <2>4. CASE r \in said /\ s \in q.rows
    BY <1>2, <1>8, <2>4 DEF AskedNow
  <2> QED BY <1>7, <2>1, <2>2, <2>3, <2>4
<1>11. \A r \in u.rows : r.state = "available" => r.game[2] \in u.seen
  <2>1. ASSUME NEW r \in said, r.state = "available" PROVE r.game[2] \in q.seen
    <3>1. PICK x \in rows : r.game = <<who, x.game>> /\ r.state = x.state
      BY <1>3
    <3> QED BY <2>1, <3>1
  <2> QED BY <1>7, <1>8, <2>1 DEF SaidSoFar
<1>12. u.best = "available" => u.about.game \in u.seen
  BY <1>5, <1>7, <1>8 DEF SaidSoFar
<1>13. u.about = Shelves /\ "romarr" \in u.of \ (u.failed \cup u.waits) =>
         \A l \in u.stayed : \E r \in u.rows : r.game = <<"romarr", l[2]>>
  <2> SUFFICES ASSUME q.about = Shelves, "romarr" \in u.of \ (u.failed \cup u.waits),
                      NEW l \in q.stayed
               PROVE  \E r \in u.rows : r.game = <<"romarr", l[2]>>
    BY <1>7
  <2>1. CASE who = "romarr"
    <3>1. PICK r \in rows : r.game = l[2]
      BY <2>1 DEF GamesIn
    <3> QED BY <1>4, <1>7, <2>1, <3>1
  <2>2. CASE who # "romarr"
    BY <1>7, <1>8, <2>2 DEF SaidSoFar
  <2> QED BY <2>1, <2>2
<1>14. SaidSoFar(u)
  BY <1>7, <1>8, <1>10, <1>11, <1>12, <1>13 DEF SaidSoFar
<1> QED BY <1>6, <1>7, <1>9, <1>14 DEF HonestQuestion

\* Somebody cannot be asked: his part of the answer is missing, and he is named.
LEMMA OneAnswerIsMissing ==
    ASSUME NEW present, NEW listed, NEW q \in QuestionRecords,
           HonestQuestion(q, present, listed), q.at = "asking", NEW who \in q.waits,
           NEW u, u = [q EXCEPT !.waits = q.waits \ {who}, !.failed = q.failed \cup {who}]
    PROVE  u \in QuestionRecords /\ HonestQuestion(u, present, listed)
<1>1. u \in QuestionRecords
  BY DEF QuestionRecords
<1>2. /\ u.at = q.at /\ u.about = q.about /\ u.waits = q.waits \ {who} /\ u.queue = q.queue
      /\ u.best = q.best /\ u.rows = q.rows /\ u.failed = q.failed \cup {who}
      /\ u.of = q.of /\ u.seen = q.seen /\ u.stayed = q.stayed
  BY DEF QuestionRecords
<1>3. AskedNow(q, present, listed) /\ SaidSoFar(q)
  BY DEF HonestQuestion
<1>4. AskedNow(u, present, listed)
  BY <1>2, <1>3 DEF AskedNow
<1>5. u.failed \cup u.waits = q.failed \cup q.waits
  BY <1>2
<1>6. SaidSoFar(u)
  BY <1>2, <1>3, <1>5 DEF SaidSoFar
<1> QED BY <1>1, <1>2, <1>4, <1>6 DEF HonestQuestion

\* The world as it is when a question is asked.
LEMMA GamesAreSomewhere ==
    ASSUME GamesInvariant
    PROVE  /\ Present \subseteq Games /\ Listed \subseteq {"queue", "wanted"} \X Games
           /\ QueueRows \in SUBSET QueueRecords /\ (\A r \in QueueRows : r.state # "requested")
           /\ ShelfRows \in SUBSET QueueRecords /\ WantedAlone(ShelfRows)
           /\ \A r \in QueueRows \cup ShelfRows : r.state = "available" => r.game \in Present
           /\ \A l \in Listed : /\ l[1] = "queue" => l[2] \in GamesIn(QueueRows)
                                /\ l[1] = "wanted" => l[2] \in wanted
           /\ \A g \in Games : Shelved(g) \in States
                               /\ (Shelved(g) = "available" => g \in Present)
<1>0. /\ underWay \in [Games -> SUBSET Stages] /\ wanted \subseteq Games
      /\ roms \in [Games -> {"no", "there", "missing"}]
  BY DEF GamesInvariant
<1>1. Present \subseteq Games /\ Listed \subseteq {"queue", "wanted"} \X Games
  BY <1>0 DEF Present, Listed
<1>2. \A stage \in Stages : LibraryState(stage) \in States \ {"requested"}
         /\ (LibraryState(stage) = "available" => stage = "imported")
  BY DEF LibraryState, Stages, States
<1>3. \A r \in QueueRows : \E stage \in underWay[r.game] :
          r.game \in Games /\ r = [game |-> r.game, state |-> LibraryState(stage)]
  <2> SUFFICES ASSUME NEW r \in QueueRows
               PROVE  \E stage \in underWay[r.game] :
                          r.game \in Games /\ r = [game |-> r.game, state |-> LibraryState(stage)]
    OBVIOUS
  <2>1. PICK g \in Games : \E stage \in underWay[g] : r = [game |-> g, state |-> LibraryState(stage)]
    BY DEF QueueRows
  <2>2. PICK stage \in underWay[g] : r = [game |-> g, state |-> LibraryState(stage)]
    BY <2>1
  <2>3. r.game = g
    BY <2>2
  <2> QED BY <2>2, <2>3
<1>4. \A r \in ShelfRows : /\ r.game \in Games
                           /\ r = [game |-> r.game, state |-> Shelved(r.game)]
  BY DEF ShelfRows
<1>5. \A g \in Games : Shelved(g) \in States /\ (Shelved(g) = "available" => g \in Present)
  BY DEF Shelved, States, Present
<1>6. QueueRows \in SUBSET QueueRecords /\ (\A r \in QueueRows : r.state # "requested")
  <2> SUFFICES ASSUME NEW r \in QueueRows PROVE r \in QueueRecords /\ r.state # "requested"
    OBVIOUS
  <2>1. PICK stage \in underWay[r.game] :
            r.game \in Games /\ r = [game |-> r.game, state |-> LibraryState(stage)]
    BY <1>3
  <2>2. stage \in Stages
    BY <1>0, <2>1
  <2> QED BY <1>2, <2>1, <2>2 DEF QueueRecords
<1>7. ShelfRows \in SUBSET QueueRecords /\ WantedAlone(ShelfRows)
  <2>1. \A r \in ShelfRows : r \in QueueRecords
    BY <1>4, <1>5 DEF QueueRecords
  <2> QED BY <1>4, <2>1 DEF WantedAlone
<1>8. \A r \in QueueRows \cup ShelfRows : r.state = "available" => r.game \in Present
  <2>1. ASSUME NEW r \in QueueRows, r.state = "available" PROVE r.game \in Present
    <3>1. PICK stage \in underWay[r.game] :
              r.game \in Games /\ r = [game |-> r.game, state |-> LibraryState(stage)]
      BY <1>3
    <3>2. stage \in Stages /\ LibraryState(stage) = "available"
      BY <1>0, <2>1, <3>1
    <3> QED BY <1>2, <3>1, <3>2 DEF Present
  <2>2. ASSUME NEW r \in ShelfRows PROVE r.game \in Games /\ r.state = Shelved(r.game)
    <3>1. r.game \in Games /\ r = [game |-> r.game, state |-> Shelved(r.game)]
      BY <1>4
    <3> QED BY <3>1
  <2> HIDE DEF Present
  <2> QED BY <1>5, <2>1, <2>2
<1>9. \A g \in Games : underWay[g] # {} => g \in GamesIn(QueueRows)
  <2> SUFFICES ASSUME NEW g \in Games, NEW stage \in underWay[g]
               PROVE  g \in GamesIn(QueueRows)
    OBVIOUS
  <2>1. PICK r : r = [game |-> g, state |-> LibraryState(stage)]
    OBVIOUS
  <2>2. PICK T : T = {[game |-> g, state |-> LibraryState(x)] : x \in underWay[g]}
    OBVIOUS
  <2>3. r \in T
    BY <2>1, <2>2
  <2>4. r \in QueueRows
    BY <2>2, <2>3 DEF QueueRows
  <2>5. r.game = g
    BY <2>1
  <2> QED BY <2>4, <2>5 DEF GamesIn
<1>10. \A l \in Listed : /\ l[1] = "queue" => l[2] \in GamesIn(QueueRows)
                         /\ l[1] = "wanted" => l[2] \in wanted
  BY <1>0, <1>9 DEF Listed
<1> HIDE DEF Present, Listed
<1> QED BY <1>1, <1>5, <1>6, <1>7, <1>8, <1>10

\* One person's question changes, and nothing else that is told.
LEMMA OneGamerAsks ==
    ASSUME GamesInvariant, NEW p \in Gamers, NEW u \in QuestionRecords,
           HonestQuestion(u, Present, Listed), gamer' = [gamer EXCEPT ![p] = u],
           UNCHANGED <<underWay, wanted, roms, playOK>>,
           troubles' \in 0..MaxTroubles, TokenLasts(token')
    PROVE  GamesInvariant'
<1>1. Present' = Present /\ Listed' = Listed
  BY DEF Present, Listed
<1>2. gamer' \in [Gamers -> QuestionRecords]
  BY DEF GamesInvariant
<1>3. \A x \in Gamers : HonestQuestion(gamer'[x], Present, Listed)
  BY DEF GamesInvariant
<1> QED BY <1>1, <1>2, <1>3 DEF GamesInvariant

LEMMA GamesAreAskedFor ==
    ASSUME GamesInvariant, NEW p \in Gamers,
           \/ \E id \in GameIds : AskDetails(p, id) \/ \E of \in OneOrAll : AskStatus(p, id, of)
           \/ \E of \in OneOrAll : AskShelves(p, of)
           \/ SearchGames(p) \/ GameAnswered(p) \/ AskNoMore(p)
    PROVE  GamesInvariant'
<1>0. gamer[p] \in QuestionRecords /\ gamer \in [Gamers -> QuestionRecords]
      /\ HonestQuestion(gamer[p], Present, Listed) /\ troubles \in 0..MaxTroubles /\ TokenLasts(token)
  BY DEF GamesInvariant
<1>1. ASSUME NEW about \in GameIds \cup {Shelves}, NEW of \in OneOrAll,
             gamer' = [gamer EXCEPT ![p] = Asked(p, about, of)],
             UNCHANGED <<underWay, wanted, roms, token, playOK, troubles>>
      PROVE  GamesInvariant'
  <2> DEFINE u == Asked(p, about, of)
  <2>1. of \in SUBSET Providers
    BY DEF OneOrAll, Providers
  <2>2. Present \subseteq Games /\ Listed \subseteq {"queue", "wanted"} \X Games
    BY GamesAreSomewhere
  <2>3. u \in QuestionRecords
    BY <2>1, <2>2, NoQuestionIsHonest DEF Asked, QuestionRecords
  <2>4. /\ u.at = "asking" /\ u.about = about /\ u.waits = of /\ u.of = of /\ u.seen = Present
        /\ u.stayed = Listed /\ u.failed = {} /\ u.rows = {} /\ u.best = "unknown"
        /\ u.queue = NoList
    BY DEF Asked, NoQuestion
  <2> HIDE DEF u
  <2>5. AskedNow(u, Present, Listed)
    BY <2>4 DEF AskedNow
  <2>6. NoList.read = FALSE /\ NoList.rows = {}
    BY DEF NoList
  <2>7. SaidSoFar(u)
    BY <2>4, <2>6, Zenon DEF SaidSoFar, WantedAlone
  <2>8. HonestQuestion(u, Present, Listed)
    BY <2>4, <2>5, <2>7 DEF HonestQuestion
  <2> QED BY <1>0, <1>1, <2>3, <2>8, OneGamerAsks DEF u
<1>2. ASSUME NEW u \in QuestionRecords, HonestQuestion(u, Present, Listed),
             gamer' = [gamer EXCEPT ![p] = u],
             UNCHANGED <<underWay, wanted, roms, token, playOK, troubles>>
      PROVE  GamesInvariant'
  BY <1>0, <1>2, OneGamerAsks
<1>3. ASSUME NEW id \in GameIds, NEW of \in OneOrAll, AskStatus(p, id, of) PROVE GamesInvariant'
  BY <1>1, <1>3 DEF AskStatus
<1>4. ASSUME NEW of \in OneOrAll, AskShelves(p, of) PROVE GamesInvariant'
  BY <1>1, <1>4 DEF AskShelves
<1>5. ASSUME NEW id \in GameIds, AskDetails(p, id) PROVE GamesInvariant'
  <2>1. Playable(id) \in BOOLEAN
    BY DEF Playable, GamesInvariant
  <2> DEFINE u == [NoQuestion EXCEPT !.at = "told", !.about = id, !.play = Playable(id)]
  <2>2. u \in QuestionRecords
    BY <2>1, NoQuestionIsHonest DEF QuestionRecords
  <2>3. /\ u.at = "told" /\ u.waits = {} /\ u.failed = {} /\ u.of = {} /\ u.rows = {}
        /\ u.queue = NoList /\ u.best = "unknown" /\ NoList.read = FALSE /\ NoList.rows = {}
    BY DEF NoQuestion, NoList
  <2>4. gamer' = [gamer EXCEPT ![p] = u]
        /\ UNCHANGED <<underWay, wanted, roms, token, playOK, troubles>>
    BY <1>5 DEF AskDetails
  <2> HIDE DEF u
  <2>5. SaidSoFar(u)
    BY <2>3, Zenon DEF SaidSoFar, WantedAlone
  <2>6. HonestQuestion(u, Present, Listed)
    BY <2>3, <2>5 DEF HonestQuestion
  <2> QED BY <1>2, <2>2, <2>4, <2>6
<1>6. CASE SearchGames(p)
  <2> DEFINE rows == {[game |-> <<"release", g>>, state |-> "missing"] : g \in Games}
             u == [NoQuestion EXCEPT !.at = "told", !.rows = rows]
  <2>1. /\ \A r \in rows : r \in RowRecords /\ r.state = "missing"
        /\ \A r, s \in rows : r.game = s.game => r = s
    BY DEF RowRecords, States
  <2>2. gamer' = [gamer EXCEPT ![p] = u]
        /\ UNCHANGED <<underWay, wanted, roms, token, playOK, troubles>>
    BY <1>6 DEF SearchGames
  <2> HIDE DEF rows
  <2>3. u \in QuestionRecords
    BY <2>1, NoQuestionIsHonest DEF QuestionRecords
  <2>4. /\ u.at = "told" /\ u.waits = {} /\ u.failed = {} /\ u.of = {} /\ u.rows = rows
        /\ u.queue = NoList /\ u.best = "unknown" /\ NoList.read = FALSE /\ NoList.rows = {}
    BY DEF NoQuestion, NoList
  <2> HIDE DEF u
  <2>5. SaidSoFar(u)
    BY <2>1, <2>4, Zenon DEF SaidSoFar, WantedAlone
  <2>6. HonestQuestion(u, Present, Listed)
    BY <2>4, <2>5 DEF HonestQuestion
  <2> QED BY <1>2, <2>2, <2>3, <2>6
<1>7. CASE GameAnswered(p)
  <2>1. PICK q \in QuestionRecords : q = gamer[p]
    BY <1>0
  <2> DEFINE u == [q EXCEPT !.at = "told"]
  <2>2. q.waits = {} /\ gamer' = [gamer EXCEPT ![p] = u]
        /\ UNCHANGED <<underWay, wanted, roms, token, playOK, troubles>>
    BY <1>0, <1>7, <2>1 DEF GameAnswered
  <2>3. u \in QuestionRecords
    BY DEF QuestionRecords
  <2>4. /\ u.at = "told" /\ u.about = q.about /\ u.waits = q.waits /\ u.queue = q.queue
        /\ u.best = q.best /\ u.rows = q.rows /\ u.failed = q.failed
        /\ u.of = q.of /\ u.seen = q.seen /\ u.stayed = q.stayed
    BY DEF QuestionRecords
  <2> HIDE DEF u
  <2>5. HonestQuestion(u, Present, Listed)
    BY <1>0, <2>1, <2>2, <2>4 DEF HonestQuestion, SaidSoFar
  <2> QED BY <1>2, <2>2, <2>3, <2>5
<1>8. CASE AskNoMore(p)
  BY <1>2, <1>8, NoQuestionIsHonest DEF AskNoMore
<1> QED BY <1>3, <1>4, <1>5, <1>6, <1>7, <1>8

LEMMA AnswersAreHeard ==
    ASSUME GamesInvariant, NEW p \in Gamers,
           \/ \E who \in Providers : Falters(p, who) \/ NotMine(p, who)
           \/ ReadQueue(p) \/ ReadWanted(p) \/ ReadShelf(p)
    PROVE  GamesInvariant'
<1>0. gamer \in [Gamers -> QuestionRecords] /\ troubles \in 0..MaxTroubles /\ TokenLasts(token)
  BY DEF GamesInvariant
<1>1. PICK q \in QuestionRecords : q = gamer[p]
  BY <1>0
<1>2. HonestQuestion(q, Present, Listed)
  BY <1>1 DEF GamesInvariant
<1>3. q.at = "asking"
  BY <1>1 DEF Falters, NotMine, ReadQueue, ReadWanted, ReadShelf
<1>4. AskedNow(q, Present, Listed) /\ SaidSoFar(q)
  BY <1>2, <1>3 DEF HonestQuestion
<1>5. UNCHANGED <<underWay, wanted, roms, playOK>>
  BY DEF Falters, NotMine, ReadQueue, ReadWanted, ReadShelf
<1>6. ASSUME NEW u \in QuestionRecords, HonestQuestion(u, Present, Listed),
             gamer' = [gamer EXCEPT ![p] = u], troubles' \in 0..MaxTroubles, TokenLasts(token')
      PROVE  GamesInvariant'
  BY <1>5, <1>6, OneGamerAsks
\* What is said, and what it takes for it to be true.
<1>7. ASSUME NEW who \in q.waits, NEW state \in States, NEW rows \in SUBSET QueueRecords,
             WantedAlone(rows), \A r \in rows : r.state = "available" => r.game \in q.seen,
             state = "available" => q.about.game \in q.seen,
             who = "romarr" /\ q.about = Shelves => \A l \in q.stayed : l[2] \in GamesIn(rows),
             Says(p, who, state, rows), troubles' \in 0..MaxTroubles, TokenLasts(token')
      PROVE  GamesInvariant'
  <2> DEFINE u == [q EXCEPT !.waits = q.waits \ {who}, !.best = Stronger(q.best, state),
                            !.rows = q.rows \cup {[r EXCEPT !.game = <<who, r.game>>] :
                                                     r \in rows}]
  <2>1. u \in QuestionRecords /\ HonestQuestion(u, Present, Listed)
    BY <1>2, <1>3, <1>7, OneAnswerIsHeard
  <2>2. gamer' = [gamer EXCEPT ![p] = u]
    BY <1>0, <1>1, <1>7 DEF Says
  <2> HIDE DEF u
  <2> QED BY <1>6, <1>7, <2>1, <2>2
<1>8. ASSUME NEW who \in q.waits,
             gamer' = [gamer EXCEPT ![p].waits = @ \ {who}, ![p].failed = @ \cup {who}],
             troubles' \in 0..MaxTroubles, TokenLasts(token')
      PROVE  GamesInvariant'
  <2> DEFINE u == [q EXCEPT !.waits = q.waits \ {who}, !.failed = q.failed \cup {who}]
  <2>1. u \in QuestionRecords /\ HonestQuestion(u, Present, Listed)
    BY <1>2, <1>3, <1>8, OneAnswerIsMissing
  <2>2. gamer' = [gamer EXCEPT ![p] = u]
    BY <1>0, <1>1, <1>8
  <2> HIDE DEF u
  <2> QED BY <1>6, <1>8, <2>1, <2>2
<1>9. WantedAlone({}) /\ "unknown" \in States
  BY DEF WantedAlone, States
<1>10. ASSUME NEW who \in Providers, Falters(p, who) PROVE GamesInvariant'
  <2>1. \A n \in 0..MaxTroubles : n < MaxTroubles => n + 1 \in 0..MaxTroubles
    BY GameAssumption
  <2>2. troubles' \in 0..MaxTroubles
    BY <1>0, <1>10, <2>1 DEF Falters
  <2>3. who \in q.waits /\ token' = token
    BY <1>1, <1>10 DEF Falters
  <2> QED BY <1>0, <1>8, <1>10, <2>2, <2>3 DEF Falters
<1>11. ASSUME NEW who \in Providers, NotMine(p, who) PROVE GamesInvariant'
  <2>1. who \in q.waits /\ q.about # Shelves /\ Says(p, who, "unknown", {})
        /\ troubles' \in 0..MaxTroubles /\ TokenLasts(token')
    BY <1>0, <1>1, <1>11 DEF NotMine, Foreign
  <2> QED BY <1>7, <1>9, <2>1
<1>12. CASE ReadQueue(p)
  <2> DEFINE u == [q EXCEPT !.queue = [read |-> TRUE, rows |-> QueueRows]]
  <2>1. /\ QueueRows \in SUBSET QueueRecords /\ (\A r \in QueueRows : r.state # "requested")
        /\ \A r \in QueueRows : r.state = "available" => r.game \in Present
        /\ \A l \in Listed : l[1] = "queue" => l[2] \in GamesIn(QueueRows)
    BY GamesAreSomewhere
  <2>2. gamer' = [gamer EXCEPT ![p] = u] /\ UNCHANGED <<token, troubles>>
    BY <1>0, <1>1, <1>12 DEF ReadQueue
  <2>3. u \in QuestionRecords
    BY <2>1 DEF QuestionRecords
  <2>4. /\ u.at = q.at /\ u.about = q.about /\ u.waits = q.waits /\ u.queue.rows = QueueRows
        /\ u.best = q.best /\ u.rows = q.rows /\ u.failed = q.failed
        /\ u.of = q.of /\ u.seen = q.seen /\ u.stayed = q.stayed
    BY DEF QuestionRecords
  <2> HIDE DEF u
  <2>5. /\ \A l \in u.stayed : l[1] = "queue" => l[2] \in GamesIn(u.queue.rows)
        /\ \A r \in u.queue.rows : r.state = "available" => r.game \in u.seen
    BY <1>4, <2>1, <2>4 DEF AskedNow
  <2>6. SaidSoFar(u)
    BY <1>4, <2>1, <2>4, <2>5 DEF SaidSoFar
  <2>7. HonestQuestion(u, Present, Listed)
    BY <1>2, <1>3, <1>4, <2>4, <2>6 DEF HonestQuestion, AskedNow
  <2> QED BY <1>0, <1>6, <2>2, <2>3, <2>7
<1>13. CASE ReadWanted(p)
  <2>1. PICK rows : rows = q.queue.rows
    OBVIOUS
  <2>2. /\ rows \in SUBSET QueueRecords /\ (\A r \in rows : r.state # "requested")
        /\ q.queue.read
        /\ \A r \in rows : r.state = "available" => r.game \in q.seen
        /\ "romarr" \in q.waits /\ troubles' \in 0..MaxTroubles /\ TokenLasts(token')
    BY <1>0, <1>1, <1>4, <1>13, <2>1 DEF ReadWanted, QuestionRecords, SaidSoFar
  <2>3. CASE q.about = Shelves
    <3>1. Says(p, "romarr", "unknown", Ledger(rows))
      BY <1>1, <1>13, <2>1, <2>3 DEF ReadWanted
    <3>2. /\ \A r \in Ledger(rows) : \/ r \in rows
                                     \/ /\ r.game \in wanted /\ r.game \notin GamesIn(rows)
                                        /\ r = [game |-> r.game, state |-> "requested"]
          /\ wanted \subseteq Games
      BY DEF Ledger, GamesInvariant
    <3>3. \A r \in rows : r.game \in GamesIn(rows)
      BY DEF GamesIn
    <3>4. Ledger(rows) \in SUBSET QueueRecords
      BY <2>2, <3>2 DEF QueueRecords, States
    <3>5. WantedAlone(Ledger(rows))
      BY <2>2, <3>2, <3>3 DEF WantedAlone
    <3>6. \A r \in Ledger(rows) : r.state = "available" => r.game \in q.seen
      <4>1. \A r \in Ledger(rows) : r.state = "available" => r \in rows
        BY <3>2
      <4> QED BY <2>2, <4>1
    <3>7. \A g : g \in GamesIn(rows) \/ g \in wanted => g \in GamesIn(Ledger(rows))
      <4>1. ASSUME NEW g \in wanted, g \notin GamesIn(rows) PROVE g \in GamesIn(Ledger(rows))
        <5>1. PICK r \in Ledger(rows) : r = [game |-> g, state |-> "requested"]
          BY <4>1 DEF Ledger
        <5>2. r.game = g
          BY <5>1
        <5> QED BY <5>2 DEF GamesIn
      <4>2. ASSUME NEW g \in GamesIn(rows) PROVE g \in GamesIn(Ledger(rows))
        BY DEF GamesIn, Ledger
      <4> QED BY <4>1, <4>2
    <3>8. \A l \in q.stayed : l[2] \in GamesIn(Ledger(rows))
      <4> SUFFICES ASSUME NEW l \in q.stayed PROVE l[2] \in GamesIn(Ledger(rows))
        OBVIOUS
      <4>1. l \in Listed /\ l[1] \in {"queue", "wanted"}
        BY <1>4 DEF AskedNow, QuestionRecords
      <4>2. l[1] = "queue" => l[2] \in GamesIn(rows)
        BY <1>4, <2>1, <2>2 DEF SaidSoFar
      <4>3. l[1] = "wanted" => l[2] \in wanted
        BY <4>1, GamesAreSomewhere
      <4> QED BY <3>7, <4>1, <4>2, <4>3
    <3> QED BY <1>7, <1>9, <2>2, <3>1, <3>4, <3>5, <3>6, <3>8
  <2>4. CASE q.about # Shelves
    <3>1. PICK s \in StatusOf(q.about.game, rows) : Says(p, "romarr", s, {})
      BY <1>1, <1>13, <2>1, <2>4 DEF ReadWanted
    <3>2. Says(p, "romarr", s, {})
      BY <3>1
    <3>3. CASE q.about.game \in GamesIn(rows)
      <4>1. PICK r \in rows : r.game = q.about.game /\ r.state = s
        <5> QED BY <3>1, <3>3 DEF StatusOf
      <4>2. s \in States /\ (s = "available" => q.about.game \in q.seen)
        BY <2>2, <4>1 DEF QueueRecords
      <4> QED BY <1>7, <1>9, <2>2, <2>4, <3>2, <4>2
    <3>4. CASE q.about.game \notin GamesIn(rows)
      <4>1. s \in {"requested", "unknown"}
        BY <3>1, <3>4 DEF StatusOf
      <4>2. s \in States /\ s # "available"
        BY <4>1 DEF States
      <4> QED BY <1>7, <1>9, <2>2, <2>4, <3>2, <4>2
    <3> QED BY <3>3, <3>4
  <2> QED BY <2>3, <2>4
<1>14. CASE ReadShelf(p)
  <2>1. "romm" \in q.waits /\ ~Foreign(p, "romm") /\ troubles' \in 0..MaxTroubles
    BY <1>0, <1>1, <1>14 DEF ReadShelf
  <2>2. TokenLasts(token')
    <3>1. TokenLasts([renew |-> RenewedAfter(TokenLife), good |-> TokenLife])
      BY GameAssumption DEF TokenLasts, TokenRecords, RenewedAfter
    <3> QED BY <1>0, <1>14, <3>1 DEF ReadShelf
  <2>3. CASE token'.good = 0
    BY <1>8, <1>14, <2>1, <2>2, <2>3 DEF ReadShelf
  <2>4. CASE token'.good # 0 /\ q.about = Shelves
    <3>1. Says(p, "romm", "unknown", ShelfRows)
      BY <1>1, <1>14, <2>4 DEF ReadShelf
    <3>2. ShelfRows \in SUBSET QueueRecords /\ WantedAlone(ShelfRows)
          /\ \A r \in ShelfRows : r.state = "available" => r.game \in q.seen
      BY <1>4, GamesAreSomewhere DEF AskedNow
    <3> QED BY <1>7, <1>9, <2>1, <2>2, <3>1, <3>2
  <2>5. CASE token'.good # 0 /\ q.about # Shelves
    <3>1. PICK s : s = Shelved(q.about.game)
      OBVIOUS
    <3>2. Says(p, "romm", s, {})
      BY <1>1, <1>14, <2>5, <3>1 DEF ReadShelf
    <3>3. q.about.game \in Games
      BY <1>4, <2>5 DEF AskedNow, GameIds
    <3>4. s \in States /\ (s = "available" => q.about.game \in q.seen)
      BY <1>4, <3>1, <3>3, GamesAreSomewhere DEF AskedNow
    <3> QED BY <1>7, <1>9, <2>1, <2>2, <3>2, <3>4
  <2> QED BY <2>3, <2>4, <2>5
<1> QED BY <1>10, <1>11, <1>12, <1>13, <1>14

\* Romarr and RomM go on, and whoever is asking may have seen what was and what is.
LEMMA GamesGoOn ==
    ASSUME GamesInvariant, Witnessed, UNCHANGED <<token, playOK, troubles>>,
           underWay' \in [Games -> SUBSET Stages], wanted' \subseteq Games,
           roms' \in [Games -> {"no", "there", "missing"}]
    PROVE  GamesInvariant'
<1>1. Present' \subseteq Games
  BY DEF Present
<1>2. PICK present, listed : present = Present' /\ listed = Listed'
  OBVIOUS
<1> DEFINE Seen(q) == [q EXCEPT !.seen = q.seen \cup present, !.stayed = q.stayed \cap listed]
<1>3. ASSUME NEW q \in QuestionRecords, HonestQuestion(q, Present, Listed), q.at = "asking"
      PROVE  Seen(q) \in QuestionRecords /\ HonestQuestion(Seen(q), present, listed)
  <2>1. PICK u : u = Seen(q)
    OBVIOUS
  <2>2. u \in QuestionRecords
    BY <1>1, <1>2, <2>1 DEF QuestionRecords
  <2>3. /\ u.at = q.at /\ u.about = q.about /\ u.waits = q.waits /\ u.queue = q.queue
        /\ u.best = q.best /\ u.rows = q.rows /\ u.failed = q.failed
        /\ u.of = q.of /\ u.seen = q.seen \cup present /\ u.stayed = q.stayed \cap listed
    BY <2>1 DEF QuestionRecords
  <2>4. AskedNow(u, present, listed)
    BY <1>3, <2>3 DEF HonestQuestion, AskedNow
  <2>5. SaidSoFar(u)
    BY <1>3, <2>3 DEF HonestQuestion, SaidSoFar
  <2> QED BY <1>3, <2>1, <2>2, <2>3, <2>4, <2>5 DEF HonestQuestion
<1>4. ASSUME NEW q, HonestQuestion(q, Present, Listed), q.at # "asking"
      PROVE  HonestQuestion(q, present, listed)
  BY <1>4 DEF HonestQuestion
<1>5. gamer' = [p \in Gamers |-> IF gamer[p].at = "asking" THEN Seen(gamer[p]) ELSE gamer[p]]
  BY <1>2 DEF Witnessed
<1> HIDE DEF Seen
<1>6. \A p \in Gamers : gamer[p] \in QuestionRecords /\ HonestQuestion(gamer[p], Present, Listed)
  BY DEF GamesInvariant
<1>7. \A p \in Gamers : gamer'[p] \in QuestionRecords /\ HonestQuestion(gamer'[p], present, listed)
  BY <1>3, <1>4, <1>5, <1>6
<1>8. gamer' \in [Gamers -> QuestionRecords]
  BY <1>5, <1>7
<1> QED BY <1>2, <1>7, <1>8 DEF GamesInvariant

LEMMA GamesStay == GamesInvariant /\ [GamesNext]_gameVars => GamesInvariant'
<1> SUFFICES ASSUME GamesInvariant, [GamesNext]_gameVars PROVE GamesInvariant'
  OBVIOUS
<1>0. /\ underWay \in [Games -> SUBSET Stages] /\ wanted \subseteq Games
      /\ roms \in [Games -> {"no", "there", "missing"}]
      /\ playOK \in BOOLEAN /\ troubles \in 0..MaxTroubles /\ TokenLasts(token)
      /\ gamer \in [Gamers -> QuestionRecords]
      /\ \A p \in Gamers : HonestQuestion(gamer[p], Present, Listed)
  BY DEF GamesInvariant
<1>1. ASSUME UNCHANGED <<underWay, wanted, roms>>, playOK' \in BOOLEAN,
             troubles' \in 0..MaxTroubles, TokenLasts(token'),
             gamer' = gamer \/ gamer' = [p \in Gamers |-> NoQuestion]
      PROVE  GamesInvariant'
  <2>1. Present' = Present /\ Listed' = Listed
    BY <1>1 DEF Present, Listed
  <2>2. gamer' \in [Gamers -> QuestionRecords]
    BY <1>0, <1>1, NoQuestionIsHonest
  <2>3. \A p \in Gamers : HonestQuestion(gamer'[p], Present, Listed)
    BY <1>0, <1>1, NoQuestionIsHonest
  <2> QED BY <1>0, <1>1, <2>1, <2>2, <2>3 DEF GamesInvariant
<1>2. CASE TokenAges
  <2>1. \A n \in Nat : Less(n) \in Nat /\ (Less(n) > 0 => n > 0 /\ Less(n) = n - 1)
    BY DEF Less
  <2>2. token \in TokenRecords /\ (token.renew > 0 => token.good \in {0, token.renew + Margin})
    BY <1>0 DEF TokenLasts
  <2>3. token'.renew = Less(token.renew) /\ token'.good = Less(token.good)
        /\ token' \in TokenRecords
    BY <1>2, <2>1, <2>2 DEF TokenAges, TokenRecords
  <2>4. ASSUME token'.renew > 0 PROVE token'.good \in {0, token'.renew + Margin}
    <3>1. token.renew \in Nat /\ token.good \in Nat /\ Margin \in Nat
      BY <2>2, GameAssumption DEF TokenRecords
    <3>2. token.renew > 0 /\ token'.renew = token.renew - 1
      BY <2>1, <2>3, <2>4, <3>1
    <3>3. CASE token.good = 0
      BY <2>3, <3>3 DEF Less
    <3>4. CASE token.good = token.renew + Margin
      BY <2>3, <3>1, <3>2, <3>4 DEF Less
    <3> QED BY <2>2, <3>2, <3>3, <3>4
  <2>5. TokenLasts(token')
    BY <2>3, <2>4 DEF TokenLasts
  <2> QED BY <1>0, <1>1, <1>2, <2>5 DEF TokenAges
<1>3. CASE RommForgets
  <2>1. TokenLasts(token')
    BY <1>0, <1>3 DEF RommForgets, TokenLasts, TokenRecords
  <2>2. \A n \in 0..MaxTroubles : n < MaxTroubles => n + 1 \in 0..MaxTroubles
    BY GameAssumption
  <2>3. troubles' \in 0..MaxTroubles /\ UNCHANGED <<underWay, wanted, roms, playOK, gamer>>
    BY <1>0, <1>3, <2>2 DEF RommForgets
  <2> QED BY <1>0, <1>1, <2>1, <2>3
<1>4. CASE GamesRestart
  <2>1. TokenLasts(NoToken)
    BY GameAssumption DEF NoToken, TokenLasts, TokenRecords
  <2> QED BY <1>0, <1>1, <1>4, <2>1 DEF GamesRestart, VerifyPlay
<1>5. ASSUME NEW g \in Games, GoesOn(g) PROVE GamesInvariant'
  <2>1. Witnessed /\ UNCHANGED <<token, playOK, troubles>>
    BY <1>5 DEF GoesOn
  <2>2. /\ underWay' \in [Games -> SUBSET Stages] /\ wanted' \subseteq Games
        /\ roms' \in [Games -> {"no", "there", "missing"}]
    <3>1. CASE Grab(g)
      BY <1>0, <3>1 DEF Grab, Stages
    <3>2. CASE FileLost(g)
      BY <1>0, <3>2 DEF FileLost
    <3>3. ASSUME NEW from \in Stages, NEW stage \in Stages \cup {"no"}, Proceed(g, from, stage)
          PROVE  /\ underWay' \in [Games -> SUBSET Stages] /\ wanted' \subseteq Games
                 /\ roms' \in [Games -> {"no", "there", "missing"}]
      BY <1>0, <3>3 DEF Proceed
    <3> QED BY <1>5, <3>1, <3>2, <3>3 DEF GoesOn
  <2> QED BY <2>1, <2>2, GamesGoOn
<1>6. ASSUME NEW p \in Gamers, NEW id \in GameIds, RequestGame(p, id) PROVE GamesInvariant'
  <2>1. Witnessed /\ UNCHANGED <<roms, token, playOK, troubles>> /\ Obtained(id)
    BY <1>6 DEF RequestGame
  <2>2. underWay' \in [Games -> SUBSET Stages] /\ wanted' \subseteq Games
    BY <1>0, <2>1 DEF Obtained, GameIds, Stages
  <2> QED BY <1>0, <2>1, <2>2, GamesGoOn
<1>7. ASSUME NEW p \in Gamers,
             \/ \E id \in GameIds : AskDetails(p, id) \/ \E of \in OneOrAll : AskStatus(p, id, of)
             \/ \E of \in OneOrAll : AskShelves(p, of)
             \/ SearchGames(p) \/ GameAnswered(p) \/ AskNoMore(p)
      PROVE  GamesInvariant'
  BY <1>7, GamesAreAskedFor
<1>8. ASSUME NEW p \in Gamers,
             \/ \E who \in Providers : Falters(p, who) \/ NotMine(p, who)
             \/ ReadQueue(p) \/ ReadWanted(p) \/ ReadShelf(p)
      PROVE  GamesInvariant'
  BY <1>8, AnswersAreHeard
<1>9. CASE UNCHANGED gameVars
  BY <1>0, <1>1, <1>9 DEF gameVars
<1> QED BY <1>2, <1>3, <1>4, <1>5, <1>6, <1>7, <1>8, <1>9 DEF GamesNext

LEMMA GamesStart == GamesInit => GamesInvariant
<1> SUFFICES ASSUME GamesInit PROVE GamesInvariant
  OBVIOUS
<1>1. TokenLasts(NoToken)
  BY GameAssumption DEF NoToken, TokenLasts, TokenRecords
<1>2. gamer \in [Gamers -> QuestionRecords]
      /\ \A p \in Gamers : HonestQuestion(gamer[p], Present, Listed)
  BY NoQuestionIsHonest DEF GamesInit
<1> QED BY <1>1, <1>2, GameAssumption DEF GamesInit, GamesInvariant

LEMMA HonestyFollows == GamesInvariant => LedgerIsHonest /\ GamesTypeOK
<1> SUFFICES ASSUME GamesInvariant PROVE LedgerIsHonest /\ GamesTypeOK
  OBVIOUS
<1>1. ASSUME NEW p \in Gamers, gamer[p].at = "told"
      PROVE  /\ \A r, s \in gamer[p].rows : r.game = s.game /\ r.state = "requested" => r = s
             /\ gamer[p].about = Shelves /\ "romarr" \in gamer[p].of \ gamer[p].failed =>
                  {l[2] : l \in gamer[p].stayed} \subseteq InLedger(p)
             /\ \A r \in gamer[p].rows : r.state = "available" => r.game[2] \in gamer[p].seen
             /\ gamer[p].best = "available" => gamer[p].about.game \in gamer[p].seen
  <2>1. HonestQuestion(gamer[p], Present, Listed)
    BY DEF GamesInvariant
  <2>2. SaidSoFar(gamer[p]) /\ gamer[p].waits = {}
    BY <1>1, <2>1 DEF HonestQuestion
  <2>3. ASSUME gamer[p].about = Shelves, "romarr" \in gamer[p].of \ gamer[p].failed,
               NEW l \in gamer[p].stayed
        PROVE  l[2] \in InLedger(p)
    <3>1. PICK r \in gamer[p].rows : r.game = <<"romarr", l[2]>>
      BY <2>2, <2>3 DEF SaidSoFar
    <3>2. r.game[1] = "romarr" /\ r.game[2] = l[2]
      BY <3>1
    <3> QED BY <3>2 DEF InLedger
  <2> QED BY <2>2, <2>3 DEF SaidSoFar, WantedAlone
<1>2. LedgerIsHonest
  BY <1>1 DEF LedgerIsHonest
<1>3. GamesTypeOK
  BY DEF GamesInvariant, GamesTypeOK, TokenLasts, HonestQuestion, QuestionRecords
<1> QED BY <1>2, <1>3

\* For any number of games and people: however Romarr moves what it fetches between its lists
\* while they are read, a game under way is not listed as wanted as well, no game that stayed
\* on either of them is missed, and one is available only if it was (provider_romarr.go, Library and LibraryStatus).
THEOREM LedgersAreHonest == GamesSpec => [](LedgerIsHonest /\ GamesTypeOK)
<1> QED BY GamesStart, GamesStay, HonestyFollows, PTL DEF GamesSpec

-----------------------------------------------------------------------------
(* The settings screen and the activity screen.                            *)

\* A ladder says what its first rung with a verdict says.
LEMMA ClimbSays ==
    ASSUME NEW n \in Nat, NEW rungs, DOMAIN rungs = 1..n
    PROVE  /\ (\A j \in 1..n : rungs[j] = "next") => Climb(rungs) = "next"
           /\ \A i \in 1..n :
                 rungs[i] # "next" /\ (\A j \in 1..n : j < i => rungs[j] = "next")
                 => Climb(rungs) = rungs[i]
<1> DEFINE told == {j \in DOMAIN rungs : rungs[j] # "next"}
<1>1. (\A j \in 1..n : rungs[j] = "next") => Climb(rungs) = "next"
  BY DEF Climb
<1>2. ASSUME NEW i \in 1..n, rungs[i] # "next", \A j \in 1..n : j < i => rungs[j] = "next"
      PROVE  Climb(rungs) = rungs[i]
  <2>1. i \in told /\ \A j \in told : i <= j
    BY <1>2
  <2>2. \A k \in told : (\A j \in told : k <= j) => k = i
    BY <2>1
  <2>3. (CHOOSE k \in told : \A j \in told : k <= j) = i
    BY <2>1, <2>2
  <2> QED BY <2>1, <2>3 DEF Climb
<1> QED BY <1>1, <1>2

Else(a, b) == IF a # "next" THEN a ELSE b

LEMMA Climb3 ==
    ASSUME NEW a, NEW b, NEW c
    PROVE  Climb(<<a, b, c>>) = Else(a, Else(b, c))
<1> DEFINE rungs == <<a, b, c>>
<1>1. DOMAIN rungs = 1..3 /\ rungs[1] = a /\ rungs[2] = b /\ rungs[3] = c
  OBVIOUS
<1> HIDE DEF rungs
<1>2. 3 \in Nat /\ DOMAIN rungs = 1..3
  BY <1>1
<1>3. /\ (\A j \in 1..3 : rungs[j] = "next") => Climb(rungs) = "next"
      /\ \A i \in 1..3 :
            rungs[i] # "next" /\ (\A j \in 1..3 : j < i => rungs[j] = "next")
            => Climb(rungs) = rungs[i]
  BY <1>2, ClimbSays
<1>4. Climb(rungs) = Else(a, Else(b, c))
  BY <1>1, <1>3 DEF Else
<1> QED BY <1>4 DEF rungs

LEMMA Climb4 ==
    ASSUME NEW a, NEW b, NEW c, NEW d
    PROVE  Climb(<<a, b, c, d>>) = Else(a, Else(b, Else(c, d)))
<1> DEFINE rungs == <<a, b, c, d>>
<1>1. DOMAIN rungs = 1..4 /\ rungs[1] = a /\ rungs[2] = b /\ rungs[3] = c /\ rungs[4] = d
  OBVIOUS
<1> HIDE DEF rungs
<1>2. 4 \in Nat /\ DOMAIN rungs = 1..4
  BY <1>1
<1>3. /\ (\A j \in 1..4 : rungs[j] = "next") => Climb(rungs) = "next"
      /\ \A i \in 1..4 :
            rungs[i] # "next" /\ (\A j \in 1..4 : j < i => rungs[j] = "next")
            => Climb(rungs) = rungs[i]
  BY <1>2, ClimbSays
<1>4. Climb(rungs) = Else(a, Else(b, Else(c, d)))
  BY <1>1, <1>3 DEF Else
<1> QED BY <1>4 DEF rungs

LEMMA Climb5 ==
    ASSUME NEW a, NEW b, NEW c, NEW d, NEW e
    PROVE  Climb(<<a, b, c, d, e>>) = Else(a, Else(b, Else(c, Else(d, e))))
<1> DEFINE rungs == <<a, b, c, d, e>>
<1>1. DOMAIN rungs = 1..5 /\ rungs[1] = a /\ rungs[2] = b /\ rungs[3] = c /\ rungs[4] = d /\ rungs[5] = e
  OBVIOUS
<1> HIDE DEF rungs
<1>2. 5 \in Nat /\ DOMAIN rungs = 1..5
  BY <1>1
<1>3. /\ (\A j \in 1..5 : rungs[j] = "next") => Climb(rungs) = "next"
      /\ \A i \in 1..5 :
            rungs[i] # "next" /\ (\A j \in 1..5 : j < i => rungs[j] = "next")
            => Climb(rungs) = rungs[i]
  BY <1>2, ClimbSays
<1>4. Climb(rungs) = Else(a, Else(b, Else(c, Else(d, e))))
  BY <1>1, <1>3 DEF Else
<1> QED BY <1>4 DEF rungs

LEMMA Climb6 ==
    ASSUME NEW a, NEW b, NEW c, NEW d, NEW e, NEW f
    PROVE  Climb(<<a, b, c, d, e, f>>) = Else(a, Else(b, Else(c, Else(d, Else(e, f)))))
<1> DEFINE rungs == <<a, b, c, d, e, f>>
<1>1. DOMAIN rungs = 1..6 /\ rungs[1] = a /\ rungs[2] = b /\ rungs[3] = c /\ rungs[4] = d /\ rungs[5] = e /\ rungs[6] = f
  OBVIOUS
<1> HIDE DEF rungs
<1>2. 6 \in Nat /\ DOMAIN rungs = 1..6
  BY <1>1
<1>3. /\ (\A j \in 1..6 : rungs[j] = "next") => Climb(rungs) = "next"
      /\ \A i \in 1..6 :
            rungs[i] # "next" /\ (\A j \in 1..6 : j < i => rungs[j] = "next")
            => Climb(rungs) = rungs[i]
  BY <1>2, ClimbSays
<1>4. Climb(rungs) = Else(a, Else(b, Else(c, Else(d, Else(e, f)))))
  BY <1>1, <1>3 DEF Else
<1> QED BY <1>4 DEF rungs

LEMMA Climb7 ==
    ASSUME NEW a, NEW b, NEW c, NEW d, NEW e, NEW f, NEW g
    PROVE  Climb(<<a, b, c, d, e, f, g>>) = Else(a, Else(b, Else(c, Else(d, Else(e, Else(f, g))))))
<1> DEFINE rungs == <<a, b, c, d, e, f, g>>
<1>1. DOMAIN rungs = 1..7 /\ rungs[1] = a /\ rungs[2] = b /\ rungs[3] = c /\ rungs[4] = d /\ rungs[5] = e /\ rungs[6] = f /\ rungs[7] = g
  OBVIOUS
<1> HIDE DEF rungs
<1>2. 7 \in Nat /\ DOMAIN rungs = 1..7
  BY <1>1
<1>3. /\ (\A j \in 1..7 : rungs[j] = "next") => Climb(rungs) = "next"
      /\ \A i \in 1..7 :
            rungs[i] # "next" /\ (\A j \in 1..7 : j < i => rungs[j] = "next")
            => Climb(rungs) = rungs[i]
  BY <1>2, ClimbSays
<1>4. Climb(rungs) = Else(a, Else(b, Else(c, Else(d, Else(e, Else(f, g))))))
  BY <1>1, <1>3 DEF Else
<1> QED BY <1>4 DEF rungs

LEMMA Climb8 ==
    ASSUME NEW a, NEW b, NEW c, NEW d, NEW e, NEW f, NEW g, NEW h
    PROVE  Climb(<<a, b, c, d, e, f, g, h>>) = Else(a, Else(b, Else(c, Else(d, Else(e, Else(f, Else(g, h)))))))
<1> DEFINE rungs == <<a, b, c, d, e, f, g, h>>
<1>1. DOMAIN rungs = 1..8 /\ rungs[1] = a /\ rungs[2] = b /\ rungs[3] = c /\ rungs[4] = d /\ rungs[5] = e /\ rungs[6] = f /\ rungs[7] = g /\ rungs[8] = h
  OBVIOUS
<1> HIDE DEF rungs
<1>2. 8 \in Nat /\ DOMAIN rungs = 1..8
  BY <1>1
<1>3. /\ (\A j \in 1..8 : rungs[j] = "next") => Climb(rungs) = "next"
      /\ \A i \in 1..8 :
            rungs[i] # "next" /\ (\A j \in 1..8 : j < i => rungs[j] = "next")
            => Climb(rungs) = rungs[i]
  BY <1>2, ClimbSays
<1>4. Climb(rungs) = Else(a, Else(b, Else(c, Else(d, Else(e, Else(f, Else(g, h)))))))
  BY <1>1, <1>3 DEF Else
<1> QED BY <1>4 DEF rungs

\* What befalls a service with this adapter, as far as the two screens name it.
Befallen(kind, wrong) == wrong \subseteq Befalls(kind) /\ "webPage" \notin wrong

\* A verdict is deserved if it names a fault, or says of none that all is well.
Deserved(kind, wrong, verdict) ==
    \/ \E w \in wrong : verdict = Names(kind, w)
    \/ verdict = "healthy" /\ wrong = {}

LEMMA UnsetIs == ASSUME NEW wrong
                 PROVE  wrong \cap Unset # {} <=> "noAddress" \in wrong \/ "noKey" \in wrong
BY DEF Unset

LEMMA NotOursIs == ASSUME NEW wrong
                   PROVE  wrong \cap NotOurs # {} <=> "sibling" \in wrong \/ "old" \in wrong
BY DEF NotOurs

LEMMA BefallenIs ==
    ASSUME NEW kind \in Kinds, NEW wrong, Befallen(kind, wrong)
    PROVE  /\ "webPage" \notin wrong
           /\ \A w \in wrong : w \in {"noAddress", "noKey", "down", "failing", "foreign", "sibling",
                                      "old", "wrongKey", "unfinished", "ailing"}
           /\ kind = "linear" => \A w \in wrong : w \in {"noAddress", "ailing"}
           /\ kind = "addon" => "noAddress" \notin wrong /\ "noKey" \notin wrong
           /\ "sibling" \in wrong => kind \in Arrs \cup {"plex"}
           /\ "unfinished" \in wrong => kind \in {"jellyfin", "romm", "addon"}
           /\ "ailing" \in wrong => kind # "romm"
BY DEF Befallen, Befalls, Unset, Kinds, Arrs

LEMMA OpenRungsAre ==
    ASSUME NEW wrong, "webPage" \notin wrong
    PROVE  OpenRungs(wrong) =
             IF "noAddress" \in wrong \/ "noKey" \in wrong THEN "not_configured"
             ELSE IF "down" \in wrong THEN "unreachable"
             ELSE IF "failing" \in wrong THEN "degraded"
             ELSE IF "foreign" \in wrong THEN "incompatible" ELSE "next"
BY Climb4, UnsetIs DEF OpenRungs, NotSet, Rung, Reply, Silence, Else

LEMMA KeyRungsAre ==
    ASSUME NEW wrong, "webPage" \notin wrong, NEW silence, silence # "next"
    PROVE  KeyRungs(wrong, silence) =
             IF "down" \in wrong THEN silence
             ELSE IF "failing" \in wrong THEN "degraded"
             ELSE IF "foreign" \in wrong THEN "incompatible"
             ELSE IF "wrongKey" \in wrong THEN "auth_failed"
             ELSE IF "ailing" \in wrong THEN "degraded" ELSE "healthy"
BY Climb6 DEF KeyRungs, Rung, Reply, Silence, Else

LEMMA ArrStatusIs ==
    ASSUME NEW wrong, "webPage" \notin wrong
    PROVE  ArrStatus(wrong) =
             IF "noAddress" \in wrong \/ "noKey" \in wrong THEN "not_configured"
             ELSE IF "down" \in wrong THEN "unreachable"
             ELSE IF "failing" \in wrong THEN "degraded"
             ELSE IF "foreign" \in wrong THEN "incompatible"
             ELSE IF "wrongKey" \in wrong THEN "auth_failed"
             ELSE IF "sibling" \in wrong \/ "old" \in wrong THEN "incompatible" ELSE "goOn"
BY Climb7, UnsetIs, NotOursIs DEF ArrStatus, NotSet, Rung, Reply, Silence, Else

LEMMA RomarrHealthIs ==
    ASSUME NEW wrong, "webPage" \notin wrong
    PROVE  RomarrHealth(wrong) =
             IF "noAddress" \in wrong \/ "noKey" \in wrong THEN "not_configured"
             ELSE IF "down" \in wrong THEN "unreachable"
             ELSE IF "failing" \in wrong THEN "degraded"
             ELSE IF "foreign" \in wrong THEN "incompatible"
             ELSE IF "wrongKey" \in wrong THEN "auth_failed"
             ELSE IF "old" \in wrong THEN "incompatible"
             ELSE IF "ailing" \in wrong THEN "degraded" ELSE "healthy"
BY Climb8, UnsetIs DEF RomarrHealth, NotSet, Rung, Reply, Silence, Else

LEMMA AddonHealthIs ==
    ASSUME NEW wrong, "webPage" \notin wrong
    PROVE  AddonHealth(wrong) =
             IF "unfinished" \in wrong THEN "not_configured"
             ELSE IF "down" \in wrong \/ "failing" \in wrong THEN "unreachable"
             ELSE IF "foreign" \in wrong THEN "incompatible"
             ELSE IF "wrongKey" \in wrong THEN "auth_failed"
             ELSE IF "old" \in wrong THEN "incompatible"
             ELSE IF "ailing" \in wrong THEN "degraded" ELSE "healthy"
BY Climb5 DEF AddonHealth, AddonHealthFromError, Rung, Reply, Else

LEMMA JellyfinPublicIs ==
    ASSUME NEW wrong, "webPage" \notin wrong
    PROVE  JellyfinPublic(wrong) =
             Else(OpenRungs(wrong),
                  IF "old" \in wrong THEN "incompatible"
                  ELSE IF "unfinished" \in wrong THEN "degraded" ELSE "goOn")
BY Climb4 DEF JellyfinPublic, Rung, Else

LEMMA PlexIdentityIs ==
    ASSUME NEW wrong, "webPage" \notin wrong
    PROVE  PlexIdentity(wrong) =
             Else(OpenRungs(wrong),
                  IF "sibling" \in wrong \/ "old" \in wrong THEN "incompatible" ELSE "goOn")
BY Climb3, NotOursIs DEF PlexIdentity, Rung, Else

LEMMA LinearHealthIs ==
    ASSUME NEW wrong
    PROVE  LinearHealth(wrong) =
             IF "noAddress" \in wrong \/ "noKey" \in wrong THEN "not_configured"
             ELSE IF "ailing" \in wrong THEN "degraded" ELSE "healthy"
BY Climb3, UnsetIs DEF LinearHealth, NotSet, Rung, Else

\* The names of the faults, one by one.
LEMMA NamesAre ==
    ASSUME NEW kind
    PROVE  /\ Names(kind, "noAddress") = "not_configured" /\ Names(kind, "noKey") = "not_configured"
           /\ Names(kind, "down") = "unreachable"
           /\ Names(kind, "failing") = IF kind = "addon" THEN "unreachable" ELSE "degraded"
           /\ Names(kind, "wrongKey") = "auth_failed"
           /\ Names(kind, "foreign") = "incompatible" /\ Names(kind, "sibling") = "incompatible"
           /\ Names(kind, "old") = "incompatible"
           /\ Names(kind, "unfinished") = IF kind = "addon" THEN "not_configured" ELSE "degraded"
           /\ Names(kind, "ailing") = "degraded"
BY DEF Names, Unset

\* Whoever asks one question only says what the service deserves.
LEMMA FirstIsDeserved ==
    ASSUME NEW kind \in Kinds, NEW wrong, Befallen(kind, wrong), First(kind, wrong) # "goOn"
    PROVE  Deserved(kind, wrong, First(kind, wrong))
<1>1. CASE kind \in Arrs
  <2>1. First(kind, wrong) = ArrStatus(wrong)
    BY <1>1 DEF First, Arrs
  <2> QED BY <1>1, <2>1, BefallenIs, ArrStatusIs, NamesAre DEF Deserved, Arrs
<1>2. CASE kind = "jellyfin" \/ kind = "romm"
  <2>1. First(kind, wrong) = JellyfinPublic(wrong)
    BY <1>2 DEF First, Arrs, RommHeartbeat
  <2> QED BY <1>2, <2>1, BefallenIs, JellyfinPublicIs, OpenRungsAre, NamesAre DEF Deserved, Else
<1>3. CASE kind = "plex"
  <2>1. First(kind, wrong) = PlexIdentity(wrong)
    BY <1>3 DEF First, Arrs
  <2> QED BY <1>3, <2>1, BefallenIs, PlexIdentityIs, OpenRungsAre, NamesAre DEF Deserved, Else
<1>4. CASE kind = "romarr"
  <2>1. First(kind, wrong) = RomarrHealth(wrong)
    BY <1>4 DEF First, Arrs
  <2> QED BY <1>4, <2>1, BefallenIs, RomarrHealthIs, NamesAre DEF Deserved, Arrs
<1>5. CASE kind = "addon"
  <2>1. First(kind, wrong) = AddonHealth(wrong)
    BY <1>5 DEF First, Arrs
  <2> QED BY <1>5, <2>1, BefallenIs, AddonHealthIs, NamesAre DEF Deserved, Arrs
<1>6. CASE kind = "linear"
  <2>1. First(kind, wrong) = LinearHealth(wrong)
    BY <1>6 DEF First, Arrs
  <2> QED BY <1>6, <2>1, BefallenIs, LinearHealthIs, NamesAre DEF Deserved, Arrs
<1> QED BY <1>1, <1>2, <1>3, <1>4, <1>5, <1>6 DEF Kinds

\* A second question is put to a service with which the first found nothing wrong; if it has
\* changed since, it may be called degraded.
LEMMA SecondIsDeserved ==
    ASSUME NEW kind \in Kinds, NEW before, Befallen(kind, before), First(kind, before) = "goOn",
           NEW wrong, Befallen(kind, wrong)
    PROVE  \/ \E w \in wrong : Second(kind, wrong) = Names(kind, w)
           \/ Second(kind, wrong) = "healthy" /\ before \cap wrong = {}
           \/ Second(kind, wrong) = "degraded" /\ before # wrong
<1>1. CASE kind \in Arrs
  <2>1. First(kind, before) = ArrStatus(before) /\ Second(kind, wrong) = ArrHealth(wrong)
    BY <1>1 DEF First, Second, Arrs
  <2>2. before \subseteq {"ailing"}
    BY <1>1, <2>1, BefallenIs, ArrStatusIs DEF Arrs
  <2> QED BY <1>1, <2>1, <2>2, BefallenIs, NamesAre DEF ArrHealth, Reply, Arrs
<1>2. CASE kind = "jellyfin" \/ kind = "romm"
  <2>1. First(kind, before) = JellyfinPublic(before)
    BY <1>2 DEF First, Arrs, RommHeartbeat
  <2>2. before \subseteq {"wrongKey", "ailing"}
    BY <1>2, <2>1, BefallenIs, JellyfinPublicIs, OpenRungsAre DEF Else, Arrs
  <2>3. Second(kind, wrong) = KeyRungs(wrong, IF kind = "romm" THEN "unreachable" ELSE "degraded")
    BY <1>2 DEF Second, Arrs, JellyfinInfo, RommPlatforms
  <2> QED BY <1>2, <2>2, <2>3, BefallenIs, KeyRungsAre, NamesAre DEF Arrs
<1>3. CASE kind = "plex"
  <2>1. First(kind, before) = PlexIdentity(before) /\ Second(kind, wrong) = KeyRungs(wrong, "degraded")
    BY <1>3 DEF First, Second, Arrs, PlexSections
  <2>2. before \subseteq {"wrongKey", "ailing"}
    BY <1>3, <2>1, BefallenIs, PlexIdentityIs, OpenRungsAre DEF Else, Arrs
  <2> QED BY <1>3, <2>1, <2>2, BefallenIs, KeyRungsAre, NamesAre DEF Arrs
<1>4. CASE kind = "romarr"
  BY <1>4, BefallenIs, RomarrHealthIs DEF First, Arrs
<1>5. CASE kind = "addon"
  BY <1>5, BefallenIs, AddonHealthIs DEF First, Arrs
<1>6. CASE kind = "linear"
  BY <1>6, BefallenIs, LinearHealthIs DEF First, Arrs
<1> QED BY <1>1, <1>2, <1>3, <1>4, <1>5, <1>6 DEF Kinds

\* A check under way knows what is wrong with its service; one that put its first question
\* put it to a service it found nothing wrong with; one that is done says what is deserved.
CheckIsFair(kind, c, now) ==
    /\ DOMAIN c = {"at", "says", "lost", "ever", "always"}
    /\ c.at \in {"first", "second", "done"}
    /\ c.at # "done" => c.always \subseteq now /\ now \subseteq c.ever
    /\ c.at = "second" => \E before : /\ c.always \subseteq before /\ before \subseteq c.ever
                                      /\ Befallen(kind, before)
                                      /\ First(kind, before) = "goOn"
    /\ c.at = "done" /\ ~c.lost =>
          \/ \E w \in c.ever : c.says = Names(kind, w)
          \/ c.says = "degraded" /\ c.ever # c.always
          \/ c.says = "healthy" /\ c.always = {}

\* A service at work from the question on is waited for, or was answered for.
ScreenIsFair(s, atWork, active) ==
    /\ DOMAIN s = {"open", "waits", "rows", "failed", "stayed"}
    /\ s.stayed \cap s.waits \subseteq atWork
    /\ s.open => s.stayed \cap active \subseteq s.waits \cup s.rows \cup s.failed

HealthInvariant ==
    /\ \A i \in DOMAIN registry : registry[i].kind \in Kinds
    /\ \A id \in Ids : Befallen(KindOf(id), FaultsOf(id))
    /\ busy \subseteq Ids /\ screen.stayed \subseteq Ids
    /\ DOMAIN page \subseteq Ids
    /\ \A id \in DOMAIN page : CheckIsFair(KindOf(id), page[id], FaultsOf(id))
    /\ ScreenIsFair(screen, busy, {id \in Ids : KindOf(id) \in ActivityKinds})

LEMMA KindsAreKnown == ASSUME HealthInvariant, NEW id \in Ids PROVE KindOf(id) \in Kinds
<1>1. \E i \in DOMAIN registry : registry[i].id = id
  BY DEF Ids
<1>2. (CHOOSE i \in DOMAIN registry : registry[i].id = id) \in DOMAIN registry
  BY <1>1
<1> QED BY <1>2 DEF HealthInvariant, KindOf

LEMMA HealthStarts == "webPage" \notin Troubles /\ HealthInit => HealthInvariant
<1> SUFFICES ASSUME "webPage" \notin Troubles, HealthInit PROVE HealthInvariant
  OBVIOUS
<1>1. \A i \in DOMAIN registry : registry[i].kind \in Kinds
  BY HouseholdsAssumption DEF HealthInit
<1>2. \A f \in faults : f[2] \in Troubles /\ f[2] \in Befalls(KindOf(f[1]))
  <2> DEFINE may == {f \in Ids \X Troubles : f[2] \in Befalls(KindOf(f[1]))}
  <2>1. faults \in UNION {kSubset(n, may) : n \in 0..MaxFaults}
    BY DEF HealthInit
  <2>2. faults \subseteq may
    BY <2>1 DEF kSubset
  <2> QED BY <2>2
<1>3. \A id \in Ids : Befallen(KindOf(id), FaultsOf(id))
  BY <1>2 DEF Befallen, FaultsOf
<1>4. busy \subseteq Ids /\ page = <<>> /\ screen = NoScreen
  BY DEF HealthInit
<1>5. /\ ScreenIsFair(screen, busy, {id \in Ids : KindOf(id) \in ActivityKinds})
      /\ screen.stayed \subseteq Ids
  BY <1>4 DEF ScreenIsFair, NoScreen
<1> QED BY <1>1, <1>3, <1>4, <1>5 DEF HealthInvariant

\* While the registry stays, so do the ids and the kinds.
LEMMA KindsStay ==
    ASSUME registry' = registry
    PROVE  Ids' = Ids /\ \A id : KindOf(id)' = KindOf(id)
BY DEF Ids, KindOf

\* Something breaks or is repaired.
LEMMA TurnsAreFair ==
    ASSUME "webPage" \notin Troubles, HealthInvariant, NEW id \in Ids, TurnOn(id)
    PROVE  HealthInvariant'
<1> DEFINE active == {i \in Ids : KindOf(i) \in ActivityKinds}
<1>1. Ids' = Ids /\ (\A i : KindOf(i)' = KindOf(i)) /\ registry' = registry
  BY KindsStay DEF TurnOn
<1>2. CASE /\ \E w \in (Troubles \ Unset) \cap Befalls(KindOf(id)) :
                  faults' = IF <<id, w>> \in faults THEN faults \ {<<id, w>>}
                            ELSE faults \cup {<<id, w>>}
           /\ page' = [i \in DOMAIN page |-> SeenBy(i, {w \in Wrong : <<i, w>> \in faults'})]
           /\ UNCHANGED <<busy, screen>>
  <2>1. PICK w \in (Troubles \ Unset) \cap Befalls(KindOf(id)) :
              faults' = IF <<id, w>> \in faults THEN faults \ {<<id, w>>}
                        ELSE faults \cup {<<id, w>>}
    BY <1>2
  <2>2. \A i, u : <<i, u>> \in faults' => <<i, u>> \in faults \/ (i = id /\ u = w)
    BY <2>1
  <2>3. \A i \in Ids : Befallen(KindOf(i), FaultsOf(i)')
    BY <2>1, <2>2 DEF HealthInvariant, Befallen, FaultsOf
  <2>4. ASSUME NEW i \in DOMAIN page
        PROVE  CheckIsFair(KindOf(i), page'[i], FaultsOf(i)')
    <3> DEFINE now == FaultsOf(i)'
               c == page[i]
    <3>1. page'[i] = [c EXCEPT !.ever = IF c.at = "done" THEN c.ever ELSE c.ever \cup now,
                               !.always = IF c.at = "done" THEN c.always ELSE c.always \cap now]
      BY <1>2 DEF SeenBy, FaultsOf
    <3>2. CheckIsFair(KindOf(i), c, FaultsOf(i))
      BY DEF HealthInvariant
    <3> HIDE DEF now, c
    <3>3. /\ DOMAIN page'[i] = DOMAIN c
          /\ page'[i].at = c.at /\ page'[i].says = c.says /\ page'[i].lost = c.lost
          /\ page'[i].ever = IF c.at = "done" THEN c.ever ELSE c.ever \cup now
          /\ page'[i].always = IF c.at = "done" THEN c.always ELSE c.always \cap now
      BY <3>1, <3>2 DEF CheckIsFair
    <3>4. CheckIsFair(KindOf(i), page'[i], now)
      BY <3>2, <3>3 DEF CheckIsFair
    <3> QED BY <3>4 DEF now
  <2>5. DOMAIN page' = DOMAIN page
    BY <1>2
  <2> QED BY <1>1, <1>2, <2>3, <2>4, <2>5 DEF HealthInvariant
<1>3. CASE /\ KindOf(id) \in ActivityKinds
           /\ busy' = IF id \in busy THEN busy \ {id} ELSE busy \cup {id}
           /\ screen' = [screen EXCEPT !.stayed = IF screen.waits = {} THEN @ ELSE @ \ {id}]
           /\ UNCHANGED <<faults, page>>
  <2>1. \A i : FaultsOf(i)' = FaultsOf(i)
    BY <1>3 DEF FaultsOf
  <2>2. busy' \subseteq Ids
    BY <1>3 DEF HealthInvariant
  <2>3. ScreenIsFair(screen, busy, active)
    BY DEF HealthInvariant
  <2> HIDE DEF active
  <2>4. ScreenIsFair(screen', busy', active)
    <3>1. /\ DOMAIN screen' = DOMAIN screen
          /\ screen'.open = screen.open /\ screen'.waits = screen.waits
          /\ screen'.rows = screen.rows /\ screen'.failed = screen.failed
          /\ screen'.stayed = IF screen.waits = {} THEN screen.stayed ELSE screen.stayed \ {id}
      BY <1>3, <2>3 DEF ScreenIsFair
    <3> QED BY <1>3, <2>3, <3>1 DEF ScreenIsFair
  <2>5. screen'.stayed \subseteq screen.stayed
    BY <1>3, <2>3 DEF ScreenIsFair
  <2> QED BY <1>1, <1>3, <2>1, <2>2, <2>4, <2>5 DEF HealthInvariant, active
<1> QED BY <1>2, <1>3 DEF TurnOn

LEMMA PagesAreFair ==
    ASSUME HealthInvariant, NEW owner \in BOOLEAN, AskPage(owner)
    PROVE  HealthInvariant'
<1>1. Ids' = Ids /\ (\A i : KindOf(i)' = KindOf(i)) /\ registry' = registry
  BY KindsStay DEF AskPage
<1>2. \A i : FaultsOf(i)' = FaultsOf(i)
  BY DEF AskPage, FaultsOf
<1>3. DOMAIN page' \subseteq Ids /\ \A i \in DOMAIN page' : page'[i] = NewCheck(i)
  BY DEF AskPage
<1>4. \A i \in DOMAIN page' : CheckIsFair(KindOf(i), page'[i], FaultsOf(i))
  BY <1>3 DEF CheckIsFair, NewCheck
<1> QED BY <1>1, <1>2, <1>3, <1>4 DEF HealthInvariant, AskPage

\* One check moves, the services do not.
LEMMA OneCheckMoves ==
    ASSUME HealthInvariant, NEW id \in DOMAIN page,
           UNCHANGED <<registry, faults, busy, turns, screen>>,
           DOMAIN page' = DOMAIN page, \A i \in DOMAIN page : i # id => page'[i] = page[i],
           CheckIsFair(KindOf(id), page'[id], FaultsOf(id))
    PROVE  HealthInvariant'
<1>1. Ids' = Ids /\ (\A i : KindOf(i)' = KindOf(i)) /\ \A i : FaultsOf(i)' = FaultsOf(i)
  BY KindsStay DEF FaultsOf
<1>2. \A i \in DOMAIN page : CheckIsFair(KindOf(i), page'[i], FaultsOf(i))
  BY DEF HealthInvariant
<1> QED BY <1>1, <1>2 DEF HealthInvariant

LEMMA NamesAreNoMove ==
    ASSUME NEW kind, NEW wrong, Befallen(kind, wrong), kind \in Kinds, NEW w \in wrong
    PROVE  Names(kind, w) # "goOn"
BY BefallenIs, NamesAre

LEMMA AnswersAreFair ==
    ASSUME HealthInvariant, NEW id \in Ids, CheckStep(id)
    PROVE  HealthInvariant'
<1> DEFINE kind == KindOf(id)
           now == FaultsOf(id)
           c == page[id]
<1>1. /\ kind \in Kinds /\ id \in DOMAIN page /\ Befallen(kind, now)
      /\ CheckIsFair(kind, c, now)
  BY KindsAreKnown DEF HealthInvariant, CheckStep
<1>2. ASSUME NEW verdict, Settled(id, verdict)
      PROVE  /\ DOMAIN page' = DOMAIN page /\ \A i \in DOMAIN page : i # id => page'[i] = page[i]
             /\ DOMAIN page'[id] = DOMAIN c
             /\ page'[id].at = IF verdict = "goOn" THEN "second" ELSE "done"
             /\ page'[id].says = IF verdict = "goOn" THEN "nothing" ELSE verdict
             /\ page'[id].lost = c.lost /\ page'[id].ever = c.ever /\ page'[id].always = c.always
  BY <1>1, <1>2 DEF Settled, CheckIsFair
<1> HIDE DEF kind, now, c
<1>3. CASE c.at = "first" /\ Settled(id, First(kind, now))
  <2> DEFINE verdict == First(kind, now)
  <2>1. verdict # "goOn" => Deserved(kind, now, verdict)
    BY <1>1, FirstIsDeserved
  <2>2. c.always \subseteq now /\ now \subseteq c.ever
    BY <1>1, <1>3 DEF CheckIsFair
  <2>3. Settled(id, verdict)
    BY <1>3
  <2>4. verdict = "goOn" => First(kind, now) = "goOn"
    OBVIOUS
  <2> HIDE DEF verdict
  <2>5. CheckIsFair(kind, page'[id], now)
    BY <1>1, <1>2, <2>1, <2>2, <2>3, <2>4 DEF CheckIsFair, Deserved
  <2> QED BY <1>1, <1>2, <2>3, <2>5, OneCheckMoves DEF CheckStep, kind, now
<1>4. CASE c.at = "second" /\ Settled(id, Second(kind, now))
  <2> DEFINE verdict == Second(kind, now)
  <2>1. c.always \subseteq now /\ now \subseteq c.ever
    BY <1>1, <1>4 DEF CheckIsFair
  <2>2. PICK before : /\ c.always \subseteq before /\ before \subseteq c.ever
                      /\ Befallen(kind, before) /\ First(kind, before) = "goOn"
    BY <1>1, <1>4 DEF CheckIsFair
  <2>3. \/ \E w \in now : verdict = Names(kind, w)
        \/ verdict = "healthy" /\ before \cap now = {}
        \/ verdict = "degraded" /\ before # now
    BY <1>1, <2>2, SecondIsDeserved
  <2>4. Settled(id, verdict)
    BY <1>4
  <2> HIDE DEF verdict
  <2>5. \/ \E w \in c.ever : verdict = Names(kind, w)
        \/ verdict = "degraded" /\ c.ever # c.always
        \/ verdict = "healthy" /\ c.always = {}
    BY <2>1, <2>2, <2>3
  <2>6. verdict # "goOn"
    BY <1>1, <2>3, NamesAreNoMove
  <2>7. CheckIsFair(kind, page'[id], now)
    BY <1>1, <1>2, <2>4, <2>5, <2>6 DEF CheckIsFair
  <2> QED BY <1>1, <1>2, <2>4, <2>7, OneCheckMoves DEF CheckStep, kind, now
<1> QED BY <1>3, <1>4 DEF CheckStep, kind, now, c

LEMMA PanicsAreFair ==
    ASSUME HealthInvariant, NEW id \in Ids, CheckPanics(id)
    PROVE  HealthInvariant'
<1>1. id \in DOMAIN page /\ CheckIsFair(KindOf(id), page[id], FaultsOf(id))
  BY DEF HealthInvariant, CheckPanics
<1>2. /\ DOMAIN page' = DOMAIN page /\ \A i \in DOMAIN page : i # id => page'[i] = page[i]
      /\ DOMAIN page'[id] = DOMAIN page[id]
      /\ page'[id].at = "done" /\ page'[id].lost = TRUE
  BY <1>1 DEF CheckPanics, CheckIsFair
<1>3. CheckIsFair(KindOf(id), page'[id], FaultsOf(id))
  BY <1>1, <1>2 DEF CheckIsFair
<1> QED BY <1>1, <1>2, <1>3, OneCheckMoves DEF CheckPanics

LEMMA ActivityIsFair ==
    ASSUME HealthInvariant, AskActivity \/ \E id \in Ids : ActivityStep(id) \/ ActivityPanics(id)
    PROVE  HealthInvariant'
<1> DEFINE active == {i \in Ids : KindOf(i) \in ActivityKinds}
<1>1. UNCHANGED <<registry, faults, busy, turns, page>>
  BY DEF AskActivity, ActivityStep, ActivityPanics
<1>2. Ids' = Ids /\ (\A i : KindOf(i)' = KindOf(i)) /\ \A i : FaultsOf(i)' = FaultsOf(i)
  BY <1>1, KindsStay DEF FaultsOf
<1>3. ScreenIsFair(screen, busy, active) /\ busy \subseteq Ids /\ screen.stayed \subseteq Ids
  BY DEF HealthInvariant
<1> HIDE DEF active
<1>4. ScreenIsFair(screen', busy, active) /\ screen'.stayed \subseteq Ids
  <2>1. CASE AskActivity
    <3>1. screen' = [open |-> TRUE, waits |-> active, rows |-> {}, failed |-> {}, stayed |-> busy]
      BY <2>1 DEF AskActivity, active
    <3> QED BY <3>1, <1>3 DEF ScreenIsFair
  <2>2. ASSUME NEW id \in Ids, ActivityStep(id) \/ ActivityPanics(id)
        PROVE  ScreenIsFair(screen', busy, active) /\ screen'.stayed \subseteq Ids
    <3>1. PICK answered \in BOOLEAN : Reported(id, answered, answered /\ id \in busy)
      BY <2>2 DEF ActivityStep, ActivityPanics
    <3>2. /\ DOMAIN screen' = DOMAIN screen /\ screen'.open = screen.open
          /\ screen'.stayed = screen.stayed /\ screen'.waits = screen.waits \ {id}
          /\ screen.rows \subseteq screen'.rows /\ screen.failed \subseteq screen'.failed
          /\ id \in busy => id \in screen'.rows \cup screen'.failed
      BY <1>3, <3>1 DEF Reported, ScreenIsFair
    <3>3. id \in screen.waits
      BY <2>2 DEF ActivityStep, ActivityPanics
    <3> QED BY <1>3, <3>2, <3>3 DEF ScreenIsFair
  <2> QED BY <2>1, <2>2
<1> QED BY <1>1, <1>2, <1>4 DEF HealthInvariant, active

LEMMA HealthStays ==
    "webPage" \notin Troubles /\ HealthInvariant /\ [HealthNext]_healthVars => HealthInvariant'
<1> SUFFICES ASSUME "webPage" \notin Troubles, HealthInvariant, [HealthNext]_healthVars
             PROVE  HealthInvariant'
  OBVIOUS
<1>1. CASE UNCHANGED healthVars
  <2>1. /\ Ids' = Ids /\ (\A i : KindOf(i)' = KindOf(i)) /\ \A i : FaultsOf(i)' = FaultsOf(i)
        /\ UNCHANGED <<registry, busy, page, screen>>
    BY <1>1, KindsStay DEF FaultsOf, healthVars
  <2> QED BY <2>1 DEF HealthInvariant
<1>2. ASSUME NEW owner \in BOOLEAN, AskPage(owner) PROVE HealthInvariant'
  BY <1>2, PagesAreFair
<1>3. ASSUME NEW id \in Ids, TurnOn(id) \/ CheckStep(id) \/ CheckPanics(id) PROVE HealthInvariant'
  BY <1>3, TurnsAreFair, AnswersAreFair, PanicsAreFair
<1>4. CASE AskActivity \/ \E id \in Ids : ActivityStep(id) \/ ActivityPanics(id)
  BY <1>4, ActivityIsFair
<1> QED BY <1>1, <1>2, <1>3, <1>4 DEF HealthNext

LEMMA BothScreensAreHonest == HealthInvariant => ScreensAreHonest
<1> SUFFICES ASSUME HealthInvariant PROVE ScreensAreHonest
  OBVIOUS
<1>1. SettingsNameTheRepair
  <2> SUFFICES ASSUME NEW id \in DOMAIN page, page[id].at = "done", ~page[id].lost
               PROVE  page[id].says \in
                        {Names(KindOf(id), w) : w \in page[id].ever}
                        \cup (IF page[id].ever # page[id].always THEN {"degraded"} ELSE {})
                        \cup (IF page[id].always = {} THEN {"healthy"} ELSE {})
    BY DEF SettingsNameTheRepair
  <2>1. \/ \E w \in page[id].ever : page[id].says = Names(KindOf(id), w)
        \/ page[id].says = "degraded" /\ page[id].ever # page[id].always
        \/ page[id].says = "healthy" /\ page[id].always = {}
    BY DEF HealthInvariant, CheckIsFair
  <2> QED BY <2>1
<1>2. EmptyMeansIdle
  <2> DEFINE active == {i \in Ids : KindOf(i) \in ActivityKinds}
  <2>1. screen.open => screen.stayed \cap active \subseteq screen.waits \cup screen.rows \cup screen.failed
    BY DEF HealthInvariant, ScreenIsFair
  <2>2. screen.stayed \subseteq Ids
    BY DEF HealthInvariant
  <2> QED BY <2>1, <2>2 DEF EmptyMeansIdle
<1> QED BY <1>1, <1>2 DEF ScreensAreHonest

\* THEOREM: neither screen says what was not so: every row of the settings screen names a
\* repair its service needed during the check, and a service that was at work from the
\* question to the answer is on the activity screen or named as not asked, however services
\* break, are repaired and panic meanwhile (handleProviders, handleActivity, the adapters'
\* Health).  A service that answers with a web page is left out: see the README.
THEOREM ScreensSayWhatIsSo == "webPage" \notin Troubles => (HealthSpec => []ScreensAreHonest)
<1> SUFFICES ASSUME "webPage" \notin Troubles PROVE HealthSpec => []ScreensAreHonest
  OBVIOUS
<1>1. HealthInit => HealthInvariant
  BY HealthStarts
<1>2. HealthInvariant /\ [HealthNext]_healthVars => HealthInvariant'
  BY HealthStays
<1>3. HealthInvariant => ScreensAreHonest
  BY BothScreensAreHonest
<1> QED BY <1>1, <1>2, <1>3, PTL DEF HealthSpec

-----------------------------------------------------------------------------
(* The media shelf.                                                        *)

\* The items of a shelf stand in places from 1 on, one in each.
LEMMA PlacesAreFilled ==
    ASSUME NEW shelf \in SUBSET Nat, IsFiniteSet(shelf)
    PROVE  /\ Cardinality(shelf) \in Nat
           /\ \A i \in shelf : PlaceAmong(i, shelf) \in 1..Cardinality(shelf)
           /\ \A i, j \in shelf : PlaceAmong(i, shelf) = PlaceAmong(j, shelf) => i = j
           /\ \A n \in 1..Cardinality(shelf) : \E i \in shelf : PlaceAmong(i, shelf) = n
<1> DEFINE upTo(i) == {j \in shelf : j <= i}
           all == 1..Cardinality(shelf)
           f == [i \in shelf |-> PlaceAmong(i, shelf)]
<1>1. Cardinality(shelf) \in Nat
  BY FS_CardinalityType
<1>2. ASSUME NEW i \in shelf
      PROVE  /\ IsFiniteSet(upTo(i)) /\ Cardinality(upTo(i)) \in Nat
             /\ Cardinality(upTo(i)) <= Cardinality(shelf) /\ Cardinality(upTo(i)) # 0
  <2>1. upTo(i) \in SUBSET shelf /\ i \in upTo(i)
    OBVIOUS
  <2>2. IsFiniteSet(upTo(i)) /\ Cardinality(upTo(i)) <= Cardinality(shelf)
    BY <2>1, FS_Subset
  <2>3. Cardinality(upTo(i)) \in Nat
    BY <2>2, FS_CardinalityType
  <2>4. Cardinality(upTo(i)) # 0
    BY <2>1, <2>2, FS_EmptySet
  <2> QED BY <2>2, <2>3, <2>4
<1>3. \A i \in shelf : PlaceAmong(i, shelf) \in all
  BY <1>1, <1>2 DEF PlaceAmong
<1>4. ASSUME NEW i \in shelf, NEW j \in shelf, i < j
      PROVE  PlaceAmong(i, shelf) # PlaceAmong(j, shelf)
  <2>0. i \in Nat /\ j \in Nat /\ \A k \in shelf : k \in Nat
    OBVIOUS
  <2>1. upTo(i) \in SUBSET upTo(j) /\ j \in upTo(j) /\ j \notin upTo(i)
    <3>1. \A k \in shelf : k <= i => k <= j
      BY <1>4, <2>0
    <3>2. ~(j <= i) /\ j <= j
      BY <1>4, <2>0
    <3> QED BY <3>1, <3>2
  <2>2. IsFiniteSet(upTo(j))
    BY <1>2
  <2>3. Cardinality(upTo(j)) = Cardinality(upTo(i)) => upTo(j) = upTo(i)
    BY <2>1, <2>2, FS_Subset
  <2> QED BY <2>1, <2>3 DEF PlaceAmong
<1>5. \A i, j \in shelf : PlaceAmong(i, shelf) = PlaceAmong(j, shelf) => i = j
  BY <1>4
<1>6. ASSUME NEW n \in all PROVE \E i \in shelf : PlaceAmong(i, shelf) = n
  <2>1. f \in Injection(shelf, all)
    BY <1>3, <1>5 DEF Injection, IsInjective
  <2>2. IsFiniteSet(all) /\ Cardinality(all) = Cardinality(shelf)
    <3>1. /\ IsFiniteSet(1..Cardinality(shelf))
          /\ Cardinality(1..Cardinality(shelf)) =
                IF 1 > Cardinality(shelf) THEN 0 ELSE Cardinality(shelf) - 1 + 1
      BY <1>1, FS_Interval
    <3> QED BY <1>1, <3>1
  <2>3. f \in Surjection(shelf, all)
    BY <2>1, <2>2, FS_Injection
  <2> QED BY <2>3 DEF Surjection
<1> QED BY <1>1, <1>3, <1>5, <1>6

\* A page holds no more than was asked for, and no less unless the shelf ends on it.
LEMMA PagesAreFull ==
    ASSUME NEW shelf \in SUBSET Nat, IsFiniteSet(shelf), NEW start \in Nat, NEW limit \in Nat
    PROVE  LET leaf == {i \in shelf : PlaceAmong(i, shelf) \in (start + 1)..(start + limit)}
           IN  /\ Cardinality(leaf) \in Nat /\ Cardinality(leaf) <= limit
               /\ Cardinality(leaf) < limit => Cardinality(shelf) < start + limit
<1> DEFINE leaf == {i \in shelf : PlaceAmong(i, shelf) \in (start + 1)..(start + limit)}
           places == (start + 1)..(start + limit)
           f == [i \in leaf |-> PlaceAmong(i, shelf)]
<1>1. IsFiniteSet(places) /\ Cardinality(places) = limit
  <2>1. /\ IsFiniteSet((start + 1)..(start + limit))
        /\ Cardinality((start + 1)..(start + limit)) =
              IF start + 1 > start + limit THEN 0 ELSE (start + limit) - (start + 1) + 1
    <3>1. start + 1 \in Int /\ start + limit \in Int
      OBVIOUS
    <3> QED BY <3>1, FS_Interval
  <2> QED BY <2>1
<1>2. f \in Injection(leaf, places)
  <2>1. \A i, j \in leaf : PlaceAmong(i, shelf) = PlaceAmong(j, shelf) => i = j
    BY PlacesAreFilled
  <2> QED BY <2>1 DEF Injection, IsInjective
<1>3. IsFiniteSet(leaf) /\ Cardinality(leaf) <= limit
  BY <1>1, <1>2, FS_Injection
<1>4. Cardinality(leaf) \in Nat
  BY <1>3, FS_CardinalityType
<1>5. ASSUME start + limit <= Cardinality(shelf) PROVE Cardinality(leaf) = limit
  <2>1. \A n \in places : \E i \in leaf : PlaceAmong(i, shelf) = n
    <3> SUFFICES ASSUME NEW n \in places PROVE \E i \in leaf : PlaceAmong(i, shelf) = n
      OBVIOUS
    <3>1. n \in 1..Cardinality(shelf)
      BY <1>5, PlacesAreFilled
    <3>2. PICK i \in shelf : PlaceAmong(i, shelf) = n
      BY <3>1, PlacesAreFilled
    <3> QED BY <3>2
  <2>2. f \in Surjection(leaf, places)
    BY <1>2, <2>1 DEF Surjection, Injection
  <2> QED BY <1>1, <1>2, <2>2, FS_Injection
<1>6. Cardinality(shelf) \in Nat
  BY PlacesAreFilled
<1> QED BY <1>3, <1>4, <1>5, <1>6

\* On a fuller shelf nothing stands further to the front.
LEMMA PlacesGrow ==
    ASSUME NEW shelf, NEW fuller, shelf \subseteq fuller, IsFiniteSet(fuller), NEW i
    PROVE  /\ PlaceAmong(i, shelf) \in Nat /\ PlaceAmong(i, fuller) \in Nat
           /\ PlaceAmong(i, shelf) <= PlaceAmong(i, fuller)
<1> DEFINE less == {j \in shelf : j <= i}
           more == {j \in fuller : j <= i}
<1>1. more \in SUBSET fuller /\ less \in SUBSET more
  OBVIOUS
<1>2. IsFiniteSet(more)
  BY <1>1, FS_Subset
<1>3. IsFiniteSet(less) /\ Cardinality(less) <= Cardinality(more)
  BY <1>1, <1>2, FS_Subset
<1> QED BY <1>2, <1>3, FS_CardinalityType DEF PlaceAmong

\* What a read leaves out, how far into the shelf it has come, and what makes what it has read
\* right: it has nothing made up, nothing twice if nothing came, everything if nothing went.
Skipped(at) == IF at = "jellyfin" THEN Folders ELSE {}
ReadTo(at, start) ==
    IF at \in {"done", "pooled"} \/ start >= PoolLimit THEN PoolLimit ELSE start
IsHonest(shelf, out, seen) == shelf \subseteq seen /\ \A row \in out : row.id \in seen
IsSingle(shelf, out, start) ==
    /\ \A row \in out : row.id \in shelf => PlaceAmong(row.id, shelf) <= start
    /\ \A a, b \in out : a.id = b.id => a = b
IsWhole(shelf, out, left, to) ==
    \A i \in shelf \ left : (\E row \in out : row.id = i) \/ PlaceAmong(i, shelf) > to
ReadIsSound(of, shelf, r) ==
    /\ r.start \in Nat
    /\ r.at # "none" =>
         /\ IsHonest(shelf, r.out, r.had \cup r.came)
         /\ r.came = {} => IsSingle(shelf, r.out, r.start)
         /\ r.went = {} /\ ~r.failed =>
              IsWhole(shelf, r.out, r.came \cup Skipped(of), ReadTo(r.at, r.start))
ShelfInvariant ==
    /\ stock \subseteq ShelfItems
    /\ DOMAIN reading = DOMAIN NoRead
    /\ ReadIsSound(server, stock, reading)
    /\ reading.at = "pooled" /\ served.of = "read" =>
         ~reading.failed /\ served.items = reading.out

LEMMA ShelvesAreFinite ==
    ASSUME NEW shelf \in SUBSET ShelfItems PROVE shelf \in SUBSET Nat /\ IsFiniteSet(shelf)
BY ShelfAssumption, FS_Subset

LEMMA RowsOfAPage ==
    ASSUME NEW leaf
    PROVE  /\ \A row \in Rows(leaf) : row.id \in leaf
           /\ \A a, b \in Rows(leaf) : a.id = b.id => a = b
           /\ \A i \in leaf \ Skipped(server) : \E row \in Rows(leaf) : row.id = i
<1> DEFINE taken == leaf \ Skipped(server)
<1>1. Rows(leaf) = {ToLinearItem(i) : i \in taken}
  BY DEF Rows, Skipped
<1>2. \A i : ToLinearItem(i).id = i
  BY DEF ToLinearItem
<1> HIDE DEF taken
<1>3. taken = leaf \ Skipped(server)
  BY DEF taken
<1> QED BY <1>1, <1>2, <1>3

\* An item that came pushes others back, one that went lets them forward.
LEMMA ComingKeepsARead ==
    ASSUME NEW shelf \in SUBSET ShelfItems, NEW i \in ShelfItems, NEW out, NEW left, NEW to \in Nat,
           IsWhole(shelf, out, left, to)
    PROVE  IsWhole(shelf \cup {i}, out, left \cup {i}, to)
<1>1. shelf \cup {i} \in SUBSET ShelfItems /\ shelf \subseteq shelf \cup {i}
  OBVIOUS
<1>2. IsFiniteSet(shelf \cup {i})
  BY <1>1, ShelvesAreFinite
<1>3. ASSUME NEW j \in (shelf \cup {i}) \ (left \cup {i}), ~\E row \in out : row.id = j
      PROVE  PlaceAmong(j, shelf \cup {i}) > to
  <2>1. PlaceAmong(j, shelf) > to
    BY <1>3 DEF IsWhole
  <2>2. /\ PlaceAmong(j, shelf) \in Nat /\ PlaceAmong(j, shelf \cup {i}) \in Nat
        /\ PlaceAmong(j, shelf) <= PlaceAmong(j, shelf \cup {i})
    BY <1>1, <1>2, PlacesGrow
  <2> QED BY <2>1, <2>2
<1> QED BY <1>3 DEF IsWhole

LEMMA GoingKeepsARead ==
    ASSUME NEW shelf \in SUBSET ShelfItems, NEW i, NEW out, NEW start \in Nat,
           IsSingle(shelf, out, start)
    PROVE  IsSingle(shelf \ {i}, out, start)
<1>1. IsFiniteSet(shelf) /\ shelf \ {i} \subseteq shelf
  BY ShelvesAreFinite
<1>2. ASSUME NEW row \in out, row.id \in shelf \ {i}
      PROVE  PlaceAmong(row.id, shelf \ {i}) <= start
  <2>1. PlaceAmong(row.id, shelf) <= start
    BY <1>2 DEF IsSingle
  <2>2. /\ PlaceAmong(row.id, shelf \ {i}) \in Nat /\ PlaceAmong(row.id, shelf) \in Nat
        /\ PlaceAmong(row.id, shelf \ {i}) <= PlaceAmong(row.id, shelf)
    BY <1>1, PlacesGrow
  <2> QED BY <2>1, <2>2
<1> QED BY <1>2 DEF IsSingle

\* A page takes a read further into the shelf by what was asked for.
LEMMA APageIsRead ==
    ASSUME NEW shelf \in SUBSET ShelfItems, NEW start \in Nat, NEW limit \in Nat,
           NEW leaf, leaf = {i \in shelf : PlaceAmong(i, shelf) \in (start + 1)..(start + limit)},
           NEW out, NEW rows, NEW skip, NEW came,
           \A row \in rows : row.id \in leaf,
           \A a, b \in rows : a.id = b.id => a = b,
           \A i \in leaf \ skip : \E row \in rows : row.id = i
    PROVE  /\ IsSingle(shelf, out, start) => IsSingle(shelf, out \cup rows, start + limit)
           /\ IsWhole(shelf, out, came \cup skip, start) =>
                IsWhole(shelf, out \cup rows, came \cup skip, start + limit)
<1>1. \A i \in shelf : PlaceAmong(i, shelf) \in Nat
  <2>1. shelf \in SUBSET Nat /\ IsFiniteSet(shelf)
    BY ShelvesAreFinite
  <2>2. Cardinality(shelf) \in Nat /\ \A i \in shelf : PlaceAmong(i, shelf) \in 1..Cardinality(shelf)
    BY <2>1, PlacesAreFilled
  <2> QED BY <2>2
<1>2. ASSUME IsSingle(shelf, out, start) PROVE IsSingle(shelf, out \cup rows, start + limit)
  <2>1. \A row \in out : row.id \in shelf => PlaceAmong(row.id, shelf) <= start
    BY <1>2 DEF IsSingle
  <2>2. \A row \in rows : /\ row.id \in shelf /\ PlaceAmong(row.id, shelf) >= start + 1
                          /\ PlaceAmong(row.id, shelf) <= start + limit
    BY <1>1
  <2>3. \A row \in out \cup rows : row.id \in shelf => PlaceAmong(row.id, shelf) <= start + limit
    BY <1>1, <2>1, <2>2
  <2>4. \A a \in out, b \in rows : a.id # b.id
    BY <1>1, <2>1, <2>2
  <2>5. \A a, b \in out : a.id = b.id => a = b
    BY <1>2 DEF IsSingle
  <2>6. \A a, b \in out \cup rows : a.id = b.id => a = b
    BY <2>4, <2>5
  <2> QED BY <2>3, <2>6 DEF IsSingle
<1>3. ASSUME IsWhole(shelf, out, came \cup skip, start),
             NEW i \in shelf \ (came \cup skip), ~\E row \in out \cup rows : row.id = i
      PROVE  PlaceAmong(i, shelf) > start + limit
  <2>1. PlaceAmong(i, shelf) > start
    BY <1>3 DEF IsWhole
  <2>2. i \notin leaf
    BY <1>3
  <2> QED BY <1>1, <2>1, <2>2
<1> QED BY <1>2, <1>3 DEF IsWhole

\* A page that is short, or that the shelf was said to end with, is the last there is.
LEMMA TheLastPageIsAll ==
    ASSUME NEW shelf \in SUBSET ShelfItems, NEW start \in Nat, NEW limit \in Nat, NEW told,
           NEW leaf, leaf = {i \in shelf : PlaceAmong(i, shelf) \in (start + 1)..(start + limit)},
           \/ Cardinality(leaf) < limit
           \/ told > 0 /\ start + Cardinality(leaf) >= told,
           shelf # {} => told = Cardinality(shelf),
           NEW out, NEW left, IsWhole(shelf, out, left, start + limit), NEW to
    PROVE  IsWhole(shelf, out, left, to)
<1>1. shelf \in SUBSET Nat /\ IsFiniteSet(shelf)
  BY ShelvesAreFinite
<1>2. /\ Cardinality(leaf) \in Nat /\ Cardinality(leaf) <= limit
      /\ Cardinality(leaf) < limit => Cardinality(shelf) < start + limit
  BY <1>1, PagesAreFull
<1>3. /\ Cardinality(shelf) \in Nat
      /\ \A i \in shelf : PlaceAmong(i, shelf) \in 1..Cardinality(shelf)
  BY <1>1, PlacesAreFilled
<1>4. shelf # {} => Cardinality(shelf) <= start + limit
  <2>1. CASE Cardinality(leaf) < limit
    BY <1>2, <1>3, <2>1
  <2>2. CASE told > 0 /\ start + Cardinality(leaf) >= told
    BY <1>2, <1>3, <2>2
  <2> QED BY <2>1, <2>2
<1>5. \A i \in shelf : ~(PlaceAmong(i, shelf) > start + limit)
  BY <1>3, <1>4
<1> QED BY <1>5 DEF IsWhole

LEMMA ShelfStarts == ShelfInit => ShelfInvariant
<1> SUFFICES ASSUME ShelfInit PROVE ShelfInvariant
  OBVIOUS
<1>1. stock \subseteq ShelfItems /\ reading = NoRead /\ served.of = "none"
  BY DEF ShelfInit, NoPool
<1>2. reading.at = "none" /\ reading.start = 0
  BY <1>1 DEF NoRead
<1> QED BY <1>1, <1>2 DEF ShelfInvariant, ReadIsSound

LEMMA ComesIsSound == ASSUME ShelfInvariant, NEW i \in ShelfItems, Comes(i) PROVE ShelfInvariant'
<1>0. PICK r, n : r = reading /\ n = reading'
  OBVIOUS
<1>1. PICK s, t : s = stock /\ t = stock'
  OBVIOUS
<1>2. /\ s \in SUBSET ShelfItems /\ DOMAIN r = DOMAIN NoRead /\ ReadIsSound(server, s, r)
      /\ r.at = "pooled" /\ served.of = "read" => ~r.failed /\ served.items = r.out
  BY <1>0, <1>1 DEF ShelfInvariant
<1>3. t = s \cup {i} /\ n = [r EXCEPT !.came = r.came \cup {i}] /\ UNCHANGED <<server, served>>
  BY <1>0, <1>1 DEF Comes
<1>4. /\ DOMAIN n = DOMAIN r /\ n.came = r.came \cup {i}
      /\ n.at = r.at /\ n.start = r.start /\ n.out = r.out /\ n.had = r.had /\ n.went = r.went
      /\ n.failed = r.failed
  BY <1>2, <1>3 DEF NoRead
<1>5. ReadIsSound(server, t, n)
  <2>1. n.start \in Nat
    BY <1>2, <1>4 DEF ReadIsSound
  <2>2. n.at # "none" => IsHonest(t, n.out, n.had \cup n.came)
    BY <1>2, <1>3, <1>4 DEF ReadIsSound, IsHonest
  <2>3. n.came # {}
    BY <1>4
  <2>4. ASSUME n.at # "none", n.went = {}, ~n.failed
        PROVE  IsWhole(t, n.out, n.came \cup Skipped(server), ReadTo(n.at, n.start))
    <3>1. IsWhole(s, r.out, r.came \cup Skipped(server), ReadTo(r.at, r.start))
      BY <1>2, <1>4, <2>4 DEF ReadIsSound
    <3>2. ReadTo(r.at, r.start) \in Nat
      BY <1>4, <2>1, ShelfAssumption DEF ReadTo
    <3>3. IsWhole(t, r.out, (r.came \cup Skipped(server)) \cup {i}, ReadTo(r.at, r.start))
      BY <1>2, <1>3, <3>1, <3>2, ComingKeepsARead
    <3>4. (r.came \cup Skipped(server)) \cup {i} = n.came \cup Skipped(server)
      BY <1>4
    <3> QED BY <1>4, <3>3, <3>4
  <2> QED BY <2>1, <2>2, <2>3, <2>4 DEF ReadIsSound
<1> QED BY <1>0, <1>1, <1>2, <1>3, <1>4, <1>5 DEF ShelfInvariant

LEMMA GoesIsSound == ASSUME ShelfInvariant, NEW i \in ShelfItems, Goes(i) PROVE ShelfInvariant'
<1>0. PICK r, n : r = reading /\ n = reading'
  OBVIOUS
<1>1. PICK s, t : s = stock /\ t = stock'
  OBVIOUS
<1>2. /\ s \in SUBSET ShelfItems /\ DOMAIN r = DOMAIN NoRead /\ ReadIsSound(server, s, r)
      /\ r.at = "pooled" /\ served.of = "read" => ~r.failed /\ served.items = r.out
  BY <1>0, <1>1 DEF ShelfInvariant
<1>3. t = s \ {i} /\ n = [r EXCEPT !.went = r.went \cup {i}] /\ UNCHANGED <<server, served>>
  BY <1>0, <1>1 DEF Goes
<1>4. /\ DOMAIN n = DOMAIN r /\ n.went = r.went \cup {i}
      /\ n.at = r.at /\ n.start = r.start /\ n.out = r.out /\ n.had = r.had /\ n.came = r.came
      /\ n.failed = r.failed
  BY <1>2, <1>3 DEF NoRead
<1>5. ReadIsSound(server, t, n)
  <2>1. n.start \in Nat
    BY <1>2, <1>4 DEF ReadIsSound
  <2>2. n.at # "none" => IsHonest(t, n.out, n.had \cup n.came)
    BY <1>2, <1>3, <1>4 DEF ReadIsSound, IsHonest
  <2>3. ASSUME n.at # "none", n.came = {} PROVE IsSingle(t, n.out, n.start)
    <3>1. IsSingle(s, r.out, r.start)
      BY <1>2, <1>4, <2>3 DEF ReadIsSound
    <3> QED BY <1>2, <1>3, <1>4, <2>1, <3>1, GoingKeepsARead
  <2>4. n.went # {}
    BY <1>4
  <2> QED BY <2>1, <2>2, <2>3, <2>4 DEF ReadIsSound
<1> QED BY <1>0, <1>1, <1>2, <1>3, <1>4, <1>5 DEF ShelfInvariant

LEMMA PageIsSound == ASSUME ShelfInvariant, ReadPage PROVE ShelfInvariant'
<1>0. PICK r, n : r = reading /\ n = reading'
  OBVIOUS
<1>1. PICK s : s = stock
  OBVIOUS
<1>2. PICK limit, told, leaf : /\ limit = Limit
                               /\ told = IF s # {} THEN Cardinality(s) ELSE r.total
                               /\ leaf = Page(reading.start, limit)
  OBVIOUS
<1>3. PICK rows : rows = Rows(leaf)
  OBVIOUS
<1>4. /\ s \in SUBSET ShelfItems /\ DOMAIN r = DOMAIN NoRead /\ ReadIsSound(server, s, r)
  BY <1>0, <1>1 DEF ShelfInvariant
<1>5. /\ n = [r EXCEPT !.total = told, !.out = r.out \cup rows, !.start = r.start + PageSize,
                       !.at = IF LastPage(leaf, told) THEN "done" ELSE r.at]
      /\ r.at = "items" /\ r.start < PoolLimit /\ UNCHANGED <<server, stock, served>>
  BY <1>0, <1>1, <1>2, <1>3 DEF ReadPage
<1>6. /\ DOMAIN n = DOMAIN r /\ n.out = r.out \cup rows /\ n.start = r.start + PageSize
      /\ n.at = (IF LastPage(leaf, told) THEN "done" ELSE r.at)
      /\ n.had = r.had /\ n.came = r.came /\ n.went = r.went /\ n.failed = r.failed
  BY <1>4, <1>5 DEF NoRead
<1>7. /\ PageSize \in Nat \ {0} /\ PoolLimit \in Nat \ {0} /\ r.start \in Nat
      /\ limit = IF PoolLimit - r.start < PageSize THEN PoolLimit - r.start ELSE PageSize
  BY <1>0, <1>2, <1>4, ShelfAssumption DEF Limit, ReadIsSound
<1>8. /\ limit \in Nat /\ r.start + limit \in Nat /\ r.start + limit <= n.start /\ n.start \in Nat
      /\ ReadTo(r.at, r.start) = r.start
      /\ n.at # "done" => ReadTo(n.at, n.start) = r.start + limit
  BY <1>5, <1>6, <1>7 DEF ReadTo
<1>9. leaf = {i \in s : PlaceAmong(i, s) \in (r.start + 1)..(r.start + limit)}
  BY <1>0, <1>1, <1>2 DEF Page
<1>10. /\ \A row \in rows : row.id \in leaf
       /\ \A a, b \in rows : a.id = b.id => a = b
       /\ \A i \in leaf \ Skipped(server) : \E row \in rows : row.id = i
  BY <1>3, RowsOfAPage
<1>11. /\ IsSingle(s, r.out, r.start) => IsSingle(s, n.out, r.start + limit)
       /\ IsWhole(s, r.out, r.came \cup Skipped(server), r.start) =>
            IsWhole(s, n.out, r.came \cup Skipped(server), r.start + limit)
  <2>1. /\ IsSingle(s, r.out, r.start) => IsSingle(s, r.out \cup rows, r.start + limit)
        /\ IsWhole(s, r.out, r.came \cup Skipped(server), r.start) =>
             IsWhole(s, r.out \cup rows, r.came \cup Skipped(server), r.start + limit)
    BY <1>4, <1>7, <1>8, <1>9, <1>10, APageIsRead
  <2> QED BY <1>6, <2>1
<1>12. ReadIsSound(server, s, n)
  <2>1. IsHonest(s, n.out, n.had \cup n.came)
    <3>1. IsHonest(s, r.out, r.had \cup r.came)
      BY <1>4, <1>5 DEF ReadIsSound
    <3>2. \A row \in rows : row.id \in s
      BY <1>9, <1>10
    <3> QED BY <1>6, <3>1, <3>2 DEF IsHonest
  <2>2. ASSUME n.came = {} PROVE IsSingle(s, n.out, n.start)
    <3>1. IsSingle(s, r.out, r.start)
      BY <1>4, <1>5, <1>6, <2>2 DEF ReadIsSound
    <3>2. IsSingle(s, n.out, r.start + limit)
      BY <1>11, <3>1
    <3>3. \A i \in s : PlaceAmong(i, s) \in Nat
      <4>1. s \in SUBSET Nat /\ IsFiniteSet(s)
        BY <1>4, ShelvesAreFinite
      <4>2. Cardinality(s) \in Nat /\ \A i \in s : PlaceAmong(i, s) \in 1..Cardinality(s)
        BY <4>1, PlacesAreFilled
      <4> QED BY <4>2
    <3> QED BY <1>8, <3>2, <3>3 DEF IsSingle
  <2>3. ASSUME n.went = {}, ~n.failed
        PROVE  IsWhole(s, n.out, n.came \cup Skipped(server), ReadTo(n.at, n.start))
    <3>1. IsWhole(s, r.out, r.came \cup Skipped(server), ReadTo(r.at, r.start))
      BY <1>4, <1>5, <1>6, <2>3 DEF ReadIsSound
    <3>2. IsWhole(s, n.out, r.came \cup Skipped(server), r.start + limit)
      BY <1>8, <1>11, <3>1
    <3>3. CASE LastPage(leaf, told)
      <4>1. /\ Cardinality(leaf) < limit \/ (told > 0 /\ r.start + Cardinality(leaf) >= told)
            /\ s # {} => told = Cardinality(s)
        BY <1>0, <1>2, <3>3 DEF LastPage
      <4>2. IsWhole(s, n.out, r.came \cup Skipped(server), ReadTo(n.at, n.start))
        BY <1>4, <1>7, <1>8, <1>9, <3>2, <4>1, TheLastPageIsAll
      <4> QED BY <1>6, <4>2
    <3>4. CASE ~LastPage(leaf, told)
      <4>1. n.at # "done"
        BY <1>5, <1>6, <3>4
      <4> QED BY <1>6, <1>8, <3>2, <4>1
    <3> QED BY <3>3, <3>4
  <2> QED BY <1>8, <2>1, <2>2, <2>3 DEF ReadIsSound
<1>13. n.at # "pooled"
  BY <1>5, <1>6
<1> QED BY <1>0, <1>1, <1>4, <1>5, <1>6, <1>12, <1>13 DEF ShelfInvariant

LEMMA OpeningIsSound == ASSUME ShelfInvariant, OpenRead PROVE ShelfInvariant'
<1>0. PICK n, s : n = reading' /\ s = stock
  OBVIOUS
<1>1. /\ n = [NoRead EXCEPT !.at = IF server = "plexShows" THEN "shows" ELSE "items", !.had = s]
      /\ UNCHANGED <<server, stock, served>>
  BY <1>0 DEF OpenRead
<1>2. /\ DOMAIN n = DOMAIN NoRead /\ n.at \in {"shows", "items"} /\ n.had = s /\ n.out = {}
      /\ n.start = 0 /\ n.came = {} /\ n.went = {}
  BY <1>1 DEF NoRead
<1>3. s \in SUBSET ShelfItems
  BY <1>0 DEF ShelfInvariant
<1>4. IsHonest(s, n.out, n.had \cup n.came) /\ IsSingle(s, n.out, n.start)
  BY <1>2 DEF IsHonest, IsSingle
<1>5. IsWhole(s, n.out, n.came \cup Skipped(server), ReadTo(n.at, n.start))
  <2>1. s \in SUBSET Nat /\ IsFiniteSet(s)
    BY <1>3, ShelvesAreFinite
  <2>2. Cardinality(s) \in Nat /\ \A i \in s : PlaceAmong(i, s) \in 1..Cardinality(s)
    BY <2>1, PlacesAreFilled
  <2>3. ReadTo(n.at, n.start) = 0
    BY <1>2, ShelfAssumption DEF ReadTo
  <2>4. \A i \in s : PlaceAmong(i, s) > 0
    BY <2>2
  <2> QED BY <2>3, <2>4 DEF IsWhole
<1>6. ReadIsSound(server, s, n)
  BY <1>2, <1>4, <1>5 DEF ReadIsSound
<1> QED BY <1>0, <1>1, <1>2, <1>3, <1>6 DEF ShelfInvariant

\* The steps that read nothing: the shows, the limit, a page that is not answered, the pool.
LEMMA ReadGoesOn ==
    ASSUME ShelfInvariant, UNCHANGED <<server, stock>>,
           \/ \E shows \in {{}, Shows} : ReadShows(shows)
           \/ Truncated \/ PageFails \/ PoolFromRead
    PROVE  ShelfInvariant'
<1>0. PICK r, n, s : r = reading /\ n = reading' /\ s = stock
  OBVIOUS
<1>1. /\ s \subseteq ShelfItems /\ DOMAIN r = DOMAIN NoRead /\ ReadIsSound(server, s, r)
  BY <1>0 DEF ShelfInvariant
<1>2. ASSUME NEW shows, ReadShows(shows) PROVE ShelfInvariant'
  <2>1. n = [r EXCEPT !.at = "items", !.shows = shows] /\ r.at = "shows"
    BY <1>0, <1>2 DEF ReadShows
  <2>2. /\ DOMAIN n = DOMAIN NoRead /\ n.at = "items" /\ n.start = r.start /\ n.out = r.out
        /\ n.had = r.had /\ n.came = r.came /\ n.went = r.went /\ n.failed = r.failed
    BY <1>1, <2>1 DEF NoRead
  <2>3. ReadTo(n.at, n.start) = ReadTo(r.at, r.start)
    BY <2>1, <2>2 DEF ReadTo
  <2>4. ReadIsSound(server, s, n)
    BY <1>1, <2>1, <2>2, <2>3 DEF ReadIsSound
  <2> QED BY <1>0, <1>1, <2>2, <2>4 DEF ShelfInvariant
<1>3. CASE Truncated
  <2>1. n = [r EXCEPT !.at = "done"] /\ r.at = "items" /\ r.start >= PoolLimit
    BY <1>0, <1>3 DEF Truncated
  <2>2. /\ DOMAIN n = DOMAIN NoRead /\ n.at = "done" /\ n.start = r.start /\ n.out = r.out
        /\ n.had = r.had /\ n.came = r.came /\ n.went = r.went /\ n.failed = r.failed
    BY <1>1, <2>1 DEF NoRead
  <2>3. ReadTo(n.at, n.start) = ReadTo(r.at, r.start)
    BY <2>1, <2>2 DEF ReadTo
  <2>4. ReadIsSound(server, s, n)
    BY <1>1, <2>1, <2>2, <2>3 DEF ReadIsSound
  <2> QED BY <1>0, <1>1, <2>2, <2>4 DEF ShelfInvariant
<1>4. CASE PageFails
  <2>1. n = [r EXCEPT !.at = "done", !.failed = TRUE] /\ r.at = "items"
    BY <1>0, <1>4 DEF PageFails
  <2>2. /\ DOMAIN n = DOMAIN NoRead /\ n.at = "done" /\ n.start = r.start /\ n.out = r.out
        /\ n.had = r.had /\ n.came = r.came
    BY <1>1, <2>1 DEF NoRead
  <2>3. n.failed
    BY <1>1, <2>1, Zenon DEF NoRead
  <2>4. ReadIsSound(server, s, n)
    BY <1>1, <2>1, <2>2, <2>3 DEF ReadIsSound
  <2> QED BY <1>0, <1>1, <2>2, <2>4 DEF ShelfInvariant
<1>5. CASE PoolFromRead
  <2>1. n = [r EXCEPT !.at = "pooled"] /\ r.at = "done" /\ Pooled(r.out, r.failed)
    BY <1>0, <1>5 DEF PoolFromRead
  <2>2. /\ DOMAIN n = DOMAIN NoRead /\ n.at = "pooled" /\ n.start = r.start /\ n.out = r.out
        /\ n.had = r.had /\ n.came = r.came /\ n.went = r.went /\ n.failed = r.failed
    BY <1>1, <2>1 DEF NoRead
  <2>3. ReadTo(n.at, n.start) = ReadTo(r.at, r.start)
    BY <2>1, <2>2 DEF ReadTo
  <2>4. ReadIsSound(server, s, n)
    BY <1>1, <2>1, <2>2, <2>3 DEF ReadIsSound
  <2>5. served'.of = "read" => ~r.failed /\ served'.items = r.out
    BY <2>1 DEF Pooled
  <2> QED BY <1>0, <1>1, <2>2, <2>4, <2>5 DEF ShelfInvariant
<1> QED BY <1>2, <1>3, <1>4, <1>5

LEMMA ShelfStays == ShelfInvariant /\ [ShelfNext]_shelfVars => ShelfInvariant'
<1> SUFFICES ASSUME ShelfInvariant, [ShelfNext]_shelfVars PROVE ShelfInvariant'
  OBVIOUS
<1>1. ASSUME NEW i \in ShelfItems, Comes(i) \/ Goes(i) PROVE ShelfInvariant'
  BY <1>1, ComesIsSound, GoesIsSound
<1>2. ASSUME \/ \E shows \in {{}, Shows} : ReadShows(shows)
             \/ Truncated \/ PageFails \/ PoolFromRead
      PROVE  ShelfInvariant'
  <2>1. UNCHANGED <<server, stock>>
    BY <1>2 DEF ReadShows, Truncated, PageFails, PoolFromRead
  <2> QED BY <1>2, <2>1, ReadGoesOn
<1>3. ASSUME PoolFromCopy PROVE ShelfInvariant'
  <2>1. reading.at = "none" /\ UNCHANGED <<server, stock, reading>>
    BY <1>3 DEF PoolFromCopy
  <2> QED BY <2>1 DEF ShelfInvariant
<1>4. ASSUME ReadEnds PROVE ShelfInvariant'
  <2>1. reading' = NoRead /\ UNCHANGED <<server, stock, served>>
    BY <1>4 DEF ReadEnds
  <2>2. reading'.at = "none" /\ reading'.start = 0
    BY <2>1 DEF NoRead
  <2>3. ReadIsSound(server', stock', reading')
    BY <2>2 DEF ReadIsSound
  <2> QED BY <2>1, <2>2, <2>3 DEF ShelfInvariant
<1>5. ASSUME CopyAges \/ UNCHANGED shelfVars PROVE ShelfInvariant'
  <2>1. UNCHANGED <<server, stock, reading, served>>
    BY <1>5 DEF CopyAges, shelfVars
  <2> QED BY <2>1 DEF ShelfInvariant
<1> QED BY <1>1, <1>2, <1>3, <1>4, <1>5, PageIsSound, OpeningIsSound DEF ShelfNext

LEMMA ShelfIsThePool == ShelfInvariant => PoolIsTheShelf
<1> SUFFICES ASSUME ShelfInvariant, reading.at = "pooled", served.of = "read"
             PROVE  /\ reading.went = {} =>
                         \A i \in Wanted(stock) \ reading.came : RowsOf(i) # {}
                    /\ reading.came = {} => \A i \in ShelfItems : Cardinality(RowsOf(i)) <= 1
                    /\ \A i \in ShelfItems : RowsOf(i) # {} => i \in reading.had \cup reading.came
  BY DEF PoolIsTheShelf
<1>1. /\ stock \in SUBSET ShelfItems /\ ReadIsSound(server, stock, reading)
      /\ ~reading.failed /\ served.items = reading.out
  BY DEF ShelfInvariant
<1>2. ASSUME reading.went = {}, NEW i \in Wanted(stock) \ reading.came PROVE RowsOf(i) # {}
  <2>1. i \in stock /\ PlaceAmong(i, stock) <= PoolLimit /\ i \notin Skipped(server)
    BY <1>2 DEF Wanted, Skipped
  <2>2. IsWhole(stock, reading.out, reading.came \cup Skipped(server), PoolLimit)
    BY <1>1, <1>2 DEF ReadIsSound, ReadTo
  <2>3. PlaceAmong(i, stock) \in Nat
    <3>1. stock \in SUBSET Nat /\ IsFiniteSet(stock)
      BY <1>1, ShelvesAreFinite
    <3>2. PlaceAmong(i, stock) \in 1..Cardinality(stock) /\ Cardinality(stock) \in Nat
      BY <2>1, <3>1, PlacesAreFilled
    <3> QED BY <3>2
  <2>4. ~(PlaceAmong(i, stock) > PoolLimit)
    BY <2>1, <2>3, ShelfAssumption
  <2>5. \E row \in reading.out : row.id = i
    BY <1>2, <2>1, <2>2, <2>4 DEF IsWhole
  <2> QED BY <1>1, <2>5 DEF RowsOf
<1>3. ASSUME reading.came = {}, NEW i \in ShelfItems PROVE Cardinality(RowsOf(i)) <= 1
  <2>1. \A a, b \in reading.out : a.id = b.id => a = b
    BY <1>1, <1>3 DEF ReadIsSound, IsSingle
  <2>2. \A a, b \in RowsOf(i) : a = b
    BY <1>1, <2>1 DEF RowsOf
  <2>3. CASE RowsOf(i) = {}
    BY <2>3, FS_EmptySet
  <2>4. CASE RowsOf(i) # {}
    <3>1. PICK row : row \in RowsOf(i)
      BY <2>4
    <3>2. RowsOf(i) = {row}
      BY <2>2, <3>1
    <3>3. Cardinality({row}) = 1
      BY FS_Singleton
    <3> QED BY <3>2, <3>3
  <2> QED BY <2>3, <2>4
<1>4. \A i \in ShelfItems : RowsOf(i) # {} => i \in reading.had \cup reading.came
  BY <1>1 DEF ReadIsSound, IsHonest, RowsOf
<1> QED BY <1>2, <1>3, <1>4

\* A pool that was just read is the shelf: it has every item that was there all along and is
\* within the limit while nothing is taken away, no item twice while nothing is added, and
\* nothing that never stood there (LinearItems of the Jellyfin and the Plex source).
THEOREM PoolsAreTheShelf == ShelfSpec => []PoolIsTheShelf
<1>1. ShelfSpec => []ShelfInvariant
  BY ShelfStarts, ShelfStays, PTL DEF ShelfSpec
<1> QED BY <1>1, ShelfIsThePool, PTL

-----------------------------------------------------------------------------
(* The lineup: its orders.                                                 *)

LEMMA ProgrammesAreOrdered ==
    ASSUME NEW set, set \subseteq Programmes PROVE IsFiniteSet(set) /\ Orders(Before, set)
<1>1. IsFiniteSet(set)
  BY LineupAssumption, FS_Subset
<1>2. \A q, r \in Programmes : <<q, r>> \in Before <=>
          q.show < r.show \/ (q.show = r.show /\ q.episode < r.episode)
  BY DEF Before
<1>3. \A q \in set : q \in Programmes /\ q.show \in Int /\ q.episode \in Int
  BY LineupAssumption
<1>4. \A q, r \in set : q.show = r.show /\ q.episode = r.episode => q = r
  BY LineupAssumption
<1>5. ASSUME NEW q \in set, NEW r \in set
      PROVE  /\ <<q, q>> \notin Before
             /\ q # r => <<q, r>> \in Before \/ <<r, q>> \in Before
             /\ \A t \in set : <<q, r>> \in Before /\ <<r, t>> \in Before => <<q, t>> \in Before
  <2>1. <<q, q>> \notin Before
    BY <1>2, <1>3
  <2>2. q # r => <<q, r>> \in Before \/ <<r, q>> \in Before
    BY <1>2, <1>3, <1>4
  <2>3. ASSUME NEW t \in set, <<q, r>> \in Before, <<r, t>> \in Before PROVE <<q, t>> \in Before
    BY <1>2, <1>3, <2>3
  <2> QED BY <2>1, <2>2, <2>3
<1> QED BY <1>1, <1>5 DEF Orders

LEMMA ShowsAreFinite ==
    ASSUME NEW set, set \subseteq Programmes
    PROVE  /\ {q.show : q \in set} \subseteq ShowIds /\ ShowIds \subseteq Int
           /\ IsFiniteSet({q.show : q \in set}) /\ IsFiniteSet(ShowIds)
<1>1. {q.show : q \in set} \subseteq ShowIds /\ ShowIds \subseteq Int
  BY LineupAssumption DEF ShowIds
<1>2. IsFiniteSet(ShowIds)
  <2> DEFINE f == [q \in Programmes |-> q.show]
  <2>1. f \in Surjection(Programmes, ShowIds)
    BY DEF Surjection, ShowIds
  <2> QED BY <2>1, LineupAssumption, FS_Surjection
<1> QED BY <1>1, <1>2, FS_Subset

LEMMA ShowsAreOrdered ==
    ASSUME NEW set, set \subseteq ShowIds PROVE Orders(ByName, set)
<1>1. \A q, r \in set : <<q, r>> \in ByName <=> q < r
  BY DEF ByName
<1>2. \A q \in set : q \in Int
  BY LineupAssumption DEF ShowIds
<1>3. ASSUME NEW q \in set, NEW r \in set
      PROVE  /\ <<q, q>> \notin ByName
             /\ q # r => <<q, r>> \in ByName \/ <<r, q>> \in ByName
             /\ \A t \in set : <<q, r>> \in ByName /\ <<r, t>> \in ByName => <<q, t>> \in ByName
  <2>1. <<q, q>> \notin ByName
    BY <1>1, <1>2
  <2>2. q # r => <<q, r>> \in ByName \/ <<r, q>> \in ByName
    BY <1>1, <1>2
  <2>3. ASSUME NEW t \in set, <<q, r>> \in ByName, <<r, t>> \in ByName PROVE <<q, t>> \in ByName
    BY <1>1, <1>2, <2>3
  <2> QED BY <2>1, <2>2, <2>3
<1> QED BY <1>3 DEF Orders

\* The shows of a round as they were dealt.
AsDealt(deal) == {st \in ShowIds \X ShowIds : deal[st[1]] < deal[st[2]]}

LEMMA DealsAreOrdered ==
    ASSUME NEW set, set \subseteq ShowIds, NEW deal \in Deals
    PROVE  Orders(AsDealt(deal), set)
<1>1. \A q, r \in set : <<q, r>> \in AsDealt(deal) <=> deal[q] < deal[r]
  BY DEF AsDealt
<1>2. \A q \in set : deal[q] \in Int
  <2>1. deal \in [ShowIds -> 1..Cardinality(ShowIds)]
    BY DEF Deals
  <2> QED BY <2>1
<1>3. \A q, r \in set : deal[q] = deal[r] => q = r
  BY DEF Deals
<1>4. ASSUME NEW q \in set, NEW r \in set
      PROVE  /\ <<q, q>> \notin AsDealt(deal)
             /\ q # r => <<q, r>> \in AsDealt(deal) \/ <<r, q>> \in AsDealt(deal)
             /\ \A t \in set : <<q, r>> \in AsDealt(deal) /\ <<r, t>> \in AsDealt(deal)
                              => <<q, t>> \in AsDealt(deal)
  <2>1. <<q, q>> \notin AsDealt(deal)
    BY <1>1, <1>2
  <2>2. q # r => <<q, r>> \in AsDealt(deal) \/ <<r, q>> \in AsDealt(deal)
    BY <1>1, <1>2, <1>3
  <2>3. ASSUME NEW t \in set, <<q, r>> \in AsDealt(deal), <<r, t>> \in AsDealt(deal)
        PROVE  <<q, t>> \in AsDealt(deal)
    BY <1>1, <1>2, <2>3
  <2> QED BY <2>1, <2>2, <2>3
<1> QED BY <1>4 DEF Orders

-----------------------------------------------------------------------------
(* The lineup: what a count leaves to each of several that take turns.     *)

LEMMA DivMod ==
    ASSUME NEW n \in Nat, NEW k \in Nat \ {0}
    PROVE  n \div k \in Nat /\ n % k \in 0..(k - 1) /\ n = (n \div k) * k + (n % k)
OBVIOUS
LEMMA DivModIs ==
    ASSUME NEW q \in Nat, NEW k \in Nat \ {0}, NEW w \in 0..(k - 1)
    PROVE  (q * k + w) \div k = q /\ (q * k + w) % k = w
OBVIOUS
LEMMA DivModNext ==
    ASSUME NEW n \in Nat, NEW k \in Nat \ {0}
    PROVE  /\ n % k < k - 1 => (n + 1) \div k = n \div k /\ (n + 1) % k = (n % k) + 1
           /\ n % k = k - 1 => (n + 1) \div k = n \div k + 1 /\ (n + 1) % k = 0
OBVIOUS
LEMMA Times ==
    ASSUME NEW a \in Nat, NEW b \in Nat, NEW k \in Nat
    PROVE  /\ a * k \in Nat /\ (a + 1) * k = a * k + k
           /\ a < b => a * k + k <= b * k
OBVIOUS
LEMMA ByOne == ASSUME NEW n \in Nat PROVE n \div 1 = n /\ n % 1 = 0
OBVIOUS

\* A round of `length` turns gives a show `width` of them, from `start` on.
Within(x, width) == IF x <= 0 THEN 0 ELSE IF x >= width THEN width ELSE x
TurnsAt(n, length, start, width) ==
    (n \div length) * width + Within((n % length) - start, width)

LEMMA NoTurnsAtFirst ==
    ASSUME NEW length \in Nat \ {0}, NEW start \in Nat, NEW width \in Nat \ {0}
    PROVE  TurnsAt(0, length, start, width) = 0
<1>1. 0 \div length = 0 /\ 0 % length = 0
  OBVIOUS
<1> QED BY <1>1 DEF TurnsAt, Within

\* Whoever's turn it is has one more, nobody else has; the start may move with the round.
HaveTheirTurns(n, length, start, later, width) ==
    LET x == n % length
        before == TurnsAt(n, length, start, width)
        after == TurnsAt(n + 1, length, later, width)
    IN  /\ before \in Nat
        /\ x \in start..(start + width - 1) =>
             before = (n \div length) * width + (x - start) /\ after = before + 1
        /\ x \notin start..(start + width - 1) => after = before

LEMMA OneTurnEach ==
    ASSUME NEW n \in Nat, NEW length \in Nat \ {0}, NEW width \in Nat \ {0},
           NEW start \in Nat, NEW later \in Nat,
           start + width <= length, later + width <= length,
           n \div length = (n + 1) \div length => later = start
    PROVE  HaveTheirTurns(n, length, start, later, width)
<1> SUFFICES /\ TurnsAt(n, length, start, width) \in Nat
             /\ n % length \in start..(start + width - 1) =>
                  /\ TurnsAt(n, length, start, width) = (n \div length) * width + ((n % length) - start)
                  /\ TurnsAt(n + 1, length, later, width) = TurnsAt(n, length, start, width) + 1
             /\ n % length \notin start..(start + width - 1) =>
                  TurnsAt(n + 1, length, later, width) = TurnsAt(n, length, start, width)
  BY DEF HaveTheirTurns
<1> DEFINE r == n \div length  x == n % length
<1>1. r \in Nat /\ x \in 0..(length - 1) /\ r * width \in Nat /\ (r + 1) * width = r * width + width
  BY DivMod, Times
<1>2. Within(x - start, width) \in Nat
  BY <1>1 DEF Within
<1>3. x \in start..(start + width - 1) => Within(x - start, width) = x - start
  BY <1>1 DEF Within
<1>4. CASE x < length - 1
  <2>1. (n + 1) \div length = r /\ (n + 1) % length = x + 1 /\ later = start
    BY <1>4, DivModNext
  <2>2. x \in start..(start + width - 1) => Within(x + 1 - start, width) = x - start + 1
    BY <1>1 DEF Within
  <2>3. x \notin start..(start + width - 1) =>
          Within(x + 1 - start, width) = Within(x - start, width)
    BY <1>1 DEF Within
  <2> HIDE DEF r, x
  <2>4. TurnsAt(n, length, start, width) = r * width + Within(x - start, width)
    BY DEF TurnsAt, r, x
  <2>5. TurnsAt(n + 1, length, later, width) = r * width + Within(x + 1 - start, width)
    BY <2>1 DEF TurnsAt, r, x
  <2> DEFINE rw == r * width  in == Within(x - start, width)
  <2>6. rw \in Nat /\ in \in Nat /\ x \in Int /\ x - start + 1 = (x - start) + 1
    BY <1>1, <1>2
  <2> HIDE DEF rw, in
  <2>7. CASE x \in start..(start + width - 1)
    BY <1>1, <1>2, <1>3, <2>2, <2>4, <2>5, <2>6, <2>7 DEF rw, in, r, x
  <2>8. CASE x \notin start..(start + width - 1)
    BY <1>1, <1>2, <2>3, <2>4, <2>5, <2>6, <2>8 DEF rw, in, r, x
  <2> QED BY <2>7, <2>8
<1>5. CASE x = length - 1
  <2>1. (n + 1) \div length = r + 1 /\ (n + 1) % length = 0
    BY <1>5, DivModNext
  <2>2. Within(0 - later, width) = 0
    BY DEF Within
  <2>3. x \in start..(start + width - 1) => x - start + 1 = width
    BY <1>1, <1>5
  <2>4. x \notin start..(start + width - 1) => Within(x - start, width) = width
    BY <1>1, <1>5 DEF Within
  <2> HIDE DEF r, x
  <2>5. TurnsAt(n, length, start, width) = r * width + Within(x - start, width)
    BY DEF TurnsAt, r, x
  <2>6. TurnsAt(n + 1, length, later, width) = r * width + width
    BY <1>1, <2>1, <2>2 DEF TurnsAt
  <2>7. CASE x \in start..(start + width - 1)
    BY <1>1, <1>2, <1>3, <2>3, <2>5, <2>6, <2>7 DEF r, x
  <2>8. CASE x \notin start..(start + width - 1)
    BY <1>1, <1>2, <2>4, <2>5, <2>6, <2>8 DEF r, x
  <2> QED BY <2>7, <2>8
<1> QED BY <1>1, <1>4, <1>5

-----------------------------------------------------------------------------
(* The lineup: whose turn it is, and how far into a round.                 *)

ShowsOf(pool) == {p.show : p \in pool}
OfShow(pool, s) == {p \in pool : p.show = s}
DealsMade == deals \in [0..Len(draft.parts) -> [0..(Rounds - 1) -> Deals]]
DealOf(who, round) == AsDealt(deals[who][round % Rounds])
Place(s, pool, before) == Cardinality(Preceding(s, ShowsOf(pool), before))

\* The order of the shows in a round, how many turns one has, where they begin, and how
\* many there are.
Due(shuffled, who, round) == IF shuffled THEN DealOf(who, round) ELSE ByName
OrderIn(strategy, who, round) == Due(strategy \in {"BLOCK", "CYCLIC_SHUFFLE"}, who, round)
Earlier(pool, s) == {p \in pool : p.show < s}
Block(strategy, size) == IF strategy = "CYCLIC_SHUFFLE" THEN 1 ELSE size
Width(strategy, pool, size, s) ==
    IF strategy = "CYCLIC" THEN Cardinality(OfShow(pool, s)) ELSE Block(strategy, size)
Start(strategy, pool, who, size, round, s) ==
    IF strategy = "CYCLIC" THEN Cardinality(Earlier(pool, s))
    ELSE Place(s, pool, OrderIn(strategy, who, round)) * Block(strategy, size)
Length(strategy, pool, size) ==
    IF strategy = "CYCLIC" THEN Cardinality(pool)
    ELSE Cardinality(ShowsOf(pool)) * Block(strategy, size)

LEMMA OrdersOfARound ==
    ASSUME NEW pool, pool \subseteq Programmes, DealsMade, NEW who \in 0..Len(draft.parts),
           NEW round \in Nat
    PROVE  /\ IsFiniteSet(ShowsOf(pool))
           /\ Orders(DealOf(who, round), ShowsOf(pool)) /\ Orders(ByName, ShowsOf(pool))
<1>1. ShowsOf(pool) \subseteq ShowIds /\ IsFiniteSet(ShowsOf(pool))
  BY ShowsAreFinite DEF ShowsOf
<1>2. round % Rounds \in 0..(Rounds - 1)
  BY LineupAssumption, DivMod
<1>3. deals[who][round % Rounds] \in Deals
  BY <1>2 DEF DealsMade
<1> QED BY <1>1, <1>3, ShowsAreOrdered, DealsAreOrdered DEF DealOf

\* The episodes of a show, round and round.
LEMMA EpisodesInLine ==
    ASSUME NEW pool, pool \subseteq Programmes, NEW s \in ShowsOf(pool)
    PROVE  LET eps == EpisodesOf(pool, s)
           IN  /\ eps \in Seq(OfShow(pool, s)) /\ Len(eps) \in Nat \ {0}
               /\ Len(eps) = Cardinality(OfShow(pool, s))
               /\ \A n \in Nat : Cycled(eps, n) \in OfShow(pool, s)
               /\ \A p \in OfShow(pool, s) :
                     /\ Cardinality(Preceding(p, OfShow(pool, s), Before)) + 1 \in 1..Len(eps)
                     /\ eps[Cardinality(Preceding(p, OfShow(pool, s), Before)) + 1] = p
<1> DEFINE set == OfShow(pool, s)  eps == EpisodesOf(pool, s)
<1>1. set \subseteq Programmes /\ \E p \in set : TRUE
  BY DEF OfShow, ShowsOf
<1>2. IsFiniteSet(set) /\ Orders(Before, set)
  BY <1>1, ProgrammesAreOrdered
<1>3. eps = InLine(set, Before)
  BY DEF EpisodesOf, InOrder, OfShow
<1> HIDE DEF set, eps
<1>4. /\ Cardinality(set) \in Nat /\ eps \in Seq(set) /\ Len(eps) = Cardinality(set)
      /\ \A n \in 1..Len(eps) : eps[n] \in set
      /\ \A p \in set : /\ Cardinality(Preceding(p, set, Before)) + 1 \in 1..Len(eps)
                        /\ eps[Cardinality(Preceding(p, set, Before)) + 1] = p
  BY <1>2, <1>3, ALineIsThere
<1>5. Len(eps) \in Nat \ {0}
  BY <1>1, <1>4
<1>6. ASSUME NEW n \in Nat PROVE Cycled(eps, n) \in set
  <2>1. n % Len(eps) \in 0..(Len(eps) - 1)
    BY <1>5, DivMod
  <2>2. (n % Len(eps)) + 1 \in 1..Len(eps)
    BY <1>5, <2>1
  <2> QED BY <1>4, <2>2 DEF Cycled
<1> QED BY <1>4, <1>5, <1>6 DEF set, eps

\* The shows of a round, in turn.
LEMMA ShowsInTurn ==
    ASSUME NEW pool, pool \subseteq Programmes, pool # {}, NEW before,
           Orders(before, ShowsOf(pool)), NEW n \in Nat
    PROVE  LET line == InLine(ShowsOf(pool), before)
               s == Cycled(line, n)
           IN  /\ Len(line) = Cardinality(ShowsOf(pool)) /\ Len(line) \in Nat \ {0}
               /\ s \in ShowsOf(pool) /\ Place(s, pool, before) = n % Len(line)
<1> DEFINE line == InLine(ShowsOf(pool), before)
<1>1. IsFiniteSet(ShowsOf(pool))
  BY ShowsAreFinite DEF ShowsOf
<1>2. \E s \in ShowsOf(pool) : TRUE
  BY DEF ShowsOf
<1>3. /\ Len(line) = Cardinality(ShowsOf(pool)) /\ Cardinality(ShowsOf(pool)) \in Nat
      /\ \A i \in 1..Len(line) : /\ line[i] \in ShowsOf(pool)
                                /\ Cardinality(Preceding(line[i], ShowsOf(pool), before)) = i - 1
      /\ \A s \in ShowsOf(pool) :
            Cardinality(Preceding(s, ShowsOf(pool), before)) + 1 \in 1..Len(line)
  BY <1>1, ALineIsThere
<1> HIDE DEF line
<1>4. Len(line) \in Nat \ {0}
  BY <1>2, <1>3
<1>5. n % Len(line) \in 0..(Len(line) - 1)
  BY <1>4, DivMod
<1>6. (n % Len(line)) + 1 \in 1..Len(line) /\ ((n % Len(line)) + 1) - 1 = n % Len(line)
  BY <1>4, <1>5
<1> QED BY <1>3, <1>4, <1>6 DEF Cycled, Place, line

\* A block has its place in a round, and its episodes follow on from the last round's.
IsInABlock(p, pool, who, n, size, shuffled) ==
    LET length == Cardinality(ShowsOf(pool)) * size
        round == n \div length
        place == Place(p.show, pool, Due(shuffled, who, round))
    IN  /\ length \in Nat \ {0} /\ p \in pool /\ place \in Nat
        /\ n % length = place * size + (n % size)
        /\ p = Cycled(EpisodesOf(pool, p.show), round * size + (n % size))

LEMMA BlocksInTurn ==
    ASSUME NEW pool, pool \subseteq Programmes, pool # {}, DealsMade,
           NEW who \in 0..Len(draft.parts), NEW n \in Nat, NEW size \in Nat \ {0},
           NEW shuffled \in BOOLEAN, NEW p, p = BlockTurn(pool, who, n, size, shuffled)
    PROVE  IsInABlock(p, pool, who, n, size, shuffled)
<1> DEFINE count == Cardinality(ShowsOf(pool))
           length == count * size
           block == n \div size
           within == n % size
           round == block \div count
           place == block % count
           before == Due(shuffled, who, round)
           s == Cycled(InLine(ShowsOf(pool), before), block)
<1>1. block \in Nat /\ within \in 0..(size - 1) /\ n = block * size + within
  BY DivMod
<1>2. Len(ShowsIn(pool)) = count /\ count \in Nat \ {0}
  <2>1. Orders(ByName, ShowsOf(pool))
    BY OrdersOfARound
  <2>2. ShowsIn(pool) = InLine(ShowsOf(pool), ByName)
    BY DEF ShowsIn, ShowsOf
  <2> QED BY <1>1, <2>1, <2>2, ShowsInTurn
<1>3. round \in Nat /\ place \in 0..(count - 1) /\ block = round * count + place
  BY <1>1, <1>2, DivMod
<1>4. /\ length \in Nat \ {0} /\ n \div length = round
      /\ n % length = place * size + within
  <2> HIDE DEF count, block, within, round, place
  <2>1. place * size \in Nat /\ place * size + size <= count * size
    BY <1>2, <1>3, Times
  <2>2. length \in Nat \ {0} /\ place * size + within \in 0..(length - 1)
    BY <1>1, <1>2, <2>1, Times
  <2>3. (round * count + place) * size = round * (count * size) + place * size
    BY <1>2, <1>3
  <2>4. n = round * length + (place * size + within)
    BY <1>1, <1>2, <1>3, <2>1, <2>2, <2>3
  <2> HIDE DEF length
  <2> QED BY <1>3, <2>2, <2>4, DivModIs
<1>5. Orders(before, ShowsOf(pool))
  BY <1>3, OrdersOfARound DEF Due
<1>6. s \in ShowsOf(pool) /\ Place(s, pool, before) = place
  <2> HIDE DEF before
  <2>1. /\ Len(InLine(ShowsOf(pool), before)) = count /\ s \in ShowsOf(pool)
        /\ Place(s, pool, before) = block % Len(InLine(ShowsOf(pool), before))
    BY <1>1, <1>5, ShowsInTurn
  <2> QED BY <2>1
<1>7. p = Cycled(EpisodesOf(pool, s), round * size + within)
  <2>1. Dealt(pool, who, round) = InLine(ShowsOf(pool), DealOf(who, round))
    BY DEF Dealt, ShowsOf, DealOf, AsDealt
  <2>2. ShowsIn(pool) = InLine(ShowsOf(pool), ByName)
    BY DEF ShowsIn, ShowsOf
  <2> QED BY <1>2, <2>1, <2>2 DEF BlockTurn, Due
<1>8. p \in OfShow(pool, s)
  <2>1. round * size + within \in Nat
    BY <1>1, <1>3, Times
  <2> HIDE DEF s, round, within
  <2> QED BY <1>6, <1>7, <2>1, EpisodesInLine
<1>9. p \in pool /\ p.show = s
  BY <1>8 DEF OfShow
<1>10. before = Due(shuffled, who, n \div length)
  BY <1>4
<1>11. Place(p.show, pool, before) = place /\ place \in Nat
  BY <1>3, <1>6, <1>9
<1>12. /\ n % length = Place(p.show, pool, before) * size + within
       /\ p = Cycled(EpisodesOf(pool, p.show), (n \div length) * size + within)
  BY <1>4, <1>7, <1>9, <1>11
<1> HIDE DEF before
<1> QED BY <1>4, <1>9, <1>10, <1>11, <1>12 DEF IsInABlock

\* In the library's own order a show begins after those of the names before it.
LEMMA LibraryInTurn ==
    ASSUME NEW pool, pool \subseteq Programmes, pool # {}, NEW n \in Nat
    PROVE  LET first(s) == Cardinality(Earlier(pool, s))
               p == Cycled(InOrder(pool), n)
           IN  /\ Cardinality(pool) \in Nat \ {0} /\ p \in pool
               /\ (n % Cardinality(pool)) - first(p.show) \in
                     0..(Cardinality(OfShow(pool, p.show)) - 1)
               /\ p = EpisodesOf(pool, p.show)[(n % Cardinality(pool)) - first(p.show) + 1]
<1> DEFINE m == Cardinality(pool)
           x == n % m
           p == Cycled(InOrder(pool), n)
           others == Earlier(pool, p.show)
           same == Preceding(p, OfShow(pool, p.show), Before)
<1>1. IsFiniteSet(pool) /\ Orders(Before, pool)
  BY ProgrammesAreOrdered
<1>2. /\ m \in Nat /\ Len(InOrder(pool)) = m
      /\ \A i \in 1..m : /\ InOrder(pool)[i] \in pool
                         /\ Cardinality(Preceding(InOrder(pool)[i], pool, Before)) = i - 1
  BY <1>1, ALineIsThere DEF InOrder
<1>3. m \in Nat \ {0}
  BY <1>1, <1>2, FS_EmptySet
<1>4. x \in 0..(m - 1)
  BY <1>3, DivMod
<1>5. p \in pool /\ Cardinality(Preceding(p, pool, Before)) = x
  <2>1. x + 1 \in 1..m /\ (x + 1) - 1 = x
    BY <1>3, <1>4
  <2>2. p = InOrder(pool)[x + 1]
    BY <1>2 DEF Cycled
  <2> QED BY <1>2, <2>1, <2>2
<1> HIDE DEF p
<1>6. Preceding(p, pool, Before) = others \cup same /\ others \cap same = {}
  <2>1. \A q \in pool : q \in Programmes /\ q.show \in Int
    BY LineupAssumption
  <2>2. \A q \in pool : <<q, p>> \in Before <=>
            q.show < p.show \/ (q.show = p.show /\ q.episode < p.episode)
    BY <1>5, <2>1 DEF Before
  <2> QED BY <1>5, <2>1, <2>2 DEF Preceding, OfShow, Earlier
<1>7. /\ IsFiniteSet(others) /\ IsFiniteSet(same)
      /\ Cardinality(others) \in Nat /\ Cardinality(same) \in Nat
  <2>1. others \in SUBSET pool /\ same \in SUBSET pool
    BY DEF Preceding, OfShow, Earlier
  <2> QED BY <1>1, <2>1, FS_Subset, FS_CardinalityType
<1>8. x = Cardinality(others) + Cardinality(same)
  <2>1. Cardinality(others \cup same) =
          Cardinality(others) + Cardinality(same) - Cardinality(others \cap same)
    BY <1>7, FS_Union
  <2>2. Cardinality(others \cap same) = 0
    BY <1>6, FS_EmptySet
  <2> QED BY <1>5, <1>6, <1>7, <2>1, <2>2
<1>9. /\ Cardinality(same) + 1 \in 1..Cardinality(OfShow(pool, p.show))
      /\ EpisodesOf(pool, p.show)[Cardinality(same) + 1] = p
      /\ Cardinality(OfShow(pool, p.show)) \in Nat
  <2>1. p.show \in ShowsOf(pool) /\ p \in OfShow(pool, p.show)
    BY <1>5 DEF ShowsOf, OfShow
  <2> QED BY <2>1, EpisodesInLine
<1>10. x - Cardinality(others) = Cardinality(same)
  BY <1>7, <1>8
<1>11. Cardinality(same) \in 0..(Cardinality(OfShow(pool, p.show)) - 1)
  BY <1>7, <1>9
<1> HIDE DEF m, x, others, same
<1> QED BY <1>3, <1>5, <1>9, <1>10, <1>11 DEF m, x, others, p

\* A round has a turn for nobody but its shows, and no turn is two shows'.
LEMMA RoundsAreShared ==
    ASSUME NEW pool, pool \subseteq Programmes, pool # {}, DealsMade,
           NEW who \in 0..Len(draft.parts), NEW size \in Nat \ {0},
           NEW strategy \in Plain \ {"RANDOM"}, NEW round \in Nat
    PROVE  LET length == Length(strategy, pool, size)
               start(s) == Start(strategy, pool, who, size, round, s)
               width(s) == Width(strategy, pool, size, s)
           IN  /\ length \in Nat \ {0}
               /\ \A s \in ShowsOf(pool) : /\ width(s) \in Nat \ {0} /\ start(s) \in Nat
                                           /\ start(s) + width(s) <= length
               /\ \A s, t \in ShowsOf(pool) :
                     s # t => \/ start(s) + width(s) <= start(t)
                              \/ start(t) + width(t) <= start(s)
<1> DEFINE length == Length(strategy, pool, size)
           start(s) == Start(strategy, pool, who, size, round, s)
           width(s) == Width(strategy, pool, size, s)
<1>1. CASE strategy = "CYCLIC"
  <2> DEFINE first(s) == Earlier(pool, s)
             here(s) == OfShow(pool, s)
  <2>1. IsFiniteSet(pool) /\ length = Cardinality(pool) /\ length \in Nat \ {0}
    BY <1>1, ProgrammesAreOrdered, FS_CardinalityType, FS_EmptySet DEF Length
  <2>2. ASSUME NEW s \in ShowsOf(pool)
        PROVE  /\ start(s) = Cardinality(first(s)) /\ width(s) = Cardinality(here(s))
               /\ IsFiniteSet(first(s)) /\ IsFiniteSet(here(s))
               /\ start(s) \in Nat /\ width(s) \in Nat \ {0}
               /\ IsFiniteSet(first(s) \cup here(s))
               /\ Cardinality(first(s) \cup here(s)) = start(s) + width(s)
               /\ s \in Int
    <3>1. start(s) = Cardinality(first(s)) /\ width(s) = Cardinality(here(s))
      BY <1>1 DEF Start, Width
    <3>2. first(s) \in SUBSET pool /\ here(s) \in SUBSET pool /\ here(s) # {}
      BY DEF OfShow, ShowsOf, Earlier
    <3>3. IsFiniteSet(first(s)) /\ IsFiniteSet(here(s))
      BY <2>1, <3>2, FS_Subset
    <3>4. Cardinality(first(s)) \in Nat /\ Cardinality(here(s)) \in Nat \ {0}
      BY <3>2, <3>3, FS_CardinalityType, FS_EmptySet
    <3>5. s \in Int /\ first(s) \cap here(s) = {}
      BY LineupAssumption DEF OfShow, ShowsOf, Earlier
    <3>6. /\ IsFiniteSet(first(s) \cup here(s))
          /\ Cardinality(first(s) \cup here(s)) =
               Cardinality(first(s)) + Cardinality(here(s)) - Cardinality(first(s) \cap here(s))
      BY <3>3, FS_Union
    <3>7. Cardinality(first(s) \cap here(s)) = 0
      BY <3>5, FS_EmptySet
    <3> HIDE DEF start, width, first, here
    <3> QED BY <3>1, <3>3, <3>4, <3>5, <3>6, <3>7
  <2>3. ASSUME NEW s \in ShowsOf(pool) PROVE start(s) + width(s) <= length
    <3>1. first(s) \cup here(s) \in SUBSET pool
      BY DEF OfShow, Earlier
    <3>2. Cardinality(first(s) \cup here(s)) <= Cardinality(pool)
      BY <2>1, <3>1, FS_Subset
    <3> HIDE DEF start, width, first, here, length
    <3> QED BY <2>1, <2>2, <3>2
  <2>4. ASSUME NEW s \in ShowsOf(pool), NEW t \in ShowsOf(pool), s < t
        PROVE  start(s) + width(s) <= start(t)
    <3>1. first(s) \cup here(s) \in SUBSET first(t)
      <4>1. \A q \in pool : q.show \in Int
        BY LineupAssumption
      <4>2. s \in Int /\ t \in Int
        BY <2>2
      <4> QED BY <2>4, <4>1, <4>2 DEF OfShow, Earlier
    <3>2. Cardinality(first(s) \cup here(s)) <= Cardinality(first(t))
      BY <2>2, <3>1, FS_Subset
    <3> HIDE DEF start, width, first, here, length
    <3> QED BY <2>2, <3>2
  <2> HIDE DEF start, width, length, first, here
  <2>5. ASSUME NEW s \in ShowsOf(pool), NEW t \in ShowsOf(pool), s # t
        PROVE  \/ start(s) + width(s) <= start(t)
               \/ start(t) + width(t) <= start(s)
    <3>1. s \in Int /\ t \in Int
      BY <2>2
    <3>2. s < t \/ t < s
      BY <2>5, <3>1
    <3> QED BY <2>4, <3>2
  <2> QED BY <2>1, <2>2, <2>3, <2>4, <2>5 DEF start, width, length
<1>2. CASE strategy # "CYCLIC"
  <2> DEFINE size2 == Block(strategy, size)
             before == OrderIn(strategy, who, round)
             place(s) == Place(s, pool, before)
             count == Cardinality(ShowsOf(pool))
             line == InLine(ShowsOf(pool), before)
  <2>1. size2 \in Nat \ {0}
    BY DEF Block
  <2>2. IsFiniteSet(ShowsOf(pool)) /\ Orders(before, ShowsOf(pool))
    BY OrdersOfARound DEF OrderIn, Due
  <2>3. /\ count \in Nat /\ Len(line) = count
        /\ \A s \in ShowsOf(pool) : place(s) + 1 \in 1..count /\ line[place(s) + 1] = s
    <3> HIDE DEF before
    <3>1. \A s \in ShowsOf(pool) :
             /\ Cardinality(Preceding(s, ShowsOf(pool), before)) + 1 \in 1..Len(line)
             /\ line[Cardinality(Preceding(s, ShowsOf(pool), before)) + 1] = s
      BY <2>2, ALineIsThere
    <3>2. count \in Nat /\ Len(line) = count
      BY <2>2, ALineIsThere
    <3> QED BY <3>1, <3>2 DEF Place
  <2>4. \A s \in ShowsOf(pool) : place(s) \in Nat /\ place(s) < count
    <3> SUFFICES ASSUME NEW s \in ShowsOf(pool) PROVE place(s) \in Nat /\ place(s) < count
      OBVIOUS
    <3>1. IsFiniteSet(Preceding(s, ShowsOf(pool), before))
      BY <2>2, FS_Subset DEF Preceding
    <3>2. place(s) \in Nat
      BY <3>1, FS_CardinalityType DEF Place
    <3> HIDE DEF place, count
    <3> QED BY <2>3, <3>2
  <2>5. \E s \in ShowsOf(pool) : TRUE
    BY DEF ShowsOf
  <2>6. /\ length = count * size2
        /\ \A s \in ShowsOf(pool) : start(s) = place(s) * size2 /\ width(s) = size2
    BY <1>2 DEF Length, Start, Width
  <2> HIDE DEF length, start, width, place, count, size2, line
  <2>7. count \in Nat \ {0}
    BY <2>3, <2>4, <2>5
  <2>8. length \in Nat \ {0}
    <3>1. 0 * size2 + size2 <= count * size2 /\ count * size2 \in Nat
      BY <2>1, <2>7, Times
    <3> QED BY <2>1, <2>6, <3>1
  <2>9. \A s \in ShowsOf(pool) : /\ width(s) \in Nat \ {0} /\ start(s) \in Nat
                                 /\ start(s) + width(s) <= length
    BY <2>1, <2>4, <2>6, <2>7, Times
  <2>10. ASSUME NEW s \in ShowsOf(pool), NEW t \in ShowsOf(pool), s # t
         PROVE  \/ start(s) + width(s) <= start(t)
                \/ start(t) + width(t) <= start(s)
    <3>1. place(s) < place(t) \/ place(t) < place(s)
      BY <2>3, <2>4, <2>10
    <3> QED BY <2>1, <2>4, <2>6, <3>1, Times
  <2> QED BY <2>8, <2>9, <2>10 DEF length, start, width
<1> QED BY <1>1, <1>2

\* The turns a show has had after n of the part's.
TurnsOf(strategy, pool, who, size, s, n) ==
    TurnsAt(n, Length(strategy, pool, size),
            Start(strategy, pool, who, size, n \div Length(strategy, pool, size), s),
            Width(strategy, pool, size, s))

LEMMA NoneHadATurn ==
    ASSUME NEW pool, pool \subseteq Programmes, pool # {}, DealsMade,
           NEW who \in 0..Len(draft.parts), NEW size \in Nat \ {0},
           NEW strategy \in Plain \ {"RANDOM"}, NEW s \in ShowsOf(pool)
    PROVE  TurnsOf(strategy, pool, who, size, s, 0) = 0
<1> DEFINE length == Length(strategy, pool, size)
           start == Start(strategy, pool, who, size, 0 \div length, s)
           width == Width(strategy, pool, size, s)
<1>1. length \in Nat \ {0}
  BY RoundsAreShared
<1>2. 0 \div length \in Nat
  BY <1>1, DivMod
<1>3. start \in Nat /\ width \in Nat \ {0}
  <2> HIDE DEF length
  <2> QED BY <1>2, RoundsAreShared
<1> HIDE DEF length, start, width
<1>4. TurnsAt(0, length, start, width) = 0
  BY <1>1, <1>3, NoTurnsAtFirst
<1> QED BY <1>4 DEF TurnsOf, length, start, width

\* The show whose turn it is has one more, and plays the episode that its turns so far lead to.
LEMMA ATurnEach ==
    ASSUME NEW pool, pool \subseteq Programmes, pool # {}, DealsMade,
           NEW who \in 0..Len(draft.parts), NEW size \in Nat \ {0},
           NEW strategy \in Plain \ {"RANDOM"}, NEW n \in Nat,
           NEW p \in Turn(strategy, pool, who, n, size)
    PROVE  LET goes(s, k) == TurnsOf(strategy, pool, who, size, s, k)
           IN  /\ p \in pool /\ p.show \in ShowsOf(pool)
               /\ \A s \in ShowsOf(pool) :
                     /\ goes(s, n) \in Nat
                     /\ goes(s, n + 1) = IF s = p.show THEN goes(s, n) + 1 ELSE goes(s, n)
               /\ p = Cycled(EpisodesOf(pool, p.show), goes(p.show, n))
<1> DEFINE length == Length(strategy, pool, size)
           round == n \div length
           start(s) == Start(strategy, pool, who, size, round, s)
           later(s) == Start(strategy, pool, who, size, (n + 1) \div length, s)
           width(s) == Width(strategy, pool, size, s)
           x == n % length
           eps == EpisodesOf(pool, p.show)
<1>1. length \in Nat \ {0}
  BY RoundsAreShared
<1>2. /\ round \in Nat /\ (n + 1) \div length \in Nat
      /\ x \in 0..(length - 1)
  <2> HIDE DEF length
  <2>1. n + 1 \in Nat
    OBVIOUS
  <2> QED BY <1>1, <2>1, DivMod
<1>3. \A s \in ShowsOf(pool) : /\ width(s) \in Nat \ {0} /\ start(s) \in Nat /\ later(s) \in Nat
                               /\ start(s) + width(s) <= length /\ later(s) + width(s) <= length
  <2> HIDE DEF round
  <2>1. \A s \in ShowsOf(pool) : /\ width(s) \in Nat \ {0} /\ start(s) \in Nat
                                 /\ start(s) + width(s) <= length
    BY <1>2, RoundsAreShared
  <2>2. ASSUME NEW next \in Nat
        PROVE  \A s \in ShowsOf(pool) :
                  /\ Start(strategy, pool, who, size, next, s) \in Nat
                  /\ Start(strategy, pool, who, size, next, s) + width(s) <= length
    BY RoundsAreShared
  <2> HIDE DEF length, width
  <2>3. \A s \in ShowsOf(pool) : later(s) \in Nat /\ later(s) + width(s) <= length
    BY <1>2, <2>2
  <2> QED BY <2>1, <2>3
<1>4. \A s, t \in ShowsOf(pool) :
         s # t => start(s) + width(s) <= start(t) \/ start(t) + width(t) <= start(s)
  <2> HIDE DEF round
  <2> QED BY <1>2, RoundsAreShared
\* Whose turn it is.
<1>5. /\ p \in pool /\ p.show \in ShowsOf(pool)
      /\ x \in start(p.show)..(start(p.show) + width(p.show) - 1)
      /\ p = Cycled(eps, round * width(p.show) + (x - start(p.show)))
  <2>1. CASE strategy = "CYCLIC"
    <3> DEFINE first == Cardinality(Earlier(pool, p.show))
               own == Cardinality(OfShow(pool, p.show))
    <3>1. length = Cardinality(pool) /\ start(p.show) = first /\ width(p.show) = own
      BY <2>1 DEF Length, Start, Width
    <3>2. p = Cycled(InOrder(pool), n)
      BY <2>1 DEF Turn
    <3>a. /\ p \in pool /\ (n % Cardinality(pool)) - first \in 0..(own - 1)
          /\ p = EpisodesOf(pool, p.show)[(n % Cardinality(pool)) - first + 1]
      BY <3>2, LibraryInTurn
    <3>3. p \in pool /\ x - first \in 0..(own - 1) /\ p = eps[x - first + 1]
      BY <3>1, <3>a
    <3>4. p.show \in ShowsOf(pool)
      BY <3>3 DEF ShowsOf
    <3>5. own \in Nat \ {0} /\ first \in Nat /\ Len(eps) = own
      <4> HIDE DEF start, width, first, own
      <4>1. own \in Nat \ {0} /\ first \in Nat
        BY <1>3, <3>1, <3>4
      <4> QED BY <3>4, <4>1, EpisodesInLine DEF own
    <3> HIDE DEF first, own, start, width, length, round, x, eps
    <3>6. (round * own + (x - first)) % own = x - first
      BY <1>2, <3>3, <3>5, DivModIs
    <3>7. p = Cycled(eps, round * own + (x - first))
      BY <3>3, <3>5, <3>6 DEF Cycled
    <3>8. x \in first..(first + own - 1)
      BY <1>2, <3>3, <3>5
    <3> QED BY <3>1, <3>3, <3>4, <3>7, <3>8
  <2>2. CASE strategy # "CYCLIC"
    <3> DEFINE block == Block(strategy, size)
               shuffled == strategy \in {"BLOCK", "CYCLIC_SHUFFLE"}
               before == OrderIn(strategy, who, round)
    <3>1. block \in Nat \ {0} /\ shuffled \in BOOLEAN
      BY DEF Block
    <3>2. p = BlockTurn(pool, who, n, block, shuffled)
      <4>1. CASE strategy = "CYCLIC_SHUFFLE"
        <5>1. p = ShuffledTurn(pool, who, n) /\ block = 1
          BY <4>1 DEF Turn, Block
        <5>2. Len(ShowsIn(pool)) \in Nat \ {0}
          <6>1. ShowsIn(pool) = InLine(ShowsOf(pool), ByName)
            BY DEF ShowsIn, ShowsOf
          <6>2. Orders(ByName, ShowsOf(pool))
            BY OrdersOfARound
          <6> QED BY <6>1, <6>2, ShowsInTurn
        <5>3. n \div 1 = n /\ n % 1 = 0
          BY ByOne
        <5>4. n \div Len(ShowsIn(pool)) \in Nat
          BY <5>2, DivMod
        <5>5. (n \div Len(ShowsIn(pool))) * 1 + (n % 1) = n \div Len(ShowsIn(pool))
          BY <5>3, <5>4
        <5>6. BlockTurn(pool, who, n, 1, TRUE) = ShuffledTurn(pool, who, n)
          BY <5>3, <5>5 DEF BlockTurn, ShuffledTurn
        <5> QED BY <4>1, <5>1, <5>6
      <4>2. CASE strategy = "BLOCK"
        BY <4>2 DEF Turn, Block
      <4>3. CASE strategy = "BLOCK_CYCLIC"
        <5>1. p = BlockTurn(pool, who, n, size, FALSE) /\ block = size
          BY <4>3 DEF Turn, Block
        <5>2. shuffled = FALSE
          BY <4>3
        <5> HIDE DEF shuffled, block
        <5> QED BY <5>1, <5>2
      <4>4. strategy \in {"CYCLIC_SHUFFLE", "BLOCK", "BLOCK_CYCLIC"}
        BY <2>2 DEF Plain
      <4> QED BY <4>1, <4>2, <4>3, <4>4
    <3>3. before = Due(shuffled, who, round)
      BY DEF OrderIn
    <3>4. length = Cardinality(ShowsOf(pool)) * block
      BY <2>2 DEF Length
    <3> DEFINE place == Place(p.show, pool, before)
    <3> HIDE DEF block, shuffled
    <3>5. /\ p \in pool /\ place \in Nat
          /\ x = place * block + (n % block)
          /\ p = Cycled(eps, round * block + (n % block))
      <4> DEFINE k == Cardinality(ShowsOf(pool)) * block
                 due == Due(shuffled, who, n \div k)
      <4>1. IsInABlock(p, pool, who, n, block, shuffled)
        BY <3>1, <3>2, BlocksInTurn
      <4>x. /\ p \in pool /\ Place(p.show, pool, due) \in Nat
            /\ n % k = Place(p.show, pool, due) * block + (n % block)
            /\ p = Cycled(EpisodesOf(pool, p.show), (n \div k) * block + (n % block))
        BY <4>1 DEF IsInABlock
      <4>2. round = n \div k /\ x = n % k /\ before = due
        BY <3>3, <3>4
      <4> HIDE DEF k, due, round, x, before, length
      <4> QED BY <4>x, <4>2
    <3>6. p.show \in ShowsOf(pool)
      BY <3>5 DEF ShowsOf
    <3>7. start(p.show) = place * block /\ width(p.show) = block
      BY <2>2 DEF Start, Width, block
    <3>8. n % block \in 0..(block - 1) /\ place * block \in Nat
      BY <3>1, <3>5, DivMod, Times
    <3> HIDE DEF place, start, width, length, round, x, eps
    <3>9. x - start(p.show) = n % block /\ x \in start(p.show)..(start(p.show) + width(p.show) - 1)
      BY <1>2, <3>1, <3>5, <3>7, <3>8
    <3> QED BY <3>5, <3>6, <3>7, <3>9
  <2> QED BY <2>1, <2>2
\* What they had, and have.
<1>6. \A s \in ShowsOf(pool) :
         /\ TurnsOf(strategy, pool, who, size, s, n) = TurnsAt(n, length, start(s), width(s))
         /\ TurnsOf(strategy, pool, who, size, s, n + 1) = TurnsAt(n + 1, length, later(s), width(s))
         /\ round = (n + 1) \div length => later(s) = start(s)
  BY DEF TurnsOf
<1> HIDE DEF length, start, later, width, eps
<1>7. ASSUME NEW s \in ShowsOf(pool)
      PROVE  /\ TurnsAt(n, length, start(s), width(s)) \in Nat
             /\ x \in start(s)..(start(s) + width(s) - 1) =>
                  /\ TurnsAt(n, length, start(s), width(s)) = round * width(s) + (x - start(s))
                  /\ TurnsAt(n + 1, length, later(s), width(s)) =
                        TurnsAt(n, length, start(s), width(s)) + 1
             /\ x \notin start(s)..(start(s) + width(s) - 1) =>
                  TurnsAt(n + 1, length, later(s), width(s)) = TurnsAt(n, length, start(s), width(s))
  <2>1. /\ width(s) \in Nat \ {0} /\ start(s) \in Nat /\ later(s) \in Nat
        /\ start(s) + width(s) <= length /\ later(s) + width(s) <= length
        /\ n \div length = (n + 1) \div length => later(s) = start(s)
    BY <1>3, <1>6
  <2>2. HaveTheirTurns(n, length, start(s), later(s), width(s))
    BY <1>1, <2>1, OneTurnEach
  <2> QED BY <2>2 DEF HaveTheirTurns
<1> HIDE DEF round, x
<1>8. ASSUME NEW s \in ShowsOf(pool), s # p.show
      PROVE  x \notin start(s)..(start(s) + width(s) - 1)
  <2>1. /\ width(s) \in Nat \ {0} /\ start(s) \in Nat
        /\ width(p.show) \in Nat \ {0} /\ start(p.show) \in Nat
        /\ x \in start(p.show)..(start(p.show) + width(p.show) - 1)
    BY <1>3, <1>5
  <2>2. \/ start(s) + width(s) <= start(p.show)
        \/ start(p.show) + width(p.show) <= start(s)
    BY <1>4, <1>5, <1>8
  <2> QED BY <1>2, <2>1, <2>2
<1>9. ASSUME NEW s \in ShowsOf(pool)
      PROVE  /\ TurnsOf(strategy, pool, who, size, s, n) \in Nat
             /\ TurnsOf(strategy, pool, who, size, s, n + 1) =
                   IF s = p.show THEN TurnsOf(strategy, pool, who, size, s, n) + 1
                                 ELSE TurnsOf(strategy, pool, who, size, s, n)
  BY <1>5, <1>6, <1>7, <1>8
<1>10. p = Cycled(eps, TurnsOf(strategy, pool, who, size, p.show, n))
  BY <1>5, <1>6, <1>7
<1> QED BY <1>5, <1>9, <1>10 DEF eps

-----------------------------------------------------------------------------
(* The lineup: whose slot it is.                                           *)

\* Nobody is counted under another's key; linear_scheduler.go takes a part's name for it.
PartsAreNamedApart ==
    \A c \in Drafts : \A i, j \in DOMAIN c.parts : KeyOf(c, i) = KeyOf(c, j) => i = j

PartStrategy(c, i) == IF StrategyOf(c) \in Plain THEN StrategyOf(c)
                      ELSE IF i = 0 THEN "CYCLIC_SHUFFLE" ELSE StrategyOf(c.parts[i])
PartKey(c, i) == IF i # 0 THEN KeyOf(c, i)
                 ELSE IF StrategyOf(c) \in Plain THEN Whole ELSE Fallback

LEMMA DraftsAreTyped ==
    ASSUME NEW c \in Drafts
    PROVE  /\ Len(c.parts) \in Nat /\ DOMAIN c.parts = 1..Len(c.parts)
           /\ BlockOf(c) \in Nat \ {0}
           /\ \A i \in 0..Len(c.parts) : PartKey(c, i) \in Keys(c) /\ PoolOf(c, i) \subseteq Programmes
<1>1. c.parts \in Seq({c.parts[i] : i \in DOMAIN c.parts}) /\ c.block \in Int
  BY LineupAssumption
<1>2. Len(c.parts) \in Nat /\ DOMAIN c.parts = 1..Len(c.parts)
  BY <1>1
<1>3. BlockOf(c) \in Nat \ {0}
  BY <1>1 DEF BlockOf, DefaultBlock
<1>4. ASSUME NEW i \in 0..Len(c.parts) PROVE PartKey(c, i) \in Keys(c)
  <2>1. i # 0 => i \in DOMAIN c.parts
    BY <1>2
  <2> QED BY <2>1 DEF PartKey, Keys
<1>5. ASSUME NEW i \in 0..Len(c.parts) PROVE PoolOf(c, i) \subseteq Programmes
  BY DEF PoolOf, PartPool, OnOffer, Selected, Schedulable
<1> QED BY <1>2, <1>3, <1>4, <1>5

\* A slot is a part's: its count, its strategy, and what its turn may play.
IsATurnOf(slot, i) ==
    /\ i \in 0..Len(draft.parts) /\ slot.part = i
    /\ slot.key = PartKey(draft, i) /\ slot.strategy = PartStrategy(draft, i)
    /\ slot.is = Turn(PartStrategy(draft, i), PoolOf(draft, i), i,
                      cursor[PartKey(draft, i)], BlockOf(draft))
LEMMA SlotsAreTurns ==
    ASSUME draft \in Drafts, ChannelStands(draft), NEW day, NEW minute
    PROVE  /\ \E i \in 0..Len(draft.parts) : IsATurnOf(Slot(draft, day, minute), i)
           /\ \A i \in 0..Len(draft.parts) : PartStrategy(draft, i) \in Plain
<1> DEFINE c == draft
           plain == StrategyOf(c) \in Plain
           covering == {i \in DOMAIN c.parts :
                          Covers(c.parts[i], StrategyOf(c) = "DAY_BASED", day, minute)}
           first == CHOOSE i \in covering : \A j \in covering : i <= j
           at == PartAt(c, day, minute)
<1>1. Len(c.parts) \in Nat /\ DOMAIN c.parts = 1..Len(c.parts)
  BY DraftsAreTyped
<1>2. covering # {} => first \in 1..Len(c.parts)
  <2> SUFFICES ASSUME covering # {} PROVE first \in 1..Len(c.parts)
    OBVIOUS
  <2>1. covering \in SUBSET (1..Len(c.parts))
    BY <1>1
  <2> HIDE DEF covering
  <2>2. first \in covering
    BY <1>1, <2>1, ThereIsAFirst
  <2> QED BY <2>1, <2>2
<1>3. at \in 0..Len(c.parts)
  <2>1. at = IF covering = {} \/ PartPool(c, first) = {} THEN 0 ELSE first
    BY DEF PartAt
  <2> HIDE DEF covering, first, at
  <2> QED BY <1>1, <1>2, <2>1
<1>4. \A i \in 0..Len(c.parts) : PartStrategy(c, i) \in Plain
  <2>1. ASSUME NEW i \in 1..Len(c.parts) PROVE StrategyOf(c.parts[i]) \in Plain
    BY <1>1 DEF ChannelStands, PartStands
  <2>2. "CYCLIC_SHUFFLE" \in Plain
    BY DEF Plain
  <2> QED BY <1>1, <2>1, <2>2 DEF PartStrategy
<1> HIDE DEF at, covering, first
<1>5. CASE plain
  <2>1. 0 \in 0..Len(c.parts)
    BY <1>1
  <2>2. IsATurnOf(Slot(c, day, minute), 0)
    BY <1>5, <2>1 DEF Slot, IsATurnOf, PartKey, PartStrategy, PoolOf
  <2> QED BY <1>4, <2>1, <2>2
<1>6. CASE ~plain
  <2>1. CASE at = 0
    <3>1. IsATurnOf(Slot(c, day, minute), 0)
      BY <1>3, <1>6, <2>1 DEF Slot, IsATurnOf, PartKey, PartStrategy, PoolOf, at
    <3> QED BY <1>3, <1>4, <2>1, <3>1
  <2>2. CASE at # 0
    <3>1. IsATurnOf(Slot(c, day, minute), at)
      BY <1>3, <1>6, <2>2 DEF Slot, IsATurnOf, PartKey, PartStrategy, PoolOf, at
    <3> QED BY <1>3, <1>4, <3>1
  <2> QED BY <2>1, <2>2
<1> QED BY <1>5, <1>6

-----------------------------------------------------------------------------
(* The lineup: the invariant.                                              *)

\* The turns of a show are those its part's count leaves it, and its last episode is the one
\* that the turns before led to.
Counted(i, s, count, show) ==
    LET strategy == PartStrategy(draft, i)
        pool == PoolOf(draft, i)
    IN  IF strategy = "RANDOM" THEN show.last = 0
        ELSE s \in ShowsOf(pool) =>
               /\ show.turns = TurnsOf(strategy, pool, i, BlockOf(draft), s, count)
               /\ show.turns = 0 => show.last = 0
               /\ show.turns # 0 => show.last = Cycled(EpisodesOf(pool, s), show.turns - 1).episode
TurnsAreCounted ==
    saved => \A i \in 0..Len(draft.parts), s \in ShowIds :
                Counted(i, s, cursor[PartKey(draft, i)], aired[i][s])

LineupInvariant ==
    /\ draft \in Drafts /\ saved \in BOOLEAN /\ DealsMade
    /\ promised \in {NoPreview} \cup 0..Cardinality(Programmes)
    /\ saved => ChannelStands(draft)
    /\ cursor \in [Keys(draft) -> 0..MaxSlots]
    /\ aired \in [0..Len(draft.parts) ->
                    [ShowIds -> [turns : Nat, last : {0} \cup {p.episode : p \in Programmes}]]]
    /\ \A i \in 0..Len(draft.parts), s \in ShowIds :
          aired[i][s].turns <= cursor[PartKey(draft, i)]
    /\ ~saved => /\ \A k \in Keys(draft) : cursor[k] = 0
                 /\ \A i \in 0..Len(draft.parts), s \in ShowIds :
                       aired[i][s].turns = 0 /\ aired[i][s].last = 0

LEMMA LineupInitHolds == LineupInit => LineupInvariant /\ TurnsAreCounted
<1> SUFFICES ASSUME LineupInit PROVE LineupInvariant /\ TurnsAreCounted
  OBVIOUS
<1>1. /\ draft \in Drafts /\ saved = FALSE /\ DealsMade /\ promised = NoPreview
      /\ cursor = [k \in Keys(draft) |-> 0]
      /\ aired = [i \in 0..Len(draft.parts) |-> [s \in ShowIds |-> [turns |-> 0, last |-> 0]]]
  BY DEF LineupInit, DealsMade
<1>2. \A i \in 0..Len(draft.parts) : PartKey(draft, i) \in Keys(draft)
  BY <1>1, DraftsAreTyped
<1>3. cursor \in [Keys(draft) -> 0..MaxSlots] /\ \A k \in Keys(draft) : cursor[k] = 0
  BY <1>1, LineupAssumption
<1>4. /\ \A i \in 0..Len(draft.parts), s \in ShowIds : aired[i][s] = [turns |-> 0, last |-> 0]
      /\ aired \in [0..Len(draft.parts) ->
                      [ShowIds -> [turns : Nat, last : {0} \cup {p.episode : p \in Programmes}]]]
  BY <1>1
<1>5. /\ \A i \in 0..Len(draft.parts), s \in ShowIds :
            /\ aired[i][s].turns = 0 /\ aired[i][s].last = 0
            /\ aired[i][s].turns <= cursor[PartKey(draft, i)]
  BY <1>2, <1>3, <1>4
<1> QED BY <1>1, <1>3, <1>4, <1>5 DEF LineupInvariant, TurnsAreCounted

LEMMA PreviewKeeps ==
    LineupInvariant /\ Preview => LineupInvariant' /\ (TurnsAreCounted => TurnsAreCounted')
<1> SUFFICES ASSUME LineupInvariant, Preview
             PROVE  LineupInvariant' /\ (TurnsAreCounted => TurnsAreCounted')
  OBVIOUS
<1>1. promised' \in 0..Cardinality(Programmes)
  <2>1. OnOffer(draft) \in SUBSET Programmes
    BY DEF OnOffer, Selected, Schedulable
  <2>2. IsFiniteSet(Programmes)
    BY LineupAssumption
  <2>3. /\ IsFiniteSet(OnOffer(draft)) /\ Cardinality(OnOffer(draft)) <= Cardinality(Programmes)
    BY <2>1, <2>2, FS_Subset
  <2>4. Cardinality(OnOffer(draft)) \in Nat /\ Cardinality(Programmes) \in Nat
    BY <2>2, <2>3, FS_CardinalityType
  <2> QED BY <2>3, <2>4 DEF Preview
<1>2. UNCHANGED <<draft, saved, deals, cursor, aired>>
  BY DEF Preview
<1>3. LineupInvariant'
  BY <1>1, <1>2 DEF LineupInvariant, DealsMade, ChannelStands
<1>4. TurnsAreCounted => TurnsAreCounted'
  BY <1>2 DEF TurnsAreCounted, Counted, TurnsOf, Start, Place, OrderIn, Due, DealOf
<1> QED BY <1>3, <1>4

LEMMA SaveKeeps ==
    LineupInvariant /\ Save => LineupInvariant' /\ TurnsAreCounted'
<1> SUFFICES ASSUME LineupInvariant, Save PROVE LineupInvariant' /\ TurnsAreCounted'
  OBVIOUS
<1>1. /\ ~saved /\ ChannelStands(draft) /\ saved' = TRUE
      /\ UNCHANGED <<draft, promised, deals, cursor, aired>>
  BY DEF Save
<1>2. LineupInvariant'
  BY <1>1 DEF LineupInvariant, DealsMade, ChannelStands
<1>3. ASSUME NEW i \in 0..Len(draft.parts), NEW s \in ShowIds
      PROVE  Counted(i, s, cursor[PartKey(draft, i)], aired[i][s])
  <2> DEFINE strategy == PartStrategy(draft, i)  pool == PoolOf(draft, i)
  <2>1. /\ PartKey(draft, i) \in Keys(draft) /\ pool \subseteq Programmes
        /\ BlockOf(draft) \in Nat \ {0}
    BY DraftsAreTyped DEF LineupInvariant
  <2>2. /\ cursor[PartKey(draft, i)] = 0
        /\ aired[i][s].turns = 0 /\ aired[i][s].last = 0
    BY <1>1, <2>1 DEF LineupInvariant
  <2>3. strategy \in Plain
    BY <1>1, SlotsAreTurns DEF LineupInvariant
  <2>4. ASSUME strategy # "RANDOM", s \in ShowsOf(pool)
        PROVE  TurnsOf(strategy, pool, i, BlockOf(draft), s, 0) = 0
    <3>1. pool # {}
      BY <2>4 DEF ShowsOf
    <3>2. DealsMade /\ strategy \in Plain \ {"RANDOM"}
      BY <2>3, <2>4 DEF LineupInvariant
    <3> HIDE DEF strategy, pool
    <3> QED BY <2>1, <2>4, <3>1, <3>2, NoneHadATurn
  <2> QED BY <2>2, <2>4 DEF Counted
<1>4. TurnsAreCounted'
  <2>1. \A i \in 0..Len(draft.parts), s \in ShowIds :
           Counted(i, s, cursor[PartKey(draft, i)], aired[i][s])'
    BY <1>1, <1>3 DEF Counted, TurnsOf, Start, Place, OrderIn, Due, DealOf
  <2> QED BY <1>1, <2>1 DEF TurnsAreCounted
<1> QED BY <1>2, <1>4

\* No count is beyond all of them together.
LEMMA CountsAreFew ==
    ASSUME LineupInvariant, NEW k \in Keys(draft)
    PROVE  cursor[k] \in Nat /\ Cardinality(Placed) \in Nat /\ cursor[k] <= Cardinality(Placed)
<1> DEFINE of(key) == {key} \X (1..cursor[key])
           n == cursor[k]
           f == [j \in 1..n |-> <<k, j>>]
<1>1. DOMAIN cursor = Keys(draft) /\ \A key \in Keys(draft) : cursor[key] \in 0..MaxSlots
  BY DEF LineupInvariant
<1>2. n \in Nat /\ MaxSlots \in Nat
  BY <1>1, LineupAssumption
<1>3. IsFiniteSet(Placed)
  <2> DEFINE m == Len(draft.parts)
             keys == [i \in -1..m |-> IF i = -1 THEN Whole ELSE IF i = 0 THEN Fallback
                                      ELSE KeyOf(draft, i)]
  <2>1. m \in Nat /\ DOMAIN draft.parts = 1..m
    BY DraftsAreTyped DEF LineupInvariant
  <2>2. keys \in Surjection(-1..m, Keys(draft))
    <3> HIDE DEF m
    <3>1. \A i \in -1..m : keys[i] \in Keys(draft)
      BY <2>1 DEF Keys
    <3>2. ASSUME NEW key \in Keys(draft) PROVE \E i \in -1..m : keys[i] = key
      <4>1. CASE key = Whole
        <5>1. -1 \in -1..m /\ keys[-1] = Whole
          BY <2>1
        <5> QED BY <4>1, <5>1
      <4>2. CASE key = Fallback
        <5>1. 0 \in -1..m /\ keys[0] = Fallback
          BY <2>1
        <5> QED BY <4>2, <5>1
      <4>3. CASE \E i \in DOMAIN draft.parts : key = KeyOf(draft, i)
        <5>1. PICK i \in 1..m : key = KeyOf(draft, i)
          BY <2>1, <4>3
        <5>2. i \in -1..m /\ keys[i] = KeyOf(draft, i)
          BY <2>1
        <5> QED BY <5>1, <5>2
      <4> QED BY <4>1, <4>2, <4>3 DEF Keys
    <3> HIDE DEF keys
    <3>3. keys \in [-1..m -> Keys(draft)]
      BY <3>1 DEF keys
    <3> QED BY <3>2, <3>3 DEF Surjection
  <2>3. IsFiniteSet(-1..m)
    BY <2>1, FS_Interval
  <2>4. IsFiniteSet(Keys(draft))
    <3> HIDE DEF keys, m
    <3> QED BY <2>2, <2>3, FS_Surjection
  <2>5. IsFiniteSet(1..MaxSlots)
    BY <1>2, FS_Interval
  <2>6. IsFiniteSet(Keys(draft) \X (1..MaxSlots))
    BY <2>4, <2>5, FS_Product
  <2>7. Placed \in SUBSET (Keys(draft) \X (1..MaxSlots))
    BY <1>1, <1>2 DEF Placed
  <2> QED BY <2>6, <2>7, FS_Subset
<1>4. f \in Injection(1..n, Placed)
  <2>1. \A j \in 1..n : f[j] \in Placed
    BY <1>1 DEF Placed
  <2>2. \A i, j \in 1..n : f[i] = f[j] => i = j
    OBVIOUS
  <2>3. f \in [1..n -> Placed]
    BY <2>1
  <2> HIDE DEF f
  <2> QED BY <2>2, <2>3 DEF Injection, IsInjective
<1>5. Cardinality(1..n) = n
  BY <1>2, FS_Interval
<1>6. Cardinality(1..n) <= Cardinality(Placed) /\ Cardinality(Placed) \in Nat
  <2> HIDE DEF f
  <2> QED BY <1>3, <1>4, FS_Injection, FS_CardinalityType
<1> QED BY <1>2, <1>5, <1>6

\* What a slot does to the counts.
PutOn(i, p) ==
    /\ i \in 0..Len(draft.parts) /\ PartStrategy(draft, i) \in Plain
    /\ PoolOf(draft, i) \subseteq Programmes /\ BlockOf(draft) \in Nat \ {0}
    /\ PartKey(draft, i) \in Keys(draft)
    /\ p \in Turn(PartStrategy(draft, i), PoolOf(draft, i), i, cursor[PartKey(draft, i)],
                  BlockOf(draft))
    /\ PoolOf(draft, i) # {} /\ p \in PoolOf(draft, i) /\ p.show \in ShowIds
    /\ cursor[PartKey(draft, i)] \in 0..(MaxSlots - 1)
    /\ cursor' = [cursor EXCEPT ![PartKey(draft, i)] = @ + 1]
    /\ aired' = [aired EXCEPT ![i][p.show] =
                   [turns |-> @.turns + 1,
                    last |-> IF PartStrategy(draft, i) = "RANDOM" THEN 0 ELSE p.episode]]
    /\ saved /\ ChannelStands(draft) /\ UNCHANGED <<draft, promised, saved, deals>>

LEMMA SlotsArePutOn ==
    ASSUME LineupInvariant, NEW day, NEW minute, PlaceAt(day, minute)
    PROVE  \E i \in 0..Len(draft.parts), p \in Programmes : PutOn(i, p)
<1>1. /\ saved /\ ChannelStands(draft) /\ draft \in Drafts /\ DealsMade
      /\ Cardinality(Placed) < MaxSlots
      /\ UNCHANGED <<draft, promised, saved, deals>>
  BY DEF PlaceAt, LineupInvariant
<1> DEFINE slot == Slot(draft, day, minute)
<1>2. PICK i \in 0..Len(draft.parts) : IsATurnOf(slot, i)
  BY <1>1, SlotsAreTurns
<1>3. PICK p \in slot.is :
        /\ cursor' = [cursor EXCEPT ![slot.key] = @ + 1]
        /\ aired' = [aired EXCEPT ![slot.part][p.show] =
                       [turns |-> @.turns + 1,
                        last |-> IF slot.strategy = "RANDOM" THEN 0 ELSE p.episode]]
  BY DEF PlaceAt
<1> HIDE DEF slot
<1> DEFINE key == PartKey(draft, i)  strategy == PartStrategy(draft, i)  pool == PoolOf(draft, i)
           size == BlockOf(draft)
<1>4. /\ slot.part = i /\ slot.key = key /\ slot.strategy = strategy
      /\ slot.is = Turn(strategy, pool, i, cursor[key], size)
  BY <1>2 DEF IsATurnOf
<1>5. /\ strategy \in Plain /\ pool \subseteq Programmes /\ size \in Nat \ {0}
      /\ key \in Keys(draft)
  BY <1>1, SlotsAreTurns, DraftsAreTyped
<1>6. cursor[key] \in 0..(MaxSlots - 1)
  <2>1. cursor[key] \in Nat /\ Cardinality(Placed) \in Nat /\ cursor[key] <= Cardinality(Placed)
    BY <1>5, CountsAreFew
  <2>2. MaxSlots \in Nat
    BY LineupAssumption
  <2> HIDE DEF key
  <2> QED BY <1>1, <2>1, <2>2
<1>7. p \in Turn(strategy, pool, i, cursor[key], size) /\ pool # {}
  <2>1. p \in Turn(strategy, pool, i, cursor[key], size)
    BY <1>3, <1>4
  <2> QED BY <2>1 DEF Turn
<1>8. p \in pool
  <2>1. CASE strategy = "RANDOM"
    BY <1>7, <2>1 DEF Turn
  <2>2. CASE strategy # "RANDOM"
    <3>1. strategy \in Plain \ {"RANDOM"} /\ cursor[key] \in Nat
      BY <1>5, <1>6, <2>2, LineupAssumption
    <3> HIDE DEF strategy, pool, size, key
    <3> QED BY <1>1, <1>5, <1>7, <3>1, ATurnEach
  <2> QED BY <2>1, <2>2
<1>9. p \in Programmes /\ p.show \in ShowIds
  BY <1>5, <1>8 DEF ShowIds
<1>10. PutOn(i, p)
  BY <1>1, <1>3, <1>4, <1>5, <1>6, <1>7, <1>8, <1>9 DEF PutOn
<1> QED BY <1>9, <1>10

\* A slot keeps the counts.
LEMMA PutOnKeeps ==
    ASSUME LineupInvariant, NEW i \in 0..Len(draft.parts), NEW p \in Programmes, PutOn(i, p)
    PROVE  LineupInvariant'
<1> DEFINE key == PartKey(draft, i)
<1>1. /\ draft' = draft /\ saved' = saved /\ deals' = deals /\ promised' = promised
      /\ saved /\ ChannelStands(draft)
  BY DEF PutOn
<1>2. /\ draft' \in Drafts /\ saved' \in BOOLEAN /\ DealsMade'
      /\ promised' \in {NoPreview} \cup 0..Cardinality(Programmes)
      /\ saved' /\ ChannelStands(draft)'
  BY <1>1 DEF LineupInvariant, DealsMade, ChannelStands
<1>3. /\ key \in Keys(draft) /\ cursor[key] \in 0..(MaxSlots - 1) /\ p.show \in ShowIds
      /\ cursor' = [cursor EXCEPT ![key] = @ + 1]
  BY DEF PutOn
<1>4. cursor \in [Keys(draft) -> 0..MaxSlots] /\ MaxSlots \in Nat
  BY LineupAssumption DEF LineupInvariant
<1>5. cursor' \in [Keys(draft) -> 0..MaxSlots]
  <2> HIDE DEF key
  <2>1. cursor[key] + 1 \in 0..MaxSlots
    BY <1>3, <1>4
  <2> QED BY <1>3, <1>4, <2>1
<1> DEFINE last == IF PartStrategy(draft, i) = "RANDOM" THEN 0 ELSE p.episode
           lasts == {0} \cup {q.episode : q \in Programmes}
           records == [turns : Nat, last : lasts]
<1>6. aired' = [aired EXCEPT ![i][p.show] = [turns |-> @.turns + 1, last |-> last]]
  BY DEF PutOn
<1>7. aired \in [0..Len(draft.parts) -> [ShowIds -> records]] /\ last \in lasts
  BY DEF LineupInvariant
<1> HIDE DEF key, last, lasts
<1>8. [turns |-> aired[i][p.show].turns + 1, last |-> last] \in records
  <2>1. aired[i][p.show] \in records
    BY <1>3, <1>7
  <2> QED BY <1>7, <2>1
<1>9. \A j \in 0..Len(draft.parts), s \in ShowIds :
         aired'[j][s] = IF j = i /\ s = p.show
                        THEN [turns |-> aired[i][p.show].turns + 1, last |-> last]
                        ELSE aired[j][s]
  BY <1>3, <1>6, <1>7
<1>10. aired' \in [0..Len(draft.parts) -> [ShowIds -> records]]
  <2> HIDE DEF records
  <2> QED BY <1>3, <1>6, <1>7, <1>8
<1>11. ASSUME NEW j \in 0..Len(draft.parts), NEW s \in ShowIds
       PROVE  aired'[j][s].turns <= cursor'[PartKey(draft, j)]
  <2>1. /\ aired[j][s] \in records /\ aired[j][s].turns <= cursor[PartKey(draft, j)]
        /\ PartKey(draft, j) \in Keys(draft)
    BY <1>1, <1>7, DraftsAreTyped DEF LineupInvariant
  <2>2. cursor[PartKey(draft, j)] \in Int /\ aired[j][s].turns \in Nat
    BY <1>4, <2>1
  <2>3. CASE j = i /\ s = p.show
    <3>1. cursor'[key] = cursor[key] + 1 /\ PartKey(draft, j) = key
      BY <1>3, <1>4, <2>3 DEF key
    <3>2. aired'[j][s].turns = aired[j][s].turns + 1
      BY <1>9, <2>3
    <3> QED BY <2>1, <2>2, <3>1, <3>2
  <2>4. CASE ~(j = i /\ s = p.show)
    <3>1. aired'[j][s] = aired[j][s]
      BY <1>9, <2>4
    <3>2. cursor'[PartKey(draft, j)] \in {cursor[PartKey(draft, j)], cursor[PartKey(draft, j)] + 1}
      BY <1>3, <1>4, <2>1
    <3> QED BY <2>1, <2>2, <3>1, <3>2
  <2> QED BY <2>3, <2>4
<1>12. \A j \in 0..Len(draft'.parts), s \in ShowIds :
          aired'[j][s].turns <= cursor'[PartKey(draft', j)]
  BY <1>1, <1>11
<1> QED BY <1>1, <1>2, <1>5, <1>10, <1>12 DEF LineupInvariant, lasts

\* Under keys of their own, so are the turns.
LEMMA PutOnCounts ==
    ASSUME PartsAreNamedApart, LineupInvariant, TurnsAreCounted,
           NEW i \in 0..Len(draft.parts), NEW p \in Programmes, PutOn(i, p)
    PROVE  TurnsAreCounted'
<1> DEFINE key == PartKey(draft, i)
           strategy == PartStrategy(draft, i)
           pool == PoolOf(draft, i)
           size == BlockOf(draft)
           n == cursor[key]
           last == IF strategy = "RANDOM" THEN 0 ELSE p.episode
<1>1. /\ draft' = draft /\ saved' = saved /\ deals' = deals
      /\ saved /\ ChannelStands(draft) /\ draft \in Drafts /\ DealsMade
  BY DEF PutOn, LineupInvariant
<1>2. /\ strategy \in Plain /\ pool \subseteq Programmes /\ pool # {} /\ size \in Nat \ {0}
      /\ key \in Keys(draft) /\ p.show \in ShowIds
      /\ p \in Turn(strategy, pool, i, n, size) /\ n \in Nat
      /\ cursor' = [cursor EXCEPT ![key] = n + 1]
      /\ aired' = [aired EXCEPT ![i][p.show] = [turns |-> @.turns + 1, last |-> last]]
  <2>1. n \in 0..(MaxSlots - 1)
    BY DEF PutOn
  <2>2. n \in Nat
    BY <2>1, LineupAssumption
  <2> QED BY <2>2 DEF PutOn
<1>3. /\ DOMAIN cursor = Keys(draft) /\ DOMAIN aired = 0..Len(draft.parts)
      /\ \A j \in 0..Len(draft.parts) : DOMAIN aired[j] = ShowIds
      /\ \A j \in 0..Len(draft.parts), s \in ShowIds : aired[j][s].turns \in Nat
  BY DEF LineupInvariant
<1>4. \A j \in 0..Len(draft.parts), s \in ShowIds :
         aired'[j][s] = IF j = i /\ s = p.show
                        THEN [turns |-> aired[i][p.show].turns + 1, last |-> last]
                        ELSE aired[j][s]
  <2> HIDE DEF last
  <2> QED BY <1>2, <1>3
<1>5. ASSUME NEW j \in 0..Len(draft.parts), NEW s \in ShowIds
      PROVE  Counted(j, s, cursor'[PartKey(draft, j)], aired'[j][s])
  <2>1. Counted(j, s, cursor[PartKey(draft, j)], aired[j][s])
    BY <1>1 DEF TurnsAreCounted
  <2>2. CASE j # i
    <3>1. PartKey(draft, j) # key
      <4>1. DOMAIN draft.parts = 1..Len(draft.parts) /\ Len(draft.parts) \in Nat
        BY <1>1, DraftsAreTyped
      <4>2. \A a \in DOMAIN draft.parts : KeyOf(draft, a)[1] \in {"part", "name"}
        BY DEF KeyOf
      <4>3. Whole[1] = "ordinal" /\ Fallback[1] = "fallback"
        BY DEF Whole, Fallback
      <4>4. \A a, b \in DOMAIN draft.parts : KeyOf(draft, a) = KeyOf(draft, b) => a = b
        BY <1>1 DEF PartsAreNamedApart
      <4>5. CASE i # 0 /\ j # 0
        BY <2>2, <4>1, <4>4, <4>5 DEF PartKey
      <4>6. CASE i = 0 \/ j = 0
        BY <2>2, <4>1, <4>2, <4>3, <4>6 DEF PartKey
      <4> QED BY <4>5, <4>6
    <3>2. PartKey(draft, j) \in Keys(draft)
      BY <1>1, DraftsAreTyped
    <3> HIDE DEF key, n
    <3>3. cursor'[PartKey(draft, j)] = cursor[PartKey(draft, j)]
      BY <1>2, <1>3, <3>1, <3>2
    <3>4. aired'[j][s] = aired[j][s]
      BY <1>4, <2>2
    <3> QED BY <2>1, <3>3, <3>4
  <2>3. CASE j = i
    <3>1. cursor'[key] = n + 1
      <4> HIDE DEF key
      <4> QED BY <1>2, <1>3
    <3>2. CASE strategy = "RANDOM"
      <4>1. aired[j][s].last = 0
        BY <2>1, <2>3, <3>2 DEF Counted
      <4>2. aired'[j][s].last = 0
        BY <1>4, <2>3, <3>2, <4>1
      <4> QED BY <2>3, <3>2, <4>2 DEF Counted
    <3>3. CASE strategy # "RANDOM" /\ s \notin ShowsOf(pool)
      BY <2>3, <3>3 DEF Counted
    <3>4. CASE strategy # "RANDOM" /\ s \in ShowsOf(pool)
      <4> DEFINE goes(t, k) == TurnsOf(strategy, pool, i, size, t, k)
                 show == aired[i][s]
                 next == aired'[i][s]
                 eps == EpisodesOf(pool, s)
      <4>1. /\ p.show \in ShowsOf(pool) /\ goes(s, n) \in Nat
            /\ goes(s, n + 1) = IF s = p.show THEN goes(s, n) + 1 ELSE goes(s, n)
            /\ p = Cycled(EpisodesOf(pool, p.show), goes(p.show, n))
        <5>1. strategy \in Plain \ {"RANDOM"}
          BY <1>2, <3>4
        <5> HIDE DEF strategy, pool, size, n
        <5> QED BY <1>1, <1>2, <3>4, <5>1, ATurnEach
      <4>2. /\ show.turns = goes(s, n) /\ (show.turns = 0 => show.last = 0)
            /\ (show.turns # 0 => show.last = Cycled(eps, show.turns - 1).episode)
        BY <2>1, <2>3, <3>4 DEF Counted
      <4>3. next = IF s = p.show THEN [turns |-> show.turns + 1, last |-> p.episode] ELSE show
        BY <1>4, <3>4
      <4> HIDE DEF goes, show, next
      <4>4. next.turns = goes(s, n + 1)
        BY <4>1, <4>2, <4>3
      <4>5. /\ next.turns = 0 => next.last = 0
            /\ next.turns # 0 => next.last = Cycled(eps, next.turns - 1).episode
        <5>1. CASE s = p.show
          <6>1. next.turns = goes(s, n) + 1 /\ next.last = p.episode
            BY <4>2, <4>3, <5>1
          <6>2. next.turns # 0 /\ next.turns - 1 = goes(s, n)
            BY <4>1, <6>1
          <6> QED BY <4>1, <5>1, <6>1, <6>2
        <5>2. CASE s # p.show
          BY <4>2, <4>3, <5>2
        <5> QED BY <5>1, <5>2
      <4>6. Counted(i, s, n + 1, next)
        BY <3>4, <4>4, <4>5 DEF Counted, goes
      <4> QED BY <2>3, <3>1, <4>6 DEF next
    <3> QED BY <3>2, <3>3, <3>4
  <2> QED BY <2>2, <2>3
<1>6. \A j \in 0..Len(draft.parts), s \in ShowIds :
         Counted(j, s, cursor[PartKey(draft, j)], aired[j][s])'
  BY <1>1, <1>5 DEF Counted, TurnsOf, Start, Place, OrderIn, Due, DealOf
<1> QED BY <1>1, <1>6 DEF TurnsAreCounted

LEMMA LineupStutters ==
    UNCHANGED lineupVars /\ LineupInvariant => LineupInvariant' /\ (TurnsAreCounted => TurnsAreCounted')
<1> SUFFICES ASSUME UNCHANGED lineupVars, LineupInvariant
             PROVE  LineupInvariant' /\ (TurnsAreCounted => TurnsAreCounted')
  OBVIOUS
<1>1. UNCHANGED <<draft, promised, saved, deals, cursor, aired>>
  BY DEF lineupVars
<1>2. LineupInvariant'
  BY <1>1 DEF LineupInvariant, DealsMade, ChannelStands
<1>3. TurnsAreCounted => TurnsAreCounted'
  BY <1>1 DEF TurnsAreCounted, Counted, TurnsOf, Start, Place, OrderIn, Due, DealOf
<1> QED BY <1>2, <1>3

LEMMA LineupStep == LineupInvariant /\ [LineupNext]_lineupVars => LineupInvariant'
<1> SUFFICES ASSUME LineupInvariant, [LineupNext]_lineupVars PROVE LineupInvariant'
  OBVIOUS
<1>1. CASE Preview
  BY <1>1, PreviewKeeps
<1>2. CASE Save
  BY <1>2, SaveKeeps
<1>3. ASSUME NEW day \in Week, NEW minute \in 0..(DayLength - 1), PlaceAt(day, minute)
      PROVE  LineupInvariant'
  BY <1>3, SlotsArePutOn, PutOnKeeps
<1>4. CASE UNCHANGED lineupVars
  BY <1>4, LineupStutters
<1> QED BY <1>1, <1>2, <1>3, <1>4 DEF LineupNext

LEMMA TurnsStep ==
    ASSUME PartsAreNamedApart, LineupInvariant, TurnsAreCounted, [LineupNext]_lineupVars
    PROVE  TurnsAreCounted'
<1>1. CASE Preview
  BY <1>1, PreviewKeeps
<1>2. CASE Save
  BY <1>2, SaveKeeps
<1>3. ASSUME NEW day \in Week, NEW minute \in 0..(DayLength - 1), PlaceAt(day, minute)
      PROVE  TurnsAreCounted'
  BY <1>3, SlotsArePutOn, PutOnCounts
<1>4. CASE UNCHANGED lineupVars
  BY <1>4, LineupStutters
<1> QED BY <1>1, <1>2, <1>3, <1>4 DEF LineupNext

\* A turn more is the next episode.
LEMMA OneEpisodeOn ==
    ASSUME NEW pool, pool \subseteq Programmes, NEW s \in ShowsOf(pool), NEW goes \in Nat \ {0}
    PROVE  NextAfter(pool, s, Cycled(EpisodesOf(pool, s), goes - 1).episode,
                     Cycled(EpisodesOf(pool, s), goes).episode)
<1> DEFINE list == EpisodesOf(pool, s)
           len == Len(list)
           i == ((goes - 1) % len) + 1
<1>1. len \in Nat \ {0} /\ DOMAIN list = 1..len
  BY EpisodesInLine
<1> HIDE DEF list, len
<1>2. goes - 1 \in Nat /\ (goes - 1) + 1 = goes
  OBVIOUS
<1>3. (goes - 1) % len \in 0..(len - 1)
  BY <1>1, <1>2, DivMod
<1>4. i \in 1..len
  BY <1>1, <1>3
<1>5. i % len = goes % len
  <2>1. /\ (goes - 1) % len < len - 1 => goes % len = i
        /\ (goes - 1) % len = len - 1 => goes % len = 0
    BY <1>1, <1>2, DivModNext
  <2>2. CASE (goes - 1) % len < len - 1
    <3>1. i \in 0..(len - 1) /\ i = 0 * len + i
      BY <1>1, <1>3, <2>2
    <3> HIDE DEF i
    <3>2. i % len = i
      BY <1>1, <3>1
    <3> QED BY <2>1, <2>2, <3>2
  <2>3. CASE (goes - 1) % len = len - 1
    <3>1. i = len
      BY <1>1, <2>3
    <3>2. len % len = 0
      BY <1>1
    <3> QED BY <2>1, <2>3, <3>1, <3>2
  <2> QED BY <1>1, <1>3, <2>2, <2>3
<1>6. list[i].episode = Cycled(list, goes - 1).episode
  BY DEF Cycled, len
<1>7. Cycled(list, i).episode = Cycled(list, goes).episode
  BY <1>5 DEF Cycled, len
<1> QED BY <1>1, <1>4, <1>6, <1>7 DEF NextAfter, list

LEMMA EpisodesStep ==
    ASSUME PartsAreNamedApart, LineupInvariant, TurnsAreCounted, TurnsAreCounted',
           [LineupNext]_lineupVars,
           NEW i \in DOMAIN aired, NEW s \in ShowIds,
           aired'[i][s].turns # aired[i][s].turns, aired[i][s].last # 0, aired'[i][s].last # 0
    PROVE  NextAfter(PoolOf(draft, i), s, aired[i][s].last, aired'[i][s].last)
<1>1. aired' # aired
  OBVIOUS
<1>2. PICK day \in Week, minute \in 0..(DayLength - 1) : PlaceAt(day, minute)
  BY <1>1 DEF LineupNext, Preview, Save, lineupVars
<1>3. PICK k \in 0..Len(draft.parts), p \in Programmes : PutOn(k, p)
  BY <1>2, SlotsArePutOn
<1> DEFINE pool == PoolOf(draft, i)
           goes == aired[i][s].turns
<1>4. /\ DOMAIN aired = 0..Len(draft.parts)
      /\ \A j \in 0..Len(draft.parts) : DOMAIN aired[j] = ShowIds
      /\ goes \in Nat
  BY DEF LineupInvariant
<1>5. /\ i = k /\ s = p.show /\ aired'[i][s].turns = goes + 1
      /\ PartStrategy(draft, i) # "RANDOM" /\ p \in pool /\ pool \subseteq Programmes
      /\ saved /\ saved' /\ draft' = draft
  BY <1>3, <1>4 DEF PutOn
<1>6. s \in ShowsOf(pool)
  BY <1>5 DEF ShowsOf
<1>7. /\ goes = 0 => aired[i][s].last = 0
      /\ goes # 0 => aired[i][s].last = Cycled(EpisodesOf(pool, s), goes - 1).episode
  BY <1>4, <1>5, <1>6 DEF TurnsAreCounted, Counted
<1>8. aired'[i][s].last = Cycled(EpisodesOf(pool, s), (goes + 1) - 1).episode
  <2>1. Counted(i, s, cursor[PartKey(draft, i)], aired[i][s])'
    BY <1>4, <1>5 DEF TurnsAreCounted
  <2>2. aired'[i][s].turns # 0
    BY <1>4, <1>5
  <2> QED BY <1>5, <1>6, <2>1, <2>2 DEF Counted
<1>9. goes # 0 /\ (goes + 1) - 1 = goes
  BY <1>4, <1>7
<1> HIDE DEF pool, goes
<1>10. NextAfter(pool, s, Cycled(EpisodesOf(pool, s), goes - 1).episode,
                 Cycled(EpisodesOf(pool, s), goes).episode)
  BY <1>4, <1>5, <1>6, <1>9, OneEpisodeOn
<1> QED BY <1>7, <1>8, <1>9, <1>10 DEF pool

LEMMA LineupsFit == LineupInvariant => LineupTypeOK
<1> SUFFICES ASSUME LineupInvariant PROVE LineupTypeOK
  OBVIOUS
<1>1. cursor \in [Keys(draft) -> 0..MaxSlots] /\ DOMAIN aired = 0..Len(draft.parts)
  BY DEF LineupInvariant
<1>2. ASSUME NEW i \in DOMAIN aired, NEW s \in ShowIds
      PROVE  /\ aired[i][s].turns \in 0..MaxSlots
             /\ aired[i][s].last \in {0} \cup {p.episode : p \in Programmes}
  <2>1. /\ aired[i][s] \in [turns : Nat, last : {0} \cup {p.episode : p \in Programmes}]
        /\ aired[i][s].turns <= cursor[PartKey(draft, i)]
    BY <1>1 DEF LineupInvariant
  <2>2. PartKey(draft, i) \in Keys(draft) /\ MaxSlots \in Nat
    BY <1>1, LineupAssumption, DraftsAreTyped DEF LineupInvariant
  <2>3. cursor[PartKey(draft, i)] \in 0..MaxSlots
    BY <1>1, <2>2
  <2> QED BY <2>1, <2>2, <2>3
<1> QED BY <1>1, <1>2 DEF LineupTypeOK, LineupInvariant

\* The types, whatever the parts are called: a count never runs past the bound on programmes
\* placed, and a show has no more turns than its part's count (linear_scheduler.go:111-118).
THEOREM LineupsAreTyped == LineupSpec => []LineupTypeOK
<1> QED BY LineupsFit, LineupInitHolds, LineupStep, PTL DEF LineupSpec

\* Each part goes through a show in order, one episode after the other and round again,
\* whatever its strategy and however the day is cut (linear_scheduler.go:103-105, 140-236).
THEOREM EpisodesStayInOrder == PartsAreNamedApart => (LineupSpec => EpisodesComeInOrder)
<1> SUFFICES ASSUME PartsAreNamedApart PROVE LineupSpec => EpisodesComeInOrder
  OBVIOUS
<1> DEFINE Stays == \A i \in DOMAIN aired, show \in ShowIds :
                       LET before == aired[i][show]  after == aired'[i][show]
                       IN  after.turns # before.turns /\ before.last # 0 /\ after.last # 0
                           => NextAfter(PoolOf(draft, i), show, before.last, after.last)
           Both == LineupInvariant /\ TurnsAreCounted
<1>1. LineupInit => Both
  BY LineupInitHolds
<1>2. Both /\ [LineupNext]_lineupVars => Both'
  BY LineupStep, TurnsStep
<1>3. Both /\ [LineupNext]_lineupVars => [Stays]_lineupVars
  BY TurnsStep, EpisodesStep
<1> HIDE DEF Both
<1>4. LineupSpec => [][Stays]_lineupVars
  BY <1>1, <1>2, <1>3, PTL DEF LineupSpec
<1> QED BY <1>4 DEF EpisodesComeInOrder

-----------------------------------------------------------------------------
(* The shapes of the two screens.                                          *)

\* Whatever is wrong, a ladder's last rung has a verdict, of those of schema.json.
LEMMA FirstHasAVerdict ==
    ASSUME NEW kind \in Kinds, NEW wrong
    PROVE  First(kind, wrong) \in HealthStates \cup {"goOn"}
<1> DEFINE Verdicts == HealthStates \cup {"goOn"}
<1>1. OpenRungs(wrong) \in HealthStates \cup {"next"}
  BY Climb4 DEF OpenRungs, NotSet, Rung, Reply, Silence, Else, HealthStates
<1>2. ArrStatus(wrong) \in Verdicts
  BY Climb7 DEF ArrStatus, NotSet, Rung, Reply, Silence, Else, HealthStates
<1>3. JellyfinPublic(wrong) \in Verdicts /\ RommHeartbeat(wrong) \in Verdicts
  BY <1>1, Climb4 DEF JellyfinPublic, RommHeartbeat, Rung, Else, HealthStates
<1>4. PlexIdentity(wrong) \in Verdicts
  BY <1>1, Climb3 DEF PlexIdentity, Rung, Else, HealthStates
<1>5. RomarrHealth(wrong) \in Verdicts
  BY Climb8 DEF RomarrHealth, NotSet, Rung, Reply, Silence, Else, HealthStates
<1>6. AddonHealth(wrong) \in Verdicts
  BY Climb5 DEF AddonHealth, AddonHealthFromError, Rung, Reply, Silence, Else, HealthStates
<1>7. LinearHealth(wrong) \in Verdicts
  BY Climb3 DEF LinearHealth, NotSet, Rung, Reply, Silence, Else, HealthStates
<1> QED BY <1>2, <1>3, <1>4, <1>5, <1>6, <1>7 DEF First, Kinds, Arrs

\* Who goes on has a second question, and that one has a verdict of schema.json.
LEMMA SecondHasAVerdict ==
    ASSUME NEW kind \in Arrs \cup {"jellyfin", "plex", "romm"}, NEW wrong
    PROVE  Second(kind, wrong) \in HealthStates
<1>1. ASSUME NEW silence \in HealthStates PROVE KeyRungs(wrong, silence) \in HealthStates
  BY <1>1, Climb6 DEF KeyRungs, Rung, Reply, Silence, Else, HealthStates
<1>2. /\ KeyRungs(wrong, "degraded") \in HealthStates
      /\ KeyRungs(wrong, "unreachable") \in HealthStates
  BY <1>1 DEF HealthStates
<1>3. ArrHealth(wrong) \in HealthStates
  BY DEF ArrHealth, HealthStates
<1> QED BY <1>2, <1>3 DEF Second, Arrs, JellyfinInfo, PlexSections, RommPlatforms

LEMMA NoSecondQuestion ==
    ASSUME NEW kind \in {"romarr", "addon", "linear"}, NEW wrong
    PROVE  First(kind, wrong) # "goOn"
<1>1. RomarrHealth(wrong) # "goOn"
  BY Climb8 DEF RomarrHealth, NotSet, Rung, Reply, Silence, Else
<1>2. AddonHealth(wrong) # "goOn"
  BY Climb5 DEF AddonHealth, AddonHealthFromError, Rung, Reply, Silence, Else
<1>3. LinearHealth(wrong) # "goOn"
  BY Climb3 DEF LinearHealth, NotSet, Rung, Reply, Silence, Else
<1> QED BY <1>1, <1>2, <1>3 DEF First, Arrs

\* The registry holds every id once: Registry.Add leaves out who claims one again.
LEMMA IdsAreUnique ==
    ASSUME NEW h \in Households
    PROVE  LET list == Registered(h)
               ids == {list[i].id : i \in DOMAIN list}
           IN  Len(list) \in Nat /\ IsFiniteSet(ids) /\ Cardinality(ids) = Len(list)
<1> DEFINE S == {h[i] : i \in DOMAIN h}
           places == Admitted(h)
           list == Kept(h, places)
           at == Ascending(places)
           ids == {list[i].id : i \in DOMAIN list}
<1>1. h \in Seq(S)
  BY HouseholdsAssumption
<1>2. DOMAIN h = 1..Len(h) /\ Len(h) \in Nat /\ places \in SUBSET DOMAIN h
  BY <1>1 DEF Admitted
<1>3. /\ list \in Seq(S) /\ DOMAIN list = DOMAIN at
      /\ \A k \in DOMAIN list : at[k] \in places /\ list[k] = h[at[k]]
      /\ \A k, m \in DOMAIN list : at[k] = at[m] => k = m
  <2> HIDE DEF S
  <2> QED BY <1>1, <1>2, RowsAreKept
<1>4. \A i, j \in places : h[i].id = h[j].id => i = j
  <2> SUFFICES ASSUME NEW i \in places, NEW j \in places, h[i].id = h[j].id PROVE i = j
    OBVIOUS
  <2>1. i \in Int /\ j \in Int /\ i \in DOMAIN h /\ j \in DOMAIN h
    BY <1>2
  <2>2. ~(i < j) /\ ~(j < i)
    BY <2>1 DEF Admitted
  <2> QED BY <2>1, <2>2
<1> HIDE DEF places, at, S
<1>5. DOMAIN list = 1..Len(list) /\ Len(list) \in Nat
  BY <1>3
<1> HIDE DEF list
<1> DEFINE f == [k \in 1..Len(list) |-> list[k].id]
<1>6. \A k, m \in 1..Len(list) : f[k] = f[m] => k = m
  BY <1>3, <1>4, <1>5
<1>7. ids = Values(f, Len(list))
  BY <1>5 DEF Values
<1> HIDE DEF ids, f
<1>8. IsFiniteSet(Values(f, Len(list))) /\ Cardinality(Values(f, Len(list))) = Len(list)
  BY <1>5, <1>6, EachCountsOnce
<1> QED BY <1>5, <1>7, <1>8 DEF ids, list, places, Registered

CheckRecords ==
    [at : {"first", "second", "done"}, says : HealthStates \cup {"nothing"}, lost : BOOLEAN,
     ever : SUBSET Wrong, always : SUBSET Wrong]
ScreenRecords(ids) ==
    [open : BOOLEAN, waits : SUBSET ids, rows : SUBSET ids, failed : SUBSET ids,
     stayed : SUBSET ids]

\* A check says something when it is done, and goes on only where there is a second question.
CheckHolds(kind, c) ==
    /\ c \in CheckRecords /\ c.always \subseteq c.ever
    /\ c.at = "done" <=> c.says \in HealthStates
    /\ c.at = "second" => kind \in Arrs \cup {"jellyfin", "plex", "romm"}

HealthShapes ==
    /\ Cardinality(Ids) = Len(registry)
    /\ \A id \in Ids : KindOf(id) \in Kinds
    /\ faults \subseteq Ids \X Wrong /\ busy \subseteq Ids
    /\ turns \in 0..MaxTurns /\ panics \in 0..MaxPanics
    /\ page = <<>> \/ DOMAIN page = Ids
    /\ \A id \in DOMAIN page : id \in Ids /\ CheckHolds(KindOf(id), page[id])
    /\ screen \in ScreenRecords(Ids)

LEMMA ShapesFollow == HealthShapes => HealthTypeOK
<1> SUFFICES ASSUME HealthShapes PROVE HealthTypeOK
  OBVIOUS
<1>1. \A id \in DOMAIN page : /\ page[id].at \in {"first", "second", "done"}
                              /\ page[id].at = "done" <=> page[id].says \in HealthStates
                              /\ page[id].always \subseteq page[id].ever
  BY DEF HealthShapes, CheckHolds, CheckRecords
<1>2. screen.waits \cup screen.rows \cup screen.failed \subseteq Ids
  BY DEF HealthShapes, ScreenRecords
<1> QED BY <1>1, <1>2 DEF HealthShapes, HealthTypeOK

LEMMA ShapesStart == HealthInit => HealthShapes
<1> SUFFICES ASSUME HealthInit PROVE HealthShapes
  OBVIOUS
<1>1. PICK h \in Households : registry = Registered(h)
  BY DEF HealthInit
<1>2. Cardinality(Ids) = Len(registry)
  BY <1>1, IdsAreUnique DEF Ids
<1>3. \A i \in DOMAIN registry : registry[i].kind \in Kinds
  BY <1>1, HouseholdsAssumption
<1>4. ASSUME NEW id \in Ids PROVE KindOf(id) \in Kinds
  <2>1. \E i \in DOMAIN registry : registry[i].id = id
    BY DEF Ids
  <2>2. (CHOOSE i \in DOMAIN registry : registry[i].id = id) \in DOMAIN registry
    BY <2>1
  <2> QED BY <1>3, <2>2 DEF KindOf
<1>5. faults \subseteq Ids \X Wrong
  <2> DEFINE may == {f \in Ids \X Troubles : f[2] \in Befalls(KindOf(f[1]))}
  <2>1. faults \in UNION {kSubset(n, may) : n \in 0..MaxFaults}
    BY DEF HealthInit
  <2>2. faults \subseteq may
    BY <2>1 DEF kSubset
  <2>3. Ids \X Troubles \subseteq Ids \X Wrong
    BY TroublesAssumption
  <2> QED BY <2>2, <2>3
<1>6. page = <<>> /\ screen \in ScreenRecords(Ids) /\ busy \subseteq Ids
  BY DEF HealthInit, NoScreen, ScreenRecords
<1>7. turns \in 0..MaxTurns /\ panics \in 0..MaxPanics
  BY HealthAssumption DEF HealthInit
<1> QED BY <1>2, <1>4, <1>5, <1>6, <1>7 DEF HealthShapes

\* The services that are registered, and so their ids and kinds, stay.
LEMMA ShapesTurn ==
    ASSUME HealthShapes, NEW id \in Ids, TurnOn(id)
    PROVE  HealthShapes'
<1>1. Ids' = Ids /\ (\A i : KindOf(i)' = KindOf(i)) /\ registry' = registry /\ panics' = panics
  BY KindsStay DEF TurnOn
<1>2. turns' \in 0..MaxTurns
  BY HealthAssumption DEF HealthShapes, TurnOn
<1>3. CASE /\ \E w \in (Troubles \ Unset) \cap Befalls(KindOf(id)) :
                  faults' = IF <<id, w>> \in faults THEN faults \ {<<id, w>>}
                            ELSE faults \cup {<<id, w>>}
           /\ page' = [i \in DOMAIN page |-> SeenBy(i, {w \in Wrong : <<i, w>> \in faults'})]
           /\ UNCHANGED <<busy, screen>>
  <2>1. faults' \subseteq Ids \X Wrong
    BY <1>3, TroublesAssumption DEF HealthShapes
  <2>2. page' = <<>> \/ DOMAIN page' = Ids
    BY <1>3 DEF HealthShapes
  <2>3. ASSUME NEW i \in DOMAIN page PROVE CheckHolds(KindOf(i), page'[i])
    <3> DEFINE c == page[i]
               now == {w \in Wrong : <<i, w>> \in faults'}
    <3> DEFINE e == IF c.at = "done" THEN c.ever ELSE c.ever \cup now
               a == IF c.at = "done" THEN c.always ELSE c.always \cap now
    <3>1. page'[i] = [c EXCEPT !.ever = e, !.always = a]
      BY <1>3 DEF SeenBy
    <3>2. CheckHolds(KindOf(i), c) /\ now \in SUBSET Wrong
      BY DEF HealthShapes
    <3> HIDE DEF now, c
    <3>3. e \in SUBSET Wrong /\ a \in SUBSET Wrong /\ a \subseteq e
      BY <3>2 DEF CheckHolds, CheckRecords
    <3> HIDE DEF e, a
    <3>4. /\ page'[i] \in CheckRecords /\ page'[i].at = c.at /\ page'[i].says = c.says
          /\ page'[i].ever = e /\ page'[i].always = a
      BY <3>1, <3>2, <3>3 DEF CheckHolds, CheckRecords
    <3> QED BY <3>2, <3>3, <3>4 DEF CheckHolds
  <2> QED BY <1>1, <1>2, <1>3, <2>1, <2>2, <2>3 DEF HealthShapes
<1>4. CASE /\ busy' = IF id \in busy THEN busy \ {id} ELSE busy \cup {id}
           /\ screen' = [screen EXCEPT !.stayed = IF screen.waits = {} THEN @ ELSE @ \ {id}]
           /\ UNCHANGED <<faults, page>>
  <2>1. busy' \subseteq Ids
    BY <1>4 DEF HealthShapes
  <2>2. screen' \in ScreenRecords(Ids)
    BY <1>4 DEF HealthShapes, ScreenRecords
  <2> QED BY <1>1, <1>2, <1>4, <2>1, <2>2 DEF HealthShapes
<1> QED BY <1>3, <1>4 DEF TurnOn

LEMMA ShapesOfAPage ==
    ASSUME HealthShapes, NEW owner \in BOOLEAN, AskPage(owner)
    PROVE  HealthShapes'
<1>1. Ids' = Ids /\ (\A i : KindOf(i)' = KindOf(i)) /\ registry' = registry
  BY KindsStay DEF AskPage
<1>2. page' = <<>> \/ DOMAIN page' = Ids
  BY DEF AskPage
<1>3. \A i \in DOMAIN page' : i \in Ids /\ page'[i] = NewCheck(i)
  BY DEF AskPage
<1>4. ASSUME NEW i \in Ids PROVE CheckHolds(KindOf(i), NewCheck(i))
  <2>1. FaultsOf(i) \in SUBSET Wrong
    BY DEF FaultsOf
  <2>2. NewCheck(i) \in CheckRecords
    BY <2>1 DEF NewCheck, CheckRecords
  <2> QED BY <2>2 DEF CheckHolds, NewCheck, HealthStates
<1>5. \A i \in DOMAIN page' : i \in Ids /\ CheckHolds(KindOf(i), page'[i])
  BY <1>3, <1>4
<1> QED BY <1>1, <1>2, <1>5 DEF HealthShapes, AskPage

\* A check moves: only its own row changes.
LEMMA ShapesOfACheck ==
    ASSUME HealthShapes, NEW id \in DOMAIN page, NEW at, NEW says, NEW lost \in BOOLEAN,
           \/ at = "done" /\ says \in HealthStates
           \/ /\ at = "second" /\ says = "nothing"
              /\ KindOf(id) \in Arrs \cup {"jellyfin", "plex", "romm"},
           page' = [page EXCEPT ![id] = [page[id] EXCEPT !.at = at, !.says = says, !.lost = lost]],
           panics' \in 0..MaxPanics, UNCHANGED <<registry, faults, busy, turns, screen>>
    PROVE  HealthShapes'
<1>1. Ids' = Ids /\ \A i : KindOf(i)' = KindOf(i)
  BY KindsStay
<1> DEFINE c == page[id]
           d == [c EXCEPT !.at = at, !.says = says, !.lost = lost]
<1>2. CheckHolds(KindOf(id), c)
  BY DEF HealthShapes
<1>3. page' = [page EXCEPT ![id] = d]
  OBVIOUS
<1> HIDE DEF c
<1>4. CheckHolds(KindOf(id), d)
  BY <1>2 DEF CheckHolds, CheckRecords, HealthStates
<1> HIDE DEF d
<1>5. /\ DOMAIN page' = DOMAIN page
      /\ \A i \in DOMAIN page : page'[i] = IF i = id THEN d ELSE page[i]
  BY <1>3
<1>6. \A i \in DOMAIN page' : i \in Ids /\ CheckHolds(KindOf(i), page'[i])
  BY <1>4, <1>5 DEF HealthShapes
<1>7. page' = <<>> \/ DOMAIN page' = Ids
  <2>1. page # <<>>
    OBVIOUS
  <2> QED BY <1>5, <2>1 DEF HealthShapes
<1> QED BY <1>1, <1>6, <1>7 DEF HealthShapes

LEMMA ShapesOfAnAnswer ==
    ASSUME HealthShapes, NEW id \in Ids, CheckStep(id) \/ CheckPanics(id)
    PROVE  HealthShapes'
<1>1. id \in DOMAIN page /\ KindOf(id) \in Kinds /\ CheckHolds(KindOf(id), page[id])
  BY DEF HealthShapes, CheckStep, CheckPanics
<1>2. CASE CheckStep(id)
  <2>1. PICK verdict : /\ Settled(id, verdict)
                       /\ \/ page[id].at = "first" /\ verdict = First(KindOf(id), FaultsOf(id))
                          \/ page[id].at = "second" /\ verdict = Second(KindOf(id), FaultsOf(id))
    BY <1>2 DEF CheckStep, Settled
  <2>2. \/ verdict \in HealthStates
        \/ verdict = "goOn" /\ KindOf(id) \in Arrs \cup {"jellyfin", "plex", "romm"}
    <3>1. First(KindOf(id), FaultsOf(id)) \in HealthStates \cup {"goOn"}
      BY <1>1, FirstHasAVerdict
    <3>2. First(KindOf(id), FaultsOf(id)) = "goOn" =>
             KindOf(id) \in Arrs \cup {"jellyfin", "plex", "romm"}
      BY <1>1, NoSecondQuestion DEF Kinds
    <3>3. page[id].at = "second" => Second(KindOf(id), FaultsOf(id)) \in HealthStates
      BY <1>1, SecondHasAVerdict DEF CheckHolds
    <3> QED BY <2>1, <3>1, <3>2, <3>3
  <2>3. panics' \in 0..MaxPanics /\ UNCHANGED <<registry, faults, busy, turns, screen>>
    BY <1>2 DEF CheckStep, HealthShapes
  <2>4. PICK at, says : /\ at = IF verdict = "goOn" THEN "second" ELSE "done"
                        /\ says = IF verdict = "goOn" THEN "nothing" ELSE verdict
    OBVIOUS
  <2>5. PICK c : c = page[id]
    OBVIOUS
  <2>6. c \in CheckRecords /\ c.lost \in BOOLEAN
    BY <1>1, <2>5 DEF CheckHolds, CheckRecords
  <2>7. page' = [page EXCEPT ![id] = [c EXCEPT !.at = at, !.says = says]]
    BY <2>1, <2>4, <2>5 DEF Settled
  <2>8. [c EXCEPT !.at = at, !.says = says] = [c EXCEPT !.at = at, !.says = says, !.lost = c.lost]
    BY <2>6 DEF CheckRecords
  <2>9. page' = [page EXCEPT ![id] = [page[id] EXCEPT !.at = at, !.says = says, !.lost = c.lost]]
    BY <2>5, <2>7, <2>8
  <2>10. \/ at = "done" /\ says \in HealthStates
         \/ /\ at = "second" /\ says = "nothing"
            /\ KindOf(id) \in Arrs \cup {"jellyfin", "plex", "romm"}
    BY <2>2, <2>4 DEF HealthStates
  <2> QED BY <1>1, <2>3, <2>6, <2>9, <2>10, ShapesOfACheck
<1>3. CASE CheckPanics(id)
  <2>1. page' = [page EXCEPT ![id] = [page[id] EXCEPT !.at = "done", !.says = "degraded",
                                                      !.lost = TRUE]]
    BY <1>1, <1>3 DEF CheckPanics
  <2>2. panics' \in 0..MaxPanics /\ UNCHANGED <<registry, faults, busy, turns, screen>>
    BY <1>3, HealthAssumption DEF CheckPanics, HealthShapes
  <2>3. "degraded" \in HealthStates /\ TRUE \in BOOLEAN
    BY DEF HealthStates
  <2> QED BY <1>1, <2>1, <2>2, <2>3, ShapesOfACheck
<1> QED BY <1>2, <1>3

LEMMA ShapesOfAScreen ==
    ASSUME HealthShapes, AskActivity \/ \E id \in Ids : ActivityStep(id) \/ ActivityPanics(id)
    PROVE  HealthShapes'
<1>1. UNCHANGED <<registry, faults, busy, turns, page>> /\ panics' \in 0..MaxPanics
  <2>1. panics \in 0..MaxPanics
    BY DEF HealthShapes
  <2>2. CASE AskActivity \/ \E id \in Ids : ActivityStep(id)
    BY <2>1, <2>2 DEF AskActivity, ActivityStep
  <2>3. ASSUME NEW id \in Ids, ActivityPanics(id)
        PROVE  UNCHANGED <<registry, faults, busy, turns, page>> /\ panics' \in 0..MaxPanics
    BY <2>1, <2>3, HealthAssumption DEF ActivityPanics
  <2> QED BY <2>2, <2>3
<1>2. Ids' = Ids /\ \A i : KindOf(i)' = KindOf(i)
  BY <1>1, KindsStay
<1>3. screen' \in ScreenRecords(Ids)
  <2>1. CASE AskActivity
    BY <2>1 DEF AskActivity, HealthShapes, ScreenRecords
  <2>2. ASSUME NEW id \in Ids, ActivityStep(id) \/ ActivityPanics(id)
        PROVE  screen' \in ScreenRecords(Ids)
    <3>1. PICK answered \in BOOLEAN : Reported(id, answered, answered /\ id \in busy)
      BY <2>2 DEF ActivityStep, ActivityPanics
    <3> QED BY <3>1 DEF Reported, HealthShapes, ScreenRecords
  <2> QED BY <2>1, <2>2
<1> QED BY <1>1, <1>2, <1>3 DEF HealthShapes

LEMMA ShapesStay == HealthShapes /\ [HealthNext]_healthVars => HealthShapes'
<1> SUFFICES ASSUME HealthShapes, [HealthNext]_healthVars PROVE HealthShapes'
  OBVIOUS
<1>1. CASE UNCHANGED healthVars
  <2>1. /\ Ids' = Ids /\ (\A i : KindOf(i)' = KindOf(i))
        /\ UNCHANGED <<registry, faults, busy, turns, panics, page, screen>>
    BY <1>1, KindsStay DEF healthVars
  <2> QED BY <2>1 DEF HealthShapes
<1>2. ASSUME NEW owner \in BOOLEAN, AskPage(owner) PROVE HealthShapes'
  BY <1>2, ShapesOfAPage
<1>3. ASSUME NEW id \in Ids, TurnOn(id) PROVE HealthShapes'
  BY <1>3, ShapesTurn
<1>4. ASSUME NEW id \in Ids, CheckStep(id) \/ CheckPanics(id) PROVE HealthShapes'
  BY <1>4, ShapesOfAnAnswer
<1>5. CASE AskActivity \/ \E id \in Ids : ActivityStep(id) \/ ActivityPanics(id)
  BY <1>5, ShapesOfAScreen
<1> QED BY <1>1, <1>2, <1>3, <1>4, <1>5 DEF HealthNext

-----------------------------------------------------------------------------
(* The shapes of the shelf.                                                *)

ReadStages == {"none", "shows", "items", "done", "pooled"}
ShelfShapes ==
    /\ ShelfTypeOK /\ DOMAIN reading = DOMAIN NoRead /\ DOMAIN entry = DOMAIN NoEntry

LEMMA ShelfShapesStart == ShelfInit => ShelfShapes
<1> SUFFICES ASSUME ShelfInit PROVE ShelfShapes
  OBVIOUS
<1>1. stock \subseteq ShelfItems /\ server \in Servers
  BY DEF ShelfInit
<1>2. /\ reading.at = "none" /\ reading.out = {} /\ DOMAIN reading = DOMAIN NoRead
      /\ DOMAIN entry = DOMAIN NoEntry /\ entry.young = FALSE /\ served.of = "none"
  BY DEF ShelfInit, NoRead, NoEntry, NoPool
<1>3. changes \in 0..MaxChanges /\ breaks \in 0..MaxBreaks
  BY ShelfAssumption DEF ShelfInit
<1> QED BY <1>1, <1>2, <1>3 DEF ShelfShapes, ShelfTypeOK

\* Whoever moves the read on leaves its rows items of the shelf.
LEMMA ReadsAreShaped ==
    ASSUME ShelfShapes, UNCHANGED <<server, entry, served, changes>>, stock' = stock,
           breaks' \in 0..MaxBreaks, DOMAIN reading' = DOMAIN NoRead,
           reading'.at \in ReadStages, \A row \in reading'.out : row.id \in ShelfItems
    PROVE  ShelfShapes'
BY DEF ShelfShapes, ShelfTypeOK, ReadStages

LEMMA ShelfChanges ==
    ASSUME ShelfShapes, NEW i \in ShelfItems, Comes(i) \/ Goes(i)
    PROVE  ShelfShapes'
<1>1. /\ DOMAIN reading' = DOMAIN reading /\ reading'.at = reading.at /\ reading'.out = reading.out
  BY DEF Comes, Goes, ShelfShapes, NoRead
<1>2. stock' \subseteq ShelfItems /\ UNCHANGED <<server, entry, served, breaks>>
  BY DEF Comes, Goes, ShelfShapes, ShelfTypeOK
<1>3. changes' \in 0..MaxChanges
  BY ShelfAssumption DEF Comes, Goes, ShelfShapes, ShelfTypeOK
<1> QED BY <1>1, <1>2, <1>3 DEF ShelfShapes, ShelfTypeOK

LEMMA ReadsMoveOn ==
    ASSUME ShelfShapes,
           \/ \E shows \in {{}, Shows} : ReadShows(shows)
           \/ OpenRead \/ ReadPage \/ Truncated \/ PageFails \/ ReadEnds
    PROVE  ShelfShapes'
<1>1. UNCHANGED <<server, entry, served, changes>> /\ stock' = stock
  BY DEF ReadShows, OpenRead, ReadPage, Truncated, PageFails, ReadEnds
<1>2. breaks' \in 0..MaxBreaks
  <2>1. breaks \in 0..MaxBreaks
    BY DEF ShelfShapes, ShelfTypeOK
  <2>2. ASSUME NEW shows, ReadShows(shows) PROVE breaks' \in 0..MaxBreaks
    BY <2>1, <2>2, ShelfAssumption DEF ReadShows
  <2> QED BY <2>1, <2>2, ShelfAssumption DEF OpenRead, ReadPage, Truncated, PageFails, ReadEnds
<1>3. DOMAIN reading' = DOMAIN NoRead /\ reading'.at \in ReadStages
  <2>1. DOMAIN reading = DOMAIN NoRead /\ reading.at \in ReadStages
    BY DEF ShelfShapes, ShelfTypeOK, ReadStages
  <2>2. CASE \/ \E shows \in {{}, Shows} : ReadShows(shows)
             \/ Truncated \/ PageFails
    BY <2>1, <2>2 DEF ReadShows, Truncated, PageFails, NoRead, ReadStages
  <2>3. CASE OpenRead
    <3>1. PICK at \in {"shows", "items"} : reading' = [NoRead EXCEPT !.at = at, !.had = stock]
      BY <2>3 DEF OpenRead
    <3> QED BY <3>1 DEF NoRead, ReadStages
  <2>5. CASE ReadEnds
    BY <2>5 DEF ReadEnds, NoRead, ReadStages
  <2>4. CASE ReadPage
    <3> DEFINE leaf == Page(reading.start, Limit)
               total == IF stock # {} THEN Cardinality(stock) ELSE reading.total
               at == IF LastPage(leaf, total) THEN "done" ELSE reading.at
    <3>1. reading' = [reading EXCEPT !.total = total, !.out = @ \cup Rows(leaf),
                                     !.start = @ + PageSize, !.at = at]
      BY <2>4 DEF ReadPage
    <3>2. at \in ReadStages
      BY <2>1 DEF ReadStages
    <3> HIDE DEF leaf, total, at
    <3> QED BY <2>1, <3>1, <3>2 DEF NoRead
  <2> QED BY <2>2, <2>3, <2>4, <2>5
<1>4. \A row \in reading'.out : row.id \in ShelfItems
  <2>1. DOMAIN reading = DOMAIN NoRead /\ \A row \in reading.out : row.id \in ShelfItems
    BY DEF ShelfShapes, ShelfTypeOK
  <2>2. CASE \/ \E shows \in {{}, Shows} : ReadShows(shows)
             \/ Truncated \/ PageFails
    BY <2>1, <2>2 DEF ReadShows, Truncated, PageFails, NoRead
  <2>3. CASE OpenRead
    <3>1. PICK at : reading' = [NoRead EXCEPT !.at = at, !.had = stock]
      BY <2>3 DEF OpenRead
    <3> QED BY <3>1 DEF NoRead
  <2>5. CASE ReadEnds
    BY <2>5 DEF ReadEnds, NoRead
  <2>4. CASE ReadPage
    <3> DEFINE leaf == Page(reading.start, Limit)
    <3>1. PICK total, start, at :
             reading' = [reading EXCEPT !.total = total, !.out = @ \cup Rows(leaf),
                                        !.start = start, !.at = at]
      BY <2>4 DEF ReadPage
    <3>2. reading'.out = reading.out \cup Rows(leaf)
      BY <2>1, <3>1 DEF NoRead
    <3>3. leaf \subseteq ShelfItems
      BY DEF Page, ShelfShapes, ShelfTypeOK
    <3>4. \A row \in Rows(leaf) : row.id \in ShelfItems
      BY <3>3 DEF Rows, ToLinearItem
    <3> QED BY <2>1, <3>2, <3>4
  <2> QED BY <2>2, <2>3, <2>4, <2>5
<1> QED BY <1>1, <1>2, <1>3, <1>4, ReadsAreShaped

LEMMA PoolsAreShaped ==
    ASSUME ShelfShapes, PoolFromCopy \/ PoolFromRead \/ CopyAges
    PROVE  ShelfShapes'
<1>1. UNCHANGED <<server, stock, changes, breaks>>
  BY DEF PoolFromCopy, PoolFromRead, CopyAges
<1>2. DOMAIN reading' = DOMAIN reading /\ reading'.out = reading.out /\ reading'.at \in ReadStages
  BY DEF PoolFromCopy, PoolFromRead, CopyAges, ShelfShapes, ShelfTypeOK, NoRead, ReadStages
<1>3. DOMAIN entry' = DOMAIN NoEntry /\ (entry'.young => entry'.filled)
  BY DEF PoolFromCopy, PoolFromRead, Pooled, CopyAges, ShelfShapes, ShelfTypeOK, NoEntry
<1>4. served'.of \in {"none", "copy", "read", "stale", "nothing"}
  BY DEF PoolFromCopy, PoolFromRead, Pooled, CopyAges, ShelfShapes, ShelfTypeOK
<1> QED BY <1>1, <1>2, <1>3, <1>4 DEF ShelfShapes, ShelfTypeOK, ReadStages

LEMMA ShelfShapesStay == ShelfShapes /\ [ShelfNext]_shelfVars => ShelfShapes'
<1> SUFFICES ASSUME ShelfShapes, [ShelfNext]_shelfVars PROVE ShelfShapes'
  OBVIOUS
<1>1. CASE UNCHANGED shelfVars
  BY <1>1 DEF shelfVars, ShelfShapes, ShelfTypeOK
<1> QED BY <1>1, ShelfChanges, ReadsMoveOn, PoolsAreShaped DEF ShelfNext

-----------------------------------------------------------------------------
(* The whole house: somebody is in one of its rooms, and the others rest.  *)

HouseInvariant ==
    /\ GamesInvariant /\ TuneInvariant /\ HealthShapes /\ ShelfShapes /\ ImportsInvariant
    /\ LineupInvariant

\* THEOREM: every room of the house is typed, whichever somebody is in.
THEOREM HouseIsTyped == HouseSpec => []HouseTypeOK
<1>1. HouseInit => HouseInvariant
  <2> SUFFICES ASSUME HouseInit PROVE HouseInvariant
    OBVIOUS
  <2>1. /\ GamesInit /\ TuneInit /\ HealthInit /\ ShelfInit /\ ImportsInit /\ LineupInit
    BY DEF HouseInit
  <2> QED BY <2>1, GamesStart, TuneStarts, ShapesStart, ShelfShapesStart, ImportsStart,
             LineupInitHolds DEF HouseInvariant
<1>2. HouseInvariant /\ [HouseNext]_houseVars => HouseInvariant'
  <2> SUFFICES ASSUME HouseInvariant, [HouseNext]_houseVars PROVE HouseInvariant'
    OBVIOUS
  <2>1. /\ [GamesNext]_gameVars /\ [TuneNext]_tuneVars /\ [HealthNext]_healthVars
        /\ [ShelfNext]_shelfVars /\ [ImportsNext]_importVars /\ [LineupNext]_lineupVars
    BY DEF HouseNext, InGames, InTuner, InHealth, InShelf, InImports, InLineup, houseVars
  <2> QED BY <2>1, GamesStay, TuneStays, ShapesStay, ShelfShapesStay, ImportsStay, LineupStep
          DEF HouseInvariant
<1>3. HouseInvariant => HouseTypeOK
  <2> SUFFICES ASSUME HouseInvariant PROVE HouseTypeOK
    OBVIOUS
  <2>1. GamesTypeOK /\ TuneTypeOK /\ HealthTypeOK /\ ShelfTypeOK
    BY HonestyFollows, TruthFollows, ShapesFollow DEF HouseInvariant, ShelfShapes
  <2>2. ImportsTypeOK
    <3>1. /\ FilesOnlyGain(onSale.games, vault, torrents, unfinished, snapshot)
          /\ snapshot \in SnapshotRecords
          /\ onSale.sets \subseteq Sets /\ imports \in 0..MaxImports
      BY DEF HouseInvariant, ImportsInvariant
    <3>2. snapshot.seen \in {"nothing", "half", "all"}
      BY <3>1 DEF SnapshotRecords, NoWalk, HalfWalk
    <3> QED BY <3>1, <3>2 DEF ImportsTypeOK, FilesOnlyGain
  <2>3. LineupTypeOK
    BY LineupsFit DEF HouseInvariant
  <2> QED BY <2>1, <2>2, <2>3 DEF HouseTypeOK
<1> QED BY <1>1, <1>2, <1>3, PTL DEF HouseSpec
=============================================================================
