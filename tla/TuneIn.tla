------------------------------- MODULE TuneIn -------------------------------
(***************************************************************************)
(* Tuning in (linear_position.go, linear_access.go, and the resolvers of   *)
(* linear_source_*.go, provider_jellyfin.go, provider_plex.go): the guide  *)
(* says what is on and how far it has got; the resolvers are asked in turn *)
(* for a stream that begins there; what fails is tried again, after a      *)
(* pause, unless the file is gone.  The guide is given; the media servers, *)
(* and the transcodes they keep by session, are external.                  *)
(***************************************************************************)
EXTENDS Integers, Sequences, FiniteSets

CONSTANTS
    Guide,        \* per channel its programmes: [starts, ends, server, runs], in order
    Chain,        \* the servers in the order their resolvers were made
    Attempts,     \* retryAttempts
    PublicSource, \* publicProviders
    PrivateSource,\* privateProviders
    Owner,        \* the viewer who is signed in as the owner
    Viewers,      \* one request at a time each
    MaxClock,     \* bound: ticks
    MaxStreams,   \* bound: transcodes the servers keep
    MaxMishaps     \* bound: servers that go down, files that are deleted

\* A programme lasts a while, its server is one of those that are asked, and a file whose
\* last second is not kept clear (clampTicks, clampOffset) is as long as its slot.
ProgrammeRecords == [starts : Int, ends : Int, server : {"archive", "jellyfin", "plex"},
                     runs : Nat \ {0}]
ASSUME TuneInAssumption ==
    /\ Attempts \in Nat \ {0} /\ {MaxClock, MaxStreams, MaxMishaps} \subseteq Nat
    /\ Chain \in Seq({"archive", "jellyfin", "plex"})
    /\ \A c \in DOMAIN Guide :
         /\ Guide[c] \in Seq(ProgrammeRecords)
         /\ \A i \in DOMAIN Guide[c] :
              LET p == Guide[c][i]
              IN  /\ p.starts < p.ends /\ \E k \in DOMAIN Chain : Chain[k] = p.server
                  /\ p.server = "archive" \/ p.runs = 1 => p.ends - p.starts <= p.runs

VARIABLES
    clock,
    down,        \* servers that do not answer
    deleted,     \* programmes whose file is gone, <<channel, index>>
    ranges,      \* probed: what archive.org said of the ranges of a file, once asked
    transcodes,  \* what the servers keep: the start of the stream of a session
    tuning,      \* per viewer
    mishaps

tuneVars == <<clock, down, deleted, ranges, transcodes, tuning, mishaps>>

Channels == DOMAIN Guide
NoProgramme == 0
Away == [at |-> "idle", channel |-> "none", index |-> NoProgramme, offset |-> 0, member |-> 0,
         attempt |-> 0, real |-> FALSE, told |-> "nothing", begins |-> 0, seekable |-> FALSE,
         shown |-> {}]

Least(m, n) == IF m < n THEN m ELSE n

-----------------------------------------------------------------------------
(* Who may see which channel.                                              *)

\* channelIsPublic: by where its programmes come from; private wins.
ChannelSource(c) == Guide[c][1].server
IsPublic(c) == ChannelSource(c) \in PublicSource \ PrivateSource

\* withViewer: whoever is not known to be the owner is a stranger.
IsOwner(v) == v = Owner

\* visibleChannel.
Visible(v, c) == c \in Channels /\ (IsOwner(v) \/ IsPublic(c))

\* visibleIDs and Guide: no channel named means all that this viewer may see.
GuideFor(v, asked) ==
    {c \in (IF asked = {} THEN Channels ELSE asked) : Visible(v, c)}

-----------------------------------------------------------------------------
(* Where a channel is.                                                     *)

\* linearIndexAt: the last one that has started, if it has not ended.
IndexAt(c, now) ==
    LET i == Cardinality({k \in DOMAIN Guide[c] : Guide[c][k].starts <= now})
    IN  IF i # 0 /\ Guide[c][i].ends > now THEN i ELSE NoProgramme

\* linearLiveOffset.
LiveOffset(p, now) ==
    LET off == IF now < p.starts THEN 0 ELSE now - p.starts
    IN  IF off >= p.ends - p.starts THEN p.ends - p.starts - 1 ELSE off

\* NowPlaying: what is on, and how far it has got.
NowPlaying(c) ==
    LET i == IndexAt(c, clock)
    IN  IF i = NoProgramme THEN [Away EXCEPT !.channel = c, !.at = "told", !.told = "off air"]
        ELSE [Away EXCEPT !.channel = c, !.at = "told", !.told = "on air", !.index = i,
                          !.offset = LiveOffset(Guide[c][i], clock)]

-----------------------------------------------------------------------------
(* A stream that begins at an offset.                                      *)

\* plexClampOffset: one second short of the end of the file.
PlexClamped(offset, runs) == IF runs > 1 THEN Least(offset, runs - 1) ELSE offset

\* jellyfinClampTicks, likewise.
Clamped(offset, runs) == IF runs > 1 /\ offset >= runs THEN runs - 1 ELSE offset

\* Slip: a position that is in the URL already stays.
StartTicksIfNone(planned, start) == IF planned > 0 THEN planned ELSE start

\* jellyfinEnsureStartTicks: whatever position the URL came with.
StartTicks(planned, start) == start

\* mediaRandomSession: a session of its own per stream.
FreshSession(kept) == Cardinality(kept) + 1

\* What a server plays from when a stream is opened: a session it knows goes on where it is.
Plays(session, what, start) ==
    LET same == {t \in transcodes : t.session = session /\ t.what = what}
    IN  IF same # {} THEN (CHOOSE t \in same : TRUE).start ELSE start

Stream(start, seekable) == [begins |-> start, seekable |-> seekable]

\* staticURL, and the part of Plex: the file, untouched, from its beginning.
Direct == Stream(0, TRUE)

\* The transcoders of both: they begin at the start they are given, by session.
Transcoded(what, start, seekable) ==
    LET session == FreshSession(transcodes)
    IN  [stream |-> Stream(Plays(session, what, start), seekable),
         kept |-> transcodes \cup {[session |-> session, what |-> what, start |-> start]}]

\* playbackInfo: its plan may hold the position that was asked for, or none; the session in
\* its URL is one Jellyfin made for this plan.
Planned(offset) == {0, offset}
PlannedStreams(what, offset, start) ==
    UNION {{Transcoded(what, StartTicks(planned, start), TRUE),
            Transcoded(what, StartTicks(planned, start), FALSE)} : planned \in Planned(offset)}

\* Stream of Jellyfin; without a plan, progressiveURL.
JellyfinStreams(what, offset, runs) ==
    LET start == Clamped(offset, runs)
    IN  (IF start = 0 THEN {[stream |-> Direct, kept |-> transcodes]} ELSE {})
        \cup PlannedStreams(what, offset, start) \cup {Transcoded(what, start, FALSE)}

\* Stream of Plex.
PlexStreams(what, offset, runs) ==
    LET start == PlexClamped(offset, runs)
    IN  IF start = 0 THEN {[stream |-> Direct, kept |-> transcodes]}
        ELSE {Transcoded(what, start, FALSE)}

\* LinearResolve of archive.org: the player seeks, where the file was seen to allow it.
ArchiveStreams(what, offset) ==
    {[stream |-> IF ok THEN Stream(offset, TRUE) ELSE Stream(0, FALSE), kept |-> transcodes] :
        ok \in {r[2] : r \in {x \in ranges : x[1] = what}}}

Streams(from, what, offset, runs) ==
    CASE from = "jellyfin" -> JellyfinStreams(what, offset, runs)
      [] from = "plex" -> PlexStreams(what, offset, runs)
      [] OTHER -> ArchiveStreams(what, offset)

-----------------------------------------------------------------------------
TuneInit ==
    /\ clock = 0 /\ down = {} /\ deleted = {} /\ ranges = {} /\ transcodes = {} /\ mishaps = 0
    /\ tuning = [v \in Viewers |-> Away]

Told(v, what) == tuning' = [tuning EXCEPT ![v].at = "told", ![v].told = what]

\* handleGuide, handleChannels.
ReadGuide(v, asked) ==
    /\ tuning[v].at = "idle"
    /\ tuning' = [tuning EXCEPT ![v] = [Away EXCEPT !.at = "told", !.told = "guide",
                                                    !.shown = GuideFor(v, asked)]]
    /\ UNCHANGED <<clock, down, deleted, ranges, transcodes, mishaps>>

NoSuchChannel(c) == [Away EXCEPT !.channel = c, !.at = "told", !.told = "no such channel"]

\* handleNow: a channel that may not be seen is no channel.
AskNow(v, c) ==
    /\ tuning[v].at = "idle"
    /\ tuning' = [tuning EXCEPT ![v] = IF Visible(v, c) THEN NowPlaying(c) ELSE NoSuchChannel(c)]
    /\ UNCHANGED <<clock, down, deleted, ranges, transcodes, mishaps>>

\* TuneIn: the programme and the offset are settled here, before anything is resolved.
TuningIn(c) ==
    IF NowPlaying(c).told = "on air"
    THEN [NowPlaying(c) EXCEPT !.at = "asking", !.told = "nothing", !.member = 1, !.attempt = 1]
    ELSE NowPlaying(c)

\* handleStream.
TuneTo(v, c) ==
    /\ tuning[v].at = "idle"
    /\ tuning' = [tuning EXCEPT ![v] = IF Visible(v, c) THEN TuningIn(c) ELSE NoSuchChannel(c)]
    /\ UNCHANGED <<clock, down, deleted, ranges, transcodes, mishaps>>

What(v) == <<tuning[v].channel, tuning[v].index>>
On(v) == Guide[tuning[v].channel][tuning[v].index]
Asking(v) == tuning[v].at = "asking" /\ tuning[v].member \in DOMAIN Chain
Member(v) == Chain[tuning[v].member]

Passes(v, real) ==
    tuning' = [tuning EXCEPT ![v].member = @ + 1, ![v].real = @ \/ real]

\* A resolver that did not issue the identity, and one whose server lacks the file, have none.
HasNone(v) ==
    /\ Asking(v)
    /\ \/ On(v).server # Member(v)
       \/ Member(v) \notin down /\ What(v) \in deleted /\ Member(v) # "archive"
    /\ Passes(v, FALSE)
    /\ UNCHANGED <<clock, down, deleted, ranges, transcodes, mishaps>>

\* A server that does not answer; archive.org also fails for a file that is not there.
FailsToServe(v) ==
    /\ Asking(v) /\ On(v).server = Member(v)
    /\ Member(v) \in down \/ (Member(v) = "archive" /\ What(v) \in deleted
                              /\ ~\E r \in ranges : r[1] = What(v))
    /\ Passes(v, TRUE)
    /\ UNCHANGED <<clock, down, deleted, ranges, transcodes, mishaps>>

\* rangeOK: asked once per file, and kept.
ProbeRanges(v, ok) ==
    /\ Asking(v) /\ On(v).server = "archive" /\ Member(v) = "archive"
    /\ "archive" \notin down /\ What(v) \notin deleted
    /\ ~\E r \in ranges : r[1] = What(v)
    /\ ranges' = ranges \cup {<<What(v), ok>>}
    /\ UNCHANGED <<clock, down, deleted, transcodes, tuning, mishaps>>

Serves(v) ==
    /\ Asking(v) /\ On(v).server = Member(v) /\ Cardinality(transcodes) < MaxStreams
    /\ Member(v) = "archive" \/ (Member(v) \notin down /\ What(v) \notin deleted)
    /\ \E s \in Streams(Member(v), What(v), tuning[v].offset, On(v).runs) :
         /\ transcodes' = s.kept
         /\ tuning' = [tuning EXCEPT ![v].at = "told", ![v].told = "playing",
                           ![v].begins = s.stream.begins, ![v].seekable = s.stream.seekable]
    /\ UNCHANGED <<clock, down, deleted, ranges, mishaps>>

\* linearResolverChain: it is gone when all of them say so.
NobodyHasIt(real) == ~real

\* Slip: one attempt too many.
LastAttemptAfter(attempt) == attempt > Attempts

\* The attempts are counted from one.
LastAttempt(attempt) == attempt = Attempts

\* linearResolveWithRetry, at the end of the chain.
ChainEnds(v) ==
    /\ tuning[v].at = "asking" /\ tuning[v].member = Len(Chain) + 1
    /\ IF NobodyHasIt(tuning[v].real) THEN Told(v, "gone")
       ELSE IF LastAttempt(tuning[v].attempt) THEN Told(v, "unavailable")
       ELSE tuning' = [tuning EXCEPT ![v].at = "resting"]
    /\ UNCHANGED <<clock, down, deleted, ranges, transcodes, mishaps>>

\* The pause is over; the offset is the one that was settled at the start.
TryAgain(v) ==
    /\ tuning[v].at = "resting"
    /\ tuning' = [tuning EXCEPT ![v].at = "asking", ![v].member = 1, ![v].real = FALSE,
                                ![v].attempt = @ + 1]
    /\ UNCHANGED <<clock, down, deleted, ranges, transcodes, mishaps>>

\* The viewer leaves, during the pause too; or goes on to something else.
TuneOut(v) ==
    /\ tuning[v].at # "idle" /\ tuning' = [tuning EXCEPT ![v] = Away]
    /\ UNCHANGED <<clock, down, deleted, ranges, transcodes, mishaps>>

-----------------------------------------------------------------------------
TimeGoesOn ==
    /\ clock < MaxClock /\ clock' = clock + 1
    /\ UNCHANGED <<down, deleted, ranges, transcodes, tuning, mishaps>>

Mishap == mishaps < MaxMishaps /\ mishaps' = mishaps + 1
         /\ UNCHANGED <<clock, ranges, transcodes, tuning>>
ServerDown(s) == s \notin down /\ Mishap /\ down' = down \cup {s} /\ UNCHANGED deleted
FileDeleted(w) == w \notin deleted /\ Mishap /\ deleted' = deleted \cup {w} /\ UNCHANGED down
ServerBack(s) ==
    /\ s \in down /\ down' = down \ {s}
    /\ UNCHANGED <<clock, deleted, ranges, transcodes, tuning, mishaps>>

ViewerStep(v) ==
    HasNone(v) \/ FailsToServe(v) \/ Serves(v) \/ ChainEnds(v) \/ TryAgain(v)
    \/ \E ok \in BOOLEAN : ProbeRanges(v, ok)

TuneNext ==
    \/ TimeGoesOn \/ \E s \in {Chain[i] : i \in DOMAIN Chain} : ServerDown(s) \/ ServerBack(s)
    \/ \E c \in Channels : \E i \in DOMAIN Guide[c] : FileDeleted(<<c, i>>)
    \/ \E v \in Viewers : \/ ViewerStep(v) \/ TuneOut(v)
                          \/ \E c \in Channels : TuneTo(v, c) \/ AskNow(v, c)
                          \/ \E asked \in SUBSET Channels : ReadGuide(v, asked)

TuneSpec == TuneInit /\ [][TuneNext]_tuneVars

-----------------------------------------------------------------------------
\* Every variable has its type.
TuneTypeOK ==
    /\ clock \in 0..MaxClock /\ mishaps \in 0..MaxMishaps
    /\ down \subseteq {Chain[i] : i \in DOMAIN Chain}
    /\ \A w \in deleted : w[1] \in Channels /\ w[2] \in DOMAIN Guide[w[1]]
    /\ \A r \in ranges : r[2] \in BOOLEAN /\ ~\E x \in ranges : x[1] = r[1] /\ x # r
    /\ \A v \in Viewers :
         /\ tuning[v].at \in {"idle", "asking", "resting", "told"}
         /\ tuning[v].attempt \in 0..Attempts /\ tuning[v].member \in 0..(Len(Chain) + 1)

\* What plays begins where the answer says the channel was, or in the last second of a file
\* that is shorter than that; only a file archive.org would not seek in begins at zero, and
\* its viewer is told it cannot be sought in (Stream, LinearResolve).
PlaysFromWhereItIsTold ==
    \A v \in Viewers : tuning[v].told = "playing" =>
        \/ tuning[v].begins \in {tuning[v].offset, Clamped(tuning[v].offset, On(v).runs)}
           /\ tuning[v].begins < On(v).runs
        \/ On(v).server = "archive" /\ tuning[v].begins = 0 /\ ~tuning[v].seekable

\* A viewer is only told that a programme is gone when the server it is from has lost the
\* file: not when that server was away, whatever the others said (linearResolverChain).
GoneIsGone ==
    \A v \in Viewers : tuning[v].told = "gone" => What(v) \in deleted

\* What a viewer is told of a programme is true of it, whatever the clock, the servers, the
\* files and the other viewers did since the question was asked (linear_position.go:205).
TheViewerIsToldTheTruth == PlaysFromWhereItIsTold /\ GoneIsGone
=============================================================================
