---------------------------- MODULE LinkFormats ----------------------------
(***************************************************************************)
(* What the link resolver makes of the files a page offers (link_ytdlp.go, *)
(* link_mux.go): which tracks each holds, which silent ones can be joined  *)
(* to a sound track, and which file is selected for the visitor.           *)
(*                                                                         *)
(* A format is what yt-dlp reports of it.  Storyboards, DRM and formats    *)
(* without a URL are dropped before this.  Names, labels and sizes are left out.   *)
(***************************************************************************)
EXTENDS Integers, FiniteSets

CONSTANTS
    Formats,       \* those that pages offer
    HasJoiner      \* muxAvailable

Codecs == {"codec", "none", "absent"}   \* vcodec and acodec
Hints == {"picture", "sound", "image", "nothing"}   \* dimensions, bitrates, extension

ASSUME FormatAssumption ==
    /\ Formats \subseteq [v : Codecs, a : Codecs, hint : Hints, segmented : BOOLEAN,
                          height : Nat]
    /\ HasJoiner \in BOOLEAN

Contains(picture, sound, known) == [picture |-> picture, sound |-> sound, known |-> known]

\* tracks: sound is "known" where the acodec field is reported at all, but for
\* the two reports that name only one of the tracks.
Tracks(f) ==
    CASE f.v = "codec" \/ f.a = "codec" ->
            Contains(f.v = "codec", f.a = "codec", f.a # "absent")
      [] f.v = "none" /\ f.a = "absent" -> Contains(FALSE, TRUE, FALSE)
      [] f.v = "absent" /\ f.a = "none" -> Contains(TRUE, FALSE, FALSE)
      [] f.v = "none" /\ f.a = "none"   -> Contains(FALSE, FALSE, TRUE)
      [] OTHER -> Contains(f.hint \in {"picture", "nothing"}, f.hint = "sound",
                           f.hint \in {"sound", "image"})

Medium(f) == Tracks(f).picture \/ Tracks(f).sound

\* A row of the list, its partner being the row that it is joined to.
Row(f) == [f |-> f, partner |-> {}]
Silent(f) == Tracks(f).picture /\ ~Tracks(f).sound /\ Tracks(f).known
AudioOnly(f) == ~Tracks(f).picture /\ Tracks(f).sound

\* formatClass.
Class(row) ==
    LET t == Tracks(row.f)
    IN  IF t.picture /\ (t.sound \/ row.partner # {}) THEN "complete"
        ELSE IF t.picture /\ ~t.known THEN "probably"
        ELSE IF AudioOnly(row.f) THEN "audio" ELSE "silent"

\* bestAudioFor: delivery first; container, language and size are left open.
Partners(f, fs) ==
    LET audio == {a \in fs : AudioOnly(a)}
        alike == {a \in audio : a.segmented = f.segmented}
    IN  IF alike # {} THEN alike ELSE audio

\* attachPairing: each silent track with the partner it is given.
Pairings(fs) ==
    LET silent == IF HasJoiner THEN {f \in fs : Silent(f) /\ Partners(f, fs) # {}} ELSE {}
        Joined(f) == {[f |-> f, partner |-> {p}] : p \in Partners(f, fs)}
    IN  {{Row(f) : f \in fs \ silent} \cup chosen :
            chosen \in {s \in SUBSET UNION {Joined(f) : f \in silent} :
                          /\ {r.f : r \in s} = silent
                          /\ Cardinality(s) = Cardinality(silent)}}

PreferredHeight == 1080

\* Above the preferred height the smaller one wins, and none of them against it.
HeightScore(h) ==
    IF h > PreferredHeight THEN PreferredHeight - 1 - (h - PreferredHeight) \div 1000 ELSE h
Score(row) ==
      (CASE Class(row) = "complete" -> 4000 [] Class(row) = "probably" -> 3000
         [] Class(row) = "audio" -> 2000 [] OTHER -> 0)
    + (IF row.f.segmented THEN 0 ELSE 500)
    + HeightScore(row.f.height)

\* bestFormat: one of those with the best score that may be the default at all.
WantsVideo(rows) == \E r \in rows : Tracks(r.f).picture
Eligible(rows) ==
    {r \in rows : Class(r) \in IF WantsVideo(rows) THEN {"complete", "probably"} ELSE {"audio"}}
Best(rows) == {r \in Eligible(rows) : \A s \in Eligible(rows) : Score(s) <= Score(r)}

\* mediaURL: what goes through ffmpeg on its way out.
Remuxed(row) == row.partner # {} \/ (row.f.segmented /\ HasJoiner)
=============================================================================
