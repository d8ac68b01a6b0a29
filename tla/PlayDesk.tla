------------------------------ MODULE PlayDesk ------------------------------
(***************************************************************************)
(* Whether an archive.org item plays, and with whose firmware              *)
(* (play_archive.go, play_bios*.go).  An item's metadata is fetched once   *)
(* for everybody who asks; a machine that needs firmware is then looked up *)
(* in three sources in turn, each with an index of its own.  archive.org,  *)
(* the household's library and its disk are external.                      *)
(***************************************************************************)
EXTENDS Naturals, FiniteSets

CONSTANTS
    Players,      \* who asks, one item at a time each
    Hosts,        \* those of them who are the owner
    Items,        \* each a record, see ItemKinds
    NoPlayer        \* none of them

ItemKinds ==
    [core : {"absent", "unemulated", "unknown", "arcade", "threaded", "bios", "open", "plain"},
     size : {"none", "small", "large", "huge"}, streamOnly : BOOLEAN]

ASSUME PlayAssumption ==
    /\ Hosts \subseteq Players /\ NoPlayer \notin Players
    /\ Items \subseteq ItemKinds /\ Items # {}

\* firmwareSources: the owner's disk and library, archive.org's copy, in order.
Sources == <<"disk", "library", "archive">>

VARIABLES
    holds,      \* external: per source, the machines it has firmware for
    kept,       \* metaCache: per item, "none", "item" or "failure"
    metaFlight, \* metaFlight: per item, who is asking archive.org
    cost,       \* history: per item, requests to archive.org since it was last kept
    index,      \* per source, the machines it lists firmware for
    tries,      \* per source, "stale", "tried" (wait before asking again) or "fresh"
    player

playVars == <<holds, kept, metaFlight, cost, index, tries, player>>

SourceSet == {"disk", "library", "archive"}
NeedFirmware == {"bios", "open"}    \* "open": or an option built into the core
Machines == NeedFirmware \cap {i.core : i \in Items}
NoAnswer == [route |-> "unasked", reason |-> "none", source |-> "none",
             bios |-> FALSE, direct |-> FALSE, relay |-> FALSE]
AnyItem == CHOOSE i \in Items : TRUE
AtRest == [at |-> "rest", item |-> AnyItem, hasBIOS |-> FALSE, isolated |-> FALSE,
           source |-> 1, gone |-> FALSE, answer |-> NoAnswer]

PlayInit ==
    /\ holds \in [SourceSet -> SUBSET Machines] /\ holds["archive"] = Machines \ {"open"}
    /\ kept = [i \in Items |-> "none"] /\ metaFlight = [i \in Items |-> NoPlayer]
    /\ cost = [i \in Items |-> 0]
    /\ index = [s \in SourceSet |-> {}] /\ tries = [s \in SourceSet |-> "stale"]
    /\ player = [p \in Players |-> AtRest]

Busy == {"metadata", "woken", "waiting", "fetching", "firmware", "seeking"}

-----------------------------------------------------------------------------
(* The verdict: ResolveWith, once the metadata and the firmware are known. *)

NeedsFirmware(i) == i.core \in NeedFirmware
HoldsInTab(i) == i.size \in {"small", "large"}
Refusal(route, reason) == [NoAnswer EXCEPT !.route = route, !.reason = reason]

\* The game itself; no direct link to what may not be downloaded, and no relay
\* for what this host cannot afford to carry.
Game(i, source) ==
    [route |-> "emulatorjs", reason |-> "none", source |-> source, bios |-> source # "none",
     direct |-> ~i.streamOnly, relay |-> i.size = "small"]

\* Is the block of this core lifted?
Unblocked(i, isolated, source) ==
    CASE i.core = "arcade"   -> FALSE
      [] i.core = "threaded" -> isolated
      [] NeedsFirmware(i)    -> source # "none"
      [] OTHER               -> TRUE

\* Firmware is asked for only where it is all that is missing.
Invites(i) == NeedsFirmware(i) /\ HoldsInTab(i)

BlockedBy(i) == CASE i.core = "arcade" -> "no_core" [] i.core = "threaded" -> "needs_isolation"
                  [] OTHER -> "needs_bios"

Verdict(i, isolated, source) ==
    IF i.core = "absent" THEN Refusal("none", "not_found")    \* archive.org's `{}`
    ELSE IF i.core = "unemulated" THEN Refusal("none", "not_emulated")
    ELSE IF i.core = "unknown" THEN Refusal("archive", "no_core")
    ELSE IF ~Unblocked(i, isolated, source)
         THEN [Refusal("archive", BlockedBy(i)) EXCEPT !.bios = Invites(i)]
    ELSE IF i.size = "none" THEN Refusal("archive", "no_payload")
    ELSE IF i.size = "huge" THEN Refusal("archive", "too_large")
    ELSE Game(i, source)

-----------------------------------------------------------------------------
(* Metadata, kept, and fetched by one caller for all.                      *)

Answered(pl, verdict) == [pl EXCEPT !.at = "answered", !.answer = verdict]

\* metadataCached returned: firmwareFor comes next where firmware matters.
Resolved(pl, outcome) ==
    LET source == IF NeedsFirmware(pl.item) THEN "yours" ELSE "none" IN
    IF outcome = "failure" THEN Answered(pl, Refusal("none", "upstream"))
    ELSE IF NeedsFirmware(pl.item) /\ ~pl.hasBIOS THEN [pl EXCEPT !.at = "firmware", !.source = 1]
    ELSE Answered(pl, Verdict(pl.item, pl.isolated, source))

AskToPlay(p, i, hasBIOS, isolated) ==
    /\ player[p].at = "rest"
    /\ hasBIOS => NeedsFirmware(i)            \* of no consequence otherwise
    /\ isolated => i.core = "threaded"
    /\ player' = [player EXCEPT ![p] = [AtRest EXCEPT
           !.at = "metadata", !.item = i, !.hasBIOS = hasBIOS, !.isolated = isolated]]
    /\ UNCHANGED <<holds, kept, metaFlight, cost, index, tries>>

LookUp(p) ==
    LET i == player[p].item IN
    /\ player[p].at \in {"metadata", "woken"}
    /\ IF kept[i] # "none"
       THEN player' = [player EXCEPT ![p] = Resolved(@, kept[i])] /\ UNCHANGED <<metaFlight, cost>>
       ELSE IF metaFlight[i] = NoPlayer
       THEN /\ player' = [player EXCEPT ![p].at = "fetching"]
            /\ metaFlight' = [metaFlight EXCEPT ![i] = p] /\ cost' = [cost EXCEPT ![i] = @ + 1]
       ELSE player' = [player EXCEPT ![p].at = "waiting"] /\ UNCHANGED <<metaFlight, cost>>
    /\ UNCHANGED <<holds, kept, index, tries>>

\* The answer, or the error, is kept before the others are woken to look again.
\* (slip: an error is not kept)
KeptIfAnItem(outcome) == IF outcome = "item" THEN "item" ELSE "none"
Kept(outcome) == outcome

Landed(i) == [metaFlight EXCEPT ![i] = NoPlayer]

MetadataEnds(p) ==
    LET i == player[p].item IN
    /\ player[p].at = "fetching"
    /\ \E outcome \in {"item", "failure"} :
          /\ kept' = [kept EXCEPT ![i] = Kept(outcome)]
          /\ player' = [q \in Players |->
                IF q = p THEN (IF player[p].gone THEN AtRest ELSE Resolved(player[p], outcome))
                ELSE IF player[q].at = "waiting" /\ player[q].item = i
                THEN [player[q] EXCEPT !.at = "woken"] ELSE player[q]]
          /\ metaFlight' = Landed(i)
    /\ UNCHANGED <<holds, cost, index, tries>>

\* playMetaTTL, playMetaFailTTL: longer than a caller that was woken needs to look.
MetadataExpires(i) ==
    /\ kept[i] # "none"
    /\ \A p \in Players : ~(player[p].at = "woken" /\ player[p].item = i)
    /\ kept' = [kept EXCEPT ![i] = "none"] /\ cost' = [cost EXCEPT ![i] = 0]
    /\ UNCHANGED <<holds, metaFlight, index, tries, player>>

\* The tab is closed.  A request under way is cancelled, not undone.
PlayerLeaves(p) ==
    /\ player[p].at \in Busy /\ ~player[p].gone
    /\ player' = [player EXCEPT ![p] =
           IF @.at \in {"fetching", "seeking"} THEN [@ EXCEPT !.gone = TRUE] ELSE AtRest]
    /\ UNCHANGED <<holds, kept, metaFlight, cost, index, tries>>

-----------------------------------------------------------------------------
(* Firmware: the first source that lists some.                             *)

\* What a source's index says, and on to the next.
FromIndex(pl, listed) ==
    LET Found(source) == Answered(pl, Verdict(pl.item, pl.isolated, source)) IN
    IF listed THEN Found(Sources[pl.source])
    ELSE IF pl.source < 3 THEN [pl EXCEPT !.at = "firmware", !.source = @ + 1]
    ELSE Found(IF pl.item.core = "open" THEN "builtin" ELSE "none")

\* refresh: an index that is good, or was asked for a moment ago, is used as it
\* is; archive.org's, once built, is good for ever, and the disk always re-read.
LookInSource(p) ==
    LET s == Sources[player[p].source]
        core == player[p].item.core
        asIs == CASE s = "disk"    -> tries[s] = "fresh"
                  [] s = "library" -> tries[s] \in {"fresh", "tried"}
                  [] s = "archive" -> core \in index[s] \/ core = "open" \/ tries[s] = "tried" IN
    /\ player[p].at = "firmware"
    /\ IF asIs
       THEN player' = [player EXCEPT ![p] = FromIndex(@, core \in index[s])] /\ UNCHANGED tries
       ELSE player' = [player EXCEPT ![p].at = "seeking"] /\ tries' = [tries EXCEPT ![s] = "tried"]
    /\ UNCHANGED <<holds, kept, metaFlight, cost, index>>

\* The index is replaced, or, of a source that failed, left as it was.
\* archive.org's copy is known by its hash, which only "bios" publishes.
SourceAnswers(p) ==
    LET pl == player[p]
        s == Sources[pl.source] IN
    /\ pl.at = "seeking"
    /\ \/ /\ index' = [index EXCEPT ![s] = holds[s]]
          /\ tries' = [tries EXCEPT ![s] = IF s = "archive" THEN @ ELSE "fresh"]
       \/ s # "disk" /\ UNCHANGED <<index, tries>>
    /\ player' = [player EXCEPT ![p] =
           IF pl.gone THEN AtRest ELSE FromIndex(@, pl.item.core \in index'[s])]
    /\ UNCHANGED <<holds, kept, metaFlight, cost>>

\* biosIndexTTL, biosIndexRetryAfter: longer than a lookup may take.
IndexAges(s) ==
    /\ tries[s] # "stale"
    /\ \A p \in Players : player[p].at = "seeking" => Sources[player[p].source] # s
    /\ tries' = [tries EXCEPT ![s] = "stale"]
    /\ UNCHANGED <<holds, kept, metaFlight, cost, index, player>>

-----------------------------------------------------------------------------
(* handleBIOS: the emulator fetches the firmware it was told of.           *)

\* Two of the three sources are the owner's own, and only he is served from
\* them; the index is looked at as it is, and a file it lists may fail to open.
FetchFirmware(p) ==
    LET s == player[p].answer.source
        listed == (s = "archive" \/ p \in Hosts) /\ player[p].item.core \in index[s] IN
    /\ player[p].at = "answered" /\ s \in SourceSet
    /\ \E at \in {"booted", "not found", "bad gateway"} :
          /\ at = "not found" <=> ~listed
          /\ at = "bad gateway" => s # "archive"
          /\ player' = [player EXCEPT ![p].at = at]
    /\ UNCHANGED <<holds, kept, metaFlight, cost, index, tries>>

PlayEnds(p) ==
    /\ player[p].at \in {"answered", "booted", "not found", "bad gateway"}
    /\ player' = [player EXCEPT ![p] = AtRest]
    /\ UNCHANGED <<holds, kept, metaFlight, cost, index, tries>>

PlayStep(p) == LookUp(p) \/ MetadataEnds(p) \/ LookInSource(p) \/ SourceAnswers(p)

PlayNext ==
    \/ \E p \in Players :
          \/ \E i \in Items, hasBIOS, isolated \in BOOLEAN : AskToPlay(p, i, hasBIOS, isolated)
          \/ PlayStep(p) \/ PlayerLeaves(p) \/ FetchFirmware(p) \/ PlayEnds(p)
    \/ \E i \in Items : MetadataExpires(i)
    \/ \E s \in SourceSet : IndexAges(s)

PlaySpec == PlayInit /\ [][PlayNext]_playVars

-----------------------------------------------------------------------------
Answers == [route : {"unasked", "none", "archive", "emulatorjs"},
            reason : {"none", "upstream", "not_found", "not_emulated", "no_core", "needs_isolation",
                      "needs_bios", "no_payload", "too_large"},
            source : SourceSet \cup {"none", "yours", "builtin"},
            bios : BOOLEAN, direct : BOOLEAN, relay : BOOLEAN]

PlayTypeOK ==
    /\ {holds, index} \subseteq [SourceSet -> SUBSET NeedFirmware]
    /\ tries \in [SourceSet -> {"stale", "tried", "fresh"}]
    /\ kept \in [Items -> {"none", "item", "failure"}]
    /\ metaFlight \in [Items -> Players \cup {NoPlayer}] /\ cost \in [Items -> Nat]
    /\ player \in [Players ->
          [at : Busy \cup {"rest", "answered", "booted", "not found", "bad gateway"}, item : Items,
           hasBIOS : BOOLEAN, isolated : BOOLEAN, source : 1..3, gone : BOOLEAN, answer : Answers]]

\* metaFlight "collapses concurrent lookups of one item onto a single request, so
\* ten people opening the same game during an outage cost one timeout rather than
\* ten": also when the one who asks goes away, and for those who come too late.
OutageCostsOneRequest == \A i \in Items : cost[i] <= 1

=============================================================================
