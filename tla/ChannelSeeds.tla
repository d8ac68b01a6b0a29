---------------------------- MODULE ChannelSeeds ----------------------------
(***************************************************************************)
(* The channels a fresh install starts with (SeedNostalgiaChannels), and   *)
(* what becomes of the ones the owner deletes: two files of the engine's   *)
(* directory, channels.json and the seed marker, written one after the     *)
(* other.                                                                  *)
(***************************************************************************)
EXTENDS Naturals, FiniteSets

CONSTANTS
    Seeds,       \* nostalgiaChannels
    MaxBoots     \* bound: starts of the process

ASSUME SeedsAssumption == IsFiniteSet(Seeds) /\ MaxBoots \in Nat \ {0}

VARIABLES
    channels,    \* the engine's channels
    rows,        \* channels.json
    marker,      \* seeded.json
    boot,        \* SeedNostalgiaChannels: what is left to do, what it will mark
    boots,
    gone         \* history: channels that were deleted, and not created since

seedVars == <<channels, rows, marker, boot, boots, gone>>

Booting(m) == [todo |-> Seeds, seeded |-> m, added |-> {}, done |-> FALSE]

SeedsInit ==
    /\ channels = {}
    /\ rows = {}
    /\ marker = {}
    /\ boot = Booting({})
    /\ boots = 1
    /\ gone = {}

\* channels.json is written whole; a write that fails leaves the old rows.
Persist == rows' \in {channels', rows}

\* There already, or deleted on purpose.
SeedSkipped(ch) ==
    /\ ch \in boot.todo
    /\ ch \in channels \/ ch \in boot.seeded
    /\ boot' = [boot EXCEPT !.todo = @ \ {ch}]
    /\ UNCHANGED <<channels, rows, marker, boots, gone>>

\* SaveChannel: a channel whose row cannot be written is on air all the same,
\* and is not counted as added.  (slip: the marker is not consulted)
SeedCreatedAnyway(ch) ==
    /\ ch \in boot.todo \ channels
    /\ channels' = channels \cup {ch}
    /\ Persist
    /\ boot' = [boot EXCEPT !.todo = @ \ {ch}, !.added = @ \cup {ch}, !.seeded = @ \cup {ch}]
    /\ UNCHANGED <<marker, boots, gone>>
SeedCreated(ch) ==
    /\ ch \in boot.todo \ (channels \cup boot.seeded)
    /\ channels' = channels \cup {ch}
    /\ Persist
    /\ boot' = IF rows' = channels'
               THEN [boot EXCEPT !.todo = @ \ {ch}, !.added = @ \cup {ch}, !.seeded = @ \cup {ch}]
               ELSE [boot EXCEPT !.todo = @ \ {ch}]
    /\ UNCHANGED <<marker, boots, gone>>

\* saveSeedMarker, if anything was added; its failure is a line in the log.
SeedingDone ==
    /\ boot.todo = {} /\ ~boot.done
    /\ marker' \in {marker, IF boot.added = {} THEN marker ELSE boot.seeded}
    /\ boot' = [boot EXCEPT !.done = TRUE]
    /\ UNCHANGED <<channels, rows, boots, gone>>

\* DeleteChannel, once the service answers; what persist returns is dropped.
DeleteSeed(ch) ==
    /\ boot.done /\ ch \in channels
    /\ channels' = channels \ {ch}
    /\ Persist
    /\ gone' = gone \cup {ch}
    /\ UNCHANGED <<marker, boot, boots>>

\* The process stops anywhere and starts again.
SeedsRestart ==
    /\ boots < MaxBoots
    /\ boots' = boots + 1
    /\ channels' = rows
    /\ boot' = Booting(marker)
    /\ UNCHANGED <<rows, marker, gone>>

SeedsNext ==
    \/ \E ch \in Seeds : SeedSkipped(ch) \/ SeedCreated(ch) \/ DeleteSeed(ch)
    \/ SeedingDone \/ SeedsRestart

SeedsSpec == SeedsInit /\ [][SeedsNext]_seedVars

-----------------------------------------------------------------------------
SeedsTypeOK ==
    /\ {channels, rows, marker, gone} \subseteq SUBSET Seeds
    /\ boot \in [todo : SUBSET Seeds, seeded : SUBSET Seeds, added : SUBSET Seeds, done : BOOLEAN]
    /\ boots \in 1..MaxBoots

\* Of the channels the marker file names: one that is neither listed nor saved has
\* been deleted for good, whatever stops and failed writes follow.  A channel that
\* is deleted while its mark is not yet written (the process stopped, or a write
\* failed, between the two files) is not covered, and a later start creates it anew.
MarkedStaysDeleted ==
    [][\A ch \in marker : ch \notin channels \cup rows => ch \notin channels']_seedVars
=============================================================================
