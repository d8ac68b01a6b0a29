---------------------------- MODULE LinearEngine ----------------------------
(***************************************************************************)
(* The linear-TV engine of search/linear_epg.go: channel definitions and   *)
(* one schedule per channel behind the engine's mutex, readers that extend *)
(* a schedule when it stops short of the horizon, owners' requests that    *)
(* save and delete channels, and the JSON files a restart comes back from. *)
(*                                                                         *)
(* Every critical section of ensureWindow is an action, and so is every    *)
(* stretch between two of them: the mutex is released while the source     *)
(* libraries are fetched and while the fill runs, which is where readers,  *)
(* the owners and a restart interleave.  A definition is reduced to what    *)
(* revision() fingerprints (its rules) and its enabled flag; a pool to the *)
(* durations it yields in rotation order; a programme to its times, the    *)
(* rules it was picked under and its place in the rotation.                *)
(***************************************************************************)
EXTENDS GuideSeq

CONSTANTS
    Channels,     \* channel ids
    Readers,      \* requests in flight: Guide, NowPlaying, Channels, Health
    Owners,       \* requests of the owner in flight: SaveChannel, DeleteChannel
    Rules,        \* definition revisions
    Lineups,      \* [Rules -> sets of pools]; a pool is a sequence of durations
    Day,          \* length of the channel's local day
    EPG,          \* EPGDays: how far ahead of now the guide must reach
    Past,         \* pastBuffer: how long an ended programme is kept
    Grid,         \* SlotMinutes; 0 for none
    MaxSlots,     \* linearMaxSlots: the most programmes one fill lays
    MaxTime, MaxEdits, MaxRestarts,   \* bounds of the model
    None,         \* an absent map entry or file
    Torn,         \* a file that does not parse
    Unsure        \* see settled

Definition == [rules : Rules, enabled : BOOLEAN]
Program    == [start : Nat, end : Nat, rules : Rules, ord : Nat]
Schedule   == [revision : Rules, cursor : Nat, programs : Seq(Program)]
ChannelList == [Channels -> Definition \cup {None}]    \* what ChannelDefs returns

ASSUME ConstantsAssumption ==
    /\ Channels # {} /\ Rules # {}
    /\ Lineups \in [Rules -> SUBSET Seq(Nat \ {0})]
    /\ Day \in Nat \ {0}
    /\ EPG \in Nat \ {0}
    /\ {Past, Grid, MaxSlots, MaxTime, MaxEdits, MaxRestarts} \subseteq Nat
    /\ None \notin Definition \cup Schedule
    /\ Torn \notin Schedule \cup ChannelList \cup {None}
    /\ Unsure \notin Definition \cup {None}

VARIABLES
    now,           \* the engine's clock
    channels,      \* e.channels
    schedules,     \* e.schedules
    wedged,        \* e.mu is held by a goroutine that panicked and is gone
    pc, req,       \* where each reader is in ensureWindow, and its locals
    owner,         \* the owner's requests: idle, or what each has left to write
    channelsFile,  \* channels.json
    schedFile,     \* sched-<id>.json
    settled,       \* history: the definition of a channel that a write nobody
                   \* overlapped has brought to disk; Unsure from an edit on until
                   \* such a write, and everywhere once two writes have overlapped
    edits, restarts

vars == <<now, channels, schedules, wedged, pc, req, owner, channelsFile,
          schedFile, settled, edits, restarts>>
memory == <<channels, schedules>>
files  == <<channelsFile, schedFile, settled>>
counts == <<edits, restarts>>

NoChannels == [c \in Channels |-> None]
Idle == [step |-> "idle", chan |-> CHOOSE c \in Channels : TRUE,
         deletes |-> FALSE, list |-> NoChannels, alone |-> FALSE]
Fresh(c, d, t) ==
    [chan |-> c, def |-> d, asked |-> t, lineup |-> <<>>, slot |-> 0,
     cursor |-> 0, added |-> <<>>, doc |-> None]
NoRequest == Fresh(CHOOSE c \in Channels : TRUE,
                   [rules |-> CHOOSE x \in Rules : TRUE, enabled |-> FALSE], 0)

Steps == {"idle", "examine", "pool", "plan", "fill", "commit", "prune",
          "tidy", "persist", "write", "answer"}

(***************************************************************************)
(* Time.                                                                   *)
(***************************************************************************)
Horizon(t) == t + EPG
\* (slip: the defensive step back by a day, taken always)
GenesisDayBefore(t) == t - Day
Genesis(t) == t - (t % Day)     \* linearGenesis: the last local midnight
Later(a, b) == IF a > b THEN a ELSE b

\* How far a programme of length d moves the fill: up to the next grid slot.
Advance(d) == IF Grid = 0 \/ d % Grid = 0 THEN d ELSE d + Grid - (d % Grid)

Programs(c) == IF schedules[c] = None THEN <<>> ELSE schedules[c].programs
\* (slip: covered as soon as there is anything)
CoveredIfAny(s, t) == s # <<>>
Covered(s, t) == s # <<>> /\ LastEnd(s) >= Horizon(t)

Init ==
    /\ now = 0
    /\ channels = NoChannels
    /\ schedules = [c \in Channels |-> None]
    /\ wedged = FALSE
    /\ pc = [r \in Readers |-> "idle"]
    /\ req = [r \in Readers |-> NoRequest]
    /\ owner = [o \in Owners |-> Idle]
    /\ channelsFile = NoChannels
    /\ schedFile = [c \in Channels |-> None]
    /\ settled = NoChannels
    /\ edits = 0
    /\ restarts = 0

Tick == /\ now < MaxTime
        /\ now' = now + 1
        /\ UNCHANGED <<memory, wedged, pc, req, owner, files, counts>>

(***************************************************************************)
(* ensureWindow, one reader at a time through it.                          *)
(***************************************************************************)
Goto(r, label) == pc' = [pc EXCEPT ![r] = label]
SetLocals(r, q) == req' = [req EXCEPT ![r] = q]
Reading(r, label) == pc[r] = label /\ ~wedged

\* The definition is copied out under the read lock; a channel that is not
\* there is an error for the caller and changes nothing.
ReadDefinition(r, c) ==
    /\ Reading(r, "idle")
    /\ channels[c] # None
    /\ SetLocals(r, Fresh(c, channels[c], now))
    /\ Goto(r, "examine")
    /\ UNCHANGED <<now, memory, wedged, owner, files, counts>>

\* First critical section: create the schedule, stamp the revision, and see
\* whether there is anything to generate.
Examine(r) ==
    LET c == req[r].chan
        d == req[r].def
        st == IF schedules[c] = None
              THEN [revision |-> d.rules, cursor |-> 0, programs |-> <<>>]
              ELSE [schedules[c] EXCEPT !.revision = d.rules]
    IN  /\ Reading(r, "examine")
        /\ schedules' = [schedules EXCEPT ![c] = st]
        /\ Goto(r, IF Covered(st.programs, req[r].asked) THEN "tidy"
                   ELSE IF d.enabled THEN "pool" ELSE "answer")
        /\ UNCHANGED <<now, channels, wedged, req, owner, files, counts>>

\* The libraries are asked with the mutex released.  What comes back is one of
\* the pools the rules can yield: everything, what the libraries that answered
\* or their stale copies hold, or nothing.
FetchPool(r) ==
    /\ Reading(r, "pool")
    /\ \E lineup \in Lineups[req[r].def.rules] :
          SetLocals(r, [req[r] EXCEPT !.lineup = lineup])
    /\ Goto(r, "plan")
    /\ UNCHANGED <<now, memory, wedged, owner, files, counts>>

\* A method call on the schedule of a channel that was deleted meanwhile: the
\* nil dereference panics with the mutex held, net/http recovers the handler,
\* and nobody unlocks.
PanicHoldingLock(r) ==
    /\ wedged' = TRUE
    /\ Goto(r, "idle")
    /\ SetLocals(r, NoRequest)
    /\ UNCHANGED <<now, memory, owner, files, counts>>

\* Leave ensureWindow with the schedule as it is: there is nothing to play, and
\* a library blip must not erase a guide, or another reader was faster.
\* (slip: an early return that forgets to unlock)
LeaveAsIsLocked(r) ==
    /\ wedged' = TRUE
    /\ Goto(r, "answer")
    /\ SetLocals(r, Fresh(req[r].chan, req[r].def, req[r].asked))
    /\ UNCHANGED <<now, memory, owner, files, counts>>

LeaveAsIs(r) ==
    /\ Goto(r, "answer")
    /\ SetLocals(r, Fresh(req[r].chan, req[r].def, req[r].asked))
    /\ UNCHANGED <<now, memory, wedged, owner, files, counts>>

\* Second critical section: where the fill starts, and from which cursor.
Plan(r) ==
    LET c == req[r].chan
        q == req[r]
        from == IF Programs(c) = <<>> THEN Genesis(q.asked)
                ELSE Later(Genesis(q.asked), LastEnd(Programs(c)))
    IN  /\ Reading(r, "plan")
        /\ \/ /\ schedules[c] = None
              /\ PanicHoldingLock(r)
           \/ /\ schedules[c] # None
              /\ q.lineup = <<>>
              /\ LeaveAsIs(r)
           \/ /\ schedules[c] # None
              /\ q.lineup # <<>>
              /\ Goto(r, "fill")
              /\ SetLocals(r, [q EXCEPT !.slot = from,
                                        !.cursor = schedules[c].cursor])
              /\ UNCHANGED <<now, memory, wedged, owner, files, counts>>

\* linearFill, one pass of its loop: the next item of the rotation goes into
\* the slot, and the slot moves on by its length rounded up to the grid.
MoreToFill(q) == q.slot < Horizon(q.asked) /\ Len(q.added) < MaxSlots

FillSlot(r) ==
    LET q == req[r]
        duration == q.lineup[(q.cursor % Len(q.lineup)) + 1]
        programme == [start |-> q.slot, end |-> q.slot + duration,
                      rules |-> q.def.rules, ord |-> q.cursor]
    IN  /\ Reading(r, "fill")
        /\ MoreToFill(q)
        /\ SetLocals(r, [q EXCEPT !.added = Append(@, programme),
                                  !.cursor = @ + 1,
                                  !.slot = @ + Advance(duration)])
        /\ UNCHANGED <<now, memory, wedged, pc, owner, files, counts>>

FillDone(r) ==
    /\ Reading(r, "fill")
    /\ ~MoreToFill(req[r])
    /\ Goto(r, "commit")
    /\ UNCHANGED <<now, memory, wedged, req, owner, files, counts>>

\* Third critical section.  A fill that starts before the schedule now ends is
\* thrown away: another reader extended the channel first.
\* (slip: no re-check under the lock)
OvertakenNever(s, added) == FALSE
Overtaken(s, added) == s # <<>> /\ added # <<>> /\ added[1].start < LastEnd(s)

Commit(r) ==
    LET c == req[r].chan
        q == req[r]
    IN  /\ Reading(r, "commit")
        /\ \/ /\ schedules[c] = None
              /\ PanicHoldingLock(r)
           \/ /\ schedules[c] # None
              /\ Overtaken(Programs(c), q.added)
              /\ LeaveAsIs(r)
           \/ /\ schedules[c] # None
              /\ ~Overtaken(Programs(c), q.added)
              /\ schedules' = [schedules EXCEPT
                                 ![c].programs = @ \o q.added,
                                 ![c].cursor = q.cursor]
              /\ Goto(r, "prune")
              /\ SetLocals(r, Fresh(c, q.def, q.asked))
              /\ UNCHANGED <<now, channels, wedged, owner, files, counts>>

\* prune: drop from the front what ended before the past buffer of the moment
\* the request was made.  k is where the loop stops.
PrunedAt(s, k, t) ==
    /\ k \in 0..Len(s)
    /\ \A i \in 1..k : s[i].end + Past <= t
    /\ k < Len(s) => s[k+1].end + Past > t

Prune(r) ==
    LET c == req[r].chan IN
    /\ pc[r] \in {"prune", "tidy"} /\ ~wedged
    /\ \E k \in 0..Len(Programs(c)) :
          /\ PrunedAt(Programs(c), k, req[r].asked)
          /\ schedules' = IF k = 0 THEN schedules ELSE
                [schedules EXCEPT ![c].programs = SubSeq(@, k + 1, Len(@))]
          /\ Goto(r, IF pc[r] = "prune" \/ k > 0 THEN "persist" ELSE "answer")
    /\ UNCHANGED <<now, channels, wedged, req, owner, files, counts>>

\* persistSchedule copies the schedule under the read lock ...
SnapshotForDisk(r) ==
    LET st == schedules[req[r].chan] IN
    /\ Reading(r, "persist")
    /\ SetLocals(r, [req[r] EXCEPT !.doc = st])
    /\ Goto(r, IF st = None THEN "answer" ELSE "write")
    /\ UNCHANGED <<now, memory, wedged, owner, files, counts>>

\* ... and writes it without: to one fixed temporary name, then a rename.  Two
\* writers of one channel share that name, so the first may rename what the
\* second has half written, and any of them may fail, which is only logged.
WriteSchedule(r) ==
    LET c == req[r].chan
        shared == \E q \in Readers \ {r} : pc[q] = "write" /\ req[q].chan = c
    IN  /\ pc[r] = "write"
        /\ \E content \in {req[r].doc, schedFile[c]} \cup
                          (IF shared THEN {Torn} ELSE {}) :
              schedFile' = [schedFile EXCEPT ![c] = content]
        /\ SetLocals(r, [req[r] EXCEPT !.doc = None])
        /\ Goto(r, "answer")
        /\ UNCHANGED <<now, memory, wedged, owner, channelsFile, settled, counts>>

\* snapshot: what the reader is answered is the schedule at this instant.
Answer(r) ==
    /\ Reading(r, "answer")
    /\ Goto(r, "idle")
    /\ SetLocals(r, NoRequest)
    /\ UNCHANGED <<now, memory, wedged, owner, files, counts>>

(***************************************************************************)
(* The owner's requests.  Each changes the definitions under the mutex,    *)
(* lets it go, lists them under the read lock and writes the list without: *)
(* several can be anywhere in between.  A definition Validate refuses, or  *)
(* a number already taken, changes nothing and is no step of the model.    *)
(***************************************************************************)
\* SaveChannel: an edit that changes the revision keeps what has started and
\* forgets where the rotation was.  kept is the length of that prefix.
Edited(st, d, kept) ==
    IF st = None \/ st.revision = d.rules THEN st
    ELSE [revision |-> d.rules, cursor |-> 0,
          programs |-> SubSeq(st.programs, 1, kept)]

\* (slip: what is on air is dropped with the future)
EndedUpTo(s, k, t) ==
    /\ k \in 0..Len(s)
    /\ \A i \in 1..k : s[i].end <= t
    /\ \A i \in k+1..Len(s) : s[i].end > t

StartedUpTo(s, k, t) ==
    /\ k \in 0..Len(s)
    /\ \A i \in 1..k : s[i].start <= t
    /\ \A i \in k+1..Len(s) : s[i].start > t

Edits(o, c, removes) ==
    /\ owner[o].step = "idle" /\ ~wedged /\ edits < MaxEdits
    /\ owner' = [owner EXCEPT ![o] = [Idle EXCEPT !.step = "list", !.chan = c,
                                                  !.deletes = removes]]
    /\ settled' = [settled EXCEPT ![c] = Unsure]
    /\ edits' = edits + 1
    /\ UNCHANGED <<now, wedged, pc, req, channelsFile, schedFile, restarts>>

SaveChannel(o, c, d) ==
    /\ Edits(o, c, FALSE)
    /\ channels' = [channels EXCEPT ![c] = d]
    /\ \E kept \in 0..Len(Programs(c)) :
          /\ StartedUpTo(Programs(c), kept, now)
          /\ schedules' = [schedules EXCEPT ![c] = Edited(@, d, kept)]

DeleteChannel(o, c) ==
    /\ Edits(o, c, TRUE)
    /\ channels' = [channels EXCEPT ![c] = None]
    /\ schedules' = [schedules EXCEPT ![c] = None]

\* persist lists the definitions under the read lock.  alone: whether no other
\* request holds a list, from here to the write.
Holders == {o \in Owners : owner[o].step = "write"}

\* (slip: a request that finds another one writing leaves it to that one)
ListChannelsOnce(o) ==
    /\ owner[o].step = "list" /\ ~wedged
    /\ IF Holders = {}
       THEN /\ owner' = [owner EXCEPT ![o].step = "write", ![o].list = channels,
                                      ![o].alone = TRUE]
            /\ UNCHANGED settled
       ELSE /\ owner' = [owner EXCEPT ![o] = Idle]
            /\ settled' = [settled EXCEPT ![owner[o].chan] = channels[owner[o].chan]]
    /\ UNCHANGED <<now, memory, wedged, pc, req, channelsFile, schedFile, counts>>

ListChannels(o) ==
    /\ owner[o].step = "list" /\ ~wedged
    /\ owner' = [p \in Owners |->
                    IF p = o THEN [owner[o] EXCEPT !.step = "write",
                                                   !.list = channels,
                                                   !.alone = Holders = {}]
                    ELSE [owner[p] EXCEPT !.alone = FALSE]]
    /\ UNCHANGED <<now, memory, wedged, pc, req, files, counts>>

\* ... and writes the list under one fixed temporary name, then renames it.  A
\* write that nobody overlaps succeeds or changes nothing; of those that overlap
\* the older list can come last, and a rename can publish what another request
\* has half written.  SaveChannel returns the error, DeleteChannel drops it.
WriteSucceeds(o) ==
    /\ owner[o].alone
    /\ channelsFile' = owner[o].list
    /\ settled' = [c \in Channels |->
                      IF \E p \in Owners \ {o} : owner[p].step = "list" /\ owner[p].chan = c
                      THEN Unsure ELSE owner[o].list[c]]

WriteFails(o) == owner[o].alone /\ UNCHANGED <<channelsFile, settled>>

WritesOverlap(o) ==
    /\ ~owner[o].alone
    /\ channelsFile' \in {owner[p].list : p \in Holders} \cup {channelsFile, Torn}
    /\ settled' = [c \in Channels |-> Unsure]

WriteChannels(o) ==
    /\ owner[o].step = "write"
    /\ WriteSucceeds(o) \/ WriteFails(o) \/ WritesOverlap(o)
    /\ owner' = [owner EXCEPT ![o] =
                    IF @.deletes THEN [Idle EXCEPT !.step = "remove", !.chan = owner[o].chan]
                    ELSE Idle]
    /\ UNCHANGED <<now, memory, wedged, pc, req, schedFile, counts>>

RemoveScheduleFile(o) ==
    /\ owner[o].step = "remove"
    /\ schedFile' = [schedFile EXCEPT ![owner[o].chan] = None]
    /\ owner' = [owner EXCEPT ![o] = Idle]
    /\ UNCHANGED <<now, memory, wedged, pc, req, channelsFile, settled, counts>>

(***************************************************************************)
(* The process dies and comes back: load() reads channels.json and, for    *)
(* the channels in it, the schedule files that parse and are in order.  A  *)
(* channels.json that does not parse is an engine without channels.        *)
(***************************************************************************)
LoadedChannels == IF channelsFile = Torn THEN NoChannels ELSE channelsFile

Loaded(c) ==
    LET st == schedFile[c] IN
    IF LoadedChannels[c] = None \/ st \in {None, Torn} THEN None
    ELSE IF CheckOrdering(st.programs) THEN st ELSE None

Restart ==
    /\ restarts < MaxRestarts
    /\ restarts' = restarts + 1
    /\ channels' = LoadedChannels
    /\ schedules' = [c \in Channels |-> Loaded(c)]
    /\ wedged' = FALSE
    /\ pc' = [r \in Readers |-> "idle"]
    /\ req' = [r \in Readers |-> NoRequest]
    /\ owner' = [o \in Owners |-> Idle]
    /\ UNCHANGED <<now, files, edits>>

ReaderStep(r) ==
    \/ Examine(r) \/ FetchPool(r) \/ Plan(r) \/ FillSlot(r) \/ FillDone(r)
    \/ Commit(r) \/ Prune(r) \/ SnapshotForDisk(r) \/ WriteSchedule(r)
    \/ Answer(r)

OwnerRequest(o, c) ==
    (\E d \in Definition : SaveChannel(o, c, d)) \/ DeleteChannel(o, c)

OwnerStep(o) == ListChannels(o) \/ WriteChannels(o) \/ RemoveScheduleFile(o)

Next ==
    \/ Tick
    \/ \E r \in Readers : \/ ReaderStep(r)
                          \/ \E c \in Channels : ReadDefinition(r, c)
    \/ \E o \in Owners : \/ OwnerStep(o)
                         \/ \E c \in Channels : OwnerRequest(o, c)
    \/ Restart

Spec == Init /\ [][Next]_vars

\* A started request keeps running: net/http gives it a goroutine, and every
\* library call is bounded by its context.
FairSpec == Spec /\ \A r \in Readers : WF_vars(ReaderStep(r))

-----------------------------------------------------------------------------
Request == [chan : Channels, def : Definition, asked : Nat,
            lineup : Seq(Nat \ {0}), slot : Nat, cursor : Nat,
            added : Seq(Program), doc : Schedule \cup {None}]
OwnerState == [step : {"idle", "list", "write", "remove"}, chan : Channels,
               deletes : BOOLEAN, list : ChannelList, alone : BOOLEAN]

TypeOK ==
    /\ now \in Nat
    /\ channels \in ChannelList
    /\ schedules \in [Channels -> Schedule \cup {None}]
    /\ wedged \in BOOLEAN
    /\ pc \in [Readers -> Steps]
    /\ req \in [Readers -> Request]
    /\ owner \in [Owners -> OwnerState]
    /\ channelsFile \in ChannelList \cup {Torn}
    /\ schedFile \in [Channels -> Schedule \cup {None, Torn}]
    /\ settled \in [Channels -> Definition \cup {None, Unsure}]
    /\ edits \in Nat /\ restarts \in Nat

\* The invariant "written down once" in linearCheckOrdering, on every schedule
\* in memory and on every file that parses: however requests, edits, deletions
\* and restarts interleave, no viewer is ever shown two programmes at once.
ScheduleOrdered ==
    /\ \A c \in Channels : Ordered(Programs(c))
    /\ \A c \in Channels :
          schedFile[c] \notin {None, Torn} => Ordered(schedFile[c].programs)

\* Why it holds, request by request: what a reader at a step has filled so far
\* is in order and ends by the slot it will fill next, it only fills from a pool
\* that has something in it, and the copy it is about to write is in order.
RequestInOrder(step, q) ==
    /\ step = "fill" => q.lineup # <<>>
    /\ step \notin {"fill", "commit"} => q.added = <<>>
    /\ Ordered(q.added)
    /\ \A i \in 1..Len(q.added) : q.added[i].end <= q.slot
    /\ q.doc # None => Ordered(q.doc.programs)

\* The inductive invariant behind ScheduleOrdered: types, schedules, and what
\* every request carries from one critical section of ensureWindow to the next.
EngineInvariant ==
    /\ TypeOK
    /\ ScheduleOrdered
    /\ \A r \in Readers : RequestInOrder(pc[r], req[r])

\* The engine keeps the promise of the abstract guide: append-only until an
\* edit, a deletion or a restart, and forgetting only after the past buffer.
Listed == [c \in Channels |-> Programs(c)]
Guide == INSTANCE SharedGuide WITH boots <- restarts, guide <- Listed
KeepsGuidePromise == Guide!Spec

\* An answer that follows a fill always has a programme on air: a channel that
\* was extended, or found covered, is never in a hole, whichever reader did it.
\* Claimed for engines without a slot grid, whose channels are not edited.
SomethingOnAir ==
    \A r \in Readers :
        /\ pc[r] \in {"persist", "write"}
        /\ now < Horizon(req[r].asked)
        => AiringAt(Programs(req[r].chan), now) # {}

\* Once a write of channels.json that nobody overlapped has succeeded, every edit
\* made before it is what memory holds and what a restart loads, until the next
\* edit of that channel or until two writes overlap: a list read a moment too
\* early, a write that fails, a request cut short and a restart never undo it.
AcknowledgedEditsAreOnDisk ==
    \A c \in Channels : settled[c] # Unsure =>
        /\ channels[c] = settled[c]
        /\ channelsFile # Torn
        /\ channelsFile[c] = settled[c]

\* Guide: "One bad channel does not empty the grid".  A request about one
\* channel never leaves the engine locked for all of them.
OneBadChannelDoesNotEmptyTheGrid == ~wedged

\* A request that was admitted is answered, and the mutex is free again.
EveryRequestAnswered ==
    \A r \in Readers : pc[r] # "idle" ~> pc[r] = "idle"
=============================================================================
