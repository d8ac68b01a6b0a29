----------------------------- MODULE SearchCache -----------------------------
(***************************************************************************)
(* One key of the search cache: the entry in memory and its file           *)
(* (main.go, cache_disk.go), filled by callers that collapse onto one      *)
(* request (searchArchiveCached and searchArchiveMusicCached).             *)
(*                                                                         *)
(* A card is the releases it offers; puts are numbered in the order of     *)
(* their expiry times, which memory's lock gives them.                     *)
(***************************************************************************)
EXTENDS Integers, FiniteSets

CONSTANTS
    Callers,
    Releases,        \* what upstream can have under this key
    CacheTTL,        \* ttl, in ticks
    Ancient,         \* evictLoop's 24 hours, in ticks
    NoEntry, NoCaller,
    MaxPuts, MaxReboots, MaxUnread   \* bounds of the model

ASSUME CacheAssumption ==
    /\ NoCaller \notin Callers
    /\ {CacheTTL, Ancient, MaxPuts, MaxReboots, MaxUnread} \subseteq Nat
    /\ CacheTTL > 0
    /\ NoEntry \notin [cards : SUBSET Releases, put : Nat, left : Int, history : SUBSET Releases]

VARIABLES
    memory,   \* cache[k]: its cards, the number of its put, ticks until it expires
    disk,     \* its file: likewise, and the history
    caller,   \* per caller: where it is, and the entry it is writing
    flight,   \* inflight[k]: the leader that will close it
    puts,
    reboots,
    unread    \* history: files that were there and could not be read back

cacheVars == <<memory, disk, caller, flight, puts, reboots, unread>>

Resting == [at |-> "idle", entry |-> NoEntry]

CacheInit ==
    /\ memory = NoEntry
    /\ disk = NoEntry
    /\ caller = [c \in Callers |-> Resting]
    /\ flight = NoCaller
    /\ puts = 0
    /\ reboots = 0
    /\ unread = 0

-----------------------------------------------------------------------------
\* getCached: a stale entry in memory hides the file.
Fresh(entry) == entry # NoEntry /\ entry.left >= 0
Cached == IF memory # NoEntry THEN Fresh(memory) ELSE Fresh(disk)

\* getAny: anything there ever was, the history of the file last.
HasAny == memory # NoEntry \/ disk # NoEntry

\* A caller's return; the deferred release of a leader closes its channel, and
\* whoever waits on it wakes.  (slip: an early return does not release)
GoneUnreleased(c) ==
    /\ caller' = [caller EXCEPT ![c] = Resting]
    /\ UNCHANGED flight
Gone(c) ==
    /\ flight' = IF flight = c THEN NoCaller ELSE flight
    /\ caller' = [d \in Callers |->
           IF d = c THEN Resting
           ELSE IF flight = c /\ caller[d].at = "waiting" THEN [Resting EXCEPT !.at = "woken"]
           ELSE caller[d]]

Look(c) ==
    /\ caller[c].at = "idle" /\ ~Cached
    /\ caller' = [caller EXCEPT ![c].at = "missed"]
    /\ UNCHANGED <<memory, disk, flight, puts, reboots, unread>>

\* claim
Claim(c) ==
    /\ caller[c].at = "missed"
    /\ flight' = IF flight = NoCaller THEN c ELSE flight
    /\ caller' = [caller EXCEPT ![c].at = IF flight = NoCaller THEN "asking" ELSE "waiting"]
    /\ UNCHANGED <<memory, disk, puts, reboots, unread>>

\* A follower takes whatever is there; after a leader that failed it asks too,
\* without a flight of its own.
Woken(c) ==
    /\ caller[c].at = "woken"
    /\ IF HasAny THEN Gone(c)
       ELSE /\ caller' = [caller EXCEPT ![c].at = "asking"]
            /\ UNCHANGED flight
    /\ UNCHANGED <<memory, disk, puts, reboots, unread>>

\* Upstream fails, has nothing, or the caller's time is up.
AskFails(c) ==
    /\ caller[c].at \in {"asking", "waiting"}
    /\ Gone(c)
    /\ UNCHANGED <<memory, disk, puts, reboots, unread>>

\* putCached: memory under its lock, the file after it.
PutCached(c, cards) ==
    LET entry == [cards |-> cards, put |-> puts + 1, left |-> CacheTTL] IN
    /\ caller[c].at = "asking" /\ puts < MaxPuts
    /\ puts' = puts + 1
    /\ memory' = entry
    /\ caller' = [caller EXCEPT ![c] = [at |-> "writing", entry |-> entry]]
    /\ UNCHANGED <<disk, flight, reboots, unread>>

\* archiveSearchCards, of a card that both have.
ArchiveSearchCards(latest, prior) == latest \cup prior

\* What writeDiskCache makes of the old file, as it read it: NoEntry where there
\* was none or it could not be read.  (slip: the last writer wins)
MergedLast(entry, old) ==
    [cards |-> entry.cards, put |-> entry.put, left |-> entry.left,
     history |-> IF old = NoEntry THEN entry.cards
                 ELSE ArchiveSearchCards(entry.cards, old.history)]
MergedEntry(entry, old) ==
    LET newer == IF old # NoEntry /\ old.put > entry.put THEN old ELSE entry
    IN  [cards |-> newer.cards, put |-> newer.put, left |-> newer.left,
         history |-> IF old = NoEntry THEN entry.cards
                     ELSE ArchiveSearchCards(entry.cards, old.history)]

\* writeDiskCache, one at a time; a write that fails leaves the old file.
WriteDiskCache(c) ==
    /\ caller[c].at = "writing"
    /\ \E old \in {disk, NoEntry} :
          /\ unread' = IF old = disk THEN unread ELSE unread + 1
          /\ unread' <= MaxUnread
          /\ disk' \in {disk, MergedEntry(caller[c].entry, old)}
    /\ Gone(c)
    /\ UNCHANGED <<memory, puts, reboots>>

-----------------------------------------------------------------------------
Older(entry) == IF entry = NoEntry THEN NoEntry
                ELSE [entry EXCEPT !.left = IF @ > -Ancient THEN @ - 1 ELSE @]

CacheTick ==
    /\ memory' = Older(memory)
    /\ disk' = Older(disk)
    /\ caller' = [c \in Callers |-> [caller[c] EXCEPT !.entry = Older(@)]]
    /\ UNCHANGED <<flight, puts, reboots, unread>>

\* evictLoop: memory only, and only what is long past serving as a fallback.
Evict ==
    /\ memory # NoEntry /\ memory.left = -Ancient
    /\ memory' = NoEntry
    /\ UNCHANGED <<disk, caller, flight, puts, reboots, unread>>

CacheRestart ==
    /\ reboots < MaxReboots
    /\ reboots' = reboots + 1
    /\ memory' = NoEntry
    /\ caller' = [c \in Callers |-> Resting]
    /\ flight' = NoCaller
    /\ UNCHANGED <<disk, puts, unread>>

CacheStep(c) ==
    \/ Claim(c) \/ Woken(c) \/ AskFails(c) \/ WriteDiskCache(c)
    \/ \E cards \in SUBSET Releases \ {{}} : PutCached(c, cards)

CacheNext ==
    \/ \E c \in Callers : Look(c) \/ CacheStep(c)
    \/ CacheTick \/ Evict \/ CacheRestart

CacheSpec == CacheInit /\ [][CacheNext]_cacheVars

\* Goroutines run, and upstream calls end within their timeouts.  Nothing is
\* assumed of the patience of a follower: only its leader's.
CacheProgress(c) == caller[c].at # "waiting" /\ CacheStep(c)
CacheFairness == \A c \in Callers : WF_cacheVars(CacheProgress(c))

-----------------------------------------------------------------------------
Entries == [cards : SUBSET Releases \ {{}}, put : 1..MaxPuts, left : -Ancient..CacheTTL]

CacheTypeOK ==
    /\ memory \in Entries \cup {NoEntry}
    /\ disk = NoEntry \/ disk \in [cards : SUBSET Releases \ {{}}, put : 1..MaxPuts,
                                   left : -Ancient..CacheTTL, history : SUBSET Releases]
    /\ caller \in [Callers -> [at : {"idle", "missed", "waiting", "woken", "asking", "writing"},
                               entry : Entries \cup {NoEntry}]]
    /\ flight \in Callers \cup {NoCaller}
    /\ flight \in Callers => caller[flight].at \in {"asking", "writing"}   \* a leader leads
    /\ puts \in 0..MaxPuts /\ reboots \in 0..MaxReboots /\ unread \in 0..MaxUnread

\* "A slower writer cannot replace a more recent successful response" and
\* "Retain every distinct source": in whatever order callers reach the disk, and
\* through evictions and restarts, a file that can be read gains and never goes
\* back.  (One that cannot is replaced, history and all.)
DiskNeverGoesBack ==
    [][disk # NoEntry /\ unread' = unread =>
          /\ disk' # NoEntry
          /\ disk'.put >= disk.put
          /\ disk.history \subseteq disk'.history]_cacheVars

\* "Concurrent callers for the same query collapse onto one request": nobody
\* is left waiting on a leader that failed, gave up or was never there.
EveryFollowerWakes == \A c \in Callers : caller[c].at = "waiting" ~> caller[c].at # "waiting"
=============================================================================
