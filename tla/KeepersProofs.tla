---------------------------- MODULE KeepersProofs ----------------------------
(***************************************************************************)
(* What the search service keeps between requests, for any number of       *)
(* viewers, callers, programmes, channels, accounts and players: files do  *)
(* not go back, pools do not shrink, deleted channels stay away, revoked   *)
(* tokens stop working, and an item costs archive.org one request for as   *)
(* long as its answer is kept.                                             *)
(***************************************************************************)
EXTENDS MCKeepers, FiniteSetTheorems, TLAPS

-----------------------------------------------------------------------------
(* The viewers' library.                                                   *)

LEMMA LibraryStays == LibraryTypeOK /\ [LibraryNext]_libraryVars => LibraryTypeOK'
<1> SUFFICES ASSUME LibraryTypeOK, [LibraryNext]_libraryVars PROVE LibraryTypeOK'
  OBVIOUS
<1>1. /\ library \in [Viewers -> UserData] /\ dirty \in BOOLEAN /\ failed \in BOOLEAN
      /\ raw \in [Viewers -> UserData] \cup {Nothing}
      /\ file \in [Viewers -> UserData] \cup {Nothing} /\ stops \in 0..MaxStops
  BY DEF LibraryTypeOK
<1>2. ASSUME NEW v \in Viewers, NEW data \in UserData, Changed(v, data) PROVE LibraryTypeOK'
  BY <1>1, <1>2 DEF Changed, LibraryTypeOK
<1>3. ASSUME NEW v \in Viewers, NEW s \in Spellings, AddItem(v, s) \/ RemoveItem(v, s)
      PROVE  LibraryTypeOK'
  <2>1. PICK t \in Titles : t = Normal[s]
    BY <1>3, LibraryAssumption DEF AddItem, RemoveItem
  <2>2. library[v] \in UserData
    BY <1>1
  <2>3. /\ [library[v] EXCEPT !.items = @ \cup {t}] \in UserData
        /\ [library[v] EXCEPT !.items = @ \ {t}] \in UserData
    BY <2>2 DEF UserData
  <2> QED BY <1>2, <1>3, <2>1, <2>3 DEF AddItem, RemoveItem
<1>4. ASSUME NEW v \in Viewers, NEW s \in Spellings, NEW p \in Reports, SetProgress(v, s, p)
      PROVE  LibraryTypeOK'
  <2>1. PICK t \in Titles : t = Normal[s]
    BY <1>4, LibraryAssumption DEF SetProgress
  <2>2. /\ library[v] \in UserData
        /\ library[v].progress \in [Titles -> Reports \cup {Nothing}]
    BY <1>1 DEF UserData
  <2>3. Merged(library[v].progress[t], p) \in Reports
    <3>1. library[v].progress[t] \in Reports \cup {Nothing}
      BY <2>2
    <3>2. ASSUME NEW prev \in Reports PROVE [p EXCEPT !.duration = @ \/ prev.duration] \in Reports
      <4>1. p.duration \in BOOLEAN /\ prev.duration \in BOOLEAN
        BY DEF Reports
      <4>2. (p.duration \/ prev.duration) \in BOOLEAN
        OBVIOUS
      <4> QED BY <4>2 DEF Reports
    <3> QED BY <3>1, <3>2 DEF Merged
  <2>4. PICK m \in Reports : m = Merged(library[v].progress[t], p)
    BY <2>3
  <2>5. Changed(v, [library[v] EXCEPT !.progress[t] = m])
    BY <1>4, <2>1, <2>4 DEF SetProgress
  <2>6. [library[v] EXCEPT !.progress[t] = m] \in UserData
    <3>1. PICK w \in [Titles -> Reports \cup {Nothing}] : w = [library[v].progress EXCEPT ![t] = m]
      BY <2>2
    <3>2. [library[v] EXCEPT !.progress[t] = m] = [library[v] EXCEPT !.progress = w]
      BY <3>1
    <3> QED BY <2>2, <3>2 DEF UserData
  <2> QED BY <1>2, <2>5, <2>6
<1>5. CASE Flush \/ Flushed \/ FlushFails
  BY <1>1, <1>5 DEF Flush, Flushed, FlushFails, LibraryTypeOK
<1>6. CASE LibraryRestart
  <2>1. NewUser \in UserData
    BY DEF NewUser, UserData
  <2>2. OnDisk \in [Viewers -> UserData]
    BY <1>1, <2>1 DEF OnDisk, EmptyLibrary
  <2>3. stops' \in 0..MaxStops
    BY <1>1, <1>6, LibraryAssumption DEF LibraryRestart
  <2>4. /\ library' = OnDisk /\ dirty' = FALSE /\ raw' = Nothing /\ failed' = FALSE
        /\ UNCHANGED file
    BY <1>6 DEF LibraryRestart
  <2> QED BY <1>1, <2>2, <2>3, <2>4 DEF LibraryTypeOK
<1>7. CASE UNCHANGED libraryVars
  BY <1>1, <1>7 DEF libraryVars, LibraryTypeOK
<1> QED BY <1>3, <1>4, <1>5, <1>6, <1>7 DEF LibraryNext

LEMMA LibraryInitially == LibraryInit => LibraryTypeOK
<1>1. NewUser \in UserData
  BY DEF NewUser, UserData
<1>2. EmptyLibrary \in [Viewers -> UserData]
  BY <1>1 DEF EmptyLibrary
<1>3. 0 \in 0..MaxStops
  BY LibraryAssumption
<1> QED BY <1>2, <1>3 DEF LibraryInit, LibraryTypeOK

-----------------------------------------------------------------------------
(* The search cache.                                                       *)

FileEntries == [cards : SUBSET Releases \ {{}}, put : 1..MaxPuts,
                left : -Ancient..CacheTTL, history : SUBSET Releases]
Caller == [at : {"idle", "missed", "waiting", "woken", "asking", "writing"},
           entry : Entries \cup {NoEntry}]

\* A caller that writes has an entry to write.
CacheInvariant ==
    CacheTypeOK /\ \A c \in Callers : caller[c].at = "writing" => caller[c].entry \in Entries

LEMMA CacheLimits ==
    /\ NoCaller \notin Callers /\ NoEntry \notin FileEntries
    /\ {CacheTTL, Ancient, MaxPuts, MaxReboots, MaxUnread} \subseteq Nat /\ CacheTTL > 0
<1>1. /\ NoCaller \notin Callers /\ {CacheTTL, Ancient, MaxPuts, MaxReboots, MaxUnread} \subseteq Nat
      /\ CacheTTL > 0
      /\ NoEntry \notin [cards : SUBSET Releases, put : Nat, left : Int, history : SUBSET Releases]
  BY CacheAssumption
<1>2. FileEntries \subseteq
          [cards : SUBSET Releases, put : Nat, left : Int, history : SUBSET Releases]
  BY <1>1 DEF FileEntries
<1> QED BY <1>1, <1>2

LEMMA OlderIsAnEntry ==
    /\ \A e \in Entries \cup {NoEntry} : Older(e) \in Entries \cup {NoEntry}
    /\ \A e \in Entries : Older(e) \in Entries \cup {NoEntry} /\ (e # NoEntry => Older(e) \in Entries)
    /\ \A e \in FileEntries : /\ Older(e) \in FileEntries /\ Older(e) # NoEntry
                              /\ Older(e).put = e.put /\ Older(e).history = e.history
<1>1. ASSUME NEW e \in Entries, e # NoEntry PROVE Older(e) \in Entries
  BY <1>1, CacheLimits DEF Older, Entries
<1>2. ASSUME NEW e \in FileEntries
      PROVE  /\ Older(e) \in FileEntries /\ Older(e) # NoEntry
             /\ Older(e).put = e.put /\ Older(e).history = e.history
  <2>1. e # NoEntry /\ e.left \in -Ancient..CacheTTL
    BY CacheLimits DEF FileEntries
  <2>2. PICK left \in -Ancient..CacheTTL :
            left = IF e.left > -Ancient THEN e.left - 1 ELSE e.left
    BY <2>1, CacheLimits
  <2>3. Older(e) = [e EXCEPT !.left = left]
    BY <2>1, <2>2 DEF Older
  <2>4. [e EXCEPT !.left = left] \in FileEntries
    BY <2>2 DEF FileEntries
  <2> QED BY <2>3, <2>4, CacheLimits DEF FileEntries
<1>3. Older(NoEntry) = NoEntry
  BY DEF Older
<1> QED BY <1>1, <1>2, <1>3

\* A caller that returns: its flight, if it leads one, is over.
LEMMA GoneIsTyped ==
    ASSUME CacheInvariant, NEW c \in Callers, Gone(c)
    PROVE  /\ caller' \in [Callers -> Caller] /\ flight' \in Callers \cup {NoCaller}
           /\ flight' \in Callers => caller'[flight'].at \in {"asking", "writing"}
           /\ \A d \in Callers : caller'[d].at = "writing" => caller'[d].entry \in Entries
<1>1. /\ caller \in [Callers -> Caller] /\ flight \in Callers \cup {NoCaller}
      /\ flight \in Callers => caller[flight].at \in {"asking", "writing"}
      /\ \A d \in Callers : caller[d].at = "writing" => caller[d].entry \in Entries
  BY DEF CacheInvariant, CacheTypeOK, Caller
<1>2. /\ flight' = (IF flight = c THEN NoCaller ELSE flight)
      /\ caller' = [d \in Callers |->
             IF d = c THEN Resting
             ELSE IF flight = c /\ caller[d].at = "waiting" THEN [Resting EXCEPT !.at = "woken"]
             ELSE caller[d]]
  BY DEF Gone
<1>3. /\ Resting \in Caller /\ [Resting EXCEPT !.at = "woken"] \in Caller
      /\ Resting.at = "idle" /\ [Resting EXCEPT !.at = "woken"].at = "woken"
  BY DEF Resting, Caller
<1>4. caller' \in [Callers -> Caller]
  BY <1>1, <1>2, <1>3
<1>5. \A d \in Callers : caller'[d].at \in {"asking", "writing"} =>
          d # c /\ caller'[d] = caller[d]
  BY <1>2, <1>3
<1>6. \A d \in Callers : d # c /\ flight # c => caller'[d] = caller[d]
  BY <1>2
<1> QED BY <1>1, <1>2, <1>4, <1>5, <1>6, CacheLimits

\* Steps that only move callers.
LEMMA CallersMove ==
    ASSUME CacheInvariant, UNCHANGED <<memory, disk, puts, reboots, unread>>,
           caller' \in [Callers -> Caller], flight' \in Callers \cup {NoCaller},
           flight' \in Callers => caller'[flight'].at \in {"asking", "writing"},
           \A d \in Callers : caller'[d].at = "writing" => caller'[d].entry \in Entries
    PROVE  CacheInvariant'
BY DEF CacheInvariant, CacheTypeOK, Caller

LEMMA OneCallerMoves ==
    ASSUME CacheInvariant, NEW c \in Callers, NEW at \in {"missed", "waiting", "asking"},
           caller' = [caller EXCEPT ![c].at = at], caller[c].at \notin {"asking", "writing"},
           \/ flight' = flight
           \/ flight' = c /\ at = "asking",
           UNCHANGED <<memory, disk, puts, reboots, unread>>
    PROVE  CacheInvariant'
<1>1. /\ caller \in [Callers -> Caller] /\ flight \in Callers \cup {NoCaller}
      /\ flight \in Callers => caller[flight].at \in {"asking", "writing"}
      /\ \A d \in Callers : caller[d].at = "writing" => caller[d].entry \in Entries
  BY DEF CacheInvariant, CacheTypeOK, Caller
<1>2. PICK r \in Caller : r = [caller[c] EXCEPT !.at = at] /\ r.at = at
  BY <1>1 DEF Caller
<1>3. caller' = [caller EXCEPT ![c] = r]
  BY <1>2
<1>4. caller' \in [Callers -> Caller]
  BY <1>1, <1>3
<1>5. \A d \in Callers : caller'[d] = IF d = c THEN r ELSE caller[d]
  BY <1>1, <1>3
<1> QED BY <1>1, <1>2, <1>4, <1>5, CallersMove

LEMMA CacheStepKeeps ==
    ASSUME CacheInvariant, NEW c \in Callers, Look(c) \/ Claim(c) \/ Woken(c) \/ AskFails(c)
    PROVE  CacheInvariant' /\ UNCHANGED disk
<1>1. CASE Look(c)
  BY <1>1, OneCallerMoves DEF Look
<1>2. CASE Claim(c)
  <2>1. PICK at \in {"asking", "waiting"} : at = IF flight = NoCaller THEN "asking" ELSE "waiting"
    OBVIOUS
  <2>2. /\ caller' = [caller EXCEPT ![c].at = at] /\ caller[c].at = "missed"
        /\ flight' = flight \/ (flight' = c /\ at = "asking")
        /\ UNCHANGED <<memory, disk, puts, reboots, unread>>
    BY <1>2, <2>1 DEF Claim
  <2> QED BY <2>1, <2>2, OneCallerMoves
<1>3. CASE Woken(c)
  <2>1. CASE HasAny
    BY <1>3, <2>1, GoneIsTyped, CallersMove DEF Woken
  <2>2. CASE ~HasAny
    BY <1>3, <2>2, OneCallerMoves DEF Woken
  <2> QED BY <2>1, <2>2
<1>4. CASE AskFails(c)
  BY <1>4, GoneIsTyped, CallersMove DEF AskFails
<1> QED BY <1>1, <1>2, <1>3, <1>4

LEMMA PutKeeps ==
    ASSUME CacheInvariant, NEW c \in Callers, NEW cards \in SUBSET Releases \ {{}},
           PutCached(c, cards)
    PROVE  CacheInvariant' /\ UNCHANGED disk
<1>1. PICK e : e = [cards |-> cards, put |-> puts + 1, left |-> CacheTTL]
  OBVIOUS
<1>2. /\ caller[c].at = "asking" /\ puts < MaxPuts /\ puts' = puts + 1 /\ memory' = e
      /\ caller' = [caller EXCEPT ![c] = [at |-> "writing", entry |-> e]]
      /\ UNCHANGED <<disk, flight, reboots, unread>>
  BY <1>1 DEF PutCached
<1>3. /\ caller \in [Callers -> Caller] /\ puts \in 0..MaxPuts
      /\ flight \in Callers => caller[flight].at \in {"asking", "writing"}
      /\ \A d \in Callers : caller[d].at = "writing" => caller[d].entry \in Entries
  BY DEF CacheInvariant, CacheTypeOK, Caller
<1>4. e \in Entries
  BY <1>1, <1>2, <1>3, CacheLimits DEF Entries
<1>5. [at |-> "writing", entry |-> e] \in Caller
  BY <1>4 DEF Caller
<1>6. /\ caller' \in [Callers -> Caller]
      /\ \A d \in Callers : caller'[d] = IF d = c THEN [at |-> "writing", entry |-> e]
                                         ELSE caller[d]
  BY <1>2, <1>3, <1>5
<1>7. puts' \in 0..MaxPuts
  BY <1>2, <1>3, CacheLimits
<1> QED BY <1>2, <1>3, <1>4, <1>6, <1>7 DEF CacheInvariant, CacheTypeOK, Caller

\* What is written is an entry of the file, and no older than the one it replaces.
LEMMA MergedGoesOn ==
    ASSUME CacheInvariant, NEW e \in Entries, NEW old \in {disk, NoEntry}
    PROVE  /\ MergedEntry(e, old) \in FileEntries
           /\ old # NoEntry => /\ MergedEntry(e, old).put >= old.put
                               /\ old.history \subseteq MergedEntry(e, old).history
<1>1. old = NoEntry \/ old \in FileEntries
  BY DEF CacheInvariant, CacheTypeOK, FileEntries
<1>2. /\ e.cards \in SUBSET Releases \ {{}} /\ e.put \in 1..MaxPuts /\ e.left \in -Ancient..CacheTTL
  BY DEF Entries
<1>3. CASE old = NoEntry
  <2>1. MergedEntry(e, old) = [cards |-> e.cards, put |-> e.put, left |-> e.left,
                               history |-> e.cards]
    BY <1>3 DEF MergedEntry
  <2> QED BY <1>2, <1>3, <2>1 DEF FileEntries
<1>4. CASE old # NoEntry
  <2>1. /\ old.cards \in SUBSET Releases \ {{}} /\ old.put \in 1..MaxPuts
        /\ old.left \in -Ancient..CacheTTL /\ old.history \in SUBSET Releases
    BY <1>1, <1>4 DEF FileEntries
  <2>2. (e.cards \cup old.history) \in SUBSET Releases
    BY <1>2, <2>1
  <2>3. CASE old.put > e.put
    <3>1. MergedEntry(e, old) = [cards |-> old.cards, put |-> old.put, left |-> old.left,
                            history |-> e.cards \cup old.history]
      BY <1>4, <2>3 DEF MergedEntry, ArchiveSearchCards
    <3> QED BY <2>1, <2>2, <3>1 DEF FileEntries
  <2>4. CASE ~(old.put > e.put)
    <3>1. MergedEntry(e, old) = [cards |-> e.cards, put |-> e.put, left |-> e.left,
                            history |-> e.cards \cup old.history]
      BY <1>4, <2>4 DEF MergedEntry, ArchiveSearchCards
    <3>2. e.put >= old.put
      BY <1>2, <2>1, <2>4, CacheLimits
    <3> QED BY <1>2, <2>1, <2>2, <3>1, <3>2 DEF FileEntries
  <2> QED BY <2>3, <2>4
<1> QED BY <1>3, <1>4

\* The file gains, unless a write could not read it.
DiskGains == disk # NoEntry /\ unread' = unread =>
                /\ disk' # NoEntry /\ disk'.put >= disk.put /\ disk.history \subseteq disk'.history

LEMMA DiskStays == ASSUME CacheInvariant, UNCHANGED disk PROVE DiskGains
BY CacheLimits DEF CacheInvariant, CacheTypeOK, DiskGains

LEMMA WriteKeeps ==
    ASSUME CacheInvariant, NEW c \in Callers, WriteDiskCache(c)
    PROVE  CacheInvariant' /\ DiskGains
<1>1. /\ caller[c].entry \in Entries /\ Gone(c) /\ UNCHANGED <<memory, puts, reboots>>
      /\ unread \in 0..MaxUnread
  BY DEF WriteDiskCache, CacheInvariant, CacheTypeOK
<1>2. PICK old \in {disk, NoEntry} :
          /\ unread' = (IF old = disk THEN unread ELSE unread + 1) /\ unread' <= MaxUnread
          /\ disk' \in {disk, MergedEntry(caller[c].entry, old)}
  BY DEF WriteDiskCache
<1>3. unread' \in 0..MaxUnread /\ (unread' = unread => old = disk)
  BY <1>1, <1>2, CacheLimits
<1>4. (disk' = NoEntry \/ disk' \in FileEntries) /\ DiskGains
  <2>1. CASE disk' = disk
    BY <2>1, DiskStays DEF CacheInvariant, CacheTypeOK, FileEntries
  <2>2. CASE disk' = MergedEntry(caller[c].entry, old)
    BY <1>1, <1>3, <2>2, MergedGoesOn, CacheLimits DEF DiskGains
  <2> QED BY <1>2, <2>1, <2>2
<1> QED BY <1>1, <1>3, <1>4, GoneIsTyped DEF CacheInvariant, CacheTypeOK, Caller, FileEntries

LEMMA CacheTimeKeeps ==
    ASSUME CacheInvariant, CacheTick \/ Evict \/ CacheRestart
    PROVE  CacheInvariant' /\ DiskGains
<1>1. CASE CacheTick
  <2>1. /\ memory' = Older(memory) /\ disk' = Older(disk)
        /\ UNCHANGED <<flight, puts, reboots, unread>>
        /\ caller' = [c \in Callers |-> [caller[c] EXCEPT !.entry = Older(@)]]
        /\ caller \in [Callers -> Caller]
        /\ disk = NoEntry \/ disk \in FileEntries
    BY <1>1 DEF CacheTick, CacheInvariant, CacheTypeOK, Caller, FileEntries
  <2>2. memory' \in Entries \cup {NoEntry}
    BY <2>1, OlderIsAnEntry DEF CacheInvariant, CacheTypeOK
  <2>3. (disk' = NoEntry \/ disk' \in FileEntries) /\ DiskGains
    <3>1. CASE disk = NoEntry
      BY <2>1, <3>1 DEF Older, DiskGains
    <3>2. CASE disk \in FileEntries
      <4>1. /\ disk' \in FileEntries /\ disk' # NoEntry
            /\ disk'.put = disk.put /\ disk'.history = disk.history /\ disk.put \in Nat
        BY <2>1, <3>2, OlderIsAnEntry DEF FileEntries
      <4> QED BY <4>1 DEF DiskGains
    <3> QED BY <2>1, <3>1, <3>2
  <2>4. ASSUME NEW c \in Callers
        PROVE  /\ [caller[c] EXCEPT !.entry = Older(@)] \in Caller
               /\ [caller[c] EXCEPT !.entry = Older(@)].at = caller[c].at
               /\ caller[c].at = "writing" => [caller[c] EXCEPT !.entry = Older(@)].entry \in Entries
    <3>1. caller[c] \in Caller /\ (caller[c].at = "writing" => caller[c].entry \in Entries)
      BY <2>1 DEF CacheInvariant
    <3>2. Older(caller[c].entry) \in Entries \cup {NoEntry}
      BY <3>1, OlderIsAnEntry DEF Caller
    <3>3. caller[c].entry \in Entries => Older(caller[c].entry) \in Entries
      BY OlderIsAnEntry DEF Older
    <3> QED BY <3>1, <3>2, <3>3 DEF Caller
  <2>5. caller' \in [Callers -> Caller]
    BY <2>1, <2>4
  <2>6. \A c \in Callers : caller'[c].at = caller[c].at
                           /\ (caller'[c].at = "writing" => caller'[c].entry \in Entries)
    BY <2>1, <2>4
  <2> QED BY <2>1, <2>2, <2>3, <2>5, <2>6 DEF CacheInvariant, CacheTypeOK, Caller, FileEntries
<1>2. CASE Evict
  <2>1. CacheInvariant'
    BY <1>2 DEF Evict, CacheInvariant, CacheTypeOK
  <2> QED BY <1>2, <2>1, DiskStays DEF Evict
<1>3. CASE CacheRestart
  <2>1. Resting \in Caller /\ Resting.at = "idle"
    BY DEF Resting, Caller
  <2>2. /\ caller' = [c \in Callers |-> Resting] /\ flight' = NoCaller /\ memory' = NoEntry
        /\ reboots < MaxReboots /\ reboots' = reboots + 1
        /\ UNCHANGED <<disk, puts, unread>>
    BY <1>3 DEF CacheRestart
  <2>3. reboots' \in 0..MaxReboots
    BY <2>2, CacheLimits DEF CacheInvariant, CacheTypeOK
  <2>4. /\ caller' \in [Callers -> Caller] /\ flight' \notin Callers
        /\ \A c \in Callers : caller'[c].at # "writing"
    BY <2>1, <2>2, CacheLimits
  <2>5. CacheInvariant'
    BY <2>2, <2>3, <2>4 DEF CacheInvariant, CacheTypeOK, Caller
  <2> QED BY <2>2, <2>5, DiskStays
<1> QED BY <1>1, <1>2, <1>3

LEMMA CacheInitially == CacheInit => CacheInvariant
<1> SUFFICES ASSUME CacheInit PROVE CacheInvariant
  OBVIOUS
<1>1. Resting \in Caller /\ Resting.at = "idle"
  BY DEF Resting, Caller
<1>2. /\ memory = NoEntry /\ disk = NoEntry /\ caller = [c \in Callers |-> Resting]
      /\ flight = NoCaller /\ puts = 0 /\ reboots = 0 /\ unread = 0
  BY DEF CacheInit
<1> QED BY <1>1, <1>2, CacheLimits DEF CacheInvariant, CacheTypeOK, Caller

LEMMA CacheStays == CacheInvariant /\ [CacheNext]_cacheVars => CacheInvariant' /\ DiskGains
<1> SUFFICES ASSUME CacheInvariant, [CacheNext]_cacheVars PROVE CacheInvariant' /\ DiskGains
  OBVIOUS
<1>1. ASSUME NEW c \in Callers, Look(c) \/ CacheStep(c) PROVE CacheInvariant' /\ DiskGains
  BY <1>1, CacheStepKeeps, PutKeeps, WriteKeeps, DiskStays DEF CacheStep
<1>2. CASE UNCHANGED cacheVars
  <2>1. CacheInvariant' /\ UNCHANGED disk
    BY <1>2 DEF CacheInvariant, CacheTypeOK, cacheVars
  <2> QED BY <2>1, DiskStays
<1> QED BY <1>1, <1>2, CacheTimeKeeps DEF CacheNext

\* In whatever order any number of callers reach the disk, and through failed
\* writes, evictions and restarts, a file of the search cache neither goes back to
\* an older answer nor loses a source it had, unless the write that replaces it
\* could not read it (writeDiskCache).
THEOREM FilesNeverGoBack == CacheSpec => DiskNeverGoesBack
<1>1. CacheSpec => []CacheInvariant
  BY CacheInitially, CacheStays, PTL DEF CacheSpec
<1>2. CacheInvariant /\ [CacheNext]_cacheVars =>
        [disk # NoEntry /\ unread' = unread =>
            /\ disk' # NoEntry /\ disk'.put >= disk.put
            /\ disk.history \subseteq disk'.history]_cacheVars
  BY CacheStays DEF DiskGains
<1> QED BY <1>1, <1>2, PTL DEF CacheSpec, DiskNeverGoesBack

-----------------------------------------------------------------------------
(* The pool of an archive.org collection.                                  *)

LEMMA PoolLimits ==
    /\ IsFiniteSet(Programmes)
    /\ {FirstLight, PublishEvery, PoolTTL, RetryMax, MaxFailures} \subseteq Nat \ {0}
BY PoolAssumption

LEMMA BackoffIsBounded == \A n \in Nat : Backoff(n) \in 1..RetryMax
BY PoolLimits DEF Backoff

LEMMA PoolsCount ==
    ASSUME NEW items \in SUBSET Programmes
    PROVE  Cardinality(items) \in Nat
BY PoolLimits, FS_Subset, FS_CardinalityType

\* Unless the refresh lands, what is served does not shrink.
NoShrinking == building' => Cardinality(pool.items) <= Cardinality(pool'.items)

LEMMA PoolStays == PoolTypeOK /\ [PoolNext]_poolVars => PoolTypeOK' /\ NoShrinking
<1> SUFFICES ASSUME PoolTypeOK, [PoolNext]_poolVars PROVE PoolTypeOK' /\ NoShrinking
  OBVIOUS
<1> DEFINE Crawl == [at : {"none", "search", "items"}, done : SUBSET Programmes,
                     found : SUBSET Programmes]
<1>1. /\ pool \in [some : BOOLEAN, items : SUBSET Programmes] /\ crawl \in Crawl
      /\ partials \in SUBSET SUBSET Programmes /\ archive \in SUBSET Services
      /\ age \in 0..PoolTTL /\ failures \in 0..MaxFailures /\ nextTry \in 0..RetryMax
      /\ Cardinality(pool.items) \in Nat
  BY PoolsCount DEF PoolTypeOK
<1>2. NoCrawl \in Crawl /\ NoCrawl.at = "none" /\ [NoCrawl EXCEPT !.at = "search"] \in Crawl
  BY DEF NoCrawl
<1>3. pool' = pool => NoShrinking
  BY <1>1 DEF NoShrinking
<1>4. CASE ReadPool
  BY <1>1, <1>2, <1>3, <1>4 DEF ReadPool, PoolTypeOK
<1>5. CASE SearchFails
  <2>1. /\ failures' = (IF failures < MaxFailures THEN failures + 1 ELSE failures)
        /\ nextTry' = Backoff(failures') /\ crawl' = NoCrawl
        /\ UNCHANGED <<pool, age, partials, archive>>
    BY <1>5 DEF SearchFails
  <2>2. failures' \in 0..MaxFailures /\ failures' \in Nat
    BY <1>1, <2>1, PoolLimits
  <2>3. nextTry' \in 0..RetryMax
    BY <2>1, <2>2, BackoffIsBounded, PoolLimits
  <2> QED BY <1>1, <1>2, <1>3, <2>1, <2>2, <2>3 DEF PoolTypeOK
<1>6. CASE SearchAnswers
  <2>1. [crawl EXCEPT !.at = "items"] \in Crawl
    BY <1>1
  <2> QED BY <1>1, <1>3, <1>6, <2>1 DEF SearchAnswers, PoolTypeOK
<1>7. ASSUME NEW p \in Programmes, ItemFor(p) PROVE PoolTypeOK' /\ NoShrinking
  <2>1. PICK done \in SUBSET Programmes : done = crawl.done \cup {p}
    BY <1>1
  <2>2. PICK found \in SUBSET Programmes :
            found = IF "metadata" \in archive THEN crawl.found \cup {p} ELSE crawl.found
    BY <1>1
  <2>3. /\ crawl' = [crawl EXCEPT !.done = done, !.found = found]
        /\ partials' = (IF Ready(Cardinality(done)) /\ found # {}
                        THEN partials \cup {found} ELSE partials)
        /\ UNCHANGED <<pool, age, failures, nextTry, archive>>
    BY <1>7, <2>1, <2>2 DEF ItemFor
  <2>4. crawl' \in Crawl /\ partials' \in SUBSET SUBSET Programmes
    BY <1>1, <2>3
  <2> QED BY <1>1, <1>3, <2>3, <2>4 DEF PoolTypeOK
<1>8. ASSUME NEW items \in SUBSET Programmes, PublishPartial(items)
      PROVE  PoolTypeOK' /\ NoShrinking
  <2>1. /\ partials' = partials \ {items} /\ UNCHANGED <<age, failures, nextTry, crawl, archive>>
        /\ pool' = IF Cardinality(items) <= Cardinality(pool.items) THEN pool
                   ELSE [some |-> TRUE, items |-> items]
    BY <1>8 DEF PublishPartial
  <2>2. Cardinality(items) \in Nat
    BY PoolsCount
  <2>3. Cardinality(pool.items) <= Cardinality(pool'.items)
    BY <1>1, <2>1, <2>2
  <2> QED BY <1>1, <2>1, <2>3 DEF PoolTypeOK, NoShrinking
<1>9. CASE RefreshLands
  <2>1. /\ pool' = [some |-> TRUE, items |-> crawl.found] /\ age' = 0 /\ failures' = 0
        /\ nextTry' = 0 /\ crawl' = NoCrawl /\ UNCHANGED <<partials, archive>>
    BY <1>9 DEF RefreshLands
  <2>2. ~building'
    BY <1>2, <2>1 DEF building
  <2> QED BY <1>1, <1>2, <2>1, <2>2, PoolLimits DEF PoolTypeOK, NoShrinking
<1>10. CASE PoolTick
  <2>1. /\ age' = (IF age < PoolTTL THEN age + 1 ELSE age)
        /\ nextTry' = (IF nextTry > 0 THEN nextTry - 1 ELSE 0)
        /\ UNCHANGED <<pool, failures, crawl, partials, archive>>
    BY <1>10 DEF PoolTick
  <2>2. age' \in 0..PoolTTL /\ nextTry' \in 0..RetryMax
    BY <1>1, <2>1, PoolLimits
  <2> QED BY <1>1, <1>3, <2>1, <2>2 DEF PoolTypeOK
<1>11. CASE ArchiveChanges
  BY <1>1, <1>3, <1>11 DEF ArchiveChanges, PoolTypeOK
<1>12. CASE UNCHANGED poolVars
  BY <1>1, <1>3, <1>12 DEF poolVars, PoolTypeOK
<1> QED BY <1>4, <1>5, <1>6, <1>7, <1>8, <1>9, <1>10, <1>11, <1>12 DEF PoolNext, CrawlStep

LEMMA PoolInitially == PoolInit => PoolTypeOK
BY PoolLimits DEF PoolInit, PoolTypeOK, NoCrawl

\* However large the collection and in whatever order snapshots of it are
\* published, viewers are not left with less to watch until a refresh is over
\* (publishPartial).
THEOREM PoolsNeverShrink == PoolSpec => PartialsNeverShrink
<1>1. PoolSpec => []PoolTypeOK
  BY PoolInitially, PoolStays, PTL DEF PoolSpec
<1>2. PoolTypeOK /\ [PoolNext]_poolVars =>
        [building' => Cardinality(pool.items) <= Cardinality(pool'.items)]_poolVars
  BY PoolStays DEF NoShrinking
<1> QED BY <1>1, <1>2, PTL DEF PoolSpec, PartialsNeverShrink

-----------------------------------------------------------------------------
(* The seeded channels.                                                    *)

\* What is marked on disk is marked in the process that is seeding.
SeedsInvariant == SeedsTypeOK /\ marker \subseteq boot.seeded

\* A marked channel without a row stays away.
DeletedStays == \A ch \in marker : ch \notin channels \cup rows => ch \notin channels'

LEMMA SeedsStay == SeedsInvariant /\ [SeedsNext]_seedVars => SeedsInvariant' /\ DeletedStays
<1> SUFFICES ASSUME SeedsInvariant, [SeedsNext]_seedVars PROVE SeedsInvariant' /\ DeletedStays
  OBVIOUS
<1> DEFINE Boots == [todo : SUBSET Seeds, seeded : SUBSET Seeds, added : SUBSET Seeds,
                     done : BOOLEAN]
<1>1. /\ channels \subseteq Seeds /\ rows \subseteq Seeds /\ marker \subseteq Seeds
      /\ gone \subseteq Seeds /\ boot \in Boots /\ boots \in 1..MaxBoots
      /\ marker \subseteq boot.seeded
  BY DEF SeedsInvariant, SeedsTypeOK
<1>2. ASSUME NEW ch \in Seeds, SeedSkipped(ch) PROVE SeedsInvariant' /\ DeletedStays
  <2>1. PICK todo \in SUBSET Seeds : todo = boot.todo \ {ch}
    BY <1>1
  <2>2. boot' = [boot EXCEPT !.todo = todo] /\ UNCHANGED <<channels, rows, marker, boots, gone>>
    BY <1>2, <2>1 DEF SeedSkipped
  <2>3. boot' \in Boots /\ boot'.seeded = boot.seeded
    BY <1>1, <2>2
  <2> QED BY <1>1, <2>2, <2>3 DEF SeedsInvariant, SeedsTypeOK, DeletedStays
<1>3. ASSUME NEW ch \in Seeds, SeedCreated(ch) PROVE SeedsInvariant' /\ DeletedStays
  <2>1. PICK todo \in SUBSET Seeds : todo = boot.todo \ {ch}
    BY <1>1
  <2>2. PICK added \in SUBSET Seeds : added = boot.added \cup {ch}
    BY <1>1
  <2>3. PICK seeded \in SUBSET Seeds : seeded = boot.seeded \cup {ch}
    BY <1>1
  <2>4. /\ ch \notin boot.seeded /\ channels' = channels \cup {ch} /\ rows' \in {channels', rows}
        /\ \/ boot' = [boot EXCEPT !.todo = todo, !.added = added, !.seeded = seeded]
           \/ boot' = [boot EXCEPT !.todo = todo]
        /\ UNCHANGED <<marker, boots, gone>>
    BY <1>3, <2>1, <2>2, <2>3 DEF SeedCreated, Persist
  <2>5. boot' \in Boots /\ boot.seeded \subseteq boot'.seeded
    BY <1>1, <2>3, <2>4
  <2>6. ch \notin marker
    BY <1>1, <2>4
  <2> QED BY <1>1, <2>4, <2>5, <2>6 DEF SeedsInvariant, SeedsTypeOK, DeletedStays
<1>4. CASE SeedingDone
  <2>1. /\ marker' \in {marker, boot.seeded} /\ boot' = [boot EXCEPT !.done = TRUE]
        /\ UNCHANGED <<channels, rows, boots, gone>>
    BY <1>4 DEF SeedingDone
  <2>2. boot' \in Boots /\ boot'.seeded = boot.seeded /\ boot.seeded \subseteq Seeds
    BY <1>1, <2>1
  <2> QED BY <1>1, <2>1, <2>2 DEF SeedsInvariant, SeedsTypeOK, DeletedStays
<1>5. ASSUME NEW ch \in Seeds, DeleteSeed(ch) PROVE SeedsInvariant' /\ DeletedStays
  BY <1>1, <1>5 DEF DeleteSeed, Persist, SeedsInvariant, SeedsTypeOK, DeletedStays
<1>6. CASE SeedsRestart
  <2>1. /\ boots < MaxBoots /\ boots' = boots + 1 /\ channels' = rows /\ boot' = Booting(marker)
        /\ UNCHANGED <<rows, marker, gone>>
    BY <1>6 DEF SeedsRestart
  <2>2. boot' \in Boots /\ boot'.seeded = marker
    BY <1>1, <2>1 DEF Booting
  <2>3. boots' \in 1..MaxBoots
    BY <1>1, <2>1, SeedsAssumption
  <2> QED BY <1>1, <2>1, <2>2, <2>3 DEF SeedsInvariant, SeedsTypeOK, DeletedStays
<1>7. CASE UNCHANGED seedVars
  BY <1>1, <1>7 DEF seedVars, SeedsInvariant, SeedsTypeOK, DeletedStays
<1> QED BY <1>2, <1>3, <1>4, <1>5, <1>6, <1>7 DEF SeedsNext

LEMMA SeedsInitially == SeedsInit => SeedsInvariant
BY SeedsAssumption DEF SeedsInit, SeedsInvariant, SeedsTypeOK, Booting

\* Of the channels that the marker file names, for any number of them, restarts and
\* failed writes: one that is neither listed nor saved is never created again
\* (SeedNostalgiaChannels).  A channel whose mark never reached the file is not
\* covered: a later start does create it again.
THEOREM DeletedSeedsStayDeleted == SeedsSpec => MarkedStaysDeleted
<1>1. SeedsSpec => []SeedsInvariant
  BY SeedsInitially, SeedsStay, PTL DEF SeedsSpec
<1>2. SeedsInvariant /\ [SeedsNext]_seedVars =>
        [\A ch \in marker : ch \notin channels \cup rows => ch \notin channels']_seedVars
  BY SeedsStay DEF DeletedStays
<1> QED BY <1>1, <1>2, PTL DEF SeedsSpec, MarkedStaysDeleted

-----------------------------------------------------------------------------
(* Who a request is from.                                                  *)

Asked == [at : {"idle", "reading", "answered", "granted"}, old : BOOLEAN,
          sess : Sessions \cup {Nobody}, passed : BOOLEAN]
Remembered(ttl) == [sess : Sessions \cup {Nobody}, left : 0..ttl]

\* How long a request has been under way, in ticks at most.
Underway(r) == IF r.old THEN 1 ELSE 0

\* What may still let a token through that is not good any more: an answer on
\* its way, one that is remembered, and a request that was granted.
TokenIsRunningOut(t) ==
    /\ t \in approved => away[t] = 0
    /\ request[t].at = "answered" /\ request[t].sess # Nobody => away[t] <= Underway(request[t])
    /\ bearer[t].left > 0 /\ bearer[t].sess # Nobody => away[t] + bearer[t].left <= BearerTTL + 1
    /\ request[t].at = "granted" => away[t] <= BearerTTL + Underway(request[t])

AccountsInvariant == AccountsTypeOK /\ \A t \in Televisions : TokenIsRunningOut(t)

LEMMA AccountLimits ==
    /\ SubjectOf \in [Browsers \cup Televisions -> Subjects] /\ Browsers \cap Televisions = {}
    /\ BearerTTL \in Nat \ {0} /\ SessionTTL \in Nat /\ MaxAway \in Nat /\ SecretKept \in BOOLEAN
BY AccountsAssumption

LEMMA AccountTypes ==
    ASSUME AccountsTypeOK
    PROVE  /\ name \in [Subjects -> Names] /\ approved \subseteq Televisions
           /\ away \in [Televisions -> 0..MaxAway]
           /\ cookie \in [Browsers -> Remembered(SessionTTL)]
           /\ bearer \in [Televisions -> Remembered(BearerTTL)]
           /\ request \in [Clients -> Asked]
           /\ Idle \in Asked /\ Idle.at = "idle" /\ \A ttl \in Nat : Empty \in Remembered(ttl)
BY DEF AccountsTypeOK, Remembered, Asked, Idle, Empty

LEMMA ClaimsAreSessions ==
    ASSUME NEW c
    PROVE  Claims(c) \subseteq Sessions
BY DEF Claims

\* Steps that leave televisions' credentials alone, and whose request, if it is
\* granted or answered, was so before.
LEMMA QuietForTokens ==
    ASSUME AccountsInvariant, UNCHANGED <<approved, away, bearer>>, AccountsTypeOK',
           \A t \in Televisions :
              \/ request'[t] = request[t]
              \/ request'[t].at \in {"idle", "reading"}
    PROVE  AccountsInvariant'
<1>1. ASSUME NEW t \in Televisions PROVE TokenIsRunningOut(t)'
  BY DEF AccountsInvariant, TokenIsRunningOut, Underway
<1> QED BY <1>1 DEF AccountsInvariant

LEMMA ProviderKeeps ==
    ASSUME AccountsInvariant,
           \/ \E a \in Subjects, n \in Names : Rename(a, n)
           \/ \E t \in Televisions : Revoke(t) \/ Approve(t)
    PROVE  AccountsInvariant'
<1>1. AccountsTypeOK
  BY DEF AccountsInvariant
<1>2. ASSUME NEW a \in Subjects, NEW n \in Names, Rename(a, n) PROVE AccountsInvariant'
  <2>1. AccountsTypeOK'
    BY <1>1, <1>2 DEF Rename, AccountsTypeOK
  <2> QED BY <1>2, <2>1, QuietForTokens DEF Rename
<1>3. ASSUME NEW t \in Televisions, Revoke(t) PROVE AccountsInvariant'
  <2>1. approved' = approved \ {t} /\ UNCHANGED <<name, away, cookie, bearer, request>>
    BY <1>3 DEF Revoke
  <2>2. AccountsTypeOK'
    BY <1>1, <2>1 DEF AccountsTypeOK
  <2>3. ASSUME NEW u \in Televisions PROVE TokenIsRunningOut(u)'
    BY <2>1 DEF AccountsInvariant, TokenIsRunningOut, Underway
  <2> QED BY <2>2, <2>3 DEF AccountsInvariant
<1>4. ASSUME NEW t \in Televisions, Approve(t) PROVE AccountsInvariant'
  <2>1. /\ approved' = approved \cup {t} /\ away' = [away EXCEPT ![t] = 0]
        /\ UNCHANGED <<name, cookie, bearer, request>>
    BY <1>4 DEF Approve
  <2>2. AccountsTypeOK'
    <3>1. away' \in [Televisions -> 0..MaxAway]
      BY <1>1, <2>1, AccountTypes, AccountLimits
    <3> QED BY <1>1, <2>1, <3>1 DEF AccountsTypeOK
  <2>3. ASSUME NEW u \in Televisions PROVE TokenIsRunningOut(u)'
    <3>1. CASE u = t
      <4>1. away'[u] = 0
        BY <1>1, <2>1, <3>1, AccountTypes
      <4>2. bearer[u].left \in 0..BearerTTL
        BY <1>1, AccountTypes DEF Remembered
      <4> QED BY <2>1, <4>1, <4>2, AccountLimits DEF TokenIsRunningOut, Underway
    <3>2. CASE u # t
      BY <1>1, <2>1, <3>2, AccountTypes DEF AccountsInvariant, TokenIsRunningOut, Underway
    <3> QED BY <3>1, <3>2
  <2> QED BY <2>2, <2>3 DEF AccountsInvariant
<1> QED BY <1>2, <1>3, <1>4

LEMMA BrowsersKeep ==
    ASSUME AccountsInvariant, NEW b \in Browsers, SignIn(b) \/ SignOut(b)
    PROVE  AccountsInvariant'
<1>1. AccountsTypeOK /\ Claims(b) \subseteq Sessions
  BY ClaimsAreSessions DEF AccountsInvariant
<1>2. \A s \in Claims(b) : [sess |-> s, left |-> SessionTTL] \in Remembered(SessionTTL)
  BY <1>1, AccountLimits DEF Remembered
<1>3. cookie' \in [Browsers -> Remembered(SessionTTL)]
  BY <1>1, <1>2, AccountTypes, AccountLimits DEF SignIn, SignOut
<1>4. UNCHANGED <<name, approved, away, bearer, request>>
  BY DEF SignIn, SignOut
<1>5. AccountsTypeOK'
  BY <1>1, <1>3, <1>4 DEF AccountsTypeOK, Remembered
<1> QED BY <1>4, <1>5, QuietForTokens

\* Where a decision leaves a request.
LEMMA Decided ==
    ASSUME AccountsTypeOK, NEW c \in Clients, NEW s, Decide(c, s)
    PROVE  /\ request' \in [Clients -> Asked]
           /\ request'[c].at = "granted" => s # Nobody
           /\ request'[c].at \in {"idle", "reading", "granted"}
           /\ \A d \in Clients : d # c => request'[d] = request[d]
<1>1. request \in [Clients -> Asked] /\ Idle \in Asked /\ Idle.at = "idle"
  BY AccountTypes
<1>2. PICK r : /\ r = (IF ~request[c].passed /\ Matches(s)
                       THEN [Idle EXCEPT !.at = "reading", !.passed = TRUE]
                       ELSE IF request[c].passed /\ s # Nobody THEN [Idle EXCEPT !.at = "granted"]
                       ELSE Idle)
               /\ request' = [request EXCEPT ![c] = r]
  BY DEF Decide
<1>3. /\ [Idle EXCEPT !.at = "reading", !.passed = TRUE] \in Asked
      /\ [Idle EXCEPT !.at = "reading", !.passed = TRUE].at = "reading"
      /\ [Idle EXCEPT !.at = "granted"] \in Asked /\ [Idle EXCEPT !.at = "granted"].at = "granted"
  BY DEF Idle, Asked
<1>4. r \in Asked /\ r.at \in {"idle", "reading", "granted"} /\ (r.at = "granted" => s # Nobody)
  BY <1>1, <1>2, <1>3
<1> QED BY <1>1, <1>2, <1>4

LEMMA RequestsKeep ==
    ASSUME AccountsInvariant, NEW c \in Clients, Ask(c) \/ ReadSession(c) \/ Serve(c)
    PROVE  AccountsInvariant'
<1>1. AccountsTypeOK /\ request \in [Clients -> Asked] /\ Idle \in Asked /\ Idle.at = "idle"
      /\ UNCHANGED <<name, approved, away, cookie, bearer>>
  BY AccountTypes DEF AccountsInvariant, Ask, ReadSession, Serve
<1>2. Televisions \subseteq Clients
  BY DEF Clients
<1>3. CASE Ask(c)
  <2>1. PICK r \in Asked : r = [request[c] EXCEPT !.at = "reading"] /\ r.at = "reading"
    <3>1. \A q \in Asked : [q EXCEPT !.at = "reading"] \in Asked
                            /\ [q EXCEPT !.at = "reading"].at = "reading"
      BY DEF Asked
    <3> QED BY <1>1, <3>1
  <2>2. request' = [request EXCEPT ![c] = r]
    BY <1>3, <2>1 DEF Ask
  <2>3. AccountsTypeOK'
    BY <1>1, <2>2 DEF AccountsTypeOK, Asked
  <2> QED BY <1>1, <1>2, <2>1, <2>2, <2>3, QuietForTokens
<1>4. CASE Serve(c)
  <2>1. request' = [request EXCEPT ![c] = Idle]
    BY <1>4 DEF Serve
  <2>2. AccountsTypeOK'
    BY <1>1, <2>1 DEF AccountsTypeOK, Asked
  <2> QED BY <1>1, <1>2, <2>1, <2>2, QuietForTokens
<1>5. CASE ReadSession(c)
  <2>1. Decide(c, Known(c))
    BY <1>5 DEF ReadSession
  <2>2. /\ request' \in [Clients -> Asked] /\ request'[c].at \in {"idle", "reading", "granted"}
        /\ request'[c].at = "granted" => Known(c) # Nobody
        /\ \A d \in Clients : d # c => request'[d] = request[d]
    BY <1>1, <2>1, Decided
  <2>3. AccountsTypeOK'
    BY <1>1, <2>2 DEF AccountsTypeOK, Asked
  <2>4. CASE c \in Browsers \/ request'[c].at # "granted"
    <3>1. ASSUME NEW t \in Televisions
          PROVE  request'[t] = request[t] \/ request'[t].at \in {"idle", "reading"}
      BY <1>2, <2>2, <2>4, AccountLimits
    <3> QED BY <1>1, <2>3, <3>1, QuietForTokens
  <2>5. CASE c \notin Browsers /\ request'[c].at = "granted"
    <3>1. ASSUME NEW t \in Televisions PROVE TokenIsRunningOut(t)'
      <4>1. CASE t # c
        BY <1>1, <1>2, <2>2, <4>1 DEF AccountsInvariant, TokenIsRunningOut, Underway
      <4>2. CASE t = c
        <5>1. bearer[t].left > 0 /\ bearer[t].sess # Nobody
          BY <2>2, <2>5, <4>2 DEF Known
        <5>2. away[t] + bearer[t].left <= BearerTTL + 1
          BY <5>1 DEF AccountsInvariant, TokenIsRunningOut
        <5>3. away[t] \in Nat /\ bearer[t].left \in Nat /\ Underway(request'[t]) \in {0, 1}
          BY <1>1, AccountTypes, AccountLimits DEF Remembered, Underway
        <5>4. away[t] <= BearerTTL + Underway(request'[t])
          BY <5>1, <5>2, <5>3, AccountLimits
        <5>5. t \in approved => away[t] = 0
          BY DEF AccountsInvariant, TokenIsRunningOut
        <5> QED BY <1>1, <2>5, <4>2, <5>2, <5>4, <5>5 DEF TokenIsRunningOut, Underway
      <4> QED BY <4>1, <4>2
    <3> QED BY <2>3, <3>1 DEF AccountsInvariant
  <2> QED BY <2>2, <2>4, <2>5
<1> QED BY <1>3, <1>4, <1>5

LEMMA UserinfoKeeps ==
    ASSUME AccountsInvariant, NEW t \in Televisions, Userinfo(t)
    PROVE  AccountsInvariant'
<1>1. /\ AccountsTypeOK /\ request \in [Clients -> Asked] /\ t \in Clients
      /\ UNCHANGED <<name, approved, away, cookie, bearer>>
  BY AccountTypes DEF AccountsInvariant, Userinfo, Clients
<1>2. PICK s \in Sessions \cup {Nobody} :
          /\ t \notin approved => s = Nobody
          /\ request' = [request EXCEPT ![t].at = "answered", ![t].sess = s]
  BY ClaimsAreSessions DEF Userinfo
<1>3. PICK r \in Asked : /\ r = [request[t] EXCEPT !.at = "answered", !.sess = s]
                         /\ r.at = "answered" /\ r.sess = s
  <2>1. ASSUME NEW q \in Asked
        PROVE  LET r == [q EXCEPT !.at = "answered", !.sess = s]
               IN  r \in Asked /\ r.at = "answered" /\ r.sess = s
    BY DEF Asked
  <2> QED BY <1>1, <2>1
<1>4. request' = [request EXCEPT ![t] = r]
  BY <1>1, <1>2, <1>3
<1>5. AccountsTypeOK'
  BY <1>1, <1>4 DEF AccountsTypeOK, Asked
<1>6. ASSUME NEW u \in Televisions PROVE TokenIsRunningOut(u)'
  <2>1. u \in Clients /\ request'[u] = IF u = t THEN r ELSE request[u]
    BY <1>1, <1>4 DEF Clients
  <2>2. CASE u # t
    BY <1>1, <2>1, <2>2 DEF AccountsInvariant, TokenIsRunningOut, Underway
  <2>3. CASE u = t
    <3>1. s # Nobody => away[u] = 0
      BY <1>2, <2>3 DEF AccountsInvariant, TokenIsRunningOut
    <3> QED BY <1>1, <1>3, <2>1, <2>3, <3>1 DEF AccountsInvariant, TokenIsRunningOut, Underway
  <2> QED BY <2>2, <2>3
<1> QED BY <1>5, <1>6 DEF AccountsInvariant

LEMMA ArrivalKeeps ==
    ASSUME AccountsInvariant, NEW t \in Televisions, NEW s \in Sessions \cup {Nobody},
           UserinfoArrives(t, s)
    PROVE  AccountsInvariant'
<1>1. /\ AccountsTypeOK /\ request \in [Clients -> Asked] /\ t \in Clients
      /\ bearer \in [Televisions -> Remembered(BearerTTL)]
      /\ request[t].at = "answered" /\ s \in {request[t].sess, Nobody} /\ Decide(t, s)
      /\ bearer' = (IF s = Nobody THEN bearer
                    ELSE [bearer EXCEPT ![t] = [sess |-> s, left |-> BearerTTL]])
      /\ UNCHANGED <<name, approved, away, cookie>>
  BY AccountTypes DEF AccountsInvariant, UserinfoArrives, Clients
<1>2. /\ request' \in [Clients -> Asked] /\ request'[t].at \in {"idle", "reading", "granted"}
      /\ request'[t].at = "granted" => s # Nobody
      /\ \A d \in Clients : d # t => request'[d] = request[d]
  BY <1>1, Decided
<1>3. bearer' \in [Televisions -> Remembered(BearerTTL)]
  <2>1. [sess |-> s, left |-> BearerTTL] \in Remembered(BearerTTL)
    BY AccountLimits DEF Remembered
  <2> QED BY <1>1, <2>1
<1>4. AccountsTypeOK'
  BY <1>1, <1>2, <1>3 DEF AccountsTypeOK, Asked, Remembered
<1>5. ASSUME NEW u \in Televisions PROVE TokenIsRunningOut(u)'
  <2>1. u \in Clients
    BY DEF Clients
  <2>2. CASE u # t
    <3>1. bearer'[u] = bearer[u] /\ request'[u] = request[u]
      BY <1>1, <1>2, <2>1, <2>2
    <3> QED BY <1>1, <3>1 DEF AccountsInvariant, TokenIsRunningOut, Underway
  <2>3. CASE u = t
    <3>1. /\ away[u] \in Nat /\ Underway(request'[u]) \in {0, 1}
          /\ Underway(request[u]) \in {0, 1}
      BY <1>1, AccountTypes, AccountLimits DEF Underway
    <3>2. u \in approved => away[u] = 0
      BY DEF AccountsInvariant, TokenIsRunningOut
    <3>3. CASE s = Nobody
      BY <1>1, <1>2, <2>3, <3>2, <3>3 DEF AccountsInvariant, TokenIsRunningOut, Underway
    <3>4. CASE s # Nobody
      <4>1. away[u] <= 1
        BY <1>1, <2>3, <3>1, <3>4 DEF AccountsInvariant, TokenIsRunningOut
      <4>2. bearer'[u].left = BearerTTL
        BY <1>1, <2>3, <3>4
      <4>3. /\ away[u] + BearerTTL <= BearerTTL + 1
            /\ away[u] <= BearerTTL + Underway(request'[u])
        BY <3>1, <4>1, AccountLimits
      <4> QED BY <1>1, <1>2, <2>3, <3>2, <4>2, <4>3 DEF TokenIsRunningOut, Underway
    <3> QED BY <3>3, <3>4
  <2> QED BY <2>2, <2>3
<1> QED BY <1>4, <1>5 DEF AccountsInvariant

\* A tick makes everything older: what is remembered by as much as the absence.
LEMMA AccountsTickKeeps ==
    ASSUME AccountsInvariant, AccountsTick
    PROVE  AccountsInvariant'
<1>1. /\ AccountsTypeOK /\ request \in [Clients -> Asked]
      /\ bearer \in [Televisions -> Remembered(BearerTTL)]
      /\ cookie \in [Browsers -> Remembered(SessionTTL)]
      /\ away \in [Televisions -> 0..MaxAway]
  BY AccountTypes DEF AccountsInvariant
<1>2. /\ \A c \in Clients : ~request[c].old
      /\ request' = [c \in Clients |-> [request[c] EXCEPT !.old = request[c].at # "idle"]]
      /\ away' = [t \in Televisions |->
                     IF t \in approved \/ away[t] = MaxAway THEN away[t] ELSE away[t] + 1]
      /\ cookie' = [b \in Browsers |-> [cookie[b] EXCEPT !.left = IF @ > 0 THEN @ - 1 ELSE 0]]
      /\ bearer' = [t \in Televisions |-> [bearer[t] EXCEPT !.left = IF @ > 0 THEN @ - 1 ELSE 0]]
      /\ UNCHANGED <<name, approved>>
  BY DEF AccountsTick
<1>3. ASSUME NEW ttl \in Nat, NEW e \in Remembered(ttl)
      PROVE  [e EXCEPT !.left = IF @ > 0 THEN @ - 1 ELSE 0] \in Remembered(ttl)
  BY DEF Remembered
<1>4. /\ cookie' \in [Browsers -> Remembered(SessionTTL)]
      /\ bearer' \in [Televisions -> Remembered(BearerTTL)]
  BY <1>1, <1>2, <1>3, AccountLimits
<1>5. away' \in [Televisions -> 0..MaxAway]
  <2>1. \A n \in 0..MaxAway : n # MaxAway => n + 1 \in 0..MaxAway
    BY AccountLimits
  <2> QED BY <1>1, <1>2, <2>1
<1>6. request' \in [Clients -> Asked]
  <2>1. ASSUME NEW c \in Clients
        PROVE  [request[c] EXCEPT !.old = request[c].at # "idle"] \in Asked
    <3>1. request[c] \in Asked /\ (request[c].at # "idle") \in BOOLEAN
      BY <1>1
    <3> QED BY <3>1 DEF Asked
  <2> QED BY <1>2, <2>1
<1>7. AccountsTypeOK'
  BY <1>1, <1>2, <1>4, <1>5, <1>6 DEF AccountsTypeOK, Remembered, Asked
<1>8. ASSUME NEW t \in Televisions PROVE TokenIsRunningOut(t)'
  <2>1. /\ t \in Clients /\ request[t] \in Asked /\ bearer[t].left \in Nat
        /\ bearer[t] \in Remembered(BearerTTL)
        /\ away[t] \in Nat /\ Underway(request[t]) = 0
    BY <1>1, <1>2, AccountLimits DEF Clients, Remembered, Underway
  <2>2. /\ request'[t].at = request[t].at /\ request'[t].sess = request[t].sess
        /\ request[t].at # "idle" => Underway(request'[t]) = 1
    BY <1>2, <2>1 DEF Asked, Underway
  <2>3. /\ bearer'[t].sess = bearer[t].sess
        /\ bearer'[t].left = IF bearer[t].left > 0 THEN bearer[t].left - 1 ELSE 0
    BY <1>2, <2>1 DEF Remembered
  <2>4. away'[t] \in Nat /\ away'[t] <= away[t] + 1 /\ (t \in approved => away'[t] = away[t])
    BY <1>2, <2>1
  <2>5. TokenIsRunningOut(t)
    BY DEF AccountsInvariant
  <2>6. t \in approved' => away'[t] = 0
    BY <1>2, <2>4, <2>5 DEF TokenIsRunningOut
  <2>7. request'[t].at = "answered" /\ request'[t].sess # Nobody =>
            away'[t] <= Underway(request'[t])
    BY <2>1, <2>2, <2>4, <2>5 DEF TokenIsRunningOut
  <2>8. bearer'[t].left > 0 /\ bearer'[t].sess # Nobody =>
            away'[t] + bearer'[t].left <= BearerTTL + 1
    BY <2>1, <2>3, <2>4, <2>5, AccountLimits DEF TokenIsRunningOut
  <2>9. request'[t].at = "granted" => away'[t] <= BearerTTL + Underway(request'[t])
    BY <2>1, <2>2, <2>4, <2>5, AccountLimits DEF TokenIsRunningOut
  <2> QED BY <2>6, <2>7, <2>8, <2>9 DEF TokenIsRunningOut, Underway
<1> QED BY <1>7, <1>8 DEF AccountsInvariant

LEMMA AccountsRestartKeeps ==
    ASSUME AccountsInvariant, AccountsRestart
    PROVE  AccountsInvariant'
<1>1. /\ AccountsTypeOK /\ cookie \in [Browsers -> Remembered(SessionTTL)]
      /\ Idle \in Asked /\ Idle.at = "idle" /\ \A ttl \in Nat : Empty \in Remembered(ttl)
  BY AccountTypes DEF AccountsInvariant
<1>2. /\ bearer' = [t \in Televisions |-> Empty] /\ request' = [c \in Clients |-> Idle]
      /\ cookie' = (IF SecretKept THEN cookie ELSE [b \in Browsers |-> Empty])
      /\ UNCHANGED <<name, approved, away>>
  BY DEF AccountsRestart
<1>3. /\ bearer' \in [Televisions -> Remembered(BearerTTL)]
      /\ cookie' \in [Browsers -> Remembered(SessionTTL)]
      /\ request' \in [Clients -> Asked]
  BY <1>1, <1>2, AccountLimits
<1>4. AccountsTypeOK'
  BY <1>1, <1>2, <1>3 DEF AccountsTypeOK, Remembered, Asked
<1>5. ASSUME NEW t \in Televisions PROVE TokenIsRunningOut(t)'
  <2>1. request'[t].at = "idle" /\ bearer'[t].left = 0
    BY <1>1, <1>2 DEF Clients, Empty
  <2> QED BY <1>2, <2>1 DEF AccountsInvariant, TokenIsRunningOut
<1> QED BY <1>4, <1>5 DEF AccountsInvariant

LEMMA AccountsInitially == AccountsInit => AccountsInvariant
<1> SUFFICES ASSUME AccountsInit PROVE AccountsInvariant
  OBVIOUS
<1>1. /\ name \in [Subjects -> Names] /\ approved = Televisions
      /\ away = [t \in Televisions |-> 0] /\ cookie = [b \in Browsers |-> Empty]
      /\ bearer = [t \in Televisions |-> Empty] /\ request = [c \in Clients |-> Idle]
  BY DEF AccountsInit
<1>2. Idle \in Asked /\ Idle.at = "idle" /\ \A ttl \in Nat : Empty \in Remembered(ttl)
  BY DEF Idle, Asked, Empty, Remembered
<1>3. AccountsTypeOK
  BY <1>1, <1>2, AccountLimits DEF AccountsTypeOK, Asked, Remembered
<1>4. ASSUME NEW t \in Televisions PROVE TokenIsRunningOut(t)
  <2>1. request[t].at = "idle" /\ bearer[t].left = 0 /\ away[t] = 0
    BY <1>1, <1>2 DEF Clients, Empty
  <2> QED BY <2>1 DEF TokenIsRunningOut
<1> QED BY <1>3, <1>4 DEF AccountsInvariant

\* A token that has not been good for long is granted nothing.
NoneGrantedLate == \A t \in Televisions : away[t] > BearerTTL + 1 => request'[t].at # "granted"

LEMMA AccountsStay == AccountsInvariant /\ [AccountsNext]_accountVars => AccountsInvariant'
<1> SUFFICES ASSUME AccountsInvariant, [AccountsNext]_accountVars PROVE AccountsInvariant'
  OBVIOUS
<1>1. CASE UNCHANGED accountVars
  <2>1. AccountsTypeOK'
    BY <1>1 DEF AccountsInvariant, AccountsTypeOK, accountVars
  <2> QED BY <1>1, <2>1, QuietForTokens DEF accountVars
<1> QED BY <1>1, ProviderKeeps, BrowsersKeep, RequestsKeep, UserinfoKeeps, ArrivalKeeps,
           AccountsTickKeeps, AccountsRestartKeeps DEF AccountsNext

\* A step that changes how long a token has been away grants nobody anything.
LEMMA LateTokensAreRefused ==
    ASSUME AccountsInvariant, AccountsInvariant', [AccountsNext]_accountVars
    PROVE  NoneGrantedLate
<1>1. \A t \in Televisions : away'[t] = away[t] \/ request'[t].at = request[t].at
  <2>1. CASE AccountsTick
    <3>1. \A t \in Televisions : t \in Clients /\ request[t] \in Asked
      BY AccountTypes DEF AccountsInvariant, Clients
    <3> QED BY <2>1, <3>1 DEF AccountsTick, Asked
  <2>2. CASE ~AccountsTick
    BY <2>2 DEF AccountsNext, Rename, Revoke, Approve, Userinfo, UserinfoArrives, SignIn, SignOut,
                Ask, ReadSession, Serve, AccountsRestart, accountVars
  <2> QED BY <2>1, <2>2
<1>2. ASSUME NEW t \in Televisions, request'[t].at = "granted"
      PROVE  ~(away[t] > BearerTTL + 1)
  <2>1. /\ away[t] \in Nat /\ away'[t] \in Nat
        /\ Underway(request[t]) \in {0, 1} /\ Underway(request'[t]) \in {0, 1}
    BY AccountTypes, AccountLimits DEF AccountsInvariant, AccountsTypeOK, Underway
  <2>2. CASE away'[t] = away[t]
    <3>1. away'[t] <= BearerTTL + Underway(request'[t])
      BY <1>2 DEF AccountsInvariant, TokenIsRunningOut, Underway
    <3> QED BY <2>1, <2>2, <3>1, AccountLimits
  <2>3. CASE request'[t].at = request[t].at
    <3>1. away[t] <= BearerTTL + Underway(request[t])
      BY <1>2, <2>3 DEF AccountsInvariant, TokenIsRunningOut
    <3> QED BY <2>1, <3>1, AccountLimits
  <2> QED BY <1>1, <2>2, <2>3
<1> QED BY <1>2 DEF NoneGrantedLate

\* For any number of televisions and whatever answers are in flight or remembered,
\* a revoked token is let through for no longer than the memory of an answer and
\* the answer's journey (sessionFromBearer, bearerCacheTTL).
THEOREM RevokedTokensStopWorking == AccountsSpec => RevokedTokenStopsWorking
<1>1. AccountsSpec => []AccountsInvariant
  BY AccountsInitially, AccountsStay, PTL DEF AccountsSpec
<1>2. AccountsInvariant /\ AccountsInvariant' /\ [AccountsNext]_accountVars =>
        [\A t \in Televisions : away[t] > BearerTTL + 1 => request'[t].at # "granted"]_accountVars
  BY LateTokensAreRefused DEF NoneGrantedLate
<1> QED BY <1>1, <1>2, PTL DEF AccountsSpec, RevokedTokenStopsWorking

-----------------------------------------------------------------------------
(* The answers to who wants to play.                                       *)

Player ==
    [at : Busy \cup {"rest", "answered", "booted", "not found", "bad gateway"}, item : Items,
     hasBIOS : BOOLEAN, isolated : BOOLEAN, source : 1..3, gone : BOOLEAN, answer : Answers]

\* An item has only cost something if its answer is kept or being asked for.
Collapsed ==
    /\ cost \in [Items -> {0, 1}]
    /\ \A i \in Items : kept[i] = "none" /\ metaFlight[i] = NoPlayer => cost[i] = 0

\* Whoever leads a flight is asking, and nobody waits for a flight that is over.
FlightsAreLed ==
    /\ \A p \in Players :
         player[p].at = "fetching" => metaFlight[player[p].item] = p
    /\ \A i \in Items : metaFlight[i] # NoPlayer =>
         player[metaFlight[i]].at = "fetching" /\ player[metaFlight[i]].item = i
    /\ \A p \in Players :
         player[p].at = "waiting" => metaFlight[player[p].item] # NoPlayer

PlayInvariant == PlayTypeOK /\ Collapsed /\ FlightsAreLed

-----------------------------------------------------------------------------
(* The verdict is an answer, and what a player becomes is a player.        *)

LEMMA VerdictIsAnAnswer ==
    ASSUME NEW i \in Items, NEW isolated \in BOOLEAN,
           NEW s \in SourceSet \cup {"none", "yours", "builtin"}
    PROVE  Verdict(i, isolated, s) \in Answers
<1>1. i \in ItemKinds
  BY PlayAssumption
<1>2. \A r \in {"none", "archive"}, w \in {"not_found", "not_emulated", "no_core", "needs_isolation",
           "needs_bios", "no_payload", "too_large"} : Refusal(r, w) \in Answers
  BY DEF Refusal, NoAnswer, Answers, SourceSet
<1>3. Game(i, s) \in Answers
  BY <1>1 DEF Game, Answers, ItemKinds
<1>4. BlockedBy(i) \in {"no_core", "needs_isolation", "needs_bios"}
  BY DEF BlockedBy
<1>5. Invites(i) \in BOOLEAN
  BY DEF Invites, NeedsFirmware, HoldsInTab
<1>6. [Refusal("archive", BlockedBy(i)) EXCEPT !.bios = Invites(i)] \in Answers
  BY <1>2, <1>4, <1>5 DEF Answers
<1> QED BY <1>2, <1>3, <1>6 DEF Verdict

LEMMA AnsweredIsAPlayer ==
    ASSUME NEW pl \in Player, NEW v \in Answers
    PROVE  Answered(pl, v) \in Player /\ Answered(pl, v).at = "answered"
           /\ Answered(pl, v).item = pl.item
BY DEF Answered, Player, Busy

LEMMA NextSourceIsAPlayer ==
    ASSUME NEW pl \in Player, NEW n \in 1..3
    PROVE  [pl EXCEPT !.at = "firmware", !.source = n] \in Player
<1>1. [pl EXCEPT !.at = "firmware"] \in Player
  BY DEF Player, Busy
<1>2. [pl EXCEPT !.at = "firmware", !.source = n]
        = [[pl EXCEPT !.at = "firmware"] EXCEPT !.source = n]
  BY Zenon
<1>3. \A q \in Player : [q EXCEPT !.source = n] \in Player
  BY DEF Player
<1> QED BY <1>1, <1>2, <1>3

LEMMA ResolvedIsAPlayer ==
    ASSUME NEW pl \in Player, NEW outcome \in {"item", "failure"}
    PROVE  /\ Resolved(pl, outcome) \in Player
           /\ Resolved(pl, outcome).at \in {"answered", "firmware"}
           /\ Resolved(pl, outcome).item = pl.item
<1>1. pl.item \in Items /\ pl.isolated \in BOOLEAN
  BY DEF Player
<1>2. Refusal("none", "upstream") \in Answers
  BY DEF Refusal, NoAnswer, Answers, SourceSet
<1>3. \A s \in {"yours", "none"} : Verdict(pl.item, pl.isolated, s) \in Answers
  BY <1>1, VerdictIsAnAnswer
<1>4. [pl EXCEPT !.at = "firmware", !.source = 1] \in Player
  <2>1. 1 \in 1..3
    OBVIOUS
  <2> QED BY Zenon, <2>1, NextSourceIsAPlayer
<1> QED BY <1>2, <1>3, <1>4, AnsweredIsAPlayer DEF Resolved, Player

LEMMA FromIndexIsAPlayer ==
    ASSUME NEW pl \in Player, NEW listed \in BOOLEAN
    PROVE  /\ FromIndex(pl, listed) \in Player
           /\ FromIndex(pl, listed).at \in {"answered", "firmware"}
           /\ FromIndex(pl, listed).item = pl.item
<1>1. pl.item \in Items /\ pl.isolated \in BOOLEAN /\ pl.source \in 1..3
  BY DEF Player
<1>2. Sources[pl.source] \in SourceSet
  BY <1>1 DEF Sources, SourceSet
<1>3. \A s \in SourceSet \cup {"builtin", "none"} :
        Verdict(pl.item, pl.isolated, s) \in Answers
  BY <1>1, VerdictIsAnAnswer
<1>4. ASSUME pl.source < 3
      PROVE  [pl EXCEPT !.at = "firmware", !.source = @ + 1] \in Player
  <2>1. pl.source + 1 \in 1..3
    BY <1>1, <1>4
  <2> QED BY Zenon, <2>1, NextSourceIsAPlayer
<1> QED BY <1>1, <1>2, <1>3, <1>4, AnsweredIsAPlayer DEF FromIndex, Player

LEMMA AtRestIsAPlayer == AtRest \in Player /\ AtRest.at = "rest"
<1>1. AnyItem \in Items
  BY PlayAssumption DEF AnyItem
<1>2. NoAnswer \in Answers
  BY DEF NoAnswer, Answers, SourceSet
<1> QED BY <1>1, <1>2 DEF AtRest, Player

-----------------------------------------------------------------------------
(* The steps.                                                              *)

LEMMA PlayInitial == PlayInit => PlayInvariant
<1> SUFFICES ASSUME PlayInit PROVE PlayInvariant
  OBVIOUS
<1>1. PlayTypeOK
  <2>1. [s \in SourceSet |-> {}] \in [SourceSet -> SUBSET NeedFirmware]
    OBVIOUS
  <2>2. holds \in [SourceSet -> SUBSET NeedFirmware]
    BY DEF PlayInit, Machines
  <2>3. player \in [Players -> Player]
    BY AtRestIsAPlayer DEF PlayInit
  <2> QED BY <2>1, <2>2, <2>3 DEF PlayInit, PlayTypeOK, Player
<1>2. Collapsed
  BY DEF PlayInit, Collapsed
<1>3. FlightsAreLed
  BY AtRestIsAPlayer DEF PlayInit, FlightsAreLed
<1> QED BY <1>1, <1>2, <1>3 DEF PlayInvariant

\* What the invariant says of one player's step that leaves the flights alone.
LEMMA OnePlayerMoves ==
    ASSUME PlayInvariant, NEW p \in Players, NEW pl \in Player,
           player' = [player EXCEPT ![p] = pl],
           player[p].at # "fetching" \/ (pl.at = "fetching" /\ pl.item = player[p].item),
           pl.at = "fetching" => player[p].at = "fetching",
           pl.at # "waiting",
           UNCHANGED <<kept, metaFlight, cost>>,
           holds' \in [SourceSet -> SUBSET NeedFirmware],
           index' \in [SourceSet -> SUBSET NeedFirmware],
           tries' \in [SourceSet -> {"stale", "tried", "fresh"}]
    PROVE  PlayInvariant'
<1>1. player \in [Players -> Player]
  BY DEF PlayInvariant, PlayTypeOK, Player
<1>2. player' \in [Players -> Player]
  BY <1>1
<1>3. PlayTypeOK'
  BY <1>2 DEF PlayInvariant, PlayTypeOK, Player
<1>4. Collapsed'
  BY DEF PlayInvariant, Collapsed
<1>5. FlightsAreLed'
  <2>1. \A q \in Players : player'[q] = IF q = p THEN pl ELSE player[q]
    BY <1>1
  <2>2. \A i \in Items : metaFlight[i] \in Players \cup {NoPlayer}
    BY DEF PlayInvariant, PlayTypeOK
  <2> QED BY <2>1, <2>2 DEF PlayInvariant, FlightsAreLed
<1> QED BY <1>3, <1>4, <1>5 DEF PlayInvariant

LEMMA LookUpPreserves ==
    ASSUME PlayInvariant, NEW p \in Players, LookUp(p)
    PROVE  PlayInvariant'
<1> DEFINE i == player[p].item
<1>1. player \in [Players -> Player] /\ player[p] \in Player
  BY DEF PlayInvariant, PlayTypeOK, Player
<1>2. i \in Items
  BY <1>1 DEF Player
<1>3. /\ kept \in [Items -> {"none", "item", "failure"}]
      /\ metaFlight \in [Items -> Players \cup {NoPlayer}]
      /\ cost \in [Items -> {0, 1}]
      /\ UNCHANGED <<holds, kept, index, tries>>
      /\ player[p].at \in {"metadata", "woken"}
  BY DEF PlayInvariant, PlayTypeOK, LookUp, Collapsed
<1>4. CASE kept[i] # "none"
  <2>1. kept[i] \in {"item", "failure"}
    BY <1>2, <1>3, <1>4
  <2>2. PICK pl \in Player : pl = Resolved(player[p], kept[i])
                             /\ pl.at \in {"answered", "firmware"}
    BY <1>1, <2>1, ResolvedIsAPlayer
  <2>3. player' = [player EXCEPT ![p] = pl] /\ UNCHANGED <<metaFlight, cost>>
    BY <1>4, <2>2 DEF LookUp
  <2>4. /\ holds' \in [SourceSet -> SUBSET NeedFirmware]
        /\ index' \in [SourceSet -> SUBSET NeedFirmware]
        /\ tries' \in [SourceSet -> {"stale", "tried", "fresh"}]
    BY <1>3 DEF PlayInvariant, PlayTypeOK
  <2>5. /\ player[p].at # "fetching" \/ (pl.at = "fetching" /\ pl.item = player[p].item)
        /\ pl.at = "fetching" => player[p].at = "fetching"
        /\ pl.at # "waiting"
    BY <1>3, <2>2
  <2>6. UNCHANGED <<kept, metaFlight, cost>>
    BY <1>3, <2>3
  <2> QED BY <2>2, <2>3, <2>4, <2>5, <2>6, OnePlayerMoves
<1>5. CASE kept[i] = "none" /\ metaFlight[i] = NoPlayer
  <2>1. /\ player' = [player EXCEPT ![p].at = "fetching"]
        /\ metaFlight' = [metaFlight EXCEPT ![i] = p] /\ cost' = [cost EXCEPT ![i] = @ + 1]
    BY <1>5 DEF LookUp
  <2>2. cost[i] = 0
    BY <1>2, <1>5 DEF PlayInvariant, Collapsed
  <2>3. cost' \in [Items -> {0, 1}]
    BY <1>2, <1>3, <2>1, <2>2
  <2>4. [player[p] EXCEPT !.at = "fetching"] \in Player
    BY <1>1 DEF Player, Busy
  <2>5. player' \in [Players -> Player]
    BY <1>1, <2>1, <2>4
  <2>6. metaFlight' \in [Items -> Players \cup {NoPlayer}]
    BY <1>2, <1>3, <2>1
  <2>7. PlayTypeOK'
    <3>1. cost' \in [Items -> Nat]
      BY <2>3
    <3> QED BY <1>3, <2>5, <2>6, <3>1 DEF PlayInvariant, PlayTypeOK, Player
  <2>8. Collapsed'
    BY <1>2, <1>3, <2>1, <2>3, PlayAssumption DEF PlayInvariant, Collapsed
  <2>9. FlightsAreLed'
    <3>1. /\ player'[p].at = "fetching" /\ player'[p].item = i
          /\ \A q \in Players \ {p} : player'[q] = player[q]
      BY <1>1, <2>1 DEF Player
    <3>2. /\ metaFlight'[i] = p
          /\ \A j \in Items \ {i} : metaFlight'[j] = metaFlight[j]
      BY <1>2, <1>3, <2>1
    <3>3. \A q \in Players : player[q].item \in Items
      BY <1>1 DEF Player
    <3> QED BY <1>2, <1>3, <1>5, <3>1, <3>2, <3>3, PlayAssumption
            DEF PlayInvariant, FlightsAreLed
  <2> QED BY <2>7, <2>8, <2>9 DEF PlayInvariant
<1>6. CASE kept[i] = "none" /\ metaFlight[i] # NoPlayer
  <2>1. player' = [player EXCEPT ![p].at = "waiting"] /\ UNCHANGED <<metaFlight, cost>>
    BY <1>6 DEF LookUp
  <2>2. [player[p] EXCEPT !.at = "waiting"] \in Player
    BY <1>1 DEF Player, Busy
  <2>3. player' \in [Players -> Player]
    BY <1>1, <2>1, <2>2
  <2>4. PlayTypeOK'
    BY <1>3, <2>1, <2>3 DEF PlayInvariant, PlayTypeOK, Player
  <2>5. Collapsed'
    BY <1>3, <2>1 DEF PlayInvariant, Collapsed
  <2>6. FlightsAreLed'
    <3>1. /\ player'[p].at = "waiting" /\ player'[p].item = i
          /\ \A q \in Players \ {p} : player'[q] = player[q]
      BY <1>1, <2>1 DEF Player
    <3> QED BY <1>2, <1>3, <1>6, <2>1, <3>1 DEF PlayInvariant, FlightsAreLed
  <2> QED BY <2>4, <2>5, <2>6 DEF PlayInvariant
<1> QED BY <1>4, <1>5, <1>6

LEMMA MetadataEndsPreserves ==
    ASSUME PlayInvariant, NEW p \in Players, MetadataEnds(p)
    PROVE  PlayInvariant'
<1> DEFINE i == player[p].item
<1>1. player \in [Players -> Player] /\ player[p] \in Player
  BY DEF PlayInvariant, PlayTypeOK, Player
<1>2. i \in Items
  BY <1>1 DEF Player
<1>3. /\ kept \in [Items -> {"none", "item", "failure"}]
      /\ metaFlight \in [Items -> Players \cup {NoPlayer}]
      /\ cost \in [Items -> {0, 1}] /\ player[p].at = "fetching"
      /\ UNCHANGED <<holds, cost, index, tries>>
  BY DEF PlayInvariant, PlayTypeOK, MetadataEnds, Collapsed
<1>4. PICK outcome \in {"item", "failure"} :
        /\ kept' = [kept EXCEPT ![i] = outcome]
        /\ player' = [q \in Players |->
              IF q = p THEN (IF player[p].gone THEN AtRest ELSE Resolved(player[p], outcome))
              ELSE IF player[q].at = "waiting" /\ player[q].item = i
              THEN [player[q] EXCEPT !.at = "woken"] ELSE player[q]]
        /\ metaFlight' = [metaFlight EXCEPT ![i] = NoPlayer]
  BY DEF MetadataEnds, Kept, Landed
<1>5. /\ player'[p] \in Player
      /\ player'[p].at \in {"rest", "answered", "firmware"}
  BY <1>1, <1>4, ResolvedIsAPlayer, AtRestIsAPlayer
<1>6. ASSUME NEW q \in Players \ {p}
      PROVE  /\ player'[q] \in Player
             /\ player'[q] = player[q]
                \/ (player[q].item = i /\ player'[q].at = "woken" /\ player[q].at = "waiting")
             /\ player[q].item = i => player'[q].at # "waiting"
  <2>1. player[q] \in Player
    BY <1>1
  <2>2. CASE player[q].at = "waiting" /\ player[q].item = i
    <3>1. player'[q] = [player[q] EXCEPT !.at = "woken"]
      BY <1>4, <2>2
    <3> QED BY <2>1, <2>2, <3>1 DEF Player, Busy
  <2>3. CASE ~(player[q].at = "waiting" /\ player[q].item = i)
    BY <1>4, <2>1, <2>3
  <2> QED BY <2>2, <2>3
<1>7. player' \in [Players -> Player]
  BY <1>4, <1>5, <1>6
<1>8. /\ kept' \in [Items -> {"none", "item", "failure"}]
      /\ metaFlight' \in [Items -> Players \cup {NoPlayer}]
      /\ kept'[i] # "none" /\ metaFlight'[i] = NoPlayer
      /\ \A j \in Items \ {i} : kept'[j] = kept[j] /\ metaFlight'[j] = metaFlight[j]
  BY <1>2, <1>3, <1>4
<1>9. PlayTypeOK'
  BY <1>3, <1>7, <1>8 DEF PlayInvariant, PlayTypeOK, Player
<1>10. Collapsed'
  BY <1>3, <1>8 DEF PlayInvariant, Collapsed
<1>11. FlightsAreLed'
  <2>1. \A q \in Players : player[q].item \in Items /\ player'[q].item \in Items
    BY <1>1, <1>7 DEF Player
  <2>2. ASSUME NEW q \in Players, player'[q].at = "fetching"
        PROVE  metaFlight'[player'[q].item] = q
    <3>1. q # p /\ player'[q] = player[q]
      BY <1>5, <1>6, <2>2
    <3>2. metaFlight[player[q].item] = q
      BY <2>2, <3>1 DEF PlayInvariant, FlightsAreLed
    <3>3. metaFlight[i] = p
      BY <1>3 DEF PlayInvariant, FlightsAreLed
    <3> QED BY <1>8, <2>1, <3>1, <3>2, <3>3
  <2>3. ASSUME NEW j \in Items, metaFlight'[j] # NoPlayer
        PROVE  player'[metaFlight'[j]].at = "fetching" /\ player'[metaFlight'[j]].item = j
    <3> DEFINE q == metaFlight[j]
    <3>1. j # i /\ metaFlight'[j] = q /\ q \in Players
      BY <1>3, <1>8, <2>3
    <3>2. player[q].at = "fetching" /\ player[q].item = j
      BY <2>3, <3>1 DEF PlayInvariant, FlightsAreLed
    <3>3. q # p /\ player'[q] = player[q]
      BY <1>6, <3>1, <3>2
    <3> QED BY <3>1, <3>2, <3>3
  <2>4. ASSUME NEW q \in Players, player'[q].at = "waiting"
        PROVE  metaFlight'[player'[q].item] # NoPlayer
    <3>1. q # p /\ player'[q] = player[q] /\ player[q].item # i
      BY <1>5, <1>6, <2>4
    <3>2. metaFlight[player[q].item] # NoPlayer
      BY <2>4, <3>1 DEF PlayInvariant, FlightsAreLed
    <3> QED BY <1>8, <2>1, <3>1, <3>2
  <2> QED BY <2>2, <2>3, <2>4 DEF FlightsAreLed
<1> QED BY <1>9, <1>10, <1>11 DEF PlayInvariant

LEMMA LookInSourcePreserves ==
    ASSUME PlayInvariant, NEW p \in Players, LookInSource(p)
    PROVE  PlayInvariant'
<1> DEFINE s == Sources[player[p].source]
<1> DEFINE listed == player[p].item.core \in index[s]
<1>1. /\ player \in [Players -> Player] /\ player[p] \in Player
      /\ player[p].at = "firmware" /\ UNCHANGED <<holds, kept, metaFlight, cost, index>>
  BY DEF PlayInvariant, PlayTypeOK, Player, LookInSource
<1>2. s \in SourceSet
  <2>1. player[p].source \in 1..3
    BY <1>1 DEF Player
  <2> QED BY <2>1 DEF Sources, SourceSet
<1>3. /\ holds' \in [SourceSet -> SUBSET NeedFirmware]
      /\ index' \in [SourceSet -> SUBSET NeedFirmware]
  BY <1>1 DEF PlayInvariant, PlayTypeOK
<1>4. \/ player' = [player EXCEPT ![p] = FromIndex(player[p], listed)] /\ tries' = tries
      \/ /\ player' = [player EXCEPT ![p] = [player[p] EXCEPT !.at = "seeking"]]
         /\ tries' = [tries EXCEPT ![s] = "tried"]
  BY DEF LookInSource
<1>5. PICK pl \in Player : /\ player' = [player EXCEPT ![p] = pl]
                           /\ pl.at \in {"answered", "firmware", "seeking"}
  <2>1. listed \in BOOLEAN
    OBVIOUS
  <2>2. FromIndex(player[p], listed) \in Player
        /\ FromIndex(player[p], listed).at \in {"answered", "firmware"}
    BY <1>1, <2>1, FromIndexIsAPlayer
  <2>3. [player[p] EXCEPT !.at = "seeking"] \in Player
        /\ [player[p] EXCEPT !.at = "seeking"].at = "seeking"
    BY <1>1 DEF Player, Busy
  <2> QED BY <1>4, <2>2, <2>3
<1>6. tries' \in [SourceSet -> {"stale", "tried", "fresh"}]
  BY <1>2, <1>4 DEF PlayInvariant, PlayTypeOK
<1>7. /\ player[p].at # "fetching" \/ (pl.at = "fetching" /\ pl.item = player[p].item)
      /\ pl.at = "fetching" => player[p].at = "fetching"
      /\ pl.at # "waiting" /\ UNCHANGED <<kept, metaFlight, cost>>
  BY <1>1, <1>5
<1> QED BY <1>3, <1>5, <1>6, <1>7, OnePlayerMoves

LEMMA SourceAnswersPreserves ==
    ASSUME PlayInvariant, NEW p \in Players, SourceAnswers(p)
    PROVE  PlayInvariant'
<1> DEFINE s == Sources[player[p].source]
<1> DEFINE listed == player[p].item.core \in index'[s]
<1>1. /\ player \in [Players -> Player] /\ player[p] \in Player
      /\ player[p].at = "seeking" /\ UNCHANGED <<holds, kept, metaFlight, cost>>
  BY DEF PlayInvariant, PlayTypeOK, Player, SourceAnswers
<1>2. s \in SourceSet
  <2>1. player[p].source \in 1..3
    BY <1>1 DEF Player
  <2> QED BY <2>1 DEF Sources, SourceSet
<1>3. /\ holds' \in [SourceSet -> SUBSET NeedFirmware]
      /\ index' \in [SourceSet -> SUBSET NeedFirmware]
      /\ tries' \in [SourceSet -> {"stale", "tried", "fresh"}]
  <2>1. /\ index \in [SourceSet -> SUBSET NeedFirmware]
        /\ holds \in [SourceSet -> SUBSET NeedFirmware] /\ holds' = holds
        /\ tries \in [SourceSet -> {"stale", "tried", "fresh"}]
    BY <1>1 DEF PlayInvariant, PlayTypeOK
  <2>2. holds[s] \in SUBSET NeedFirmware
    BY <1>2, <2>1
  <2>3. CASE /\ index' = [index EXCEPT ![s] = holds[s]]
             /\ tries' = [tries EXCEPT ![s] = IF s = "archive" THEN tries[s] ELSE "fresh"]
    BY <1>2, <2>1, <2>2, <2>3
  <2>4. CASE UNCHANGED <<index, tries>>
    BY <2>1, <2>4
  <2> QED BY <2>3, <2>4 DEF SourceAnswers
<1>4. player' = [player EXCEPT ![p] =
                   IF player[p].gone THEN AtRest ELSE FromIndex(player[p], listed)]
  BY DEF SourceAnswers
<1>5. PICK pl \in Player : /\ player' = [player EXCEPT ![p] = pl]
                           /\ pl.at \in {"rest", "answered", "firmware"}
  <2>1. listed \in BOOLEAN
    OBVIOUS
  <2> QED BY <1>1, <1>4, <2>1, FromIndexIsAPlayer, AtRestIsAPlayer
<1>6. /\ player[p].at # "fetching" \/ (pl.at = "fetching" /\ pl.item = player[p].item)
      /\ pl.at = "fetching" => player[p].at = "fetching"
      /\ pl.at # "waiting" /\ UNCHANGED <<kept, metaFlight, cost>>
  BY <1>1, <1>5
<1> QED BY <1>3, <1>5, <1>6, OnePlayerMoves

LEMMA OthersPreserve ==
    ASSUME PlayInvariant, NEW p \in Players,
           \/ \E i \in Items, hasBIOS, isolated \in BOOLEAN : AskToPlay(p, i, hasBIOS, isolated)
           \/ PlayerLeaves(p) \/ FetchFirmware(p) \/ PlayEnds(p)
    PROVE  PlayInvariant'
<1>1. /\ player \in [Players -> Player] /\ player[p] \in Player
      /\ UNCHANGED <<holds, kept, metaFlight, cost, index, tries>>
  BY DEF PlayInvariant, PlayTypeOK, Player, AskToPlay, PlayerLeaves, FetchFirmware, PlayEnds
<1> DEFINE Moves(pl) ==
        /\ player' = [player EXCEPT ![p] = pl]
        /\ player[p].at # "fetching" \/ (pl.at = "fetching" /\ pl.item = player[p].item)
        /\ pl.at = "fetching" => player[p].at = "fetching"
        /\ pl.at # "waiting"
<1>2. \E pl \in Player : Moves(pl)
  <2>1. ASSUME NEW i \in Items, NEW hasBIOS \in BOOLEAN, NEW isolated \in BOOLEAN,
               AskToPlay(p, i, hasBIOS, isolated)
        PROVE  \E pl \in Player : Moves(pl)
    <3> DEFINE pl == [AtRest EXCEPT !.at = "metadata", !.item = i, !.hasBIOS = hasBIOS,
                                    !.isolated = isolated]
    <3>1. pl \in Player /\ pl.at = "metadata"
      BY AtRestIsAPlayer DEF Player, Busy
    <3>2. player' = [player EXCEPT ![p] = pl] /\ player[p].at = "rest"
      BY <2>1 DEF AskToPlay
    <3>3. Moves(pl)
      BY <3>1, <3>2
    <3> HIDE DEF pl, Moves
    <3> QED BY <3>1, <3>3
  <2>2. CASE PlayerLeaves(p)
    <3>1. CASE player[p].at \in {"fetching", "seeking"}
      <4> DEFINE pl == [player[p] EXCEPT !.gone = TRUE]
      <4>1. pl \in Player /\ pl.at = player[p].at /\ pl.item = player[p].item
        BY <1>1 DEF Player
      <4>2. player' = [player EXCEPT ![p] = pl]
        BY <2>2, <3>1 DEF PlayerLeaves
      <4>3. Moves(pl)
        BY <3>1, <4>1, <4>2
      <4> HIDE DEF pl, Moves
      <4> QED BY <4>1, <4>3
    <3>2. CASE player[p].at \notin {"fetching", "seeking"}
      <4>1. player' = [player EXCEPT ![p] = AtRest]
        BY <2>2, <3>2 DEF PlayerLeaves
      <4> QED BY <3>2, <4>1, AtRestIsAPlayer
    <3> QED BY <3>1, <3>2
  <2>3. CASE FetchFirmware(p)
    <3>1. PICK at \in {"booted", "not found", "bad gateway"} :
            player' = [player EXCEPT ![p] = [player[p] EXCEPT !.at = at]]
      BY <2>3 DEF FetchFirmware
    <3>2. player[p].at = "answered"
      BY <2>3 DEF FetchFirmware
    <3>3. [player[p] EXCEPT !.at = at] \in Player /\ [player[p] EXCEPT !.at = at].at = at
      BY <1>1 DEF Player
    <3> QED BY <3>1, <3>2, <3>3
  <2>4. CASE PlayEnds(p)
    <3>1. player' = [player EXCEPT ![p] = AtRest] /\ player[p].at # "fetching"
      BY <2>4 DEF PlayEnds
    <3> QED BY <3>1, AtRestIsAPlayer
  <2> QED BY <2>1, <2>2, <2>3, <2>4
<1>3. PICK pl \in Player : Moves(pl)
  BY <1>2
<1>4. /\ holds' \in [SourceSet -> SUBSET NeedFirmware]
      /\ index' \in [SourceSet -> SUBSET NeedFirmware]
      /\ tries' \in [SourceSet -> {"stale", "tried", "fresh"}]
      /\ UNCHANGED <<kept, metaFlight, cost>>
  BY <1>1 DEF PlayInvariant, PlayTypeOK
<1> QED BY <1>3, <1>4, OnePlayerMoves

LEMMA MetadataExpiresPreserves ==
    ASSUME PlayInvariant, NEW i \in Items, MetadataExpires(i)
    PROVE  PlayInvariant'
<1>1. /\ kept' = [kept EXCEPT ![i] = "none"] /\ cost' = [cost EXCEPT ![i] = 0]
      /\ UNCHANGED <<holds, metaFlight, index, tries, player>>
      /\ kept \in [Items -> {"none", "item", "failure"}] /\ cost \in [Items -> {0, 1}]
  BY DEF PlayInvariant, PlayTypeOK, Collapsed, MetadataExpires
<1>2. kept' \in [Items -> {"none", "item", "failure"}] /\ cost' \in [Items -> {0, 1}]
  BY <1>1
<1>3. PlayTypeOK'
  <2>1. cost' \in [Items -> Nat]
    BY <1>2
  <2> QED BY <1>1, <1>2, <2>1 DEF PlayInvariant, PlayTypeOK
<1>4. Collapsed'
  BY <1>1, <1>2 DEF PlayInvariant, Collapsed
<1>5. FlightsAreLed'
  BY <1>1 DEF PlayInvariant, FlightsAreLed
<1> QED BY <1>3, <1>4, <1>5 DEF PlayInvariant

LEMMA IndexAgesPreserves ==
    ASSUME PlayInvariant, NEW s \in SourceSet, IndexAges(s)
    PROVE  PlayInvariant'
<1>1. /\ tries' = [tries EXCEPT ![s] = "stale"]
      /\ UNCHANGED <<holds, kept, metaFlight, cost, index, player>>
  BY DEF IndexAges
<1>2. PlayTypeOK'
  BY <1>1 DEF PlayInvariant, PlayTypeOK
<1> QED BY <1>1, <1>2 DEF PlayInvariant, Collapsed, FlightsAreLed

LEMMA PlayStepPreserves == PlayInvariant /\ [PlayNext]_playVars => PlayInvariant'
<1> SUFFICES ASSUME PlayInvariant, [PlayNext]_playVars PROVE PlayInvariant'
  OBVIOUS
<1>1. ASSUME NEW p \in Players, PlayStep(p) PROVE PlayInvariant'
  BY <1>1, LookUpPreserves, MetadataEndsPreserves, LookInSourcePreserves,
     SourceAnswersPreserves DEF PlayStep
<1>2. ASSUME NEW p \in Players,
             \/ \E i \in Items, hasBIOS, isolated \in BOOLEAN :
                   AskToPlay(p, i, hasBIOS, isolated)
             \/ PlayerLeaves(p) \/ FetchFirmware(p) \/ PlayEnds(p)
      PROVE  PlayInvariant'
  BY <1>2, OthersPreserve
<1>3. CASE UNCHANGED playVars
  <2>1. UNCHANGED <<holds, kept, metaFlight, cost, index, tries, player>>
    BY <1>3 DEF playVars
  <2> QED BY <2>1 DEF PlayInvariant, PlayTypeOK, Collapsed, FlightsAreLed
<1> QED BY <1>1, <1>2, <1>3, MetadataExpiresPreserves, IndexAgesPreserves DEF PlayNext

-----------------------------------------------------------------------------
\* The metadata flight, in every reachable state: types, one request per answer
\* that is kept, and a leader for everybody who waits (metadataCached).
THEOREM PlayInvariantHolds == PlaySpec => []PlayInvariant
BY PlayInitial, PlayStepPreserves, PTL DEF PlaySpec

\* An outage costs one request per item, for any number of players, whoever
\* goes away, comes too late or is served from memory (metadataCached).
THEOREM AnOutageCostsOneRequest == PlaySpec => []OutageCostsOneRequest
<1>1. PlayInvariant => OutageCostsOneRequest
  BY DEF PlayInvariant, Collapsed, OutageCostsOneRequest
<1> QED BY <1>1, PlayInvariantHolds, PTL

-----------------------------------------------------------------------------
(* The six of them, as they are run.                                       *)

KeepersInvariant ==
    LibraryTypeOK /\ CacheInvariant /\ PoolTypeOK /\ SeedsInvariant /\ AccountsInvariant
    /\ PlayInvariant

LEMMA KeepersStay == KeepersInvariant /\ [KeepersNext]_keeperVars => KeepersInvariant'
<1> SUFFICES ASSUME KeepersInvariant, [KeepersNext]_keeperVars PROVE KeepersInvariant'
  OBVIOUS
<1>1. /\ [LibraryNext]_libraryVars /\ [CacheNext]_cacheVars /\ [PoolNext]_poolVars
      /\ [SeedsNext]_seedVars /\ [AccountsNext]_accountVars /\ [PlayNext]_playVars
  BY DEF KeepersNext, LibraryRuns, CacheRuns, PoolRuns, SeedsRun, AccountsRun, PlayRuns, keeperVars
<1> QED BY <1>1, LibraryStays, CacheStays, PoolStays, SeedsStay, AccountsStay, PlayStepPreserves
        DEF KeepersInvariant

\* Every variable of the six keepers has its type in every reachable state, and a
\* flight of the search cache is led by a caller that will end it (claim).
THEOREM KeepersAreTyped == KeepersSpec => []KeepersTypeOK
<1>1. KeepersSpec => KeepersInit /\ [][KeepersNext]_keeperVars
  BY PTL DEF KeepersSpec
<1>2. KeepersInit => KeepersInvariant
  BY LibraryInitially, CacheInitially, PoolInitially, SeedsInitially, AccountsInitially,
     PlayInitial DEF KeepersInit, KeepersInvariant
<1>3. KeepersInvariant => KeepersTypeOK
  BY DEF KeepersInvariant, CacheInvariant, SeedsInvariant, AccountsInvariant, PlayInvariant,
         KeepersTypeOK
<1> QED BY <1>1, <1>2, <1>3, KeepersStay, PTL

=============================================================================
