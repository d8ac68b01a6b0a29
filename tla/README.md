# Yarr It: verification of the search, linear-TV, request and relay services

TLA+ models, TLC runs and TLAPS proofs for the Go services under
`src/stream/` of this repository. `PROJECT.json` lists the components, runs,
mutants, the line map from definitions to source, the hazards, the findings and
the theorems; this file says how they fit together.

## The system

The repository is a mail edge (shell scripts, unit files) and, under `stream/`,
a media search and playback system:

| part | state it keeps | operations | what is hard | what makes it correct |
|---|---|---|---|---|
| `search/linear_epg.go` linear TV engine | channel definitions, one schedule per channel, library copies, JSON files | `ensureWindow` (every read of the guide), `SaveChannel`, `DeleteChannel`, `load` | the mutex is released while libraries are fetched and programmes are filled; edits, deletions and restarts come between; owners' edits share one file | schedules stay in order, readers' guide is only extended, what an undisturbed write brought to disk stays there, every request is answered |
| `search/linear_scheduler.go`, `linear_channel.go` | a cursor into the rotation, per part of the day | `linearFill`, pickers, rules, `Validate` | counts that are shared by parts; grid rounding, slot limits | each part goes through a show in order |
| `search/linear_position.go`, `linear_access.go` | none | now playing, tune in | an offset that is settled before retries | what a viewer is told is true of the programme |
| `search/linear_source_*.go` | the last good library, a background refresh with backoff, the seed marker | `LinearItems`, `refresh`, seeding | stale, partial or empty answers; pages that shift | a pool is the shelf; nothing being watched goes away |
| `search/progressive.go`, `fanout.go`, `main.go` progressive search | jobs by id and by key, a breaker, the answer cache | `handleSearch`, `handleSearchCollect`, `job.run`, sweep | seven kinds of goroutine per job, one of which outlives the call that started it; first paint, deadlines, retries | one job per query, answers only grow until complete, partial answers are not cached |
| `search/warm.go`, `cache_disk.go` | a queue of titles; a disk copy of answers with history; calls in flight | warmer passes, read and write through, claim and release | the same key written by two producers; crash, stale and merged entries | the file never goes back, no follower is left waiting |
| `search/owner.go`, `auth.go`, `bearer.go` | session cookies, cached bearer checks | per-request decisions | revocation against a cached answer; names that change hands | a revoked token stops working |
| `search/library.go` | per-user lists and progress | add, remove, progress, flush loop | a failed write after the dirty flag was cleared | every change reaches the disk |
| `search/provider*.go` | RomM's token; everything else is on other servers | requests, status, library, health, activity | sequences of calls, any of which may fail; two lists read one after the other | exactly what was asked for is obtained; what is there is not called missing |
| `search/addon*.go` | the installed list, its file, the registry | install, switch, reorder, remove, search | several browsers with stale lists | nobody drops another's addon |
| `search/play_*.go` | the metadata of items, three firmware indexes | what plays, firmware | one lookup for all who ask, the one who asks may leave | an outage costs one request |
| `search/link*.go` | buckets, answers, a stream gate, a refusal counter | resolve, stream | links signed before they are handed out | a link outlives its answer |
| `search/minerva*.go`, `vimm*.go` catalogues | catalogue files, loaded at start | imports | partial exports and walks; death between two steps | what worked stays |
| `gateway/main.go` | sessions, torrent handles, piece store | `/prepare`, `/stream`, reaper | handles that are dropped while somebody holds them; restart | no reader is leaked, sessions end |
| `bridge/*.go` | socket slots per address, monthly byte budgets | TCP and UDP relays, announce, IPTV, pages | limits, leaks, half-closed relays, a budget persisted once a minute | slots are accounted for, relays end, the cap holds |
| `web/src/*.js` | a browser's grid and player | polling, WebTorrent | the collecting half of a search (`progressive.js`) | every search settles |
| `extension/*.js` | proxy and UDP-lock settings | turn on, turn off | two settings, either of which may fail | |
| `roku/`, `tizen/`, `installers/`, `deploy/`, `brand/`, mail scripts | none | packaging, scripts | nothing to model | |

Interactions. The browser starts a search with a request and collects it by
polling; the request starts a job or joins one; the job asks catalogues,
archive.org, Prowlarr's two indexer tiers and ROM providers, and writes the
answer cache which the next request reads and which the warmer also writes.
The guide's readers call the linear engine, which asks library sources and
writes its files; a tuned-in viewer asks it what is on and the resolvers of the
sources where it plays. Requests for films, shows, albums and games go through
`providers_api.go` to the adapters, which call other servers. A television asks
the gateway, which drives a torrent client; a browser asks the bridge.

## Modules

| module | models | notes |
|---|---|---|
| `GuideSeq` | what an ordered programme list is, `linearCheckOrdering` | shared by the next two |
| `SharedGuide` | the promise to guide readers: schedules are extended at the end, forgotten from the front after the past buffer, cut only by an edit or a restart | abstract specification |
| `LinearEngine` | `linear_epg.go` and the fill loop | one action per critical section of `ensureWindow` and per stretch between two; implements `SharedGuide` (`KeepsGuidePromise`) |
| `Lines` | a set put in line by an order, a list cut down to some of its places | for the sorts and filters of the next ones; no recursion, so that it can be proved about |
| `ChannelLineup` | rules, `Validate`, every strategy, dayparts, the cursor's counts | what `LinearEngine` abstracts to durations |
| `TuneIn` | `linear_position.go`, `linear_access.go`, the resolvers | viewers against a clock, servers and files |
| `MediaShelf` | paged reads of Jellyfin and Plex libraries, and the copies the engine keeps | the server's shelf changes between pages |
| `ArchivePool` | an archive.org collection: background refresh, backoff, partial publication | |
| `ChannelSeeds` | `SeedNostalgiaChannels` and the two files behind it | |
| `SearchPromise` | the promise to whoever collects a search: the answer grows until it is called complete, then stands | abstract specification |
| `SearchJobs` | `progressive.go`, the handlers and cache of `main.go`, `searchTiered`, `progressive.js` | implements `SearchPromise` (`KeepsSearchPromise`) |
| `SearchWarmer` | `warm.go` beside `SearchJobs` | composition over the shared cache and indexers |
| `SearchCache` | one key of the cache: memory, file with history, calls in flight | `main.go`, `cache_disk.go`, `archive.go`, `music.go` |
| `Accounts` | cookies, bearer tokens, the owner decision | the identity provider is external |
| `LibraryStore` | `library.go`, `library_api.go` | |
| `PlayDesk` | `play_archive.go`, `play_bios*.go` | archive.org and the household's firmware are external |
| `ShowRequests`, `FilmDesk`, `AlbumRequests` | requests to Sonarr, Radarr, Lidarr call by call; the merged status of several Radarrs | the servers are external |
| `GameDesk` | Romarr's two lists, RomM's shelf and token, the game routes | |
| `AddonDesk` | installed addons, their file and the registry | |
| `ServiceHealth` | every adapter's health ladder, the settings and the activity screen | |
| `RomImports` | the imports of `minerva_import.go` and `vimm_import.go` | |
| `LinkFormats`, `LinkDesk` | which files a page offers, and the resolver around them | yt-dlp and ffmpeg are external |
| `Gateway` | `gateway/main.go` | the torrent client is external |
| `Bridge` | `bridge/main.go`, `budget.go`, `iptv.go`, `page.go` | peers and pages are external |
| `MCLinearEngine`, `MCSearchJobs`, `MCSearchWarmer` | instances for TLC | |
| `MCLinearRace` | the engine in two scenes: readers who race around an edit, owners whose requests race with a restart | each with the bounds it needs; together they would be too many states |
| `MCRelays`, `MCKeepers`, `MCDesks`, `MCHouse` | instances of several independent modules at once | a variable says which one runs; they share no state in the code either |
| `LinearEngineProofs`, `SearchJobsProofs`, `SearchWarmerProofs` | theorems and proofs of the modules they are named after | |
| `LineProofs` | what `Lines` returns: everything once, in order | cited by the last two |
| `RelaysProofs` | `Gateway`, `Bridge`, `LinkDesk` | |
| `KeepersProofs` | `LibraryStore`, `SearchCache`, `ArchivePool`, `ChannelSeeds`, `Accounts`, `PlayDesk` | |
| `DesksProofs` | `ShowRequests`, `AlbumRequests`, `FilmDesk`, `AddonDesk` | |
| `HouseProofs` | `RomImports`, `TuneIn`, `GameDesk`, `ServiceHealth`, `MediaShelf`, `ChannelLineup` | |

### State and actions against the code

**LinearEngine.** `channels` and `schedules` are the engine's maps, `wedged` says
the mutex is held by a goroutine that is gone, `pc`/`req` are where each request
is in `ensureWindow` and its locals, `owner` holds each of the owner's requests between its in-memory change and its file writes, `channelsFile`/`schedFile` are the disk.
A definition is its `revision()` and its enabled flag; a pool is a sequence of
durations in rotation order, chosen from the pools the rules can yield
(`Lineups`), so a library that fails, answers partly or is empty is a choice of
`FetchPool`. `FillSlot` is one pass of the loop in `linearFill`. A file write may
fail (it is only logged) and, when two writers share the fixed `.tmp` name, may
publish a torn file; `Restart` is `load()`. The owner's requests overlap
as the code lets them: `SaveChannel` and `DeleteChannel` are the change under the
mutex, `ListChannels` the copy `persist` takes under the read lock, `WriteChannels`
the write it makes without, which may fail, or, when two overlap, publish the
older list or a torn file; `RemoveScheduleFile` ends a deletion. `settled` is a
history variable: per channel, the definition that a write nobody overlapped has
brought to disk, `Unsure` from an edit on until there is such a write.

**ChannelLineup.** A draft is a channel in the editor; `Preview` and `Save` are
the two routes, `PlaceAt` is one pick of the scheduler at a minute of a day. A
text is the set of its parts, so "contains" is inclusion; the seeded shuffle is
any permutation, drawn once (`deals`). `cursor` is `linearCursor`, one count per
key as `linearBuildPicker` makes it.

**TuneIn.** A viewer's question is answered in the code's steps: what is on
(`NowPlaying`), then each attempt over the resolver chain, then the pause. The
guide is given and correct (that is `LinearEngine`'s business); the transcodes
a media server keeps for a session are `transcodes`, since a second viewer's
start can take over a first one's.

**MediaShelf.** `stock` is the shelf, in the order of its items' numbers, `reading`
one read of it page by page, `entry` the engine's `linearLibEntry` (fresh copy and
last good one). The rows of a read are a set, each with its page, since nothing
depends on their order but an item that is on two pages counts twice.

**ArchivePool, ChannelSeeds.** A refresh resolves items in any order
(`CrawlStep`), takes snapshots and publishes them later, in any order. A seed is
a channel; `rows` and `marker` are the two files, either of which may fail to be
written, and the process may stop between any two steps.

**SearchJobs.** `jobs` holds the job records, `job.at` says where each of a
job's goroutines stands; `byID`/`byKey` are the store's indexes; `breaker`,
`cache` and the browsers (`client`) are the rest. A card stands for what one
source finds; posters are left out, but the time they take is a step of its own
(`FastCardsIn` to `WaitForSlowTier`), because the slow tier can land in it.
Time is order only: the slow tier starts within 13 s of its job (5 s list + 8 s
fast tier), is abandoned after 45 s, and the stage waits 47 s or until the job
is 70 s old, so `WaitRunsOut` requires the slow goroutine to have ended; a
completed job is joinable for 15 s ("fresh"), collectable for 3 minutes
("stale"), then swept ("dead"). A request holds its job for 200 ms at most
before its first paint, so a job does not age under it.

**SearchWarmer** adds the warmer's pass and its own slow tiers to `SearchJobs`,
sharing the cache.

**SearchCache.** A caller looks in memory, then joins or leads the call in
flight, asks upstream, and writes: first memory under the lock, then the file,
which it reads, merges and renames into place. A card is the releases it offers;
puts are numbered in the order memory's lock gives them, so that a slower writer
of an older put is told from a newer one. The file that is replaced may be one
that cannot be read (`unread` counts them), and then counts as none.

**Accounts.** A request to an owner's route is a read of the session, which for a
television may ask the identity provider and for a while remembers the answer,
and then the owner decision, by subject or by an address the provider vouches for
(`mail`; it comes and goes with what the provider says). Names can change hands (`Rename`), subjects cannot.
One tick is longer than `bearerTimeout`.

**LibraryStore.** `raw` is what `flush` has marshalled and not renamed into place
yet; `Flush` clears `dirty` under the lock, `Flushed` or `FlushFails` follow.

**PlayDesk.** `metaFlight` is the leader of an item's lookup; a player may leave
(its context is cancelled) at any step. `cost` counts lookups since an answer was
last kept.

**ShowRequests, AlbumRequests, FilmDesk.** Each call to Sonarr, Radarr or Lidarr
is a step; a row that was read is carried by the request and written back whole,
as the code does, so requests can overwrite each other. `CallFails` ends a
request at the call that failed; `AnswerLost` is a call that took effect and
whose answer did not come. `question` in `FilmDesk` is `handleStatus`, which asks
every instance at once and merges.

**GameDesk.** `AskStatus`, `AskShelves`, `AskDetails` put one question to Romarr
and RomM at once; Romarr's share is `ReadQueue` and then `ReadWanted`, with Romarr's own progress (`GoesOn`) between them. The queue has a row per
release, so a game may be in it at several stages; which of them a status tells
is Romarr's order, a choice in the model. The token ages in ticks and is
renewed a margin before it lapses.

**AddonDesk.** Every change is made and saved under the store's lock (one
action); `syncRegistry` is a step of its own, with the list it read before.

**ServiceHealth.** A service is a set of faults; `CheckStep` puts one question of
its adapter's ladder, each with what the service answers at that moment, so a service may break or be repaired on the way. The check of one service may
panic, and so may its activity report.
The fault "webPage" is left out of the run (see Notes).

**RomImports.** An import computes the new catalogue into `path + ".tmp"`
(`ImportVault`, `Fetch`, `ImportSets`) and renames it (`Publish`) or dies
(`GiveUp`); `LoadCatalogues` is the server's start.

**LinkDesk.** A surfer's request passes the rate limit (`buckets`), the cache
(`kept`), the extraction (with the egress' refusal counter, in or out of a
namespace of its own) and the answer with signed links; a stream passes the gate.
`LinkFormats` holds the pure part: tracks, joins, selection.

**Gateway.** A torrent handle is the number of the join that made it, so a
handle the reaper dropped is different from the next one for the same magnet.
`primers` counts open readers, `store` the torrents with pieces on disk. Time is
the reaper's minute; `idle` is what `now - lastSeen` has reached.

**Bridge.** A connection is a request of an address: `Admit` and `Acquire`, then
a relay whose two halves end on their own (`DownEnds`, `UpEnds`), an IPTV stream
that spends chunk by chunk, or a page. The down half is reading from the peer or
writing to the browser (`conn[c].down`), because only its reads have a deadline. `PersistTick` rolls over and writes
(`persistLoop`), `BridgeRestart` starts again from what was written.

## Runs

| run | instance | checks |
|---|---|---|
| `linear_race` | 2 rules, 2 ticks, grid 2; in the guide scene 2 readers and 2 edits of one of 2 channels; in the owners' scene 2 owners, 2 channels, 3 edits whose writes overlap or fail, 1 restart | types, `ScheduleOrdered`, `AcknowledgedEditsAreOnDisk`, refinement of `SharedGuide` (`KeepsGuidePromise`) |
| `linear_live` | 1 channel, 2 requests, 1 edit, 1 restart, 3 ticks, pools empty or whole, fairness | `SomethingOnAir`, `EveryRequestAnswered` |
| `search_jobs` | 2 jobs, 1 browser, 2 queries (one every source answers, one browse nobody is asked about), 1 provider, threshold 2 | types, `OneLiveJobPerQuery`, `CachedAnswerIsWhole`, `FirstPaintCarriesCatalogue`, `CompletePaintHasEverything`, refinement of `SearchPromise` (`KeepsSearchPromise`) |
| `search_live` | 1 job slot, 2 browsers, 1 query, fairness | `EverySearchSettles` |
| `relays` | `Gateway`: 2 televisions, 2 torrents (one without video), 2 joins each, 1 restart; `Bridge`: 5 requests (a socket, a page, 3 IPTV streams) from 2 addresses, 2 slots per address and 3 in all, a relay cap of 1 chunk and an IPTV cap of 3, 1 restart; in a second scene 3 of them over 2 months; `LinkDesk`: 2 visitors behind one address, 2 links, one of them not public | types, `PrimersAccounted`, `SlotsAccounted`, `IPTVStopsAtItsCap`, `LinksOutliveTheirAnswer`, `EverySessionEnds`, `EveryRelayReturns` |
| `keepers` | library: 1 title in three spellings; cache: 2 callers, 2 releases, 3 puts, 1 restart, 1 unreadable file; pool: 3 programmes; seeds: 2 channels, 3 starts; accounts: the owner's television and a guest's laptop, 3 names, the guest with an owner's address at times; play: 2 players, one item of every kind | types, `OutageCostsOneRequest`, `MarkedStaysDeleted`, `DiskNeverGoesBack`, `EveryFollowerWakes`, `PartialsNeverShrink`, `RevokedTokenStopsWorking` |
| `desks` | shows: 2 viewers, 2 seasons of one episode, 1 failure; films: 2 Radarrs, 2 outages; albums: 2 listeners, 2 albums; addons: 3 addons, 2 browsers, a limit of 2 | types, `NothingElseIsGrabbed`, `FilmInHandIsNotMissing`, `NoDiscographyGrab`, `EpisodesAreSought`, `NoBrowserDropsAnothersAddon` |
| `house` | games: 1 game with up to 2 releases; tuner: a public and a private channel, 2 viewers, 1 mishap; health: each kind of service with an impostor of its id; shelf: 4 items, pages of 2; imports: 3 sets in 3 collections, 1 game; lineup: 2 shows of 3 and 2 episodes, every strategy | types, `LedgerIsHonest`, `TheViewerIsToldTheTruth`, `ScreensAreHonest`, `PoolIsTheShelf`, `WhatWorkedStays`, `EpisodesComeInOrder` |
| `linear_delete_mid_fill`, `search_warmed`, `library_flush`, `specials` | as the runs above | violations, see Findings |

`relays`, `keepers`, `desks` and `house` each hold several modules that share no
state: TLC explores them one at a time, so the state space is the sum of theirs
and not the product.

Bounds. Two requests are what every race in `ensureWindow` needs: one that
commits between another's plan and commit. Time is in slots of a two-slot day
(four in the violation runs), so runs cross midnight, the past buffer and the
end of a schedule; `MaxSlots` is the code's `linearMaxSlots` made small enough
to be reached. Two edits are a creation and a change, or a deletion; the third of the owners'
scene is one whose write overlaps another's. Two job
slots are what a stale key needs (an old job and a newer one for its query);
two browsers are what sharing needs. `Threshold` is `breakerThreshold` at 1 or
2. A gateway needs two joins for a handle to outlive its torrent. A bridge needs three requests of one
address for two to hold what the third wants, another address that competes for
the last slot of all, and two streams open at once beside each other for them to
overdraw together, which the two addresses' IPTV streams do. Three puts are two that race to the disk and one they
replace. Three starts of the process are one that seeds, one that is stopped
half-way and one that finds what is left. Two viewers' requests with one failing
call are what a half-done request met by another needs; one Radarr that lacks a
film and one that has it are what a wrong "missing" needs. Four items on pages
of two are what a shifted page needs. Symmetry is used for requests, jobs and
browsers only where no liveness is checked. `CHECK_DEADLOCK FALSE` stands where
the bounds (edits, time, joins, asks) end a behaviour: an idle server is such a
state.

Fairness. `LinearEngine`: a started request keeps running, since net/http gives
it a goroutine and every library call ends with its context. `SearchJobs`: every
outbound call of a job has a deadline, so its goroutines keep going, and a
browser whose tab is open keeps polling; nothing is assumed of the breaker, of
expiry or of sweeping. `Gateway`: the clock and the reaper's ticker go on, and a
prepare past its metadata only waits for a lock; nothing is assumed of swarms,
televisions or restarts. `Bridge`: a read of a socket that the other half
has closed fails, so does a write to one, and a handler whose halves have ended
returns (`HalfMustEnd`). Nothing makes the first half end, and nothing ends a
write to a browser that is there and does not take it: `c.Write` has no deadline. `SearchCache`: a caller's upstream call has a timeout
and a follower waits on a channel the leader closes. `ShowRequests`: a handler
runs to its end, a viewer who was refused asks again, and Sonarr lists the
episodes of a show it has added; calls fail at most `MaxFailures` times.
`LibraryStore`: the flush loop ticks, and a write that is tried again and again
succeeds at last. `ArchivePool`, `ChannelSeeds`, `Accounts`, `PlayDesk`,
`LinkDesk`, the film, album and addon desks and the modules of `MCHouse` state
no liveness and assume no fairness.

Scope of some properties. `SomethingOnAir` is claimed for channels without a
slot grid (a grid leaves gaps by design) that are not edited in between.
`LinksOutliveTheirAnswer` is claimed up to a restart, which makes a new signing
key. `PartialsNeverShrink` is claimed while a refresh is under way: its end
replaces the pool whatever it found. `MarkedStaysDeleted` is about channels whose
mark is in the file: one that is deleted before its mark is written (the process
stops, or the write fails, between the two files) is not covered, and comes back.
`AcknowledgedEditsAreOnDisk` is about writes of `channels.json` that no other one
overlaps, and about a channel until it is edited again. `DiskNeverGoesBack` is
about files that can be read: one that cannot is replaced as if it were not there.
`EpisodesAreSought` is about requests for an episode; a season or a show that is
asked for is searched for what is monitored at that moment (see Notes). `IPTVStopsAtItsCap` allows each stream and page that the global limit admits the
chunk it is in the middle of. `EveryRelayReturns` says of UDP that the slot comes back once the
browser is gone; while it stays, a relay whose reader timed out keeps its slot. In both protocols a
browser that stalls is excepted (`Stalled`).
`PoolIsTheShelf` claims completeness while nothing is removed, and no repetition
while nothing is added: the code pages by position and promises no more.

## Findings

Each is a run that TLC refutes; `PROJECT.json` quotes the lines.

1. `linear_delete_mid_fill`: deleting a channel while a request is fetching its
   libraries makes that request panic with the engine's mutex locked; every
   later guide request blocks.
2. `search_warmed`: the warmer's indexer-only answer is served as the whole one.
3. `library_flush`: a library write that fails is not tried again until
   something else changes.
4. `specials`: a request for the specials (season 0) of a show that is not in
   the library obtains the whole show. The run `desks` has seasons 1 and 2, and
   the theorem about `NothingElseIsGrabbed` assumes that there is no season 0.

## Notes

Disagreements and surprises met while modelling, which no run is spent on. Those
of the first list can be reached in the models by the steps given; the second
list is from reading.

- An edit between the plan and the commit of a fill is followed by programmes
  picked under the old rules, which the covered check then keeps
  (`linear_epg.go:456` against 158-160).
- A request with nothing to add writes back the cursor it read before another
  one advanced it (`linear_epg.go:461` against 436-438).
- A slow tier that lands while posters are fetched leaves its source pending on
  a complete job, so the whole answer is not cached (`progressive.go:682`
  against 433-434).
- A stream longer than `-max-idle` loses its torrent (`gateway/main.go:266`
  against 64), and what a gateway had stored when it was restarted is never
  wiped (68 against 15).
- A refresh of an archive.org collection that comes back poor replaces a good
  pool for its whole lifetime (`linear_source_archive.go:517`).
- Owners' edits whose writes overlap: the older list can be written last, so an
  edit that was answered with success is lost at the next start
  (`linear_epg.go:694` and 699, outside the lock); and since both share
  `channels.json.tmp`, one can publish what the other has half written, contrary
  to 681-682. A `channels.json` that does not parse is an engine without channels.
- A deletion whose write of `channels.json` fails is not reported, removes the
  schedule file, and comes undone at the next start (`linear_epg.go:206`).
- A browser that stops taking bytes and stays connected holds its relay's down
  half in `c.Write` for as long: even once the up half has ended and closed the
  peer's socket, the handler waits and keeps its slot (`bridge/main.go:300` and 360).
- A request for a whole show after one for an episode or a season finds the show
  monitored, switches nothing on, searches for what is monitored already and
  answers that it "is looking for every episode" (`provider_sonarr.go:743`, 757).
- Two requests for seasons of one show that overlap write back the rows they read:
  the later one switches the earlier one's season off again
  (`provider_sonarr.go:783`).
- A game that moves from the wanted list to the queue between the reads of the
  two is on neither in the answer.
- A seeded channel that is deleted before its mark is written is seeded again
  (`linear_source_archive.go:1065-1067` says it stays deleted).
- `metadataCached` keeps a cancelled visitor's error for 90 s as everyone's
  answer (`play_archive.go:1599`).
- Two dayparts of one name, which `Validate` accepts, share a count, and each
  skips the episodes that the other plays (`linear_scheduler.go:377` against
  103-105); the run's dayparts have different names.
- Removing items while a library is read makes it skip some; adding makes it
  repeat some.

From reading:

- A server that answers 200 with a web page is "unreachable" in the arr
  adapters, Jellyfin's and RomM's, where `provider_arr_common.go:234-237` says
  that is for a network or a service that is down; `MCTroubles` leaves that
  fault out.
- `linear_epg.go:304-311` drops the items a library returned with an error,
  which `linear_source_jellyfin.go:90-93` returns as "a real answer".
- `Preview` evaluates only the channel's rules, so an empty daypart is not
  reported by it, as `linear_scheduler.go:313` assumes. `Validate` accepts year
  rules with `contains`, which never match.
- A save of the addon list that fails answers an error although the list in
  memory has changed, and the registry may be given a list that is already old
  (`addon_api.go:823`).
- The egress' refusal counter is one for the process, so a visitor can be told
  of another's refusal (`link.go:158`); confined, it is read 250 ms late.
- Two imports of the vault at once share a temporary name; a catalogue file is
  renamed without fsync; an empty file loads as an empty catalogue.

## Proofs

`tlapm` checks every theorem for all values of the constants, from the named
assumptions on them (`ConstantsAssumption` and the like, in each module). There
is one proof module for the engine, one for the search, one for
the warmer beside it, and one for each group
of small components that a run checks together; each says first what its
inductive invariant adds, then has one lemma per action, a step lemma and the
theorem. An action property follows from the same invariant: its step lemma
proves the box for every step.

*LinearEngine.* `InvariantHolds`, `TypeCorrect` and `SchedulesStayOrdered`.
`ScheduleOrdered` alone is not inductive: a commit appends what a request filled
some steps earlier, so `EngineInvariant` adds what each request carries
(`RequestInOrder`): its programmes are in order, end by the slot it will fill
next, and the pool it fills from is not empty. The re-check under the lock
(`Overtaken`) then makes the append ordered; edits and prunes take prefixes and
suffixes; a restart loads only files `CheckOrdering` accepts, or that were
ordered when written. `GuidePromiseKept` is the refinement of `SharedGuide`
under `guide <- Listed`: a fill, whichever reader makes it, is an extension at the
end, a prune takes from the front what is past the buffer, an edit cuts what has not
started, a deletion empties the listing, a restart puts another ordered list in its
place, and every other step leaves all listings alone. It needs
`AskedInThePast`, because a request prunes by the moment it was made at.
`EditsSurvive` is about overlapping requests and writes that fail:
`EditsWritten` says that a request that holds a list alone holds the only one,
which agrees with memory but for channels edited since, whose own request has yet
to list them. `SomethingIsOnAir` adds `OnAirInvariant`: what is
listed of a channel, in memory or in its file, and what a request is about to
append, leave no hole between now and the end. Its hypotheses are those of
its run: without a slot grid (with one, a gap is meant), with the rules edited
once at most (a second edit cuts a schedule that another request still answers
from), and with fills that `linearMaxSlots` does not cut short.

*SearchJobs.* `SearchInvariantHolds`, `SearchTypeCorrect`, `OneJobPerQuery` and
`PromiseKept`, the refinement of `SearchPromise`. `SearchInvariant` adds to the
types that an unfinished job is the one its key names (`LiveJobsAreIndexed`),
which is what makes the next request join it, and how a job's goroutines stand
to each other (`GoroutinesInOrder`): nobody can add a card once `run` has passed
its wait group, because the indexer stage only ends when the slow tier has. The
refinement maps each step to a start, growth, completion or expiry of one
answer, or to a stutter. `AnswersInvariant` (`AnswersHold`) is what the three
promises about content need beside it: a goroutine that is past a place has left
behind what the place was for (`Told`), what is cached lacks no source, and a
browser that was told it has everything has painted all that its job holds, as
long as the job is kept (`Satisfied`). `OnlyWholeAnswersAreCached`,
`CatalogueIsInTheFirstPaint` and `CompleteMeansEverything` follow from it.

*SearchWarmer.* `WarmedSearchesAnswer` and `WarmedPromiseKept`: the warmer's steps
leave jobs, paints and browsers alone, and what those promise (`AnswersGiven`)
never rested on the cache, because a hit has no job. So the damage of finding 2
ends at the cache: only `CachedAnswerIsWhole` is lost beside the warmer.

*Gateway.* `GatewayInvariantHolds` and `EveryPrimerIsAccounted`: with the types,
`PrimersAccounted` is inductive as it stands. The work is in counting: a step
that registers a request moves its primer from the requests to the sessions, and
the reaper drops a session together with its primer.

*Bridge.* `BridgeInvariantHolds`, `SlotsAreConnections` and
`StreamsStopAtTheirCap`. The cap is not inductive alone, because a restart goes
back to the saved counters: `SavedIsBounded` bounds what was written down too.
The global limit holds because the slots that `acquire` adds up are as many as
the requests that hold one; the sum over the addresses is written as the size of
a set (`TakenSlots`), so that a request and its slot can be paired off.

*LinkDesk.* `HeldLinksStayGood`. `LinkInvariant` is the types and that the gate
counts the downloads of each address (`GateCounts`); the links of an answer that
is kept are as old as the answer, under the key it was signed with.
`RelaysAreTyped` collects the types of the three relays.

*What is kept.* `FilesNeverGoBack` needs that a caller that writes has an entry to write (and says
nothing of a file that could not be read), `DeletedSeedsStayDeleted`, which is about channels the marker file names, that what
is marked there is marked in the process that is seeding, `PoolsNeverShrink` only the types.
`RevokedTokensStopWorking` counts down: `TokenIsRunningOut` bounds the time since
a revocation plus what is left of a remembered answer by the memory's length,
and an answer in flight by the request's own time. `PlayInvariantHolds` and
`AnOutageCostsOneRequest`: `Collapsed` says that an item has only cost a request
if its answer is kept or being asked for, and `FlightsAreLed` that each flight
belongs to one player, who is asking, so that nobody else can land it or start a
second one beside it. `KeepersAreTyped` collects the types of all six.

*ShowRequests.* `RequestsAreHonest` and `NothingElseIsEverGrabbed`, for seasons
without season 0: the run `specials` is the counterexample with it (finding 4).
`Honest` adds what a request carries from one call to the next: the row it read
had nothing switched on that was not asked for, and whoever goes on to switch
something on had asked to obtain it.

*AlbumRequests.* `RequestsAreModest` and `NoDiscographyIsGrabbed`. `Modest` adds
that an artist is only added with everything monitored once every album was
asked for, and that what the errands under way would switch on was asked for.

*FilmDesk.* `FilmsAreFollowed` and `FilmInHandIsNeverMissing`. `Followed` keeps,
for each instance that had the film when the question was put, that it has it
still and is yet to answer, is named as failed, or was heard with a state that
`Better` never gives up again; and that it is not taken half-way for an instance
that only has the film on the shelf, which would report it missing.

*AddonDesk.* `NoAddonIsDropped` and `AddonsAreTyped`. `AddonLists` says only that the
lists stay lists; the work is in `Reorder`. A stable sort is described by how many rows come before
each one (`Ahead`): "before" is a strict total order, so no two rows have equally
many before them, and a list of n rows has one for every place from 1 to n. No row
is lost, and two that were not named stay as they stood.
`AddonShapes` adds that every list, in memory, on disk, in the registry and in what a
browser was shown, names an addon once and no more than are allowed (`IsRoster`),
which a sort, a filter and a removal keep (`RostersAreKept`), and that a search waits
only for addons on the list it was started with. `DesksAreTyped` collects the types of
all four desks; it needs no hypothesis about season 0.

*RomImports.* `CataloguesOnlyGain`. A catalogue reaches the server through three
stages, so `ImportsInvariant` compares them in a row (`FilesOnlyGain`): the
server's copy has nothing the published file lacks, and a file that is being
written nothing less than the published one, except for sets of collections the
last walk has seen.

*TuneIn.* `ViewersAreToldTheTruth`, with the types. `TrulyTold` follows one
viewer's request down the chain: if the server of the programme was already
asked and passed, its error was a real one or the file is deleted
(`AskedInVain`), so that "gone" is only said of a deleted file; and what plays
begins where the channel was when it was asked (`BeginsWell`), which needs, of
the guide, that a file is as long as its slot unless its server keeps its last
second clear.

*GameDesk.* `LedgersAreHonest`, with the types. A question keeps what stayed on
its list and what was playable since it was put; `AskedNow` says that this is so
of the lists as they are while it is out, and `SaidSoFar` that the queue already
read has what stayed on it, that a game it holds is not reported as wanted as well, and that nothing was
called available that was not.

*ServiceHealth.* `ScreensSayWhatIsSo`. A check carries the faults its service had
at every moment and at some moment (`always`, `ever`); `CheckIsFair` adds that a
check with a second question put its first one to a service with which its
ladder found nothing wrong. What each ladder says is a table of lemmas, and
`FirstIsDeserved` and `SecondIsDeserved` compare it with what the fault is
called. The hypothesis `"webPage" \notin Troubles` is needed (see Notes); the
run leaves that fault out for the same reason.

*MediaShelf.* `PoolsAreTheShelf`. `ReadIsSound` says of a read under way what the
pool is to be in the end: it has every item on the shelf that did not come since
and stands no further back than it has read (unless something went), and what it
has of items still there stands within what it has read (unless something came).
An item that comes pushes others back, one that goes lets them forward
(`PlacesGrow`); a short page is the last one because the places of a shelf are
filled without a gap (`PlacesAreFilled`, `PagesAreFull`).

*ChannelLineup.* `EpisodesStayInOrder` and `LineupsAreTyped`. Every strategy deals turns
in rounds: a round gives each show a fixed number of turns in a row, from a place that
a permutation or the order of the shows decides (`TurnsAt`, `OneTurnEach`). From that a
show has had a number of turns that its part's count alone decides
(`RoundsAreShared`, `ATurnEach`), and its next turn is the next of its episodes
(`BlocksInTurn`, `LibraryInTurn`). `LineupInvariant` is the types and that no show had
more turns than its part's count; `TurnsAreCounted` that it had exactly as many, and
which episode was its last. The second needs the hypothesis `PartsAreNamedApart`: two
parts with one name are counted as one (`linearBuildPicker`), and `Validate` does not
refuse them. The drafts of the run satisfy it. A name that reads like the default of an
unnamed part ("part1") is left out of the model, and of the theorem. How far a count can
go is the size of the set of all turns so far (`Placed`, `CountsAreFew`).

*Lines.* What the sorts and filters of the last two rest on: a set that an order puts in
line has every element at one place, and no place is empty (`Preceding`,
`ALineIsThere`, `PlacesAscend`); a list cut down to some places keeps its rows and
their order (`RowsAreKept`); and a list that names nothing twice is as long as the set
of what it names (`EachCountsOnce`).

*The types of the house.* `HouseIsTyped` collects the types of six modules; for the
health checks and the shelf they are invariants of their own (`HealthShapes`,
`ShelfShapes`), since the properties proved above never needed all of them.

Only model-checked:

- Liveness (`EveryRequestAnswered`, `EverySearchSettles`, `EverySessionEnds`,
  `EveryRelayReturns`, `EveryFollowerWakes`, `EpisodesAreSought`): temporal
  reasoning under fairness and `ENABLED` are out of the prover's reach.
- The four violations (see Findings): TLC's counterexamples.

## Not modelled

Pure conversions (release-name matching, categories, schema, M3U, manifests,
artwork), parsing of archive and catalogue pages, the choice of a file inside an
item, range proxying, user interface code, packaging and the mail edge. The
tracker announce of the bridge, the pairing codes of `device.go` (kept by the
identity provider) and the wording of guides. The extension's proxy and UDP-lock
settings live in the browser's own settings store, whose failures are not
documented in `src/`; a model of them would be about the browser.

## Plan

1. The first tab's whole path: `SearchWarmer` with the archive.org request of the
   same pass, which fills another key.
2. The pairing codes of `device.go`, and the tracker announce of the bridge.
