----------------------------- MODULE SearchJobs -----------------------------
(***************************************************************************)
(* Progressive search: search/progressive.go, the handlers and the search  *)
(* cache of search/main.go, the two indexer tiers of search/fanout.go, and *)
(* the collecting client of web/src/progressive.js.                        *)
(*                                                                         *)
(* A search is a job with its own goroutines: the local catalogues, then   *)
(* archive.org, the torrent indexers and the public ROM providers side by  *)
(* side, and a slow indexer tier that outlives the call which started it.  *)
(* Each goroutine has a place in job.at.  A request starts or joins the    *)
(* job of its query and paints what there is; the client polls for more.   *)
(*                                                                         *)
(* A card stands for everything its source finds.  Artwork is left out:    *)
(* enrichArt only writes pictures into cards that are already there, but   *)
(* the time it takes between two steps is in the interleavings.  Deadlines *)
(* are left to the order they impose: the slow tier starts within 13 s, is *)
(* abandoned after 45 s, and is waited for 47 s or until the job is 70 s   *)
(* old, so it has ended by the time nobody waits.                          *)
(***************************************************************************)
EXTENDS Naturals, FiniteSets

CONSTANTS
    Jobs,          \* job slots; a bound on the jobs alive at once
    Clients,       \* browsers with one search each
    Keys,          \* a query and kind: what searchCacheKey tells apart
    CatalogueKeys, \* the keys the local catalogues hold something for
    ArchiveKeys,   \* the kinds archive.org has a scope for
    WordyKeys,     \* the queries that are not empty
    Providers,     \* the ROM providers and Minerva's live search
    ProviderKeys,  \* [Providers -> the keys each of them is asked about]
    Threshold,     \* breakerThreshold
    None           \* no job, no cache entry

Sources    == {"catalogues", "archive", "indexers", "slowIndexers"} \cup Providers
Cards      == Sources
Goroutines == {"run", "archive", "indexers", "slow"} \cup Providers
States     == {"unasked", "pending", "ok", "failed", "unavailable",
               "notConfigured", "none"}
Places == {"off", "catalogues", "spawn", "wait", "finish", "start", "list",
           "fast", "aggregate", "landed", "posters", "await", "run", "done"}
Job == [key : Keys, cards : SUBSET Cards, sources : [Sources -> States],
        firstWave : BOOLEAN, slowLanded : BOOLEAN,
        complete : BOOLEAN, age : {"fresh", "stale", "dead"},
        at : [Goroutines -> Places]]

ASSUME ConstantsAssumption ==
    /\ CatalogueKeys \subseteq Keys /\ ArchiveKeys \subseteq Keys
    /\ WordyKeys \subseteq Keys /\ ProviderKeys \in [Providers -> SUBSET Keys]
    /\ Threshold \in Nat \ {0}
    /\ Providers \cap {"catalogues", "archive", "indexers", "slowIndexers",
                       "run", "slow"} = {}
    /\ None \notin Jobs \cup Job

VARIABLES
    config,    \* which server this is: has it a Prowlarr key, slow indexers
    jobs,      \* the searchJobs, None for a free slot
    byID,      \* jobStore.byID: the jobs that can be collected
    byKey,     \* jobStore.byKey
    breaker,   \* indexerBreaker: failures in a row, and whether it is open
    cache,     \* server.cache: a whole answer per key, fresh or expired
    client     \* the browsers

vars == <<config, jobs, byID, byKey, breaker, cache, client>>
store == <<byID, byKey>>

\* (slip: the catalogues are scanned beside archive.org)
NewJobAllAtOnce(k) ==
    [key |-> k, cards |-> {}, sources |-> [s \in Sources |-> "unasked"],
     firstWave |-> FALSE, slowLanded |-> FALSE,
     complete |-> FALSE, age |-> "fresh",
     at |-> [g \in Goroutines |-> IF g = "run" THEN "catalogues"
                                  ELSE IF g = "archive" THEN "run" ELSE "off"]]

NewJob(k) ==
    [key |-> k, cards |-> {}, sources |-> [s \in Sources |-> "unasked"],
     firstWave |-> FALSE, slowLanded |-> FALSE,
     complete |-> FALSE, age |-> "fresh",
     at |-> [g \in Goroutines |-> IF g = "run" THEN "catalogues" ELSE "off"]]

NoSearch == [at |-> "idle", job |-> None, painted |-> {}, complete |-> FALSE]

Init ==
    /\ config \in [apiKey : BOOLEAN, slowTier : BOOLEAN]
    /\ jobs = [j \in Jobs |-> None]
    /\ byID = {}
    /\ byKey = [k \in Keys |-> None]
    /\ breaker = [fails |-> 0, open |-> FALSE]
    /\ cache = [k \in Keys |-> None]
    /\ client = [c \in Clients |-> NoSearch]

-----------------------------------------------------------------------------
(* The job: add, mark and where its goroutines stand.                      *)
Add(job, found)     == [job EXCEPT !.cards = @ \cup found]
Mark(job, s, state) == [job EXCEPT !.sources[s] = state]
At(job, g, place)   == [job EXCEPT !.at[g] = place]

Standing(j, g, place) == jobs[j] # None /\ jobs[j].at[g] = place
Becomes(j, job) == jobs' = [jobs EXCEPT ![j] = job]

\* What a source that has spoken leaves behind: its cards if it answered, its
\* state either way, and its goroutine gone.
Answered(job, g, s, found) == At(Mark(Add(job, found), s, "ok"), g, "done")
Refused(job, g, s, state)  == At(Mark(job, s, state), g, "done")

(***************************************************************************)
(* run.  The catalogues are in memory, and run first and alone.            *)
(***************************************************************************)
CatalogueStages(j) ==
    LET job == jobs[j] IN
    /\ Standing(j, "run", "catalogues")
    /\ Becomes(j, At(IF job.key \in CatalogueKeys
                     THEN Mark(Add(job, {"catalogues"}), "catalogues", "ok")
                     ELSE Mark(job, "catalogues", "none"), "run", "spawn"))
    /\ UNCHANGED <<config, store, breaker, cache, client>>

\* The goroutines start; a source with nothing to say about this kind is marked
\* and does not, and without archive.org nothing holds the first paint.
Spawn(j) ==
    LET job == jobs[j]
        asked == (IF job.key \in ArchiveKeys THEN {"archive"} ELSE {}) \cup
                 {p \in Providers : job.key \in ProviderKeys[p]}
    IN  /\ Standing(j, "run", "spawn")
        /\ Becomes(j, [job EXCEPT
              !.sources = [s \in Sources |->
                    IF s \in asked THEN "pending"
                    ELSE IF s \in {"archive"} \cup Providers THEN "none"
                    ELSE job.sources[s]],
              !.at = [g \in Goroutines |->
                    IF g = "run" THEN "wait"
                    ELSE IF g = "indexers" THEN "start"
                    ELSE IF g \in asked THEN "run"
                    ELSE IF g = "slow" THEN "off" ELSE "done"],
              !.firstWave = job.key \notin ArchiveKeys])
        /\ UNCHANGED <<config, store, breaker, cache, client>>

(***************************************************************************)
(* archive.org, and the providers: asked once, with the job's context.     *)
(***************************************************************************)
ArchiveAnswers(j) ==
    /\ Standing(j, "archive", "run")
    /\ \E job \in {Answered(jobs[j], "archive", "archive", {"archive"}),
                   Refused(jobs[j], "archive", "archive", "failed")} :
          Becomes(j, [job EXCEPT !.firstWave = TRUE])
    /\ UNCHANGED <<config, store, breaker, cache, client>>

ProviderAnswers(j, p) ==
    /\ Standing(j, p, "run")
    /\ \E job \in {Answered(jobs[j], p, p, {p}), Refused(jobs[j], p, p, "failed")} :
          Becomes(j, job)
    /\ UNCHANGED <<config, store, breaker, cache, client>>

(***************************************************************************)
(* The breaker.  Failures past the threshold are not counted apart.        *)
(***************************************************************************)
Failure ==
    LET fails == IF breaker.fails < Threshold THEN breaker.fails + 1
                 ELSE Threshold
    IN  breaker' = [fails |-> fails, open |-> breaker.open \/ fails = Threshold]
Success == breaker' = [fails |-> 0, open |-> FALSE]

\* 30 s pass; the failures stay counted.
CooldownPasses ==
    /\ breaker.open
    /\ breaker' = [breaker EXCEPT !.open = FALSE]
    /\ UNCHANGED <<config, jobs, store, cache, client>>

(***************************************************************************)
(* indexerStage, and searchTiered inside it.                               *)
(***************************************************************************)
\* An empty query, a server without a key and an open breaker ask nobody.
NotAsked(j) ==
    IF jobs[j].key \notin WordyKeys THEN "none"
    ELSE IF ~config.apiKey THEN "notConfigured"
    ELSE IF breaker.open THEN "unavailable"
    ELSE "pending"

IndexersStart(j) ==
    /\ Standing(j, "indexers", "start")
    /\ Becomes(j, IF NotAsked(j) = "pending"
                  THEN At(Mark(jobs[j], "indexers", "pending"), "indexers", "list")
                  ELSE Refused(jobs[j], "indexers", "indexers", NotAsked(j)))
    /\ UNCHANGED <<config, store, breaker, cache, client>>

\* The list of indexers, from its own cache or from Prowlarr.
TiersListed(j) ==
    /\ Standing(j, "indexers", "list")
    /\ Becomes(j, At(jobs[j], "indexers", "fast"))
    /\ UNCHANGED <<config, store, breaker, cache, client>>

TiersUnreachable(j) ==
    /\ Standing(j, "indexers", "list")
    /\ Failure
    /\ Becomes(j, Refused(jobs[j], "indexers", "indexers", "unavailable"))
    /\ UNCHANGED <<config, store, cache, client>>

\* The fast tier answers searchTiered, which sends the slow one on its way.
FastTierAnswers(j) ==
    /\ Standing(j, "indexers", "fast")
    /\ Becomes(j, At(At(jobs[j], "slow", IF config.slowTier THEN "run" ELSE "off"),
                     "indexers", "landed"))
    /\ UNCHANGED <<config, store, breaker, cache, client>>

FastTierFails(j) ==
    /\ Standing(j, "indexers", "fast")
    /\ Failure
    /\ Becomes(j, At(jobs[j], "indexers", "aggregate"))
    /\ UNCHANGED <<config, store, cache, client>>

\* The unscoped call to every indexer at once, when the tiers have failed.
AllIndexers == {"indexers"} \cup (IF config.slowTier THEN {"slowIndexers"} ELSE {})

AggregateAnswers(j) ==
    /\ Standing(j, "indexers", "aggregate")
    /\ Success
    /\ Becomes(j, Answered(jobs[j], "indexers", "indexers", AllIndexers))
    /\ UNCHANGED <<config, store, cache, client>>

AggregateFails(j) ==
    /\ Standing(j, "indexers", "aggregate")
    /\ Becomes(j, Refused(jobs[j], "indexers", "indexers", "failed"))
    /\ UNCHANGED <<config, store, breaker, cache, client>>

\* The fast cards are in.  Posters are fetched for them next, which takes as
\* long as it takes, and only then is the slow tier looked at.
FastCardsIn(j) ==
    LET job == Answered(jobs[j], "indexers", "indexers", {"indexers"}) IN
    /\ Standing(j, "indexers", "landed")
    /\ Success
    /\ Becomes(j, IF job.at["slow"] = "off" THEN job
                  ELSE At(job, "indexers", "posters"))
    /\ UNCHANGED <<config, store, cache, client>>

WaitForSlowTier(j) ==
    /\ Standing(j, "indexers", "posters")
    /\ Becomes(j, At(Mark(jobs[j], "slowIndexers", "pending"), "indexers", "await"))
    /\ UNCHANGED <<config, store, breaker, cache, client>>

\* The slow tier calls back with both tiers' cards, or, when it found nothing
\* or failed, not at all.
SlowTierLands(j) ==
    /\ Standing(j, "slow", "run")
    /\ Becomes(j, [Answered(jobs[j], "slow", "slowIndexers",
                            {"indexers", "slowIndexers"}) EXCEPT !.slowLanded = TRUE])
    /\ UNCHANGED <<config, store, breaker, cache, client>>

SlowTierSilent(j) ==
    /\ Standing(j, "slow", "run")
    /\ Becomes(j, At(jobs[j], "slow", "done"))
    /\ UNCHANGED <<config, store, breaker, cache, client>>

SlowTierSeen(j) ==
    /\ Standing(j, "indexers", "await")
    /\ jobs[j].slowLanded
    /\ Becomes(j, At(jobs[j], "indexers", "done"))
    /\ UNCHANGED <<config, store, breaker, cache, client>>

\* The wait of slowTierBudget and two seconds, or the job's own context, runs
\* out: the slow tier, whose budget is shorter, has ended without calling back.
\* (slip: the wait is shorter than the budget)
WaitRunsOutEarly(job) == ~job.slowLanded
\* (slip: no deadline, only the callback ends the wait)
WaitNeverRunsOut(job) == FALSE
WaitRunsOut(job) == ~job.slowLanded /\ job.at["slow"] = "done"

SlowTierGivenUp(j) ==
    /\ Standing(j, "indexers", "await")
    /\ WaitRunsOut(jobs[j])
    /\ Becomes(j, Refused(jobs[j], "indexers", "slowIndexers", "failed"))
    /\ UNCHANGED <<config, store, breaker, cache, client>>

(***************************************************************************)
(* The end of run: everyone in the wait group has spoken, the whole answer *)
(* is cached unless it is degraded, and the job is complete.               *)
(***************************************************************************)
\* (slip: only a failure stops the answer from being cached)
CacheableUnlessFailed(sources) == \A s \in Sources : sources[s] # "failed"
Cacheable(sources) ==
    \A s \in Sources : sources[s] \notin {"failed", "unavailable", "pending"}

\* (slip: the providers are not in the wait group)
AllSpokenButProviders(job) == \A g \in {"archive", "indexers"} : job.at[g] = "done"
AllSpoken(job) == \A g \in {"archive", "indexers"} \cup Providers : job.at[g] = "done"

CacheAnswer(j) ==
    LET job == jobs[j] IN
    /\ Standing(j, "run", "wait")
    /\ AllSpoken(job)
    /\ cache' = IF job.cards # {} /\ Cacheable(job.sources)
                THEN [cache EXCEPT ![job.key] = [cards |-> job.cards, fresh |-> TRUE]]
                ELSE cache
    /\ Becomes(j, At(job, "run", "finish"))
    /\ UNCHANGED <<config, store, breaker, client>>

Finish(j) ==
    /\ Standing(j, "run", "finish")
    /\ Becomes(j, [At(jobs[j], "run", "done") EXCEPT
                     !.complete = TRUE, !.firstWave = TRUE])
    /\ UNCHANGED <<config, store, breaker, cache, client>>

(***************************************************************************)
(* The store.  A completed job is joined for another 15 s ("fresh") and    *)
(* collectable for 3 min ("dead" after that), until a sweep drops it.      *)
(***************************************************************************)
\* A request waits for its first paint for 200 ms, never that long.
JobAges(j) ==
    /\ jobs[j] # None /\ jobs[j].complete /\ jobs[j].age # "dead"
    /\ \A c \in Clients : ~(client[c].at = "waiting" /\ client[c].job = j)
    /\ Becomes(j, [jobs[j] EXCEPT !.age = IF @ = "fresh" THEN "stale" ELSE "dead"])
    /\ UNCHANGED <<config, store, breaker, cache, client>>

Dead(job) == job.complete /\ job.age = "dead"

\* (slip: only byID is swept)
WithoutNone(index, gone) == index
\* (slip: the key is dropped whichever job it now names)
WithoutAnyOf(index, gone) ==
    [k \in Keys |-> IF \E j \in gone : jobs[j].key = k THEN None ELSE index[k]]
Without(index, gone) == [k \in Keys |-> IF index[k] \in gone THEN None ELSE index[k]]

\* The slot of a swept job is free again once no browser holds its id.
Sweep ==
    LET gone == {j \in byID : Dead(jobs[j])} IN
    /\ gone # {}
    /\ byID' = byID \ gone
    /\ byKey' = Without(byKey, gone)
    /\ jobs' = [j \in Jobs |-> IF j \in gone THEN None ELSE jobs[j]]
    /\ UNCHANGED <<config, breaker, cache, client>>

\* An entry expires, and a day later is evicted.
CacheAges(k) ==
    /\ cache[k] # None
    /\ cache' = [cache EXCEPT ![k] = IF @.fresh THEN [@ EXCEPT !.fresh = FALSE]
                                    ELSE None]
    /\ UNCHANGED <<config, jobs, store, breaker, client>>

(***************************************************************************)
(* The browser: runSearch, against handleSearch and handleSearchCollect.   *)
(***************************************************************************)
Hit(k) == cache[k] # None /\ cache[k].fresh
Old(k) == IF cache[k] = None THEN {} ELSE cache[k].cards
Joinable(k) == byKey[k] # None /\ (~jobs[byKey[k]].complete \/ jobs[byKey[k]].age = "fresh")
Paint(c, search) == client' = [client EXCEPT ![c] = search]
AtRest(c) == client[c].at = "idle"

AskHit(c, k) ==
    /\ AtRest(c)
    /\ Hit(k)
    /\ Paint(c, [at |-> "settled", job |-> None, painted |-> cache[k].cards,
                 complete |-> TRUE])
    /\ UNCHANGED <<config, jobs, store, breaker, cache>>

AskJoin(c, k) ==
    /\ AtRest(c)
    /\ ~Hit(k)
    /\ Joinable(k)
    /\ Paint(c, [NoSearch EXCEPT !.at = "waiting", !.job = byKey[k]])
    /\ UNCHANGED <<config, jobs, store, breaker, cache>>

AskStart(c, k, j) ==
    /\ AtRest(c)
    /\ ~Hit(k)
    /\ ~Joinable(k)
    /\ jobs[j] = None /\ \A d \in Clients \ {c} : client[d].job # j
    /\ Becomes(j, NewJob(k))
    /\ byID' = byID \cup {j}
    /\ byKey' = [byKey EXCEPT ![k] = j]
    /\ Paint(c, [NoSearch EXCEPT !.at = "waiting", !.job = j])
    /\ UNCHANGED <<config, breaker, cache>>

\* What the handler and a poll answer: the job as it stands, and what memory
\* has for the same words.
Collected(c, borrowed) ==
    LET job == jobs[client[c].job] IN
    [at |-> IF job.complete THEN "settled" ELSE "polling",
     job |-> client[c].job,
     painted |-> client[c].painted \cup job.cards \cup borrowed,
     complete |-> job.complete]

\* The first paint goes out with the first wave, or after its budget without.
FirstPaint(c) ==
    /\ client[c].at = "waiting"
    /\ jobs[client[c].job] # None
    /\ Paint(c, Collected(c, Old(jobs[client[c].job].key)))
    /\ UNCHANGED <<config, jobs, store, breaker, cache>>

Poll(c) ==
    /\ client[c].at = "polling"
    /\ client[c].job \in byID
    /\ Paint(c, Collected(c, Old(jobs[client[c].job].key)))
    /\ UNCHANGED <<config, jobs, store, breaker, cache>>

\* 410: the job was swept while the tab was in the background.
PollGone(c) ==
    /\ client[c].at = "polling"
    /\ client[c].job \notin byID
    /\ Paint(c, [client[c] EXCEPT !.at = "settled"])
    /\ UNCHANGED <<config, jobs, store, breaker, cache>>

\* POLL_CEILING_MS, or a newer search takes the tab.
StopPolling(c) ==
    /\ client[c].at = "polling"
    /\ Paint(c, [client[c] EXCEPT !.at = "settled"])
    /\ UNCHANGED <<config, jobs, store, breaker, cache>>

\* The results are left for another page.
Leave(c) ==
    /\ client[c].at = "settled"
    /\ Paint(c, NoSearch)
    /\ UNCHANGED <<config, jobs, store, breaker, cache>>

-----------------------------------------------------------------------------
JobStep(j) ==
    \/ CatalogueStages(j) \/ Spawn(j) \/ ArchiveAnswers(j)
    \/ \E p \in Providers : ProviderAnswers(j, p)
    \/ IndexersStart(j) \/ TiersListed(j) \/ TiersUnreachable(j)
    \/ FastTierAnswers(j) \/ FastTierFails(j)
    \/ AggregateAnswers(j) \/ AggregateFails(j)
    \/ FastCardsIn(j) \/ WaitForSlowTier(j)
    \/ SlowTierLands(j) \/ SlowTierSilent(j) \/ SlowTierSeen(j) \/ SlowTierGivenUp(j)
    \/ CacheAnswer(j) \/ Finish(j)

ClientStep(c) == FirstPaint(c) \/ Poll(c) \/ PollGone(c)

Next ==
    \/ \E j \in Jobs : JobStep(j) \/ JobAges(j)
    \/ CooldownPasses
    \/ Sweep
    \/ \E k \in Keys : CacheAges(k)
    \/ \E c \in Clients :
          \/ ClientStep(c) \/ StopPolling(c) \/ Leave(c)
          \/ \E k \in Keys : \/ AskHit(c, k) \/ AskJoin(c, k)
                             \/ \E j \in Jobs : AskStart(c, k, j)

Spec == Init /\ [][Next]_vars

\* Every outbound call of a job has a deadline, so its goroutines keep going;
\* a browser with its tab open keeps polling.
FairSpec == /\ Spec
            /\ \A j \in Jobs : WF_vars(JobStep(j))
            /\ \A c \in Clients : WF_vars(ClientStep(c))

-----------------------------------------------------------------------------
Search == [at : {"idle", "waiting", "polling", "settled"},
           job : Jobs \cup {None}, painted : SUBSET Cards, complete : BOOLEAN]

TypeOK ==
    /\ config \in [apiKey : BOOLEAN, slowTier : BOOLEAN]
    /\ jobs \in [Jobs -> Job \cup {None}]
    /\ byID \in SUBSET {j \in Jobs : jobs[j] # None}
    /\ byKey \in [Keys -> byID \cup {None}]
    /\ breaker \in [fails : 0..Threshold, open : BOOLEAN]
    /\ cache \in [Keys -> [cards : SUBSET Cards, fresh : BOOLEAN] \cup {None}]
    /\ client \in [Clients -> Search]

\* jobStore: two people searching the same thing share one job "instead of
\* doubling the load on Prowlarr", whatever has been swept in between.
OneLiveJobPerQuery ==
    \A i, j \in Jobs :
        /\ jobs[i] # None /\ jobs[j] # None
        /\ jobs[i].key = jobs[j].key
        /\ ~jobs[i].complete /\ ~jobs[j].complete
        => i = j

\* Why: a job still running is the one its key names, so the next request for
\* the key joins it.
LiveJobsAreIndexed ==
    \A j \in Jobs : jobs[j] # None /\ ~jobs[j].complete =>
        j \in byID /\ byKey[jobs[j].key] = j

\* How the goroutines of a job stand to each other: none before run has scanned
\* the catalogues, none left once it is past its wait group, and the slow tier
\* out only while indexerStage is still to see it end.
GoroutinesInOrder(job) ==
    LET others == {"archive", "indexers"} \cup Providers
        ix == job.at["indexers"]
        slow == job.at["slow"]
    IN  /\ job.at["run"] \in {"catalogues", "spawn", "wait", "finish", "done"}
        /\ job.at["run"] \in {"catalogues", "spawn"} =>
              slow = "off" /\ \A g \in others : job.at[g] = "off"
        /\ job.at["run"] \in {"finish", "done"} =>
              slow # "run" /\ \A g \in others : job.at[g] = "done"
        /\ job.complete <=> job.at["run"] = "done"
        /\ slow = "run" => ix \in {"landed", "posters", "await"}
        /\ ix \in {"start", "list", "fast", "aggregate"} => slow = "off"
        /\ job.slowLanded => slow = "done"

\* The inductive invariant behind OneLiveJobPerQuery and KeepsSearchPromise.
SearchInvariant ==
    /\ TypeOK
    /\ LiveJobsAreIndexed
    /\ \A j \in Jobs : jobs[j] # None => GoroutinesInOrder(jobs[j])
    /\ \A c \in Clients : client[c].at \in {"waiting", "polling"} =>
          client[c].job \in Jobs

\* A cache hit is served as the complete answer for 45 minutes, so what run
\* puts there lacks no source that applies to the query: a degraded or
\* unfinished answer never becomes the canonical one.
Whole(k) ==
    UNION {IF k \in CatalogueKeys THEN {"catalogues"} ELSE {},
           IF k \in ArchiveKeys THEN {"archive"} ELSE {},
           {p \in Providers : k \in ProviderKeys[p]},
           IF k \in WordyKeys /\ config.apiKey THEN AllIndexers ELSE {}}
CachedAnswerIsWhole == \A k \in Keys : cache[k] # None => Whole(k) \subseteq cache[k].cards

\* run: a paint the first wave lets go carries the catalogue's cards; "anything
\* that adds cards after that release has missed the paint".
FirstPaintCarriesCatalogue ==
    \A j \in Jobs :
        jobs[j] # None /\ jobs[j].firstWave /\ jobs[j].key \in CatalogueKeys
        => "catalogues" \in jobs[j].cards

\* A browser that has been told its search is complete has painted everything
\* the job ever collects.
CompletePaintHasEverything ==
    \A c \in Clients :
        LET j == client[c].job IN
        /\ client[c].at = "settled" /\ client[c].complete
        /\ j # None
        /\ jobs[j] # None
        => jobs[j].cards \subseteq client[c].painted

\* The jobs keep the promise of SearchPromise: an answer grows until it is
\* called complete, and never changes after.
Answer  == [j \in Jobs |-> IF jobs[j] = None THEN {} ELSE jobs[j].cards]
Phase   == [j \in Jobs |-> IF jobs[j] = None THEN "none"
                           ELSE IF jobs[j].complete THEN "final" ELSE "growing"]
Promise == INSTANCE SearchPromise WITH answer <- Answer, phase <- Phase
KeepsSearchPromise == Promise!Spec

\* Whatever the indexers do, every search ends: its browser is answered, and
\* stops polling because it was told the answer is complete or gone.
EverySearchSettles ==
    \A c \in Clients : client[c].at # "settled" /\ client[c].at # "idle"
                        ~> client[c].at = "settled"
=============================================================================
