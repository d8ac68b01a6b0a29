----------------------------- MODULE ArchivePool -----------------------------
(***************************************************************************)
(* An archive.org collection as a library of the linear engine             *)
(* (linear_source_archive.go): readers take the pool that is in hand, a    *)
(* detached refresh replaces it, and publishes what it has on the way.     *)
(*                                                                         *)
(* The collection is the set Programmes throughout; what changes is        *)
(* whether archive.org answers.  Time is in ticks of the refresh backoff.  *)
(***************************************************************************)
EXTENDS Naturals, FiniteSets

CONSTANTS
    Programmes,      \* the public-domain items of the collection, with a file
    FirstLight, PublishEvery,   \* archiveLinearFirstLight, -PublishEvery
    PoolTTL,         \* archiveLinearTTL, in ticks
    RetryMax,        \* archiveLinearRetryMax, in ticks of archiveLinearRetryBase
    MaxFailures      \* bound: failures beyond it back off alike

ASSUME PoolAssumption ==
    /\ IsFiniteSet(Programmes) /\ Programmes # {}
    /\ {FirstLight, PublishEvery, PoolTTL, RetryMax, MaxFailures} \subseteq Nat \ {0}
    /\ 2 ^ (MaxFailures - 1) >= RetryMax

VARIABLES
    pool,      \* cached: [some |-> whether it was ever set, items |-> what is in it]
    age,       \* ticks since fetched, PoolTTL when it ran out
    failures,  \* and the ticks to nextTry
    nextTry,
    crawl,     \* the refresh: where it is, what it resolved, what it found
    partials,  \* snapshots taken and not yet published
    archive    \* which of archive.org's two services answer

poolVars == <<pool, age, failures, nextTry, crawl, partials, archive>>

NoCrawl == [at |-> "none", done |-> {}, found |-> {}]
Services == {"search", "metadata"}

PoolInit ==
    /\ pool = [some |-> FALSE, items |-> {}]
    /\ age = PoolTTL
    /\ failures = 0
    /\ nextTry = 0
    /\ crawl = NoCrawl
    /\ partials = {}
    /\ archive \in SUBSET Services

building == crawl.at # "none"
Stale == ~pool.some \/ age >= PoolTTL

\* LinearItems and Warm: startRefreshLocked, for whoever happens to read.
ReadPool ==
    /\ ~building /\ nextTry = 0 /\ Stale
    /\ crawl' = [NoCrawl EXCEPT !.at = "search"]
    /\ UNCHANGED <<pool, age, failures, nextTry, partials, archive>>

\* archiveLinearBackoff: doubling from one tick, up to RetryMax.
Backoff(n) == IF 2 ^ (n - 1) \in 1..RetryMax THEN 2 ^ (n - 1) ELSE RetryMax

SearchFails ==
    /\ crawl.at = "search" /\ "search" \notin archive
    /\ failures' = IF failures < MaxFailures THEN failures + 1 ELSE failures
    /\ nextTry' = Backoff(failures')
    /\ crawl' = NoCrawl
    /\ UNCHANGED <<pool, age, partials, archive>>

SearchAnswers ==
    /\ crawl.at = "search" /\ "search" \in archive
    /\ crawl' = [crawl EXCEPT !.at = "items"]
    /\ UNCHANGED <<pool, age, failures, nextTry, partials, archive>>

\* One candidate's goroutine: itemFor, whose error is a candidate dropped, and
\* the snapshot it takes when the count says so, to be published unlocked.
Ready(n) == n = FirstLight \/ (n > FirstLight /\ n % PublishEvery = 0)

ItemFor(p) ==
    LET done == crawl.done \cup {p}
        found == IF "metadata" \in archive THEN crawl.found \cup {p} ELSE crawl.found
    IN  /\ crawl.at = "items" /\ p \notin crawl.done
        /\ crawl' = [crawl EXCEPT !.done = done, !.found = found]
        /\ partials' = IF Ready(Cardinality(done)) /\ found # {}
                       THEN partials \cup {found} ELSE partials
        /\ UNCHANGED <<pool, age, failures, nextTry, archive>>

\* (slip: the snapshot that comes last wins)
PublishLast(items) ==
    /\ items \in partials
    /\ partials' = partials \ {items}
    /\ pool' = [some |-> TRUE, items |-> items]
    /\ UNCHANGED <<age, failures, nextTry, crawl, archive>>
PublishPartial(items) ==
    /\ items \in partials
    /\ partials' = partials \ {items}
    /\ pool' = IF Cardinality(items) <= Cardinality(pool.items) THEN pool
               ELSE [some |-> TRUE, items |-> items]
    /\ UNCHANGED <<age, failures, nextTry, crawl, archive>>

\* Every goroutine is back: whatever they found is the pool, for a whole TTL.
RefreshLands ==
    /\ crawl.at = "items" /\ crawl.done = Programmes /\ partials = {}
    /\ pool' = [some |-> TRUE, items |-> crawl.found]
    /\ age' = 0
    /\ failures' = 0
    /\ nextTry' = 0
    /\ crawl' = NoCrawl
    /\ UNCHANGED <<partials, archive>>

PoolTick ==
    /\ age < PoolTTL \/ nextTry > 0
    /\ age' = IF age < PoolTTL THEN age + 1 ELSE age
    /\ nextTry' = IF nextTry > 0 THEN nextTry - 1 ELSE 0
    /\ UNCHANGED <<pool, failures, crawl, partials, archive>>

\* External: archive.org's services come and go.
ArchiveChanges ==
    /\ archive' \in SUBSET Services \ {archive}
    /\ UNCHANGED <<pool, age, failures, nextTry, crawl, partials>>

CrawlStep ==
    \/ SearchFails \/ SearchAnswers \/ RefreshLands
    \/ \E p \in Programmes : ItemFor(p)
    \/ \E items \in SUBSET Programmes : PublishPartial(items)

PoolNext == ReadPool \/ CrawlStep \/ PoolTick \/ ArchiveChanges

PoolSpec == PoolInit /\ [][PoolNext]_poolVars

-----------------------------------------------------------------------------
PoolTypeOK ==
    /\ pool \in [some : BOOLEAN, items : SUBSET Programmes]
    /\ age \in 0..PoolTTL
    /\ failures \in 0..MaxFailures /\ nextTry \in 0..RetryMax
    /\ crawl \in [at : {"none", "search", "items"}, done : SUBSET Programmes,
                  found : SUBSET Programmes]
    /\ partials \in SUBSET SUBSET Programmes
    /\ archive \in SUBSET Services

\* publishPartial: "Never shrink what is already being served.  Late results
\* arrive out of order".  Until a refresh is over, nothing that viewers could be
\* watching from goes away, in whatever order its snapshots are published.
PartialsNeverShrink ==
    [][building' => Cardinality(pool.items) <= Cardinality(pool'.items)]_poolVars

=============================================================================
