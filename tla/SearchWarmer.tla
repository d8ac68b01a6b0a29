---------------------------- MODULE SearchWarmer ----------------------------
(***************************************************************************)
(* The background cache warmer (search/warm.go) beside the jobs of         *)
(* SearchJobs: one title at a time, it asks the indexers for what somebody *)
(* is about to click and puts the answer where handleSearch looks first.   *)
(* The archive.org request of the same pass fills another key (archive.go, *)
(* archiveCacheKey) and is left out.                                       *)
(***************************************************************************)
EXTENDS SearchJobs

VARIABLES warmer,  \* the warmer's pass: where it is, its title, its cards
          late     \* the titles whose slow tier is still out

warmVars == <<config, jobs, byID, byKey, breaker, cache, client, warmer, late>>
searching == <<config, jobs, store, breaker, client>>

Resting == [at |-> "rest", key |-> None, cards |-> {}]

WarmInit == Init /\ warmer = Resting /\ late = {}

Put(k, found) == cache' = [cache EXCEPT ![k] = [cards |-> found, fresh |-> TRUE]]

\* A title off the queue that no fresh entry answers, and a server with a key.
WarmNext(k) ==
    /\ warmer.at = "rest" /\ config.apiKey
    /\ k \in WordyKeys /\ ~Hit(k)
    /\ warmer' = [at |-> "search", key |-> k, cards |-> {}]
    /\ UNCHANGED <<searching, cache, late>>

\* searchProwlarr: the fast tier, the slow one sent on its way to the cache ...
WarmTiers ==
    /\ warmer.at = "search"
    /\ warmer' = [warmer EXCEPT !.at = "posters", !.cards = {"indexers"}]
    /\ late' = IF config.slowTier THEN late \cup {warmer.key} ELSE late
    /\ UNCHANGED <<searching, cache>>

\* ... or the aggregate call when the tiers fail, or nothing at all.
WarmAggregate ==
    /\ warmer.at = "search"
    /\ warmer' = [warmer EXCEPT !.at = "posters", !.cards = AllIndexers]
    /\ UNCHANGED <<searching, cache, late>>

WarmFails ==
    /\ warmer.at = "search"
    /\ warmer' = Resting
    /\ UNCHANGED <<searching, cache, late>>

WarmPut ==
    /\ warmer.at = "posters"
    /\ Put(warmer.key, warmer.cards)
    /\ warmer' = Resting
    /\ UNCHANGED <<searching, late>>

WarmSlowLands(k) ==
    /\ k \in late
    /\ Put(k, AllIndexers)
    /\ late' = late \ {k}
    /\ UNCHANGED <<searching, warmer>>

WarmSlowSilent(k) ==
    /\ k \in late
    /\ late' = late \ {k}
    /\ UNCHANGED <<searching, cache, warmer>>

WarmerStep ==
    \/ WarmTiers \/ WarmAggregate \/ WarmFails \/ WarmPut
    \/ \E k \in Keys : WarmNext(k) \/ WarmSlowLands(k) \/ WarmSlowSilent(k)

WarmSpec == WarmInit /\ [][\/ Next /\ UNCHANGED <<warmer, late>>
                          \/ WarmerStep]_warmVars

\* archive.go: a whole answer and one source's contribution to it "must not
\* collide", for serving the second as the first is how a search loses results;
\* main.go: what handleSearch finds in the cache is "a complete answer".
CacheHoldsWholeAnswers == CachedAnswerIsWhole
=============================================================================
