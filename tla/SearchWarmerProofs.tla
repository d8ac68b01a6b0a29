------------------------- MODULE SearchWarmerProofs -------------------------
(***************************************************************************)
(* The warmer beside the search, for every set of jobs, browsers, queries  *)
(* and providers: what it puts in the cache may lack sources (see          *)
(* CacheHoldsWholeAnswers), but that is all it does; what SearchJobs       *)
(* promises of jobs, of paints and of complete answers holds beside it.    *)
(***************************************************************************)
EXTENDS SearchWarmer, SearchJobsProofs

WarmerType == [at : {"rest", "search", "posters"}, key : Keys \cup {None},
               cards : SUBSET Cards]
WarmInvariant ==
    /\ SearchInvariant /\ AnswersGiven
    /\ warmer \in WarmerType /\ (warmer.at # "rest" => warmer.key \in Keys)
    /\ late \subseteq Keys

LEMMA WarmerStarts == WarmInit => WarmInvariant
<1> SUFFICES ASSUME WarmInit PROVE WarmInvariant
  OBVIOUS
<1>1. Init /\ warmer = Resting /\ late = {}
  BY DEF WarmInit
<1>2. SearchInvariant /\ AnswersGiven
  BY <1>1, SearchInvariantInitially, AnswersInitially DEF AnswersInvariant
<1> QED BY <1>1, <1>2 DEF WarmInvariant, Resting, WarmerType

\* A step of the jobs and the browsers beside a warmer that waits.
LEMMA SearchingBeside ==
    ASSUME WarmInvariant, [Next]_vars, UNCHANGED <<warmer, late>>
    PROVE  WarmInvariant' /\ Kept
<1>1. Kept
  BY EveryStepKept DEF WarmInvariant
<1>2. SearchInvariant' /\ AnswersGiven'
  BY <1>1, AnswersStay DEF WarmInvariant, Kept
<1> QED BY <1>1, <1>2 DEF WarmInvariant

\* A step that puts some cards into the cache, or none, and leaves the rest alone.
LEMMA OnlyTheCache ==
    ASSUME WarmInvariant, UNCHANGED searching,
           UNCHANGED cache \/ \E k \in Keys, found \in SUBSET Cards : Put(k, found)
    PROVE  SearchInvariant' /\ AnswersGiven' /\ Kept
<1>1. SearchInvariant /\ AnswersGiven /\ UNCHANGED <<config, jobs, store, breaker, client>>
  BY DEF WarmInvariant, searching
<1>2. cache' \in CacheType
  <2>1. CASE UNCHANGED cache
    BY <1>1, <2>1, AsideTypes
  <2>2. ASSUME NEW k \in Keys, NEW found \in SUBSET Cards, Put(k, found) PROVE cache' \in CacheType
    <3>1. [cards |-> found, fresh |-> TRUE] \in [cards : SUBSET Cards, fresh : BOOLEAN]
      OBVIOUS
    <3> QED BY <1>1, <2>2, <3>1, AsideTypes DEF Put, CacheType
  <2> QED BY <2>1, <2>2
<1>3. Kept
  BY <1>1, <1>2, AsideTypes, AsideStep
<1>4. AnswersGiven'
  BY <1>1 DEF AnswersGiven, JobsTold, Told, IndexersTold, Heard, Quiet, AskedAbout, Satisfied
<1> QED BY <1>3, <1>4 DEF Kept

LEMMA WarmerKeeps ==
    ASSUME WarmInvariant, WarmerStep
    PROVE  WarmInvariant' /\ Kept
<1>1. warmer \in WarmerType /\ (warmer.at # "rest" => warmer.key \in Keys) /\ late \subseteq Keys
  BY DEF WarmInvariant
<1>2. AllIndexers \subseteq Cards /\ {"indexers"} \subseteq Cards
  BY DEF AllIndexers, Cards, Sources
<1>3. ASSUME UNCHANGED searching,
             UNCHANGED cache \/ \E k \in Keys, found \in SUBSET Cards : Put(k, found),
             warmer' \in WarmerType, warmer'.at # "rest" => warmer'.key \in Keys,
             late' \subseteq Keys
      PROVE  WarmInvariant' /\ Kept
  BY <1>3, OnlyTheCache DEF WarmInvariant
<1>4. Resting \in WarmerType /\ Resting.at = "rest"
  BY DEF Resting, WarmerType
<1>5. ASSUME NEW k \in Keys, WarmNext(k) PROVE WarmInvariant' /\ Kept
  <2>1. warmer' = [at |-> "search", key |-> k, cards |-> {}]
        /\ UNCHANGED <<searching, cache, late>>
    BY <1>5 DEF WarmNext
  <2>2. warmer' \in WarmerType /\ warmer'.key \in Keys
    BY <2>1 DEF WarmerType
  <2> QED BY <1>1, <1>3, <2>1, <2>2
<1>6. ASSUME WarmTiers \/ WarmAggregate PROVE WarmInvariant' /\ Kept
  <2>1. PICK found \in SUBSET Cards : warmer' = [warmer EXCEPT !.at = "posters", !.cards = found]
    BY <1>2, <1>6 DEF WarmTiers, WarmAggregate
  <2>2. /\ warmer.at = "search" /\ UNCHANGED <<searching, cache>>
        /\ late' \subseteq late \cup {warmer.key}
    BY <1>6 DEF WarmTiers, WarmAggregate
  <2>3. warmer' \in WarmerType /\ warmer'.key \in Keys /\ late' \subseteq Keys
    BY <1>1, <2>1, <2>2 DEF WarmerType
  <2> QED BY <1>3, <2>2, <2>3
<1>7. ASSUME WarmFails \/ WarmPut PROVE WarmInvariant' /\ Kept
  <2>1. warmer' = Resting /\ UNCHANGED <<searching, late>> /\ warmer.at # "rest"
        /\ (UNCHANGED cache \/ Put(warmer.key, warmer.cards))
    BY <1>7 DEF WarmFails, WarmPut
  <2>2. warmer.cards \in SUBSET Cards /\ warmer.key \in Keys
    BY <1>1, <2>1 DEF WarmerType
  <2> QED BY <1>1, <1>3, <1>4, <2>1, <2>2
<1>8. ASSUME NEW k \in Keys, WarmSlowLands(k) \/ WarmSlowSilent(k)
      PROVE  WarmInvariant' /\ Kept
  <2>1. UNCHANGED <<searching, warmer>> /\ late' \subseteq late
        /\ (UNCHANGED cache \/ Put(k, AllIndexers))
    BY <1>8 DEF WarmSlowLands, WarmSlowSilent
  <2> QED BY <1>1, <1>2, <1>3, <2>1
<1> QED BY <1>5, <1>6, <1>7, <1>8 DEF WarmerStep

LEMMA WarmStepKept ==
    ASSUME WarmInvariant, [(Next /\ UNCHANGED <<warmer, late>>) \/ WarmerStep]_warmVars
    PROVE  WarmInvariant' /\ Kept
<1>1. CASE UNCHANGED warmVars
  <2>1. UNCHANGED vars /\ UNCHANGED <<warmer, late>>
    BY <1>1 DEF warmVars, vars
  <2> QED BY <2>1, SearchingBeside
<1> QED BY <1>1, SearchingBeside, WarmerKeeps

\* warm.go beside progressive.go: everything but the cache is as it is without the warmer.
THEOREM WarmInvariantHolds == WarmSpec => []WarmInvariant
BY WarmerStarts, WarmStepKept, PTL DEF WarmSpec

\* A search that the warmer runs beside has one job per query still, the catalogue is in the
\* first paint, and a browser that was told its job is complete has painted all of it.
THEOREM WarmedSearchesAnswer ==
    WarmSpec => [](OneLiveJobPerQuery /\ FirstPaintCarriesCatalogue /\ CompletePaintHasEverything)
<1>1. WarmInvariant => OneLiveJobPerQuery
  BY DEF WarmInvariant, SearchInvariant, LiveJobsAreIndexed, OneLiveJobPerQuery
<1>2. WarmInvariant => FirstPaintCarriesCatalogue
  BY DEF WarmInvariant, AnswersGiven, JobsTold, Told, FirstPaintCarriesCatalogue
<1>3. WarmInvariant => CompletePaintHasEverything
  BY DEF WarmInvariant, AnswersGiven, Satisfied, CompletePaintHasEverything
<1> QED BY <1>1, <1>2, <1>3, WarmInvariantHolds, PTL

\* And the jobs keep the promise of SearchPromise: to them the warmer's steps are stutters.
THEOREM WarmedPromiseKept == WarmSpec => KeepsSearchPromise
<1>1. WarmInit => Promise!Init
  BY DEF WarmInit, Init, Promise!Init, Answer, Phase
<1>2. WarmInvariant /\ [(Next /\ UNCHANGED <<warmer, late>>) \/ WarmerStep]_warmVars
        => [Promise!Next]_<<Answer, Phase>>
  BY WarmStepKept DEF Kept
<1> QED BY <1>1, <1>2, WarmInvariantHolds, PTL DEF WarmSpec, KeepsSearchPromise, Promise!Spec
=============================================================================
