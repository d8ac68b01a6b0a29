-------------------------- MODULE SearchJobsProofs --------------------------
(***************************************************************************)
(* For every set of jobs, browsers, queries and providers: the state of    *)
(* the search is well typed, a query never has two jobs running, and the   *)
(* jobs keep the promise of SearchPromise; what is cached lacks no source, *)
(* what is painted first has the catalogue, and what is called complete is *)
(* all there is.                                                           *)
(***************************************************************************)
EXTENDS SearchJobs, TLAPS

USE DEF store

-----------------------------------------------------------------------------
(* What the operators on a job keep.                                       *)

LEMMA JobFields ==
    ASSUME NEW job \in Job
    PROVE  /\ job.key \in Keys /\ job.cards \in SUBSET Cards
           /\ job.sources \in [Sources -> States]
           /\ job.firstWave \in BOOLEAN /\ job.slowLanded \in BOOLEAN
           /\ job.complete \in BOOLEAN /\ job.age \in {"fresh", "stale", "dead"}
           /\ job.at \in [Goroutines -> Places]
BY DEF Job

\* A goroutine moves, and nothing else of the job changes.
LEMMA GoroutineMoves ==
    ASSUME NEW old \in Job, NEW g \in Goroutines, NEW place \in Places
    PROVE  /\ At(old, g, place) \in Job
           /\ At(old, g, place).key = old.key
           /\ At(old, g, place).cards = old.cards
           /\ At(old, g, place).complete = old.complete
           /\ At(old, g, place).slowLanded = old.slowLanded
           /\ At(old, g, place).at = [old.at EXCEPT ![g] = place]
<1>1. [old.at EXCEPT ![g] = place] \in [Goroutines -> Places]
  BY JobFields
<1> QED BY <1>1 DEF At, Job

\* A source is marked, and nothing else of the job changes.
LEMMA SourceMarked ==
    ASSUME NEW old \in Job, NEW s \in Sources, NEW state \in States
    PROVE  /\ Mark(old, s, state) \in Job
           /\ Mark(old, s, state).key = old.key
           /\ Mark(old, s, state).cards = old.cards
           /\ Mark(old, s, state).complete = old.complete
           /\ Mark(old, s, state).slowLanded = old.slowLanded
           /\ Mark(old, s, state).at = old.at
<1>1. [old.sources EXCEPT ![s] = state] \in [Sources -> States]
  BY JobFields
<1> QED BY <1>1 DEF Mark, Job

\* Cards are added, and nothing else of the job changes.
LEMMA CardsAdded ==
    ASSUME NEW old \in Job, NEW found \in SUBSET Cards
    PROVE  /\ Add(old, found) \in Job
           /\ Add(old, found).key = old.key
           /\ old.cards \subseteq Add(old, found).cards
           /\ Add(old, found).complete = old.complete
           /\ Add(old, found).slowLanded = old.slowLanded
           /\ Add(old, found).at = old.at
BY DEF Add, Job

\* A source speaks: its goroutine is gone, and of the job only the cards and
\* the sources have changed.
Spoke(old, job, g) ==
    /\ job \in Job /\ job.key = old.key /\ job.complete = old.complete
    /\ job.slowLanded = old.slowLanded /\ old.cards \subseteq job.cards
    /\ job.at = [old.at EXCEPT ![g] = "done"]

LEMMA SourceSpeaks ==
    ASSUME NEW old \in Job, NEW g \in Goroutines, NEW s \in Sources,
           NEW found \in SUBSET Cards, NEW state \in States
    PROVE  /\ Spoke(old, Answered(old, g, s, found), g)
           /\ Spoke(old, Refused(old, g, s, state), g)
<1>1. "done" \in Places /\ "ok" \in States
  BY DEF Places, States
<1>2. Spoke(old, Answered(old, g, s, found), g)
  <2> DEFINE more == Add(old, found)
             marked == Mark(more, s, "ok")
  <2>1. /\ more \in Job /\ more.key = old.key /\ more.complete = old.complete
        /\ more.slowLanded = old.slowLanded /\ more.at = old.at
        /\ old.cards \subseteq more.cards
    BY CardsAdded
  <2> HIDE DEF more
  <2>2. /\ marked \in Job /\ marked.key = more.key /\ marked.at = more.at
        /\ marked.complete = more.complete /\ marked.slowLanded = more.slowLanded
        /\ marked.cards = more.cards
    BY <1>1, <2>1, SourceMarked
  <2>3. Answered(old, g, s, found) = At(marked, g, "done")
    BY DEF Answered, marked, more
  <2> HIDE DEF marked
  <2> QED BY <1>1, <2>1, <2>2, <2>3, GoroutineMoves DEF Spoke
<1>3. Spoke(old, Refused(old, g, s, state), g)
  <2> DEFINE marked == Mark(old, s, state)
  <2>1. /\ marked \in Job /\ marked.key = old.key /\ marked.at = old.at
        /\ marked.complete = old.complete /\ marked.slowLanded = old.slowLanded
        /\ marked.cards = old.cards
    BY SourceMarked
  <2>2. Refused(old, g, s, state) = At(marked, g, "done")
    BY DEF Refused
  <2> HIDE DEF marked
  <2> QED BY <1>1, <2>1, <2>2, GoroutineMoves DEF Spoke
<1> QED BY <1>2, <1>3

\* The names that are no provider's.
LEMMA OwnNames ==
    /\ \A p \in Providers : p \notin {"run", "archive", "indexers", "slow"}
    /\ Providers \subseteq Goroutines /\ Providers \subseteq Sources
    /\ {"run", "archive", "indexers", "slow"} \subseteq Goroutines
    /\ {"catalogues", "archive", "indexers", "slowIndexers"} \subseteq Sources
BY ConstantsAssumption DEF Goroutines, Sources

\* What the invariant says of one job.
LEMMA LiveJob ==
    ASSUME SearchInvariant, NEW j \in Jobs, jobs[j] # None
    PROVE  jobs[j] \in Job /\ GoroutinesInOrder(jobs[j])
BY DEF SearchInvariant, TypeOK

-----------------------------------------------------------------------------
(* A step of one job that leaves the store and the browsers alone.         *)

Still == UNCHANGED <<config, store, client>>
BreakerType == [fails : 0..Threshold, open : BOOLEAN]
CacheType == [Keys -> [cards : SUBSET Cards, fresh : BOOLEAN] \cup {None}]

LEMMA JobStepKeeps ==
    ASSUME SearchInvariant, NEW j \in Jobs, jobs[j] # None, NEW job \in Job,
           Becomes(j, job), job # None,
           job.key = jobs[j].key, jobs[j].complete => job.complete,
           GoroutinesInOrder(job), Still,
           breaker' \in BreakerType, cache' \in CacheType
    PROVE  SearchInvariant'
<1>1. /\ jobs' \in [Jobs -> Job \cup {None}]
      /\ jobs'[j] = job
      /\ \A i \in Jobs : i # j => jobs'[i] = jobs[i]
      /\ \A i \in Jobs : jobs'[i] = None <=> jobs[i] = None
  BY DEF Becomes, SearchInvariant, TypeOK
<1>2. byID' = byID /\ byKey' = byKey /\ config' = config /\ client' = client
  BY DEF Still
<1>3. TypeOK'
  <2>1. byID' \in SUBSET {i \in Jobs : jobs'[i] # None}
    BY <1>1, <1>2 DEF SearchInvariant, TypeOK
  <2> QED BY <1>1, <1>2, <2>1
          DEF SearchInvariant, TypeOK, BreakerType, CacheType
<1>4. LiveJobsAreIndexed'
  <2> SUFFICES ASSUME NEW i \in Jobs, jobs'[i] # None, ~jobs'[i].complete
               PROVE  i \in byID /\ byKey[jobs'[i].key] = i
    BY <1>2 DEF LiveJobsAreIndexed
  <2>1. jobs[i] # None /\ ~jobs[i].complete /\ jobs'[i].key = jobs[i].key
    BY <1>1
  <2> QED BY <2>1 DEF SearchInvariant, LiveJobsAreIndexed
<1>5. ASSUME NEW i \in Jobs, jobs'[i] # None PROVE GoroutinesInOrder(jobs'[i])
  BY <1>1, <1>5 DEF SearchInvariant
<1> QED BY <1>2, <1>3, <1>4, <1>5 DEF SearchInvariant

\* What is shown of every step: it keeps the invariant, and is one that
\* SearchPromise allows.
Kept == SearchInvariant' /\ [Promise!Next]_<<Answer, Phase>>

\* More cards for a job that is not complete, or no more for one that is.
LEMMA GrowStep ==
    ASSUME SearchInvariant, NEW j \in Jobs, jobs[j] # None, NEW job \in Job,
           Becomes(j, job), job.complete = jobs[j].complete,
           jobs[j].cards \subseteq job.cards,
           job.complete => job.cards = jobs[j].cards
    PROVE  [Promise!Next]_<<Answer, Phase>>
<1>1. /\ jobs \in [Jobs -> Job \cup {None}] /\ job # None
      /\ jobs' = [jobs EXCEPT ![j] = job]
  BY ConstantsAssumption DEF SearchInvariant, TypeOK, Becomes
<1>2. /\ jobs'[j] = job /\ jobs[j] \in Job
      /\ \A i \in Jobs : i # j => jobs'[i] = jobs[i]
  BY <1>1
<1>3. Phase' = Phase
  BY <1>1, <1>2 DEF Phase
<1>4. CASE job.complete
  BY <1>1, <1>2, <1>3, <1>4 DEF Answer
<1>5. CASE ~job.complete
  <2>1. Phase[j] = "growing" /\ job.cards \in SUBSET Cards
    BY <1>2, <1>5, JobFields DEF Phase
  <2>2. Answer' = [Answer EXCEPT ![j] = @ \cup job.cards]
    BY <1>1, <1>2 DEF Answer
  <2>3. Promise!Grow(j)
    BY <1>3, <2>1, <2>2 DEF Promise!Grow
  <2> QED BY <2>3 DEF Promise!Next
<1> QED BY <1>4, <1>5

\* The usual step of a job: it keeps its query, and is as complete as it was.
LEMMA UsualStep ==
    ASSUME SearchInvariant, NEW j \in Jobs, jobs[j] # None, NEW job \in Job,
           Becomes(j, job), job.key = jobs[j].key,
           job.complete = jobs[j].complete, GoroutinesInOrder(job),
           jobs[j].cards \subseteq job.cards,
           job.complete => job.cards = jobs[j].cards,
           UNCHANGED <<config, store, cache, client>>, breaker' \in BreakerType
    PROVE  Kept
<1>1. job # None
  BY ConstantsAssumption
<1>2. cache' \in CacheType
  BY DEF SearchInvariant, TypeOK, CacheType
<1>3. SearchInvariant'
  BY <1>1, <1>2, JobStepKeeps DEF Still
<1> QED BY <1>3, GrowStep DEF Kept

\* One goroutine takes a step, and the others stay in order.
LEMMA OneMoves ==
    ASSUME SearchInvariant, NEW j \in Jobs, jobs[j] # None, NEW job \in Job,
           NEW g \in Goroutines, NEW place \in Places,
           Becomes(j, job), job.key = jobs[j].key,
           job.complete = jobs[j].complete,
           job.slowLanded => jobs[j].slowLanded \/ (g = "slow" /\ place = "done"),
           job.at = [jobs[j].at EXCEPT ![g] = place],
           jobs[j].cards \subseteq job.cards,
           UNCHANGED <<config, store, cache, client>>, breaker' \in BreakerType,
           \/ /\ g \in {"archive"} \cup Providers
              /\ jobs[j].at[g] = "run" /\ place = "done"
           \/ /\ g = "slow" /\ jobs[j].at[g] = "run" /\ place = "done"
           \/ /\ g = "indexers" /\ place \in {"list", "fast", "aggregate"}
              /\ jobs[j].at[g] \in {"start", "list", "fast"}
           \/ /\ g = "indexers" /\ place \in {"posters", "await"}
              /\ jobs[j].at[g] \in {"landed", "posters"}
           \/ /\ g = "indexers" /\ place = "done"
              /\ jobs[j].at["slow"] # "run"
              /\ jobs[j].at[g] \in {"start", "list", "aggregate", "landed", "await"}
    PROVE  Kept
<1> DEFINE old == jobs[j]
<1>1. old \in Job /\ GoroutinesInOrder(old) /\ old.at \in [Goroutines -> Places]
  BY LiveJob, JobFields
<1>2. job.at[g] = place /\ \A h \in Goroutines : h # g => job.at[h] = old.at[h]
  BY <1>1
<1>3. GoroutinesInOrder(job)
  BY <1>1, <1>2, OwnNames DEF GoroutinesInOrder
<1>4. ~old.complete
  BY <1>1, OwnNames DEF GoroutinesInOrder
<1> QED BY <1>3, <1>4, UsualStep

LEMMA BreakerStep ==
    ASSUME SearchInvariant
    PROVE  /\ Failure => breaker' \in BreakerType
           /\ Success => breaker' \in BreakerType
           /\ UNCHANGED breaker => breaker' \in BreakerType
<1>1. /\ breaker \in BreakerType /\ Threshold \in Nat \ {0}
      /\ breaker.fails \in 0..Threshold
  BY ConstantsAssumption DEF SearchInvariant, TypeOK, BreakerType
<1>2. ASSUME Failure PROVE breaker' \in BreakerType
  <2> DEFINE fails == IF breaker.fails < Threshold THEN breaker.fails + 1
                      ELSE Threshold
             open  == breaker.open \/ fails = Threshold
  <2>1. fails \in 0..Threshold
    BY <1>1
  <2>2. open \in BOOLEAN
    OBVIOUS
  <2>3. breaker' = [fails |-> fails, open |-> open]
    BY <1>2 DEF Failure
  <2> HIDE DEF fails, open
  <2> QED BY <2>1, <2>2, <2>3 DEF BreakerType
<1>3. ASSUME Success PROVE breaker' \in BreakerType
  BY <1>1, <1>3 DEF Success, BreakerType
<1> QED BY <1>1, <1>2, <1>3

-----------------------------------------------------------------------------
(* The goroutines of a job, action by action.                              *)

LEMMA ArchiveAnswersStep ==
    ASSUME SearchInvariant, NEW j \in Jobs, ArchiveAnswers(j)
    PROVE  Kept
<1> DEFINE old == jobs[j]
<1>1. old \in Job /\ jobs[j] # None /\ old.at["archive"] = "run"
  BY LiveJob DEF ArchiveAnswers, Standing
<1>2. PICK job \in {Answered(old, "archive", "archive", {"archive"}),
                    Refused(old, "archive", "archive", "failed")} :
         Becomes(j, [job EXCEPT !.firstWave = TRUE])
  BY DEF ArchiveAnswers
<1>3. Spoke(old, job, "archive")
  <2>1. {"archive"} \in SUBSET Cards /\ "failed" \in States
    BY OwnNames DEF Cards, States
  <2> HIDE DEF old
  <2> QED BY <1>1, <1>2, <2>1, OwnNames, SourceSpeaks
<1> DEFINE new == [job EXCEPT !.firstWave = TRUE]
<1>4. new \in Job /\ Spoke(old, new, "archive")
  BY <1>3 DEF Spoke, Job
<1>5. breaker' \in BreakerType /\ UNCHANGED <<config, store, cache, client>>
  BY BreakerStep DEF ArchiveAnswers
<1>6. "done" \in Places /\ Becomes(j, new)
  BY <1>2 DEF Places
<1> HIDE DEF new
<1> QED BY <1>1, <1>4, <1>5, <1>6, OwnNames, OneMoves DEF Spoke

LEMMA ProviderAnswersStep ==
    ASSUME SearchInvariant, NEW j \in Jobs, NEW p \in Providers,
           ProviderAnswers(j, p)
    PROVE  Kept
<1> DEFINE old == jobs[j]
<1>1. old \in Job /\ jobs[j] # None /\ old.at[p] = "run"
  BY LiveJob DEF ProviderAnswers, Standing
<1>2. PICK job \in {Answered(old, p, p, {p}), Refused(old, p, p, "failed")} :
         Becomes(j, job)
  BY DEF ProviderAnswers
<1>3. Spoke(old, job, p)
  <2>1. {p} \in SUBSET Cards /\ "failed" \in States
    BY OwnNames DEF Cards, States
  <2> HIDE DEF old
  <2> QED BY <1>1, <1>2, <2>1, OwnNames, SourceSpeaks
<1>4. breaker' \in BreakerType /\ UNCHANGED <<config, store, cache, client>>
  BY BreakerStep DEF ProviderAnswers
<1>5. "done" \in Places
  BY DEF Places
<1> QED BY <1>1, <1>2, <1>3, <1>4, <1>5, OwnNames, OneMoves DEF Spoke

LEMMA TiersListedStep ==
    ASSUME SearchInvariant, NEW j \in Jobs, TiersListed(j)
    PROVE  Kept
<1> DEFINE old == jobs[j]
           new == At(old, "indexers", "fast")
<1>1. old \in Job /\ jobs[j] # None /\ old.at["indexers"] = "list"
  BY LiveJob DEF TiersListed, Standing
<1>2. "fast" \in Places
  BY DEF Places
<1>3. /\ new \in Job /\ new.key = old.key /\ new.complete = old.complete
      /\ new.slowLanded = old.slowLanded
      /\ new.cards = old.cards
      /\ new.at = [old.at EXCEPT !["indexers"] = "fast"]
  BY <1>1, <1>2, OwnNames, GoroutineMoves
<1>4. breaker' \in BreakerType /\ UNCHANGED <<config, store, cache, client>>
  BY BreakerStep DEF TiersListed
<1>5. Becomes(j, new)
  BY DEF TiersListed
<1> HIDE DEF new
<1> QED BY <1>1, <1>2, <1>3, <1>4, <1>5, OwnNames, OneMoves

LEMMA TiersUnreachableStep ==
    ASSUME SearchInvariant, NEW j \in Jobs, TiersUnreachable(j)
    PROVE  Kept
<1> DEFINE old == jobs[j]
           new == Refused(old, "indexers", "indexers", "unavailable")
<1>1. old \in Job /\ jobs[j] # None /\ old.at["indexers"] = "list"
  BY LiveJob DEF TiersUnreachable, Standing
<1>2. "unavailable" \in States /\ "done" \in Places
  BY OwnNames DEF States, Places
<1>3. Spoke(old, new, "indexers")
  <2> HIDE DEF old
  <2> QED BY <1>1, <1>2, OwnNames, SourceSpeaks
<1>4. breaker' \in BreakerType /\ UNCHANGED <<config, store, cache, client>>
  BY BreakerStep DEF TiersUnreachable
<1>5. Becomes(j, new)
  BY DEF TiersUnreachable
<1> HIDE DEF new
<1>6. old.at["slow"] # "run"
  BY <1>1, LiveJob DEF GoroutinesInOrder
<1> QED BY <1>1, <1>2, <1>3, <1>4, <1>5, <1>6, OwnNames, OneMoves DEF Spoke

LEMMA FastTierFailsStep ==
    ASSUME SearchInvariant, NEW j \in Jobs, FastTierFails(j)
    PROVE  Kept
<1> DEFINE old == jobs[j]
           new == At(old, "indexers", "aggregate")
<1>1. old \in Job /\ jobs[j] # None /\ old.at["indexers"] = "fast"
  BY LiveJob DEF FastTierFails, Standing
<1>2. "aggregate" \in Places
  BY DEF Places
<1>3. /\ new \in Job /\ new.key = old.key /\ new.complete = old.complete
      /\ new.slowLanded = old.slowLanded
      /\ new.cards = old.cards
      /\ new.at = [old.at EXCEPT !["indexers"] = "aggregate"]
  BY <1>1, <1>2, OwnNames, GoroutineMoves
<1>4. breaker' \in BreakerType /\ UNCHANGED <<config, store, cache, client>>
  BY BreakerStep DEF FastTierFails
<1>5. Becomes(j, new)
  BY DEF FastTierFails
<1> HIDE DEF new
<1> QED BY <1>1, <1>2, <1>3, <1>4, <1>5, OwnNames, OneMoves

LEMMA AggregateAnswersStep ==
    ASSUME SearchInvariant, NEW j \in Jobs, AggregateAnswers(j)
    PROVE  Kept
<1> DEFINE old == jobs[j]
           new == Answered(old, "indexers", "indexers", AllIndexers)
<1>1. old \in Job /\ jobs[j] # None /\ old.at["indexers"] = "aggregate"
  BY LiveJob DEF AggregateAnswers, Standing
<1>2. AllIndexers \in SUBSET Cards /\ "done" \in Places /\ "failed" \in States
  BY OwnNames DEF Cards, AllIndexers, Places, States
<1>3. Spoke(old, new, "indexers")
  <2> HIDE DEF old
  <2> QED BY <1>1, <1>2, OwnNames, SourceSpeaks
<1>4. breaker' \in BreakerType /\ UNCHANGED <<config, store, cache, client>>
  BY BreakerStep DEF AggregateAnswers
<1>5. Becomes(j, new)
  BY DEF AggregateAnswers
<1> HIDE DEF new
<1>6. old.at["slow"] # "run"
  BY <1>1, LiveJob DEF GoroutinesInOrder
<1> QED BY <1>1, <1>2, <1>3, <1>4, <1>5, <1>6, OwnNames, OneMoves DEF Spoke

LEMMA AggregateFailsStep ==
    ASSUME SearchInvariant, NEW j \in Jobs, AggregateFails(j)
    PROVE  Kept
<1> DEFINE old == jobs[j]
           new == Refused(old, "indexers", "indexers", "failed")
<1>1. old \in Job /\ jobs[j] # None /\ old.at["indexers"] = "aggregate"
  BY LiveJob DEF AggregateFails, Standing
<1>2. "failed" \in States /\ "done" \in Places
  BY OwnNames DEF States, Places
<1>3. Spoke(old, new, "indexers")
  <2> HIDE DEF old
  <2> QED BY <1>1, <1>2, OwnNames, SourceSpeaks
<1>4. breaker' \in BreakerType /\ UNCHANGED <<config, store, cache, client>>
  BY BreakerStep DEF AggregateFails
<1>5. Becomes(j, new)
  BY DEF AggregateFails
<1> HIDE DEF new
<1>6. old.at["slow"] # "run"
  BY <1>1, LiveJob DEF GoroutinesInOrder
<1> QED BY <1>1, <1>2, <1>3, <1>4, <1>5, <1>6, OwnNames, OneMoves DEF Spoke

LEMMA SlowTierSilentStep ==
    ASSUME SearchInvariant, NEW j \in Jobs, SlowTierSilent(j)
    PROVE  Kept
<1> DEFINE old == jobs[j]
           new == At(old, "slow", "done")
<1>1. old \in Job /\ jobs[j] # None /\ old.at["slow"] = "run"
  BY LiveJob DEF SlowTierSilent, Standing
<1>2. "done" \in Places
  BY DEF Places
<1>3. /\ new \in Job /\ new.key = old.key /\ new.complete = old.complete
      /\ new.slowLanded = old.slowLanded
      /\ new.cards = old.cards
      /\ new.at = [old.at EXCEPT !["slow"] = "done"]
  BY <1>1, <1>2, OwnNames, GoroutineMoves
<1>4. breaker' \in BreakerType /\ UNCHANGED <<config, store, cache, client>>
  BY BreakerStep DEF SlowTierSilent
<1>5. Becomes(j, new)
  BY DEF SlowTierSilent
<1> HIDE DEF new
<1> QED BY <1>1, <1>2, <1>3, <1>4, <1>5, OwnNames, OneMoves

LEMMA SlowTierSeenStep ==
    ASSUME SearchInvariant, NEW j \in Jobs, SlowTierSeen(j)
    PROVE  Kept
<1> DEFINE old == jobs[j]
           new == At(old, "indexers", "done")
<1>1. old \in Job /\ jobs[j] # None /\ old.at["indexers"] = "await"
  BY LiveJob DEF SlowTierSeen, Standing
<1>2. "done" \in Places
  BY DEF Places
<1>3. /\ new \in Job /\ new.key = old.key /\ new.complete = old.complete
      /\ new.slowLanded = old.slowLanded
      /\ new.cards = old.cards
      /\ new.at = [old.at EXCEPT !["indexers"] = "done"]
  BY <1>1, <1>2, OwnNames, GoroutineMoves
<1>4. breaker' \in BreakerType /\ UNCHANGED <<config, store, cache, client>>
  BY BreakerStep DEF SlowTierSeen
<1>5. Becomes(j, new)
  BY DEF SlowTierSeen
<1> HIDE DEF new
<1>6. old.at["slow"] # "run"
  BY <1>1, LiveJob DEF SlowTierSeen, GoroutinesInOrder
<1> QED BY <1>1, <1>2, <1>3, <1>4, <1>5, <1>6, OwnNames, OneMoves

LEMMA SlowTierGivenUpStep ==
    ASSUME SearchInvariant, NEW j \in Jobs, SlowTierGivenUp(j)
    PROVE  Kept
<1> DEFINE old == jobs[j]
           new == Refused(old, "indexers", "slowIndexers", "failed")
<1>1. old \in Job /\ jobs[j] # None /\ old.at["indexers"] = "await"
  BY LiveJob DEF SlowTierGivenUp, Standing
<1>2. "failed" \in States /\ "done" \in Places
  BY OwnNames DEF States, Places
<1>3. Spoke(old, new, "indexers")
  <2> HIDE DEF old
  <2> QED BY <1>1, <1>2, OwnNames, SourceSpeaks
<1>4. breaker' \in BreakerType /\ UNCHANGED <<config, store, cache, client>>
  BY BreakerStep DEF SlowTierGivenUp
<1>5. Becomes(j, new)
  BY DEF SlowTierGivenUp
<1> HIDE DEF new
<1>6. old.at["slow"] # "run"
  BY DEF SlowTierGivenUp, WaitRunsOut
<1> QED BY <1>1, <1>2, <1>3, <1>4, <1>5, <1>6, OwnNames, OneMoves DEF Spoke

LEMMA IndexersStartStep ==
    ASSUME SearchInvariant, NEW j \in Jobs, IndexersStart(j)
    PROVE  Kept
<1> DEFINE old == jobs[j]
<1>1. old \in Job /\ jobs[j] # None /\ old.at["indexers"] = "start"
  BY LiveJob DEF IndexersStart, Standing
<1>2. breaker' \in BreakerType /\ UNCHANGED <<config, store, cache, client>>
  BY BreakerStep DEF IndexersStart
<1>3. CASE NotAsked(j) = "pending"
  <2> DEFINE marked == Mark(old, "indexers", "pending")
             new == At(marked, "indexers", "list")
  <2>1. "pending" \in States /\ "list" \in Places /\ Becomes(j, new)
    BY <1>3 DEF States, Places, IndexersStart
  <2>2. /\ marked \in Job /\ marked.key = old.key /\ marked.at = old.at
        /\ marked.complete = old.complete /\ marked.slowLanded = old.slowLanded
        /\ marked.cards = old.cards
    BY <1>1, <2>1, OwnNames, SourceMarked
  <2> HIDE DEF marked
  <2>3. /\ new \in Job /\ new.key = marked.key /\ new.complete = marked.complete
        /\ new.slowLanded = marked.slowLanded
        /\ new.cards = marked.cards
        /\ new.at = [marked.at EXCEPT !["indexers"] = "list"]
    BY <2>1, <2>2, OwnNames, GoroutineMoves
  <2> HIDE DEF new
  <2> QED BY <1>1, <1>2, <2>1, <2>2, <2>3, OwnNames, OneMoves
<1>4. CASE NotAsked(j) # "pending"
  <2> DEFINE new == Refused(old, "indexers", "indexers", NotAsked(j))
  <2>1. NotAsked(j) \in States /\ {} \in SUBSET Cards /\ "done" \in Places
    BY DEF States, Places, NotAsked
  <2>2. Becomes(j, new) /\ old.at["slow"] # "run"
    BY <1>1, <1>4, LiveJob DEF IndexersStart, GoroutinesInOrder
  <2>3. Spoke(old, new, "indexers")
    <3> HIDE DEF old
    <3> QED BY <1>1, <2>1, OwnNames, SourceSpeaks
  <2> HIDE DEF new
  <2> QED BY <1>1, <1>2, <2>1, <2>2, <2>3, OwnNames, OneMoves DEF Spoke
<1> QED BY <1>3, <1>4

LEMMA FastCardsInStep ==
    ASSUME SearchInvariant, NEW j \in Jobs, FastCardsIn(j)
    PROVE  Kept
<1> DEFINE old == jobs[j]
           job == Answered(old, "indexers", "indexers", {"indexers"})
<1>1. old \in Job /\ jobs[j] # None /\ old.at["indexers"] = "landed"
  BY LiveJob DEF FastCardsIn, Standing
<1>2. /\ {"indexers"} \in SUBSET Cards /\ "failed" \in States
      /\ "done" \in Places /\ "posters" \in Places
  BY OwnNames DEF Cards, States, Places
<1>3. breaker' \in BreakerType /\ UNCHANGED <<config, store, cache, client>>
  BY BreakerStep DEF FastCardsIn
<1>4. Spoke(old, job, "indexers")
  <2> HIDE DEF old
  <2> QED BY <1>1, <1>2, OwnNames, SourceSpeaks
<1>5. Becomes(j, IF job.at["slow"] = "off" THEN job
                 ELSE At(job, "indexers", "posters"))
  BY DEF FastCardsIn
<1>6. old.at \in [Goroutines -> Places] /\ job.at["slow"] = old.at["slow"]
  <2> HIDE DEF old, job
  <2> QED BY <1>1, <1>4, JobFields, OwnNames DEF Spoke
<1> HIDE DEF job
<1>7. CASE job.at["slow"] = "off"
  <2>1. Becomes(j, job)
    BY <1>5, <1>7
  <2> QED BY <1>1, <1>2, <1>3, <1>4, <1>6, <1>7, <2>1, OwnNames, OneMoves DEF Spoke
<1>8. CASE job.at["slow"] # "off"
  <2> DEFINE new == At(job, "indexers", "posters")
  <2>1. /\ new \in Job /\ new.key = job.key /\ new.complete = job.complete
        /\ new.slowLanded = job.slowLanded
        /\ new.cards = job.cards
        /\ new.at = [job.at EXCEPT !["indexers"] = "posters"]
    BY <1>2, <1>4, OwnNames, GoroutineMoves DEF Spoke
  <2>2. Becomes(j, new)
    BY <1>5, <1>8
  <2> HIDE DEF new
  <2>3. new.at = [old.at EXCEPT !["indexers"] = "posters"]
    BY <1>4, <1>6, <2>1 DEF Spoke
  <2> QED BY <1>1, <1>2, <1>3, <1>4, <2>1, <2>2, <2>3, OwnNames, OneMoves DEF Spoke
<1> QED BY <1>7, <1>8

LEMMA WaitForSlowTierStep ==
    ASSUME SearchInvariant, NEW j \in Jobs, WaitForSlowTier(j)
    PROVE  Kept
<1> DEFINE old == jobs[j]
           marked == Mark(old, "slowIndexers", "pending")
           new == At(marked, "indexers", "await")
<1>1. old \in Job /\ jobs[j] # None /\ old.at["indexers"] = "posters"
  BY LiveJob DEF WaitForSlowTier, Standing
<1>2. "pending" \in States /\ "await" \in Places
  BY DEF States, Places
<1>3. /\ marked \in Job /\ marked.key = old.key /\ marked.at = old.at
      /\ marked.complete = old.complete /\ marked.slowLanded = old.slowLanded
        /\ marked.cards = old.cards
  BY <1>1, <1>2, OwnNames, SourceMarked
<1>4. breaker' \in BreakerType /\ UNCHANGED <<config, store, cache, client>>
  BY BreakerStep DEF WaitForSlowTier
<1>5. Becomes(j, new)
  BY DEF WaitForSlowTier
<1> HIDE DEF marked
<1>6. /\ new \in Job /\ new.key = marked.key /\ new.complete = marked.complete
      /\ new.slowLanded = marked.slowLanded
      /\ new.cards = marked.cards
      /\ new.at = [marked.at EXCEPT !["indexers"] = "await"]
  BY <1>2, <1>3, OwnNames, GoroutineMoves
<1> HIDE DEF new
<1> QED BY <1>1, <1>2, <1>3, <1>4, <1>5, <1>6, OwnNames, OneMoves

LEMMA SlowTierLandsStep ==
    ASSUME SearchInvariant, NEW j \in Jobs, SlowTierLands(j)
    PROVE  Kept
<1> DEFINE old == jobs[j]
           job == Answered(old, "slow", "slowIndexers", {"indexers", "slowIndexers"})
           new == [job EXCEPT !.slowLanded = TRUE]
<1>1. old \in Job /\ jobs[j] # None /\ old.at["slow"] = "run"
  BY LiveJob DEF SlowTierLands, Standing
<1>2. /\ {"indexers", "slowIndexers"} \in SUBSET Cards /\ "failed" \in States
      /\ "done" \in Places
  BY OwnNames DEF Cards, States, Places
<1>3. Spoke(old, job, "slow")
  <2> HIDE DEF old
  <2> QED BY <1>1, <1>2, OwnNames, SourceSpeaks
<1>4. breaker' \in BreakerType /\ UNCHANGED <<config, store, cache, client>>
  BY BreakerStep DEF SlowTierLands
<1>5. Becomes(j, new)
  BY DEF SlowTierLands
<1> HIDE DEF job
<1>6. /\ new \in Job /\ new.key = old.key /\ new.complete = old.complete
      /\ old.cards \subseteq new.cards
      /\ new.at = [old.at EXCEPT !["slow"] = "done"]
  BY <1>3 DEF Spoke, Job
<1> HIDE DEF new
<1> QED BY <1>1, <1>2, <1>4, <1>5, <1>6, OwnNames, OneMoves

LEMMA FastTierAnswersStep ==
    ASSUME SearchInvariant, NEW j \in Jobs, FastTierAnswers(j)
    PROVE  Kept
<1> DEFINE old == jobs[j]
           place == IF config.slowTier THEN "run" ELSE "off"
           sent == At(old, "slow", place)
           new == At(sent, "indexers", "landed")
<1>1. /\ old \in Job /\ jobs[j] # None /\ old.at["indexers"] = "fast"
      /\ GoroutinesInOrder(old)
  BY LiveJob DEF FastTierAnswers, Standing
<1>2. place \in Places /\ "landed" \in Places /\ place \in {"run", "off"}
  BY DEF Places
<1> HIDE DEF place
<1>3. /\ sent \in Job /\ sent.key = old.key /\ sent.complete = old.complete
      /\ sent.slowLanded = old.slowLanded /\ sent.cards = old.cards
      /\ sent.at = [old.at EXCEPT !["slow"] = place]
  BY <1>1, <1>2, OwnNames, GoroutineMoves
<1>4. Becomes(j, new) /\ UNCHANGED <<config, store, cache, client>>
  BY DEF FastTierAnswers, place
<1>5. breaker' \in BreakerType
  BY BreakerStep DEF FastTierAnswers
<1> HIDE DEF sent
<1>6. /\ new \in Job /\ new.key = sent.key /\ new.complete = sent.complete
      /\ new.slowLanded = sent.slowLanded
      /\ new.cards = sent.cards
      /\ new.at = [sent.at EXCEPT !["indexers"] = "landed"]
  BY <1>2, <1>3, OwnNames, GoroutineMoves
<1> HIDE DEF new
<1>7. /\ new.at["slow"] = place /\ new.at["indexers"] = "landed"
      /\ \A g \in Goroutines : g \notin {"slow", "indexers"} =>
            new.at[g] = old.at[g]
  BY <1>1, <1>3, <1>6, JobFields, OwnNames
<1>8. GoroutinesInOrder(new)
  BY <1>1, <1>2, <1>3, <1>6, <1>7, OwnNames DEF GoroutinesInOrder
<1>9. ~old.complete
  BY <1>1 DEF GoroutinesInOrder
<1> QED BY <1>1, <1>3, <1>4, <1>5, <1>6, <1>8, <1>9, UsualStep

LEMMA CatalogueStagesStep ==
    ASSUME SearchInvariant, NEW j \in Jobs, CatalogueStages(j)
    PROVE  Kept
<1> DEFINE old == jobs[j]
           more == Add(old, {"catalogues"})
           scanned == IF old.key \in CatalogueKeys
                      THEN Mark(more, "catalogues", "ok")
                      ELSE Mark(old, "catalogues", "none")
           new == At(scanned, "run", "spawn")
<1>1. /\ old \in Job /\ jobs[j] # None /\ old.at["run"] = "catalogues"
      /\ GoroutinesInOrder(old)
  BY LiveJob DEF CatalogueStages, Standing
<1>2. /\ {"catalogues"} \in SUBSET Cards /\ "ok" \in States /\ "none" \in States
      /\ "spawn" \in Places
  BY OwnNames DEF Cards, States, Places
<1>3. /\ more \in Job /\ more.key = old.key /\ more.complete = old.complete
      /\ more.slowLanded = old.slowLanded /\ more.at = old.at
      /\ old.cards \subseteq more.cards
  BY <1>1, <1>2, CardsAdded
<1> HIDE DEF more
<1>4. /\ scanned \in Job /\ scanned.key = old.key /\ scanned.at = old.at
      /\ scanned.complete = old.complete
      /\ scanned.slowLanded = old.slowLanded /\ old.cards \subseteq scanned.cards
  <2>1. "catalogues" \in Sources
    BY OwnNames
  <2> QED BY <1>1, <1>2, <1>3, <2>1, SourceMarked
<1>5. Becomes(j, new) /\ UNCHANGED <<config, store, cache, client>>
  BY DEF CatalogueStages, more
<1>6. breaker' \in BreakerType
  BY BreakerStep DEF CatalogueStages
<1> HIDE DEF scanned
<1>7. /\ new \in Job /\ new.key = scanned.key /\ new.complete = scanned.complete
      /\ new.slowLanded = scanned.slowLanded
      /\ new.cards = scanned.cards
      /\ new.at = [scanned.at EXCEPT !["run"] = "spawn"]
  BY <1>2, <1>4, OwnNames, GoroutineMoves
<1> HIDE DEF new
<1>8. /\ new.at["run"] = "spawn"
      /\ \A g \in Goroutines : g # "run" => new.at[g] = old.at[g]
  BY <1>1, <1>4, <1>7, JobFields, OwnNames
<1>9. GoroutinesInOrder(new)
  BY <1>1, <1>4, <1>7, <1>8, OwnNames DEF GoroutinesInOrder
<1>10. ~old.complete
  BY <1>1 DEF GoroutinesInOrder
<1> QED BY <1>1, <1>4, <1>5, <1>6, <1>7, <1>9, <1>10, UsualStep

LEMMA SpawnStep ==
    ASSUME SearchInvariant, NEW j \in Jobs, Spawn(j)
    PROVE  Kept
<1> DEFINE old == jobs[j]
           asked == (IF old.key \in ArchiveKeys THEN {"archive"} ELSE {}) \cup
                    {p \in Providers : old.key \in ProviderKeys[p]}
           sources == [s \in Sources |->
                    IF s \in asked THEN "pending"
                    ELSE IF s \in {"archive"} \cup Providers THEN "none"
                    ELSE old.sources[s]]
           at == [g \in Goroutines |->
                    IF g = "run" THEN "wait"
                    ELSE IF g = "indexers" THEN "start"
                    ELSE IF g \in asked THEN "run"
                    ELSE IF g = "slow" THEN "off" ELSE "done"]
           firstWave == old.key \notin ArchiveKeys
           new == [old EXCEPT !.sources = sources, !.at = at,
                              !.firstWave = firstWave]
<1>1. /\ old \in Job /\ jobs[j] # None /\ old.at["run"] = "spawn"
      /\ GoroutinesInOrder(old)
  BY LiveJob DEF Spawn, Standing
<1>2. /\ "pending" \in States /\ "none" \in States
      /\ {"wait", "start", "run", "off", "done"} \subseteq Places
  BY DEF States, Places
<1>3. Becomes(j, new) /\ UNCHANGED <<config, store, cache, client>>
  BY DEF Spawn
<1>4. breaker' \in BreakerType
  BY BreakerStep DEF Spawn
<1>5. /\ "slow" \notin asked /\ "run" \notin asked /\ "indexers" \notin asked
  BY ConstantsAssumption, OwnNames
<1> HIDE DEF asked
<1>6. sources \in [Sources -> States]
  <2>1. old.sources \in [Sources -> States]
    BY <1>1, JobFields
  <2> HIDE DEF old
  <2> QED BY <1>2, <2>1
<1>7. at \in [Goroutines -> Places] /\ firstWave \in BOOLEAN
  BY <1>2
<1>8. /\ at["run"] = "wait" /\ at["slow"] = "off" /\ at["indexers"] = "start"
      /\ \A g \in {"archive"} \cup Providers : at[g] \in {"run", "done"}
  BY <1>5, OwnNames
<1> HIDE DEF sources, at, firstWave
<1>9. /\ new \in Job /\ new.key = old.key /\ new.complete = old.complete
      /\ new.slowLanded = old.slowLanded /\ new.cards = old.cards
      /\ new.at = at
  <2> HIDE DEF old
  <2> QED BY <1>1, <1>6, <1>7 DEF Job
<1> HIDE DEF new
<1>10. GoroutinesInOrder(new)
  BY <1>1, <1>8, <1>9, OwnNames DEF GoroutinesInOrder
<1>11. ~old.complete
  BY <1>1 DEF GoroutinesInOrder
<1> QED BY <1>1, <1>3, <1>4, <1>9, <1>10, <1>11, UsualStep

LEMMA CacheAnswerStep ==
    ASSUME SearchInvariant, NEW j \in Jobs, CacheAnswer(j)
    PROVE  Kept
<1> DEFINE old == jobs[j]
           new == At(old, "run", "finish")
           entry == [cards |-> old.cards, fresh |-> TRUE]
<1>1. /\ old \in Job /\ jobs[j] # None /\ old.at["run"] = "wait"
      /\ GoroutinesInOrder(old) /\ AllSpoken(old)
  BY LiveJob DEF CacheAnswer, Standing
<1>2. "finish" \in Places
  BY DEF Places
<1>3. /\ new \in Job /\ new.key = old.key /\ new.complete = old.complete
      /\ new.slowLanded = old.slowLanded
      /\ new.cards = old.cards
      /\ new.at = [old.at EXCEPT !["run"] = "finish"]
  BY <1>1, <1>2, OwnNames, GoroutineMoves
<1>4. Becomes(j, new) /\ Still
  BY DEF CacheAnswer, Still
<1>5. breaker' \in BreakerType
  BY BreakerStep DEF CacheAnswer
<1>6. cache' \in CacheType
  <2>1. entry \in [cards : SUBSET Cards, fresh : BOOLEAN] /\ old.key \in Keys
    BY <1>1, JobFields
  <2>2. cache \in CacheType
    BY DEF SearchInvariant, TypeOK, CacheType
  <2>3. cache' = cache \/ cache' = [cache EXCEPT ![old.key] = entry]
    BY DEF CacheAnswer
  <2> HIDE DEF entry, old
  <2> QED BY <2>1, <2>2, <2>3 DEF CacheType
<1> HIDE DEF new
<1>7. /\ new.at["run"] = "finish"
      /\ \A g \in Goroutines : g # "run" => new.at[g] = old.at[g]
  BY <1>1, <1>3, JobFields, OwnNames
<1>8. GoroutinesInOrder(new)
  BY <1>1, <1>3, <1>7, OwnNames DEF GoroutinesInOrder, AllSpoken
<1>9. new # None
  BY <1>3, ConstantsAssumption
<1>10. SearchInvariant'
  BY <1>1, <1>3, <1>4, <1>5, <1>6, <1>8, <1>9, JobStepKeeps
<1> QED BY <1>1, <1>3, <1>4, <1>10, GrowStep DEF Kept

LEMMA FinishStep ==
    ASSUME SearchInvariant, NEW j \in Jobs, Finish(j)
    PROVE  Kept
<1> DEFINE old == jobs[j]
           gone == At(old, "run", "done")
           new == [gone EXCEPT !.complete = TRUE, !.firstWave = TRUE]
<1>1. /\ old \in Job /\ jobs[j] # None /\ old.at["run"] = "finish"
      /\ GoroutinesInOrder(old)
  BY LiveJob DEF Finish, Standing
<1>2. "done" \in Places
  BY DEF Places
<1>3. /\ gone \in Job /\ gone.key = old.key /\ gone.cards = old.cards
      /\ gone.slowLanded = old.slowLanded
      /\ gone.at = [old.at EXCEPT !["run"] = "done"]
  BY <1>1, <1>2, OwnNames, GoroutineMoves
<1>4. Becomes(j, new) /\ Still
  BY DEF Finish, Still
<1>5. breaker' \in BreakerType /\ cache' \in CacheType
  BY BreakerStep DEF Finish, SearchInvariant, TypeOK, CacheType
<1> HIDE DEF gone
<1>6. /\ new \in Job /\ new.key = old.key /\ new.complete = TRUE
      /\ new.cards = old.cards
      /\ new.slowLanded = old.slowLanded /\ new.cards = old.cards
      /\ new.at = gone.at
  BY <1>3 DEF Job
<1> HIDE DEF new
<1>7. /\ new.at["run"] = "done"
      /\ \A g \in Goroutines : g # "run" => new.at[g] = old.at[g]
  BY <1>1, <1>3, <1>6, JobFields, OwnNames
<1>8. GoroutinesInOrder(new)
  BY <1>1, <1>6, <1>7, OwnNames DEF GoroutinesInOrder
<1>9. new # None
  BY <1>6, ConstantsAssumption
<1>10. SearchInvariant'
  BY <1>1, <1>4, <1>5, <1>6, <1>8, <1>9, JobStepKeeps
<1>11. Promise!Complete(j)
  <2>1. /\ jobs \in [Jobs -> Job \cup {None}]
        /\ jobs' = [jobs EXCEPT ![j] = new]
    BY <1>4 DEF SearchInvariant, TypeOK, Becomes
  <2>2. /\ jobs'[j] = new /\ \A i \in Jobs : i # j => jobs'[i] = jobs[i]
    BY <2>1
  <2>3. Phase[j] = "growing"
    BY <1>1 DEF Phase, GoroutinesInOrder
  <2>4. Answer' = Answer
    BY <1>1, <1>6, <1>9, <2>2 DEF Answer
  <2>5. Phase' = [Phase EXCEPT ![j] = "final"]
    BY <1>6, <1>9, <2>2 DEF Phase
  <2> QED BY <2>3, <2>4, <2>5 DEF Promise!Complete
<1> QED BY <1>10, <1>11 DEF Kept, Promise!Next

LEMMA JobAgesStep ==
    ASSUME SearchInvariant, NEW j \in Jobs, JobAges(j)
    PROVE  Kept
<1> DEFINE old == jobs[j]
           age == IF old.age = "fresh" THEN "stale" ELSE "dead"
           new == [old EXCEPT !.age = age]
<1>1. old \in Job /\ jobs[j] # None /\ GoroutinesInOrder(old)
  BY LiveJob DEF JobAges
<1>2. Becomes(j, new) /\ UNCHANGED <<config, store, cache, client>>
  BY DEF JobAges
<1>3. breaker' \in BreakerType
  BY BreakerStep DEF JobAges
<1>4. age \in {"fresh", "stale", "dead"}
  OBVIOUS
<1> HIDE DEF age
<1>5. /\ new \in Job /\ new.key = old.key /\ new.complete = old.complete
      /\ new.slowLanded = old.slowLanded /\ new.cards = old.cards
      /\ new.at = old.at
  <2> HIDE DEF old
  <2> QED BY <1>1, <1>4 DEF Job
<1> HIDE DEF new
<1>6. GoroutinesInOrder(new)
  BY <1>1, <1>5 DEF GoroutinesInOrder
<1> QED BY <1>1, <1>2, <1>3, <1>5, <1>6, UsualStep

-----------------------------------------------------------------------------
(* The breaker, the store and the cache.                                   *)

\* A step that leaves the jobs and the store alone.
LEMMA AsideStep ==
    ASSUME SearchInvariant, UNCHANGED <<config, jobs, store>>,
           breaker' \in BreakerType, cache' \in CacheType,
           client' \in [Clients -> Search],
           \A c \in Clients : client'[c].at \in {"waiting", "polling"} =>
                 client'[c].job \in Jobs
    PROVE  Kept
<1>1. TypeOK'
  BY DEF SearchInvariant, TypeOK, BreakerType, CacheType
<1>2. LiveJobsAreIndexed'
  BY DEF SearchInvariant, LiveJobsAreIndexed
<1>3. Answer' = Answer /\ Phase' = Phase
  BY DEF Answer, Phase
<1> QED BY <1>1, <1>2, <1>3 DEF SearchInvariant, Kept

\* What the invariant says of what a step aside leaves alone.
LEMMA AsideTypes ==
    ASSUME SearchInvariant
    PROVE  /\ breaker \in BreakerType /\ cache \in CacheType
           /\ client \in [Clients -> Search]
           /\ \A c \in Clients : client[c].at \in {"waiting", "polling"} =>
                 client[c].job \in Jobs
BY DEF SearchInvariant, TypeOK, BreakerType, CacheType

LEMMA CooldownStep ==
    ASSUME SearchInvariant, CooldownPasses
    PROVE  Kept
<1>1. breaker' \in BreakerType
  BY AsideTypes DEF CooldownPasses, BreakerType
<1>2. /\ cache' \in CacheType /\ client' = client
      /\ UNCHANGED <<config, jobs, store>>
  BY AsideTypes DEF CooldownPasses
<1> QED BY <1>1, <1>2, AsideTypes, AsideStep

LEMMA CacheAgesStep ==
    ASSUME SearchInvariant, NEW k \in Keys, CacheAges(k)
    PROVE  Kept
<1> DEFINE Entry == [cards : SUBSET Cards, fresh : BOOLEAN]
           old == cache[k]
           new == IF old.fresh THEN [old EXCEPT !.fresh = FALSE] ELSE None
<1>1. cache \in CacheType /\ old \in Entry
  BY AsideTypes DEF CacheAges, CacheType
<1>2. new \in Entry \cup {None}
  <2> HIDE DEF old
  <2> QED BY <1>1
<1>3. cache' = [cache EXCEPT ![k] = new]
  BY <1>1 DEF CacheAges, CacheType
<1> HIDE DEF new
<1>4. cache' \in CacheType
  BY <1>1, <1>2, <1>3 DEF CacheType
<1>5. /\ breaker' = breaker /\ client' = client
      /\ UNCHANGED <<config, jobs, store>>
  BY DEF CacheAges
<1> QED BY <1>4, <1>5, AsideTypes, AsideStep

LEMMA SweepStep ==
    ASSUME SearchInvariant, Sweep
    PROVE  Kept
<1> DEFINE gone == {j \in byID : Dead(jobs[j])}
<1>1. /\ byID' = byID \ gone
      /\ byKey' = [k \in Keys |-> IF byKey[k] \in gone THEN None ELSE byKey[k]]
      /\ jobs' = [j \in Jobs |-> IF j \in gone THEN None ELSE jobs[j]]
      /\ UNCHANGED <<config, breaker, cache, client>>
  BY DEF Sweep, Without
<1>2. /\ \A j \in gone : j \in Jobs /\ jobs[j].complete
      /\ gone \subseteq byID
  BY DEF Dead, SearchInvariant, TypeOK
<1> HIDE DEF gone
<1>3. /\ jobs \in [Jobs -> Job \cup {None}] /\ byKey \in [Keys -> byID \cup {None}]
      /\ byID \in SUBSET {j \in Jobs : jobs[j] # None}
  BY DEF SearchInvariant, TypeOK
<1>4. /\ jobs' \in [Jobs -> Job \cup {None}]
      /\ byKey' \in [Keys -> byID' \cup {None}]
      /\ byID' \in SUBSET {j \in Jobs : jobs'[j] # None}
  BY <1>1, <1>2, <1>3
<1>5. TypeOK'
  BY <1>1, <1>4 DEF SearchInvariant, TypeOK
<1>6. ASSUME NEW j \in Jobs, jobs'[j] # None
      PROVE  j \notin gone /\ jobs'[j] = jobs[j] /\ jobs[j] # None
  BY <1>1, <1>6
<1>7. LiveJobsAreIndexed'
  <2> SUFFICES ASSUME NEW j \in Jobs, jobs'[j] # None, ~jobs'[j].complete
               PROVE  j \in byID' /\ byKey'[jobs'[j].key] = j
    BY DEF LiveJobsAreIndexed
  <2>1. j \notin gone /\ jobs'[j] = jobs[j] /\ jobs[j] # None
    BY <1>6
  <2>2. j \in byID /\ byKey[jobs[j].key] = j
    BY <2>1 DEF SearchInvariant, LiveJobsAreIndexed
  <2>3. jobs[j].key \in Keys
    BY <2>1, LiveJob, JobFields
  <2> QED BY <1>1, <2>1, <2>2, <2>3
<1>8. ASSUME NEW j \in Jobs, jobs'[j] # None PROVE GoroutinesInOrder(jobs'[j])
  BY <1>6, <1>8, LiveJob
<1>9. \A c \in Clients : client'[c].at \in {"waiting", "polling"} =>
         client'[c].job \in Jobs
  BY <1>1, AsideTypes
<1>10. Promise!Expire
  <2>1. \A j \in gone : j \in Jobs /\ jobs[j] # None /\ Phase[j] = "final"
    BY <1>2, <1>3 DEF Phase
  <2>2. gone \in SUBSET {j \in Jobs : Phase[j] = "final"}
    BY <2>1
  <2>3. Answer' = [j \in Jobs |-> IF j \in gone THEN {} ELSE Answer[j]]
    BY <1>1 DEF Answer
  <2>4. Phase' = [j \in Jobs |-> IF j \in gone THEN "none" ELSE Phase[j]]
    BY <1>1 DEF Phase
  <2> QED BY <2>2, <2>3, <2>4 DEF Promise!Expire
<1> QED BY <1>5, <1>7, <1>8, <1>9, <1>10 DEF SearchInvariant, Kept, Promise!Next

-----------------------------------------------------------------------------
(* The browsers.                                                           *)

\* A browser moves to a search that waits or polls only for a job there is.
LEMMA BrowserStep ==
    ASSUME SearchInvariant, NEW c \in Clients, NEW search \in Search,
           search.at \in {"waiting", "polling"} => search.job \in Jobs,
           Paint(c, search)
    PROVE  /\ client' \in [Clients -> Search]
           /\ \A d \in Clients : client'[d].at \in {"waiting", "polling"} =>
                 client'[d].job \in Jobs
<1>1. /\ client' \in [Clients -> Search] /\ client'[c] = search
      /\ \A d \in Clients : d # c => client'[d] = client[d]
  BY AsideTypes DEF Paint
<1> QED BY <1>1, AsideTypes

\* The same, when nothing but the browser changes.
LEMMA BrowserAside ==
    ASSUME SearchInvariant, NEW c \in Clients, NEW search \in Search,
           search.at \in {"waiting", "polling"} => search.job \in Jobs,
           Paint(c, search), UNCHANGED <<config, jobs, store, breaker, cache>>
    PROVE  Kept
BY BrowserStep, AsideTypes, AsideStep

LEMMA NoSearchType ==
    /\ NoSearch \in Search
    /\ \A j \in Jobs : LET waiting == [NoSearch EXCEPT !.at = "waiting", !.job = j]
                       IN  /\ waiting \in Search /\ waiting.job = j
                           /\ waiting.at = "waiting"
BY DEF NoSearch, Search

LEMMA AskHitStep ==
    ASSUME SearchInvariant, NEW c \in Clients, NEW k \in Keys, AskHit(c, k)
    PROVE  Kept
<1> DEFINE new == [at |-> "settled", job |-> None, painted |-> cache[k].cards,
                   complete |-> TRUE]
<1>1. cache[k].cards \in SUBSET Cards
  BY AsideTypes DEF AskHit, Hit, CacheType
<1>2. new \in Search
  BY <1>1 DEF Search
<1>3. Paint(c, new) /\ UNCHANGED <<config, jobs, store, breaker, cache>>
  BY DEF AskHit
<1> QED BY <1>2, <1>3, BrowserAside

LEMMA AskJoinStep ==
    ASSUME SearchInvariant, NEW c \in Clients, NEW k \in Keys, AskJoin(c, k)
    PROVE  Kept
<1> DEFINE new == [NoSearch EXCEPT !.at = "waiting", !.job = byKey[k]]
<1>1. byKey[k] \in Jobs
  BY DEF AskJoin, Joinable, SearchInvariant, TypeOK
<1>2. new \in Search /\ new.job = byKey[k]
  BY <1>1, NoSearchType
<1>3. Paint(c, new) /\ UNCHANGED <<config, jobs, store, breaker, cache>>
  BY DEF AskJoin
<1> QED BY <1>1, <1>2, <1>3, BrowserAside

LEMMA NewJobType ==
    ASSUME NEW k \in Keys
    PROVE  /\ NewJob(k) \in Job /\ NewJob(k).key = k /\ ~NewJob(k).complete
           /\ NewJob(k).cards = {} /\ GoroutinesInOrder(NewJob(k))
<1> DEFINE sources == [s \in Sources |-> "unasked"]
           at == [g \in Goroutines |-> IF g = "run" THEN "catalogues" ELSE "off"]
<1>1. sources \in [Sources -> States] /\ at \in [Goroutines -> Places]
  BY DEF States, Places
<1>2. /\ at["run"] = "catalogues" /\ at["slow"] = "off" /\ at["indexers"] = "off"
      /\ \A g \in {"archive", "indexers"} \cup Providers : at[g] = "off"
  BY OwnNames
<1>3. /\ NewJob(k).at = at /\ NewJob(k).complete = FALSE
      /\ NewJob(k).slowLanded = FALSE /\ NewJob(k).key = k
      /\ NewJob(k).cards = {}
  BY DEF NewJob
<1>4. NewJob(k) \in Job
  <2>1. NewJob(k) = [key |-> k, cards |-> {}, sources |-> sources,
                     firstWave |-> FALSE, slowLanded |-> FALSE,
                     complete |-> FALSE, age |-> "fresh", at |-> at]
    BY DEF NewJob
  <2> HIDE DEF sources, at
  <2> QED BY <1>1, <2>1 DEF Job
<1> HIDE DEF at
<1>5. GoroutinesInOrder(NewJob(k))
  BY <1>2, <1>3 DEF GoroutinesInOrder
<1> QED BY <1>3, <1>4, <1>5

\* A new job takes over its key only from a job that is complete.
LEMMA AskStartStep ==
    ASSUME SearchInvariant, NEW c \in Clients, NEW k \in Keys, NEW j \in Jobs,
           AskStart(c, k, j)
    PROVE  Kept
<1> DEFINE search == [NoSearch EXCEPT !.at = "waiting", !.job = j]
<1>1. /\ jobs[j] = None /\ ~Joinable(k)
      /\ jobs' = [jobs EXCEPT ![j] = NewJob(k)]
      /\ byID' = byID \cup {j} /\ byKey' = [byKey EXCEPT ![k] = j]
      /\ Paint(c, search) /\ UNCHANGED <<config, breaker, cache>>
  BY DEF AskStart, Becomes
<1>2. /\ NewJob(k) \in Job /\ NewJob(k).key = k /\ ~NewJob(k).complete
      /\ GoroutinesInOrder(NewJob(k)) /\ NewJob(k) # None
  BY NewJobType, ConstantsAssumption
<1>3. /\ jobs \in [Jobs -> Job \cup {None}] /\ byKey \in [Keys -> byID \cup {None}]
      /\ byID \in SUBSET {i \in Jobs : jobs[i] # None}
  BY DEF SearchInvariant, TypeOK
<1>4. /\ jobs'[j] = NewJob(k)
      /\ \A i \in Jobs : i # j => jobs'[i] = jobs[i]
      /\ byKey'[k] = j
      /\ \A x \in Keys : x # k => byKey'[x] = byKey[x]
  BY <1>1, <1>3
<1>5. search \in Search /\ search.job = j
  BY NoSearchType
<1>6. /\ client' \in [Clients -> Search]
      /\ \A d \in Clients : client'[d].at \in {"waiting", "polling"} =>
            client'[d].job \in Jobs
  <2> HIDE DEF search
  <2> QED BY <1>1, <1>5, BrowserStep
<1>7. TypeOK'
  <2>1. /\ jobs' \in [Jobs -> Job \cup {None}]
        /\ byKey' \in [Keys -> byID' \cup {None}]
    BY <1>1, <1>2, <1>3
  <2>2. byID' \in SUBSET {i \in Jobs : jobs'[i] # None}
    BY <1>1, <1>2, <1>3, <1>4
  <2> QED BY <1>1, <1>6, <2>1, <2>2 DEF SearchInvariant, TypeOK
<1>8. LiveJobsAreIndexed'
  <2> SUFFICES ASSUME NEW i \in Jobs, jobs'[i] # None, ~jobs'[i].complete
               PROVE  i \in byID' /\ byKey'[jobs'[i].key] = i
    BY DEF LiveJobsAreIndexed
  <2>1. CASE i = j
    BY <1>1, <1>2, <1>4, <2>1
  <2>2. CASE i # j
    <3>1. jobs'[i] = jobs[i] /\ jobs[i].key \in Keys
      BY <1>4, <2>2, LiveJob, JobFields
    <3>2. i \in byID /\ byKey[jobs[i].key] = i
      BY <3>1 DEF SearchInvariant, LiveJobsAreIndexed
    <3>3. jobs[i].key # k
      BY <1>1, <3>1, <3>2, ConstantsAssumption DEF Joinable
    <3> QED BY <1>1, <1>4, <3>1, <3>2, <3>3
  <2> QED BY <2>1, <2>2
<1>9. ASSUME NEW i \in Jobs, jobs'[i] # None PROVE GoroutinesInOrder(jobs'[i])
  BY <1>2, <1>4, <1>9, LiveJob
<1>10. Promise!Start(j)
  <2>1. Phase[j] = "none"
    BY <1>1 DEF Phase
  <2>2. NewJob(k).cards = {}
    BY NewJobType
  <2>3. Answer' = Answer
    BY <1>1, <1>2, <1>4, <2>2 DEF Answer
  <2>4. Phase' = [Phase EXCEPT ![j] = "growing"]
    BY <1>1, <1>2, <1>4 DEF Phase
  <2> QED BY <2>1, <2>3, <2>4 DEF Promise!Start
<1> QED BY <1>6, <1>7, <1>8, <1>9, <1>10 DEF SearchInvariant, Kept, Promise!Next

\* What a browser collects is a search, still asking only while there is more.
LEMMA CollectedType ==
    ASSUME SearchInvariant, NEW c \in Clients, client[c].job \in Jobs,
           jobs[client[c].job] # None, NEW borrowed \in SUBSET Cards
    PROVE  /\ Collected(c, borrowed) \in Search
           /\ Collected(c, borrowed).job \in Jobs
<1>1. /\ client[c].painted \in SUBSET Cards
      /\ jobs[client[c].job].cards \in SUBSET Cards
      /\ jobs[client[c].job].complete \in BOOLEAN
  BY AsideTypes, LiveJob, JobFields DEF Search
<1> QED BY <1>1 DEF Collected, Search

LEMMA OldType ==
    ASSUME SearchInvariant, NEW k \in Keys
    PROVE  Old(k) \in SUBSET Cards
BY AsideTypes DEF Old, CacheType

LEMMA CollectStep ==
    ASSUME SearchInvariant, NEW c \in Clients, FirstPaint(c) \/ Poll(c)
    PROVE  Kept
<1> DEFINE j == client[c].job
<1>1. j \in Jobs /\ jobs[j] # None
  BY AsideTypes DEF FirstPaint, Poll, SearchInvariant, TypeOK
<1>2. Old(jobs[j].key) \in SUBSET Cards
  BY <1>1, LiveJob, JobFields, OldType
<1>3. /\ Collected(c, Old(jobs[j].key)) \in Search
      /\ Collected(c, Old(jobs[j].key)).job \in Jobs
  BY <1>1, <1>2, CollectedType
<1> QED BY <1>3, BrowserAside DEF FirstPaint, Poll

LEMMA StopStep ==
    ASSUME SearchInvariant, NEW c \in Clients,
           PollGone(c) \/ StopPolling(c) \/ Leave(c)
    PROVE  Kept
<1> DEFINE stopped == [client[c] EXCEPT !.at = "settled"]
<1>1. stopped \in Search /\ stopped.at = "settled"
  BY AsideTypes DEF Search
<1>2. UNCHANGED <<config, jobs, store, breaker, cache>>
  BY DEF PollGone, StopPolling, Leave
<1>3. CASE Paint(c, stopped)
  BY <1>1, <1>2, <1>3, BrowserAside
<1>4. CASE Paint(c, NoSearch)
  BY <1>2, <1>4, NoSearchType, BrowserAside DEF NoSearch
<1> QED BY <1>3, <1>4 DEF PollGone, StopPolling, Leave

-----------------------------------------------------------------------------
(* The theorems. *)

LEMMA SearchInvariantInitially == Init => SearchInvariant
<1> SUFFICES ASSUME Init PROVE SearchInvariant
  OBVIOUS
<1>1. TypeOK
  <2>1. Threshold \in Nat /\ breaker = [fails |-> 0, open |-> FALSE]
    BY ConstantsAssumption DEF Init
  <2>2. breaker \in [fails : 0..Threshold, open : BOOLEAN]
    BY <2>1
  <2>3. byID \in SUBSET {j \in Jobs : jobs[j] # None}
    BY DEF Init
  <2>4. client \in [Clients -> Search]
    BY NoSearchType DEF Init
  <2> QED BY <2>2, <2>3, <2>4 DEF Init, TypeOK
<1>2. LiveJobsAreIndexed
  BY DEF Init, LiveJobsAreIndexed
<1> QED BY <1>1, <1>2 DEF Init, SearchInvariant, NoSearch

LEMMA EveryStepKept == SearchInvariant /\ [Next]_vars => Kept
<1> SUFFICES ASSUME SearchInvariant, [Next]_vars PROVE Kept
  OBVIOUS
<1>1. ASSUME NEW j \in Jobs, JobStep(j) PROVE Kept
  BY <1>1, CatalogueStagesStep, SpawnStep, ArchiveAnswersStep,
     ProviderAnswersStep, IndexersStartStep, TiersListedStep,
     TiersUnreachableStep, FastTierAnswersStep, FastTierFailsStep,
     AggregateAnswersStep, AggregateFailsStep, FastCardsInStep,
     WaitForSlowTierStep, SlowTierLandsStep, SlowTierSilentStep,
     SlowTierSeenStep, SlowTierGivenUpStep, CacheAnswerStep, FinishStep
     DEF JobStep
<1>2. ASSUME NEW j \in Jobs, JobAges(j) PROVE Kept
  BY <1>2, JobAgesStep
<1>3. CASE CooldownPasses
  BY <1>3, CooldownStep
<1>4. CASE Sweep
  BY <1>4, SweepStep
<1>5. ASSUME NEW k \in Keys, CacheAges(k) PROVE Kept
  BY <1>5, CacheAgesStep
<1>6. ASSUME NEW c \in Clients, ClientStep(c) \/ StopPolling(c) \/ Leave(c)
      PROVE  Kept
  BY <1>6, CollectStep, StopStep DEF ClientStep
<1>7. ASSUME NEW c \in Clients, NEW k \in Keys, AskHit(c, k) \/ AskJoin(c, k)
      PROVE  Kept
  BY <1>7, AskHitStep, AskJoinStep
<1>8. ASSUME NEW c \in Clients, NEW k \in Keys, NEW j \in Jobs, AskStart(c, k, j)
      PROVE  Kept
  BY <1>8, AskStartStep
<1>9. CASE UNCHANGED vars
  <2>1. UNCHANGED <<config, jobs, store, breaker, cache, client>>
    BY <1>9 DEF vars
  <2> QED BY <2>1, AsideTypes, AsideStep
<1> QED BY <1>1, <1>2, <1>3, <1>4, <1>5, <1>6, <1>7, <1>8, <1>9 DEF Next

\* progressive.go as a whole: the inductive invariant holds of every behaviour.
THEOREM SearchInvariantHolds == Spec => []SearchInvariant
<1>1. SearchInvariant /\ [Next]_vars => SearchInvariant'
  BY EveryStepKept DEF Kept
<1> QED BY <1>1, SearchInvariantInitially, PTL DEF Spec

\* Jobs, indexes, breaker, cache and browsers keep their types; an index never
\* names a job that has been swept.
THEOREM SearchTypeCorrect == Spec => []TypeOK
<1>1. SearchInvariant => TypeOK
  BY DEF SearchInvariant
<1> QED BY <1>1, SearchInvariantHolds, PTL

\* jobStore.start and sweep: two searches for the same thing always share the
\* one job that is running, however completed jobs come, age and are swept.
THEOREM OneJobPerQuery == Spec => []OneLiveJobPerQuery
<1>1. SearchInvariant => OneLiveJobPerQuery
  BY DEF SearchInvariant, LiveJobsAreIndexed, OneLiveJobPerQuery
<1> QED BY <1>1, SearchInvariantHolds, PTL

\* The header comment of progressive.go: whatever goroutines, tiers, breaker,
\* sweeps and caches do, an answer only grows until it is called complete, and
\* a complete answer never changes.
THEOREM PromiseKept == Spec => KeepsSearchPromise
<1>1. Init => Promise!Init
  BY DEF Init, Promise!Init, Answer, Phase
<1>2. SearchInvariant /\ [Next]_vars => [Promise!Next]_<<Answer, Phase>>
  BY EveryStepKept DEF Kept
<1> QED BY <1>1, <1>2, SearchInvariantHolds, PTL
        DEF Spec, KeepsSearchPromise, Promise!Spec

-----------------------------------------------------------------------------
(* What has been heard.                                                    *)

\* A source that applies to a query has been heard, or has left a mark that keeps
\* the answer out of the cache.
Quiet(job, s) == job.sources[s] \in {"failed", "unavailable", "pending"}
Heard(job, s) == s \in job.cards \/ Quiet(job, s)

\* Whom a query is put to, apart from the indexers.
AskedAbout(k) ==
    {p \in Providers : k \in ProviderKeys[p]} \cup (IF k \in ArchiveKeys THEN {"archive"} ELSE {})

\* What the indexers of a job have said, by where their goroutines are.
IndexersTold(job) ==
    /\ job.slowLanded => {"indexers", "slowIndexers"} \subseteq job.cards
    /\ job.at["indexers"] \in {"posters", "await"} => "indexers" \in job.cards
    /\ job.at["indexers"] = "landed" /\ job.at["slow"] = "off" => ~config.slowTier
    /\ job.at["indexers"] = "done" /\ job.at["run"] \notin {"catalogues", "spawn"}
       /\ job.key \in WordyKeys /\ config.apiKey
       => \/ Quiet(job, "indexers")
          \/ /\ "indexers" \in job.cards
             /\ config.slowTier => Heard(job, "slowIndexers")

\* Whoever is past a place has left what the place was for.
Told(job) ==
    /\ job.at["run"] = "catalogues" => ~job.firstWave
    /\ job.at["run"] # "catalogues" /\ job.key \in CatalogueKeys => "catalogues" \in job.cards
    /\ job.at["run"] \notin {"catalogues", "spawn"} =>
          \A s \in AskedAbout(job.key) : job.at[s] = "done" => Heard(job, s)
    /\ IndexersTold(job)

JobsTold == \A j \in Jobs : jobs[j] # None => Told(jobs[j])

\* A browser that was told its answer is complete has all of it, for as long as
\* the job is kept.
Satisfied(search, kept) ==
    search.complete = TRUE =>
        /\ search.at = "settled"
        /\ (search.job # None /\ kept[search.job] # None) =>
              kept[search.job].complete /\ kept[search.job].cards \subseteq search.painted

AnswersGiven == JobsTold /\ \A c \in Clients : Satisfied(client[c], jobs)
AnswersInvariant == AnswersGiven /\ CachedAnswerIsWhole

-----------------------------------------------------------------------------
(* Jobs: what each step leaves in its job, field by field.                 *)

Moved(old, new, g, place) ==
    /\ new \in Job /\ new.key = old.key /\ new.firstWave = old.firstWave
    /\ new.slowLanded = old.slowLanded /\ new.at = [old.at EXCEPT ![g] = place]

LEMMA MovedFields ==
    ASSUME NEW old \in Job, NEW g \in Goroutines, NEW place \in Places
    PROVE  /\ Moved(old, At(old, g, place), g, place)
           /\ At(old, g, place).cards = old.cards
           /\ At(old, g, place).sources = old.sources
<1>1. [old.at EXCEPT ![g] = place] \in [Goroutines -> Places]
  BY JobFields
<1> QED BY <1>1 DEF Moved, At, Job

LEMMA MarkedFields ==
    ASSUME NEW old \in Job, NEW s \in Sources, NEW state \in States
    PROVE  /\ Mark(old, s, state) \in Job
           /\ Mark(old, s, state).key = old.key
           /\ Mark(old, s, state).at = old.at
           /\ Mark(old, s, state).cards = old.cards
           /\ Mark(old, s, state).firstWave = old.firstWave
           /\ Mark(old, s, state).slowLanded = old.slowLanded
           /\ Mark(old, s, state).sources = [old.sources EXCEPT ![s] = state]
<1>1. [old.sources EXCEPT ![s] = state] \in [Sources -> States]
  BY JobFields
<1> QED BY <1>1 DEF Mark, Job

LEMMA AddedFields ==
    ASSUME NEW old \in Job, NEW found \in SUBSET Cards
    PROVE  /\ Add(old, found) \in Job
           /\ Add(old, found).key = old.key
           /\ Add(old, found).at = old.at
           /\ Add(old, found).cards = old.cards \cup found
           /\ Add(old, found).firstWave = old.firstWave
           /\ Add(old, found).slowLanded = old.slowLanded
           /\ Add(old, found).sources = old.sources
BY DEF Add, Job

LEMMA AnsweredFields ==
    ASSUME NEW old \in Job, NEW g \in Goroutines, NEW s \in Sources,
           NEW found \in SUBSET Cards
    PROVE  /\ Moved(old, Answered(old, g, s, found), g, "done")
           /\ Answered(old, g, s, found).cards = old.cards \cup found
           /\ Answered(old, g, s, found).sources = [old.sources EXCEPT ![s] = "ok"]
<1>1. "done" \in Places /\ "ok" \in States
  BY DEF Places, States
<1>2. PICK more : more = Add(old, found)
  OBVIOUS
<1>3. PICK marked : marked = Mark(more, s, "ok")
  OBVIOUS
<1>4. /\ more \in Job /\ more.key = old.key /\ more.at = old.at
      /\ more.cards = old.cards \cup found /\ more.firstWave = old.firstWave
      /\ more.slowLanded = old.slowLanded /\ more.sources = old.sources
  BY <1>2, AddedFields
<1>5. /\ marked \in Job /\ marked.key = more.key /\ marked.at = more.at
      /\ marked.cards = more.cards /\ marked.firstWave = more.firstWave
      /\ marked.slowLanded = more.slowLanded
      /\ marked.sources = [more.sources EXCEPT ![s] = "ok"]
  BY <1>1, <1>3, <1>4, MarkedFields
<1>6. Answered(old, g, s, found) = At(marked, g, "done")
  BY <1>2, <1>3 DEF Answered
<1> QED BY <1>1, <1>4, <1>5, <1>6, MovedFields DEF Moved

LEMMA RefusedFields ==
    ASSUME NEW old \in Job, NEW g \in Goroutines, NEW s \in Sources, NEW state \in States
    PROVE  /\ Moved(old, Refused(old, g, s, state), g, "done")
           /\ Refused(old, g, s, state).cards = old.cards
           /\ Refused(old, g, s, state).sources = [old.sources EXCEPT ![s] = state]
<1>1. "done" \in Places
  BY DEF Places
<1>2. PICK marked : marked = Mark(old, s, state)
  OBVIOUS
<1>3. /\ marked \in Job /\ marked.key = old.key /\ marked.at = old.at
      /\ marked.cards = old.cards /\ marked.firstWave = old.firstWave
      /\ marked.slowLanded = old.slowLanded
      /\ marked.sources = [old.sources EXCEPT ![s] = state]
  BY <1>2, MarkedFields
<1>4. Refused(old, g, s, state) = At(marked, g, "done")
  BY <1>2 DEF Refused
<1> QED BY <1>1, <1>3, <1>4, MovedFields DEF Moved

\* What the other sources have said, after one has spoken.
LEMMA SaidElsewhere ==
    ASSUME NEW old \in Job, NEW new \in Job, NEW s \in Sources, NEW state,
           new.sources = [old.sources EXCEPT ![s] = state]
    PROVE  /\ new.sources[s] = state
           /\ \A t \in Sources : t # s => new.sources[t] = old.sources[t]
BY JobFields

LEMMA AskedAboutWhom ==
    ASSUME NEW k
    PROVE  /\ AskedAbout(k) \subseteq {"archive"} \cup Providers
           /\ AskedAbout(k) \subseteq Goroutines /\ AskedAbout(k) \subseteq Sources
           /\ \A s \in AskedAbout(k) : s \notin {"run", "indexers", "slow", "slowIndexers", "catalogues"}
BY OwnNames, ConstantsAssumption DEF AskedAbout

\* A goroutine that asks archive.org or a provider is done.
LEMMA PlainTold ==
    ASSUME NEW old \in Job, NEW new \in Job, Told(old), GoroutinesInOrder(old),
           NEW p \in {"archive"} \cup Providers, old.at[p] = "run",
           new.key = old.key, new.slowLanded = old.slowLanded,
           new.at = [old.at EXCEPT ![p] = "done"],
           \/ /\ new.cards = old.cards \cup {p}
              /\ new.sources = [old.sources EXCEPT ![p] = "ok"]
           \/ /\ new.cards = old.cards
              /\ new.sources = [old.sources EXCEPT ![p] = "failed"]
    PROVE  Told(new)
<1>1. /\ p \in Goroutines /\ p \in Sources
      /\ p \notin {"run", "indexers", "slow", "slowIndexers"}
  BY OwnNames, ConstantsAssumption
<1>2. new.at[p] = "done" /\ \A h \in Goroutines : h # p => new.at[h] = old.at[h]
  BY <1>1, JobFields
<1>3. /\ new.sources[p] \in {"ok", "failed"} /\ (new.sources[p] = "ok" => p \in new.cards)
      /\ \A t \in Sources : t # p => new.sources[t] = old.sources[t]
  BY <1>1, SaidElsewhere
<1>4. old.cards \subseteq new.cards
  OBVIOUS
<1>5. old.at["run"] \notin {"catalogues", "spawn"} /\ new.at["run"] = old.at["run"]
  BY <1>1, <1>2, OwnNames DEF GoroutinesInOrder
<1>6. \A s \in AskedAbout(old.key) : new.at[s] = "done" => Heard(new, s)
  <2> SUFFICES ASSUME NEW s \in AskedAbout(old.key), new.at[s] = "done" PROVE Heard(new, s)
    OBVIOUS
  <2>1. CASE s = p
    BY <1>3, <2>1 DEF Heard, Quiet
  <2>2. CASE s # p
    <3>1. old.at[s] = "done" /\ s \in Sources
      BY <1>2, <2>2, AskedAboutWhom
    <3> QED BY <1>3, <1>4, <1>5, <2>2, <3>1 DEF Told, Heard, Quiet
  <2> QED BY <2>1, <2>2
<1>7. IndexersTold(new)
  BY <1>1, <1>2, <1>3, <1>4, OwnNames DEF Told, IndexersTold, Heard, Quiet
<1> QED BY <1>4, <1>5, <1>6, <1>7 DEF Told

\* A goroutine of the indexers moves; what the others have said stands.
LEMMA IndexersStepTold ==
    ASSUME NEW old \in Job, NEW new \in Job, Told(old),
           new.key = old.key, new.firstWave = old.firstWave, old.cards \subseteq new.cards,
           new.at["run"] = old.at["run"],
           \A h \in {"archive"} \cup Providers : new.at[h] = old.at[h],
           \A t \in Sources \ {"indexers", "slowIndexers"} : new.sources[t] = old.sources[t],
           IndexersTold(new)
    PROVE  Told(new)
<1>1. \A t \in AskedAbout(old.key) :
          /\ new.at[t] = old.at[t] /\ (Heard(old, t) => Heard(new, t))
  BY AskedAboutWhom DEF Heard, Quiet
<1> QED BY <1>1 DEF Told


LEMMA JobBecomes ==
    ASSUME SearchInvariant, NEW j \in Jobs, NEW new, Becomes(j, new)
    PROVE  jobs'[j] = new /\ \A i \in Jobs : i # j => jobs'[i] = jobs[i]
BY DEF SearchInvariant, TypeOK, Becomes

LEMMA ArchiveTells ==
    ASSUME SearchInvariant, NEW j \in Jobs, Told(jobs[j]), ArchiveAnswers(j)
    PROVE  Told(jobs'[j])
<1>1. PICK old : old = jobs[j] /\ old \in Job /\ GoroutinesInOrder(old) /\ old.at["archive"] = "run"
  BY LiveJob DEF ArchiveAnswers, Standing
<1>2. PICK spoken \in {Answered(old, "archive", "archive", {"archive"}),
                       Refused(old, "archive", "archive", "failed")} :
         Becomes(j, [spoken EXCEPT !.firstWave = TRUE])
  BY <1>1 DEF ArchiveAnswers
<1>3. /\ Moved(old, spoken, "archive", "done")
      /\ \/ /\ spoken.cards = old.cards \cup {"archive"}
            /\ spoken.sources = [old.sources EXCEPT !["archive"] = "ok"]
         \/ /\ spoken.cards = old.cards
            /\ spoken.sources = [old.sources EXCEPT !["archive"] = "failed"]
  <2>1. PICK found \in SUBSET Cards : found = {"archive"}
    BY OwnNames DEF Cards
  <2>2. "failed" \in States /\ "archive" \in Goroutines /\ "archive" \in Sources
    BY OwnNames DEF States
  <2>3. CASE spoken = Answered(old, "archive", "archive", found)
    BY <1>1, <2>1, <2>2, <2>3, AnsweredFields
  <2>4. CASE spoken = Refused(old, "archive", "archive", "failed")
    BY <1>1, <2>2, <2>4, RefusedFields
  <2> QED BY <1>2, <2>1, <2>3, <2>4
<1>4. PICK new : new = [spoken EXCEPT !.firstWave = TRUE]
  OBVIOUS
<1>5. /\ new \in Job /\ new.key = old.key /\ new.slowLanded = old.slowLanded
      /\ new.at = [old.at EXCEPT !["archive"] = "done"]
      /\ new.cards = spoken.cards /\ new.sources = spoken.sources
  BY <1>3, <1>4 DEF Moved, Job
<1>6. Told(old)
  BY <1>1
<1>7. Told(new)
  BY <1>1, <1>3, <1>5, <1>6, PlainTold
<1> QED BY <1>2, <1>4, <1>7, JobBecomes

LEMMA ProviderTells ==
    ASSUME SearchInvariant, NEW j \in Jobs, NEW p \in Providers, Told(jobs[j]),
           ProviderAnswers(j, p)
    PROVE  Told(jobs'[j])
<1>1. PICK old : old = jobs[j] /\ old \in Job /\ GoroutinesInOrder(old) /\ old.at[p] = "run"
  BY LiveJob DEF ProviderAnswers, Standing
<1>2. PICK new \in {Answered(old, p, p, {p}), Refused(old, p, p, "failed")} : Becomes(j, new)
  BY <1>1 DEF ProviderAnswers
<1>3. /\ Moved(old, new, p, "done")
      /\ \/ /\ new.cards = old.cards \cup {p}
            /\ new.sources = [old.sources EXCEPT ![p] = "ok"]
         \/ /\ new.cards = old.cards
            /\ new.sources = [old.sources EXCEPT ![p] = "failed"]
  <2>1. PICK found \in SUBSET Cards : found = {p}
    BY OwnNames DEF Cards
  <2>2. "failed" \in States /\ p \in Goroutines /\ p \in Sources
    BY OwnNames DEF States
  <2>3. CASE new = Answered(old, p, p, found)
    BY <1>1, <2>1, <2>2, <2>3, AnsweredFields
  <2>4. CASE new = Refused(old, p, p, "failed")
    BY <1>1, <2>2, <2>4, RefusedFields
  <2> QED BY <1>2, <2>1, <2>3, <2>4
<1>4. Told(old)
  BY <1>1
<1>5. Told(new)
  BY <1>1, <1>3, <1>4, PlainTold DEF Moved
<1> QED BY <1>2, <1>5, JobBecomes

\* A goroutine of the indexers that only moves.
LEMMA IndexersMoveTold ==
    ASSUME NEW old \in Job, NEW new, Told(old), GoroutinesInOrder(old),
           NEW g \in {"indexers", "slow"}, NEW place \in Places,
           Moved(old, new, g, place), old.cards \subseteq new.cards,
           \A t \in Sources \ {"indexers", "slowIndexers"} : new.sources[t] = old.sources[t],
           new \in Job => IndexersTold(new)
    PROVE  Told(new)
<1>1. new \in Job /\ IndexersTold(new) /\ new.key = old.key /\ new.firstWave = old.firstWave
  BY DEF Moved
<1>2. new.at["run"] = old.at["run"] /\ \A h \in {"archive"} \cup Providers : new.at[h] = old.at[h]
  BY JobFields, OwnNames, ConstantsAssumption DEF Moved
<1> QED BY <1>1, <1>2, IndexersStepTold

\* An action of the indexers that moves one goroutine, and what it leaves.
LEMMA IndexersTell ==
    ASSUME SearchInvariant, NEW j \in Jobs, jobs[j] # None, Told(jobs[j]),
           \/ TiersListed(j) \/ TiersUnreachable(j) \/ FastTierFails(j)
           \/ AggregateAnswers(j) \/ AggregateFails(j) \/ SlowTierSilent(j)
           \/ SlowTierSeen(j) \/ SlowTierGivenUp(j)
    PROVE  Told(jobs'[j])
<1>1. PICK old : old = jobs[j] /\ old \in Job /\ GoroutinesInOrder(old) /\ Told(old)
  BY LiveJob
<1> DEFINE Left(new, g, place) ==
               /\ Becomes(j, new) /\ Moved(old, new, g, place) /\ old.cards \subseteq new.cards
               /\ \A t \in Sources \ {"indexers", "slowIndexers"} :
                     new.sources[t] = old.sources[t]
<1>2. ASSUME NEW new, NEW g \in {"indexers", "slow"}, NEW place \in Places,
             Left(new, g, place), new \in Job => IndexersTold(new)
      PROVE  Told(jobs'[j])
  <2>1. Told(new)
    BY <1>1, <1>2, IndexersMoveTold
  <2> QED BY <1>2, <2>1, JobBecomes
<1>3. /\ {"list", "fast", "aggregate", "done"} \subseteq Places
      /\ {"failed", "unavailable", "pending"} \subseteq States
      /\ old.at \in [Goroutines -> Places] /\ old.sources \in [Sources -> States]
  BY <1>1, JobFields DEF Places, States
<1>4. CASE TiersListed(j)
  <2>1. PICK new : new = At(old, "indexers", "fast")
    OBVIOUS
  <2>2. Left(new, "indexers", "fast") /\ new.cards = old.cards /\ new.sources = old.sources
    BY <1>1, <1>3, <1>4, <2>1, MovedFields, OwnNames DEF TiersListed
  <2>3. IndexersTold(new)
    BY <1>1, <1>3, <2>2, OwnNames DEF Moved, Told, IndexersTold, Heard, Quiet
  <2> QED BY <1>2, <1>3, <2>2, <2>3
<1>5. CASE TiersUnreachable(j)
  <2>1. PICK new : new = Refused(old, "indexers", "indexers", "unavailable")
    OBVIOUS
  <2>2. Moved(old, new, "indexers", "done") /\ new.cards = old.cards
        /\ new.sources = [old.sources EXCEPT !["indexers"] = "unavailable"]
    BY <1>1, <1>3, <2>1, RefusedFields, OwnNames
  <2>3. Left(new, "indexers", "done") /\ new.sources["indexers"] = "unavailable"
    BY <1>1, <1>3, <1>5, <2>1, <2>2, OwnNames DEF TiersUnreachable
  <2>4. IndexersTold(new)
    BY <1>1, <1>3, <2>2, <2>3, OwnNames DEF Moved, Told, IndexersTold, Heard, Quiet
  <2> QED BY <1>2, <1>3, <2>3, <2>4
<1>6. CASE FastTierFails(j)
  <2>1. PICK new : new = At(old, "indexers", "aggregate")
    OBVIOUS
  <2>2. Left(new, "indexers", "aggregate") /\ new.cards = old.cards /\ new.sources = old.sources
    BY <1>1, <1>3, <1>6, <2>1, MovedFields, OwnNames DEF FastTierFails
  <2>3. IndexersTold(new)
    BY <1>1, <1>3, <2>2, OwnNames DEF Moved, Told, IndexersTold, Heard, Quiet
  <2> QED BY <1>2, <1>3, <2>2, <2>3
<1>7. CASE AggregateAnswers(j)
  <2>1. PICK new : new = Answered(old, "indexers", "indexers", AllIndexers)
    OBVIOUS
  <2>2. Moved(old, new, "indexers", "done") /\ new.cards = old.cards \cup AllIndexers
        /\ new.sources = [old.sources EXCEPT !["indexers"] = "ok"]
    <3>1. PICK found \in SUBSET Cards : found = AllIndexers
      BY OwnNames DEF AllIndexers, Cards
    <3>2. new = Answered(old, "indexers", "indexers", found)
      BY <2>1, <3>1
    <3>3. "indexers" \in Goroutines /\ "indexers" \in Sources
      BY OwnNames
    <3> QED BY <1>1, <3>1, <3>2, <3>3, AnsweredFields
  <2>3. Left(new, "indexers", "done")
    BY <1>1, <1>3, <1>7, <2>1, <2>2, OwnNames DEF AggregateAnswers
  <2>4. "indexers" \in new.cards /\ (config.slowTier => "slowIndexers" \in new.cards)
    BY <2>2 DEF AllIndexers
  <2>5. IndexersTold(new)
    BY <1>1, <1>3, <2>2, <2>3, <2>4, OwnNames DEF Moved, Told, IndexersTold, Heard, Quiet
  <2> QED BY <1>2, <1>3, <2>3, <2>5
<1>8. CASE AggregateFails(j)
  <2>1. PICK new : new = Refused(old, "indexers", "indexers", "failed")
    OBVIOUS
  <2>2. Moved(old, new, "indexers", "done") /\ new.cards = old.cards
        /\ new.sources = [old.sources EXCEPT !["indexers"] = "failed"]
    BY <1>1, <1>3, <2>1, RefusedFields, OwnNames
  <2>3. Left(new, "indexers", "done") /\ new.sources["indexers"] = "failed"
    BY <1>1, <1>3, <1>8, <2>1, <2>2, OwnNames DEF AggregateFails
  <2>4. IndexersTold(new)
    BY <1>1, <1>3, <2>2, <2>3, OwnNames DEF Moved, Told, IndexersTold, Heard, Quiet
  <2> QED BY <1>2, <1>3, <2>3, <2>4
<1>9. CASE SlowTierSilent(j)
  <2>1. PICK new : new = At(old, "slow", "done")
    OBVIOUS
  <2>2. Left(new, "slow", "done") /\ new.cards = old.cards /\ new.sources = old.sources
    BY <1>1, <1>3, <1>9, <2>1, MovedFields, OwnNames DEF SlowTierSilent
  <2>3. IndexersTold(new)
    BY <1>1, <1>3, <2>2, OwnNames DEF Moved, Told, IndexersTold, Heard, Quiet
  <2> QED BY <1>2, <1>3, <2>2, <2>3
<1>10. CASE SlowTierSeen(j)
  <2>1. PICK new : new = At(old, "indexers", "done")
    OBVIOUS
  <2>2. Left(new, "indexers", "done") /\ new.cards = old.cards /\ new.sources = old.sources
    BY <1>1, <1>3, <1>10, <2>1, MovedFields, OwnNames DEF SlowTierSeen
  <2>3. {"indexers", "slowIndexers"} \subseteq old.cards
    BY <1>1, <1>10 DEF SlowTierSeen, Told, IndexersTold
  <2>4. IndexersTold(new)
    BY <1>1, <1>3, <2>2, <2>3, OwnNames DEF Moved, Told, IndexersTold, Heard, Quiet
  <2> QED BY <1>2, <1>3, <2>2, <2>4
<1>11. CASE SlowTierGivenUp(j)
  <2>1. PICK new : new = Refused(old, "indexers", "slowIndexers", "failed")
    OBVIOUS
  <2>2. Moved(old, new, "indexers", "done") /\ new.cards = old.cards
        /\ new.sources = [old.sources EXCEPT !["slowIndexers"] = "failed"]
    BY <1>1, <1>3, <2>1, RefusedFields, OwnNames
  <2>3. Left(new, "indexers", "done") /\ new.sources["slowIndexers"] = "failed"
    BY <1>1, <1>3, <1>11, <2>1, <2>2, OwnNames DEF SlowTierGivenUp
  <2>4. "indexers" \in old.cards
    BY <1>1, <1>11 DEF SlowTierGivenUp, Standing, Told, IndexersTold
  <2>5. IndexersTold(new)
    BY <1>1, <1>3, <2>2, <2>3, <2>4, OwnNames DEF Moved, Told, IndexersTold, Heard, Quiet
  <2> QED BY <1>2, <1>3, <2>3, <2>5
<1> QED BY <1>4, <1>5, <1>6, <1>7, <1>8, <1>9, <1>10, <1>11


LEMMA IndexersStartTells ==
    ASSUME SearchInvariant, NEW j \in Jobs, jobs[j] # None, Told(jobs[j]), IndexersStart(j)
    PROVE  Told(jobs'[j])
<1>1. PICK old : /\ old = jobs[j] /\ old \in Job /\ GoroutinesInOrder(old) /\ Told(old)
                 /\ old.at["indexers"] = "start"
  BY LiveJob DEF IndexersStart, Standing
<1>2. old.at \in [Goroutines -> Places] /\ old.sources \in [Sources -> States]
  BY <1>1, JobFields
<1>3. CASE NotAsked(j) = "pending"
  <2>1. PICK marked : marked = Mark(old, "indexers", "pending")
    OBVIOUS
  <2>2. PICK new : new = At(marked, "indexers", "list")
    OBVIOUS
  <2>3. /\ marked \in Job /\ marked.key = old.key /\ marked.at = old.at
        /\ marked.cards = old.cards /\ marked.firstWave = old.firstWave
        /\ marked.slowLanded = old.slowLanded
        /\ marked.sources = [old.sources EXCEPT !["indexers"] = "pending"]
    <3>1. "pending" \in States
      BY DEF States
    <3> QED BY <1>1, <2>1, <3>1, MarkedFields, OwnNames
  <2>4. "list" \in Places /\ "indexers" \in Goroutines
    BY OwnNames DEF Places
  <2>5. /\ Moved(marked, new, "indexers", "list") /\ new.cards = old.cards
        /\ new.sources = marked.sources
    BY <2>2, <2>3, <2>4, MovedFields
  <2>6. Moved(old, new, "indexers", "list")
    BY <2>3, <2>5 DEF Moved
  <2>7. \A t \in Sources \ {"indexers", "slowIndexers"} : new.sources[t] = old.sources[t]
    BY <1>2, <2>3, <2>5
  <2>8. IndexersTold(new)
    BY <1>1, <1>2, <2>5, <2>6, <2>4, OwnNames DEF Moved, Told, IndexersTold
  <2>9. Told(new)
    BY <1>1, <2>4, <2>5, <2>6, <2>7, <2>8, IndexersMoveTold
  <2>10. Becomes(j, new)
    BY <1>1, <1>3, <2>1, <2>2 DEF IndexersStart
  <2> QED BY <2>9, <2>10, JobBecomes
<1>4. CASE NotAsked(j) # "pending"
  <2>1. PICK state \in States : state = NotAsked(j)
    BY DEF NotAsked, States
  <2>2. PICK new : new = Refused(old, "indexers", "indexers", state)
    OBVIOUS
  <2>3. "done" \in Places /\ "indexers" \in Goroutines /\ "indexers" \in Sources
    BY OwnNames DEF Places
  <2>4. /\ Moved(old, new, "indexers", "done") /\ new.cards = old.cards
        /\ new.sources = [old.sources EXCEPT !["indexers"] = state]
    BY <1>1, <2>2, <2>3, RefusedFields
  <2>5. /\ new.sources["indexers"] = state
        /\ \A t \in Sources \ {"indexers", "slowIndexers"} : new.sources[t] = old.sources[t]
    BY <1>2, <2>3, <2>4
  <2>6. new.key \in WordyKeys /\ config.apiKey => Quiet(new, "indexers")
    BY <1>1, <1>4, <2>1, <2>4, <2>5 DEF NotAsked, Quiet, Moved
  <2>7. IndexersTold(new)
    BY <1>1, <1>2, <2>3, <2>4, <2>6, OwnNames DEF Moved, Told, IndexersTold
  <2>8. Told(new)
    BY <1>1, <2>3, <2>4, <2>5, <2>7, IndexersMoveTold
  <2>9. Becomes(j, new)
    BY <1>1, <1>4, <2>1, <2>2 DEF IndexersStart
  <2> QED BY <2>8, <2>9, JobBecomes
<1> QED BY <1>3, <1>4

LEMMA FastTierTells ==
    ASSUME SearchInvariant, NEW j \in Jobs, jobs[j] # None, Told(jobs[j]), FastTierAnswers(j)
    PROVE  Told(jobs'[j])
<1>1. PICK old : /\ old = jobs[j] /\ old \in Job /\ GoroutinesInOrder(old) /\ Told(old)
                 /\ old.at["indexers"] = "fast"
  BY LiveJob DEF FastTierAnswers, Standing
<1>2. old.at \in [Goroutines -> Places] /\ old.sources \in [Sources -> States]
  BY <1>1, JobFields
<1>3. PICK place \in Places : place = IF config.slowTier THEN "run" ELSE "off"
  BY DEF Places
<1>4. PICK sent : sent = At(old, "slow", place)
  OBVIOUS
<1>5. PICK new : new = At(sent, "indexers", "landed")
  OBVIOUS
<1>6. "landed" \in Places /\ {"run", "indexers", "slow"} \subseteq Goroutines
  BY OwnNames DEF Places
<1>7. Moved(old, sent, "slow", place) /\ sent.cards = old.cards /\ sent.sources = old.sources
  BY <1>1, <1>4, <1>6, MovedFields
<1>8. /\ Moved(sent, new, "indexers", "landed") /\ new.cards = old.cards
      /\ new.sources = old.sources
  BY <1>5, <1>6, <1>7, MovedFields DEF Moved
<1>9. /\ new \in Job /\ new.key = old.key /\ new.firstWave = old.firstWave
      /\ new.slowLanded = old.slowLanded
      /\ new.at["indexers"] = "landed" /\ new.at["slow"] = place
      /\ \A h \in Goroutines : h \notin {"indexers", "slow"} => new.at[h] = old.at[h]
  BY <1>2, <1>6, <1>7, <1>8 DEF Moved
<1>10. IndexersTold(new)
  BY <1>1, <1>3, <1>8, <1>9 DEF Told, IndexersTold
<1>11. Told(new)
  BY <1>1, <1>8, <1>9, <1>10, IndexersStepTold, OwnNames, ConstantsAssumption
<1>12. Becomes(j, new)
  BY <1>1, <1>3, <1>4, <1>5 DEF FastTierAnswers
<1> QED BY <1>11, <1>12, JobBecomes

LEMMA FastCardsTell ==
    ASSUME SearchInvariant, NEW j \in Jobs, jobs[j] # None, Told(jobs[j]), FastCardsIn(j)
    PROVE  Told(jobs'[j])
<1>1. PICK old : /\ old = jobs[j] /\ old \in Job /\ GoroutinesInOrder(old) /\ Told(old)
                 /\ old.at["indexers"] = "landed"
  BY LiveJob DEF FastCardsIn, Standing
<1>2. old.at \in [Goroutines -> Places] /\ old.sources \in [Sources -> States]
  BY <1>1, JobFields
<1>3. PICK found \in SUBSET Cards : found = {"indexers"}
  BY OwnNames DEF Cards
<1>4. PICK job : job = Answered(old, "indexers", "indexers", found)
  OBVIOUS
<1>5. /\ {"done", "posters"} \subseteq Places /\ {"run", "indexers", "slow"} \subseteq Goroutines
      /\ "indexers" \in Sources
  BY OwnNames DEF Places
<1>6. /\ Moved(old, job, "indexers", "done") /\ job.cards = old.cards \cup found
      /\ job.sources = [old.sources EXCEPT !["indexers"] = "ok"]
  BY <1>1, <1>4, <1>5, AnsweredFields
<1>7. \A t \in Sources \ {"indexers", "slowIndexers"} : job.sources[t] = old.sources[t]
  BY <1>2, <1>6
<1>8. job.at["slow"] = old.at["slow"] /\ job \in Job
  BY <1>2, <1>5, <1>6 DEF Moved
<1>9. Becomes(j, IF job.at["slow"] = "off" THEN job ELSE At(job, "indexers", "posters"))
  BY <1>1, <1>3, <1>4 DEF FastCardsIn
<1>10. CASE job.at["slow"] = "off"
  <2>1. IndexersTold(job)
    BY <1>1, <1>2, <1>3, <1>5, <1>6, <1>8, <1>10 DEF Moved, Told, IndexersTold
  <2>2. Told(job)
    BY <1>1, <1>5, <1>6, <1>7, <2>1, IndexersMoveTold
  <2>3. Becomes(j, job)
    BY <1>9, <1>10
  <2> QED BY <2>2, <2>3, JobBecomes
<1>11. CASE job.at["slow"] # "off"
  <2>1. PICK new : new = At(job, "indexers", "posters")
    OBVIOUS
  <2>2. /\ Moved(job, new, "indexers", "posters") /\ new.cards = job.cards
        /\ new.sources = job.sources
    BY <1>5, <1>8, <2>1, MovedFields
  <2>3. Moved(old, new, "indexers", "posters")
    BY <1>2, <1>6, <2>2 DEF Moved
  <2>4. IndexersTold(new)
    BY <1>1, <1>2, <1>3, <1>5, <1>6, <2>2, <2>3 DEF Moved, Told, IndexersTold
  <2>5. Told(new)
    BY <1>1, <1>5, <1>6, <1>7, <2>2, <2>3, <2>4, IndexersMoveTold
  <2>6. Becomes(j, new)
    BY <1>9, <1>11, <2>1
  <2> QED BY <2>5, <2>6, JobBecomes
<1> QED BY <1>10, <1>11

LEMMA WaitTells ==
    ASSUME SearchInvariant, NEW j \in Jobs, jobs[j] # None, Told(jobs[j]), WaitForSlowTier(j)
    PROVE  Told(jobs'[j])
<1>1. PICK old : /\ old = jobs[j] /\ old \in Job /\ GoroutinesInOrder(old) /\ Told(old)
                 /\ old.at["indexers"] = "posters"
  BY LiveJob DEF WaitForSlowTier, Standing
<1>2. old.at \in [Goroutines -> Places] /\ old.sources \in [Sources -> States]
  BY <1>1, JobFields
<1>3. PICK marked : marked = Mark(old, "slowIndexers", "pending")
  OBVIOUS
<1>4. PICK new : new = At(marked, "indexers", "await")
  OBVIOUS
<1>5. /\ marked \in Job /\ marked.key = old.key /\ marked.at = old.at
      /\ marked.cards = old.cards /\ marked.firstWave = old.firstWave
      /\ marked.slowLanded = old.slowLanded
      /\ marked.sources = [old.sources EXCEPT !["slowIndexers"] = "pending"]
  <2>1. "pending" \in States
    BY DEF States
  <2> QED BY <1>1, <1>3, <2>1, MarkedFields, OwnNames
<1>6. "await" \in Places /\ {"run", "indexers", "slow"} \subseteq Goroutines
  BY OwnNames DEF Places
<1>7. /\ Moved(marked, new, "indexers", "await") /\ new.cards = old.cards
      /\ new.sources = marked.sources
  BY <1>4, <1>5, <1>6, MovedFields
<1>8. Moved(old, new, "indexers", "await")
  BY <1>5, <1>7 DEF Moved
<1>9. \A t \in Sources \ {"indexers", "slowIndexers"} : new.sources[t] = old.sources[t]
  BY <1>2, <1>5, <1>7
<1>10. IndexersTold(new)
  BY <1>1, <1>2, <1>6, <1>7, <1>8 DEF Moved, Told, IndexersTold
<1>11. Told(new)
  BY <1>1, <1>6, <1>7, <1>8, <1>9, <1>10, IndexersMoveTold
<1>12. Becomes(j, new)
  BY <1>1, <1>3, <1>4 DEF WaitForSlowTier
<1> QED BY <1>11, <1>12, JobBecomes

LEMMA SlowTierTells ==
    ASSUME SearchInvariant, NEW j \in Jobs, jobs[j] # None, Told(jobs[j]), SlowTierLands(j)
    PROVE  Told(jobs'[j])
<1>1. PICK old : /\ old = jobs[j] /\ old \in Job /\ GoroutinesInOrder(old) /\ Told(old)
                 /\ old.at["slow"] = "run"
  BY LiveJob DEF SlowTierLands, Standing
<1>2. old.at \in [Goroutines -> Places] /\ old.sources \in [Sources -> States]
  BY <1>1, JobFields
<1>3. PICK found \in SUBSET Cards : found = {"indexers", "slowIndexers"}
  BY OwnNames DEF Cards
<1>4. PICK job : job = Answered(old, "slow", "slowIndexers", found)
  OBVIOUS
<1>5. /\ "run" \in Goroutines /\ "indexers" \in Goroutines /\ "slow" \in Goroutines
      /\ "slowIndexers" \in Sources
  BY OwnNames
<1>6. /\ Moved(old, job, "slow", "done") /\ job.cards = old.cards \cup found
      /\ job.sources = [old.sources EXCEPT !["slowIndexers"] = "ok"]
  BY <1>1, <1>4, <1>5, AnsweredFields
<1>7. PICK new : new = [job EXCEPT !.slowLanded = TRUE]
  OBVIOUS
<1>8. /\ new \in Job /\ new.key = old.key /\ new.firstWave = old.firstWave
      /\ new.cards = old.cards \cup found /\ new.at = [old.at EXCEPT !["slow"] = "done"]
      /\ new.sources = [old.sources EXCEPT !["slowIndexers"] = "ok"]
  BY <1>6, <1>7 DEF Moved, Job
<1>9. /\ new.at["slow"] = "done"
      /\ \A h \in Goroutines : h # "slow" => new.at[h] = old.at[h]
      /\ \A t \in Sources : t # "slowIndexers" => new.sources[t] = old.sources[t]
  BY <1>2, <1>5, <1>8
<1>10. IndexersTold(new)
  BY <1>1, <1>3, <1>5, <1>8, <1>9 DEF Told, IndexersTold, Heard, GoroutinesInOrder
<1>11. Told(new)
  <2>1. \A h \in {"archive"} \cup Providers : new.at[h] = old.at[h]
    BY <1>9, OwnNames, ConstantsAssumption
  <2>2. /\ old.cards \subseteq new.cards /\ new.at["run"] = old.at["run"]
        /\ \A t \in Sources \ {"indexers", "slowIndexers"} : new.sources[t] = old.sources[t]
    BY <1>5, <1>8, <1>9
  <2> QED BY <1>1, <1>8, <1>10, <2>1, <2>2, IndexersStepTold
<1>12. Becomes(j, new)
  BY <1>1, <1>3, <1>4, <1>7 DEF SlowTierLands
<1> QED BY <1>11, <1>12, JobBecomes

LEMMA CataloguesTell ==
    ASSUME SearchInvariant, NEW j \in Jobs, jobs[j] # None, Told(jobs[j]), CatalogueStages(j)
    PROVE  Told(jobs'[j])
<1>1. PICK old : /\ old = jobs[j] /\ old \in Job /\ GoroutinesInOrder(old) /\ Told(old)
                 /\ old.at["run"] = "catalogues"
  BY LiveJob DEF CatalogueStages, Standing
<1>2. old.at \in [Goroutines -> Places]
  BY <1>1, JobFields
<1>3. PICK found \in SUBSET Cards : found = {"catalogues"}
  BY OwnNames DEF Cards
<1>4. PICK more : more = Add(old, found)
  OBVIOUS
<1>5. PICK scanned : scanned = IF old.key \in CatalogueKeys THEN Mark(more, "catalogues", "ok")
                               ELSE Mark(old, "catalogues", "none")
  OBVIOUS
<1>6. PICK new : new = At(scanned, "run", "spawn")
  OBVIOUS
<1>7. /\ "ok" \in States /\ "none" \in States /\ "spawn" \in Places
      /\ {"run", "indexers", "slow"} \subseteq Goroutines /\ "catalogues" \in Sources
  BY OwnNames DEF States, Places
<1>8. /\ more \in Job /\ more.key = old.key /\ more.at = old.at
      /\ more.cards = old.cards \cup found /\ more.firstWave = old.firstWave
      /\ more.slowLanded = old.slowLanded
  BY <1>1, <1>4, AddedFields
<1>9. /\ scanned \in Job /\ scanned.key = old.key /\ scanned.at = old.at
      /\ old.cards \subseteq scanned.cards /\ scanned.firstWave = old.firstWave
      /\ scanned.slowLanded = old.slowLanded
      /\ old.key \in CatalogueKeys => "catalogues" \in scanned.cards
  <2>1. CASE old.key \in CatalogueKeys
    <3>1. scanned = Mark(more, "catalogues", "ok")
      BY <1>5, <2>1
    <3> QED BY <1>3, <1>7, <1>8, <3>1, MarkedFields
  <2>2. CASE old.key \notin CatalogueKeys
    <3>1. scanned = Mark(old, "catalogues", "none")
      BY <1>5, <2>2
    <3>2. /\ scanned \in Job /\ scanned.key = old.key /\ scanned.at = old.at
          /\ scanned.cards = old.cards /\ scanned.firstWave = old.firstWave
          /\ scanned.slowLanded = old.slowLanded
      BY <1>1, <1>7, <3>1, MarkedFields
    <3> QED BY <2>2, <3>2
  <2> QED BY <2>1, <2>2
<1>10. Moved(scanned, new, "run", "spawn") /\ new.cards = scanned.cards
  BY <1>6, <1>7, <1>9, MovedFields
<1>11. /\ new.at["run"] = "spawn" /\ new.at["indexers"] = old.at["indexers"]
       /\ new.at["slow"] = old.at["slow"]
  BY <1>2, <1>7, <1>9, <1>10 DEF Moved
<1>12. IndexersTold(new)
  BY <1>1, <1>7, <1>9, <1>10, <1>11 DEF Told, IndexersTold, Moved, GoroutinesInOrder
<1>13. Told(new)
  BY <1>1, <1>9, <1>10, <1>11, <1>12 DEF Told, Moved
<1>14. Becomes(j, new)
  BY <1>1, <1>3, <1>4, <1>5, <1>6 DEF CatalogueStages
<1> QED BY <1>13, <1>14, JobBecomes

LEMMA SpawnTells ==
    ASSUME SearchInvariant, NEW j \in Jobs, jobs[j] # None, Told(jobs[j]), Spawn(j)
    PROVE  Told(jobs'[j])
<1>1. PICK old : /\ old = jobs[j] /\ old \in Job /\ GoroutinesInOrder(old) /\ Told(old)
                 /\ old.at["run"] = "spawn"
  BY LiveJob DEF Spawn, Standing
<1>2. PICK asked : asked = AskedAbout(old.key)
  OBVIOUS
<1>3. PICK sources : sources = [s \in Sources |->
                    IF s \in asked THEN "pending"
                    ELSE IF s \in {"archive"} \cup Providers THEN "none"
                    ELSE old.sources[s]]
  OBVIOUS
<1>4. PICK at : at = [g \in Goroutines |->
                    IF g = "run" THEN "wait"
                    ELSE IF g = "indexers" THEN "start"
                    ELSE IF g \in asked THEN "run"
                    ELSE IF g = "slow" THEN "off" ELSE "done"]
  OBVIOUS
<1>5. PICK firstWave : firstWave = (old.key \notin ArchiveKeys)
  OBVIOUS
<1>6. PICK new : new = [old EXCEPT !.sources = sources, !.at = at, !.firstWave = firstWave]
  OBVIOUS
<1>7. /\ new.key = old.key /\ new.cards = old.cards /\ new.at = at
      /\ new.slowLanded = old.slowLanded
  BY <1>1, <1>6 DEF Job
<1>8. /\ at["run"] = "wait" /\ at["indexers"] = "start" /\ at["slow"] = "off"
      /\ \A s \in asked : at[s] = "run"
  BY <1>2, <1>4, OwnNames, AskedAboutWhom
<1>9. Told(new)
  BY <1>1, <1>2, <1>7, <1>8 DEF Told, IndexersTold
<1>10. Becomes(j, new)
  BY <1>1, <1>2, <1>3, <1>4, <1>5, <1>6 DEF Spawn, AskedAbout
<1> QED BY <1>9, <1>10, JobBecomes

\* What has been said does not depend on whether the job is done, and how old it is.
LEMMA EndTells ==
    ASSUME SearchInvariant, NEW j \in Jobs, jobs[j] # None, Told(jobs[j]),
           CacheAnswer(j) \/ Finish(j) \/ JobAges(j)
    PROVE  Told(jobs'[j])
<1>1. PICK old : old = jobs[j] /\ old \in Job /\ GoroutinesInOrder(old) /\ Told(old)
  BY LiveJob
<1>2. {"finish", "done"} \subseteq Places /\ {"run", "indexers", "slow"} \subseteq Goroutines
      /\ old.at \in [Goroutines -> Places]
  BY <1>1, OwnNames, JobFields DEF Places
<1> DEFINE Ends(new) ==
               /\ Becomes(j, new) /\ new.key = old.key /\ new.cards = old.cards
               /\ new.sources = old.sources /\ new.slowLanded = old.slowLanded
               /\ \A g \in Goroutines \ {"run"} : new.at[g] = old.at[g]
               /\ \/ new.at["run"] = old.at["run"] /\ new.firstWave = old.firstWave
                  \/ /\ old.at["run"] \in {"wait", "finish"}
                     /\ new.at["run"] \in {"finish", "done"}
<1>3. ASSUME NEW new, Ends(new) PROVE Told(jobs'[j])
  <2>1. \A s \in AskedAbout(old.key) : s \in Goroutines \ {"run"}
    BY AskedAboutWhom
  <2>2. Told(new)
    BY <1>1, <1>2, <1>3, <2>1, OwnNames DEF Told, IndexersTold, Heard, Quiet
  <2> QED BY <1>3, <2>2, JobBecomes
<1>4. CASE CacheAnswer(j)
  <2>1. PICK new : new = At(old, "run", "finish")
    OBVIOUS
  <2>2. Moved(old, new, "run", "finish") /\ new.cards = old.cards /\ new.sources = old.sources
    BY <1>1, <1>2, <2>1, MovedFields
  <2>3. Ends(new)
    BY <1>1, <1>2, <1>4, <2>1, <2>2 DEF CacheAnswer, Standing, Moved
  <2> QED BY <1>3, <2>3
<1>5. CASE Finish(j)
  <2>1. PICK gone : gone = At(old, "run", "done")
    OBVIOUS
  <2>2. Moved(old, gone, "run", "done") /\ gone.cards = old.cards /\ gone.sources = old.sources
    BY <1>1, <1>2, <2>1, MovedFields
  <2>3. PICK new : new = [gone EXCEPT !.complete = TRUE, !.firstWave = TRUE]
    OBVIOUS
  <2>4. /\ new.key = gone.key /\ new.cards = gone.cards /\ new.sources = gone.sources
        /\ new.slowLanded = gone.slowLanded /\ new.at = gone.at
    BY <2>2, <2>3 DEF Moved, Job
  <2>5. Becomes(j, new) /\ old.at["run"] = "finish"
    BY <1>1, <1>5, <2>1, <2>3 DEF Finish, Standing
  <2>6. Ends(new)
    BY <1>1, <1>2, <2>2, <2>4, <2>5 DEF Moved
  <2> QED BY <1>3, <2>6
<1>6. CASE JobAges(j)
  <2>1. PICK age : age = IF old.age = "fresh" THEN "stale" ELSE "dead"
    OBVIOUS
  <2>2. PICK new : new = [old EXCEPT !.age = age]
    OBVIOUS
  <2>3. /\ new.key = old.key /\ new.cards = old.cards /\ new.sources = old.sources
        /\ new.slowLanded = old.slowLanded /\ new.at = old.at /\ new.firstWave = old.firstWave
    BY <1>1, <2>2 DEF Job
  <2>4. Becomes(j, new)
    BY <1>1, <1>6, <2>1, <2>2 DEF JobAges
  <2>5. Ends(new)
    BY <2>3, <2>4
  <2> QED BY <1>3, <2>5
<1> QED BY <1>4, <1>5, <1>6


LEMMA JobStepTells ==
    ASSUME SearchInvariant, NEW j \in Jobs, jobs[j] # None, Told(jobs[j]),
           JobStep(j) \/ JobAges(j)
    PROVE  Told(jobs'[j])
BY CataloguesTell, SpawnTells, ArchiveTells, ProviderTells, IndexersStartTells, IndexersTell,
   FastTierTells, FastCardsTell, WaitTells, SlowTierTells, EndTells DEF JobStep

-----------------------------------------------------------------------------
(* Steps: what happens to a job, and to everything else.                   *)

\* A step of a job is of a job that is there, and leaves the others and the
\* browsers alone.
LEMMA JobStepFrame ==
    ASSUME SearchInvariant, NEW j \in Jobs, JobStep(j) \/ JobAges(j)
    PROVE  /\ jobs[j] # None /\ UNCHANGED <<config, client>>
           /\ \A i \in Jobs : i # j => jobs'[i] = jobs[i]
           /\ UNCHANGED cache \/ CacheAnswer(j)
<1> DEFINE Framed(new) == /\ jobs[j] # None /\ Becomes(j, new)
                          /\ UNCHANGED <<config, client>>
<1>1. ASSUME NEW new, Framed(new) PROVE \A i \in Jobs : i # j => jobs'[i] = jobs[i]
  BY <1>1, JobBecomes
<1> DEFINE Frame == /\ jobs[j] # None /\ UNCHANGED <<config, client>>
                    /\ \E new : Becomes(j, new)
                    /\ UNCHANGED cache \/ CacheAnswer(j)
<1>2. CASE CatalogueStages(j) \/ Spawn(j)
  <2>1. Frame
    BY <1>2 DEF CatalogueStages, Spawn, Standing
  <2> QED BY <1>1, <2>1
<1>3. CASE ArchiveAnswers(j) \/ \E p \in Providers : ProviderAnswers(j, p)
  <2>1. Frame
    BY <1>3 DEF ArchiveAnswers, ProviderAnswers, Standing
  <2> QED BY <1>1, <2>1
<1>4. CASE IndexersStart(j) \/ TiersListed(j) \/ TiersUnreachable(j)
  <2>1. Frame
    BY <1>4 DEF IndexersStart, TiersListed, TiersUnreachable, Standing
  <2> QED BY <1>1, <2>1
<1>5. CASE FastTierAnswers(j) \/ FastTierFails(j) \/ AggregateAnswers(j) \/ AggregateFails(j)
  <2>1. Frame
    BY <1>5 DEF FastTierAnswers, FastTierFails, AggregateAnswers, AggregateFails, Standing
  <2> QED BY <1>1, <2>1
<1>6. CASE FastCardsIn(j) \/ WaitForSlowTier(j) \/ SlowTierLands(j) \/ SlowTierSilent(j)
  <2>1. Frame
    BY <1>6 DEF FastCardsIn, WaitForSlowTier, SlowTierLands, SlowTierSilent, Standing
  <2> QED BY <1>1, <2>1
<1>7. CASE SlowTierSeen(j) \/ SlowTierGivenUp(j) \/ CacheAnswer(j)
  <2>1. Frame
    BY <1>7 DEF SlowTierSeen, SlowTierGivenUp, CacheAnswer, Standing
  <2> QED BY <1>1, <2>1
<1>8. CASE Finish(j) \/ JobAges(j)
  <2>1. Frame
    BY <1>8 DEF Finish, JobAges, Standing
  <2> QED BY <1>1, <2>1
<1> QED BY <1>2, <1>3, <1>4, <1>5, <1>6, <1>7, <1>8 DEF JobStep

\* A complete answer is kept as it is, until it is dropped.
LEMMA FinalStays ==
    ASSUME SearchInvariant, [Promise!Next]_<<Answer, Phase>>, SearchInvariant',
           NEW j \in Jobs, jobs[j] # None, jobs[j].complete, jobs'[j] # None
    PROVE  jobs'[j].complete /\ jobs'[j].cards = jobs[j].cards
<1>1. Phase[j] = "final" /\ Answer[j] = jobs[j].cards
  BY DEF Phase, Answer
<1>2. Phase'[j] # "none" /\ Answer'[j] = jobs'[j].cards
  BY DEF Phase, Answer
<1>3. Phase \in [Jobs -> {"none", "final", "growing"}] /\ Answer = [i \in Jobs |-> Answer[i]]
  BY DEF Phase, Answer
<1>4. Phase'[j] = "final" /\ Answer'[j] = Answer[j]
  <2>1. CASE Promise!Expire
    <3>1. PICK gone \in SUBSET {i \in Jobs : Phase[i] = "final"} :
            /\ Answer' = [i \in Jobs |-> IF i \in gone THEN {} ELSE Answer[i]]
            /\ Phase' = [i \in Jobs |-> IF i \in gone THEN "none" ELSE Phase[i]]
      BY <2>1 DEF Promise!Expire
    <3> QED BY <1>1, <1>2, <3>1
  <2>2. CASE UNCHANGED <<Answer, Phase>>
    BY <1>1, <2>2
  <2>3. ASSUME NEW i \in Jobs, Promise!Start(i) \/ Promise!Grow(i) \/ Promise!Complete(i)
        PROVE  Phase'[j] = "final" /\ Answer'[j] = Answer[j]
    <3>1. i # j
      BY <1>1, <2>3 DEF Promise!Start, Promise!Grow, Promise!Complete
    <3>2. Phase'[j] = Phase[j]
      BY <1>3, <2>3, <3>1 DEF Promise!Start, Promise!Grow, Promise!Complete
    <3>3. Answer'[j] = Answer[j]
      BY <1>3, <2>3, <3>1 DEF Promise!Start, Promise!Grow, Promise!Complete
    <3> QED BY <1>1, <3>2, <3>3
  <2> QED BY <2>1, <2>2, <2>3 DEF Promise!Next
<1>5. jobs'[j].complete
  BY <1>4 DEF Phase
<1> QED BY <1>1, <1>2, <1>4, <1>5

\* The configuration never changes; who is told what does not depend on anything else.
LEMMA ToldAgain ==
    ASSUME config' = config, jobs' \in [Jobs -> Job \cup {None}],
           \A j \in Jobs : jobs'[j] # None => Told(jobs'[j])
    PROVE  JobsTold'
BY DEF JobsTold, Told, IndexersTold, Heard, Quiet, AskedAbout

LEMMA NewJobTold ==
    ASSUME NEW k \in Keys
    PROVE  Told(NewJob(k))
<1>1. PICK at : at = [g \in Goroutines |-> IF g = "run" THEN "catalogues" ELSE "off"]
  OBVIOUS
<1>2. /\ NewJob(k).at = at /\ ~NewJob(k).firstWave /\ ~NewJob(k).slowLanded
      /\ at["run"] = "catalogues" /\ at["indexers"] = "off"
  BY <1>1, OwnNames DEF NewJob
<1> QED BY <1>2 DEF Told, IndexersTold

\* What run caches is whole.
LEMMA WholeAnswerCached ==
    ASSUME SearchInvariant, CachedAnswerIsWhole, NEW j \in Jobs, Told(jobs[j]), CacheAnswer(j)
    PROVE  CachedAnswerIsWhole'
<1>1. PICK old : /\ old = jobs[j] /\ old \in Job /\ GoroutinesInOrder(old) /\ Told(old)
                 /\ old.at["run"] = "wait" /\ AllSpoken(old)
  BY LiveJob DEF CacheAnswer, Standing
<1>2. cache \in CacheType /\ config' = config
  BY AsideTypes DEF CacheAnswer
<1>3. CASE cache' = cache
  BY <1>2, <1>3 DEF CachedAnswerIsWhole, Whole, AllIndexers
<1>4. CASE cache' = [cache EXCEPT ![old.key] = [cards |-> old.cards, fresh |-> TRUE]]
           /\ Cacheable(old.sources)
  <2>1. \A s \in Sources : ~Quiet(old, s)
    BY <1>4 DEF Cacheable, Quiet
  <2>2. \A s \in AskedAbout(old.key) : s \in old.cards
    <3> SUFFICES ASSUME NEW s \in AskedAbout(old.key) PROVE s \in old.cards
      OBVIOUS
    <3>1. s \in Sources /\ old.at[s] = "done"
      BY <1>1, AskedAboutWhom DEF AllSpoken
    <3> QED BY <1>1, <2>1, <3>1 DEF Told, Heard
  <2>3. old.key \in WordyKeys /\ config.apiKey => AllIndexers \subseteq old.cards
    BY <1>1, <2>1, OwnNames DEF AllSpoken, Told, IndexersTold, Heard, AllIndexers
  <2>4. old.key \in CatalogueKeys => "catalogues" \in old.cards
    BY <1>1 DEF Told
  <2>5. Whole(old.key) \subseteq old.cards
    BY <2>2, <2>3, <2>4 DEF Whole, AskedAbout
  <2>6. old.key \in Keys
    BY <1>1, JobFields
  <2> SUFFICES ASSUME NEW k \in Keys, cache'[k] # None PROVE Whole(k) \subseteq cache'[k].cards
    BY <1>2 DEF CachedAnswerIsWhole, Whole, AllIndexers
  <2>7. CASE k = old.key
    <3>1. cache'[k].cards = old.cards
      BY <1>2, <1>4, <2>6, <2>7 DEF CacheType
    <3> QED BY <2>5, <2>7, <3>1
  <2>8. CASE k # old.key
    <3>1. cache'[k] = cache[k]
      BY <1>2, <1>4, <2>8 DEF CacheType
    <3> QED BY <3>1 DEF CachedAnswerIsWhole
  <2> QED BY <2>7, <2>8
<1> QED BY <1>1, <1>3, <1>4 DEF CacheAnswer

\* The same for a cache that does not change but by getting older.
LEMMA WholeAnswerKept ==
    ASSUME SearchInvariant, CachedAnswerIsWhole, config' = config,
           UNCHANGED cache \/ \E k \in Keys : CacheAges(k)
    PROVE  CachedAnswerIsWhole'
<1>1. cache \in CacheType
  BY AsideTypes
<1>2. \A k \in Keys : cache'[k] # None => cache[k] # None /\ cache'[k].cards = cache[k].cards
  <2>1. CASE UNCHANGED cache
    BY <2>1
  <2>2. ASSUME NEW k \in Keys, CacheAges(k)
        PROVE  \A l \in Keys : cache'[l] # None => cache[l] # None /\ cache'[l].cards = cache[l].cards
    <3>1. PICK entry : entry = IF cache[k].fresh THEN [cache[k] EXCEPT !.fresh = FALSE] ELSE None
      OBVIOUS
    <3>2. cache[k] # None /\ (entry # None => entry.cards = cache[k].cards)
      BY <1>1, <2>2, <3>1 DEF CacheAges, CacheType
    <3>3. cache' = [cache EXCEPT ![k] = entry]
      BY <1>1, <2>2, <3>1 DEF CacheAges, CacheType
    <3> QED BY <1>1, <3>2, <3>3 DEF CacheType
  <2> QED BY <2>1, <2>2
<1>3. \A k \in Keys : cache'[k] # None => Whole(k) \subseteq cache'[k].cards
  BY <1>2 DEF CachedAnswerIsWhole
<1> QED BY <1>3 DEF CachedAnswerIsWhole, Whole, AllIndexers


-----------------------------------------------------------------------------
(* The browsers.                                                           *)

\* A browser that keeps what it painted is satisfied with it, as long as its job
\* does not begin anew.
LEMMA SatisfactionStays ==
    ASSUME SearchInvariant, Kept, NEW c \in Clients, Satisfied(client[c], jobs),
           client'[c] = client[c],
           client[c].job # None /\ jobs[client[c].job] = None => jobs'[client[c].job] = None
    PROVE  Satisfied(client'[c], jobs')
<1>1. client[c].job \in Jobs \cup {None}
  BY AsideTypes DEF Search
<1>2. SearchInvariant' /\ [Promise!Next]_<<Answer, Phase>>
  BY DEF Kept
<1>3. ASSUME client[c].complete = TRUE, client[c].job # None, jobs'[client[c].job] # None
      PROVE  /\ jobs'[client[c].job].complete
             /\ jobs'[client[c].job].cards \subseteq client[c].painted
  <2>1. /\ jobs[client[c].job] # None /\ jobs[client[c].job].complete
        /\ jobs[client[c].job].cards \subseteq client[c].painted
    BY <1>3 DEF Satisfied
  <2> QED BY <1>1, <1>2, <1>3, <2>1, FinalStays
<1> QED BY <1>3 DEF Satisfied

LEMMA Painted ==
    ASSUME SearchInvariant, NEW c \in Clients, NEW search, Paint(c, search)
    PROVE  client'[c] = search /\ \A d \in Clients : d # c => client'[d] = client[d]
BY AsideTypes DEF Paint

\* A browser's own step, while the jobs stand.
LEMMA BrowserSatisfied ==
    ASSUME SearchInvariant, \A d \in Clients : Satisfied(client[d], jobs), jobs' = jobs,
           NEW c \in Clients, NEW search, Paint(c, search), Satisfied(search, jobs)
    PROVE  \A d \in Clients : Satisfied(client'[d], jobs')
<1>1. client'[c] = search /\ \A d \in Clients : d # c => client'[d] = client[d]
  BY Painted
<1> QED BY <1>1

LEMMA BrowserStepSatisfied ==
    ASSUME SearchInvariant, \A d \in Clients : Satisfied(client[d], jobs), NEW c \in Clients,
           \/ ClientStep(c) \/ StopPolling(c) \/ Leave(c)
           \/ \E k \in Keys : AskHit(c, k) \/ AskJoin(c, k)
    PROVE  /\ \A d \in Clients : Satisfied(client'[d], jobs')
           /\ UNCHANGED <<config, jobs, cache>>
<1>1. UNCHANGED <<config, jobs, cache>>
  BY DEF ClientStep, FirstPaint, Poll, PollGone, StopPolling, Leave, AskHit, AskJoin
<1>2. ASSUME NEW search, Paint(c, search), Satisfied(search, jobs)
      PROVE  \A d \in Clients : Satisfied(client'[d], jobs')
  BY <1>1, <1>2, BrowserSatisfied
<1>3. client[c] \in Search
  BY AsideTypes
<1>4. CASE FirstPaint(c) \/ Poll(c)
  <2>1. PICK search : search = Collected(c, Old(jobs[client[c].job].key))
    OBVIOUS
  <2>2. PICK more : more = client[c].painted \cup jobs[client[c].job].cards
                              \cup Old(jobs[client[c].job].key)
    OBVIOUS
  <2>3. search = [at |-> IF jobs[client[c].job].complete THEN "settled" ELSE "polling",
                  job |-> client[c].job, painted |-> more,
                  complete |-> jobs[client[c].job].complete]
    BY <2>1, <2>2 DEF Collected
  <2>4. Satisfied(search, jobs)
    BY <2>2, <2>3 DEF Satisfied
  <2>5. Paint(c, search)
    BY <1>4, <2>1 DEF FirstPaint, Poll
  <2> QED BY <1>1, <1>2, <2>4, <2>5
<1>5. CASE PollGone(c) \/ StopPolling(c)
  <2>1. PICK search : search = [client[c] EXCEPT !.at = "settled"]
    OBVIOUS
  <2>2. ~client[c].complete
    BY <1>5 DEF PollGone, StopPolling, Satisfied
  <2>3. ~search.complete
    BY <1>3, <2>1, <2>2 DEF Search
  <2>4. Paint(c, search) /\ Satisfied(search, jobs)
    BY <1>5, <2>1, <2>3 DEF PollGone, StopPolling, Satisfied
  <2> QED BY <1>1, <1>2, <2>4
<1>6. CASE Leave(c)
  <2>1. Satisfied(NoSearch, jobs) /\ Paint(c, NoSearch)
    BY <1>6 DEF Leave, NoSearch, Satisfied
  <2> QED BY <1>1, <1>2, <2>1
<1>7. ASSUME NEW k \in Keys, AskHit(c, k)
      PROVE  \A d \in Clients : Satisfied(client'[d], jobs')
  <2>1. PICK search : search = [at |-> "settled", job |-> None, painted |-> cache[k].cards,
                                complete |-> TRUE]
    OBVIOUS
  <2>2. Paint(c, search) /\ Satisfied(search, jobs)
    BY <1>7, <2>1 DEF AskHit, Satisfied
  <2> QED BY <1>2, <2>2
<1>8. ASSUME NEW k \in Keys, AskJoin(c, k)
      PROVE  \A d \in Clients : Satisfied(client'[d], jobs')
  <2>1. PICK search : search = [NoSearch EXCEPT !.at = "waiting", !.job = byKey[k]]
    OBVIOUS
  <2>2. Paint(c, search) /\ Satisfied(search, jobs)
    BY <1>8, <2>1 DEF AskJoin, NoSearch, Satisfied
  <2> QED BY <1>2, <2>2
<1> QED BY <1>1, <1>4, <1>5, <1>6, <1>7, <1>8 DEF ClientStep

-----------------------------------------------------------------------------
(* What is painted and what is cached: the theorems.                       *)

LEMMA AnswersInitially == Init => AnswersInvariant
<1> SUFFICES ASSUME Init PROVE AnswersInvariant
  OBVIOUS
<1>1. JobsTold /\ CachedAnswerIsWhole
  BY DEF Init, JobsTold, CachedAnswerIsWhole
<1>2. \A c \in Clients : client[c] = NoSearch
  BY DEF Init
<1>3. \A c \in Clients : Satisfied(client[c], jobs)
  BY <1>2 DEF NoSearch, Satisfied
<1> QED BY <1>1, <1>3 DEF AnswersGiven, AnswersInvariant

\* What the jobs have told and the browsers were given does not depend on what is
\* cached: a hit has no job.
LEMMA AnswersStay ==
    ASSUME SearchInvariant, AnswersGiven, Kept, [Next]_vars
    PROVE  AnswersGiven'
<1>1. /\ SearchInvariant' /\ JobsTold /\ \A c \in Clients : Satisfied(client[c], jobs)
  BY DEF Kept, AnswersGiven
<1>2. jobs' \in [Jobs -> Job \cup {None}]
  BY <1>1 DEF SearchInvariant, TypeOK
<1>3. ASSUME config' = config, \A j \in Jobs : jobs'[j] # None => Told(jobs'[j]),
             \A c \in Clients : Satisfied(client'[c], jobs')
      PROVE  AnswersGiven'
  <2>1. JobsTold'
    BY <1>2, <1>3, ToldAgain
  <2> QED BY <1>3, <2>1 DEF AnswersGiven, Satisfied
<1>4. ASSUME UNCHANGED <<config, jobs>>, \A c \in Clients : Satisfied(client'[c], jobs')
      PROVE  AnswersGiven'
  <2>1. \A j \in Jobs : jobs'[j] # None => Told(jobs'[j])
    BY <1>1, <1>4 DEF JobsTold
  <2> QED BY <1>3, <1>4, <2>1
<1>5. ASSUME client' = client, \A j \in Jobs : jobs[j] = None => jobs'[j] = None
      PROVE  \A c \in Clients : Satisfied(client'[c], jobs')
  <2> SUFFICES ASSUME NEW c \in Clients PROVE Satisfied(client'[c], jobs')
    OBVIOUS
  <2>1. client[c].job \in Jobs \cup {None}
    BY AsideTypes DEF Search
  <2> QED BY <1>1, <1>5, <2>1, SatisfactionStays
<1>6. ASSUME NEW j \in Jobs, JobStep(j) \/ JobAges(j) PROVE AnswersGiven'
  <2>1. /\ jobs[j] # None /\ UNCHANGED <<config, client>>
        /\ \A i \in Jobs : i # j => jobs'[i] = jobs[i]
    BY <1>6, JobStepFrame
  <2>2. Told(jobs[j])
    BY <1>1, <2>1 DEF JobsTold
  <2>3. Told(jobs'[j])
    BY <1>6, <2>1, <2>2, JobStepTells
  <2>4. \A i \in Jobs : jobs'[i] # None => Told(jobs'[i])
    BY <1>1, <2>1, <2>3 DEF JobsTold
  <2>5. \A i \in Jobs : jobs[i] = None => jobs'[i] = None
    BY <2>1
  <2> QED BY <1>3, <1>5, <2>1, <2>4, <2>5
<1>7. CASE CooldownPasses \/ (\E k \in Keys : CacheAges(k)) \/ UNCHANGED vars
  <2>1. UNCHANGED <<config, jobs, client>>
    BY <1>7 DEF CooldownPasses, CacheAges, vars
  <2> QED BY <1>4, <1>5, <2>1
<1>8. CASE Sweep
  <2>1. PICK gone : jobs' = [j \in Jobs |-> IF j \in gone THEN None ELSE jobs[j]]
    BY <1>8 DEF Sweep
  <2>2. UNCHANGED <<config, client>>
    BY <1>8 DEF Sweep
  <2>3. \A j \in Jobs : /\ jobs'[j] # None => Told(jobs'[j])
                        /\ jobs[j] = None => jobs'[j] = None
    BY <1>1, <2>1 DEF JobsTold
  <2> QED BY <1>3, <1>5, <2>2, <2>3
<1>9. ASSUME NEW c \in Clients,
             \/ ClientStep(c) \/ StopPolling(c) \/ Leave(c)
             \/ \E k \in Keys : AskHit(c, k) \/ AskJoin(c, k)
      PROVE  AnswersGiven'
  <2>1. /\ \A d \in Clients : Satisfied(client'[d], jobs')
        /\ UNCHANGED <<config, jobs>>
    BY <1>1, <1>9, BrowserStepSatisfied
  <2> QED BY <1>4, <2>1
<1>10. ASSUME NEW c \in Clients, NEW k \in Keys, NEW j \in Jobs, AskStart(c, k, j)
       PROVE  AnswersGiven'
  <2>1. /\ Becomes(j, NewJob(k)) /\ UNCHANGED config
        /\ \A d \in Clients \ {c} : client[d].job # j
        /\ Paint(c, [NoSearch EXCEPT !.at = "waiting", !.job = j])
    BY <1>10 DEF AskStart
  <2>2. jobs'[j] = NewJob(k) /\ \A i \in Jobs : i # j => jobs'[i] = jobs[i]
    BY <2>1, JobBecomes
  <2>3. \A i \in Jobs : jobs'[i] # None => Told(jobs'[i])
    BY <1>1, <2>2, NewJobTold DEF JobsTold
  <2>4. /\ client'[c] = [NoSearch EXCEPT !.at = "waiting", !.job = j]
        /\ \A d \in Clients : d # c => client'[d] = client[d]
    BY <2>1, Painted
  <2>5. ASSUME NEW d \in Clients PROVE Satisfied(client'[d], jobs')
    <3>1. CASE d = c
      <4>1. ~client'[d].complete
        BY <2>4, <3>1 DEF NoSearch
      <4> QED BY <4>1 DEF Satisfied
    <3>2. CASE d # c
      <4>1. client[d].job \in Jobs \cup {None} /\ client[d].job # j
        BY <2>1, <3>2, AsideTypes DEF Search
      <4> QED BY <1>1, <2>2, <2>4, <3>2, <4>1, SatisfactionStays
    <3> QED BY <3>1, <3>2
  <2> QED BY <1>3, <2>1, <2>3, <2>5
<1> QED BY <1>6, <1>7, <1>8, <1>9, <1>10 DEF Next

\* What is cached is whole, as long as only jobs put it there.
LEMMA CacheStaysWhole ==
    ASSUME SearchInvariant, AnswersInvariant, [Next]_vars
    PROVE  CachedAnswerIsWhole'
<1>1. JobsTold /\ CachedAnswerIsWhole
  BY DEF AnswersInvariant, AnswersGiven
<1>2. ASSUME config' = config, UNCHANGED cache \/ \E k \in Keys : CacheAges(k)
      PROVE  CachedAnswerIsWhole'
  BY <1>1, <1>2, WholeAnswerKept
<1>3. ASSUME NEW j \in Jobs, JobStep(j) \/ JobAges(j) PROVE CachedAnswerIsWhole'
  <2>1. jobs[j] # None /\ config' = config /\ (UNCHANGED cache \/ CacheAnswer(j))
    BY <1>3, JobStepFrame
  <2>2. Told(jobs[j])
    BY <1>1, <2>1 DEF JobsTold
  <2> QED BY <1>1, <1>2, <2>1, <2>2, WholeAnswerCached
<1>4. CASE CooldownPasses \/ Sweep \/ UNCHANGED vars \/ \E k \in Keys : CacheAges(k)
  <2>1. config' = config
    BY <1>4 DEF CooldownPasses, Sweep, vars, CacheAges
  <2>2. UNCHANGED cache \/ \E k \in Keys : CacheAges(k)
    BY <1>4 DEF CooldownPasses, Sweep, vars
  <2> QED BY <1>2, <2>1, <2>2
<1>5. ASSUME NEW c \in Clients,
             \/ ClientStep(c) \/ StopPolling(c) \/ Leave(c)
             \/ \E k \in Keys : \/ AskHit(c, k) \/ AskJoin(c, k)
                                \/ \E j \in Jobs : AskStart(c, k, j)
      PROVE  CachedAnswerIsWhole'
  <2>1. UNCHANGED <<config, cache>>
    BY <1>5 DEF ClientStep, FirstPaint, Poll, PollGone, StopPolling, Leave, AskHit, AskJoin,
                AskStart
  <2> QED BY <1>2, <2>1
<1> QED BY <1>3, <1>4, <1>5 DEF Next

\* progressive.go and its clients: what each goroutine of a job leaves behind, what
\* is cached, and what a browser that was told it is done has painted.
THEOREM AnswersHold == Spec => []AnswersInvariant
<1>1. SearchInvariant /\ AnswersInvariant /\ [Next]_vars => AnswersInvariant'
  BY EveryStepKept, AnswersStay, CacheStaysWhole DEF AnswersInvariant
<1> QED BY <1>1, AnswersInitially, SearchInvariantHolds, PTL DEF Spec

\* run: whatever the tiers, the breaker and the deadlines do, what is cached for 45
\* minutes lacks no source that applies to the query.
THEOREM OnlyWholeAnswersAreCached == Spec => []CachedAnswerIsWhole
<1>1. AnswersInvariant => CachedAnswerIsWhole
  BY DEF AnswersInvariant
<1> QED BY <1>1, AnswersHold, PTL

\* run: the paint that the first wave lets go carries what the catalogues hold.
THEOREM CatalogueIsInTheFirstPaint == Spec => []FirstPaintCarriesCatalogue
<1>1. AnswersInvariant => FirstPaintCarriesCatalogue
  BY DEF AnswersInvariant, AnswersGiven, JobsTold, Told, FirstPaintCarriesCatalogue
<1> QED BY <1>1, AnswersHold, PTL

\* handleSearchCollect: a browser that was told its search is complete has painted
\* everything that the job ever collects.
THEOREM CompleteMeansEverything == Spec => []CompletePaintHasEverything
<1>1. AnswersInvariant => CompletePaintHasEverything
  BY DEF AnswersInvariant, AnswersGiven, Satisfied, CompletePaintHasEverything
<1> QED BY <1>1, AnswersHold, PTL
=============================================================================
