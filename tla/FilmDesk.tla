------------------------------ MODULE FilmDesk ------------------------------
(***************************************************************************)
(* One film and the Radarr instances that may hold it                      *)
(* (provider_radarr.go), behind the desk that spreads a question over all  *)
(* of them and gives a request to the first that will take it              *)
(* (provider_arr_common.go, providers_api.go).  Radarr is external: it     *)
(* downloads the films it monitors, one of its two services at a time can  *)
(* be out of reach, and whoever runs it can take a film off it.            *)
(***************************************************************************)
EXTENDS Naturals, FiniteSets

CONSTANTS
    Instances,       \* 1..n, in the order they were registered
    Askers,          \* screens that ask where the film is
    Requesters,      \* screens that want it
    MaxOutages       \* bound: how often what answers changes

ASSUME FilmAssumption ==
    /\ IsFiniteSet(Instances) /\ Instances # {} /\ Instances = 1..Cardinality(Instances)
    /\ MaxOutages \in Nat

VARIABLES
    film,      \* external: per instance, what Radarr has of it
    answers,   \* external: per instance, which of its services answer
    outages,
    wish,      \* per requester: how far its request is, where, and what it read
    question   \* per asker: who has yet to answer, and what was said

filmVars == <<film, answers, outages, wish, question>>

\* A film's stage in Radarr: no row; on the shelf; monitored; then in the queue.
Stages == {"absent", "shelved", "monitored", "downloading", "importing", "failed", "file"}
Endpoints == {"movies", "queue"}
InQueue == {"downloading", "importing", "failed"}
Wanted == InQueue \cup {"monitored", "file"}

NoWish == [at |-> "none", instance |-> 1, monitor |-> FALSE, said |-> "nothing"]
NoQuestion == [open |-> FALSE, pending |-> {}, halfway |-> {}, state |-> "unknown",
               failed |-> {}, held |-> {}]

FilmInit ==
    /\ film = [i \in Instances |-> "absent"]
    /\ answers = [i \in Instances |-> Endpoints]
    /\ outages = 0
    /\ wish = [r \in Requesters |-> NoWish]
    /\ question = [a \in Askers |-> NoQuestion]

-----------------------------------------------------------------------------
(* Where is it?  handleStatus and LibraryStatus.                           *)

\* arrStateRank.  (slip: the answer that comes last)
Rank(state) ==
    CASE state = "available" -> 5 [] state = "importing" -> 4 [] state = "downloading" -> 3
      [] state = "requested" -> 2 [] state = "missing" -> 1 [] OTHER -> 0
LastAnswer(best, state) == state
Better(best, state) == IF Rank(state) > Rank(best) THEN state ELSE best

\* arrQueueLibraryState: a grab that failed will be tried again.
QueueState(stage) ==
    CASE stage = "importing" -> "importing"
      [] stage = "failed" -> "requested"
      [] stage = "downloading" -> "downloading"

\* Every instance is asked at once.
AskStatus(a) ==
    /\ ~question[a].open
    /\ question' = [question EXCEPT ![a] = [NoQuestion EXCEPT
           !.open = TRUE, !.pending = Instances,
           !.held = {i \in Instances : film[i] \in Wanted}]]
    /\ UNCHANGED <<film, answers, outages, wish>>

Told(a, i, state) ==
    question' = [question EXCEPT ![a] = [question[a] EXCEPT
        !.pending = @ \ {i}, !.state = Better(@, state),
        !.halfway = @ \ {<<i, "wanted">>, <<i, "shelved">>}]]

\* The film's row says it all, or the queue has to be asked as well ...
ReadMovie(a, i) ==
    /\ i \in question[a].pending /\ "movies" \in answers[i]
    /\ \A s \in {"wanted", "shelved"} : <<i, s>> \notin question[a].halfway
    /\ CASE film[i] = "absent" -> Told(a, i, "missing")
         [] film[i] = "file"   -> Told(a, i, "available")
         [] OTHER -> question' = [question EXCEPT ![a] = [question[a] EXCEPT
               !.halfway = @ \cup {<<i, IF film[i] = "shelved" THEN "shelved" ELSE "wanted">>}]]
    /\ UNCHANGED <<film, answers, outages, wish>>

\* ... by which time the download may have moved on.  No queue, no detail.
ReadQueue(a, i, row) ==
    /\ <<i, row>> \in question[a].halfway
    /\ IF "queue" \in answers[i] /\ film[i] \in InQueue THEN Told(a, i, QueueState(film[i]))
       ELSE Told(a, i, IF row = "wanted" THEN "requested" ELSE "missing")
    /\ UNCHANGED <<film, answers, outages, wish>>

\* An error, a panic, or no answer in time: the instance is named as failed.
AskFailed(a, i) ==
    /\ i \in question[a].pending /\ "movies" \notin answers[i]
    /\ \A s \in {"wanted", "shelved"} : <<i, s>> \notin question[a].halfway
    /\ question' = [question EXCEPT ![a] = [question[a] EXCEPT
           !.pending = @ \ {i}, !.failed = @ \cup {i}]]
    /\ UNCHANGED <<film, answers, outages, wish>>

StatusAnswered(a) ==
    /\ question[a].open /\ question[a].pending = {}
    /\ question' = [question EXCEPT ![a] = NoQuestion]
    /\ UNCHANGED <<film, answers, outages, wish>>

-----------------------------------------------------------------------------
(* I want it.  handleRequest and Request.                                  *)

GoOn(r, at) == wish' = [wish EXCEPT ![r] = [@ EXCEPT !.at = at]]
Reply(r, said) == wish' = [wish EXCEPT ![r] = [@ EXCEPT !.at = "none", !.said = said]]

\* With no instance named, the first that handles the domain.
PickTarget(named) == IF named = 0 THEN 1 ELSE named

WishFor(r, named, monitor) ==
    /\ wish[r].at = "none" /\ wish[r].said # "accepted"
    /\ wish' = [wish EXCEPT ![r] = [at |-> "find", instance |-> PickTarget(named),
                                    monitor |-> monitor, said |-> "nothing"]]
    /\ UNCHANGED <<film, answers, outages, question>>

Reached(r) == "movies" \in answers[wish[r].instance]
Of(r) == film[wish[r].instance]
Becomes(r, stage) == film' = [film EXCEPT ![wish[r].instance] = stage]

\* A film that is there is monitored and searched for, never added again.
FindFilm(r) ==
    /\ wish[r].at = "find" /\ Reached(r)
    /\ IF Of(r) = "absent" THEN GoOn(r, "add")
       ELSE IF Of(r) = "file" \/ ~wish[r].monitor THEN Reply(r, "accepted")
       ELSE GoOn(r, IF Of(r) = "shelved" THEN "monitor" ELSE "search")
    /\ UNCHANGED <<film, answers, outages, question>>

\* A 400 for a film that another request added meanwhile is passed on.
AddFilm(r) ==
    /\ wish[r].at = "add" /\ Reached(r)
    /\ IF Of(r) = "absent"
       THEN Reply(r, "accepted") /\ Becomes(r, IF wish[r].monitor THEN "monitored" ELSE "shelved")
       ELSE Reply(r, "refused") /\ UNCHANGED film
    /\ UNCHANGED <<answers, outages, question>>

\* The put of a row that is gone is an error.
MonitorFilm(r) ==
    /\ wish[r].at = "monitor" /\ Reached(r)
    /\ IF Of(r) = "absent" THEN Reply(r, "failed") /\ UNCHANGED film
       ELSE /\ GoOn(r, "search")
            /\ IF Of(r) = "shelved" THEN Becomes(r, "monitored") ELSE UNCHANGED film
    /\ UNCHANGED <<answers, outages, question>>

SearchFilm(r) ==
    /\ wish[r].at = "search" /\ Reached(r)
    /\ Reply(r, "accepted")
    /\ UNCHANGED <<film, answers, outages, question>>

RequestFails(r) ==
    /\ wish[r].at # "none" /\ ~Reached(r)
    /\ Reply(r, "failed")
    /\ UNCHANGED <<film, answers, outages, question>>

-----------------------------------------------------------------------------
(* Radarr.                                                                 *)

Downloads(i) ==
    /\ film' = [film EXCEPT ![i] =
           CASE @ = "monitored" -> "downloading" [] @ = "downloading" -> "importing"
             [] @ = "importing" -> "file" [] @ = "failed" -> "downloading" [] OTHER -> @]
    /\ UNCHANGED <<answers, outages, wish, question>>

DownloadFails(i) ==
    /\ film[i] = "downloading"
    /\ film' = [film EXCEPT ![i] = "failed"]
    /\ UNCHANGED <<answers, outages, wish, question>>

\* Whoever runs it deletes the film: what was asked of it is then right to say so.
Removed(i) ==
    /\ film[i] \in {"shelved", "file"}
    /\ film' = [film EXCEPT ![i] = "absent"]
    /\ question' = [a \in Askers |-> [question[a] EXCEPT !.held = @ \ {i}]]
    /\ UNCHANGED <<answers, outages, wish>>

Outage(i) ==
    /\ outages < MaxOutages
    /\ outages' = outages + 1
    /\ \E endpoints \in SUBSET Endpoints : answers' = [answers EXCEPT ![i] = endpoints]
    /\ UNCHANGED <<film, wish, question>>

DeskStep ==
    \/ \E a \in Askers :
          \/ StatusAnswered(a)
          \/ \E i \in Instances :
                \/ ReadMovie(a, i) \/ AskFailed(a, i)
                \/ \E row \in {"wanted", "shelved"} : ReadQueue(a, i, row)
    \/ \E r \in Requesters :
          FindFilm(r) \/ AddFilm(r) \/ MonitorFilm(r) \/ SearchFilm(r) \/ RequestFails(r)

FilmNext ==
    \/ DeskStep
    \/ \E a \in Askers : AskStatus(a)
    \/ \E r \in Requesters, named \in Instances \cup {0}, monitor \in BOOLEAN :
          WishFor(r, named, monitor)
    \/ \E i \in Instances : Downloads(i) \/ DownloadFails(i) \/ Removed(i) \/ Outage(i)

FilmSpec == FilmInit /\ [][FilmNext]_filmVars

-----------------------------------------------------------------------------
FilmStates == {"unknown", "missing", "requested", "downloading", "importing", "available"}

FilmTypeOK ==
    /\ film \in [Instances -> Stages]
    /\ answers \in [Instances -> SUBSET Endpoints]
    /\ outages \in 0..MaxOutages
    /\ wish \in [Requesters -> [at : {"none", "find", "add", "monitor", "search"},
                                instance : Instances, monitor : BOOLEAN,
                                said : {"nothing", "accepted", "refused", "failed"}]]
    /\ question \in [Askers -> [open : BOOLEAN, pending : SUBSET Instances,
                                halfway : SUBSET (Instances \X {"wanted", "shelved"}),
                                state : FilmStates, failed : SUBSET Instances,
                                held : SUBSET Instances]]

\* handleStatus: "reporting 'missing' because the instance we happened to ask
\* first does not have it is how a household ends up with two copies".  A film
\* that was there or on its way when the question was put is not missing from
\* the answer, however far it got meanwhile and in whatever order instances
\* answer: unless every instance that has it is named as failed.
FilmInHandIsNotMissing ==
    \A a \in Askers :
        question[a].open /\ question[a].pending = {} /\ question[a].state \in {"missing", "unknown"}
            => question[a].held \subseteq question[a].failed
=============================================================================
