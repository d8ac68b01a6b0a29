------------------------------ MODULE LinkDesk ------------------------------
(***************************************************************************)
(* The link resolver (link.go, link_ytdlp.go, link_netns.go): a pasted     *)
(* link is read by yt-dlp through the guarded egress, answered with signed *)
(* links to its files, kept a while, and the files are streamed through a  *)
(* gate.  yt-dlp, ffmpeg and the pages are external.  One step of the      *)
(* clock refills one token of the rate limit.                              *)
(***************************************************************************)
EXTENDS LinkFormats, FiniteSetsExt

CONSTANTS
    Surfers,         \* browsers, one request at a time each
    SurferIP,        \* the address of each of them
    Links, Shady,    \* links that are pasted, those with an address that is not public
    Burst, Forget,   \* capacity of a bucket, and when one is evicted
    AnswerTTL, TokenTTL,     \* linkCacheTTL, mediaTokenTTL
    PerSurfer, AllStreams,   \* the gate
    Confined,        \* the egress is in a namespace of its own
    MaxRefusals, MaxKeys, MaxOffered     \* bounds of the model

ASSUME LinkAssumption ==
    /\ SurferIP = [s \in Surfers |-> SurferIP[s]] /\ IsFiniteSet(Surfers)
    /\ Shady \subseteq Links /\ Confined \in BOOLEAN
    /\ {Burst, Forget, AnswerTTL, TokenTTL, PerSurfer, AllStreams, MaxRefusals, MaxKeys,
         MaxOffered} \subseteq Nat \ {0}

VARIABLES
    buckets,   \* ipLimiter.buckets
    kept,      \* per link: the cached answer
    surfer,    \* per browser: its request and the link it holds
    gate,      \* streamGate.active
    refusals,  \* the egress' counter
    glance,    \* confined: the counter as it was last read
    key        \* the signing key, made anew at each start

linkVars == <<buckets, kept, surfer, gate, refusals, glance, key>>
guard == <<refusals, glance>>

Addresses == {SurferIP[s] : s \in Surfers}
Streams == {"direct", "resolver", "muxing"}
NoFile == {}   \* or the one row that is selected
NoBucket == [tokens |-> Burst, idle |-> Forget + 1]
NoAnswer == [age |-> TokenTTL + 1, file |-> NoFile]
NoLink == [age |-> 0, held |-> 0, key |-> 0, file |-> NoFile]
Idle == [at |-> "idle", link |-> CHOOSE p \in Links : TRUE, before |-> 0,
         told |-> "nothing", has |-> NoLink]   \* what it was told when there is no link

LinkInit ==
    /\ buckets = [a \in Addresses |-> NoBucket]
    /\ kept = [p \in Links |-> NoAnswer]
    /\ surfer = [s \in Surfers |-> Idle]
    /\ gate = [a \in Addresses |-> 0]
    /\ refusals = 0 /\ glance = 0 /\ key = 1

Moves(s, state) == surfer' = [surfer EXCEPT ![s] = state]
Tells(s, what) == Moves(s, [Idle EXCEPT !.told = what])
Rests(s) == Moves(s, [Idle EXCEPT !.has = surfer[s].has])
Holding(s, age, file) ==
    Moves(s, IF file = NoFile THEN Idle
             ELSE [Idle EXCEPT !.has = [age |-> age, held |-> 0, key |-> key, file |-> file]])

-----------------------------------------------------------------------------
(* /api/link/resolve.                                                      *)

Least(m, n) == IF m < n THEN m ELSE n
Refilled(a) == Least(Burst, buckets[a].tokens + buckets[a].idle)
Allowed(s) == Refilled(SurferIP[s]) > 0
Pays(s) ==
    buckets' = [buckets EXCEPT ![SurferIP[s]] = [tokens |-> Refilled(SurferIP[s]) - 1, idle |-> 0]]

RateLimited(s) ==
    /\ surfer[s].at = "idle" /\ ~Allowed(s)
    /\ Rests(s)
    /\ UNCHANGED <<buckets, kept, gate, guard, key>>

\* resolveTarget: the address is looked at before yt-dlp is started.
LinkBlocked(s, p) ==
    /\ surfer[s].at = "idle" /\ Allowed(s) /\ p \in Shady
    /\ Pays(s) /\ Tells(s, "blocked")
    /\ UNCHANGED <<kept, gate, guard, key>>

\* handleMusic: a track list of a music service is read for one token as well.
MusicLink(s) ==
    /\ surfer[s].at = "idle" /\ Allowed(s)
    /\ Pays(s) /\ Moves(s, Idle)
    /\ UNCHANGED <<kept, gate, guard, key>>

\* cached.  (slip: an answer is served for as long as the map holds it)
FreshWhileKept(p) == kept[p] # NoAnswer
Fresh(p) == kept[p].age <= AnswerTTL

ServeKept(s, p) ==
    /\ surfer[s].at = "idle" /\ Allowed(s) /\ p \notin Shady /\ Fresh(p)
    /\ Pays(s) /\ Holding(s, kept[p].age, kept[p].file)
    /\ UNCHANGED <<kept, gate, guard, key>>

\* stats: in another namespace, what was read 250 ms ago will do.
Reads(n) == n \in {refusals} \cup (IF Confined THEN {glance} ELSE {}) /\ glance' = n

StartProbe(s, p) ==
    /\ surfer[s].at = "idle" /\ Allowed(s) /\ p \notin Shady /\ ~Fresh(p)
    /\ Pays(s)
    /\ \E n \in 0..MaxRefusals :
         /\ Reads(n)
         /\ Moves(s, [Idle EXCEPT !.at = "probing", !.link = p, !.before = n])
    /\ UNCHANGED <<kept, gate, refusals, key>>

\* The egress counts an address it refuses and a host it cannot reach alike.
EgressRefuses(s) ==
    /\ surfer[s].at \in {"probing", "sizing"} \cup Streams
    /\ refusals < MaxRefusals /\ refusals' = refusals + 1
    /\ UNCHANGED <<buckets, kept, surfer, gate, glance, key>>

\* A timeout, yt-dlp missing, or what classifyYtdlp makes of its last words.
ProbeFails(s) ==
    /\ surfer[s].at = "probing"
    /\ \E n \in 0..MaxRefusals :
         Reads(n) /\ Tells(s, IF n > surfer[s].before THEN "blocked" ELSE "broken")
    /\ UNCHANGED <<buckets, kept, gate, refusals, key>>

ProbeReads(s) ==
    /\ surfer[s].at = "probing"
    /\ Moves(s, [Idle EXCEPT !.at = "sizing", !.link = surfer[s].link])
    /\ UNCHANGED <<buckets, kept, gate, guard, key>>

Answer(s, file) ==
    /\ kept' = [kept EXCEPT ![surfer[s].link] = [age |-> 0, file |-> file]]
    /\ Holding(s, 0, file)
    /\ UNCHANGED <<buckets, gate, guard, key>>

\* A playlist or a channel: items to be resolved one at a time.
AnswerCollection(s) == surfer[s].at = "sizing" /\ Answer(s, NoFile)

\* buildResponse: pairing, the default, then links that are signed now.
AnswerFormats(s) ==
    /\ surfer[s].at = "sizing"
    /\ \E offered \in SUBSET Formats :
        /\ Cardinality(offered) \in 1..MaxOffered
        /\ \E rows \in Pairings({f \in offered : Medium(f)}) :
            IF Best(rows) = {} THEN Answer(s, NoFile)
            ELSE \E r \in Best(rows) : Answer(s, {r})

-----------------------------------------------------------------------------
(* /api/link/media.                                                        *)

\* openToken.
Good(l) == l.key = key /\ l.age <= TokenTTL
HasLink(s) == surfer[s].at = "idle" /\ surfer[s].has.file # {}

TokenRefused(s) ==
    /\ HasLink(s) /\ ~Good(surfer[s].has)
    /\ Rests(s)
    /\ UNCHANGED <<buckets, kept, gate, guard, key>>

GateOpen(a) == MapThenSumSet(LAMBDA b : gate[b], Addresses) < AllStreams /\ gate[a] < PerSurfer

GateRefuses(s) ==
    /\ HasLink(s) /\ Good(surfer[s].has) /\ ~GateOpen(SurferIP[s])
    /\ Rests(s)
    /\ UNCHANGED <<buckets, kept, gate, guard, key>>

StartStream(s) ==
    /\ HasLink(s) /\ Good(surfer[s].has) /\ GateOpen(SurferIP[s])
    /\ gate' = [gate EXCEPT ![SurferIP[s]] = @ + 1]
    /\ \E r \in surfer[s].has.file :
         Moves(s, [surfer[s] EXCEPT !.at = IF Remuxed(r) THEN "muxing" ELSE "direct"])
    /\ UNCHANGED <<buckets, kept, guard, key>>

\* 401 or 403 before a byte was written: yt-dlp fetches the file itself.
HandToResolver(s) ==
    /\ surfer[s].at = "direct"
    /\ surfer' = [surfer EXCEPT ![s].at = "resolver"]
    /\ UNCHANGED <<buckets, kept, gate, guard, key>>

\* The end, an error, an address that moved, or the visitor's departure.
Leave(a) == IF gate[a] <= 1 THEN 0 ELSE gate[a] - 1

StreamOver(s) ==
    /\ surfer[s].at \in Streams
    /\ gate' = [gate EXCEPT ![SurferIP[s]] = Leave(SurferIP[s])]
    /\ Rests(s)
    /\ UNCHANGED <<buckets, kept, guard, key>>

-----------------------------------------------------------------------------
Older(n) == Least(TokenTTL + 1, n + 1)
Ageing(l) == IF l = NoLink THEN l ELSE [l EXCEPT !.age = Older(@), !.held = Older(@)]

\* Time; evict, which looks every ten minutes, drops buckets left alone.
LinkTick ==
    /\ buckets' = [a \in Addresses |->
           IF buckets[a].idle >= Forget THEN NoBucket ELSE [buckets[a] EXCEPT !.idle = @ + 1]]
    /\ kept' = [p \in Links |-> [kept[p] EXCEPT !.age = Older(@)]]
    /\ surfer' = [s \in Surfers |-> [surfer[s] EXCEPT !.has = Ageing(@)]]
    /\ UNCHANGED <<gate, guard, key>>

\* putCache past 500 entries.
SweepAnswers ==
    /\ kept' = [p \in Links |-> IF Fresh(p) THEN kept[p] ELSE NoAnswer]
    /\ UNCHANGED <<buckets, surfer, gate, guard, key>>

\* A start forgets everything but the browsers' links.
LinkRestart ==
    /\ key < MaxKeys /\ key' = key + 1
    /\ buckets' = [a \in Addresses |-> NoBucket]
    /\ kept' = [p \in Links |-> NoAnswer]
    /\ gate' = [a \in Addresses |-> 0]
    /\ surfer' = [s \in Surfers |-> [Idle EXCEPT !.has = surfer[s].has]]
    /\ refusals' = IF Confined THEN refusals ELSE 0
    /\ glance' = 0

SurferStep(s) ==
    \/ \E p \in Links : LinkBlocked(s, p) \/ ServeKept(s, p) \/ StartProbe(s, p)
    \/ EgressRefuses(s) \/ RateLimited(s) \/ MusicLink(s) \/ ProbeFails(s) \/ ProbeReads(s)
    \/ AnswerCollection(s) \/ AnswerFormats(s)
    \/ TokenRefused(s) \/ GateRefuses(s) \/ StartStream(s) \/ HandToResolver(s) \/ StreamOver(s)

LinkNext == LinkTick \/ SweepAnswers \/ LinkRestart \/ \E s \in Surfers : SurferStep(s)
LinkSpec == LinkInit /\ [][LinkNext]_linkVars

-----------------------------------------------------------------------------
Downloads(a) == {s \in Surfers : SurferIP[s] = a /\ surfer[s].at \in Streams}
Ages == 0..(TokenTTL + 1)

\* Every variable has its type, and the gate counts the downloads there are.
LinkTypeOK ==
    /\ \A a \in Addresses :
         /\ buckets[a].tokens \in 0..Burst /\ buckets[a].idle \in 0..(Forget + 1)
         /\ gate[a] = Cardinality(Downloads(a)) /\ gate[a] <= PerSurfer
    /\ \A p \in Links : kept[p].age \in Ages
    /\ \A s \in Surfers :
         /\ surfer[s].at \in {"idle", "probing", "sizing"} \cup Streams
         /\ {surfer[s].has.age, surfer[s].has.held} \subseteq Ages
         /\ Cardinality(surfer[s].has.file) <= 1
    /\ {refusals, glance} \subseteq 0..MaxRefusals /\ key \in 1..MaxKeys

\* An answer that is served from the cache carries links that were signed when
\* it was made: a visitor's links still work for the rest of the token's life,
\* but for the answer's, unless the service restarts (linkCacheTTL,
\* mediaTokenTTL, openToken).
LinksOutliveTheirAnswer ==
    \A s \in Surfers :
        surfer[s].has.key = key /\ surfer[s].has.held + AnswerTTL <= TokenTTL => Good(surfer[s].has)
=============================================================================
