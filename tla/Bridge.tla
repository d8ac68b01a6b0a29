------------------------------- MODULE Bridge -------------------------------
(***************************************************************************)
(* The byte relay for browsers (bridge/): sockets to TCP and UDP peers, an *)
(* IPTV proxy and a page fetcher share the slots of main.go and spend the  *)
(* monthly budgets of budget.go.                                           *)
(*                                                                         *)
(* A relay has two halves: "down" reads the peer and writes the browser,   *)
(* "up" the other way.  The write to the browser has no deadline, so down  *)
(* is in the one or in the other.  Traffic counts in chunks.               *)
(***************************************************************************)
EXTENDS Naturals, FiniteSets

CONSTANTS
    Conns,               \* requests of browsers
    Address,             \* the client address of each of them
    Endpoint,            \* what each of them asks for
    PerIP, Global,       \* limits
    RelayCap, IPTVCap,   \* the two monthly budgets, in chunks
    MaxMonths, MaxStarts, MaxTraffic   \* bounds of the model

ASSUME BridgeAssumption ==
    /\ IsFiniteSet(Conns) /\ Conns # {}
    /\ Address = [c \in Conns |-> Address[c]]
    /\ Endpoint \in [Conns -> {"socket", "iptv", "page"}]
    /\ Global # 0
    /\ {PerIP, Global, RelayCap, IPTVCap, MaxMonths, MaxStarts, MaxTraffic} \subseteq Nat

Clients == {Address[c] : c \in Conns}
Sockets == {c \in Conns : Endpoint[c] = "socket"}
Budgets == {"relay", "iptv"}
Cap(b) == IF b = "relay" THEN RelayCap ELSE IPTVCap

VARIABLES
    conn,     \* per request: where its handler is and what became of both ends
    slots,    \* perIP
    used,     \* per budget: used
    counted,  \* per budget: the month it counts
    saved,    \* per budget: the state file
    month,    \* the month it is
    starts    \* how often the process was started

bridgeVars == <<conn, slots, used, counted, saved, month, starts>>
ledger == <<used, counted, saved, month, starts>>

Closed == [at |-> "closed", up |-> FALSE, down |-> "ended", ws |-> FALSE, peer |-> FALSE]
At(place) == [Closed EXCEPT !.at = place, !.ws = TRUE]

BridgeInit ==
    /\ conn = [c \in Conns |-> Closed]
    /\ slots = [a \in Clients |-> 0]
    /\ used = [b \in Budgets |-> 0]
    /\ counted = [b \in Budgets |-> 1]
    /\ saved = [b \in Budgets |-> [month |-> 0, used |-> 0]]
    /\ month = 1
    /\ starts = 1

Handler(c, state) == conn' = [conn EXCEPT ![c] = state]
Degraded(b) == used[b] >= Cap(b)
Spend(bs, n) ==
    /\ used' = [b \in Budgets |-> IF b \in bs THEN used[b] + n ELSE used[b]]
    /\ UNCHANGED <<counted, saved, month, starts>>

-----------------------------------------------------------------------------
(* Slots.                                                                  *)

\* acquire adds the counts of all addresses up.
TakenSlots == UNION {{a} \X (1..slots[a]) : a \in Clients}
AllSlots == Cardinality(TakenSlots)
HasRoom(c) ==
    /\ AllSlots < Global
    /\ slots[Address[c]] < PerIP
Acquire(c) ==
    /\ HasRoom(c)
    /\ slots' = [slots EXCEPT ![Address[c]] = @ + 1]

\* (slip: the count of an address is forgotten whatever it holds)
ReleaseAddress(c) == slots' = [slots EXCEPT ![Address[c]] = 0]
Release(c) ==
    slots' = [slots EXCEPT ![Address[c]] = IF @ <= 1 THEN 0 ELSE @ - 1]

\* The deferred calls of a handler that returns.
Return(c) == Handler(c, Closed) /\ Release(c)

-----------------------------------------------------------------------------
(* /bridge/socket.                                                         *)

\* The budget is looked at before the slot is taken; 503 and 429 leave no trace.
AdmitSocket(c) ==
    /\ conn[c].at = "closed" /\ c \in Sockets
    /\ ~Degraded("relay")
    /\ Handler(c, At("admitted"))
    /\ UNCHANGED <<slots, ledger>>

TooManySockets(c) ==
    /\ conn[c].at = "admitted"
    /\ ~HasRoom(c)
    /\ Handler(c, Closed)
    /\ UNCHANGED <<slots, ledger>>

AcceptSocket(c) ==
    /\ conn[c].at = "admitted"
    /\ Acquire(c)
    /\ Handler(c, At("hello"))
    /\ UNCHANGED ledger

\* No upgrade, no hello in 15 s, one that cannot be read, or a target that is
\* not public; then a dial that fails within 10 s.
SocketRefused(c) ==
    /\ conn[c].at \in {"hello", "dial tcp", "dial udp"}
    /\ Return(c)
    /\ UNCHANGED ledger

Hello(c, proto) ==
    /\ conn[c].at = "hello"
    /\ Handler(c, [conn[c] EXCEPT !.at = proto])
    /\ UNCHANGED <<slots, ledger>>

\* The dialled relay, with both halves running.
Dialled(c) ==
    /\ conn[c].at \in {"dial tcp", "dial udp"}
    /\ Handler(c, [at |-> IF conn[c].at = "dial tcp" THEN "tcp" ELSE "udp",
                   up |-> TRUE, down |-> "reads", ws |-> conn[c].ws, peer |-> TRUE])
    /\ UNCHANGED <<slots, ledger>>

Relaying(c) == conn[c].at \in {"tcp", "udp"}

\* A chunk is charged once it is read, whether or not the write that follows
\* succeeds.
Charged(c) ==
    /\ Relaying(c)
    /\ used["relay"] < MaxTraffic
    /\ Spend({"relay"}, 1)
    /\ UNCHANGED slots

PeerSends(c) ==
    /\ conn[c].down = "reads" /\ conn[c].peer
    /\ Charged(c)
    /\ Handler(c, [conn[c] EXCEPT !.down = "writes"])

\* c.Write returns when the browser has taken what it was sent.
BrowserTakes(c) ==
    /\ Relaying(c) /\ conn[c].down = "writes" /\ conn[c].ws
    /\ Handler(c, [conn[c] EXCEPT !.down = "reads"])
    /\ UNCHANGED <<slots, ledger>>

BrowserSends(c) ==
    /\ conn[c].up /\ conn[c].ws
    /\ Charged(c)
    /\ UNCHANGED conn

\* Before there is a relay this is one of the refusals above.
BrowserLeaves(c) ==
    /\ Relaying(c) /\ conn[c].ws
    /\ Handler(c, [conn[c] EXCEPT !.ws = FALSE])
    /\ UNCHANGED <<slots, ledger>>

\* The down half ends in its read (the peer closed, or said nothing for 120 s,
\* UDP 15 s), or in its write once the browser is gone.  Only the TCP half closes
\* the browser's socket.
DownCanEnd(c) ==
    /\ Relaying(c)
    /\ \/ conn[c].down = "reads"
       \/ conn[c].down = "writes" /\ ~conn[c].ws

\* (slip: neither does)
DownEndsQuietly(c) ==
    /\ DownCanEnd(c)
    /\ Handler(c, [conn[c] EXCEPT !.down = "ended"])
    /\ UNCHANGED <<slots, ledger>>
DownEnds(c) ==
    /\ DownCanEnd(c)
    /\ Handler(c, [conn[c] EXCEPT !.down = "ended",
                                  !.ws = @ /\ conn[c].at = "udp"])
    /\ UNCHANGED <<slots, ledger>>

\* The up half ends when the browser is gone or the peer refuses bytes, and closes
\* the peer's socket, which ends the other half's reads.
UpEnds(c) ==
    /\ Relaying(c) /\ conn[c].up
    /\ Handler(c, [conn[c] EXCEPT !.up = FALSE, !.peer = FALSE])
    /\ UNCHANGED <<slots, ledger>>

RelayReturns(c) ==
    /\ Relaying(c) /\ ~conn[c].up /\ conn[c].down = "ended"
    /\ Return(c)
    /\ UNCHANGED ledger

-----------------------------------------------------------------------------
(* /bridge/iptv and /bridge/page: the slot first, the budget after it.     *)

StartFetch(c) ==
    /\ conn[c].at = "closed" /\ c \notin Sockets
    /\ Acquire(c)
    /\ Handler(c, At(Endpoint[c]))
    /\ UNCHANGED ledger

\* A bad or private address, a spent budget, an upstream that fails, the end
\* of the stream, the viewer's departure.
FetchEnds(c) ==
    /\ conn[c].at \in {"iptv", "stream", "page", "fetch"}
    /\ Return(c)
    /\ UNCHANGED ledger

FetchOpens(c) ==
    /\ conn[c].at \in {"iptv", "page"} /\ ~Degraded("iptv")
    /\ Handler(c, [conn[c] EXCEPT !.at = IF @ = "iptv" THEN "stream" ELSE "fetch"])
    /\ UNCHANGED <<slots, ledger>>

\* copyIPTV: charged twice over, to both budgets; a spent sub-budget ends it.
\* (slip: the sub-budget is only looked at when a stream opens)
StreamChunkUnchecked(c) ==
    /\ conn[c].at = "stream"
    /\ Spend(Budgets, 2)
    /\ UNCHANGED <<conn, slots>>
StreamChunk(c) ==
    /\ conn[c].at = "stream"
    /\ Spend(Budgets, 2)
    /\ IF used'["iptv"] >= IPTVCap THEN Return(c) ELSE UNCHANGED <<conn, slots>>

\* handlePage reads the page once, and charges the sub-budget only.
PageRead(c) ==
    /\ conn[c].at = "fetch"
    /\ Spend({"iptv"}, 1)
    /\ Return(c)

-----------------------------------------------------------------------------
(* The ledgers.                                                            *)

MonthPasses ==
    /\ month < MaxMonths
    /\ month' = month + 1
    /\ UNCHANGED <<conn, slots, used, counted, saved, starts>>

\* persistLoop, once a minute: rollover, then persist, whose write may fail.
PersistTick(b) ==
    LET left == IF counted[b] = month THEN used[b] ELSE 0 IN
    /\ used' = [used EXCEPT ![b] = left]
    /\ counted' = [counted EXCEPT ![b] = month]
    /\ \/ saved' = [saved EXCEPT ![b] = [month |-> month, used |-> left]]
       \/ UNCHANGED saved
    /\ UNCHANGED <<conn, slots, month, starts>>

\* What load makes of a state file.
Load(file) == IF file.month = month THEN file.used ELSE 0

\* The process stops and is started again.  ListenAndServe returns as soon as
\* Shutdown is called, so an orderly stop persists both budgets (or fails to)
\* and ends with its relays open; a crash persists none.
BridgeRestart(written) ==
    LET files == [b \in Budgets |-> IF b \in written
                     THEN [month |-> counted[b], used |-> used[b]] ELSE saved[b]]
    IN  /\ starts < MaxStarts
        /\ starts' = starts + 1
        /\ saved' = files
        /\ used' = [b \in Budgets |-> Load(files[b])]
        /\ counted' = [b \in Budgets |-> month]
        /\ conn' = [c \in Conns |-> Closed]
        /\ slots' = [a \in Clients |-> 0]
        /\ UNCHANGED month

-----------------------------------------------------------------------------
ConnStep(c) ==
    \/ AdmitSocket(c) \/ TooManySockets(c) \/ AcceptSocket(c) \/ SocketRefused(c)
    \/ \E proto \in {"dial tcp", "dial udp"} : Hello(c, proto)
    \/ Dialled(c) \/ PeerSends(c) \/ BrowserTakes(c) \/ BrowserSends(c) \/ BrowserLeaves(c)
    \/ DownEnds(c) \/ UpEnds(c) \/ RelayReturns(c)
    \/ StartFetch(c) \/ FetchEnds(c) \/ FetchOpens(c) \/ StreamChunk(c) \/ PageRead(c)

BridgeNext ==
    \/ \E c \in Conns : ConnStep(c)
    \/ MonthPasses
    \/ \E b \in Budgets : PersistTick(b)
    \/ \E written \in SUBSET Budgets : BridgeRestart(written)

BridgeSpec == BridgeInit /\ [][BridgeNext]_bridgeVars

\* A read of a closed socket fails, so does a write to one, and a handler whose
\* halves have ended returns.  Nothing is assumed of browsers and peers: a write
\* that a browser does not take lasts until the browser is gone.
HalfMustEnd(c) ==
    \/ (conn[c].down = "reads" => ~conn[c].peer) /\ DownEnds(c)
    \/ ~conn[c].ws /\ UpEnds(c)
    \/ RelayReturns(c)
BridgeFairness == \A c \in Sockets : WF_bridgeVars(HalfMustEnd(c))

-----------------------------------------------------------------------------
Places == {"closed", "admitted", "hello", "dial tcp", "dial udp", "tcp", "udp",
           "iptv", "stream", "page", "fetch"}
Spending == {"stream", "fetch"}

BridgeTypeOK ==
    /\ conn \in [Conns -> [at : Places, up : BOOLEAN,
                           down : {"reads", "writes", "ended"},
                           ws : BOOLEAN, peer : BOOLEAN]]
    /\ slots \in [Clients -> Nat]
    /\ used \in [Budgets -> Nat]
    /\ counted \in [Budgets -> Nat]
    /\ saved \in [Budgets -> [month : Nat, used : Nat]]
    /\ {month, starts} \subseteq Nat

\* Slots are counted by hand on every way in and out of four handlers: none is
\* leaked or given back twice, so the limits are limits on open connections.
Holders(a) == {c \in Conns : Address[c] = a /\ conn[c].at \notin {"closed", "admitted"}}
AddressesAccounted ==
    \A a \in Clients : slots[a] = Cardinality(Holders(a)) /\ slots[a] <= PerIP
SlotsAccounted ==
    /\ AddressesAccounted
    /\ Cardinality(UNION {Holders(a) : a \in Clients}) <= Global

\* copyIPTV: "lets the sub-cap cut a stream off mid-copy the moment it trips".
\* Whatever streams and pages are open at once, the sub-budget is overdrawn by
\* less than one last chunk of each that a slot allows, also after a restart.
IPTVStopsAtItsCap ==
    used["iptv"] + 2 * Cardinality({c \in Conns : conn[c].at \in Spending})
        < IPTVCap + 2 * Global

\* Whichever half of a relay ends first, the other is made to end and the slot
\* comes back, always for TCP, and over UDP once the browser is gone; the one
\* thing that keeps it is a browser that is there and does not take what it is
\* sent (c.Write has no deadline).
RelayIsOver(c) ==
    \/ conn[c].at = "tcp" /\ ~(conn[c].up /\ conn[c].down # "ended")
    \/ conn[c].at = "udp" /\ ~(conn[c].up /\ conn[c].ws)
Stalled(c) == conn[c].down = "writes" /\ conn[c].ws
EveryRelayReturns ==
    \A c \in Sockets : RelayIsOver(c) ~> (conn[c].at = "closed" \/ Stalled(c))
=============================================================================
