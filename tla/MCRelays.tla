------------------------------ MODULE MCRelays ------------------------------
(***************************************************************************)
(* Instances of the services that move bytes for a player: the gateway,    *)
(* the bridge and the link resolver.  They share nothing, so TLC runs one  *)
(* of them at a time, the bridge in two scenes: a crowd from two addresses *)
(* within a month, and a few fetches over two months.                      *)
(***************************************************************************)
EXTENDS Gateway, Bridge, LinkDesk, TLC

CONSTANTS film, book, tv1, tv2, a1, a2, a3, b1, b2, s1, s2, ip1, ip2, page, lan

MCAddress == a1 :> ip1 @@ a2 :> ip1 @@ a3 :> ip1 @@ b1 :> ip2 @@ b2 :> ip2
MCEndpoint == a1 :> "socket" @@ a2 :> "iptv" @@ a3 :> "page" @@ b1 :> "iptv" @@ b2 :> "iptv"
MCSurferIP == s1 :> ip1 @@ s2 :> ip1

\* A whole file, a silent one, a silent stream, its sound, and one of which nothing is said.
Offer(v, a, hint, segmented, height) ==
    [v |-> v, a |-> a, hint |-> hint, segmented |-> segmented, height |-> height]
MCFormats ==
    {Offer("codec", "codec", "picture", FALSE, 360), Offer("codec", "none", "picture", FALSE, 1080),
     Offer("codec", "none", "picture", TRUE, 2160), Offer("none", "absent", "sound", TRUE, 0),
     Offer("absent", "absent", "nothing", FALSE, 0)}

VARIABLE relay   \* the service that runs

relayVars == <<relay, vars, bridgeVars, linkVars>>

RelaysInit == relay \in {"gateway", "crowd", "months", "links"} /\ Init /\ BridgeInit /\ LinkInit

GatewayRuns == relay = "gateway" /\ Next /\ UNCHANGED <<relay, bridgeVars, linkVars>>
CrowdRuns ==
    \/ \E c \in Conns : ConnStep(c)
    \/ BridgeRestart({}) \/ BridgeRestart(Budgets)
MonthsRun ==
    \/ \E c \in Conns \ {a1, b2} : ConnStep(c)
    \/ MonthPasses
    \/ \E b \in Budgets : PersistTick(b)
    \/ \E written \in SUBSET Budgets : BridgeRestart(written)
BridgeRuns ==
    /\ \/ relay = "crowd" /\ CrowdRuns
       \/ relay = "months" /\ MonthsRun
    /\ UNCHANGED <<relay, vars, linkVars>>
LinksRun == relay = "links" /\ LinkNext /\ UNCHANGED <<relay, vars, bridgeVars>>

RelaysNext == GatewayRuns \/ BridgeRuns \/ LinksRun

\* No service owes a step before its first one, the link desk none at all.
RelaysSpec ==
    /\ RelaysInit /\ [][RelaysNext]_relayVars
    /\ GatewayFairness
    /\ BridgeFairness

\* The type invariants of the modules.
RelaysTypeOK == TypeOK /\ BridgeTypeOK /\ LinkTypeOK
=============================================================================
