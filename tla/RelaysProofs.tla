---------------------------- MODULE RelaysProofs ----------------------------
(***************************************************************************)
(* The services that move bytes, for any number of televisions, requests,  *)
(* visitors and limits: the primers of the gateway and the slots of the    *)
(* bridge are those of the sessions and connections there are, streams     *)
(* stop at their sub-budget, and the link resolver's gate and links are    *)
(* what it says they are.                                                  *)
(***************************************************************************)
EXTENDS MCRelays, FiniteSetTheorems, TLAPS

(* The gateway.                                                            *)

GatewayInvariant == TypeOK /\ PrimersAccounted

-----------------------------------------------------------------------------
(* Requests, sessions and those about to register.                         *)

LEMMA RestingIsARequest == Resting \in Request /\ Resting.at = "idle"
<1>1. (CHOOSE h \in Hashes : TRUE) \in Hashes
  BY ConstantsAssumption
<1> QED BY <1>1 DEF Resting, Request

LEMMA NoneIsNoSession == None \notin Session /\ MaxIdle \in Nat
BY ConstantsAssumption DEF Session

LEMMA SessionsCount ==
    ASSUME NEW h \in Hashes
    PROVE  SessionsOf(h) \in {0, 1}
BY DEF SessionsOf

LEMMA RegisteringCount ==
    ASSUME NEW h \in Hashes
    PROVE  IsFiniteSet(Registering(h)) /\ Cardinality(Registering(h)) \in Nat
<1>1. Registering(h) \subseteq Devices
  BY DEF Registering
<1> QED BY <1>1, ConstantsAssumption, FS_Subset, FS_CardinalityType

\* A request that neither was about to register nor is changes no count.
LEMMA RegisteringStays ==
    ASSUME TypeOK, NEW d \in Devices, NEW r \in Request, Does(d, r),
           device[d].at # "register", r.at # "register"
    PROVE  device' \in [Devices -> Request]
           /\ \A h \in Hashes : Registering(h)' = Registering(h)
BY DEF TypeOK, Does, Registering

\* Steps that leave primers alone and register nobody.
LEMMA OtherSteps ==
    ASSUME GatewayInvariant, UNCHANGED primers, TypeOK',
           \A h \in Hashes : Registering(h)' = Registering(h),
           \A h \in Hashes : active'[h] = None <=> active[h] = None
    PROVE  GatewayInvariant'
<1>1. \A h \in Hashes : SessionsOf(h)' = SessionsOf(h)
  BY DEF SessionsOf
<1>2. ASSUME NEW h \in Hashes
      PROVE  primers'[h] = Cardinality(Registering(h))' + SessionsOf(h)'
  BY <1>1 DEF GatewayInvariant, PrimersAccounted
<1> QED BY <1>2 DEF GatewayInvariant, PrimersAccounted

-----------------------------------------------------------------------------
(* /prepare.                                                               *)

LEMMA PrepareKeeps ==
    ASSUME GatewayInvariant, NEW d \in Devices, NEW h \in Hashes, Prepare(d, h)
    PROVE  GatewayInvariant'
<1>1. PICK t : /\ t = (IF swarm[h].live THEN swarm[h]
                       ELSE [Absent(swarm[h].join + 1) EXCEPT !.live = TRUE])
               /\ swarm' = [swarm EXCEPT ![h] = t]
               /\ Does(d, [at |-> "metadata", hash |-> h, join |-> t.join])
  BY DEF Prepare
<1>2. TypeOK /\ swarm[h] \in Torrent
  BY DEF GatewayInvariant, TypeOK
<1>3. t \in Torrent /\ t.join \in Nat
  <2>1. ASSUME NEW n \in Nat PROVE [Absent(n) EXCEPT !.live = TRUE] \in Torrent
    BY DEF Torrent, Absent
  <2>2. swarm[h].join + 1 \in Nat
    BY <1>2 DEF Torrent
  <2>3. t \in Torrent
    BY <1>1, <1>2, <2>1, <2>2
  <2> QED BY <2>3 DEF Torrent
<1>4. PICK r : r = [at |-> "metadata", hash |-> h, join |-> t.join]
  OBVIOUS
<1>5. r \in Request /\ r.at = "metadata" /\ Does(d, r)
  BY <1>1, <1>3, <1>4 DEF Request
<1>6. device[d].at = "idle" /\ UNCHANGED <<active, primers, store, restarts>>
  BY DEF Prepare
<1>7. device' \in [Devices -> Request] /\ \A g \in Hashes : Registering(g)' = Registering(g)
  BY <1>2, <1>5, <1>6, RegisteringStays
<1>8. TypeOK'
  BY <1>1, <1>2, <1>3, <1>6, <1>7 DEF TypeOK
<1> QED BY <1>6, <1>7, <1>8, OtherSteps

LEMMA EndingsKeep ==
    ASSUME GatewayInvariant, NEW d \in Devices,
           PrepareGivesUp(d) \/ NoVideoFile(d) \/ StreamEnds(d)
    PROVE  GatewayInvariant'
<1>1. /\ Does(d, Resting) /\ device[d].at # "register"
      /\ UNCHANGED <<swarm, active, primers, store, restarts>>
  BY DEF PrepareGivesUp, NoVideoFile, StreamEnds
<1>2. device' \in [Devices -> Request] /\ \A h \in Hashes : Registering(h)' = Registering(h)
  BY <1>1, RestingIsARequest, RegisteringStays DEF GatewayInvariant
<1>3. TypeOK'
  BY <1>1, <1>2 DEF GatewayInvariant, TypeOK
<1> QED BY <1>1, <1>2, <1>3, OtherSteps

LEMMA PickVideoFileKeeps ==
    ASSUME GatewayInvariant, NEW d \in Devices, PickVideoFile(d)
    PROVE  GatewayInvariant'
<1>1. PICK h \in Hashes : h = device[d].hash
  BY DEF GatewayInvariant, TypeOK, Request
<1>2. PICK r : r = [device[d] EXCEPT !.at = "register"]
  OBVIOUS
<1>3. r \in Request /\ r.at = "register" /\ r.hash = h
  BY <1>1, <1>2 DEF GatewayInvariant, TypeOK, Request
<1>4. /\ device[d].at = "metadata" /\ device' = [device EXCEPT ![d] = r]
      /\ primers' = [primers EXCEPT ![h] = @ + 1] /\ UNCHANGED <<active, store, restarts>>
      /\ swarm' = [swarm EXCEPT ![h].wanted = @ \/ Held(d)]
  BY <1>1, <1>2 DEF PickVideoFile, Does
<1>5. \A g \in Hashes : Registering(g)' = IF g = h THEN Registering(g) \cup {d}
                                          ELSE Registering(g)
  BY <1>3, <1>4 DEF GatewayInvariant, TypeOK, Registering
<1>6. d \notin Registering(h)
  BY <1>4 DEF Registering
<1>7. swarm' \in [Hashes -> Torrent]
  <2>1. PICK on \in BOOLEAN : swarm' = [swarm EXCEPT ![h] = [swarm[h] EXCEPT !.wanted = on]]
    <3>1. swarm[h].wanted \in BOOLEAN /\ Held(d) \in BOOLEAN
      BY DEF GatewayInvariant, TypeOK, Torrent, Held
    <3>2. (swarm[h].wanted \/ Held(d)) \in BOOLEAN
      OBVIOUS
    <3> QED BY <1>4, <3>2
  <2> QED BY <2>1 DEF GatewayInvariant, TypeOK, Torrent
<1>8. TypeOK'
  BY <1>3, <1>4, <1>7 DEF GatewayInvariant, TypeOK
<1>9. ASSUME NEW g \in Hashes
      PROVE  primers'[g] = Cardinality(Registering(g))' + SessionsOf(g)'
  <2>1. SessionsOf(g)' = SessionsOf(g) /\ SessionsOf(g) \in {0, 1}
    BY <1>4, SessionsCount DEF SessionsOf
  <2>2. primers[g] = Cardinality(Registering(g)) + SessionsOf(g)
    BY DEF GatewayInvariant, PrimersAccounted
  <2>3. primers'[g] = IF g = h THEN primers[g] + 1 ELSE primers[g]
    BY <1>4 DEF GatewayInvariant, TypeOK
  <2>4. Cardinality(Registering(g))' =
            IF g = h THEN Cardinality(Registering(g)) + 1 ELSE Cardinality(Registering(g))
    BY <1>5, <1>6, RegisteringCount, FS_AddElement
  <2> QED BY <2>1, <2>2, <2>3, <2>4, RegisteringCount
<1> QED BY <1>8, <1>9 DEF GatewayInvariant, PrimersAccounted

\* The session it replaces gives its primer back; its own stays open.
LEMMA RegisterKeeps ==
    ASSUME GatewayInvariant, NEW d \in Devices, Register(d)
    PROVE  GatewayInvariant'
<1>1. PICK h \in Hashes : h = device[d].hash
  BY DEF GatewayInvariant, TypeOK, Request
<1>2. PICK s : s = [join |-> device[d].join, idle |-> 0]
  OBVIOUS
<1>3. s \in Session /\ s # None
  <2>1. s \in Session
    BY <1>2, NoneIsNoSession DEF GatewayInvariant, TypeOK, Request, Session
  <2> QED BY <2>1, NoneIsNoSession
<1>4. /\ device[d].at = "register" /\ device' = [device EXCEPT ![d] = Resting]
      /\ primers' = [primers EXCEPT ![h] = @ - SessionsOf(h)]
      /\ active' = [active EXCEPT ![h] = s] /\ UNCHANGED <<swarm, store, restarts>>
  BY <1>1, <1>2 DEF Register, Does
<1>5. \A g \in Hashes : Registering(g)' = IF g = h THEN Registering(g) \ {d}
                                          ELSE Registering(g)
  BY <1>1, <1>4, RestingIsARequest DEF GatewayInvariant, TypeOK, Registering
<1>6. d \in Registering(h)
  BY <1>1, <1>4 DEF Registering
<1>7. ASSUME NEW g \in Hashes
      PROVE  primers'[g] \in Nat /\
             primers'[g] = Cardinality(Registering(g))' + SessionsOf(g)'
  <2>1. SessionsOf(g)' = IF g = h THEN 1 ELSE SessionsOf(g)
    BY <1>3, <1>4 DEF SessionsOf, GatewayInvariant, TypeOK
  <2>2. primers[g] = Cardinality(Registering(g)) + SessionsOf(g)
    BY DEF GatewayInvariant, PrimersAccounted
  <2>3. primers'[g] = IF g = h THEN primers[g] - SessionsOf(g) ELSE primers[g]
    BY <1>4 DEF GatewayInvariant, TypeOK
  <2>4. Cardinality(Registering(g))' =
            IF g = h THEN Cardinality(Registering(g)) - 1 ELSE Cardinality(Registering(g))
    BY <1>5, <1>6, RegisteringCount, FS_RemoveElement
  <2> QED BY <2>1, <2>2, <2>3, <2>4, RegisteringCount, SessionsCount
<1>8. TypeOK'
  <2>1. primers' \in [Hashes -> Nat]
    BY <1>4, <1>7 DEF GatewayInvariant, TypeOK
  <2> QED BY <1>3, <1>4, <2>1, RestingIsARequest DEF GatewayInvariant, TypeOK
<1> QED BY <1>7, <1>8 DEF GatewayInvariant, PrimersAccounted

-----------------------------------------------------------------------------
(* The rest.                                                               *)

LEMMA StreamStartKeeps ==
    ASSUME GatewayInvariant, NEW d \in Devices, NEW h \in Hashes, StreamStart(d, h)
    PROVE  GatewayInvariant'
<1>1. active[h] \in Session /\ TypeOK
  BY DEF StreamStart, GatewayInvariant, TypeOK
<1>2. PICK s : s = [active[h] EXCEPT !.idle = 0]
  OBVIOUS
<1>3. s \in Session /\ s # None
  <2>1. s \in Session
    BY <1>1, <1>2, NoneIsNoSession DEF Session
  <2> QED BY <2>1, NoneIsNoSession
<1>4. PICK r : r = [at |-> "streaming", hash |-> h, join |-> active[h].join]
  OBVIOUS
<1>5. r \in Request /\ r.at = "streaming"
  BY <1>1, <1>4 DEF Request, Session
<1>6. /\ device[d].at = "idle" /\ active[h] # None /\ active' = [active EXCEPT ![h] = s]
      /\ Does(d, r) /\ UNCHANGED <<swarm, primers, store, restarts>>
  BY <1>2, <1>4 DEF StreamStart
<1>7. device' \in [Devices -> Request] /\ \A g \in Hashes : Registering(g)' = Registering(g)
  BY <1>1, <1>5, <1>6, RegisteringStays
<1>8. TypeOK'
  BY <1>1, <1>3, <1>6, <1>7 DEF TypeOK
<1>9. \A g \in Hashes : active'[g] = None <=> active[g] = None
  BY <1>1, <1>3, <1>6 DEF TypeOK
<1> QED BY <1>6, <1>7, <1>8, <1>9, OtherSteps

LEMMA TorrentsKeep ==
    ASSUME GatewayInvariant, NEW h \in Hashes, MetadataArrives(h) \/ Download(h)
    PROVE  GatewayInvariant'
<1>1. UNCHANGED <<active, primers, device, restarts>>
  BY DEF MetadataArrives, Download
<1>2. swarm' \in [Hashes -> Torrent] /\ store' \in SUBSET Hashes
  <2>1. CASE MetadataArrives(h)
    <3>1. swarm' = [swarm EXCEPT ![h] = [swarm[h] EXCEPT !.info = TRUE]] /\ UNCHANGED store
      BY <2>1 DEF MetadataArrives
    <3>2. [swarm[h] EXCEPT !.info = TRUE] \in Torrent
      BY DEF GatewayInvariant, TypeOK, Torrent
    <3> QED BY <3>1, <3>2 DEF GatewayInvariant, TypeOK
  <2>2. CASE Download(h)
    BY <2>2 DEF Download, GatewayInvariant, TypeOK
  <2> QED BY <2>1, <2>2
<1>3. TypeOK'
  BY <1>1, <1>2 DEF GatewayInvariant, TypeOK
<1>4. \A g \in Hashes : Registering(g)' = Registering(g)
  BY <1>1 DEF Registering
<1> QED BY <1>1, <1>3, <1>4, OtherSteps

LEMMA MinuteKeeps ==
    ASSUME GatewayInvariant, Minute
    PROVE  GatewayInvariant'
<1>1. UNCHANGED <<swarm, primers, store, device, restarts>>
  BY DEF Minute
<1>2. ASSUME NEW h \in Hashes
      PROVE  active'[h] \in Session \cup {None} /\ (active'[h] = None <=> active[h] = None)
  <2>1. active'[h] = IF active[h] # None /\ active[h].idle < MaxIdle
                     THEN [active[h] EXCEPT !.idle = @ + 1] ELSE active[h]
    BY DEF Minute
  <2>2. active[h] \in Session \cup {None}
    BY DEF GatewayInvariant, TypeOK
  <2>3. ASSUME active[h] \in Session, active[h].idle < MaxIdle
        PROVE  [active[h] EXCEPT !.idle = @ + 1] \in Session
    <3>1. active[h].idle \in 0..MaxIdle /\ active[h].join \in Nat
      BY <2>3 DEF Session
    <3>2. active[h].idle + 1 \in 0..MaxIdle
      BY <2>3, <3>1, NoneIsNoSession
    <3> QED BY <2>3, <3>1, <3>2 DEF Session
  <2> QED BY <2>1, <2>2, <2>3, NoneIsNoSession
<1>3. active' \in [Hashes -> Session \cup {None}]
  <2>1. active' = [h \in Hashes |-> active'[h]]
    BY DEF Minute
  <2> QED BY <1>2, <2>1
<1>4. TypeOK'
  BY <1>1, <1>3 DEF GatewayInvariant, TypeOK
<1>5. \A g \in Hashes : Registering(g)' = Registering(g)
  BY <1>1 DEF Registering
<1> QED BY <1>1, <1>2, <1>4, <1>5, OtherSteps

LEMMA ReapKeeps ==
    ASSUME GatewayInvariant, Reap
    PROVE  GatewayInvariant'
<1>1. /\ primers' = [h \in Hashes |-> IF h \in Expired THEN primers[h] - 1 ELSE primers[h]]
      /\ swarm' = [h \in Hashes |->
            IF h \in Expired /\ swarm[h].join = active[h].join
            THEN Absent(swarm[h].join) ELSE swarm[h]]
      /\ active' = [h \in Hashes |-> IF h \in Expired THEN None ELSE active[h]]
      /\ store' = store \ Expired
      /\ UNCHANGED <<device, restarts>>
  BY DEF Reap
<1>2. ASSUME NEW h \in Hashes
      PROVE  primers'[h] \in Nat /\
             primers'[h] = Cardinality(Registering(h))' + SessionsOf(h)'
  <2>1. Registering(h)' = Registering(h)
    BY <1>1 DEF Registering
  <2>2. primers[h] = Cardinality(Registering(h)) + SessionsOf(h)
    BY DEF GatewayInvariant, PrimersAccounted
  <2>3. primers'[h] = IF h \in Expired THEN primers[h] - 1 ELSE primers[h]
    BY <1>1
  <2>4. /\ h \in Expired => SessionsOf(h) = 1 /\ SessionsOf(h)' = 0
        /\ h \notin Expired => SessionsOf(h)' = SessionsOf(h)
    BY <1>1 DEF Expired, SessionsOf
  <2> QED BY <2>1, <2>2, <2>3, <2>4, RegisteringCount, SessionsCount
<1>3. TypeOK'
  <2>1. primers' \in [Hashes -> Nat]
    BY <1>1, <1>2
  <2>2. \A h \in Hashes : swarm[h] \in Torrent /\ Absent(swarm[h].join) \in Torrent
    BY DEF GatewayInvariant, TypeOK, Torrent, Absent
  <2>3. swarm' \in [Hashes -> Torrent]
    BY <1>1, <2>2
  <2> QED BY <1>1, <2>1, <2>3 DEF GatewayInvariant, TypeOK
<1> QED BY <1>2, <1>3 DEF GatewayInvariant, PrimersAccounted

\* Nobody registers, and no primer is open.
LEMMA NothingOpen ==
    ASSUME TypeOK, \A h \in Hashes : primers[h] = 0 /\ active[h] = None,
           \A d \in Devices : device[d].at = "idle"
    PROVE  GatewayInvariant
<1>1. ASSUME NEW h \in Hashes PROVE Cardinality(Registering(h)) = 0 /\ SessionsOf(h) = 0
  <2>1. Registering(h) = {}
    BY DEF Registering
  <2> QED BY <2>1, FS_EmptySet DEF SessionsOf
<1> QED BY <1>1 DEF GatewayInvariant, PrimersAccounted

LEMMA RestartKeeps ==
    ASSUME GatewayInvariant, Restart
    PROVE  GatewayInvariant'
<1>1. /\ restarts' = restarts + 1 /\ UNCHANGED store
      /\ swarm' = [h \in Hashes |-> Absent(swarm[h].join)]
      /\ active' = [h \in Hashes |-> None] /\ primers' = [h \in Hashes |-> 0]
      /\ device' = [d \in Devices |-> Resting]
  BY DEF Restart
<1>2. \A h \in Hashes : Absent(swarm[h].join) \in Torrent
  BY DEF GatewayInvariant, TypeOK, Torrent, Absent
<1>3. TypeOK'
  BY <1>1, <1>2, RestingIsARequest DEF GatewayInvariant, TypeOK
<1>4. ASSUME NEW h \in Hashes
      PROVE  primers'[h] = Cardinality(Registering(h))' + SessionsOf(h)'
  <2>1. Registering(h)' = {}
    BY <1>1, RestingIsARequest DEF Registering
  <2> QED BY <1>1, <2>1, FS_EmptySet DEF SessionsOf
<1> QED BY <1>3, <1>4 DEF GatewayInvariant, PrimersAccounted

LEMMA GatewayInitially == Init => GatewayInvariant
<1> SUFFICES ASSUME Init PROVE GatewayInvariant
  OBVIOUS
<1>1. TypeOK
  BY RestingIsARequest DEF Init, TypeOK, Torrent, Absent
<1> QED BY <1>1, RestingIsARequest, NothingOpen DEF Init

LEMMA GatewayStays == GatewayInvariant /\ [Next]_vars => GatewayInvariant'
<1> SUFFICES ASSUME GatewayInvariant, [Next]_vars PROVE GatewayInvariant'
  OBVIOUS
<1>1. ASSUME NEW d \in Devices, DeviceStep(d) PROVE GatewayInvariant'
  BY <1>1, PrepareKeeps, EndingsKeep, PickVideoFileKeeps, RegisterKeeps, StreamStartKeeps
     DEF DeviceStep
<1>2. CASE UNCHANGED vars
  <2>1. UNCHANGED <<swarm, active, primers, store, device, restarts>>
    BY <1>2 DEF vars
  <2>2. TypeOK' /\ \A h \in Hashes : Registering(h)' = Registering(h)
    BY <2>1 DEF GatewayInvariant, TypeOK, Registering
  <2> QED BY <2>1, <2>2, OtherSteps
<1> QED BY <1>1, <1>2, TorrentsKeep, MinuteKeeps, ReapKeeps, RestartKeeps DEF Next

-----------------------------------------------------------------------------
\* The gateway in every reachable state: types, and every primer accounted for.
THEOREM GatewayInvariantHolds == Spec => []GatewayInvariant
BY GatewayInitially, GatewayStays, PTL DEF Spec

\* However prepares of one torrent, the reaper and each other overlap, for any
\* number of televisions, no primer is lost and none is closed twice (prepare,
\* reaper).
THEOREM EveryPrimerIsAccounted == Spec => []PrimersAccounted
<1>1. GatewayInvariant => PrimersAccounted
  BY DEF GatewayInvariant
<1> QED BY <1>1, GatewayInvariantHolds, PTL

-----------------------------------------------------------------------------
(* The bridge.                                                             *)

Spenders == {c \in Conns : conn[c].at \in Spending}

\* What a budget was when it was written down is bounded like the budget, so
\* that a restart does not start above its bound.
SavedIsBounded == saved["iptv"].used < IPTVCap + 2 * Global

Connection == [at : Places, up : BOOLEAN, down : {"reads", "writes", "ended"},
               ws : BOOLEAN, peer : BOOLEAN]
Holds(state) == state.at \notin {"closed", "admitted"}

\* What acquire adds up is the number of requests that hold a slot, wherever they
\* come from.
Open == {c \in Conns : Holds(conn[c])}
SumIsOpen ==
    IsFiniteSet(TakenSlots) /\ AllSlots = Cardinality(Open) /\ AllSlots <= Global
Counted == AddressesAccounted /\ SumIsOpen

BridgeInvariant == BridgeTypeOK /\ Counted /\ IPTVStopsAtItsCap /\ SavedIsBounded

-----------------------------------------------------------------------------
(* Counting.                                                               *)

LEMMA PartsOfConnsCount ==
    ASSUME NEW S \in SUBSET Conns
    PROVE  IsFiniteSet(S) /\ Cardinality(S) \in Nat
BY BridgeAssumption, FS_Subset, FS_CardinalityType

LEMMA Caps ==
    /\ {PerIP, Global, RelayCap, IPTVCap} \subseteq Nat /\ Global # 0
    /\ Budgets = {"relay", "iptv"}
BY BridgeAssumption DEF Budgets

\* A handler that comes to hold its slot adds one to the holders of its address.
LEMMA HoldersGrow ==
    ASSUME BridgeTypeOK, NEW c \in Conns, NEW s \in Connection,
           Handler(c, s), ~Holds(conn[c]), Holds(s), NEW a \in Clients
    PROVE  Cardinality(Holders(a))' =
               IF a = Address[c] THEN Cardinality(Holders(a)) + 1 ELSE Cardinality(Holders(a))
<1>1. Holders(a)' = IF a = Address[c] THEN Holders(a) \cup {c} ELSE Holders(a)
  BY DEF BridgeTypeOK, Handler, Holds, Holders
<1>2. c \notin Holders(a)
  BY DEF Holds, Holders
<1>3. IsFiniteSet(Holders(a))
  BY PartsOfConnsCount DEF Holders
<1> QED BY <1>1, <1>2, <1>3, FS_AddElement

LEMMA HoldersShrink ==
    ASSUME BridgeTypeOK, NEW c \in Conns, NEW s \in Connection,
           Handler(c, s), Holds(conn[c]), ~Holds(s), NEW a \in Clients
    PROVE  Cardinality(Holders(a))' =
               IF a = Address[c] THEN Cardinality(Holders(a)) - 1 ELSE Cardinality(Holders(a))
<1>1. Holders(a)' = IF a = Address[c] THEN Holders(a) \ {c} ELSE Holders(a)
  BY DEF BridgeTypeOK, Handler, Holds, Holders
<1>2. a = Address[c] => c \in Holders(a)
  BY DEF Holds, Holders
<1>3. IsFiniteSet(Holders(a))
  BY PartsOfConnsCount DEF Holders
<1> QED BY <1>1, <1>2, <1>3, FS_RemoveElement

LEMMA HoldersStay ==
    ASSUME BridgeTypeOK, NEW c \in Conns, NEW s \in Connection,
           Handler(c, s), Holds(conn[c]) <=> Holds(s), NEW a \in Clients
    PROVE  Holders(a)' = Holders(a)
BY DEF BridgeTypeOK, Handler, Holds, Holders

\* The spenders, after a step of one handler.
LEMMA SpendersMove ==
    ASSUME BridgeTypeOK, NEW c \in Conns, NEW s \in Connection, Handler(c, s)
    PROVE  /\ Spenders' = IF s.at \in Spending THEN Spenders \cup {c} ELSE Spenders \ {c}
           /\ Cardinality(Spenders) \in Nat /\ Cardinality(Spenders') \in Nat
           /\ conn[c].at \in Spending /\ s.at \notin Spending =>
                  Cardinality(Spenders') = Cardinality(Spenders) - 1
           /\ s.at \in Spending => Cardinality(Spenders') <= Cardinality(Spenders) + 1
           /\ (conn[c].at \in Spending <=> s.at \in Spending) =>
                  Cardinality(Spenders') = Cardinality(Spenders)
           /\ s.at \notin Spending => Cardinality(Spenders') <= Cardinality(Spenders)
<1>1. Spenders' = IF s.at \in Spending THEN Spenders \cup {c} ELSE Spenders \ {c}
  BY DEF BridgeTypeOK, Handler, Spenders
<1>2. Spenders \in SUBSET Conns /\ Spenders' \in SUBSET Conns
  BY DEF Spenders
<1>3. /\ IsFiniteSet(Spenders) /\ IsFiniteSet(Spenders')
      /\ Cardinality(Spenders) \in Nat /\ Cardinality(Spenders') \in Nat
  BY <1>2, PartsOfConnsCount
<1>4. c \in Spenders <=> conn[c].at \in Spending
  BY DEF Spenders
<1>5. /\ Cardinality(Spenders \cup {c}) =
             IF c \in Spenders THEN Cardinality(Spenders) ELSE Cardinality(Spenders) + 1
      /\ Cardinality(Spenders \ {c}) =
             IF c \in Spenders THEN Cardinality(Spenders) - 1 ELSE Cardinality(Spenders)
  BY <1>3, FS_AddElement, FS_RemoveElement
<1> QED BY <1>1, <1>3, <1>4, <1>5

-----------------------------------------------------------------------------
(* What a step of one handler does to the slots.                           *)

LEMMA SlotTaken ==
    ASSUME BridgeTypeOK, AddressesAccounted, NEW c \in Conns, NEW s \in Connection,
           Handler(c, s), ~Holds(conn[c]), Holds(s), Acquire(c)
    PROVE  slots' \in [Clients -> Nat] /\ AddressesAccounted'
<1>1. /\ slots \in [Clients -> Nat] /\ Address[c] \in Clients
      /\ slots[Address[c]] < PerIP
      /\ slots' = [slots EXCEPT ![Address[c]] = @ + 1]
  BY DEF BridgeTypeOK, Clients, Acquire, HasRoom
<1>2. slots' \in [Clients -> Nat]
  BY <1>1
<1>3. ASSUME NEW a \in Clients
      PROVE  slots'[a] = Cardinality(Holders(a))' /\ slots'[a] <= PerIP
  <2>1. slots[a] = Cardinality(Holders(a)) /\ slots[a] <= PerIP /\ slots[a] \in Nat
    BY <1>1 DEF AddressesAccounted
  <2>2. slots'[a] = IF a = Address[c] THEN slots[a] + 1 ELSE slots[a]
    BY <1>1
  <2> QED BY <1>1, <2>1, <2>2, HoldersGrow, Caps
<1> QED BY <1>2, <1>3 DEF AddressesAccounted

LEMMA SlotGivenBack ==
    ASSUME BridgeTypeOK, AddressesAccounted, NEW c \in Conns, NEW s \in Connection,
           Handler(c, s), Holds(conn[c]), ~Holds(s), Release(c)
    PROVE  slots' \in [Clients -> Nat] /\ AddressesAccounted'
<1>1. /\ slots \in [Clients -> Nat] /\ Address[c] \in Clients
      /\ slots' = [slots EXCEPT ![Address[c]] = IF @ <= 1 THEN 0 ELSE @ - 1]
  BY DEF BridgeTypeOK, Clients, Release
<1>2. slots' \in [Clients -> Nat]
  BY <1>1
<1>3. ASSUME NEW a \in Clients
      PROVE  slots'[a] = Cardinality(Holders(a))' /\ slots'[a] <= PerIP
  <2>1. slots[a] = Cardinality(Holders(a)) /\ slots[a] <= PerIP /\ slots[a] \in Nat
    BY <1>1 DEF AddressesAccounted
  <2>2. slots'[a] = IF a = Address[c] THEN IF slots[a] <= 1 THEN 0 ELSE slots[a] - 1
                    ELSE slots[a]
    BY <1>1
  <2>3. a = Address[c] => slots[a] >= 1
    <3>1. a = Address[c] => c \in Holders(a)
      BY DEF Holds, Holders
    <3>2. IsFiniteSet(Holders(a))
      BY PartsOfConnsCount DEF Holders
    <3> QED BY <2>1, <3>1, <3>2, FS_EmptySet
  <2> QED BY <1>1, <2>1, <2>2, <2>3, HoldersShrink, Caps
<1> QED BY <1>2, <1>3 DEF AddressesAccounted

LEMMA SlotsKept ==
    ASSUME BridgeTypeOK, AddressesAccounted, NEW c \in Conns, NEW s \in Connection,
           Handler(c, s), Holds(conn[c]) <=> Holds(s), UNCHANGED slots
    PROVE  slots' \in [Clients -> Nat] /\ AddressesAccounted'
BY HoldersStay DEF BridgeTypeOK, AddressesAccounted

\* The sum follows: a slot more or less, and an open request more or less.
LEMMA SumGrows ==
    ASSUME BridgeTypeOK, SumIsOpen, NEW c \in Conns, NEW s \in Connection,
           Handler(c, s), ~Holds(conn[c]), Holds(s), Acquire(c)
    PROVE  SumIsOpen'
<1>1. /\ slots \in [Clients -> Nat] /\ Address[c] \in Clients /\ AllSlots < Global
      /\ slots' = [slots EXCEPT ![Address[c]] = @ + 1]
  BY DEF BridgeTypeOK, Clients, Acquire, HasRoom
<1>2. PICK a \in Clients : a = Address[c]
  BY <1>1
<1>3. PICK n \in Nat : n = slots[a]
  BY <1>1
<1>4. TakenSlots' = TakenSlots \cup {<<a, n + 1>>} /\ <<a, n + 1>> \notin TakenSlots
  <2>1. \A b \in Clients : slots'[b] = IF b = a THEN n + 1 ELSE slots[b]
    BY <1>1, <1>2, <1>3
  <2>2. 1..(n + 1) = (1..n) \cup {n + 1} /\ n + 1 \notin 1..n
    BY <1>3
  <2>3. \A b \in Clients : {b} \X (1..slots'[b]) =
            IF b = a THEN ({b} \X (1..slots[b])) \cup {<<a, n + 1>>} ELSE {b} \X (1..slots[b])
    BY <1>3, <2>1, <2>2
  <2> QED BY <1>2, <1>3, <2>2, <2>3 DEF TakenSlots
<1>5. Open' = Open \cup {c} /\ c \notin Open
  BY DEF Open, Handler, BridgeTypeOK
<1>6. IsFiniteSet(Open) /\ Cardinality(Open) \in Nat
  BY PartsOfConnsCount DEF Open
<1>7. /\ IsFiniteSet(TakenSlots') /\ Cardinality(TakenSlots') = Cardinality(TakenSlots) + 1
      /\ Cardinality(Open') = Cardinality(Open) + 1
  BY <1>4, <1>5, <1>6, FS_AddElement DEF SumIsOpen
<1> QED BY <1>1, <1>6, <1>7, Caps DEF SumIsOpen, AllSlots

LEMMA SumShrinks ==
    ASSUME BridgeTypeOK, Counted, NEW c \in Conns, NEW s \in Connection,
           Handler(c, s), Holds(conn[c]), ~Holds(s), Release(c)
    PROVE  SumIsOpen'
<1>1. /\ slots \in [Clients -> Nat] /\ Address[c] \in Clients
      /\ slots' = [slots EXCEPT ![Address[c]] = IF @ <= 1 THEN 0 ELSE @ - 1]
  BY DEF BridgeTypeOK, Clients, Release
<1>2. PICK a \in Clients : a = Address[c]
  BY <1>1
<1>3. PICK n \in Nat : n = slots[a]
  BY <1>1
<1>4. n >= 1
  <2>1. c \in Holders(a)
    BY <1>2 DEF Holds, Holders
  <2>2. IsFiniteSet(Holders(a)) /\ n = Cardinality(Holders(a))
    BY <1>2, <1>3, PartsOfConnsCount DEF Holders, Counted, AddressesAccounted
  <2> QED BY <1>3, <2>1, <2>2, FS_EmptySet
<1>5. TakenSlots' = TakenSlots \ {<<a, n>>} /\ <<a, n>> \in TakenSlots
  <2>1. \A b \in Clients : slots'[b] = IF b = a THEN n - 1 ELSE slots[b]
    BY <1>1, <1>2, <1>3, <1>4
  <2>2. 1..(n - 1) = (1..n) \ {n} /\ n \in 1..n
    BY <1>3, <1>4
  <2>3. \A b \in Clients : {b} \X (1..slots'[b]) =
            IF b = a THEN ({b} \X (1..slots[b])) \ {<<a, n>>} ELSE {b} \X (1..slots[b])
    BY <1>3, <2>1, <2>2
  <2>4. \A b \in Clients : b # a => <<a, n>> \notin {b} \X (1..slots[b])
    OBVIOUS
  <2>5. <<a, n>> \in {a} \X (1..slots[a])
    BY <1>3, <2>2
  <2> QED BY <1>2, <2>3, <2>4, <2>5 DEF TakenSlots
<1>6. Open' = Open \ {c} /\ c \in Open
  BY DEF Open, Handler, BridgeTypeOK
<1>7. IsFiniteSet(Open) /\ Cardinality(Open) \in Nat
  BY PartsOfConnsCount DEF Open
<1>8. /\ IsFiniteSet(TakenSlots') /\ Cardinality(TakenSlots') = Cardinality(TakenSlots) - 1
      /\ Cardinality(Open') = Cardinality(Open) - 1
  BY <1>5, <1>6, <1>7, FS_RemoveElement DEF Counted, SumIsOpen
<1> QED BY <1>7, <1>8, Caps DEF Counted, SumIsOpen, AllSlots

LEMMA SumStays ==
    ASSUME BridgeTypeOK, SumIsOpen, NEW c \in Conns, NEW s \in Connection,
           Handler(c, s), Holds(conn[c]) <=> Holds(s), UNCHANGED slots
    PROVE  SumIsOpen'
<1>1. Open' = Open /\ TakenSlots' = TakenSlots
  BY DEF Open, Handler, BridgeTypeOK, TakenSlots
<1> QED BY <1>1 DEF SumIsOpen, AllSlots

\* Whoever spends holds a slot.
LEMMA SpendersHoldSlots ==
    /\ Counted => Cardinality(Spenders) <= Global
    /\ Counted' => Cardinality(Spenders') <= Global
<1>1. Spenders \subseteq Open /\ Open \subseteq Conns
  BY DEF Spenders, Open, Holds, Spending
<1>2. Spenders' \subseteq Open' /\ Open' \subseteq Conns
  BY DEF Spenders, Open, Holds, Spending
<1>3. IsFiniteSet(Open) /\ IsFiniteSet(Open')
  BY <1>1, <1>2, PartsOfConnsCount
<1>4. /\ Cardinality(Spenders) <= Cardinality(Open) /\ Cardinality(Spenders) \in Nat
      /\ Cardinality(Open) \in Nat
      /\ Cardinality(Spenders') <= Cardinality(Open') /\ Cardinality(Spenders') \in Nat
      /\ Cardinality(Open') \in Nat
  BY <1>1, <1>2, <1>3, FS_Subset, FS_CardinalityType
<1>5. /\ Counted => Cardinality(Open) <= Global
      /\ Counted' => Cardinality(Open') <= Global
  BY DEF Counted, SumIsOpen
<1> QED BY <1>4, <1>5, Caps

\* Nothing moves.
LEMMA CountedStays ==
    ASSUME Counted, UNCHANGED <<conn, slots>>
    PROVE  Counted'
BY DEF Counted, AddressesAccounted, Holders, SumIsOpen, AllSlots, TakenSlots, Open

\* Any of the three.
Slots(c, s) ==
    \/ ~Holds(conn[c]) /\ Holds(s) /\ Acquire(c)
    \/ Holds(conn[c]) /\ ~Holds(s) /\ Release(c)
    \/ (Holds(conn[c]) <=> Holds(s)) /\ UNCHANGED slots

LEMMA SlotsPreserved ==
    ASSUME BridgeTypeOK, Counted, NEW c \in Conns, NEW s \in Connection,
           Handler(c, s), Slots(c, s)
    PROVE  /\ slots' \in [Clients -> Nat] /\ Counted'
           /\ conn' \in [Conns -> Connection]
<1>1. conn' \in [Conns -> Connection]
  BY DEF BridgeTypeOK, Handler, Connection
<1>2. AddressesAccounted /\ SumIsOpen
  BY DEF Counted
<1>3. slots' \in [Clients -> Nat] /\ AddressesAccounted'
  BY <1>2, SlotTaken, SlotGivenBack, SlotsKept DEF Slots
<1>4. SumIsOpen'
  BY <1>2, SumGrows, SumShrinks, SumStays DEF Slots
<1> QED BY <1>1, <1>3, <1>4 DEF Counted

-----------------------------------------------------------------------------
(* Steps of one handler.                                                   *)

\* Nothing is spent, and nobody starts to spend.
LEMMA QuietStepPreserves ==
    ASSUME BridgeInvariant, NEW c \in Conns, NEW s \in Connection,
           Handler(c, s), Slots(c, s), UNCHANGED ledger,
           s.at \in Spending => conn[c].at \in Spending
    PROVE  BridgeInvariant'
<1>1. BridgeTypeOK /\ Counted
  BY DEF BridgeInvariant
<1>2. /\ UNCHANGED <<used, counted, saved, month, starts>>
      /\ used \in [Budgets -> Nat] /\ used["iptv"] \in Nat
  BY <1>1, Caps DEF ledger, BridgeTypeOK
<1>3. /\ slots' \in [Clients -> Nat] /\ Counted'
      /\ conn' \in [Conns -> Connection]
  BY <1>1, SlotsPreserved
<1>4. BridgeTypeOK'
  BY <1>1, <1>2, <1>3 DEF BridgeTypeOK, Connection
<1>5. Cardinality(Spenders') <= Cardinality(Spenders)
      /\ Cardinality(Spenders) \in Nat /\ Cardinality(Spenders') \in Nat
  BY <1>1, SpendersMove
<1>6. IPTVStopsAtItsCap'
  BY <1>2, <1>5, Caps DEF BridgeInvariant, IPTVStopsAtItsCap, Spenders
<1> QED BY <1>2, <1>3, <1>4, <1>6 DEF BridgeInvariant, SavedIsBounded

\* What a step of a handler becomes of the connection, wherever it is.
LEMMA StatesAreConnections ==
    ASSUME BridgeTypeOK, NEW c \in Conns
    PROVE  /\ Closed \in Connection /\ Closed.at = "closed"
           /\ \A p \in Places : At(p) \in Connection /\ At(p).at = p
           /\ conn[c] \in Connection
           /\ \A p \in Places : [conn[c] EXCEPT !.at = p] \in Connection
                                /\ [conn[c] EXCEPT !.at = p].at = p
BY DEF BridgeTypeOK, Closed, At, Connection, Places

LEMMA SocketsPreserve ==
    ASSUME BridgeInvariant, NEW c \in Conns,
           \/ AdmitSocket(c) \/ TooManySockets(c) \/ AcceptSocket(c) \/ SocketRefused(c)
           \/ \E proto \in {"dial tcp", "dial udp"} : Hello(c, proto)
           \/ RelayReturns(c) \/ FetchEnds(c)
           \/ StartFetch(c)
    PROVE  BridgeInvariant'
<1> USE DEF Holds, Slots, Spending, Places
<1>0. BridgeTypeOK
  BY DEF BridgeInvariant
<1>1. CASE AdmitSocket(c)
  BY <1>0, <1>1, StatesAreConnections, QuietStepPreserves DEF AdmitSocket
<1>2. CASE TooManySockets(c)
  BY <1>0, <1>2, StatesAreConnections, QuietStepPreserves DEF TooManySockets
<1>3. CASE AcceptSocket(c)
  BY <1>0, <1>3, StatesAreConnections, QuietStepPreserves DEF AcceptSocket
<1>4. CASE SocketRefused(c)
  BY <1>0, <1>4, StatesAreConnections, QuietStepPreserves DEF SocketRefused, Return
<1>5. ASSUME NEW proto \in {"dial tcp", "dial udp"}, Hello(c, proto) PROVE BridgeInvariant'
  BY <1>0, <1>5, StatesAreConnections, QuietStepPreserves DEF Hello
<1>6. CASE RelayReturns(c)
  BY <1>0, <1>6, StatesAreConnections, QuietStepPreserves DEF RelayReturns, Relaying, Return
<1>7. CASE FetchEnds(c)
  BY <1>0, <1>7, StatesAreConnections, QuietStepPreserves DEF FetchEnds, Return
<1>8. CASE StartFetch(c)
  <2>1. Endpoint[c] \in Places /\ Endpoint[c] \in {"iptv", "page"}
    BY <1>8, BridgeAssumption DEF StartFetch, Sockets
  <2> QED BY <1>0, <1>8, <2>1, StatesAreConnections, QuietStepPreserves DEF StartFetch
<1> QED BY <1>1, <1>2, <1>3, <1>4, <1>5, <1>6, <1>7, <1>8

LEMMA HalvesPreserve ==
    ASSUME BridgeInvariant, NEW c \in Conns,
           Dialled(c) \/ BrowserTakes(c) \/ BrowserLeaves(c) \/ DownEnds(c) \/ UpEnds(c)
    PROVE  BridgeInvariant'
<1>0. BridgeTypeOK /\ conn[c] \in Connection
  BY StatesAreConnections DEF BridgeInvariant
<1>1. PICK s \in Connection :
          /\ Handler(c, s) /\ UNCHANGED <<slots, ledger>>
          /\ Holds(conn[c]) /\ Holds(s) /\ s.at \notin Spending
  <2>1. CASE Dialled(c)
    <3> DEFINE s == [at |-> IF conn[c].at = "dial tcp" THEN "tcp" ELSE "udp",
                     up |-> TRUE, down |-> "reads", ws |-> conn[c].ws, peer |-> TRUE]
    <3>1. s \in Connection /\ s.at \in {"tcp", "udp"}
      BY <1>0 DEF Connection, Places
    <3>2. /\ Handler(c, s) /\ UNCHANGED <<slots, ledger>>
          /\ conn[c].at \in {"dial tcp", "dial udp"}
      BY <2>1 DEF Dialled
    <3> HIDE DEF s
    <3> QED BY <3>1, <3>2 DEF Holds, Spending
  <2>2. CASE BrowserLeaves(c)
    <3> DEFINE s == [conn[c] EXCEPT !.ws = FALSE]
    <3>1. s \in Connection /\ s.at = conn[c].at
      BY <1>0 DEF Connection
    <3>2. Handler(c, s) /\ UNCHANGED <<slots, ledger>> /\ conn[c].at \in {"tcp", "udp"}
      BY <2>2 DEF BrowserLeaves, Relaying
    <3> HIDE DEF s
    <3> QED BY <3>1, <3>2 DEF Holds, Spending
  <2>3. CASE DownEnds(c)
    <3> DEFINE s == [conn[c] EXCEPT !.down = "ended",
                                         !.ws = @ /\ conn[c].at = "udp"]
    <3>1. s \in Connection /\ s.at = conn[c].at
      BY <1>0 DEF Connection
    <3>2. Handler(c, s) /\ UNCHANGED <<slots, ledger>> /\ conn[c].at \in {"tcp", "udp"}
      BY <2>3 DEF DownEnds, DownCanEnd, Relaying
    <3> HIDE DEF s
    <3> QED BY <3>1, <3>2 DEF Holds, Spending
  <2>4. CASE UpEnds(c)
    <3> DEFINE s == [conn[c] EXCEPT !.up = FALSE, !.peer = FALSE]
    <3>1. s \in Connection /\ s.at = conn[c].at
      BY <1>0 DEF Connection
    <3>2. Handler(c, s) /\ UNCHANGED <<slots, ledger>> /\ conn[c].at \in {"tcp", "udp"}
      BY <2>4 DEF UpEnds, Relaying
    <3> HIDE DEF s
    <3> QED BY <3>1, <3>2 DEF Holds, Spending
  <2>5. CASE BrowserTakes(c)
    <3> DEFINE s == [conn[c] EXCEPT !.down = "reads"]
    <3>1. s \in Connection /\ s.at = conn[c].at
      BY <1>0 DEF Connection
    <3>2. Handler(c, s) /\ UNCHANGED <<slots, ledger>> /\ conn[c].at \in {"tcp", "udp"}
      BY <2>5 DEF BrowserTakes, Relaying
    <3> HIDE DEF s
    <3> QED BY <3>1, <3>2 DEF Holds, Spending
  <2> QED BY <2>1, <2>2, <2>3, <2>4, <2>5
<1> QED BY <1>1, QuietStepPreserves DEF Slots

\* A handler that may spend, and did not spend before: the budget is not spent.
LEMMA FetchOpensPreserves ==
    ASSUME BridgeInvariant, NEW c \in Conns, FetchOpens(c)
    PROVE  BridgeInvariant'
<1> DEFINE s == [conn[c] EXCEPT !.at = IF @ = "iptv" THEN "stream" ELSE "fetch"]
<1>1. BridgeTypeOK /\ Counted /\ conn[c] \in Connection
  BY StatesAreConnections DEF BridgeInvariant
<1>2. s \in Connection /\ s.at \in Spending /\ conn[c].at \in {"iptv", "page"}
  BY <1>1 DEF FetchOpens, Connection, Places, Spending
<1>3. Handler(c, s) /\ UNCHANGED <<slots, ledger>> /\ used["iptv"] < IPTVCap
  BY <1>1, Caps DEF FetchOpens, Degraded, Cap, BridgeTypeOK
<1> HIDE DEF s
<1>4. Holds(conn[c]) /\ Holds(s)
  BY <1>2 DEF Holds, Spending
<1>5. /\ slots' \in [Clients -> Nat] /\ Counted'
      /\ conn' \in [Conns -> Connection]
  BY <1>1, <1>2, <1>3, <1>4, SlotsPreserved DEF Slots
<1>6. Cardinality(Spenders') \in Nat /\ Cardinality(Spenders') <= Global
  BY <1>1, <1>2, <1>3, <1>5, SpendersMove, SpendersHoldSlots
<1>7. UNCHANGED <<used, counted, saved, month, starts>> /\ used["iptv"] \in Nat
  BY <1>1, <1>3, Caps DEF ledger, BridgeTypeOK
<1>8. BridgeTypeOK'
  BY <1>1, <1>5, <1>7 DEF BridgeTypeOK, Connection
<1>9. IPTVStopsAtItsCap'
  BY <1>3, <1>6, <1>7, Caps DEF IPTVStopsAtItsCap, Spenders
<1> QED BY <1>5, <1>7, <1>8, <1>9 DEF BridgeInvariant, SavedIsBounded

\* What Spend leaves.
LEMMA Spent ==
    ASSUME BridgeTypeOK, NEW bs \in SUBSET Budgets, NEW n \in Nat, Spend(bs, n)
    PROVE  /\ used' \in [Budgets -> Nat]
           /\ used'["iptv"] = IF "iptv" \in bs THEN used["iptv"] + n ELSE used["iptv"]
           /\ used["iptv"] \in Nat
           /\ UNCHANGED <<counted, saved, month, starts>>
BY Caps DEF Spend, BridgeTypeOK

LEMMA RelayChunksPreserve ==
    ASSUME BridgeInvariant, NEW c \in Conns, PeerSends(c) \/ BrowserSends(c)
    PROVE  BridgeInvariant'
<1>1. BridgeTypeOK /\ Counted /\ conn[c] \in Connection
  BY StatesAreConnections DEF BridgeInvariant
<1>2. Spend({"relay"}, 1) /\ UNCHANGED slots /\ Relaying(c)
  BY DEF PeerSends, BrowserSends, Charged
<1>3. /\ used' \in [Budgets -> Nat] /\ used'["iptv"] = used["iptv"]
      /\ UNCHANGED <<counted, saved, month, starts>>
  <2>1. {"relay"} \in SUBSET Budgets /\ "iptv" \notin {"relay"}
    BY Caps
  <2> QED BY <1>1, <1>2, <2>1, Spent
<1>4. PICK s \in Connection : s.at = conn[c].at /\ Handler(c, s)
  <2>1. CASE PeerSends(c)
    <3>1. /\ [conn[c] EXCEPT !.down = "writes"] \in Connection
          /\ [conn[c] EXCEPT !.down = "writes"].at = conn[c].at
      BY <1>1 DEF Connection
    <3> QED BY <2>1, <3>1 DEF PeerSends
  <2>2. CASE BrowserSends(c)
    BY <1>1, <2>2 DEF BrowserSends, Handler, BridgeTypeOK
  <2> QED BY <2>1, <2>2
<1>5. Slots(c, s)
  BY <1>2, <1>4 DEF Slots, Holds
<1>6. /\ Counted' /\ conn' \in [Conns -> Connection]
  BY <1>1, <1>4, <1>5, SlotsPreserved
<1>7. BridgeTypeOK'
  BY <1>1, <1>2, <1>3, <1>6 DEF BridgeTypeOK, Connection
<1>8. Cardinality(Spenders') = Cardinality(Spenders)
  BY <1>1, <1>4, SpendersMove
<1>9. IPTVStopsAtItsCap' /\ SavedIsBounded'
  BY <1>3, <1>8 DEF BridgeInvariant, IPTVStopsAtItsCap, SavedIsBounded, Spenders
<1> QED BY <1>6, <1>7, <1>9 DEF BridgeInvariant

LEMMA StreamChunkPreserves ==
    ASSUME BridgeInvariant, NEW c \in Conns, StreamChunk(c)
    PROVE  BridgeInvariant'
<1>1. BridgeTypeOK /\ Counted
  BY DEF BridgeInvariant
<1>2. conn[c].at = "stream" /\ Spend(Budgets, 2)
  BY DEF StreamChunk
<1>3. /\ used' \in [Budgets -> Nat] /\ used'["iptv"] = used["iptv"] + 2
      /\ used["iptv"] \in Nat /\ UNCHANGED <<counted, saved, month, starts>>
  BY <1>1, <1>2, Spent, Caps
<1>4. CASE used'["iptv"] >= IPTVCap
  <2>1. Handler(c, Closed) /\ Release(c)
    BY <1>4 DEF StreamChunk, Return
  <2>2. Closed \in Connection /\ ~Holds(Closed) /\ Holds(conn[c]) /\ Closed.at \notin Spending
        /\ conn[c].at \in Spending
    BY <1>1, <1>2, StatesAreConnections DEF Holds, Spending
  <2>3. /\ slots' \in [Clients -> Nat] /\ Counted'
        /\ conn' \in [Conns -> Connection]
    BY <1>1, <2>1, <2>2, SlotsPreserved DEF Slots
  <2>4. /\ Cardinality(Spenders) \in Nat
        /\ Cardinality(Spenders') = Cardinality(Spenders) - 1
    BY <1>1, <2>1, <2>2, SpendersMove
  <2>5. IPTVStopsAtItsCap'
    <3>1. used["iptv"] + 2 * Cardinality(Spenders) < IPTVCap + 2 * Global
      BY DEF BridgeInvariant, IPTVStopsAtItsCap, Spenders
    <3>2. used'["iptv"] + 2 * Cardinality(Spenders') < IPTVCap + 2 * Global
      BY <1>3, <2>4, <3>1, Caps
    <3> QED BY <3>2 DEF IPTVStopsAtItsCap, Spenders
  <2>6. BridgeTypeOK'
    BY <1>1, <1>3, <2>3 DEF BridgeTypeOK, Connection
  <2> QED BY <1>3, <2>3, <2>5, <2>6 DEF BridgeInvariant, SavedIsBounded
<1>5. CASE used'["iptv"] < IPTVCap
  <2>1. UNCHANGED <<conn, slots>>
    BY <1>3, <1>5, Caps DEF StreamChunk
  <2>2. BridgeTypeOK'
    BY <1>1, <1>3, <2>1 DEF BridgeTypeOK
  <2>3. Cardinality(Spenders') \in Nat /\ Cardinality(Spenders') <= Global
    <3>1. Cardinality(Spenders') \in Nat
      BY PartsOfConnsCount DEF Spenders
    <3> QED BY <1>1, <2>1, <3>1, CountedStays, SpendersHoldSlots
  <2>4. IPTVStopsAtItsCap'
    BY <1>3, <1>5, <2>3, Caps DEF IPTVStopsAtItsCap, Spenders
  <2> QED BY <1>1, <1>3, <2>1, <2>2, <2>4, CountedStays DEF BridgeInvariant, SavedIsBounded
<1> QED BY <1>3, <1>4, <1>5, Caps

LEMMA PageReadPreserves ==
    ASSUME BridgeInvariant, NEW c \in Conns, PageRead(c)
    PROVE  BridgeInvariant'
<1>1. BridgeTypeOK /\ Counted
  BY DEF BridgeInvariant
<1>2. conn[c].at = "fetch" /\ Spend({"iptv"}, 1) /\ Handler(c, Closed) /\ Release(c)
  BY DEF PageRead, Return
<1>3. /\ used' \in [Budgets -> Nat] /\ used'["iptv"] = used["iptv"] + 1
      /\ used["iptv"] \in Nat /\ UNCHANGED <<counted, saved, month, starts>>
  BY <1>1, <1>2, Spent, Caps
<1>4. Closed \in Connection /\ ~Holds(Closed) /\ Holds(conn[c]) /\ Closed.at \notin Spending
      /\ conn[c].at \in Spending
  BY <1>1, <1>2, StatesAreConnections DEF Holds, Spending
<1>5. /\ slots' \in [Clients -> Nat] /\ Counted'
      /\ conn' \in [Conns -> Connection]
  BY <1>1, <1>2, <1>4, SlotsPreserved DEF Slots
<1>6. /\ Cardinality(Spenders) \in Nat
      /\ Cardinality(Spenders') = Cardinality(Spenders) - 1
  BY <1>1, <1>2, <1>4, SpendersMove
<1>7. IPTVStopsAtItsCap'
  <2>1. used["iptv"] + 2 * Cardinality(Spenders) < IPTVCap + 2 * Global
    BY DEF BridgeInvariant, IPTVStopsAtItsCap, Spenders
  <2>2. used'["iptv"] + 2 * Cardinality(Spenders') < IPTVCap + 2 * Global
    BY <1>3, <1>6, <2>1, Caps
  <2> QED BY <2>2 DEF IPTVStopsAtItsCap, Spenders
<1>8. BridgeTypeOK'
  BY <1>1, <1>3, <1>5 DEF BridgeTypeOK, Connection
<1> QED BY <1>3, <1>5, <1>7, <1>8 DEF BridgeInvariant, SavedIsBounded

-----------------------------------------------------------------------------
(* The ledgers.                                                            *)

LEMMA PersistTickPreserves ==
    ASSUME BridgeInvariant, NEW b \in Budgets, PersistTick(b)
    PROVE  BridgeInvariant'
<1> DEFINE left == IF counted[b] = month THEN used[b] ELSE 0
<1>1. /\ BridgeTypeOK /\ Counted /\ "iptv" \in Budgets
      /\ used \in [Budgets -> Nat] /\ counted \in [Budgets -> Nat]
      /\ saved \in [Budgets -> [month : Nat, used : Nat]] /\ month \in Nat
  BY Caps DEF BridgeInvariant, BridgeTypeOK
<1>2. /\ used' = [used EXCEPT ![b] = left] /\ counted' = [counted EXCEPT ![b] = month]
      /\ \/ saved' = [saved EXCEPT ![b] = [month |-> month, used |-> left]]
         \/ saved' = saved
      /\ UNCHANGED <<conn, slots, month, starts>>
  BY DEF PersistTick
<1>3. left \in Nat /\ left <= used[b]
  BY <1>1
<1> HIDE DEF left
<1>4. /\ used' \in [Budgets -> Nat] /\ counted' \in [Budgets -> Nat]
      /\ saved' \in [Budgets -> [month : Nat, used : Nat]]
  BY <1>1, <1>2, <1>3
<1>5. /\ used'["iptv"] <= used["iptv"] /\ used'["iptv"] \in Nat /\ used["iptv"] \in Nat
  BY <1>1, <1>2, <1>3
<1>6. saved'["iptv"].used = saved["iptv"].used \/ saved'["iptv"].used <= used["iptv"]
  BY <1>1, <1>2, <1>3
<1>7. saved'["iptv"].used \in Nat
  BY <1>1, <1>4
<1>8. /\ Cardinality(Spenders) \in Nat
      /\ used["iptv"] + 2 * Cardinality(Spenders) < IPTVCap + 2 * Global
  BY PartsOfConnsCount DEF Spenders, BridgeInvariant, IPTVStopsAtItsCap
<1>9. IPTVStopsAtItsCap'
  <2>1. used'["iptv"] + 2 * Cardinality(Spenders) < IPTVCap + 2 * Global
    BY <1>5, <1>8, Caps
  <2> QED BY <1>2, <2>1 DEF IPTVStopsAtItsCap, Spenders
<1>10. SavedIsBounded'
  <2>1. saved["iptv"].used < IPTVCap + 2 * Global
    BY DEF BridgeInvariant, SavedIsBounded
  <2>2. saved'["iptv"].used < IPTVCap + 2 * Global
    BY <1>5, <1>6, <1>7, <1>8, <2>1, Caps
  <2> QED BY <2>2 DEF SavedIsBounded
<1>11. BridgeTypeOK'
  BY <1>1, <1>2, <1>4 DEF BridgeTypeOK
<1> QED BY <1>1, <1>2, <1>9, <1>10, <1>11, CountedStays DEF BridgeInvariant

LEMMA BridgeRestartPreserves ==
    ASSUME BridgeInvariant, NEW written \in SUBSET Budgets, BridgeRestart(written)
    PROVE  BridgeInvariant'
<1> DEFINE files == [b \in Budgets |-> IF b \in written
                       THEN [month |-> counted[b], used |-> used[b]] ELSE saved[b]]
<1>1. /\ BridgeTypeOK /\ "iptv" \in Budgets
      /\ used \in [Budgets -> Nat] /\ counted \in [Budgets -> Nat]
      /\ saved \in [Budgets -> [month : Nat, used : Nat]]
      /\ month \in Nat /\ starts \in Nat
  BY Caps DEF BridgeInvariant, BridgeTypeOK
<1>2. /\ saved' = files /\ used' = [b \in Budgets |-> Load(files[b])]
      /\ counted' = [b \in Budgets |-> month] /\ starts' = starts + 1
      /\ conn' = [c \in Conns |-> Closed] /\ slots' = [a \in Clients |-> 0]
      /\ month' = month
  BY DEF BridgeRestart
<1>3. files \in [Budgets -> [month : Nat, used : Nat]]
  BY <1>1
<1>4. files["iptv"].used = used["iptv"] \/ files["iptv"].used = saved["iptv"].used
  BY <1>1
<1> HIDE DEF files
<1>5. \A b \in Budgets : Load(files[b]) \in {files[b].used, 0}
  BY DEF Load
<1>6. used' \in [Budgets -> Nat] /\ used'["iptv"] \in {files["iptv"].used, 0}
  <2>1. ASSUME NEW b \in Budgets PROVE Load(files[b]) \in Nat
    <3>1. files[b].used \in Nat
      BY <1>3
    <3> QED BY <1>5, <3>1
  <2>2. used' \in [Budgets -> Nat]
    BY <1>2, <2>1
  <2>3. used'["iptv"] = Load(files["iptv"])
    BY <1>1, <1>2
  <2> QED BY <1>1, <1>5, <2>2, <2>3
<1>7. /\ Cardinality(Spenders) \in Nat
      /\ used["iptv"] + 2 * Cardinality(Spenders) < IPTVCap + 2 * Global
      /\ saved["iptv"].used < IPTVCap + 2 * Global
      /\ used["iptv"] \in Nat
  BY <1>1, PartsOfConnsCount
     DEF Spenders, BridgeInvariant, IPTVStopsAtItsCap, SavedIsBounded
<1>8. files["iptv"].used < IPTVCap + 2 * Global
  BY <1>4, <1>7, Caps
<1>9. SavedIsBounded'
  BY <1>2, <1>8 DEF SavedIsBounded
<1>10. Spenders' = {} /\ \A a \in Clients : Holders(a)' = {}
  BY <1>2 DEF Spenders, Holders, Closed, Spending
<1>11. IPTVStopsAtItsCap'
  <2>1. Cardinality(Spenders') = 0
    BY <1>10, FS_EmptySet
  <2>2. used'["iptv"] + 2 * 0 < IPTVCap + 2 * Global
    BY <1>3, <1>1, <1>6, <1>8, Caps
  <2> QED BY <2>1, <2>2 DEF IPTVStopsAtItsCap, Spenders
<1>12. Counted'
  <2>1. \A a \in Clients : Cardinality(Holders(a))' = 0
    BY <1>10, FS_EmptySet
  <2>2. AddressesAccounted'
    BY <1>2, <2>1, Caps DEF AddressesAccounted
  <2>3. TakenSlots' = {} /\ Open' = {}
    BY <1>2 DEF TakenSlots, Open, Holds, Closed
  <2>4. SumIsOpen'
    BY <2>3, FS_EmptySet, Caps DEF SumIsOpen, AllSlots
  <2> QED BY <2>2, <2>4 DEF Counted
<1>13. conn' \in [Conns -> Connection]
  BY <1>2 DEF Closed, Connection, Places
<1>14. BridgeTypeOK'
  BY <1>1, <1>2, <1>3, <1>6, <1>13 DEF BridgeTypeOK, Connection
<1> QED BY <1>9, <1>11, <1>12, <1>14 DEF BridgeInvariant

LEMMA MonthPassesPreserves ==
    ASSUME BridgeInvariant, MonthPasses
    PROVE  BridgeInvariant'
<1>1. month' = month + 1 /\ UNCHANGED <<conn, slots, used, counted, saved, starts>>
  BY DEF MonthPasses
<1>2. BridgeTypeOK'
  BY <1>1 DEF BridgeInvariant, BridgeTypeOK
<1> QED BY <1>1, <1>2, CountedStays DEF BridgeInvariant, IPTVStopsAtItsCap, SavedIsBounded

-----------------------------------------------------------------------------
LEMMA BridgeInitial == BridgeInit => BridgeInvariant
<1> SUFFICES ASSUME BridgeInit PROVE BridgeInvariant
  OBVIOUS
<1>1. BridgeTypeOK
  BY Caps DEF BridgeInit, BridgeTypeOK, Closed, Places
<1>2. Spenders = {} /\ \A a \in Clients : Holders(a) = {}
  BY DEF BridgeInit, Spenders, Holders, Closed, Spending
<1>3. Counted
  <2>1. \A a \in Clients : Cardinality(Holders(a)) = 0 /\ slots[a] = 0
    BY <1>2, FS_EmptySet DEF BridgeInit
  <2>2. AddressesAccounted
    BY <2>1, Caps DEF AddressesAccounted
  <2>3. TakenSlots = {} /\ Open = {}
    BY <2>1 DEF TakenSlots, Open, Holds, Closed, BridgeInit
  <2>4. SumIsOpen
    BY <2>3, FS_EmptySet, Caps DEF SumIsOpen, AllSlots
  <2> QED BY <2>2, <2>4 DEF Counted
<1>4. IPTVStopsAtItsCap /\ SavedIsBounded
  <2>1. Cardinality(Spenders) = 0 /\ used["iptv"] = 0 /\ saved["iptv"].used = 0
    BY <1>2, FS_EmptySet, Caps DEF BridgeInit
  <2> QED BY <2>1, Caps DEF IPTVStopsAtItsCap, SavedIsBounded, Spenders
<1> QED BY <1>1, <1>3, <1>4 DEF BridgeInvariant

LEMMA BridgeStepPreserves == BridgeInvariant /\ [BridgeNext]_bridgeVars => BridgeInvariant'
<1> SUFFICES ASSUME BridgeInvariant, [BridgeNext]_bridgeVars PROVE BridgeInvariant'
  OBVIOUS
<1>1. ASSUME NEW c \in Conns, ConnStep(c) PROVE BridgeInvariant'
  BY <1>1, SocketsPreserve, HalvesPreserve, FetchOpensPreserves, RelayChunksPreserve,
     StreamChunkPreserves, PageReadPreserves DEF ConnStep
<1>2. CASE UNCHANGED bridgeVars
  <2>1. UNCHANGED <<conn, slots, used, counted, saved, month, starts>>
    BY <1>2 DEF bridgeVars
  <2> QED BY <2>1, CountedStays
          DEF BridgeInvariant, BridgeTypeOK, IPTVStopsAtItsCap, SavedIsBounded
<1> QED BY <1>1, <1>2, MonthPassesPreserves, PersistTickPreserves, BridgeRestartPreserves
        DEF BridgeNext

-----------------------------------------------------------------------------
\* The bridge in every reachable state: types, the slots of each address (acquire
\* and release), the sub-budget and what was saved of it (budget.go).
THEOREM BridgeInvariantHolds == BridgeSpec => []BridgeInvariant
BY BridgeInitial, BridgeStepPreserves, PTL DEF BridgeSpec

\* For any number of requests and any limits, and after any restart, the IPTV
\* sub-budget is overdrawn by less than one last chunk of each stream or page that
\* the service's limit lets be open at once (copyIPTV).
THEOREM StreamsStopAtTheirCap == BridgeSpec => []IPTVStopsAtItsCap
<1>1. BridgeInvariant => IPTVStopsAtItsCap
  BY DEF BridgeInvariant
<1> QED BY <1>1, BridgeInvariantHolds, PTL

\* No path through the four handlers leaks a slot or gives one back twice: an
\* address holds as many slots as it has connections open, no more than its
\* limit, and all of them together no more than the service's (acquire, release).
THEOREM SlotsAreConnections == BridgeSpec => []SlotsAccounted
<1>1. BridgeInvariant => SlotsAccounted
  <2> SUFFICES ASSUME BridgeInvariant PROVE SlotsAccounted
    OBVIOUS
  <2>1. UNION {Holders(a) : a \in Clients} = Open
    BY DEF Holders, Open, Holds, Clients
  <2> QED BY <2>1 DEF BridgeInvariant, Counted, SumIsOpen, SlotsAccounted
<1> QED BY <1>1, BridgeInvariantHolds, PTL

-----------------------------------------------------------------------------
(* The link resolver: what is kept and held has its type, a link a visitor *)
(* holds is not much older than the time it has been held, and the gate    *)
(* counts the downloads there are.                                         *)

\* The one file an answer may select.
Files == {NoFile} \cup
    {{r} : r \in UNION {Best(rows) : rows \in
                 UNION {Pairings({f \in offered : Medium(f)}) : offered \in SUBSET Formats}}}

Bucket == [tokens : 0..Burst, idle : 0..(Forget + 1)]
KeptAnswer == [age : Ages, file : Files]

\* A link was AnswerTTL old at most when it was handed out.
HeldLink == {l \in [age : Ages, held : Ages, key : 0..MaxKeys, file : Files] :
                l.age <= l.held + AnswerTTL}

Visit == [at : {"idle", "probing", "sizing"} \cup Streams, link : Links \cup {Idle.link},
          before : 0..MaxRefusals, told : {"nothing", "blocked", "broken"}, has : HeldLink]

LinkTypes ==
    /\ buckets \in [Addresses -> Bucket]
    /\ kept \in [Links -> KeptAnswer]
    /\ refusals \in 0..MaxRefusals /\ glance \in 0..MaxRefusals /\ key \in 1..MaxKeys

GateCounts ==
    \A a \in Addresses : gate[a] = Cardinality(Downloads(a)) /\ gate[a] <= PerSurfer

LinkInvariant ==
    /\ LinkTypes /\ surfer \in [Surfers -> Visit]
    /\ gate \in [Addresses -> Nat] /\ GateCounts

LEMMA LinkLimits ==
    /\ IsFiniteSet(Surfers)
    /\ \A s \in Surfers : SurferIP[s] \in Addresses
    /\ {Burst, Forget, AnswerTTL, TokenTTL, PerSurfer, MaxRefusals, MaxKeys} \subseteq Nat \ {0}
BY LinkAssumption DEF Addresses

LEMMA FilesAreSingle ==
    /\ NoFile \in Files
    /\ \A file \in Files : IsFiniteSet(file) /\ Cardinality(file) <= 1
<1>1. NoFile \in Files /\ \A file \in Files : file = {} \/ \E r : file = {r}
  BY DEF Files, NoFile
<1>2. ASSUME NEW file \in Files PROVE IsFiniteSet(file) /\ Cardinality(file) <= 1
  <2>1. CASE file = {}
    BY <2>1, FS_EmptySet
  <2>2. ASSUME NEW r, file = {r} PROVE IsFiniteSet(file) /\ Cardinality(file) <= 1
    <3>1. IsFiniteSet({r}) /\ Cardinality({r}) = 1
      BY FS_Singleton
    <3> QED BY <2>2, <3>1
  <2> QED BY <1>1, <2>1, <2>2
<1> QED BY <1>1, <1>2

LEMMA LinkStates ==
    /\ NoLink \in HeldLink /\ NoAnswer \in KeptAnswer /\ NoBucket \in Bucket
    /\ Idle \in Visit /\ Idle.at = "idle" /\ Idle.at \notin Streams
    /\ \A age \in Ages : Older(age) \in Ages /\ 0 \in Ages
<1>1. NoLink \in HeldLink /\ NoAnswer \in KeptAnswer /\ NoBucket \in Bucket
  BY LinkLimits, FilesAreSingle DEF NoLink, HeldLink, NoAnswer, KeptAnswer, NoBucket, Bucket, Ages
<1>2. Idle \in Visit /\ Idle.at = "idle" /\ Idle.at \notin Streams
  BY <1>1, LinkLimits DEF Idle, Visit, Streams
<1>3. \A age \in Ages : Older(age) \in Ages /\ 0 \in Ages
  BY LinkLimits DEF Older, Least, Ages
<1> QED BY <1>1, <1>2, <1>3

\* The states a handler leaves a visit in.
LEMMA VisitStates ==
    ASSUME NEW v \in Visit
    PROVE  /\ [Idle EXCEPT !.has = v.has] \in Visit /\ [Idle EXCEPT !.has = v.has].at = "idle"
           /\ \A what \in {"blocked", "broken"} : /\ [Idle EXCEPT !.told = what] \in Visit
                                                  /\ [Idle EXCEPT !.told = what].at = "idle"
           /\ \A p \in {"idle", "probing", "sizing"} \cup Streams :
                 [v EXCEPT !.at = p] \in Visit /\ [v EXCEPT !.at = p].at = p
           /\ v.has \in HeldLink /\ v.link \in Links \cup {Idle.link}
<1>1. /\ v.has \in HeldLink /\ v.link \in Links \cup {Idle.link}
      /\ \A p \in {"idle", "probing", "sizing"} \cup Streams :
                 [v EXCEPT !.at = p] \in Visit /\ [v EXCEPT !.at = p].at = p
  BY DEF Visit
<1>2. PICK i \in Visit : i = Idle /\ i.at = "idle"
  BY LinkStates
<1>3. /\ [i EXCEPT !.has = v.has] \in Visit /\ [i EXCEPT !.has = v.has].at = "idle"
      /\ \A what \in {"blocked", "broken"} : /\ [i EXCEPT !.told = what] \in Visit
                                             /\ [i EXCEPT !.told = what].at = "idle"
  BY <1>1, <1>2 DEF Visit
<1> QED BY <1>1, <1>2, <1>3

-----------------------------------------------------------------------------
(* The gate.                                                               *)

LEMMA DownloadsCount ==
    ASSUME NEW a \in Addresses
    PROVE  IsFiniteSet(Downloads(a)) /\ Cardinality(Downloads(a)) \in Nat
<1>1. Downloads(a) \subseteq Surfers
  BY DEF Downloads
<1> QED BY <1>1, LinkLimits, FS_Subset, FS_CardinalityType

LEMMA VisitMoves ==
    ASSUME LinkInvariant, NEW s \in Surfers, NEW v \in Visit, Moves(s, v),
           \/ gate' = gate /\ (surfer[s].at \in Streams <=> v.at \in Streams)
           \/ /\ surfer[s].at \notin Streams /\ v.at \in Streams /\ GateOpen(SurferIP[s])
              /\ gate' = [gate EXCEPT ![SurferIP[s]] = @ + 1]
           \/ /\ surfer[s].at \in Streams /\ v.at \notin Streams
              /\ gate' = [gate EXCEPT ![SurferIP[s]] = Leave(SurferIP[s])],
           LinkTypes'
    PROVE  LinkInvariant'
<1>1. PICK ip \in Addresses : ip = SurferIP[s]
  BY LinkLimits
<1>2. /\ surfer \in [Surfers -> Visit] /\ surfer' = [surfer EXCEPT ![s] = v]
      /\ gate \in [Addresses -> Nat] /\ GateCounts
  BY DEF LinkInvariant, Moves
<1>3. surfer' \in [Surfers -> Visit]
  BY <1>2
<1>4. CASE gate' = gate /\ (surfer[s].at \in Streams <=> v.at \in Streams)
  <2>1. \A a \in Addresses : Downloads(a)' = Downloads(a)
    BY <1>2, <1>4 DEF Downloads
  <2> QED BY <1>2, <1>3, <1>4, <2>1 DEF LinkInvariant, GateCounts
<1>5. CASE /\ surfer[s].at \notin Streams /\ v.at \in Streams /\ GateOpen(SurferIP[s])
           /\ gate' = [gate EXCEPT ![SurferIP[s]] = @ + 1]
  <2>1. \A a \in Addresses : Downloads(a)' = IF a = ip THEN Downloads(a) \cup {s} ELSE Downloads(a)
    BY <1>1, <1>2, <1>5 DEF Downloads
  <2>2. s \notin Downloads(ip) /\ gate[ip] < PerSurfer
    BY <1>1, <1>5 DEF Downloads, GateOpen
  <2>3. ASSUME NEW a \in Addresses
        PROVE  gate'[a] \in Nat /\ gate'[a] = Cardinality(Downloads(a))' /\ gate'[a] <= PerSurfer
    <3>1. gate'[a] = IF a = ip THEN gate[a] + 1 ELSE gate[a]
      BY <1>1, <1>2, <1>5
    <3>2. gate[a] \in Nat /\ gate[a] = Cardinality(Downloads(a)) /\ gate[a] <= PerSurfer
      BY <1>2 DEF GateCounts
    <3>3. a = ip => Cardinality(Downloads(a) \cup {s}) = Cardinality(Downloads(a)) + 1
      BY <2>2, DownloadsCount, FS_AddElement
    <3> QED BY <2>1, <2>2, <3>1, <3>2, <3>3, LinkLimits
  <2>4. gate' \in [Addresses -> Nat]
    BY <1>2, <1>5, <2>3
  <2> QED BY <1>3, <2>3, <2>4 DEF LinkInvariant, GateCounts
<1>6. CASE /\ surfer[s].at \in Streams /\ v.at \notin Streams
           /\ gate' = [gate EXCEPT ![SurferIP[s]] = Leave(SurferIP[s])]
  <2>1. \A a \in Addresses : Downloads(a)' = IF a = ip THEN Downloads(a) \ {s} ELSE Downloads(a)
    BY <1>1, <1>2, <1>6 DEF Downloads
  <2>2. s \in Downloads(ip)
    BY <1>1, <1>6 DEF Downloads
  <2>3. ASSUME NEW a \in Addresses
        PROVE  gate'[a] \in Nat /\ gate'[a] = Cardinality(Downloads(a))' /\ gate'[a] <= PerSurfer
    <3>1. gate'[a] = IF a = ip THEN Leave(ip) ELSE gate[a]
      BY <1>1, <1>2, <1>6
    <3>2. gate[a] \in Nat /\ gate[a] = Cardinality(Downloads(a)) /\ gate[a] <= PerSurfer
      BY <1>2 DEF GateCounts
    <3>3. a = ip => /\ Cardinality(Downloads(a) \ {s}) = Cardinality(Downloads(a)) - 1
                    /\ Cardinality(Downloads(a) \ {s}) \in Nat
      BY <2>2, DownloadsCount, FS_RemoveElement, FS_CardinalityType
    <3>4. CASE a = ip
      <4>1. Cardinality(Downloads(a))' = gate[a] - 1 /\ gate[a] - 1 \in Nat
        BY <2>1, <3>2, <3>3, <3>4
      <4>2. gate'[a] = gate[a] - 1
        BY <3>1, <3>2, <3>4, <4>1 DEF Leave
      <4> QED BY <3>2, <4>1, <4>2, LinkLimits
    <3>5. CASE a # ip
      BY <2>1, <3>1, <3>2, <3>5
    <3> QED BY <3>4, <3>5
  <2>4. gate' \in [Addresses -> Nat]
    BY <1>2, <1>6, <2>3
  <2> QED BY <1>3, <2>3, <2>4 DEF LinkInvariant, GateCounts
<1> QED BY <1>4, <1>5, <1>6

\* Nobody moves, and the gate stays.
LEMMA VisitsStay ==
    ASSUME LinkInvariant, UNCHANGED <<surfer, gate>>, LinkTypes'
    PROVE  LinkInvariant'
BY DEF LinkInvariant, GateCounts, Downloads

-----------------------------------------------------------------------------
(* /api/link/resolve.                                                      *)

LEMMA PaysIsTyped ==
    ASSUME LinkInvariant, NEW s \in Surfers, Allowed(s), Pays(s)
    PROVE  buckets' \in [Addresses -> Bucket]
<1>1. PICK ip \in Addresses : ip = SurferIP[s]
  BY LinkLimits
<1>2. buckets \in [Addresses -> Bucket] /\ buckets[ip] \in Bucket
  BY DEF LinkInvariant, LinkTypes
<1>3. Refilled(ip) \in 1..Burst
  BY <1>1, <1>2, LinkLimits DEF Allowed, Refilled, Least, Bucket
<1>4. [tokens |-> Refilled(ip) - 1, idle |-> 0] \in Bucket
  BY <1>3, LinkLimits DEF Bucket
<1> QED BY <1>1, <1>2, <1>4 DEF Pays

\* A visitor is handed a file with the age it has in the cache.
LEMMA HoldingIsAVisit ==
    ASSUME LinkInvariant, NEW s \in Surfers, NEW age \in Ages, NEW file \in Files,
           age <= AnswerTTL, Holding(s, age, file)
    PROVE  \E v \in Visit : v.at = "idle" /\ Moves(s, v)
<1>1. CASE file = NoFile
  BY <1>1, LinkStates DEF Holding
<1>2. CASE file # NoFile
  <2>1. PICK l : l = [age |-> age, held |-> 0, key |-> key, file |-> file]
    OBVIOUS
  <2>2. l \in HeldLink
    <3>1. key \in 0..MaxKeys /\ 0 \in Ages /\ age \in Nat /\ AnswerTTL \in Nat
      BY LinkLimits, LinkStates DEF LinkInvariant, LinkTypes, Ages
    <3> QED BY <2>1, <3>1 DEF HeldLink
  <2>3. PICK i \in Visit : i = Idle /\ i.at = "idle"
    BY LinkStates
  <2>4. [i EXCEPT !.has = l] \in Visit /\ [i EXCEPT !.has = l].at = "idle"
    BY <2>2, <2>3 DEF Visit
  <2> QED BY <1>2, <2>1, <2>3, <2>4 DEF Holding
<1> QED BY <1>1, <1>2

LEMMA AsksKeep ==
    ASSUME LinkInvariant, NEW s \in Surfers,
           \/ RateLimited(s) \/ MusicLink(s)
           \/ \E p \in Links : LinkBlocked(s, p) \/ ServeKept(s, p) \/ StartProbe(s, p)
    PROVE  LinkInvariant'
<1>1. LinkTypes /\ surfer[s] \in Visit
  BY DEF LinkInvariant
<1>2. "idle" \notin Streams /\ "probing" \notin Streams
  BY DEF Streams
<1>3. CASE RateLimited(s)
  <2>1. /\ Moves(s, [Idle EXCEPT !.has = surfer[s].has]) /\ surfer[s].at = "idle"
        /\ UNCHANGED <<buckets, kept, gate, guard, key>>
    BY <1>3 DEF RateLimited, Rests
  <2>2. LinkTypes'
    BY <1>1, <2>1 DEF LinkTypes, guard
  <2> QED BY <1>1, <1>2, <2>1, <2>2, VisitStates, VisitMoves
<1>4. CASE MusicLink(s)
  <2>1. /\ Moves(s, Idle) /\ surfer[s].at = "idle" /\ Allowed(s) /\ Pays(s)
        /\ UNCHANGED <<kept, gate, guard, key>>
    BY <1>4 DEF MusicLink
  <2>2. LinkTypes'
    BY <1>1, <2>1, PaysIsTyped DEF LinkTypes, guard
  <2> QED BY <1>1, <1>2, <2>1, <2>2, LinkStates, VisitMoves
<1>5. ASSUME NEW p \in Links, LinkBlocked(s, p) PROVE LinkInvariant'
  <2>1. /\ Moves(s, [Idle EXCEPT !.told = "blocked"]) /\ surfer[s].at = "idle"
        /\ Allowed(s) /\ Pays(s) /\ UNCHANGED <<kept, gate, guard, key>>
    BY <1>5 DEF LinkBlocked, Tells
  <2>2. LinkTypes'
    BY <1>1, <2>1, PaysIsTyped DEF LinkTypes, guard
  <2> QED BY <1>1, <1>2, <2>1, <2>2, VisitStates, VisitMoves
<1>6. ASSUME NEW p \in Links, ServeKept(s, p) PROVE LinkInvariant'
  <2>1. /\ Holding(s, kept[p].age, kept[p].file) /\ surfer[s].at = "idle"
        /\ Allowed(s) /\ Pays(s) /\ kept[p].age <= AnswerTTL
        /\ UNCHANGED <<kept, gate, guard, key>>
    BY <1>6 DEF ServeKept, Fresh
  <2>2. kept[p].age \in Ages /\ kept[p].file \in Files
    BY <1>1 DEF LinkTypes, KeptAnswer
  <2>3. LinkTypes'
    BY <1>1, <2>1, PaysIsTyped DEF LinkTypes, guard
  <2>4. PICK v \in Visit : v.at = "idle" /\ Moves(s, v)
    BY <2>1, <2>2, HoldingIsAVisit
  <2> QED BY <1>1, <1>2, <2>1, <2>3, <2>4, VisitMoves
<1>7. ASSUME NEW p \in Links, StartProbe(s, p) PROVE LinkInvariant'
  <2>1. PICK n \in 0..MaxRefusals :
            /\ Reads(n) /\ Moves(s, [Idle EXCEPT !.at = "probing", !.link = p, !.before = n])
    BY <1>7 DEF StartProbe
  <2>2. /\ surfer[s].at = "idle" /\ Allowed(s) /\ Pays(s) /\ glance' = n
        /\ UNCHANGED <<kept, gate, refusals, key>>
    BY <1>7, <2>1 DEF StartProbe, Reads
  <2>3. LinkTypes'
    BY <1>1, <2>2, PaysIsTyped DEF LinkTypes
  <2>4. PICK i \in Visit : i = Idle
    BY LinkStates
  <2>5. PICK v : v = [i EXCEPT !.at = "probing", !.link = p, !.before = n]
    OBVIOUS
  <2>6. v \in Visit /\ v.at = "probing" /\ Moves(s, v)
    BY <2>1, <2>4, <2>5 DEF Visit
  <2> QED BY <1>1, <1>2, <2>2, <2>3, <2>6, VisitMoves
<1> QED BY <1>3, <1>4, <1>5, <1>6, <1>7

LEMMA ProbesKeep ==
    ASSUME LinkInvariant, NEW s \in Surfers, EgressRefuses(s) \/ ProbeFails(s) \/ ProbeReads(s)
    PROVE  LinkInvariant'
<1>1. LinkTypes /\ surfer[s] \in Visit
  BY DEF LinkInvariant
<1>2. "idle" \notin Streams /\ "probing" \notin Streams /\ "sizing" \notin Streams
  BY DEF Streams
<1>3. CASE EgressRefuses(s)
  <2>1. LinkTypes'
    BY <1>1, <1>3, LinkLimits DEF EgressRefuses, LinkTypes
  <2> QED BY <1>3, <2>1, VisitsStay DEF EgressRefuses
<1>4. CASE ProbeFails(s)
  <2>1. PICK n \in 0..MaxRefusals :
            Reads(n) /\ Tells(s, IF n > surfer[s].before THEN "blocked" ELSE "broken")
    BY <1>4 DEF ProbeFails
  <2>2. PICK what \in {"blocked", "broken"} : Moves(s, [Idle EXCEPT !.told = what])
    BY <2>1 DEF Tells
  <2>3. surfer[s].at = "probing" /\ glance' = n /\ UNCHANGED <<buckets, kept, gate, refusals, key>>
    BY <1>4, <2>1 DEF ProbeFails, Reads
  <2>4. LinkTypes'
    BY <1>1, <2>3 DEF LinkTypes
  <2> QED BY <1>1, <1>2, <2>2, <2>3, <2>4, VisitStates, VisitMoves
<1>5. CASE ProbeReads(s)
  <2>1. /\ surfer[s].at = "probing" /\ UNCHANGED <<buckets, kept, gate, guard, key>>
        /\ Moves(s, [Idle EXCEPT !.at = "sizing", !.link = surfer[s].link])
    BY <1>5 DEF ProbeReads
  <2>2. LinkTypes'
    BY <1>1, <2>1 DEF LinkTypes, guard
  <2>3. PICK i \in Visit : i = Idle
    BY LinkStates
  <2>4. PICK v : v = [i EXCEPT !.at = "sizing", !.link = surfer[s].link]
    OBVIOUS
  <2>5. v \in Visit /\ v.at = "sizing" /\ Moves(s, v)
    BY <1>1, <2>1, <2>3, <2>4, VisitStates DEF Visit
  <2> QED BY <1>1, <1>2, <2>1, <2>2, <2>5, VisitMoves
<1> QED BY <1>3, <1>4, <1>5

LEMMA AnswersKeep ==
    ASSUME LinkInvariant, NEW s \in Surfers, AnswerCollection(s) \/ AnswerFormats(s)
    PROVE  LinkInvariant'
<1>1. LinkTypes /\ surfer[s] \in Visit /\ surfer[s].at = "sizing"
  BY DEF LinkInvariant, AnswerCollection, AnswerFormats
<1>2. PICK file \in Files : Answer(s, file)
  <2>1. CASE AnswerCollection(s)
    BY <2>1, FilesAreSingle DEF AnswerCollection
  <2>2. CASE AnswerFormats(s)
    <3>1. PICK offered \in SUBSET Formats :
            \E rows \in Pairings({f \in offered : Medium(f)}) :
                IF Best(rows) = {} THEN Answer(s, NoFile)
                ELSE \E r \in Best(rows) : Answer(s, {r})
      BY <2>2 DEF AnswerFormats
    <3>2. PICK rows \in Pairings({f \in offered : Medium(f)}) :
                IF Best(rows) = {} THEN Answer(s, NoFile)
                ELSE \E r \in Best(rows) : Answer(s, {r})
      BY <3>1
    <3>3. CASE Best(rows) = {}
      BY <3>2, <3>3, FilesAreSingle
    <3>4. CASE Best(rows) # {}
      <4>1. PICK r \in Best(rows) : Answer(s, {r})
        BY <3>2, <3>4
      <4>2. {r} \in Files
        BY <3>1, <3>2, <4>1 DEF Files
      <4> QED BY <4>1, <4>2
    <3> QED BY <3>3, <3>4
  <2> QED BY <2>1, <2>2
<1>3. /\ kept' = [kept EXCEPT ![surfer[s].link] = [age |-> 0, file |-> file]]
      /\ Holding(s, 0, file) /\ UNCHANGED <<buckets, gate, guard, key>>
  BY <1>2 DEF Answer
<1>4. 0 \in Ages /\ 0 <= AnswerTTL
  BY LinkLimits DEF Ages
<1>5. PICK v \in Visit : v.at = "idle" /\ Moves(s, v)
  BY <1>3, <1>4, HoldingIsAVisit
<1>6. LinkTypes'
  <2>1. [age |-> 0, file |-> file] \in KeptAnswer
    BY <1>4 DEF KeptAnswer
  <2> QED BY <1>1, <1>3, <2>1 DEF LinkTypes, guard
<1>7. "idle" \notin Streams /\ "sizing" \notin Streams
  BY DEF Streams
<1> QED BY <1>1, <1>3, <1>5, <1>6, <1>7, VisitMoves

-----------------------------------------------------------------------------
(* /api/link/media.                                                        *)

LEMMA DownloadsKeep ==
    ASSUME LinkInvariant, NEW s \in Surfers,
           \/ TokenRefused(s) \/ GateRefuses(s) \/ StartStream(s) \/ HandToResolver(s)
           \/ StreamOver(s)
    PROVE  LinkInvariant'
<1>1. LinkTypes /\ surfer[s] \in Visit
  BY DEF LinkInvariant
<1>2. "idle" \notin Streams /\ {"direct", "resolver", "muxing"} = Streams
  BY DEF Streams
<1>3. UNCHANGED <<buckets, kept, guard, key>> /\ LinkTypes'
  <2>1. UNCHANGED <<buckets, kept, guard, key>>
    BY DEF TokenRefused, GateRefuses, StartStream, HandToResolver, StreamOver
  <2> QED BY <1>1, <2>1 DEF LinkTypes, guard
<1>4. CASE TokenRefused(s) \/ GateRefuses(s)
  <2>1. /\ Moves(s, [Idle EXCEPT !.has = surfer[s].has]) /\ surfer[s].at = "idle"
        /\ UNCHANGED gate
    BY <1>4 DEF TokenRefused, GateRefuses, Rests, HasLink
  <2> QED BY <1>1, <1>2, <1>3, <2>1, VisitStates, VisitMoves
<1>5. CASE StartStream(s)
  <2>1. PICK r \in surfer[s].has.file :
            Moves(s, [surfer[s] EXCEPT !.at = IF Remuxed(r) THEN "muxing" ELSE "direct"])
    BY <1>5 DEF StartStream
  <2>2. PICK p \in Streams : p = IF Remuxed(r) THEN "muxing" ELSE "direct"
    BY <1>2
  <2>3. /\ surfer[s].at = "idle" /\ GateOpen(SurferIP[s])
        /\ gate' = [gate EXCEPT ![SurferIP[s]] = @ + 1]
    BY <1>5 DEF StartStream, HasLink
  <2>4. Moves(s, [surfer[s] EXCEPT !.at = p])
    BY <2>1, <2>2
  <2>5. PICK v \in Visit : Moves(s, v) /\ v.at = p
    BY <1>1, <2>4, VisitStates
  <2> QED BY <1>2, <1>3, <2>3, <2>5, VisitMoves
<1>6. CASE HandToResolver(s)
  <2>1. /\ surfer[s].at = "direct" /\ UNCHANGED gate
        /\ Moves(s, [surfer[s] EXCEPT !.at = "resolver"])
    BY <1>6 DEF HandToResolver, Moves
  <2>2. PICK v \in Visit : Moves(s, v) /\ v.at = "resolver"
    BY <1>1, <1>2, <2>1, VisitStates
  <2> QED BY <1>2, <1>3, <2>1, <2>2, VisitMoves
<1>7. CASE StreamOver(s)
  <2>1. /\ Moves(s, [Idle EXCEPT !.has = surfer[s].has]) /\ surfer[s].at \in Streams
        /\ gate' = [gate EXCEPT ![SurferIP[s]] = Leave(SurferIP[s])]
    BY <1>7 DEF StreamOver, Rests
  <2> QED BY <1>1, <1>2, <1>3, <2>1, VisitStates, VisitMoves
<1> QED BY <1>4, <1>5, <1>6, <1>7

-----------------------------------------------------------------------------
(* Time and restarts.                                                      *)

LEMMA AgeingKeepsLinks ==
    ASSUME NEW l \in HeldLink
    PROVE  Ageing(l) \in HeldLink
<1>1. CASE l = NoLink
  BY <1>1 DEF Ageing
<1>2. CASE l # NoLink
  <2>1. /\ l.age \in Nat /\ l.held \in Nat /\ l.age <= TokenTTL + 1 /\ l.held <= TokenTTL + 1
        /\ l.age <= l.held + AnswerTTL /\ AnswerTTL \in Nat /\ TokenTTL \in Nat
        /\ l.age \in Ages /\ l.held \in Ages
    BY LinkLimits DEF HeldLink, Ages
  <2>2. /\ Older(l.age) \in Ages /\ Older(l.held) \in Ages
        /\ Older(l.age) <= Older(l.held) + AnswerTTL
    BY <2>1 DEF Older, Least, Ages
  <2>3. Ageing(l) = [age |-> Older(l.age), held |-> Older(l.held), key |-> l.key, file |-> l.file]
    BY <1>2 DEF Ageing, HeldLink
  <2> QED BY <2>2, <2>3 DEF HeldLink
<1> QED BY <1>1, <1>2

LEMMA LinkTickKeeps ==
    ASSUME LinkInvariant, LinkTick
    PROVE  LinkInvariant'
<1>1. /\ LinkTypes /\ surfer \in [Surfers -> Visit]
      /\ UNCHANGED <<gate, refusals, glance, key>>
      /\ buckets' = [a \in Addresses |->
             IF buckets[a].idle >= Forget THEN NoBucket ELSE [buckets[a] EXCEPT !.idle = @ + 1]]
      /\ kept' = [p \in Links |-> [kept[p] EXCEPT !.age = Older(@)]]
      /\ surfer' = [s \in Surfers |-> [surfer[s] EXCEPT !.has = Ageing(@)]]
  BY DEF LinkInvariant, LinkTick, guard
<1>2. ASSUME NEW a \in Addresses
      PROVE  (IF buckets[a].idle >= Forget THEN NoBucket
              ELSE [buckets[a] EXCEPT !.idle = @ + 1]) \in Bucket
  <2>1. buckets[a] \in Bucket /\ Forget \in Nat
    BY <1>1, LinkLimits DEF LinkTypes
  <2> QED BY <2>1, LinkStates DEF Bucket
<1>3. ASSUME NEW p \in Links PROVE [kept[p] EXCEPT !.age = Older(@)] \in KeptAnswer
  <2>1. kept[p] \in KeptAnswer /\ Older(kept[p].age) \in Ages
    BY <1>1, LinkStates DEF LinkTypes, KeptAnswer
  <2> QED BY <2>1 DEF KeptAnswer
<1>4. LinkTypes'
  BY <1>1, <1>2, <1>3 DEF LinkTypes
<1>5. ASSUME NEW s \in Surfers
      PROVE  /\ [surfer[s] EXCEPT !.has = Ageing(@)] \in Visit
             /\ [surfer[s] EXCEPT !.has = Ageing(@)].at = surfer[s].at
  <2>1. surfer[s] \in Visit /\ Ageing(surfer[s].has) \in HeldLink
    BY <1>1, VisitStates, AgeingKeepsLinks
  <2> QED BY <2>1 DEF Visit
<1>6. surfer' \in [Surfers -> Visit] /\ \A s \in Surfers : surfer'[s].at = surfer[s].at
  BY <1>1, <1>5
<1>7. \A a \in Addresses : Downloads(a)' = Downloads(a)
  BY <1>6 DEF Downloads
<1> QED BY <1>1, <1>4, <1>6, <1>7 DEF LinkInvariant, GateCounts

LEMMA SweepKeeps ==
    ASSUME LinkInvariant, SweepAnswers
    PROVE  LinkInvariant'
<1>1. LinkTypes'
  BY LinkStates DEF LinkInvariant, LinkTypes, SweepAnswers, guard
<1> QED BY <1>1, VisitsStay DEF SweepAnswers

LEMMA NobodyDownloads ==
    ASSUME LinkTypes, surfer \in [Surfers -> Visit], gate = [a \in Addresses |-> 0],
           \A s \in Surfers : surfer[s].at = "idle"
    PROVE  LinkInvariant
<1>1. \A a \in Addresses : Downloads(a) = {}
  BY DEF Downloads, Streams
<1>2. GateCounts /\ gate \in [Addresses -> Nat]
  BY <1>1, FS_EmptySet, LinkLimits DEF GateCounts
<1> QED BY <1>2 DEF LinkInvariant

LEMMA LinkRestartKeeps ==
    ASSUME LinkInvariant, LinkRestart
    PROVE  LinkInvariant'
<1>1. /\ key < MaxKeys /\ key' = key + 1 /\ gate' = [a \in Addresses |-> 0]
      /\ buckets' = [a \in Addresses |-> NoBucket] /\ kept' = [p \in Links |-> NoAnswer]
      /\ surfer' = [s \in Surfers |-> [Idle EXCEPT !.has = surfer[s].has]]
      /\ refusals' = (IF Confined THEN refusals ELSE 0) /\ glance' = 0
      /\ LinkTypes /\ \A s \in Surfers : surfer[s] \in Visit
  BY DEF LinkRestart, LinkInvariant
<1>2. LinkTypes'
  BY <1>1, LinkStates, LinkLimits DEF LinkTypes
<1>3. /\ surfer' \in [Surfers -> Visit]
      /\ \A s \in Surfers : surfer'[s].at = "idle"
  BY <1>1, VisitStates
<1>4. \A a \in Addresses : Downloads(a)' = {}
  BY <1>3 DEF Downloads, Streams
<1>5. GateCounts' /\ gate' \in [Addresses -> Nat]
  <2>1. \A a \in Addresses : Cardinality(Downloads(a))' = 0
    BY <1>4, FS_EmptySet
  <2> QED BY <1>1, <2>1, LinkLimits DEF GateCounts
<1> QED BY <1>2, <1>3, <1>5 DEF LinkInvariant

LEMMA LinkInitially == LinkInit => LinkInvariant
<1> SUFFICES ASSUME LinkInit PROVE LinkInvariant
  OBVIOUS
<1>1. LinkTypes /\ surfer \in [Surfers -> Visit] /\ \A s \in Surfers : surfer[s].at = "idle"
  BY LinkStates, LinkLimits DEF LinkInit, LinkTypes
<1> QED BY <1>1, NobodyDownloads DEF LinkInit

LEMMA LinkStays == LinkInvariant /\ [LinkNext]_linkVars => LinkInvariant'
<1> SUFFICES ASSUME LinkInvariant, [LinkNext]_linkVars PROVE LinkInvariant'
  OBVIOUS
<1>1. ASSUME NEW s \in Surfers, SurferStep(s) PROVE LinkInvariant'
  BY <1>1, AsksKeep, ProbesKeep, AnswersKeep, DownloadsKeep DEF SurferStep
<1>2. CASE UNCHANGED linkVars
  <2>1. LinkTypes' /\ UNCHANGED <<surfer, gate>>
    BY <1>2 DEF LinkInvariant, LinkTypes, linkVars, guard
  <2> QED BY <2>1, VisitsStay
<1> QED BY <1>1, <1>2, LinkTickKeeps, SweepKeeps, LinkRestartKeeps DEF LinkNext

LEMMA LinkTypesFollow == LinkInvariant => LinkTypeOK /\ LinksOutliveTheirAnswer
<1> SUFFICES ASSUME LinkInvariant PROVE LinkTypeOK /\ LinksOutliveTheirAnswer
  OBVIOUS
<1>1. ASSUME NEW a \in Addresses
      PROVE  /\ buckets[a].tokens \in 0..Burst /\ buckets[a].idle \in 0..(Forget + 1)
             /\ gate[a] = Cardinality(Downloads(a)) /\ gate[a] <= PerSurfer
  BY DEF LinkInvariant, LinkTypes, Bucket, GateCounts
<1>2. ASSUME NEW p \in Links PROVE kept[p].age \in Ages
  BY DEF LinkInvariant, LinkTypes, KeptAnswer
<1>3. ASSUME NEW s \in Surfers
      PROVE  /\ surfer[s].at \in {"idle", "probing", "sizing"} \cup Streams
             /\ {surfer[s].has.age, surfer[s].has.held} \subseteq Ages
             /\ Cardinality(surfer[s].has.file) <= 1
             /\ surfer[s].has.held + AnswerTTL <= TokenTTL => surfer[s].has.age <= TokenTTL
  <2>1. /\ surfer[s].at \in {"idle", "probing", "sizing"} \cup Streams
        /\ surfer[s].has \in HeldLink
    BY DEF LinkInvariant, Visit
  <2>2. PICK l \in HeldLink : l = surfer[s].has
    BY <2>1
  <2>3. l.age \in Ages /\ l.held \in Ages /\ l.file \in Files /\ l.age <= l.held + AnswerTTL
    BY DEF HeldLink
  <2>4. l.held + AnswerTTL <= TokenTTL => l.age <= TokenTTL
    BY <2>3, LinkLimits DEF Ages
  <2> QED BY <2>1, <2>2, <2>3, <2>4, FilesAreSingle
<1>4. {refusals, glance} \subseteq 0..MaxRefusals /\ key \in 1..MaxKeys
  BY DEF LinkInvariant, LinkTypes
<1>5. LinkTypeOK
  BY <1>1, <1>2, <1>3, <1>4 DEF LinkTypeOK
<1>6. LinksOutliveTheirAnswer
  BY <1>3 DEF LinksOutliveTheirAnswer, Good
<1> QED BY <1>5, <1>6

\* An answer that is served from the cache carries links that were signed when it
\* was made: whatever is kept, swept and restarted in between, a visitor's links
\* work for the rest of the token's life but for the answer's (cached, openToken).
THEOREM HeldLinksStayGood == LinkSpec => []LinksOutliveTheirAnswer
<1>1. LinkSpec => []LinkInvariant
  BY LinkInitially, LinkStays, PTL DEF LinkSpec
<1> QED BY <1>1, LinkTypesFollow, PTL

-----------------------------------------------------------------------------
(* The three of them, as they are run.                                     *)

RelaysInvariant == GatewayInvariant /\ BridgeInvariant /\ LinkInvariant

LEMMA RelaysStay == RelaysInvariant /\ [RelaysNext]_relayVars => RelaysInvariant'
<1> SUFFICES ASSUME RelaysInvariant, [RelaysNext]_relayVars PROVE RelaysInvariant'
  OBVIOUS
<1>1. [Next]_vars /\ [BridgeNext]_bridgeVars /\ [LinkNext]_linkVars
  <2>1. CrowdRuns \/ MonthsRun => BridgeNext
    BY DEF CrowdRuns, MonthsRun, BridgeNext
  <2> QED BY <2>1 DEF RelaysNext, GatewayRuns, BridgeRuns, LinksRun, relayVars
<1> QED BY <1>1, GatewayStays, BridgeStepPreserves, LinkStays DEF RelaysInvariant

\* Every variable of the three services has its type in every reachable state, the
\* resolver's gate counts the downloads there are, and no address has more of them
\* than it may (streamGate.enter and leave).
THEOREM RelaysAreTyped == RelaysSpec => []RelaysTypeOK
<1>1. RelaysInit => RelaysInvariant
  BY GatewayInitially, BridgeInitial, LinkInitially DEF RelaysInit, RelaysInvariant
<1>2. RelaysInvariant => RelaysTypeOK
  BY LinkTypesFollow DEF RelaysInvariant, GatewayInvariant, BridgeInvariant, RelaysTypeOK
<1> QED BY <1>1, <1>2, RelaysStay, PTL DEF RelaysSpec

=============================================================================
