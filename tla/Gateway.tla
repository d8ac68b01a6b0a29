------------------------------ MODULE Gateway ------------------------------
(***************************************************************************)
(* The magnet-to-HTTP gateway for televisions (gateway/main.go): /prepare  *)
(* joins a swarm, waits for its metadata and registers a session; /stream  *)
(* serves the session's file; a reaper drops the sessions nobody asked for *)
(* lately, with their pieces.  The torrent client is external: a handle is *)
(* the number of the join that made it, so that one which was dropped is   *)
(* told from the one a later magnet gets.                                  *)
(*                                                                         *)
(* Pieces are on disk for a torrent or they are not; a primer is a reader  *)
(* that keeps a file wanted between /prepare and /stream.                  *)
(***************************************************************************)
EXTENDS Naturals, FiniteSets

CONSTANTS
    Hashes,        \* torrents
    Videos,        \* those with a video file in them
    Devices,       \* televisions, with one request each
    MaxIdle,       \* maxIdle, in the reaper's minutes
    MaxJoins, MaxRestarts,   \* bounds of the model
    None           \* no session

ASSUME ConstantsAssumption ==
    /\ Hashes # {} /\ Videos \subseteq Hashes /\ IsFiniteSet(Devices)
    /\ MaxIdle \in Nat \ {0} /\ {MaxJoins, MaxRestarts} \subseteq Nat
    /\ None \notin [join : Nat, idle : Nat]

VARIABLES
    swarm,    \* per torrent: its last join, and what became of that handle
    active,   \* g.active
    primers,  \* per torrent: how many primers are open
    store,    \* the torrents with pieces in the data directory
    device,   \* what each television's request is doing, and on which handle
    restarts

vars == <<swarm, active, primers, store, device, restarts>>

Resting == [at |-> "idle", hash |-> CHOOSE h \in Hashes : TRUE, join |-> 0]
Absent(n) == [join |-> n, live |-> FALSE, info |-> FALSE, wanted |-> FALSE]

Init ==
    /\ swarm = [h \in Hashes |-> Absent(0)]
    /\ active = [h \in Hashes |-> None]
    /\ primers = [h \in Hashes |-> 0]
    /\ store = {}
    /\ device = [d \in Devices |-> Resting]
    /\ restarts = 0

Does(d, state) == device' = [device EXCEPT ![d] = state]
\* (slip: a primer is closed whether or not there is a session)
SessionsOfAny(h) == 1
SessionsOf(h) == IF active[h] = None THEN 0 ELSE 1

-----------------------------------------------------------------------------
(* /prepare.                                                               *)

\* AddMagnet: the handle of a torrent that is there, or a new one.
Prepare(d, h) ==
    LET t == IF swarm[h].live THEN swarm[h]
             ELSE [Absent(swarm[h].join + 1) EXCEPT !.live = TRUE]
    IN  /\ device[d].at = "idle"
        /\ t.join <= MaxJoins
        /\ swarm' = [swarm EXCEPT ![h] = t]
        /\ Does(d, [at |-> "metadata", hash |-> h, join |-> t.join])
        /\ UNCHANGED <<active, primers, store, restarts>>

MetadataArrives(h) ==
    /\ swarm[h].live /\ ~swarm[h].info
    /\ swarm' = [swarm EXCEPT ![h].info = TRUE]
    /\ UNCHANGED <<active, primers, store, device, restarts>>

\* A handle that was dropped had its metadata: only sessions are dropped.
Held(d) == swarm[device[d].hash].live /\ swarm[device[d].hash].join = device[d].join
GotInfo(d) == Held(d) => swarm[device[d].hash].info

\* 504 after a minute, or the television hangs up.  The torrent stays joined.
PrepareGivesUp(d) ==
    /\ device[d].at = "metadata"
    /\ Does(d, Resting)
    /\ UNCHANGED <<swarm, active, primers, store, restarts>>

\* 415.  The torrent stays joined here too.
NoVideoFile(d) ==
    /\ device[d].at = "metadata"
    /\ GotInfo(d)
    /\ device[d].hash \notin Videos
    /\ Does(d, Resting)
    /\ UNCHANGED <<swarm, active, primers, store, restarts>>

\* The file is given priority, which is what downloads it, and a primer.
PickVideoFile(d) ==
    LET h == device[d].hash IN
    /\ device[d].at = "metadata"
    /\ GotInfo(d)
    /\ h \in Videos
    /\ swarm' = [swarm EXCEPT ![h].wanted = @ \/ Held(d)]
    /\ primers' = [primers EXCEPT ![h] = @ + 1]
    /\ Does(d, [device[d] EXCEPT !.at = "register"])
    /\ UNCHANGED <<active, store, restarts>>

\* Under the lock, the session takes the place of the torrent's old one.
\* (slip: the primer of the old session stays open)
RegisterOverOld(d) ==
    /\ device[d].at = "register"
    /\ active' = [active EXCEPT ![device[d].hash] = [join |-> device[d].join, idle |-> 0]]
    /\ Does(d, Resting)
    /\ UNCHANGED <<swarm, primers, store, restarts>>

Register(d) ==
    LET h == device[d].hash IN
    /\ device[d].at = "register"
    /\ primers' = [primers EXCEPT ![h] = @ - SessionsOf(h)]
    /\ active' = [active EXCEPT ![h] = [join |-> device[d].join, idle |-> 0]]
    /\ Does(d, Resting)
    /\ UNCHANGED <<swarm, store, restarts>>

-----------------------------------------------------------------------------
(* /stream.  The session is stamped when the request comes in, and not     *)
(* while its bytes go out.  Without a session it is a 404.                 *)

StreamStart(d, h) ==
    /\ device[d].at = "idle"
    /\ active[h] # None
    /\ active' = [active EXCEPT ![h].idle = 0]
    /\ Does(d, [at |-> "streaming", hash |-> h, join |-> active[h].join])
    /\ UNCHANGED <<swarm, primers, store, restarts>>

StreamEnds(d) ==
    /\ device[d].at = "streaming"
    /\ Does(d, Resting)
    /\ UNCHANGED <<swarm, active, primers, store, restarts>>

Download(h) ==
    /\ swarm[h].live /\ swarm[h].info /\ swarm[h].wanted
    /\ store' = store \cup {h}
    /\ UNCHANGED <<swarm, active, primers, device, restarts>>

-----------------------------------------------------------------------------
(* The reaper, and the clock it reads.                                     *)

Minute ==
    /\ \E h \in Hashes : active[h] # None /\ active[h].idle < MaxIdle
    /\ active' = [h \in Hashes |->
          IF active[h] # None /\ active[h].idle < MaxIdle
          THEN [active[h] EXCEPT !.idle = @ + 1] ELSE active[h]]
    /\ UNCHANGED <<swarm, primers, store, device, restarts>>

\* (slip: a torrent the client has dropped already is passed over)
ExpiredIfLive ==
    {h \in Hashes : /\ active[h] # None /\ active[h].idle >= MaxIdle
                    /\ swarm[h].live /\ swarm[h].join = active[h].join}
Expired == {h \in Hashes : active[h] # None /\ active[h].idle >= MaxIdle}

\* Dropping a handle that was dropped before does nothing to the torrent a
\* later magnet joined.
Reap ==
    /\ Expired # {}
    /\ primers' = [h \in Hashes |-> IF h \in Expired THEN primers[h] - 1 ELSE primers[h]]
    /\ swarm' = [h \in Hashes |->
          IF h \in Expired /\ swarm[h].join = active[h].join
          THEN Absent(swarm[h].join) ELSE swarm[h]]
    /\ active' = [h \in Hashes |-> IF h \in Expired THEN None ELSE active[h]]
    /\ store' = store \ Expired
    /\ UNCHANGED <<device, restarts>>

\* The process stops, by a signal or not, and is started again: sessions and
\* swarms are gone with it, the data directory is not.
Restart ==
    /\ restarts < MaxRestarts
    /\ restarts' = restarts + 1
    /\ swarm' = [h \in Hashes |-> Absent(swarm[h].join)]
    /\ active' = [h \in Hashes |-> None]
    /\ primers' = [h \in Hashes |-> 0]
    /\ device' = [d \in Devices |-> Resting]
    /\ UNCHANGED store

DeviceStep(d) ==
    \/ PrepareGivesUp(d) \/ NoVideoFile(d) \/ PickVideoFile(d) \/ Register(d)
    \/ StreamEnds(d)
    \/ \E h \in Hashes : Prepare(d, h) \/ StreamStart(d, h)

Next ==
    \/ \E d \in Devices : DeviceStep(d)
    \/ \E h \in Hashes : MetadataArrives(h) \/ Download(h)
    \/ Minute
    \/ Reap
    \/ Restart

Spec == Init /\ [][Next]_vars

\* The clock and the reaper's ticker keep going, and a request past its
\* metadata only has a lock to wait for.
GatewayFairness ==
    /\ WF_vars(Minute) /\ WF_vars(Reap)
    /\ \A d \in Devices : WF_vars(PickVideoFile(d)) /\ WF_vars(Register(d))
FairSpec == Spec /\ GatewayFairness

-----------------------------------------------------------------------------
Torrent == [join : Nat, live : BOOLEAN, info : BOOLEAN, wanted : BOOLEAN]
Session == [join : Nat, idle : 0..MaxIdle]
Request == [at : {"idle", "metadata", "register", "streaming"},
            hash : Hashes, join : Nat]

TypeOK ==
    /\ swarm \in [Hashes -> Torrent]
    /\ active \in [Hashes -> Session \cup {None}]
    /\ primers \in [Hashes -> Nat]
    /\ store \in SUBSET Hashes
    /\ device \in [Devices -> Request]
    /\ restarts \in Nat

\* A primer keeps a file wanted for as long as it is open, so none may be lost:
\* each is the one of a session or of a request about to register, however
\* prepares of one torrent, the reaper and each other overlap.
Registering(h) == {d \in Devices : device[d].at = "register" /\ device[d].hash = h}
PrimersAccounted ==
    \A h \in Hashes : primers[h] = Cardinality(Registering(h)) + SessionsOf(h)

\* reaper: "drop a torrent after this long unused".  Once the televisions are
\* left alone for good, no session and no primer is.
Quiet == \A d \in Devices : device[d].at = "idle"
EverySessionEnds ==
    <>[]Quiet => <>[](\A h \in Hashes : active[h] = None /\ primers[h] = 0)

=============================================================================
