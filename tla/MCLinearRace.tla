---------------------------- MODULE MCLinearRace ----------------------------
(***************************************************************************)
(* Two stories of one engine, each with the bounds it needs: readers who   *)
(* race while a channel is edited, and owners whose requests race while    *)
(* nobody reads.  They meet in the instance of LinearEngineLive.cfg.       *)
(***************************************************************************)
EXTENDS MCLinearEngine

VARIABLE scene    \* which of the two a behaviour tells

\* Readers of one channel while an owner edits it, twice at most.  The list is
\* taken and written at once and without fail: no reader looks at it ...
GuideScene ==
    /\ restarts' = 0 /\ edits' <= 2
    /\ owner'[o2] = Idle
    /\ owner'[o1] # Idle => owner'[o1].chan = c1
    /\ owner[o1].step \in {"list", "write"} /\ ~wedged => owner' # owner
    /\ owner[o1].step = "write" => owner' = owner \/ channelsFile' = owner[o1].list

\* ... and owners who edit two channels at once, with a restart and no reader.
OwnersScene == \A r \in Readers : pc'[r] = "idle"

RaceInit == Init /\ scene \in {"guide", "owners"}
RaceNext == /\ Next
            /\ UNCHANGED scene
            /\ scene = "guide" => GuideScene
            /\ scene = "owners" => OwnersScene
RaceSpec == RaceInit /\ [][RaceNext]_<<vars, scene>>
=============================================================================
