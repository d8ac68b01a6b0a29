---------------------------- MODULE SharedGuide ----------------------------
(***************************************************************************)
(* What the linear engine promises every reader of the guide, said without *)
(* requests, locks, cursors or files (linear_epg.go, header comment): one  *)
(* schedule per channel, extended and never rebuilt.  Two readers who look *)
(* at different times can only disagree about programmes that have left    *)
(* the past buffer, or that an edit dropped before they started.           *)
(***************************************************************************)
EXTENDS GuideSeq

CONSTANTS Channels, Past

VARIABLES now,    \* wall clock
          boots,  \* how often the server has been restarted
          guide   \* guide[c]: the programmes of channel c that readers see

Init == /\ now = 0
        /\ boots = 0
        /\ guide = [c \in Channels |-> <<>>]

Tick == /\ now' = now + 1
        /\ UNCHANGED <<boots, guide>>

Becomes(c, s) == /\ guide' = [guide EXCEPT ![c] = s]
                 /\ UNCHANGED <<now, boots>>

\* The schedule grows at its end; what was listed stays listed, in its place.
Extend(c) ==
    /\ Len(guide[c]) <= Len(guide'[c])
    /\ SubSeq(guide'[c], 1, Len(guide[c])) = guide[c]
    /\ Ordered(guide'[c])
    /\ Becomes(c, guide'[c])

\* Programmes leave from the front, a whole past buffer after they ended.
Forget(c) ==
    \E k \in 0..Len(guide[c]) :
        /\ \A i \in 1..k : guide[c][i].end + Past <= now
        /\ Becomes(c, SubSeq(guide[c], k + 1, Len(guide[c])))

\* An edit drops exactly the programmes that have not started.
Edit(c) ==
    \E k \in 0..Len(guide[c]) :
        /\ \A i \in 1..k : guide[c][i].start <= now
        /\ \A i \in k+1..Len(guide[c]) : guide[c][i].start > now
        /\ Becomes(c, SubSeq(guide[c], 1, k))

Remove(c) == Becomes(c, <<>>)

\* A restart shows what was on disk: an earlier guide, but never a torn one.
Restart == /\ boots' = boots + 1
           /\ guide' = [c \in Channels |-> guide'[c]]
           /\ \A c \in Channels : Ordered(guide'[c])
           /\ UNCHANGED now

Next == \/ Tick
        \/ Restart
        \/ \E c \in Channels : Extend(c) \/ Forget(c) \/ Edit(c) \/ Remove(c)

vars == <<now, boots, guide>>
Spec == Init /\ [][Next]_vars
=============================================================================
