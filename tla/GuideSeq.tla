------------------------------ MODULE GuideSeq ------------------------------
(***************************************************************************)
(* Programme lists of a linear channel: what it means for one to be in     *)
(* order, and where it ends.  Shared by the abstract guide and the engine. *)
(* A programme is a record with at least the fields start and end.         *)
(***************************************************************************)
EXTENDS Integers, Sequences

\* No two programmes overlap, they are listed in order, and each has a length.
Ordered(s) ==
    /\ \A i \in 1..Len(s) : s[i].start < s[i].end
    /\ \A i, j \in 1..Len(s) : i < j => s[i].end <= s[j].start

\* linearCheckOrdering: the same invariant as the code checks it, neighbour by
\* neighbour, with the length of the first programme left unexamined.
CheckOrdering(s) ==
    \A i \in 2..Len(s) : s[i-1].end <= s[i].start /\ s[i].start < s[i].end

LastEnd(s) == s[Len(s)].end

\* The programme on air at t, if any.
AiringAt(s, t) == {i \in 1..Len(s) : s[i].start <= t /\ t < s[i].end}
=============================================================================
