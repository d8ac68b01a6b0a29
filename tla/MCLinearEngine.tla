--------------------------- MODULE MCLinearEngine ---------------------------
(***************************************************************************)
(* Instances of LinearEngine for TLC.  Time is in slots, a few to the day, *)
(* so that the clock of a run crosses midnight.                            *)
(***************************************************************************)
EXTENDS LinearEngine, TLC

CONSTANTS r1, r2, o1, o2, c1, c2

\* A library that can be empty, partial or whole.
MCLineupsAny   == [x \in Rules |-> {<<>>, <<1, 2>>}]
\* A library that always answers with the same items.
MCLineupsWhole == [x \in Rules |-> {<<2, 1>>}]

ReaderSymmetry == Permutations(Readers)
=============================================================================
