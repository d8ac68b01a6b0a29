---------------------------- MODULE MCSearchJobs ----------------------------
(***************************************************************************)
(* Instances of SearchJobs for TLC: one query every source has something   *)
(* to say about, and one browse without words that only archive.org and    *)
(* the catalogues answer.                                                  *)
(***************************************************************************)
EXTENDS SearchJobs, TLC

CONSTANTS j1, j2, c1, c2, zelda, music

MCProviderKeys == [p \in Providers |-> {zelda}]

JobSymmetry == Permutations(Jobs) \cup Permutations(Clients)
=============================================================================
