--------------------------- MODULE MCSearchWarmer ---------------------------
(***************************************************************************)
(* One title that archive.org and the indexers both answer.                *)
(***************************************************************************)
EXTENDS SearchWarmer, TLC

CONSTANTS j1, c1, zelda

MCProviderKeys == [p \in Providers |-> {zelda}]
=============================================================================
