------------------------------ MODULE RomImports ------------------------------
(* The two games catalogues a person imports by hand while the server runs:    *)
(* the vault's export, merged row by row into vimm.json, and the torrent sets  *)
(* of a walked site, reduced from a snapshot into minerva.json.  The importer  *)
(* is a process of its own that may die at any step; the server reads the      *)
(* files when it starts and never again.                                       *)
(*                                                                             *)
(* stream/search/vimm.go, vimm_import.go, minerva_fetch.go, minerva_import.go. *)
(* A row's fields are what the merge tells apart; one import runs at a time.   *)
EXTENDS Integers, FiniteSets

CONSTANTS VaultGames,        \* vault ids of the export
          Sets,         \* info hashes of the walked site
          CollectionOf, \* the collection each set's path starts with
          Known,        \* the collections this build has heard of
          Excluded,     \* the known ones that are never published
          MaxImports    \* bound: how often a person fetches or imports

ASSUME ImportsAssumption ==
    /\ IsFiniteSet(VaultGames) /\ IsFiniteSet(Sets) /\ MaxImports \in Nat
    /\ DOMAIN CollectionOf = Sets /\ Excluded \subseteq Known

VARIABLES vault,    \* vimm.json: a game's entry, or Absent
          torrents, \* minerva.json: [set |-> the size it is published with]
          snapshot, \* snapshot.json: what the last whole walk saw
          unfinished,    \* path + ".tmp" of the running import: "none" or its content
          onSale,   \* the games and sets the server loaded when it started
          imports
importVars == <<vault, torrents, snapshot, unfinished, onSale, imports>>

Absent == [title |-> "none", file |-> FALSE, target |-> FALSE, core |-> FALSE,
           kept |-> FALSE]
VaultEntries == [title : {"none", "page"}, file : BOOLEAN, target : BOOLEAN,
                 core : BOOLEAN, kept : {TRUE}] \cup {Absent}

\* One row of an export.  A noise title is the furniture of a page without one,
\* a foreign address is not https on the vault's host.
ExportRows == [platform : {"blank", "known", "unknown"},
               title : {"none", "noise", "real"}, file : BOOLEAN,
               address : {"none", "theirs", "foreign"}, core : BOOLEAN]

\* A slip: the row replaces what an older export had said.
WithRowInstead(old, row) ==
    [title  |-> IF row.title = "real" THEN "page" ELSE "none",
     file   |-> row.file,
     target |-> row.address = "theirs",
     core   |-> row.core,
     kept   |-> TRUE]

\* What a row adds to the entry already held: every field only ever gains.
WithRow(old, row) ==
    [title  |-> IF row.title = "real" THEN "page" ELSE old.title,
     file   |-> old.file \/ row.file,
     target |-> old.target \/ row.address = "theirs",
     core   |-> old.core \/ row.core,
     kept   |-> TRUE]

Publishable(held) == (held.title = "page" \/ held.file) /\ held.target

\* A row without a platform, a title or a target leaves the entry alone.
Imported(old, row) ==
    LET next == WithRow(old, row)
    IN  IF row.platform = "known" /\ Publishable(next) THEN next ELSE old

NothingUnfinished == [of |-> "none"]

\* importVimm: one unknown platform refuses the whole export.
ImportVault(export) ==
    /\ unfinished = NothingUnfinished /\ imports < MaxImports
    /\ \A g \in VaultGames : export[g].platform # "unknown"
    /\ unfinished' = [of |-> "vault",
                 is |-> [g \in VaultGames |-> Imported(vault[g], export[g])]]
    /\ imports' = imports + 1
    /\ UNCHANGED <<vault, torrents, snapshot, onSale>>

(***************************************************************************)
(* The walk.  A request that fails, or a listed set it found no path for,  *)
(* ends it with nothing written; the file itself is written in place.  Of  *)
(* the two censuses a walk takes, what counts is which listed sets have a  *)
(* size in the second, and whether they agree on 95 % of the smaller one.  *)
(***************************************************************************)
Walks == {walk \in [browse : SUBSET Sets, sized : SUBSET Sets, agree : BOOLEAN] :
             walk.browse # {} /\ walk.sized \subseteq walk.browse}
NoWalk == [seen |-> "nothing"]
HalfWalk == [seen |-> "half"]

\* fetchMinerva: the fetcher may die writing snapshot.json.
Fetch(walk) ==
    /\ unfinished = NothingUnfinished /\ imports < MaxImports
    /\ \/ snapshot' = [seen |-> "all", browse |-> walk.browse,
                       sized |-> walk.sized, agree |-> walk.agree]
       \/ snapshot' = HalfWalk
    /\ imports' = imports + 1
    /\ UNCHANGED <<vault, torrents, unfinished, onSale>>

Collections(sets) == {CollectionOf[s] : s \in sets}

\* A set with no size beside it is skipped, and so is an excluded collection's.
Reduced(snap) == {s \in snap.sized : CollectionOf[s] \notin Excluded}

\* Rows of collections this snapshot did not see are carried forward.
Carried(snap) == {s \in torrents : /\ CollectionOf[s] \notin Collections(snap.browse)
                                   /\ CollectionOf[s] \in Known}

\* Gate 3: an unforced import never publishes less than 80 % of the file.
Shrinks(sets) == torrents # {} /\ 100 * Cardinality(sets) < 80 * Cardinality(torrents)

\* importMinerva.
ImportSets(force) ==
    /\ unfinished = NothingUnfinished /\ imports < MaxImports
    /\ snapshot.seen = "all" /\ snapshot.agree
    /\ Collections(snapshot.browse) \subseteq Known
    /\ LET sets == Reduced(snapshot) \cup Carried(snapshot)
       IN  /\ force \/ ~Shrinks(sets)
           /\ unfinished' = [of |-> "sets", is |-> sets]
    /\ imports' = imports + 1
    /\ UNCHANGED <<vault, torrents, snapshot, onSale>>

\* os.Rename: the unfinished becomes the file in one step.
Publish ==
    /\ unfinished # NothingUnfinished
    /\ IF unfinished.of = "vault" THEN vault' = unfinished.is /\ UNCHANGED torrents
                             ELSE torrents' = unfinished.is /\ UNCHANGED vault
    /\ unfinished' = NothingUnfinished
    /\ UNCHANGED <<snapshot, onSale, imports>>

\* The importer dies, or the rename fails: the file is what it was.
GiveUp == /\ unfinished # NothingUnfinished
             /\ unfinished' = NothingUnfinished
             /\ UNCHANGED <<vault, torrents, snapshot, onSale, imports>>

\* loadVimmStore and loadMinervaStore: the server starts again.
LoadCatalogues ==
    /\ onSale' = [games |-> [g \in VaultGames |-> vault[g]], sets |-> torrents]
    /\ UNCHANGED <<vault, torrents, snapshot, unfinished, imports>>

ImportsInit == /\ vault = [g \in VaultGames |-> Absent] /\ torrents = {}
               /\ snapshot = NoWalk /\ unfinished = NothingUnfinished /\ imports = 0
               /\ onSale = [games |-> vault, sets |-> {}]

ImportsNext == \/ \E export \in [VaultGames -> ExportRows] : ImportVault(export)
               \/ \E walk \in Walks : Fetch(walk)
               \/ \E force \in BOOLEAN : ImportSets(force)
               \/ Publish \/ GiveUp \/ LoadCatalogues

ImportsSpec == ImportsInit /\ [][ImportsNext]_importVars

ImportsTypeOK ==
    /\ vault \in [VaultGames -> VaultEntries] /\ torrents \subseteq Sets
    /\ snapshot.seen \in {"nothing", "half", "all"}
    /\ unfinished.of \in {"none", "vault", "sets"} /\ imports \in 0..MaxImports
    /\ onSale.games \in [VaultGames -> VaultEntries] /\ onSale.sets \subseteq Sets

(***************************************************************************)
(* An export and a snapshot are partial views of somebody else's site.     *)
(* Whatever is imported, in whatever order, forced or not, with the        *)
(* importer or the server dying anywhere: a game the server offered is     *)
(* offered with at least the title, the file, the target and the player it *)
(* had (vimm_import.go:205-245, "LEFT ALONE rather than removed"), and a   *)
(* collection goes from the shelf only after a walk that listed it         *)
(* (minerva_import.go:296-301, "how a category silently empties").         *)
(***************************************************************************)
AtLeast(new, old) == /\ old.kept => new.kept
                     /\ old.title = "page" => new.title = "page"
                     /\ old.file => new.file
                     /\ old.target => new.target
                     /\ old.core => new.core
WhatWorkedStays ==
    [][/\ \A g \in VaultGames : AtLeast(onSale'.games[g], onSale.games[g])
       /\ \A s \in torrents \ torrents' :
             CollectionOf[s] \in Collections(snapshot.browse)]_importVars
================================================================================
