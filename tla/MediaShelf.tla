----------------------------- MODULE MediaShelf -----------------------------
(***************************************************************************)
(* A library of a media server as the programmes of a channel: it is read  *)
(* page by page, by position in a sorted list, while the household adds    *)
(* and removes items (linear_source_jellyfin.go, linear_source_plex.go,    *)
(* provider_jellyfin.go, provider_plex.go), and what was read becomes the  *)
(* pool of linear_epg.go, which falls back on its last good copy.  The     *)
(* server is external: a sorted shelf that answers a page, or fails.       *)
(***************************************************************************)
EXTENDS Naturals, FiniteSets

CONSTANTS
    ShelfItems,    \* items, numbers in the order the server sorts by
    Folders,       \* those of them that are folders
    Shows,         \* what an episode's show is known by
    PageSize,      \* items to a page
    PoolLimit,     \* items one library contributes
    MaxChanges,    \* bound: additions and removals
    MaxBreaks      \* bound: pages that are not answered

ASSUME ShelfAssumption ==
    /\ ShelfItems \subseteq Nat /\ IsFiniteSet(ShelfItems) /\ Folders \subseteq ShelfItems
    /\ PageSize \in Nat \ {0} /\ PoolLimit \in Nat \ {0}
    /\ MaxChanges \in Nat /\ MaxBreaks \in Nat

VARIABLES
    server,    \* "jellyfin", "plexMovies" or "plexShows": where the library is
    stock,     \* external: the items on the shelf
    reading,   \* LinearItems: one read of the library
    entry,     \* linearLibEntry: the copy, whether it is young enough, the last good one
    served,    \* the pool the channel got last
    changes,
    breaks

shelfVars == <<server, stock, reading, entry, served, changes, breaks>>

Servers == {"jellyfin", "plexMovies", "plexShows"}

\* A read: where it is, what it has, the shows Plex told of, whether it is cut short;
\* and for the property what the shelf held at the start and what came and went since.
\* The rows of a read are a set: each says which page it is from.
NoRead == [at |-> "none", start |-> 0, total |-> 0, out |-> {}, shows |-> {}, failed |-> FALSE,
           had |-> {}, came |-> {}, went |-> {}]
NoEntry == [items |-> {}, filled |-> FALSE, young |-> FALSE, good |-> FALSE]
NoPool == [of |-> "none", items |-> {}]

ShelfInit ==
    /\ server \in Servers /\ stock \in SUBSET ShelfItems
    /\ reading = NoRead /\ entry = NoEntry /\ served = NoPool /\ changes = 0 /\ breaks = 0

-----------------------------------------------------------------------------
(* The server.                                                             *)

\* External: an item comes or goes.
Comes(i) ==
    /\ i \notin stock /\ changes < MaxChanges /\ changes' = changes + 1
    /\ stock' = stock \cup {i} /\ reading' = [reading EXCEPT !.came = @ \cup {i}]
    /\ UNCHANGED <<server, entry, served, breaks>>
Goes(i) ==
    /\ i \in stock /\ changes < MaxChanges /\ changes' = changes + 1
    /\ stock' = stock \ {i} /\ reading' = [reading EXCEPT !.went = @ \cup {i}]
    /\ UNCHANGED <<server, entry, served, breaks>>

\* External: the items from a position on.
PlaceAmong(i, shelf) == Cardinality({j \in shelf : j <= i})
Page(start, limit) == {i \in stock : PlaceAmong(i, stock) \in (start + 1)..(start + limit)}

\* What a row becomes: Plex knows an episode's genres from its show only.
ToLinearItem(i) ==
    [id |-> i, page |-> reading.start, genres |-> server # "plexShows" \/ reading.shows # {}]
Rows(leaf) == {ToLinearItem(i) : i \in leaf \ (IF server = "jellyfin" THEN Folders ELSE {})}

-----------------------------------------------------------------------------
(* LinearItems.                                                            *)

\* pool: a young copy is used; an empty one (nil) is never young.
Fresh == entry.filled /\ entry.young /\ entry.items # {}
PoolFromCopy ==
    /\ reading.at = "none" /\ Fresh
    /\ served' = [of |-> "copy", items |-> entry.items]
    /\ UNCHANGED <<server, stock, reading, entry, changes, breaks>>

OpenRead ==
    /\ reading.at = "none" /\ ~Fresh
    /\ reading' = [NoRead EXCEPT !.at = IF server = "plexShows" THEN "shows" ELSE "items",
                                 !.had = stock]
    /\ UNCHANGED <<server, stock, entry, served, changes, breaks>>

\* showFacets: once per read; without them episodes have no genres, and that is no error.
ReadShows(shows) ==
    /\ reading.at = "shows"
    /\ shows = {} => breaks < MaxBreaks
    /\ breaks' = breaks + (IF shows = {} THEN 1 ELSE 0)
    /\ reading' = [reading EXCEPT !.at = "items", !.shows = shows]
    /\ UNCHANGED <<server, stock, entry, served, changes>>

\* What is asked of the next page.
Limit == IF PoolLimit - reading.start < PageSize THEN PoolLimit - reading.start ELSE PageSize

\* Slip: the page is counted after its folders are left out.
LastPageOfRows(leaf, total) ==
    \/ Cardinality(Rows(leaf)) < Limit
    \/ total > 0 /\ reading.start + Cardinality(leaf) >= total

\* The loop ends at a short page, or where the server said the list ends.
LastPage(leaf, total) ==
    \/ Cardinality(leaf) < Limit
    \/ total > 0 /\ reading.start + Cardinality(leaf) >= total

ReadPage ==
    /\ reading.at = "items" /\ reading.start < PoolLimit
    /\ LET leaf == Page(reading.start, Limit)
           total == IF stock # {} THEN Cardinality(stock) ELSE reading.total
       IN  reading' = [reading EXCEPT !.total = total, !.out = @ \cup Rows(leaf),
                                      !.start = @ + PageSize,
                                      !.at = IF LastPage(leaf, total) THEN "done" ELSE @]
    /\ UNCHANGED <<server, stock, entry, served, changes, breaks>>

\* The pool limit is reached: the rest of the library is not used.
Truncated ==
    /\ reading.at = "items" /\ reading.start >= PoolLimit
    /\ reading' = [reading EXCEPT !.at = "done"]
    /\ UNCHANGED <<server, stock, entry, served, changes, breaks>>

\* A page is not answered: what was read so far, and an error.
PageFails ==
    /\ reading.at = "items" /\ reading.start < PoolLimit
    /\ breaks < MaxBreaks /\ breaks' = breaks + 1
    /\ reading' = [reading EXCEPT !.at = "done", !.failed = TRUE]
    /\ UNCHANGED <<server, stock, entry, served, changes>>

-----------------------------------------------------------------------------
(* The pool of the channel.                                                *)

\* The pool is what was read, or after an error the last good copy: what the read that failed
\* had come by is left out of it, also where there is no copy.
Pooled(items, failed) ==
    IF failed
    THEN /\ served' = [of |-> IF entry.good THEN "stale" ELSE "nothing",
                       items |-> IF entry.good THEN entry.items ELSE {}]
         /\ UNCHANGED entry
    ELSE /\ entry' = [items |-> items, filled |-> TRUE, young |-> TRUE, good |-> TRUE]
         /\ served' = [of |-> "read", items |-> items]

PoolFromRead ==
    /\ reading.at = "done"
    /\ Pooled(reading.out, reading.failed)
    /\ reading' = [reading EXCEPT !.at = "pooled"]
    /\ UNCHANGED <<server, stock, changes, breaks>>

\* The caller goes on; the time to live of the copy passes.
ReadEnds ==
    /\ reading.at = "pooled" /\ reading' = NoRead
    /\ UNCHANGED <<server, stock, entry, served, changes, breaks>>
CopyAges ==
    /\ entry.young /\ entry' = [entry EXCEPT !.young = FALSE]
    /\ UNCHANGED <<server, stock, reading, served, changes, breaks>>

ShelfNext ==
    \/ \E i \in ShelfItems : Comes(i) \/ Goes(i)
    \/ \E shows \in {{}, Shows} : ReadShows(shows)
    \/ PoolFromCopy \/ OpenRead \/ ReadPage \/ Truncated \/ PageFails
    \/ PoolFromRead \/ ReadEnds \/ CopyAges

ShelfSpec == ShelfInit /\ [][ShelfNext]_shelfVars

-----------------------------------------------------------------------------
(* Properties.                                                             *)

\* The shapes.
ShelfTypeOK ==
    /\ server \in Servers /\ stock \subseteq ShelfItems
    /\ reading.at \in {"none", "shows", "items", "done", "pooled"}
    /\ \A row \in reading.out : row.id \in ShelfItems
    /\ entry.young => entry.filled
    /\ served.of \in {"none", "copy", "read", "stale", "nothing"}
    /\ changes \in 0..MaxChanges /\ breaks \in 0..MaxBreaks

\* The items a read should find: no folder of Jellyfin, and of those within the limit.
Wanted(shelf) ==
    {i \in shelf : PlaceAmong(i, shelf) <= PoolLimit /\ ~(server = "jellyfin" /\ i \in Folders)}
RowsOf(i) == {row \in served.items : row.id = i}

\* A pool that was just read is the shelf: nothing is missed while things are only added,
\* nothing is on it twice while things are only removed, and nothing is made up.
PoolIsTheShelf ==
    reading.at = "pooled" /\ served.of = "read" =>
        /\ reading.went = {} => \A i \in Wanted(stock) \ reading.came : RowsOf(i) # {}
        /\ reading.came = {} => \A i \in ShelfItems : Cardinality(RowsOf(i)) <= 1
        /\ \A i \in ShelfItems : RowsOf(i) # {} => i \in reading.had \cup reading.came
=============================================================================
