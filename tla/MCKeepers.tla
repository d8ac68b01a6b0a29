------------------------------ MODULE MCKeepers ------------------------------
(***************************************************************************)
(* Instances of what the search service keeps between requests: the        *)
(* viewers' library, the search cache, an archive.org pool, the seeded     *)
(* channels, who is signed in, and the answers to who wants to play.  They *)
(* share nothing, so TLC runs one of them at a time.                       *)
(***************************************************************************)
EXTENDS LibraryStore, SearchCache, ArchivePool, ChannelSeeds, Accounts, PlayDesk, TLC

CONSTANTS v1, film, c1, c2, r1, r2, p1, p2, p3, ch1, ch2,
          home, guest, n1, n2, n3, laptop, tv, v2

\* "Film" and "film " are the same title, " " is none.
MCNormal == [s \in {"Film", "film ", " "} |-> IF s = " " THEN Blank ELSE film]

\* The owner's television and a guest's laptop, with one name to spare.
MCSubjectOf == laptop :> guest @@ tv :> home

Kind(core, size, streamOnly) == [core |-> core, size |-> size, streamOnly |-> streamOnly]

\* One item of every way an answer can come out.
MCItems ==
    {Kind("bios", "large", FALSE), Kind("bios", "huge", FALSE), Kind("open", "small", TRUE),
     Kind("threaded", "small", FALSE), Kind("plain", "none", FALSE), Kind("arcade", "large", FALSE),
     Kind("unemulated", "large", FALSE), Kind("unknown", "large", FALSE),
     Kind("absent", "none", FALSE)}

VARIABLES
    keeper,   \* what runs
    title     \* the item everybody wants to play

keeperVars ==
    <<keeper, title, libraryVars, cacheVars, poolVars, seedVars, accountVars, playVars>>

KeepersInit ==
    /\ keeper \in {"library", "cache", "pool", "seeds", "accounts", "play"}
    /\ title \in IF keeper = "play" THEN Items ELSE {AnyItem}
    /\ LibraryInit /\ CacheInit /\ PoolInit /\ SeedsInit /\ AccountsInit /\ PlayInit
    /\ keeper = "pool" \/ archive = {}
    /\ name = (home :> n1 @@ guest :> n2)
    \* Firmware for other machines makes no difference, nor does a second copy.
    /\ holds["disk"] = {} \/ holds["library"] = {}
    /\ \A s \in {"disk", "library"} :
         holds[s] \subseteq IF keeper = "play" /\ title.size # "huge" THEN {title.core} ELSE {}

LibraryRuns ==
    /\ keeper = "library" /\ LibraryNext
    /\ UNCHANGED <<keeper, title, cacheVars, poolVars, seedVars, accountVars, playVars>>
CacheRuns ==
    /\ keeper = "cache" /\ CacheNext
    /\ UNCHANGED <<keeper, title, libraryVars, poolVars, seedVars, accountVars, playVars>>
PoolRuns ==
    /\ keeper = "pool" /\ PoolNext
    /\ UNCHANGED <<keeper, title, libraryVars, cacheVars, seedVars, accountVars, playVars>>
SeedsRun ==
    /\ keeper = "seeds" /\ SeedsNext
    /\ UNCHANGED <<keeper, title, libraryVars, cacheVars, poolVars, accountVars, playVars>>
AccountsRun ==
    /\ keeper = "accounts" /\ AccountsNext
    /\ UNCHANGED <<keeper, title, libraryVars, cacheVars, poolVars, seedVars, playVars>>

PlayRuns ==
    /\ keeper = "play" /\ PlayNext
    /\ \A p \in Players : player'[p].at = "rest" \/ player'[p].item = title
    /\ UNCHANGED <<keeper, title, libraryVars, cacheVars, poolVars, seedVars, accountVars>>

KeepersNext ==
    LibraryRuns \/ CacheRuns \/ PoolRuns \/ SeedsRun \/ AccountsRun \/ PlayRuns

\* LibraryFairness and CacheFairness, where they run.  (The guards spare TLC the others'
\* states.)
KeepersSpec ==
    /\ KeepersInit /\ [][KeepersNext]_keeperVars
    /\ WF_libraryVars(keeper = "library" /\ Flush)
    /\ WF_libraryVars(keeper = "library" /\ (Flushed \/ FlushFails))
    /\ SF_libraryVars(keeper = "library" /\ Flushed)
    /\ \A c \in Callers : WF_cacheVars(keeper = "cache" /\ CacheProgress(c))

\* The type invariants of the six modules.
KeepersTypeOK ==
    /\ LibraryTypeOK /\ CacheTypeOK /\ PoolTypeOK
    /\ SeedsTypeOK /\ AccountsTypeOK /\ PlayTypeOK
=============================================================================
