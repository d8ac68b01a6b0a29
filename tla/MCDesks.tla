------------------------------- MODULE MCDesks -------------------------------
(***************************************************************************)
(* Instances of what a household asks for by name: an episode of a show, a *)
(* film, an album, its addons.  These desks share nothing, so TLC runs one *)
(* of them at a time.                                                      *)
(***************************************************************************)
EXTENDS ShowRequests, FilmDesk, AlbumRequests, AddonDesk, TLC

CONSTANTS v1, v2, al1, al2, ad1, ad2, ad3, url

VARIABLE desk   \* the one that is open

deskVars == <<desk, showVars, filmVars, albumVars, addonVars>>

DesksInit ==
    /\ desk \in {"shows", "films", "albums", "addons"}
    /\ ShowInit /\ FilmInit /\ AlbumsInit /\ AddonsInit

ShowsOpen ==
    /\ desk = "shows" /\ ShowNext
    /\ UNCHANGED <<desk, filmVars, albumVars, addonVars>>
FilmsOpen ==
    /\ desk = "films" /\ FilmNext
    /\ UNCHANGED <<desk, showVars, albumVars, addonVars>>
AlbumsOpen ==
    /\ desk = "albums" /\ AlbumsNext
    /\ UNCHANGED <<desk, showVars, filmVars, addonVars>>
AddonsOpen ==
    /\ desk = "addons" /\ AddonsNext
    /\ UNCHANGED <<desk, showVars, filmVars, albumVars>>

DesksNext == ShowsOpen \/ FilmsOpen \/ AlbumsOpen \/ AddonsOpen

\* ShowFairness, where that desk is open.
DesksSpec ==
    /\ DesksInit /\ [][DesksNext]_deskVars
    /\ \A v \in Viewers : /\ WF_showVars(desk = "shows" /\ RequestStep(v))
                         /\ WF_showVars(desk = "shows" /\ AskAgain(v))
    /\ WF_showVars(desk = "shows" /\ EpisodesListed)

\* The type invariants of the four modules.
DesksTypeOK == ShowTypeOK /\ FilmTypeOK /\ AlbumsTypeOK /\ AddonsTypeOK
=============================================================================
