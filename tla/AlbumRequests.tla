--------------------------- MODULE AlbumRequests ---------------------------
(***************************************************************************)
(* Requests for an artist or one album of theirs (provider_lidarr.go).  An *)
(* album has a row in Lidarr only once its artist does, so a request for   *)
(* one may have to add the artist first.  Lidarr is external: it has one   *)
(* artist, lists the albums of a new one some time after it was added, and *)
(* looks for albums that are monitored.                                    *)
(***************************************************************************)
EXTENDS FiniteSets

CONSTANTS
    Listeners,   \* who makes requests, one at a time each
    Albums,      \* of the artist
    Artist       \* the artist, as something to ask for

ASSUME AlbumAssumption == IsFiniteSet(Albums) /\ Artist \notin Albums

VARIABLES
    artist,     \* external: "absent", "shelved" or "monitored"
    album,      \* external: per album, "unlisted", "shelved", "monitored" or "file"
    added,      \* external: what a new artist's albums will be listed as
    looking,    \* external: albums of the searches that were started
    errand,     \* per listener: the request it makes
    wanted      \* history: albums somebody asked to obtain

albumVars == <<artist, album, added, looking, errand, wanted>>

Things == Albums \cup {Artist}
AlbumsOf(thing) == IF thing = Artist THEN Albums ELSE {thing}
NoErrand == [at |-> "none", thing |-> Artist, monitor |-> FALSE, said |-> "nothing"]

AlbumsInit ==
    /\ artist = "absent" /\ album = [a \in Albums |-> "unlisted"] /\ added = "shelved"
    /\ looking = {} /\ wanted = {}
    /\ errand = [l \in Listeners |-> NoErrand]

-----------------------------------------------------------------------------
GoTo(l, at) == errand' = [errand EXCEPT ![l] = [@ EXCEPT !.at = at]]
Say(l, said) == errand' = [errand EXCEPT ![l] = [@ EXCEPT !.at = "none", !.said = said]]

\* Request.  A track is refused and asks nothing of Lidarr.
AskLidarr(l, thing, monitor) ==
    /\ errand[l].at = "none"
    /\ errand' = [errand EXCEPT ![l] = [at |-> IF thing = Artist THEN "ensure" ELSE "album",
                                        thing |-> thing, monitor |-> monitor, said |-> "nothing"]]
    /\ wanted' = IF monitor THEN wanted \cup AlbumsOf(thing) ELSE wanted
    /\ UNCHANGED <<artist, album, added, looking>>

\* requestAlbum: the row, or its artist, then the row once more.
FindAlbum(l) ==
    LET e == errand[l] IN
    /\ e.at \in {"album", "album again"}
    /\ IF album[e.thing] = "unlisted" /\ e.at = "album" THEN GoTo(l, "ensure")
       ELSE IF album[e.thing] = "unlisted" THEN Say(l, "refused")
       ELSE IF album[e.thing] = "file" \/ ~e.monitor THEN Say(l, "accepted")
       ELSE GoTo(l, IF album[e.thing] = "shelved" THEN "monitor" ELSE "search")
    /\ UNCHANGED <<artist, album, added, looking, wanted>>

\* ensureArtist and what requestArtist makes of it: added or already there.
WithArtist(l, row) ==
    LET e == errand[l] IN
    IF e.thing # Artist THEN GoTo(l, "album again")
    ELSE IF ~e.monitor \/ (row # "absent" /\ \A a \in Albums : album[a] = "file")
    THEN Say(l, "accepted")
    ELSE GoTo(l, IF row = "shelved" THEN "monitor" ELSE "search")

FindArtist(l) ==
    /\ errand[l].at = "ensure"
    /\ IF artist = "absent" THEN GoTo(l, "add") ELSE WithArtist(l, artist)
    /\ UNCHANGED <<artist, album, added, looking, wanted>>

\* Monitored from the start only when it is the artist that was asked for.
\* (slip: as the request says)
AddsMonitoredAsAsked(e) == e.monitor
AddsMonitored(e) == e.monitor /\ e.thing = Artist

AddArtist(l) ==
    /\ errand[l].at = "add"
    /\ IF artist = "absent"
       THEN /\ artist' = IF AddsMonitored(errand[l]) THEN "monitored" ELSE "shelved"
            /\ added' = artist'
            /\ WithArtist(l, "absent")
       ELSE Say(l, "refused") /\ UNCHANGED <<artist, added>>   \* a 400
    /\ UNCHANGED <<album, looking, wanted>>

\* One put, of one row.
MonitorThing(l) ==
    LET e == errand[l] IN
    /\ e.at = "monitor"
    /\ IF e.thing = Artist THEN artist' = "monitored" /\ UNCHANGED album
       ELSE /\ album' = [album EXCEPT ![e.thing] = IF @ = "shelved" THEN "monitored" ELSE @]
            /\ UNCHANGED artist
    /\ GoTo(l, "search")
    /\ UNCHANGED <<added, looking, wanted>>

\* ArtistSearch looks for what is monitored, AlbumSearch for the album.
SearchThing(l) ==
    LET e == errand[l] IN
    /\ e.at = "search"
    /\ looking' = looking \cup {a \in AlbumsOf(e.thing) : album[a] = "monitored"}
    /\ Say(l, "accepted")
    /\ UNCHANGED <<artist, album, added, wanted>>

ErrandFails(l) ==
    /\ errand[l].at # "none"
    /\ Say(l, "failed")
    /\ UNCHANGED <<artist, album, added, looking, wanted>>

-----------------------------------------------------------------------------
(* Lidarr.                                                                 *)

AlbumListed(a) ==
    /\ artist # "absent" /\ album[a] = "unlisted"
    /\ album' = [album EXCEPT ![a] = added]
    /\ UNCHANGED <<artist, added, looking, errand, wanted>>

AlbumDownloaded(a) ==
    /\ a \in looking
    /\ album' = [album EXCEPT ![a] = "file"]
    /\ looking' = looking \ {a}
    /\ UNCHANGED <<artist, added, errand, wanted>>

ErrandStep(l) ==
    FindAlbum(l) \/ FindArtist(l) \/ AddArtist(l) \/ MonitorThing(l) \/ SearchThing(l)

AlbumsNext ==
    \/ \E l \in Listeners :
          \/ \E thing \in Things, monitor \in BOOLEAN : AskLidarr(l, thing, monitor)
          \/ ErrandStep(l) \/ ErrandFails(l)
    \/ \E a \in Albums : AlbumListed(a) \/ AlbumDownloaded(a)

AlbumsSpec == AlbumsInit /\ [][AlbumsNext]_albumVars

-----------------------------------------------------------------------------
Stops == {"none", "album", "album again", "ensure", "add", "monitor", "search"}

AlbumsTypeOK ==
    /\ {artist, added} \subseteq {"absent", "shelved", "monitored"}
    /\ album \in [Albums -> {"unlisted", "shelved", "monitored", "file"}]
    /\ looking \subseteq Albums /\ wanted \subseteq Albums
    /\ errand \in [Listeners -> [at : Stops, thing : Things, monitor : BOOLEAN,
                                 said : {"nothing", "accepted", "refused", "failed"}]]

\* "adding an artist for one album does not start a discography-wide grab", nor
\* does an artist put on the shelf: whoever adds the artist, and whichever
\* requests find it half-way, Lidarr looks for no album that nobody asked for.
NoDiscographyGrab ==
    looking \cup {a \in Albums : album[a] \in {"monitored", "file"}} \subseteq wanted
=============================================================================
