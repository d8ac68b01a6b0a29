---------------------------- MODULE LibraryStore ----------------------------
(***************************************************************************)
(* A viewer's shelf and resume points (library.go, library_api.go): kept   *)
(* in memory, written to one file every few seconds.                       *)
(*                                                                         *)
(* A position is the stretch of the programme it lies in.  Clients spell a *)
(* title's key their own way.                                              *)
(***************************************************************************)
EXTENDS Naturals

CONSTANTS
    Viewers,
    Titles,         \* keys as normaliseKey leaves them
    Spellings,      \* keys as clients send them
    Normal,         \* normaliseKey, to Titles or to Blank
    Blank,
    Nothing,        \* no file, no snapshot, no resume point
    MaxStops        \* bound: restarts

ASSUME LibraryAssumption ==
    /\ Normal \in [Spellings -> Titles \cup {Blank}]
    /\ Blank \notin Titles
    /\ MaxStops \in Nat

Positions == {"opening", "middle", "credits"}   \* cut at 30 s and at 92 %
Reports == [position : Positions, duration : BOOLEAN]   \* whether it is known
UserData == [items : SUBSET Titles, progress : [Titles -> Reports \cup {Nothing}]]

VARIABLES
    library,    \* users
    dirty,
    raw,        \* what flush marshalled and has not renamed into place yet
    file,       \* the library file
    failed,     \* history: the last flush did not reach the file
    stops

libraryVars == <<library, dirty, raw, file, failed, stops>>

NewUser == [items |-> {}, progress |-> [t \in Titles |-> Nothing]]
EmptyLibrary == [v \in Viewers |-> NewUser]

OnDisk == IF file = Nothing THEN EmptyLibrary ELSE file

LibraryInit ==
    /\ library = EmptyLibrary
    /\ dirty = FALSE
    /\ raw = Nothing
    /\ file = Nothing
    /\ failed = FALSE
    /\ stops = 0

-----------------------------------------------------------------------------
\* A handler's write.  A key that is blank is refused with a 400.
Changed(v, data) ==
    /\ library' = [library EXCEPT ![v] = data]
    /\ dirty' = TRUE
    /\ UNCHANGED <<raw, file, failed, stops>>

AddItem(v, s) ==
    /\ Normal[s] # Blank
    /\ Changed(v, [library[v] EXCEPT !.items = @ \cup {Normal[s]}])

RemoveItem(v, s) ==
    /\ Normal[s] # Blank
    /\ Changed(v, [library[v] EXCEPT !.items = @ \ {Normal[s]}])

\* setProgress keeps what a bare position report does not carry.
Merged(prev, p) ==
    IF prev = Nothing THEN p
    ELSE [p EXCEPT !.duration = @ \/ prev.duration]

SetProgress(v, s, p) ==
    /\ Normal[s] # Blank
    /\ Changed(v, [library[v] EXCEPT !.progress[Normal[s]] = Merged(@, p)])

-----------------------------------------------------------------------------
(* flush, every five seconds.                                              *)

Flush ==
    /\ dirty /\ raw = Nothing
    /\ raw' = library
    /\ dirty' = FALSE
    /\ UNCHANGED <<library, file, failed, stops>>

\* The rename.
Flushed ==
    /\ raw # Nothing
    /\ file' = raw
    /\ raw' = Nothing
    /\ failed' = FALSE
    /\ UNCHANGED <<library, dirty, stops>>

\* The temporary file cannot be written or renamed: an error in the log.
FlushFails ==
    /\ raw # Nothing
    /\ raw' = Nothing
    /\ failed' = TRUE
    /\ UNCHANGED <<library, dirty, file, stops>>

\* However it stops, nothing is flushed.  newLibraryStore reads the file; the
\* temporary one is never looked at.
LibraryRestart ==
    /\ stops < MaxStops
    /\ stops' = stops + 1
    /\ library' = OnDisk
    /\ dirty' = FALSE
    /\ raw' = Nothing
    /\ failed' = FALSE
    /\ UNCHANGED file

LibraryNext ==
    \/ \E v \in Viewers, s \in Spellings :
          \/ AddItem(v, s) \/ RemoveItem(v, s)
          \/ \E p \in Reports : SetProgress(v, s, p)
    \/ Flush \/ Flushed \/ FlushFails \/ LibraryRestart

LibrarySpec == LibraryInit /\ [][LibraryNext]_libraryVars

\* The loop ticks for as long as the process lives, and a disk that is tried
\* often enough takes a write.
LibraryFairness == /\ WF_libraryVars(Flush)
                   /\ WF_libraryVars(Flushed \/ FlushFails)
                   /\ SF_libraryVars(Flushed)

-----------------------------------------------------------------------------
LibraryTypeOK ==
    /\ library \in [Viewers -> UserData]
    /\ dirty \in BOOLEAN /\ failed \in BOOLEAN
    /\ raw \in [Viewers -> UserData] \cup {Nothing}
    /\ file \in [Viewers -> UserData] \cup {Nothing}
    /\ stops \in 0..MaxStops

\* flush is atomic so that a crash costs "the last few seconds of progress", and
\* a restart "must not lose the shelf": what is left alone reaches the disk.
EveryChangeReachesDisk ==
    <>[][UNCHANGED library]_libraryVars => <>[](library = OnDisk)
=============================================================================
