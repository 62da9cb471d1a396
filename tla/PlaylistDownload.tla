-------------------------- MODULE PlaylistDownload --------------------------
(***************************************************************************)
(* auto_download: a playlist, and the items it lists, into a directory of  *)
(* their own.  Every file is opened for appending, and what keeps answers  *)
(* of different runs apart is how the directory is made.  A run may end    *)
(* between any two steps; the disk is what the next one finds.             *)
(***************************************************************************)
EXTENDS Naturals, Sequences, SequencesExt

CONSTANTS IndexName,   \* getMainPlaylistName
          Playlists,   \* what the playlist may list: items, paths of one or two names
          SubLists,    \* what an item may list in its turn: names
          MaxRuns      \* bound: runs of the program

Root == <<>>

VARIABLES
  dirs, files,      \* the disk: directories, and per file the answers appended
  run, step_of_run, \* the run and where it is
  individual,       \* which of the two functions fetches an item: the #if
  playListItems, playlistStreams,  \* the lists still to be fetched
  playlistName      \* the directory of the item under way

diskVars == <<dirs, files>>
listVars == <<playListItems, playlistStreams, playlistName>>
playlistVars == <<diskVars, run, step_of_run, individual, listVars>>

NoFiles == [p \in {} |-> <<>>]

PlaylistInit ==
  /\ dirs = {} /\ files = NoFiles /\ run = 0 /\ step_of_run = "over"
  /\ individual \in BOOLEAN
  /\ playListItems = <<>> /\ playlistStreams = <<>> /\ playlistName = Root

At(p) == step_of_run = p
Goto(p) == step_of_run' = p

\* main; a URL of fewer than four parts ends the run at once.
StartRun ==
  /\ At("over") /\ run < MaxRuns
  /\ run' = run + 1 /\ Goto("delete")
  /\ playListItems' = <<>> /\ playlistStreams' = <<>> /\ playlistName' = Root
  /\ UNCHANGED <<diskVars, individual>>

\* deleteDirectory: the command may stop at a file somebody has open.  What it
\* returns is not looked at.
DeleteRoot ==
  /\ At("delete") /\ Goto("create")
  /\ \/ dirs' = {} /\ files' = NoFiles
     \/ /\ Root \in dirs /\ UNCHANGED dirs
        /\ \E kept \in SUBSET DOMAIN files : files' = [p \in kept |-> files[p]]
  /\ UNCHANGED <<run, individual, listVars>>

\* Slip: a directory that is there already will do.
MakeDirOver(d) == IF d \in dirs THEN {dirs} ELSE {dirs \cup {d}}

\* createDirectory fails when there is something of that name already.
MakeDir(d) == IF d \in dirs \cup DOMAIN files THEN {} ELSE {dirs \cup {d}}

CreateRoot ==
  /\ At("create")
  /\ \/ dirs' \in MakeDir(Root) /\ Goto("index")
     \/ UNCHANGED dirs /\ Goto("over")
  /\ UNCHANGED <<files, run, individual, listVars>>

\* downloadItem to the file just opened for appending: a file that could not
\* be opened, below a directory there is not or where one is, gets nothing and
\* is reported as failed; else what came is appended, all of it or not.
Opens(p) == Front(p) \in dirs /\ p \notin dirs

Appended(p, lists, ok) ==
  LET answer == [run |-> run, lists |-> IF ok THEN lists ELSE <<>>]
      old == IF p \in DOMAIN files THEN files[p] ELSE <<>>
  IN [q \in DOMAIN files \cup {p} |-> IF q = p THEN Append(old, answer) ELSE files[q]]

\* buildList reads the whole file.
BuildList(p, fs) == IF p \in DOMAIN fs THEN FlattenSeq([i \in DOMAIN fs[p] |-> fs[p][i].lists]) ELSE <<>>

GetPlaylist ==
  /\ At("index")
  /\ \E lists \in Playlists, ok \in BOOLEAN :
       /\ files' = Appended(<<IndexName>>, lists, ok)
       /\ playListItems' = IF ok THEN BuildList(<<IndexName>>, files') ELSE <<>>
  /\ Goto("items")
  /\ UNCHANGED <<dirs, run, individual, playlistStreams, playlistName>>

\* downloadPlaylistMedia: the item is a file.
GetMedia ==
  LET p == Head(playListItems)
  IN /\ At("items") /\ playListItems # <<>> /\ ~individual
     /\ \E ok \in BOOLEAN : files' = IF Opens(p) THEN Appended(p, <<>>, ok) ELSE files
     /\ playListItems' = Tail(playListItems)
     /\ UNCHANGED <<dirs, run, step_of_run, individual, playlistStreams, playlistName>>

\* downloadIndividualPlaylist: the item is a playlist in a directory, named by
\* the first part of its path, that must not be there yet.
MakeItemDir ==
  LET d == <<Head(playListItems)[1]>>
  IN /\ At("items") /\ playListItems # <<>> /\ individual
     /\ \/ /\ dirs' \in MakeDir(d) /\ playlistName' = d
           /\ Goto("item") /\ UNCHANGED playListItems
        \/ /\ playListItems' = Tail(playListItems)
           /\ UNCHANGED <<dirs, playlistName, step_of_run>>
     /\ UNCHANGED <<files, run, individual, playlistStreams>>

GetItem ==
  LET p == Head(playListItems)
  IN /\ At("item")
     /\ \E lists \in SubLists, ok \in BOOLEAN :
          /\ files' = IF Opens(p) THEN Appended(p, lists, ok) ELSE files
          /\ playlistStreams' = IF ok /\ Opens(p) THEN BuildList(p, files') ELSE <<>>
     /\ playListItems' = Tail(playListItems) /\ Goto("streams")
     /\ UNCHANGED <<dirs, run, individual, playlistName>>

GetSequence ==
  LET p == Append(playlistName, Head(playlistStreams))
  IN /\ At("streams") /\ playlistStreams # <<>>
     /\ \E ok \in BOOLEAN : files' = IF Opens(p) THEN Appended(p, <<>>, ok) ELSE files
     /\ playlistStreams' = Tail(playlistStreams)
     /\ UNCHANGED <<dirs, run, step_of_run, individual, playListItems, playlistName>>

EndStreams ==
  /\ At("streams") /\ playlistStreams = <<>> /\ Goto("items")
  /\ UNCHANGED <<diskVars, run, individual, listVars>>

\* The list is done, or the run is ended from outside at whatever it did.
EndRun ==
  /\ ~At("over") /\ Goto("over")
  /\ UNCHANGED <<diskVars, run, individual, listVars>>

PlaylistNext ==
  \/ StartRun \/ DeleteRoot \/ CreateRoot \/ GetPlaylist \/ GetMedia
  \/ MakeItemDir \/ GetItem \/ GetSequence \/ EndStreams \/ EndRun

-----------------------------------------------------------------------------
(* Properties *)

\* Whatever a run left behind when it ended, and however much of it the next
\* one could delete, no two files, and no two answers in a file, are of
\* different runs: the disk never holds a mixture of two playlists.
FilesOfOneRun ==
  \A p, q \in DOMAIN files : \A i \in DOMAIN files[p], j \in DOMAIN files[q] :
    files[p][i].run = files[q][j].run

=============================================================================
