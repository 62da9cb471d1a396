------------------------------ MODULE WebRelay ------------------------------
(***************************************************************************)
(* The live downloader together with the web server in the same process.   *)
(* The handler main.cpp installs serves the playlist from memory and every *)
(* other path from the output directory, while the workers and the         *)
(* eviction of RunDownloader go on changing that directory.  The server    *)
(* has one thread; a client asks for segments of the playlist it was last  *)
(* served.                                                                 *)
(***************************************************************************)
EXTENDS LiveDownloader

VARIABLES
  pcWeb,       \* "ready", "assert" (the _ASSERT was reached), "open", "sent"
  copy,        \* the playlist the client was last served
  seg,         \* the segment of the request being served
  announced,   \* what the file held when content-length was computed
  body,        \* what was read from it and sent
  settled      \* history: no worker had the segment when it was opened

webVars == <<pcWeb, copy, seg, announced, body, settled>>

\* Slip: the handler's reading does not keep the file.
PinnedNone == {}

\* A file the handler has open cannot be deleted on Windows.
Pinned == IF pcWeb = "open" THEN {seg} ELSE {}

WebInit ==
  /\ Init
  /\ pcWeb = "ready" /\ copy = EmptyPlaylist
  /\ seg = NoSegment /\ announced = "absent" /\ body = "absent" /\ settled = FALSE

\* GET index.m3u8: GetM3u8File reads the buffer under m_mtxFile.
GetIndex ==
  /\ pcWeb = "ready"
  /\ copy' = m_strBuffer
  /\ UNCHANGED <<vars, pcWeb, seg, announced, body, settled>>

\* GET of a listed segment: the file is opened at its end, and tellg gives
\* the content-length.
OpenSegment ==
  /\ pcWeb = "ready"
  /\ \E s \in copy.first..copy.last :
       /\ disk[s] # "absent"
       /\ seg' = s /\ announced' = disk[s]
       /\ settled' = \A w \in Workers : thInfo[w].bStartFlag => thInfo[w].item # s
  /\ pcWeb' = "open"
  /\ UNCHANGED <<vars, copy, body>>

\* The file cannot be opened: the _ASSERT is reached, and in a build where it
\* does nothing the client is sent a bad-request response.
CannotReadFile ==
  /\ pcWeb = "ready"
  /\ \E s \in copy.first..copy.last : disk[s] = "absent" /\ seg' = s
  /\ pcWeb' = "assert"
  /\ UNCHANGED <<vars, copy, announced, body, settled>>

SendBadRequest ==
  /\ pcWeb = "assert"
  /\ pcWeb' = "ready" /\ seg' = NoSegment
  /\ UNCHANGED <<vars, copy, announced, body, settled>>

\* read_and_send up to the end of the file.
ReadAndSend ==
  /\ pcWeb = "open"
  /\ body' = disk[seg] /\ pcWeb' = "sent"
  /\ UNCHANGED <<vars, copy, seg, announced, settled>>

\* The request ends: everything is sent or, before that, the connection broke.
Finish ==
  /\ pcWeb \in {"open", "sent"}
  /\ pcWeb' = "ready" /\ seg' = NoSegment
  /\ announced' = "absent" /\ body' = "absent" /\ settled' = FALSE
  /\ UNCHANGED <<vars, copy>>

Web == \/ GetIndex \/ OpenSegment \/ CannotReadFile \/ SendBadRequest
       \/ ReadAndSend \/ Finish

WebNext ==
  \/ /\ Publish \/ Monitor \/ Main(Pinned) \/ \E w \in Workers : Worker(w)
     /\ UNCHANGED webVars
  \/ Web

allVars == <<vars, webVars>>

WebSpec == WebInit /\ [][WebNext]_allVars

-----------------------------------------------------------------------------
\* A file no worker had when it was opened is sent exactly as announced: it
\* is never written again, and the eviction cannot take it away meanwhile.
SettledFileSentWhole ==
  pcWeb = "sent" /\ settled => body = announced

\* _ASSERT( FALSE ) in the handler states that a requested file can be read.
AssertHolds == pcWeb # "assert"

=============================================================================
