------------------------------ MODULE Programs ------------------------------
(***************************************************************************)
(* The parts of the repository that run by themselves and share no state   *)
(* with the live relay: main calls one of its programs, the others are     *)
(* there to be called instead.  The part that runs is chosen at the start. *)
(***************************************************************************)
EXTENDS AddDownItemsLoop, BlockDownload, PlaylistDownload, TextParsers, SyncRequests, Recorder

VARIABLE program

programVars == <<program, loopVars, blockVars, playlistVars, textVars, syncVars, recorderVars>>

\* What the variables of a part that does not run hold.
LoopIdle ==
  /\ m_s_hlsList = <<>> /\ m_downQueue = <<>> /\ m_compelteQueue = <<>> /\ LoopInit

PlaylistIdle == individual = FALSE /\ PlaylistInit

TextIdle == alphabet = {} /\ text = <<>> /\ crlfcrlf = 0 /\ lflf = 0 /\ matched = FALSE

ProgramsInit ==
  /\ program \in {"add_down_items", "block_download", "auto_download", "text", "sync", "recorder"}
  /\ IF program = "add_down_items" THEN LoopInit ELSE LoopIdle
  /\ IF program = "auto_download" THEN PlaylistInit ELSE PlaylistIdle
  /\ IF program = "text" THEN TextInit ELSE TextIdle
  /\ BlockInit /\ SyncInit /\ RecorderInit

Others(name, vars) == IF program = name THEN TRUE ELSE UNCHANGED vars

\* A step of the part called name: the others' variables stay.
Runs(name, Step) ==
  /\ program = name /\ Step /\ UNCHANGED program
  /\ Others("add_down_items", loopVars) /\ Others("block_download", blockVars)
  /\ Others("auto_download", playlistVars) /\ Others("text", textVars)
  /\ Others("sync", syncVars) /\ Others("recorder", recorderVars)

ProgramsNext ==
  \/ Runs("add_down_items", LoopNext) \/ Runs("block_download", BlockNext)
  \/ Runs("auto_download", PlaylistNext) \/ Runs("text", TextNext)
  \/ Runs("sync", SyncNext) \/ Runs("recorder", RecorderNext)

\* The threads of the block downloader run, a call once made goes on, and the
\* recorder polls; nobody has to make a call, and the stream need not end.
ProgramsFairness ==
  /\ \A i \in Slots : WF_programVars(Runs("block_download", Worker(i)))
  /\ WF_programVars(Runs("block_download", WithinCall))
  /\ WF_programVars(Runs("recorder", Poll))

ProgramsSpec == ProgramsInit /\ [][ProgramsNext]_programVars /\ ProgramsFairness

=============================================================================
