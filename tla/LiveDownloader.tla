--------------------------- MODULE LiveDownloader ---------------------------
(***************************************************************************)
(* The live relay's download side, as main.cpp:m3u8_monitor runs it:       *)
(*                                                                         *)
(*   - the monitor thread (DoM3u8Monitor) polls the upstream playlist,     *)
(*     publishes it in memory and on disk and queues the new segments;     *)
(*   - the main thread (RunDownloader) hands the front of the queue to a   *)
(*     free worker through the bStartFlag / bDoComplete hand-shake of      *)
(*     THREAD_DATA and at once moves it to the completed queue, deleting   *)
(*     the oldest completed file when there are too many;                  *)
(*   - GROUP_NUM worker threads (downloadSingle) fetch a segment and write *)
(*     it to the output directory.                                         *)
(*                                                                         *)
(* Every action is what a thread does between two points where another     *)
(* thread can see it.  The upstream server and the file system are         *)
(* external.  m_bExitFlag is left out: once RunDownloader has cleared it,  *)
(* nothing in the program sets it before RunDownloader returns.            *)
(***************************************************************************)
EXTENDS SegmentLists

CONSTANTS GROUP_NUM,   \* number of workers (2 in the code)
          MaxSeg,      \* bound: segments the upstream ever publishes
          MaxWindow,   \* bound: segments in one playlist
          Faults,      \* what may fail: "index" polls and playlist GETs,
                       \* "transfer" of a segment, "disk" opening its file
          Hung         \* workers whose transfer may hang for ever

Workers  == 0..(GROUP_NUM - 1)
Segments == 1..MaxSeg

ASSUME Sizes == GROUP_NUM \in Nat \ {0} /\ MaxSeg \in Nat /\ MaxWindow \in Nat
ASSUME FaultKinds == Faults \subseteq {"index", "transfer", "disk"} /\ Hung \subseteq Workers

VARIABLES
  up,                  \* the playlist the upstream serves now
  pcMon,               \* where the monitor thread is
  llTime,              \* DoM3u8Monitor: stamp of the last playlist asked for
  strBuffer,           \* DoM3u8Monitor: body of the last GET
  m_strBuffer, m_llLastModifyTime,   \* the playlist served to clients
  indexFile,           \* the playlist file on disk
  m_s_hlsList,
  m_downQueue, m_compelteQueue,
  downLock, compLock,  \* owner of m_mtxDownLock and m_mtxCompelteLock
  pcMain, strDownItem, iSlot,        \* RunDownloader and its locals
  thInfo,              \* RunDownloader's THREAD_DATA array
  pcWork,              \* where each worker is
  disk,                \* what the output directory holds of each segment
  evicted              \* history: segments "del" was called for

monVars   == <<pcMon, llTime, strBuffer, m_strBuffer, m_llLastModifyTime,
               indexFile, m_s_hlsList>>
queueVars == <<m_downQueue, m_compelteQueue, downLock, compLock>>
mainVars  == <<pcMain, strDownItem, iSlot>>
workVars  == <<thInfo, pcWork, disk>>
vars      == <<up, monVars, queueVars, mainVars, workVars, evicted>>

Owners   == {"free", "monitor", "main"}
MonPCs   == {"unborn", "poll", "get", "publish", "save", "callback", "add"}
MainPCs  == {"begin", "run", "loop", "scan", "reset", "start", "remove",
             "complete", "evict"}
WorkPCs  == {"unborn", "idle", "fetch", "open", "write", "complete", "clear"}
\* "whole" is the segment, "bad" whatever a failed transfer left behind.
Buffers  == {"none", "whole", "bad"}
Contents == {"absent", "empty", "whole", "bad"}

\* Last-Modified of a playlist: the upstream restamps it at every change, and
\* no stamp is 0, the value m_llLastModifyTime starts with.
Stamp(w) == w.last + 1

\* __THREAD_DATA(): a slot that was never used.
FreshSlot == [item |-> NoSegment, readBuffer |-> "none",
              bDoComplete |-> FALSE, bStartFlag |-> FALSE]

Init ==
  /\ up = EmptyPlaylist
  /\ pcMon = "unborn" /\ llTime = -1 /\ strBuffer = EmptyPlaylist
  /\ m_strBuffer = EmptyPlaylist /\ m_llLastModifyTime = 0
  /\ indexFile = EmptyPlaylist /\ m_s_hlsList = EmptyPlaylist
  /\ m_downQueue = <<>> /\ m_compelteQueue = <<>>
  /\ downLock = "free" /\ compLock = "free"
  /\ pcMain = "begin" /\ strDownItem = NoSegment /\ iSlot = 0
  /\ thInfo = [w \in Workers |-> FreshSlot]
  /\ pcWork = [w \in Workers |-> "unborn"]
  /\ disk = [s \in Segments |-> "absent"]
  /\ evicted = {}

-----------------------------------------------------------------------------
(* The upstream: a live playlist slides.  Old segments leave at the front, *)
(* new ones, at least one, are appended.                                   *)

Publish ==
  /\ \E f \in up.first..MaxSeg, l \in (up.last + 1)..MaxSeg :
       /\ f <= l /\ l - f < MaxWindow
       /\ up' = [first |-> f, last |-> l]
  /\ UNCHANGED <<monVars, queueVars, mainVars, workVars, evicted>>

-----------------------------------------------------------------------------
(* The monitor thread.                                                     *)

\* Slip: every poll is followed by a GET.
PollAlways ==
  /\ pcMon = "poll"
  /\ \E failed \in BOOLEAN :
       /\ failed => "index" \in Faults
       /\ IF failed
          THEN UNCHANGED <<llTime, pcMon>>
          ELSE llTime' = Stamp(up) /\ pcMon' = "get"
  /\ UNCHANGED <<up, strBuffer, m_strBuffer, m_llLastModifyTime, indexFile,
                 m_s_hlsList, queueVars, mainVars, workVars, evicted>>

\* Slip: a stamp one unit newer counts as unchanged.
PollTolerant ==
  /\ pcMon = "poll"
  /\ \E failed \in BOOLEAN :
       /\ failed => "index" \in Faults
       /\ IF failed \/ Stamp(up) <= llTime + 1
          THEN UNCHANGED <<llTime, pcMon>>
          ELSE llTime' = Stamp(up) /\ pcMon' = "get"
  /\ UNCHANGED <<up, strBuffer, m_strBuffer, m_llLastModifyTime, indexFile,
                 m_s_hlsList, queueVars, mainVars, workVars, evicted>>

\* getItemTime, and the decision taken on its result.  A failed poll and an
\* unchanged stamp both go back to sleep.
Poll ==
  /\ pcMon = "poll"
  /\ \E failed \in BOOLEAN :
       /\ failed => "index" \in Faults
       /\ IF failed \/ Stamp(up) = llTime
          THEN UNCHANGED <<llTime, pcMon>>
          ELSE llTime' = Stamp(up) /\ pcMon' = "get"
  /\ UNCHANGED <<up, strBuffer, m_strBuffer, m_llLastModifyTime, indexFile,
                 m_s_hlsList, queueVars, mainVars, workVars, evicted>>

\* downloadItem of the playlist.  llTime keeps the stamp when it fails.
GetIndexOk ==
  /\ pcMon = "get"
  /\ strBuffer' = up /\ pcMon' = "publish"
  /\ UNCHANGED <<up, llTime, m_strBuffer, m_llLastModifyTime, indexFile,
                 m_s_hlsList, queueVars, mainVars, workVars, evicted>>

\* Slip: the result of the GET is not looked at.
GetIndexUnchecked ==
  /\ pcMon = "get" /\ "index" \in Faults
  /\ strBuffer' = EmptyPlaylist /\ pcMon' = "publish"
  /\ UNCHANGED <<up, llTime, m_strBuffer, m_llLastModifyTime, indexFile,
                 m_s_hlsList, queueVars, mainVars, workVars, evicted>>

GetIndexFails ==
  /\ pcMon = "get" /\ "index" \in Faults
  /\ pcMon' = "poll"
  /\ UNCHANGED <<up, llTime, strBuffer, m_strBuffer, m_llLastModifyTime,
                 indexFile, m_s_hlsList, queueVars, mainVars, workVars, evicted>>

\* Slip: the stamp is asked for again after the GET.
PublishLateStamp ==
  /\ pcMon = "publish"
  /\ m_strBuffer' = strBuffer /\ m_llLastModifyTime' = Stamp(up)
  /\ pcMon' = "save"
  /\ UNCHANGED <<up, llTime, strBuffer, indexFile, m_s_hlsList, queueVars,
                 mainVars, workVars, evicted>>

\* Under m_mtxFile, the lock GetM3u8File reads both under.
PublishBuffer ==
  /\ pcMon = "publish"
  /\ m_strBuffer' = strBuffer /\ m_llLastModifyTime' = llTime
  /\ pcMon' = "save"
  /\ UNCHANGED <<up, llTime, strBuffer, indexFile, m_s_hlsList, queueVars,
                 mainVars, workVars, evicted>>

SaveIndex ==
  /\ pcMon = "save"
  /\ indexFile' = strBuffer /\ pcMon' = "callback"
  /\ UNCHANGED <<up, llTime, strBuffer, m_strBuffer, m_llLastModifyTime,
                 m_s_hlsList, queueVars, mainVars, workVars, evicted>>

\* OnCallbackM3u8Change stores the list (quick_match against the lastList
\* nobody assigns returns the new list as it is), then AddDownItems takes
\* its first lock.  m_s_hlsListLock is taken by this thread only.
OnCallbackM3u8Change ==
  /\ pcMon = "callback" /\ downLock = "free"
  /\ m_s_hlsList' = strBuffer
  /\ downLock' = "monitor" /\ pcMon' = "add"
  /\ UNCHANGED <<up, llTime, strBuffer, m_strBuffer, m_llLastModifyTime,
                 indexFile, m_downQueue, m_compelteQueue, compLock, mainVars,
                 workVars, evicted>>

\* Slip: the queue is built anew from the list.
AddItemsRebuild ==
  /\ pcMon = "add" /\ compLock = "free"
  /\ m_downQueue' = AddDownItems(BuildListFromStream(m_s_hlsList),
                                 <<>>, m_compelteQueue)
  /\ downLock' = "free" /\ pcMon' = "poll"
  /\ UNCHANGED <<up, llTime, strBuffer, m_strBuffer, m_llLastModifyTime,
                 indexFile, m_s_hlsList, m_compelteQueue, compLock, mainVars,
                 workVars, evicted>>

\* AddDownItems once it holds the second lock; both are released at its end.
AddItems ==
  /\ pcMon = "add" /\ compLock = "free"
  /\ m_downQueue' = AddDownItems(BuildListFromStream(m_s_hlsList),
                                 m_downQueue, m_compelteQueue)
  /\ downLock' = "free" /\ pcMon' = "poll"
  /\ UNCHANGED <<up, llTime, strBuffer, m_strBuffer, m_llLastModifyTime,
                 indexFile, m_s_hlsList, m_compelteQueue, compLock, mainVars,
                 workVars, evicted>>

Monitor == \/ Poll \/ GetIndexOk \/ GetIndexFails \/ PublishBuffer
           \/ SaveIndex \/ OnCallbackM3u8Change \/ AddItems

-----------------------------------------------------------------------------
(* The main thread.                                                        *)

\* StartMonitor creates the monitor thread.
StartMonitor ==
  /\ pcMain = "begin"
  /\ pcMain' = "run" /\ pcMon' = "poll"
  /\ UNCHANGED <<up, llTime, strBuffer, m_strBuffer, m_llLastModifyTime,
                 indexFile, m_s_hlsList, queueVars, strDownItem, iSlot,
                 workVars, evicted>>

\* RunDownloader creates one worker per slot.
SpawnWorkers ==
  /\ pcMain = "run"
  /\ pcMain' = "loop"
  /\ pcWork' = [w \in Workers |-> "idle"]
  /\ UNCHANGED <<up, monVars, queueVars, strDownItem, iSlot, thInfo, disk, evicted>>

\* One round of the loop: GetDownloadFristObject copies the front of the
\* queue; with an empty queue the round ends.
GetDownloadFristObject ==
  /\ pcMain = "loop" /\ downLock = "free"
  /\ IF m_downQueue = <<>>
     THEN strDownItem' = NoSegment /\ UNCHANGED pcMain
     ELSE strDownItem' = Head(m_downQueue) /\ pcMain' = "scan"
  /\ iSlot' = 0
  /\ UNCHANGED <<up, monVars, queueVars, workVars, evicted>>

\* Slip: the search runs one slot too far.
ScanSlotPastEnd ==
  /\ pcMain = "scan"
  /\ IF ~thInfo[iSlot].bStartFlag
     THEN pcMain' = "reset" /\ UNCHANGED iSlot
     ELSE IF iSlot + 1 <= GROUP_NUM
          THEN iSlot' = iSlot + 1 /\ UNCHANGED pcMain
          ELSE iSlot' = 0 /\ pcMain' = "loop"
  /\ UNCHANGED <<up, monVars, queueVars, strDownItem, workVars, evicted>>

\* Slip: a slot whose job is complete counts as free.
ScanSlotOnComplete ==
  /\ pcMain = "scan"
  /\ IF ~thInfo[iSlot].bStartFlag \/ thInfo[iSlot].bDoComplete
     THEN pcMain' = "reset" /\ UNCHANGED iSlot
     ELSE IF iSlot + 1 < GROUP_NUM
          THEN iSlot' = iSlot + 1 /\ UNCHANGED pcMain
          ELSE iSlot' = 0 /\ pcMain' = "loop"
  /\ UNCHANGED <<up, monVars, queueVars, strDownItem, workVars, evicted>>

\* Slip: only the first slot is looked at.
ScanSlotFirstOnly ==
  /\ pcMain = "scan"
  /\ pcMain' = IF ~thInfo[iSlot].bStartFlag THEN "reset" ELSE "loop"
  /\ UNCHANGED <<up, monVars, queueVars, strDownItem, iSlot, workVars, evicted>>

\* The search for a slot whose bStartFlag is false, one slot at a time; when
\* all are busy the round ends and the front stays where it is.
ScanSlot ==
  /\ pcMain = "scan"
  /\ IF ~thInfo[iSlot].bStartFlag
     THEN pcMain' = "reset" /\ UNCHANGED iSlot
     ELSE IF iSlot + 1 < GROUP_NUM
          THEN iSlot' = iSlot + 1 /\ UNCHANGED pcMain
          ELSE iSlot' = 0 /\ pcMain' = "loop"
  /\ UNCHANGED <<up, monVars, queueVars, strDownItem, workVars, evicted>>

\* THREAD_DATA::Reset up to its last statement: the job is filled in.
ResetSlot ==
  /\ pcMain = "reset"
  /\ thInfo' = [thInfo EXCEPT ![iSlot].item = strDownItem,
                              ![iSlot].readBuffer = "none",
                              ![iSlot].bDoComplete = FALSE]
  /\ pcMain' = "start"
  /\ UNCHANGED <<up, monVars, queueVars, strDownItem, iSlot, pcWork, disk, evicted>>

\* THREAD_DATA::Reset's last statement: the worker may see the job.
StartSlot ==
  /\ pcMain = "start"
  /\ thInfo' = [thInfo EXCEPT ![iSlot].bStartFlag = TRUE]
  /\ pcMain' = "remove"
  /\ UNCHANGED <<up, monVars, queueVars, strDownItem, iSlot, pcWork, disk, evicted>>

\* RemoveDownItems up to its first lock and the test under it.
RemoveBegin ==
  /\ pcMain = "remove" /\ downLock = "free"
  /\ IF m_downQueue = <<>>
     THEN pcMain' = "loop" /\ UNCHANGED downLock
     ELSE pcMain' = "complete" /\ downLock' = "main"
  /\ UNCHANGED <<up, monVars, m_downQueue, m_compelteQueue, compLock,
                 strDownItem, iSlot, workVars, evicted>>

\* The second lock, and the front of the queue recorded as completed.
PushComplete ==
  /\ pcMain = "complete" /\ compLock = "free"
  /\ compLock' = "main"
  /\ m_compelteQueue' = Append(m_compelteQueue, Head(m_downQueue))
  /\ pcMain' = "evict"
  /\ UNCHANGED <<up, monVars, m_downQueue, downLock, strDownItem, iSlot,
                 workVars, evicted>>

\* "del" of a file some worker has open fails on Windows.
FileOpen(s) == \E w \in Workers : pcWork[w] = "write" /\ thInfo[w].item = s

\* Slip: the newest completed file is deleted, not the oldest.
EvictNewest(pinned) ==
  /\ pcMain = "evict" /\ Len(m_compelteQueue) > COMP_NUM
  /\ LET s == m_compelteQueue[Len(m_compelteQueue)]
     IN  /\ disk' = IF FileOpen(s) \/ s \in pinned THEN disk
                    ELSE [disk EXCEPT ![s] = "absent"]
         /\ evicted' = evicted \cup {s}
  /\ m_compelteQueue' = Tail(m_compelteQueue)
  /\ UNCHANGED <<up, monVars, m_downQueue, downLock, compLock, mainVars,
                 thInfo, pcWork>>

\* One turn of the loop that shrinks the completed queue.  pinned are the
\* files another part of the program has open.
EvictOldest(pinned) ==
  /\ pcMain = "evict" /\ Len(m_compelteQueue) > COMP_NUM
  /\ LET s == Head(m_compelteQueue)
     IN  /\ disk' = IF FileOpen(s) \/ s \in pinned THEN disk
                    ELSE [disk EXCEPT ![s] = "absent"]
         /\ evicted' = evicted \cup {s}
  /\ m_compelteQueue' = Tail(m_compelteQueue)
  /\ UNCHANGED <<up, monVars, m_downQueue, downLock, compLock, mainVars,
                 thInfo, pcWork>>

\* Slip: the front stays in the download queue.
PopForgotten ==
  /\ pcMain = "evict" /\ Len(m_compelteQueue) <= COMP_NUM
  /\ downLock' = "free" /\ compLock' = "free"
  /\ pcMain' = "loop"
  /\ UNCHANGED <<up, monVars, m_downQueue, m_compelteQueue, strDownItem, iSlot,
                 workVars, evicted>>

\* The rest of RemoveDownItems: the front leaves the download queue and both
\* locks are released.
PopDownItem ==
  /\ pcMain = "evict" /\ Len(m_compelteQueue) <= COMP_NUM
  /\ m_downQueue' = Tail(m_downQueue)
  /\ downLock' = "free" /\ compLock' = "free"
  /\ pcMain' = "loop"
  /\ UNCHANGED <<up, monVars, m_compelteQueue, strDownItem, iSlot, workVars, evicted>>

Main(pinned) ==
  \/ StartMonitor \/ SpawnWorkers \/ GetDownloadFristObject \/ ScanSlot
  \/ ResetSlot \/ StartSlot \/ RemoveBegin \/ PushComplete
  \/ EvictOldest(pinned) \/ PopDownItem

-----------------------------------------------------------------------------
(* The workers, downloadSingle.                                            *)

othersOfWork == <<up, monVars, queueVars, mainVars, evicted>>

\* The worker sees bStartFlag; downloadItem begins by clearing the buffer.
TakeJob(w) ==
  /\ pcWork[w] = "idle" /\ thInfo[w].bStartFlag
  /\ thInfo' = [thInfo EXCEPT ![w].readBuffer = "none"]
  /\ pcWork' = [pcWork EXCEPT ![w] = "fetch"]
  /\ UNCHANGED <<othersOfWork, disk>>

\* The transfer ends; nobody looks at its result.
Fetch(w) ==
  /\ pcWork[w] = "fetch"
  /\ \E got \in IF "transfer" \in Faults THEN {"whole", "bad"} ELSE {"whole"} :
       thInfo' = [thInfo EXCEPT ![w].readBuffer = got]
  /\ pcWork' = [pcWork EXCEPT ![w] = "open"]
  /\ UNCHANGED <<othersOfWork, disk>>

\* Slip: the job is ended without writing the file.
OpenSkipped(w) ==
  /\ pcWork[w] = "open"
  /\ pcWork' = [pcWork EXCEPT ![w] = "complete"]
  /\ UNCHANGED <<othersOfWork, thInfo, disk>>

\* ofstream( ..., trunc ): the file exists and is empty.
OpenFile(w) ==
  /\ pcWork[w] = "open"
  /\ disk' = [disk EXCEPT ![thInfo[w].item] = "empty"]
  /\ pcWork' = [pcWork EXCEPT ![w] = "write"]
  /\ UNCHANGED <<othersOfWork, thInfo>>

\* The stream could not be opened; writing to it and closing it do nothing.
OpenFails(w) ==
  /\ pcWork[w] = "open" /\ "disk" \in Faults
  /\ pcWork' = [pcWork EXCEPT ![w] = "complete"]
  /\ UNCHANGED <<othersOfWork, thInfo, disk>>

WriteFile(w) ==
  /\ pcWork[w] = "write"
  /\ disk' = [disk EXCEPT ![thInfo[w].item] = thInfo[w].readBuffer]
  /\ pcWork' = [pcWork EXCEPT ![w] = "complete"]
  /\ UNCHANGED <<othersOfWork, thInfo>>

SetComplete(w) ==
  /\ pcWork[w] = "complete"
  /\ thInfo' = [thInfo EXCEPT ![w].bDoComplete = TRUE]
  /\ pcWork' = [pcWork EXCEPT ![w] = "clear"]
  /\ UNCHANGED <<othersOfWork, disk>>

\* Slip: bStartFlag is left up.
ClearForgotten(w) ==
  /\ pcWork[w] = "clear"
  /\ pcWork' = [pcWork EXCEPT ![w] = "idle"]
  /\ UNCHANGED <<othersOfWork, thInfo, disk>>

ClearStart(w) ==
  /\ pcWork[w] = "clear"
  /\ thInfo' = [thInfo EXCEPT ![w].bStartFlag = FALSE]
  /\ pcWork' = [pcWork EXCEPT ![w] = "idle"]
  /\ UNCHANGED <<othersOfWork, disk>>

Worker(w) == \/ TakeJob(w) \/ Fetch(w) \/ OpenFile(w) \/ OpenFails(w)
             \/ WriteFile(w) \/ SetComplete(w) \/ ClearStart(w)

Next == Publish \/ Monitor \/ Main({}) \/ \E w \in Workers : Worker(w)

Spec == Init /\ [][Next]_vars

\* The operating system runs every thread.  curl is given no timeout, so a
\* transfer ends only if the network ends it: workers in Hung are denied that.
Fairness ==
  /\ WF_vars(Monitor) /\ WF_vars(Main({}))
  /\ \A w \in Workers \ Hung : WF_vars(Worker(w))
  /\ \A w \in Hung : WF_vars(Worker(w) /\ pcWork[w] # "fetch")

FairSpec == Spec /\ Fairness

-----------------------------------------------------------------------------
(* Properties.                                                             *)

PlaylistType == Windows(MaxSeg)

TypeOK ==
  /\ up \in PlaylistType /\ strBuffer \in PlaylistType
  /\ m_strBuffer \in PlaylistType /\ indexFile \in PlaylistType
  /\ m_s_hlsList \in PlaylistType
  /\ pcMon \in MonPCs /\ llTime \in -1..(MaxSeg + 1)
  /\ m_llLastModifyTime \in 0..(MaxSeg + 1)
  /\ m_downQueue \in Seq(Segments) /\ m_compelteQueue \in Seq(Segments)
  /\ downLock \in Owners /\ compLock \in Owners
  /\ pcMain \in MainPCs /\ strDownItem \in 0..MaxSeg /\ iSlot \in Workers
  /\ thInfo \in [Workers -> [item : 0..MaxSeg, readBuffer : Buffers,
                             bDoComplete : BOOLEAN, bStartFlag : BOOLEAN]]
  /\ pcWork \in [Workers -> WorkPCs]
  /\ disk \in [Segments -> Contents] /\ evicted \subseteq Segments

\* While the main thread fills in a slot, that slot's worker is parked and
\* will stay so: the plain fields of THREAD_DATA are never touched by both.
HandoffExclusion ==
  pcMain \in {"reset", "start"} =>
    pcWork[iSlot] = "idle" /\ ~thInfo[iSlot].bStartFlag

\* Between GetDownloadFristObject and the end of RemoveDownItems both queue
\* locks are released twice, yet what RemoveDownItems pops is the segment
\* that was handed to the worker.
PeekedIsPopped ==
  pcMain \in {"scan", "reset", "start", "remove", "complete"} =>
    m_downQueue # <<>> /\ Head(m_downQueue) = strDownItem

\* The front of the download queue has been handed out and not yet popped.
HandedOut == pcMain \in {"remove", "complete", "evict"}

\* What is still to be handed out.
Remaining == IF HandedOut THEN Tail(m_downQueue) ELSE m_downQueue

\* Completed and queued segments, the front counted once while
\* RemoveDownItems moves it from one queue to the other.
Pipeline == m_compelteQueue \o (IF pcMain = "evict" THEN Tail(m_downQueue)
                                                    ELSE m_downQueue)

\* AddDownItems meets playlists that slid any distance, queues that are full,
\* empty or half way through a hand-off; it never queues a segment twice,
\* nor one older than a segment it queued before.
PipelineOrdered == Increasing(Pipeline)

\* No segment is downloaded by two workers at once, and none that a worker
\* has is still waiting: two workers never have the same file open.
OneJobPerSegment ==
  \A w \in Workers : thInfo[w].bStartFlag =>
    /\ thInfo[w].item \notin Items(Remaining)
    /\ \A v \in Workers \ {w} : thInfo[v].bStartFlag => thInfo[v].item # thInfo[w].item

\* The queues stay within their capacities whenever a thread can lock them.
QueuesBounded ==
  /\ Len(m_downQueue) <= DOWN_NUM
  /\ compLock = "free" => Len(m_compelteQueue) <= COMP_NUM

\* RemoveDownItems files a segment as completed before its worker has even
\* begun.  A completed segment is all the same on disk or still some
\* worker's job: "del" only ever hits the ones that left the queue.
CompletedIsOnDisk ==
  "disk" \notin Faults =>
    \A s \in Items(m_compelteQueue) :
      \/ disk[s] # "absent"
      \/ \E w \in Workers : thInfo[w].bStartFlag /\ thInfo[w].item = s

\* The playlist and its stamp are read in two requests.  A client that keeps
\* the stamp of the copy it was served never misses a later playlist, because
\* the copy is at least as new as the stamp sent with it.
BodyNotOlderThanStamp == Stamp(m_strBuffer) >= m_llLastModifyTime

\* Clients poll by stamp as this program does: a playlist that differs from
\* the one served before always comes with a newer stamp.
NewBodyNewStamp ==
  [][m_strBuffer' # m_strBuffer => m_llLastModifyTime' > m_llLastModifyTime]_vars

\* What clients are served never goes back in the stream.
IndexNeverGoesBack ==
  [][/\ m_strBuffer'.first >= m_strBuffer.first
     /\ m_strBuffer'.last >= m_strBuffer.last]_vars

\* With one worker hung in a transfer for ever, the others still empty the
\* queue, whatever polls, GETs, transfers and files fail.
QueueDrains ==
  \A s \in Segments : (s \in Items(m_downQueue)) ~> (s \notin Items(m_downQueue))

\* A slot that was handed out becomes free again, whatever fails on the way,
\* unless its transfer hangs: failures do not use the workers up.
SlotsAreFreed ==
  \A w \in Workers \ Hung : thInfo[w].bStartFlag ~> ~thInfo[w].bStartFlag

\* A segment handed to a worker whose transfers end is written to its file.
TakenIsWritten ==
  \A w \in Workers \ Hung, s \in Segments :
    (pcWork[w] = "fetch" /\ thInfo[w].item = s) ~> (disk[s] \in {"whole", "bad"})

\* When no request fails, clients are eventually served every playlist the
\* upstream published, or a newer one.
IndexCatchesUp ==
  \A s \in Segments : (up.last = s) ~> (m_strBuffer.last >= s)

-----------------------------------------------------------------------------
(* What comments in the code say, and the code does not do.                *)

\* "m3u8 file not changed." (the branch of DoM3u8Monitor for an unchanged
\* stamp): the playlist with the stamp the monitor holds is the one it
\* published.
UnchangedMeansPublished ==
  pcMon = "poll" /\ llTime # -1 => m_llLastModifyTime = llTime

\* "add new download item" (DownloadDetermining): when the list has a segment
\* newer than all those queued and the queue has room, one is added.
NewItemIsAdded ==
  [][AddItems /\ Len(m_downQueue) < DOWN_NUM
       /\ m_s_hlsList.last > StrLast(m_downQueue, m_compelteQueue)
     => Len(m_downQueue') > Len(m_downQueue)]_vars

\* "delete file" (the loop in RemoveDownItems): a segment that left the
\* completed queue is not on disk.
EvictedIsDeleted == \A s \in evicted : disk[s] = "absent"

-----------------------------------------------------------------------------
(* The inductive invariant the safety properties follow from.              *)

\* Who holds the queue locks is decided by where the threads are, and the
\* second lock is free whenever a holder of the first wants it.
LocksInv ==
  /\ downLock = "monitor" <=> pcMon = "add"
  /\ downLock = "main" <=> pcMain \in {"complete", "evict"}
  /\ compLock = IF pcMain = "evict" THEN "main" ELSE "free"

\* bStartFlag is up while a worker is on a job, and down in a slot that is
\* being filled in; a worker that writes has something to write.
SlotsInv ==
  /\ pcMain = "begin" => pcMon = "unborn"
  /\ \A w \in Workers :
       /\ pcMain \notin {"begin", "run"} => pcWork[w] # "unborn"
       /\ pcMain \in {"begin", "run"} => ~thInfo[w].bStartFlag
       /\ pcWork[w] \notin {"unborn", "idle"} => thInfo[w].bStartFlag
       /\ pcWork[w] \in {"open", "write"} => thInfo[w].readBuffer \in {"whole", "bad"}
  /\ pcMain \in {"reset", "start"} => ~thInfo[iSlot].bStartFlag
  /\ pcMain = "start" => thInfo[iSlot].item = strDownItem

\* While RemoveDownItems moves the front, it is the back of the completed
\* queue.
MoveInv ==
  pcMain = "evict" =>
    /\ m_downQueue # <<>> /\ m_compelteQueue # <<>>
    /\ m_compelteQueue[Len(m_compelteQueue)] = Head(m_downQueue)

\* v is not ahead of w in the stream.
NotAhead(v, w) == v.first <= w.first /\ v.last <= w.last

\* The copies of the playlist, from the upstream's to the one AddDownItems
\* reads, and the stamps that go with them.
PlaylistInv ==
  /\ NotAhead(strBuffer, up)
  /\ NotAhead(m_strBuffer, strBuffer) /\ NotAhead(m_s_hlsList, strBuffer)
  /\ llTime <= Stamp(up) /\ BodyNotOlderThanStamp
  /\ pcMon = "unborn" => llTime = -1
  /\ llTime = -1 => m_llLastModifyTime = 0 /\ pcMon \notin {"get", "publish"}
  /\ llTime # -1 => m_llLastModifyTime <= llTime
  /\ pcMon \in {"get", "publish"} => m_llLastModifyTime < llTime
  /\ pcMon = "publish" => llTime <= Stamp(strBuffer)

\* Both queues are in order, one after the other, within their capacities,
\* and no segment in them lies beyond what the scan of the list reaches.
OrderInv ==
  /\ Increasing(m_compelteQueue) /\ Increasing(m_downQueue)
  /\ pcMain # "evict" =>
       \A a \in Items(m_compelteQueue), b \in Items(m_downQueue) : a < b
  /\ \A a \in Items(m_compelteQueue) \cup Items(m_downQueue) :
       a <= m_s_hlsList.last /\ a <= m_s_hlsList.first + DOWN_NUM - 1
  /\ QueuesBounded

\* Jobs are older than all that is still to be handed out, and different.
JobsInv ==
  /\ \A w \in Workers : thInfo[w].bStartFlag =>
       /\ thInfo[w].item <= StrLast(m_downQueue, m_compelteQueue)
       /\ \A b \in Items(Remaining) : thInfo[w].item < b
  /\ OneJobPerSegment

IInv == /\ TypeOK /\ LocksInv /\ SlotsInv /\ PeekedIsPopped /\ MoveInv
        /\ PlaylistInv /\ OrderInv /\ JobsInv

\* The completed segments, and the one that is handed out and will be next.
Owed == Items(m_compelteQueue)
        \cup (IF pcMain \in {"remove", "complete"} THEN {strDownItem} ELSE {})

\* Each of them is on disk or about to be: its worker has not opened the file
\* yet.  A second invariant, inductive together with IInv.
DiskInv ==
  "disk" \notin Faults =>
    \A s \in Owed :
      \/ disk[s] # "absent"
      \/ \E w \in Workers : /\ thInfo[w].bStartFlag /\ thInfo[w].item = s
                           /\ pcWork[w] \in {"idle", "fetch", "open"}

=============================================================================
