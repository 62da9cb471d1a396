------------------------ MODULE LiveDownloaderProofs ------------------------
(***************************************************************************)
(* Safety of the live downloader for every number of workers, every queue  *)
(* capacity and every length of the stream: IInv of LiveDownloader is      *)
(* inductive, and the properties follow from it.                           *)
(***************************************************************************)
EXTENDS LiveDownloader, SegmentListsProofs

\* A step of the program, while another part of it has the files of pinned
\* open: what is proved of it holds for the downloader by itself and beside the
\* web server.
StepWith(pinned) ==
  Publish \/ Monitor \/ Main(pinned) \/ \E w \in Workers : Worker(w)

\* By itself the downloader takes such steps with nothing pinned.
LEMMA NextIsStep ==
  ASSUME [Next]_vars PROVE [StepWith({})]_vars
BY DEF Next, StepWith

\* What every step does that leaves the variables of an invariant alone is
\* said once: a step is one of these actions, or changes nothing.
LEMMA NextCases ==
  ASSUME NEW pinned, [StepWith(pinned)]_vars
  PROVE  \/ Publish \/ Poll \/ GetIndexOk \/ GetIndexFails \/ PublishBuffer
         \/ SaveIndex \/ OnCallbackM3u8Change \/ AddItems
         \/ StartMonitor \/ SpawnWorkers \/ GetDownloadFristObject \/ ScanSlot
         \/ ResetSlot \/ StartSlot \/ RemoveBegin \/ PushComplete
         \/ EvictOldest(pinned) \/ PopDownItem
         \/ \E w \in Workers : \/ TakeJob(w) \/ Fetch(w) \/ OpenFile(w)
                               \/ OpenFails(w) \/ WriteFile(w)
                               \/ SetComplete(w) \/ ClearStart(w)
         \/ UNCHANGED vars
BY DEF StepWith, Monitor, Main, Worker

-----------------------------------------------------------------------------
(* The initial state.                                                      *)

\* The initial state satisfies the invariant.
LEMMA InitInv == ASSUME Init PROVE IInv
<1>1. 0 \in Workers
  BY Sizes DEF Workers
<1>2. EmptyPlaylist \in PlaylistType
  BY Sizes DEF EmptyPlaylist, PlaylistType, Windows
<1>3. <<>> \in Seq(Segments) /\ Len(<<>>) = 0
  BY EmptySeq
<1>4. Items(<<>>) = {}
  BY <1>3 DEF Items
<1>5. TypeOK
  BY <1>1, <1>2, <1>3, Sizes DEF Init, TypeOK, FreshSlot, NoSegment, Buffers,
     MonPCs, MainPCs, WorkPCs, Owners, Contents
<1>6. LocksInv /\ SlotsInv /\ PeekedIsPopped /\ MoveInv
  BY DEF Init, LocksInv, SlotsInv, PeekedIsPopped, MoveInv, FreshSlot
<1>7. PlaylistInv
  BY DEF Init, PlaylistInv, NotAhead, BodyNotOlderThanStamp, Stamp, EmptyPlaylist
<1>8. OrderInv
  <2>1. Increasing(<<>>)
    BY <1>3 DEF Increasing
  <2>2. QueuesBounded
    BY <1>3, QueueSizes DEF Init, QueuesBounded
  <2>3. QED BY <1>4, <2>1, <2>2 DEF Init, OrderInv
<1>9. JobsInv
  BY DEF Init, JobsInv, OneJobPerSegment, FreshSlot
<1>10. QED BY <1>5, <1>6, <1>7, <1>8, <1>9 DEF IInv

-----------------------------------------------------------------------------
(* Every action preserves the types.                                       *)

\* What AddDownItems is given when the monitor calls it meets its lemma.
LEMMA AddItemsFacts ==
  ASSUME IInv, AddItems
  PROVE  \E added \in Seq(Segments) :
           /\ m_downQueue' = m_downQueue \o added
           /\ Len(m_downQueue') <= DOWN_NUM
           /\ Increasing(added)
           /\ \A s \in Items(added) :
                /\ StrLast(m_downQueue, m_compelteQueue) < s
                /\ s <= m_s_hlsList.last
                /\ s <= m_s_hlsList.first + DOWN_NUM - 1
<1> DEFINE seg == StrLast(m_downQueue, m_compelteQueue)
<1>1. /\ MaxSeg \in Nat /\ m_s_hlsList \in Windows(MaxSeg)
      /\ m_downQueue \in Seq(1..MaxSeg) /\ m_compelteQueue \in Seq(1..MaxSeg)
      /\ Len(m_downQueue) <= DOWN_NUM
  BY Sizes DEF IInv, TypeOK, OrderInv, QueuesBounded, Segments, PlaylistType
<1>2. seg <= m_s_hlsList.last /\ seg <= m_s_hlsList.first + DOWN_NUM - 1
  <2>1. CASE seg \in Items(m_downQueue) \cup Items(m_compelteQueue)
    BY <2>1 DEF IInv, OrderInv
  <2>2. CASE m_downQueue = <<>> /\ m_compelteQueue = <<>>
    <3>1. seg = 0
      BY <1>1, <2>2, StrLastType DEF NoSegment
    <3>2. m_s_hlsList.last >= 0 /\ m_s_hlsList.first >= 1 /\ DOWN_NUM >= 1
      BY <1>1, QueueSizes DEF Windows
    <3>3. m_s_hlsList.first \in Int /\ DOWN_NUM \in Int
      BY <1>1, QueueSizes DEF Windows
    <3>4. QED BY <3>1, <3>2, <3>3
  <2>3. QED BY <1>1, <2>1, <2>2, StrLastType
<1>3. QED BY <1>1, <1>2, AddDownItemsFacts DEF AddItems, Segments

\* The queue AddDownItems leaves is a queue of segments.
LEMMA AddItemsType ==
  ASSUME IInv, AddItems PROVE m_downQueue' \in Seq(Segments)
<1>1. m_downQueue \in Seq(Segments)
  BY DEF IInv, TypeOK
<1>2. PICK added \in Seq(Segments) : m_downQueue' = m_downQueue \o added
  BY AddItemsFacts
<1>3. QED BY <1>1, <1>2, ConcatProperties

\* Types are preserved by every step from a state that satisfies IInv.
LEMMA TypeStep == ASSUME IInv, NEW pinned, [StepWith(pinned)]_vars PROVE TypeOK'
<1> USE DEF IInv, TypeOK
<1>1. CASE Publish
  <2>1. PICK f \in up.first..MaxSeg, l \in (up.last + 1)..MaxSeg :
          f <= l /\ up' = [first |-> f, last |-> l]
    BY <1>1 DEF Publish
  <2>2. up.first \in 1..(MaxSeg + 1) /\ up.last \in 0..MaxSeg
    BY DEF PlaylistType, Windows
  <2>3. f \in 1..(MaxSeg + 1) /\ l \in 0..MaxSeg /\ f <= l + 1
    BY <2>1, <2>2, Sizes
  <2>4. up' \in PlaylistType
    BY <2>1, <2>3 DEF PlaylistType, Windows
  <2>5. QED BY <1>1, <2>4 DEF Publish, monVars, queueVars, mainVars, workVars
<1>2. CASE Poll
  <2>1. up.last \in 0..MaxSeg
    BY DEF PlaylistType, Windows
  <2>2. Stamp(up) \in -1..(MaxSeg + 1)
    BY <2>1, Sizes DEF Stamp
  <2>3. QED BY <1>2, <2>2 DEF Poll, MonPCs, monVars, queueVars, mainVars, workVars
<1>3. CASE GetIndexOk
  BY <1>3, Sizes DEF GetIndexOk, MonPCs, monVars, queueVars, mainVars, workVars
<1>4. CASE GetIndexFails
  BY <1>4, Sizes DEF GetIndexFails, MonPCs, monVars, queueVars, mainVars, workVars
<1>5. CASE PublishBuffer
  <2>1. llTime \in 0..(MaxSeg + 1)
    BY <1>5, Sizes DEF PublishBuffer, PlaylistInv
  <2>2. QED BY <1>5, <2>1 DEF PublishBuffer, MonPCs, monVars, queueVars, mainVars, workVars
<1>6. CASE SaveIndex
  BY <1>6, Sizes DEF SaveIndex, MonPCs, monVars, queueVars, mainVars, workVars
<1>7. CASE OnCallbackM3u8Change
  BY <1>7, Sizes DEF OnCallbackM3u8Change, MonPCs, Owners, monVars, queueVars, mainVars, workVars
<1>8. CASE AddItems
  <2>1. m_downQueue' \in Seq(Segments)
    BY <1>8, AddItemsType
  <2>2. QED BY <1>8, <2>1 DEF AddItems, MonPCs, Owners, monVars, queueVars, mainVars, workVars
<1>9. CASE StartMonitor
  BY <1>9, Sizes DEF StartMonitor, MonPCs, MainPCs, monVars, queueVars, mainVars, workVars
<1>10. CASE SpawnWorkers
  BY <1>10, Sizes DEF SpawnWorkers, MainPCs, WorkPCs, monVars, queueVars, mainVars, workVars
<1>11. CASE GetDownloadFristObject
  <2>1. 0 \in Workers
    BY Sizes DEF Workers
  <2>2. m_downQueue # <<>> => Head(m_downQueue) \in 0..MaxSeg
    BY HeadTailProperties, Sizes DEF Segments
  <2>3. QED BY <1>11, <2>1, <2>2, Sizes DEF GetDownloadFristObject, MainPCs,
     NoSegment, monVars, queueVars, mainVars, workVars
<1>12. CASE ScanSlot
  BY <1>12, Sizes DEF ScanSlot, MainPCs, Workers, monVars, queueVars, mainVars, workVars
<1>13. CASE ResetSlot
  <2>1. thInfo' \in [Workers -> [item : 0..MaxSeg, readBuffer : Buffers,
                                 bDoComplete : BOOLEAN, bStartFlag : BOOLEAN]]
    <3>1. "none" \in Buffers /\ FALSE \in BOOLEAN
      BY DEF Buffers
    <3>2. thInfo' = [thInfo EXCEPT ![iSlot].item = strDownItem,
                                  ![iSlot].readBuffer = "none",
                                  ![iSlot].bDoComplete = FALSE]
      BY <1>13 DEF ResetSlot
    <3>3. QED BY <3>1, <3>2
  <2>2. QED BY <1>13, <2>1 DEF ResetSlot, MainPCs, monVars, queueVars
<1>14. CASE StartSlot
  BY <1>14, Sizes DEF StartSlot, MainPCs, Owners, monVars, queueVars, mainVars, workVars
<1>15. CASE RemoveBegin
  BY <1>15, Sizes DEF RemoveBegin, MainPCs, Owners, monVars, queueVars, mainVars, workVars
<1>16. CASE PushComplete
  <2>1. Append(m_compelteQueue, Head(m_downQueue)) \in Seq(Segments)
    BY <1>16, HeadTailProperties, AppendProperties DEF PushComplete, PeekedIsPopped
  <2>2. QED BY <1>16, <2>1 DEF PushComplete, MainPCs, Owners, monVars, queueVars, mainVars, workVars
<1>17. CASE EvictOldest(pinned)
  <2>1. m_compelteQueue # <<>>
    BY <1>17 DEF EvictOldest, MoveInv
  <2>2. /\ Tail(m_compelteQueue) \in Seq(Segments)
        /\ Head(m_compelteQueue) \in Segments
    BY <2>1, HeadTailProperties
  <2>3. disk' \in [Segments -> Contents]
    BY <1>17, <2>2 DEF EvictOldest, Contents
  <2>4. QED BY <1>17, <2>2, <2>3 DEF EvictOldest, monVars, queueVars, mainVars, workVars
<1>18. CASE PopDownItem
  <2>1. Tail(m_downQueue) \in Seq(Segments)
    BY <1>18, HeadTailProperties DEF PopDownItem, MoveInv
  <2>2. QED BY <1>18, <2>1 DEF PopDownItem, MainPCs, Owners, monVars, queueVars, mainVars, workVars
<1>19. ASSUME NEW w \in Workers,
              TakeJob(w) \/ Fetch(w) \/ OpenFile(w) \/ OpenFails(w)
              \/ WriteFile(w) \/ SetComplete(w) \/ ClearStart(w)
       PROVE  TypeOK'
  <2>1. CASE TakeJob(w)
    BY <2>1 DEF TakeJob, othersOfWork, WorkPCs, Buffers, Contents, monVars, queueVars, mainVars, workVars
  <2>2. CASE Fetch(w)
    <3>1. PICK got \in Buffers : thInfo' = [thInfo EXCEPT ![w].readBuffer = got]
      BY <2>2 DEF Fetch, Buffers
    <3>2. thInfo' \in [Workers -> [item : 0..MaxSeg, readBuffer : Buffers,
                                   bDoComplete : BOOLEAN, bStartFlag : BOOLEAN]]
      BY <3>1
    <3>3. QED BY <2>2, <3>2 DEF Fetch, othersOfWork, WorkPCs, monVars, queueVars, mainVars
  <2>3. CASE OpenFile(w)
    BY <2>3 DEF OpenFile, othersOfWork, WorkPCs, Buffers, Contents, monVars, queueVars, mainVars, workVars
  <2>4. CASE OpenFails(w)
    BY <2>4 DEF OpenFails, othersOfWork, WorkPCs, Buffers, Contents, monVars, queueVars, mainVars, workVars
  <2>5. CASE WriteFile(w)
    BY <2>5 DEF WriteFile, othersOfWork, SlotsInv, WorkPCs, Buffers, Contents,
       monVars, queueVars, mainVars, workVars
  <2>6. CASE SetComplete(w)
    BY <2>6 DEF SetComplete, othersOfWork, WorkPCs, Buffers, Contents, monVars, queueVars, mainVars, workVars
  <2>7. CASE ClearStart(w)
    BY <2>7 DEF ClearStart, othersOfWork, WorkPCs, Buffers, Contents, monVars, queueVars, mainVars, workVars
  <2>8. QED BY <1>19, <2>1, <2>2, <2>3, <2>4, <2>5, <2>6, <2>7
<1>20. CASE UNCHANGED vars
  BY <1>20 DEF vars, monVars, queueVars, mainVars, workVars
<1>21. QED BY NextCases, <1>1, <1>2, <1>3, <1>4, <1>5, <1>6, <1>7, <1>8, <1>9, <1>10, <1>11, <1>12, <1>13, <1>14, <1>15, <1>16, <1>17, <1>18, <1>19, <1>20

-----------------------------------------------------------------------------
(* Every action preserves the other parts of the invariant.                *)

\* The locks are held where the threads are.
LEMMA LocksStep == ASSUME IInv, NEW pinned, [StepWith(pinned)]_vars PROVE LocksInv'
<1> USE DEF IInv, LocksInv, monVars, queueVars, mainVars, workVars, othersOfWork
<1>1. CASE Publish
  BY <1>1 DEF Publish
<1>2. CASE Poll
  BY <1>2 DEF Poll
<1>3. CASE GetIndexOk
  BY <1>3 DEF GetIndexOk
<1>4. CASE GetIndexFails
  BY <1>4 DEF GetIndexFails
<1>5. CASE PublishBuffer
  BY <1>5 DEF PublishBuffer
<1>6. CASE SaveIndex
  BY <1>6 DEF SaveIndex
<1>7. CASE OnCallbackM3u8Change
  BY <1>7 DEF OnCallbackM3u8Change
<1>8. CASE AddItems
  BY <1>8 DEF AddItems
<1>9. CASE StartMonitor
  BY <1>9 DEF StartMonitor, SlotsInv
<1>10. CASE SpawnWorkers
  BY <1>10 DEF SpawnWorkers
<1>11. CASE GetDownloadFristObject
  BY <1>11 DEF GetDownloadFristObject
<1>12. CASE ScanSlot
  BY <1>12 DEF ScanSlot
<1>13. CASE ResetSlot
  BY <1>13 DEF ResetSlot
<1>14. CASE StartSlot
  BY <1>14 DEF StartSlot
<1>15. CASE RemoveBegin
  BY <1>15 DEF RemoveBegin
<1>16. CASE PushComplete
  BY <1>16 DEF PushComplete
<1>17. CASE EvictOldest(pinned)
  BY <1>17 DEF EvictOldest
<1>18. CASE PopDownItem
  BY <1>18 DEF PopDownItem
<1>19. ASSUME NEW w \in Workers,
              TakeJob(w) \/ Fetch(w) \/ OpenFile(w) \/ OpenFails(w)
              \/ WriteFile(w) \/ SetComplete(w) \/ ClearStart(w)
       PROVE  LocksInv'
  BY <1>19 DEF TakeJob, Fetch, OpenFile, OpenFails, WriteFile, SetComplete,
     ClearStart
<1>20. CASE UNCHANGED vars
  BY <1>20 DEF vars
<1>21. QED BY NextCases, <1>1, <1>2, <1>3, <1>4, <1>5, <1>6, <1>7, <1>8, <1>9, <1>10, <1>11,
    <1>12, <1>13, <1>14, <1>15, <1>16, <1>17, <1>18, <1>19, <1>20

\* A slot is filled in only while its worker is parked.
LEMMA SlotsStep == ASSUME IInv, NEW pinned, [StepWith(pinned)]_vars PROVE SlotsInv'
<1> USE DEF IInv, SlotsInv, TypeOK, LocksInv, monVars, queueVars, mainVars, workVars, othersOfWork
<1>1. CASE Publish
  BY <1>1 DEF Publish
<1>2. CASE Poll
  BY <1>2 DEF Poll
<1>3. CASE GetIndexOk
  BY <1>3 DEF GetIndexOk
<1>4. CASE GetIndexFails
  BY <1>4 DEF GetIndexFails
<1>5. CASE PublishBuffer
  BY <1>5 DEF PublishBuffer
<1>6. CASE SaveIndex
  BY <1>6 DEF SaveIndex
<1>7. CASE OnCallbackM3u8Change
  BY <1>7 DEF OnCallbackM3u8Change
<1>8. CASE AddItems
  BY <1>8 DEF AddItems
<1>9. CASE StartMonitor
  BY <1>9 DEF StartMonitor
<1>10. CASE SpawnWorkers
  BY <1>10 DEF SpawnWorkers
<1>11. CASE GetDownloadFristObject
  BY <1>11 DEF GetDownloadFristObject
<1>12. CASE ScanSlot
  BY <1>12 DEF ScanSlot
<1>13. CASE ResetSlot
  BY <1>13 DEF ResetSlot
<1>14. CASE StartSlot
  BY <1>14 DEF StartSlot
<1>15. CASE RemoveBegin
  BY <1>15 DEF RemoveBegin
<1>16. CASE PushComplete
  BY <1>16 DEF PushComplete
<1>17. CASE EvictOldest(pinned)
  BY <1>17 DEF EvictOldest
<1>18. CASE PopDownItem
  BY <1>18 DEF PopDownItem
<1>19. ASSUME NEW w \in Workers,
              TakeJob(w) \/ Fetch(w) \/ OpenFile(w) \/ OpenFails(w)
              \/ WriteFile(w) \/ SetComplete(w) \/ ClearStart(w)
       PROVE  SlotsInv'
  <2>1. CASE TakeJob(w)
    BY <2>1 DEF TakeJob
  <2>2. CASE Fetch(w)
    BY <2>2 DEF Fetch
  <2>3. CASE OpenFile(w)
    BY <2>3 DEF OpenFile
  <2>4. CASE OpenFails(w)
    BY <2>4 DEF OpenFails
  <2>5. CASE WriteFile(w)
    BY <2>5 DEF WriteFile
  <2>6. CASE SetComplete(w)
    BY <2>6 DEF SetComplete
  <2>7. CASE ClearStart(w)
    BY <2>7 DEF ClearStart
  <2>8. QED BY <1>19, <2>1, <2>2, <2>3, <2>4, <2>5, <2>6, <2>7
<1>20. CASE UNCHANGED vars
  BY <1>20 DEF vars
<1>21. QED BY NextCases, <1>1, <1>2, <1>3, <1>4, <1>5, <1>6, <1>7, <1>8, <1>9, <1>10, <1>11,
    <1>12, <1>13, <1>14, <1>15, <1>16, <1>17, <1>18, <1>19, <1>20

\* What was peeked stays at the front until it is popped: in between the
\* monitor only appends.
LEMMA PeekStep == ASSUME IInv, NEW pinned, [StepWith(pinned)]_vars PROVE PeekedIsPopped'
<1> USE DEF IInv, PeekedIsPopped, LocksInv, monVars, queueVars, mainVars, workVars, othersOfWork
<1>1. CASE Publish
  BY <1>1 DEF Publish
<1>2. CASE Poll
  BY <1>2 DEF Poll
<1>3. CASE GetIndexOk
  BY <1>3 DEF GetIndexOk
<1>4. CASE GetIndexFails
  BY <1>4 DEF GetIndexFails
<1>5. CASE PublishBuffer
  BY <1>5 DEF PublishBuffer
<1>6. CASE SaveIndex
  BY <1>6 DEF SaveIndex
<1>7. CASE OnCallbackM3u8Change
  BY <1>7 DEF OnCallbackM3u8Change
<1>8. CASE AddItems
  <2>1. m_downQueue \in Seq(Segments)
    BY DEF TypeOK
  <2>2. PICK added \in Seq(Segments) : m_downQueue' = m_downQueue \o added
    BY <1>8, AddItemsFacts
  <2>3. m_downQueue # <<>> =>
          m_downQueue' # <<>> /\ Head(m_downQueue') = Head(m_downQueue)
    BY <2>1, <2>2, HeadConcat
  <2>4. QED BY <1>8, <2>3 DEF AddItems
<1>9. CASE StartMonitor
  BY <1>9 DEF StartMonitor
<1>10. CASE SpawnWorkers
  BY <1>10 DEF SpawnWorkers
<1>11. CASE GetDownloadFristObject
  BY <1>11 DEF GetDownloadFristObject
<1>12. CASE ScanSlot
  BY <1>12 DEF ScanSlot
<1>13. CASE ResetSlot
  BY <1>13 DEF ResetSlot
<1>14. CASE StartSlot
  BY <1>14 DEF StartSlot
<1>15. CASE RemoveBegin
  BY <1>15 DEF RemoveBegin
<1>16. CASE PushComplete
  BY <1>16 DEF PushComplete
<1>17. CASE EvictOldest(pinned)
  BY <1>17 DEF EvictOldest
<1>18. CASE PopDownItem
  BY <1>18 DEF PopDownItem
<1>19. ASSUME NEW w \in Workers,
              TakeJob(w) \/ Fetch(w) \/ OpenFile(w) \/ OpenFails(w)
              \/ WriteFile(w) \/ SetComplete(w) \/ ClearStart(w)
       PROVE  PeekedIsPopped'
  BY <1>19 DEF TakeJob, Fetch, OpenFile, OpenFails, WriteFile, SetComplete,
     ClearStart
<1>20. CASE UNCHANGED vars
  BY <1>20 DEF vars
<1>21. QED BY NextCases, <1>1, <1>2, <1>3, <1>4, <1>5, <1>6, <1>7, <1>8, <1>9, <1>10, <1>11,
    <1>12, <1>13, <1>14, <1>15, <1>16, <1>17, <1>18, <1>19, <1>20

\* While the front is moved it is the back of the completed queue.
LEMMA MoveStep == ASSUME IInv, NEW pinned, [StepWith(pinned)]_vars PROVE MoveInv'
<1> USE DEF IInv, MoveInv, LocksInv, monVars, queueVars, mainVars, workVars, othersOfWork
<1>1. CASE Publish
  BY <1>1 DEF Publish
<1>2. CASE Poll
  BY <1>2 DEF Poll
<1>3. CASE GetIndexOk
  BY <1>3 DEF GetIndexOk
<1>4. CASE GetIndexFails
  BY <1>4 DEF GetIndexFails
<1>5. CASE PublishBuffer
  BY <1>5 DEF PublishBuffer
<1>6. CASE SaveIndex
  BY <1>6 DEF SaveIndex
<1>7. CASE OnCallbackM3u8Change
  BY <1>7 DEF OnCallbackM3u8Change
<1>8. CASE AddItems
  BY <1>8 DEF AddItems
<1>9. CASE StartMonitor
  BY <1>9 DEF StartMonitor
<1>10. CASE SpawnWorkers
  BY <1>10 DEF SpawnWorkers
<1>11. CASE GetDownloadFristObject
  BY <1>11 DEF GetDownloadFristObject
<1>12. CASE ScanSlot
  BY <1>12 DEF ScanSlot
<1>13. CASE ResetSlot
  BY <1>13 DEF ResetSlot
<1>14. CASE StartSlot
  BY <1>14 DEF StartSlot
<1>15. CASE RemoveBegin
  BY <1>15 DEF RemoveBegin
<1>16. CASE PushComplete
  <2>1. m_downQueue # <<>> /\ m_compelteQueue \in Seq(Segments)
    BY <1>16 DEF PushComplete, PeekedIsPopped, TypeOK
  <2>2. Head(m_downQueue) \in Segments
    BY <2>1, HeadTailProperties DEF TypeOK
  <2>3. QED BY <1>16, <2>1, <2>2, AppendProperties DEF PushComplete
<1>17. CASE EvictOldest(pinned)
  <2>1. m_compelteQueue \in Seq(Segments) /\ Len(m_compelteQueue) > 1
    BY <1>17, QueueSizes, LenProperties DEF EvictOldest, TypeOK
  <2>2. QED BY <1>17, <2>1, BackOfTail DEF EvictOldest
<1>18. CASE PopDownItem
  BY <1>18 DEF PopDownItem
<1>19. ASSUME NEW w \in Workers,
              TakeJob(w) \/ Fetch(w) \/ OpenFile(w) \/ OpenFails(w)
              \/ WriteFile(w) \/ SetComplete(w) \/ ClearStart(w)
       PROVE  MoveInv'
  BY <1>19 DEF TakeJob, Fetch, OpenFile, OpenFails, WriteFile, SetComplete,
     ClearStart
<1>20. CASE UNCHANGED vars
  BY <1>20 DEF vars
<1>21. QED BY NextCases, <1>1, <1>2, <1>3, <1>4, <1>5, <1>6, <1>7, <1>8, <1>9, <1>10, <1>11,
    <1>12, <1>13, <1>14, <1>15, <1>16, <1>17, <1>18, <1>19, <1>20

\* A playlist runs between numbers.
LEMMA PlaylistInts ==
  ASSUME NEW w \in PlaylistType PROVE w.first \in Int /\ w.last \in Int
BY Sizes DEF PlaylistType, Windows

\* Stamps are positive.
LEMMA StampType ==
  ASSUME NEW w \in PlaylistType PROVE Stamp(w) \in Int /\ Stamp(w) > 0
<1>1. w.last \in 0..MaxSeg
  BY DEF PlaylistType, Windows
<1>2. QED BY <1>1, Sizes DEF Stamp

\* Being not ahead carries over from one copy to the next, and to the stamps.
LEMMA NotAheadTrans ==
  ASSUME NEW u \in PlaylistType, NEW v \in PlaylistType, NEW w \in PlaylistType,
         NotAhead(u, v), NotAhead(v, w)
  PROVE  NotAhead(u, w) /\ Stamp(v) <= Stamp(w)
<1> DEFINE uf == u.first  ul == u.last
           vf == v.first  vl == v.last
           wf == w.first  wl == w.last
<1>1. /\ uf \in Int /\ ul \in Int /\ vf \in Int /\ vl \in Int
      /\ wf \in Int /\ wl \in Int
  BY Sizes DEF PlaylistType, Windows
<1>2. uf <= vf /\ ul <= vl /\ vf <= wf /\ vl <= wl
  BY DEF NotAhead
<1> HIDE DEF uf, ul, vf, vl, wf, wl
<1>3. uf <= wf /\ ul <= wl /\ vl + 1 <= wl + 1
  BY <1>1, <1>2
<1>4. QED BY <1>3 DEF NotAhead, Stamp, uf, ul, vf, vl, wf, wl

\* No playlist is ahead of itself.
LEMMA NotAheadSelf ==
  ASSUME NEW w \in PlaylistType PROVE NotAhead(w, w)
BY PlaylistInts DEF NotAhead

\* The upstream only goes forward.
LEMMA PublishForward ==
  ASSUME TypeOK, Publish PROVE up' \in PlaylistType /\ NotAhead(up, up')
<1>1. PICK f \in up.first..MaxSeg, l \in (up.last + 1)..MaxSeg :
        f <= l /\ up' = [first |-> f, last |-> l]
  BY DEF Publish
<1>2. up.first \in 1..(MaxSeg + 1) /\ up.last \in 0..MaxSeg
  BY DEF TypeOK, PlaylistType, Windows
<1>3. f \in 1..(MaxSeg + 1) /\ l \in 0..MaxSeg /\ f <= l + 1
  BY <1>1, <1>2, Sizes
<1>4. up'.first = f /\ up'.last = l
  BY <1>1
<1>5. up.first <= f /\ up.last <= l
  BY <1>1, <1>2, Sizes
<1>6. QED BY <1>1, <1>3, <1>4, <1>5 DEF PlaylistType, Windows, NotAhead

\* No copy of the playlist is ahead of the one it was made from, and a GET is
\* only made for a stamp newer than the published one.
LEMMA PlaylistStep == ASSUME IInv, NEW pinned, [StepWith(pinned)]_vars PROVE PlaylistInv'
<1> USE DEF IInv, PlaylistInv, TypeOK, monVars, queueVars, mainVars, workVars, othersOfWork
<1>1. CASE Publish
  <2>1. up' \in PlaylistType /\ NotAhead(up, up') /\ UNCHANGED monVars
    BY <1>1, PublishForward DEF Publish
  <2>2. NotAhead(strBuffer, up') /\ Stamp(up) <= Stamp(up')
    BY <2>1, NotAheadTrans
  <2>3. llTime \in Int /\ Stamp(up) \in Int /\ Stamp(up') \in Int
    BY <2>1, StampType, Sizes
  <2>4. llTime <= Stamp(up')
    BY <2>2, <2>3
  <2>5. QED BY <2>1, <2>2, <2>4 DEF NotAhead, BodyNotOlderThanStamp, Stamp
<1>2. CASE Poll
  <2>1. /\ Stamp(up) \in Int /\ llTime \in Int /\ m_llLastModifyTime \in Int
        /\ Stamp(up) > 0
    BY StampType, Sizes
  <2>2. CASE UNCHANGED <<llTime, pcMon>>
    BY <1>2, <2>2 DEF Poll, NotAhead, BodyNotOlderThanStamp
  <2>3. CASE Stamp(up) # llTime /\ llTime' = Stamp(up) /\ pcMon' = "get"
    <3>1. m_llLastModifyTime < Stamp(up)
      BY <2>1, <2>3
    <3>2. QED BY <1>2, <2>1, <2>3, <3>1 DEF Poll, NotAhead, BodyNotOlderThanStamp
  <2>4. QED BY <1>2, <2>2, <2>3 DEF Poll
<1>3. CASE GetIndexOk
  <2>1. /\ pcMon = "get" /\ pcMon' = "publish" /\ strBuffer' = up
        /\ UNCHANGED <<up, llTime, m_strBuffer, m_llLastModifyTime, m_s_hlsList>>
    BY <1>3 DEF GetIndexOk
  <2>2. NotAhead(up, up)
    BY NotAheadSelf
  <2>3. NotAhead(m_strBuffer, up) /\ NotAhead(m_s_hlsList, up)
    BY NotAheadTrans
  <2>4. QED BY <2>1, <2>2, <2>3 DEF BodyNotOlderThanStamp
<1>4. CASE GetIndexFails
  BY <1>4 DEF GetIndexFails, BodyNotOlderThanStamp
<1>5. CASE PublishBuffer
  <2>1. /\ pcMon = "publish" /\ pcMon' = "save"
        /\ m_strBuffer' = strBuffer /\ m_llLastModifyTime' = llTime
        /\ UNCHANGED <<up, llTime, strBuffer, m_s_hlsList>>
    BY <1>5 DEF PublishBuffer
  <2>2. NotAhead(strBuffer, strBuffer)
    BY NotAheadSelf
  <2>3. llTime \in Int /\ Stamp(strBuffer) \in Int
    BY StampType, Sizes
  <2>4. BodyNotOlderThanStamp'
    BY <2>1, <2>3 DEF BodyNotOlderThanStamp, Stamp
  <2>5. llTime # -1
    BY <2>1
  <2>6. QED BY <2>1, <2>2, <2>3, <2>4, <2>5
<1>6. CASE SaveIndex
  BY <1>6 DEF SaveIndex, BodyNotOlderThanStamp
<1>7. CASE OnCallbackM3u8Change
  <2>1. NotAhead(strBuffer, strBuffer)
    BY NotAheadSelf
  <2>2. QED BY <1>7, <2>1 DEF OnCallbackM3u8Change, BodyNotOlderThanStamp
<1>8. CASE AddItems
  BY <1>8 DEF AddItems, BodyNotOlderThanStamp
<1>9. CASE StartMonitor
  BY <1>9 DEF StartMonitor, BodyNotOlderThanStamp, SlotsInv
<1>10. CASE SpawnWorkers
  BY <1>10 DEF SpawnWorkers, BodyNotOlderThanStamp
<1>11. CASE GetDownloadFristObject
  BY <1>11 DEF GetDownloadFristObject, BodyNotOlderThanStamp
<1>12. CASE ScanSlot
  BY <1>12 DEF ScanSlot, BodyNotOlderThanStamp
<1>13. CASE ResetSlot
  BY <1>13 DEF ResetSlot, BodyNotOlderThanStamp
<1>14. CASE StartSlot
  BY <1>14 DEF StartSlot, BodyNotOlderThanStamp
<1>15. CASE RemoveBegin
  BY <1>15 DEF RemoveBegin, BodyNotOlderThanStamp
<1>16. CASE PushComplete
  BY <1>16 DEF PushComplete, BodyNotOlderThanStamp
<1>17. CASE EvictOldest(pinned)
  BY <1>17 DEF EvictOldest, BodyNotOlderThanStamp
<1>18. CASE PopDownItem
  BY <1>18 DEF PopDownItem, BodyNotOlderThanStamp
<1>19. ASSUME NEW w \in Workers,
              TakeJob(w) \/ Fetch(w) \/ OpenFile(w) \/ OpenFails(w)
              \/ WriteFile(w) \/ SetComplete(w) \/ ClearStart(w)
       PROVE  PlaylistInv'
  <2>1. UNCHANGED <<up, monVars>>
    BY <1>19 DEF TakeJob, Fetch, OpenFile, OpenFails, WriteFile, SetComplete, ClearStart
  <2>2. QED BY <2>1 DEF BodyNotOlderThanStamp
<1>20. CASE UNCHANGED vars
  BY <1>20 DEF vars, BodyNotOlderThanStamp
<1>21. QED BY NextCases, <1>1, <1>2, <1>3, <1>4, <1>5, <1>6, <1>7, <1>8, <1>9, <1>10, <1>11,
    <1>12, <1>13, <1>14, <1>15, <1>16, <1>17, <1>18, <1>19, <1>20

\* What the queues are made of, in the form the lemmas on queues ask for.
LEMMA QueueFacts ==
  ASSUME IInv
  PROVE  /\ Segments \subseteq Int
         /\ m_downQueue \in Seq(Segments) /\ m_compelteQueue \in Seq(Segments)
         /\ Items(m_downQueue) \subseteq Int /\ Items(m_compelteQueue) \subseteq Int
         /\ Increasing(m_downQueue) /\ Increasing(m_compelteQueue)
         /\ m_downQueue # <<>> =>
              /\ Head(m_downQueue) \in Segments
              /\ Head(m_downQueue) \in Items(m_downQueue)
              /\ Tail(m_downQueue) \in Seq(Segments)
              /\ Items(Tail(m_downQueue)) \subseteq Items(m_downQueue)
              /\ Increasing(Tail(m_downQueue))
              /\ \A b \in Items(Tail(m_downQueue)) : Head(m_downQueue) < b
<1>1. /\ Segments \subseteq Int
      /\ m_downQueue \in Seq(Segments) /\ m_compelteQueue \in Seq(Segments)
      /\ Increasing(m_downQueue) /\ Increasing(m_compelteQueue)
  BY DEF IInv, TypeOK, OrderInv, Segments
<1>2. Items(m_downQueue) \subseteq Int /\ Items(m_compelteQueue) \subseteq Int
  BY <1>1, ItemsType
<1>3. ASSUME m_downQueue # <<>>
      PROVE  /\ Head(m_downQueue) \in Segments
             /\ Head(m_downQueue) \in Items(m_downQueue)
             /\ Tail(m_downQueue) \in Seq(Segments)
             /\ Items(Tail(m_downQueue)) \subseteq Items(m_downQueue)
             /\ Increasing(Tail(m_downQueue))
             /\ \A b \in Items(Tail(m_downQueue)) : Head(m_downQueue) < b
  BY <1>1, <1>3, HeadTailProperties, ItemsHeadTail, IncreasingTail
<1>4. QED BY <1>1, <1>2, <1>3

\* What the monitor appends is newer than all that is queued, and the queue
\* stays in order.
LEMMA AddItemsOrdered ==
  ASSUME IInv, AddItems
  PROVE  \E added \in Seq(Segments) :
           /\ m_downQueue' = m_downQueue \o added
           /\ Items(m_downQueue') = Items(m_downQueue) \cup Items(added)
           /\ Len(m_downQueue') <= DOWN_NUM
           /\ Increasing(m_downQueue')
           /\ \A s \in Items(added) :
                /\ StrLast(m_downQueue, m_compelteQueue) < s
                /\ \A a \in Items(m_compelteQueue) \cup Items(m_downQueue) : a < s
                /\ s <= m_s_hlsList.last /\ s <= m_s_hlsList.first + DOWN_NUM - 1
<1>1. /\ Segments \subseteq Int
      /\ m_downQueue \in Seq(Segments) /\ m_compelteQueue \in Seq(Segments)
      /\ Items(m_downQueue) \subseteq Int /\ Items(m_compelteQueue) \subseteq Int
      /\ Increasing(m_downQueue) /\ Increasing(m_compelteQueue)
  BY QueueFacts
<1>2. \A a \in Items(m_compelteQueue), b \in Items(m_downQueue) : a < b
  BY DEF IInv, LocksInv, OrderInv, AddItems
<1>3. PICK added \in Seq(Segments) :
        /\ m_downQueue' = m_downQueue \o added
        /\ Len(m_downQueue') <= DOWN_NUM
        /\ Increasing(added)
        /\ \A s \in Items(added) :
             /\ StrLast(m_downQueue, m_compelteQueue) < s
             /\ s <= m_s_hlsList.last
             /\ s <= m_s_hlsList.first + DOWN_NUM - 1
  BY AddItemsFacts
<1>4. /\ Items(added) \subseteq Int
      /\ Items(m_downQueue') = Items(m_downQueue) \cup Items(added)
  <2>1. Items(added) \subseteq Segments
    BY <1>3, ItemsType
  <2>2. Items(m_downQueue \o added) = Items(m_downQueue) \cup Items(added)
    BY <1>1, <1>3, ItemsConcat
  <2>3. QED BY <1>1, <1>3, <2>1, <2>2
<1>5. StrLast(m_downQueue, m_compelteQueue) \in Int
  BY <1>1, Sizes, StrLastType DEF Segments
<1>6. \A a \in Items(m_compelteQueue) \cup Items(m_downQueue) :
        a <= StrLast(m_downQueue, m_compelteQueue)
  BY <1>1, <1>2, StrLastIsNewest
<1>7. \A s \in Items(added), a \in Items(m_compelteQueue) \cup Items(m_downQueue) : a < s
  BY <1>1, <1>3, <1>4, <1>5, <1>6
<1>8. Increasing(m_downQueue')
  BY <1>1, <1>3, <1>7, IncreasingConcat
<1>9. QED BY <1>3, <1>4, <1>7, <1>8

\* The queues stay in order and within bounds.
LEMMA OrderStep == ASSUME IInv, NEW pinned, [StepWith(pinned)]_vars PROVE OrderInv'
<1> USE DEF IInv, OrderInv, QueuesBounded, LocksInv, monVars, queueVars, mainVars, workVars, othersOfWork
<1>1. CASE Publish
  BY <1>1 DEF Publish
<1>2. CASE Poll
  BY <1>2 DEF Poll
<1>3. CASE GetIndexOk
  BY <1>3 DEF GetIndexOk
<1>4. CASE GetIndexFails
  BY <1>4 DEF GetIndexFails
<1>5. CASE PublishBuffer
  BY <1>5 DEF PublishBuffer
<1>6. CASE SaveIndex
  BY <1>6 DEF SaveIndex
<1>7. CASE OnCallbackM3u8Change
  <2>1. /\ m_s_hlsList' = strBuffer /\ NotAhead(m_s_hlsList, strBuffer)
        /\ UNCHANGED <<m_downQueue, m_compelteQueue, pcMain, compLock>>
    BY <1>7 DEF OnCallbackM3u8Change, PlaylistInv
  <2>2. ASSUME NEW a \in Items(m_compelteQueue) \cup Items(m_downQueue)
        PROVE  a <= strBuffer.last /\ a <= strBuffer.first + DOWN_NUM - 1
    <3>1. /\ m_s_hlsList.first \in Int /\ m_s_hlsList.last \in Int
          /\ strBuffer.first \in Int /\ strBuffer.last \in Int
          /\ DOWN_NUM \in Int /\ a \in Int
      <4>1. m_s_hlsList \in PlaylistType /\ strBuffer \in PlaylistType
        BY DEF TypeOK
      <4>2. a \in Int
        BY QueueFacts
      <4>3. QED BY <4>1, <4>2, QueueSizes, PlaylistInts
    <3>2. /\ m_s_hlsList.first <= strBuffer.first /\ m_s_hlsList.last <= strBuffer.last
          /\ a <= m_s_hlsList.last /\ a <= m_s_hlsList.first + DOWN_NUM - 1
      BY <2>1 DEF NotAhead
    <3>3. QED BY <3>1, <3>2
  <2>3. QED BY <2>1, <2>2
<1>8. CASE AddItems
  <2>1. PICK added \in Seq(Segments) :
          /\ Items(m_downQueue') = Items(m_downQueue) \cup Items(added)
          /\ Len(m_downQueue') <= DOWN_NUM
          /\ Increasing(m_downQueue')
          /\ \A s \in Items(added) :
               /\ \A a \in Items(m_compelteQueue) \cup Items(m_downQueue) : a < s
               /\ s <= m_s_hlsList.last /\ s <= m_s_hlsList.first + DOWN_NUM - 1
    BY <1>8, AddItemsOrdered
  <2>2. QED BY <1>8, <2>1 DEF AddItems
<1>9. CASE StartMonitor
  BY <1>9 DEF StartMonitor
<1>10. CASE SpawnWorkers
  BY <1>10 DEF SpawnWorkers
<1>11. CASE GetDownloadFristObject
  BY <1>11 DEF GetDownloadFristObject
<1>12. CASE ScanSlot
  BY <1>12 DEF ScanSlot
<1>13. CASE ResetSlot
  BY <1>13 DEF ResetSlot
<1>14. CASE StartSlot
  BY <1>14 DEF StartSlot
<1>15. CASE RemoveBegin
  BY <1>15 DEF RemoveBegin
<1>16. CASE PushComplete
  <2>1. m_downQueue # <<>>
    BY <1>16 DEF PushComplete, PeekedIsPopped
  <2>2. /\ Increasing(m_compelteQueue')
        /\ Items(m_compelteQueue') = Items(m_compelteQueue) \cup {Head(m_downQueue)}
    BY <1>16, <2>1, QueueFacts, IncreasingAppend, ItemsAppend DEF PushComplete
  <2>3. QED BY <1>16, <2>1, <2>2, QueueFacts DEF PushComplete
<1>17. CASE EvictOldest(pinned)
  <2>1. m_compelteQueue # <<>> /\ m_compelteQueue \in Seq(Segments)
    BY <1>17, QueueFacts DEF EvictOldest, MoveInv
  <2>2. /\ Increasing(Tail(m_compelteQueue))
        /\ Items(Tail(m_compelteQueue)) \subseteq Items(m_compelteQueue)
    BY <2>1, QueueFacts, IncreasingTail, ItemsHeadTail
  <2>3. QED BY <1>17, <2>2 DEF EvictOldest
<1>18. CASE PopDownItem
  <2>1. /\ m_downQueue # <<>> /\ m_compelteQueue # <<>>
        /\ m_compelteQueue[Len(m_compelteQueue)] = Head(m_downQueue)
    BY <1>18 DEF PopDownItem, MoveInv
  <2>2. \A a \in Items(m_compelteQueue) : a <= Head(m_downQueue)
    BY <2>1, QueueFacts, BackIsNewest
  <2>3. \A a \in Items(m_compelteQueue), b \in Items(Tail(m_downQueue)) : a < b
    BY <2>1, <2>2, QueueFacts
  <2>4. Len(Tail(m_downQueue)) <= DOWN_NUM
    BY <2>1, QueueFacts, QueueSizes, HeadTailProperties, LenProperties
  <2>5. QED BY <1>18, <2>1, <2>3, <2>4, QueueFacts DEF PopDownItem
<1>19. ASSUME NEW w \in Workers,
              TakeJob(w) \/ Fetch(w) \/ OpenFile(w) \/ OpenFails(w)
              \/ WriteFile(w) \/ SetComplete(w) \/ ClearStart(w)
       PROVE  OrderInv'
  BY <1>19 DEF TakeJob, Fetch, OpenFile, OpenFails, WriteFile, SetComplete,
     ClearStart
<1>20. CASE UNCHANGED vars
  BY <1>20 DEF vars
<1>21. QED BY NextCases, <1>1, <1>2, <1>3, <1>4, <1>5, <1>6, <1>7, <1>8, <1>9, <1>10, <1>11,
    <1>12, <1>13, <1>14, <1>15, <1>16, <1>17, <1>18, <1>19, <1>20

\* The newest segment queued only gets newer.
LEMMA StrLastGrows ==
  ASSUME IInv, AddItems
  PROVE  StrLast(m_downQueue, m_compelteQueue) <= StrLast(m_downQueue', m_compelteQueue)
<1> DEFINE old == StrLast(m_downQueue, m_compelteQueue)
           new == StrLast(m_downQueue', m_compelteQueue)
<1>1. /\ Segments \subseteq Int
      /\ m_downQueue \in Seq(Segments) /\ m_compelteQueue \in Seq(Segments)
      /\ Increasing(m_compelteQueue)
      /\ m_downQueue' \in Seq(Segments)
  BY QueueFacts, AddItemsType
<1>2. old \in 0..MaxSeg /\ new \in 0..MaxSeg
  BY <1>1, Sizes, StrLastType DEF Segments
<1>3. PICK added \in Seq(Segments) :
        /\ Items(m_downQueue') = Items(m_downQueue) \cup Items(added)
        /\ Increasing(m_downQueue')
        /\ \A s \in Items(added), a \in Items(m_compelteQueue) : a < s
  BY AddItemsOrdered
<1>4. \A a \in Items(m_compelteQueue), b \in Items(m_downQueue') : a < b
  BY <1>3 DEF IInv, LocksInv, OrderInv, AddItems
<1>5. \A a \in Items(m_compelteQueue) \cup Items(m_downQueue') : a <= new
  BY <1>1, <1>3, <1>4, StrLastIsNewest
<1>6. CASE m_downQueue = <<>> /\ m_compelteQueue = <<>>
  <2>1. old = 0
    BY <1>1, <1>6, Sizes, StrLastType DEF Segments, NoSegment
  <2>2. QED BY <1>2, <2>1
<1>7. CASE ~(m_downQueue = <<>> /\ m_compelteQueue = <<>>)
  <2>1. old \in Items(m_compelteQueue) \cup Items(m_downQueue)
    BY <1>1, <1>7, Sizes, StrLastType DEF Segments
  <2>2. QED BY <1>3, <1>5, <2>1
<1>8. QED BY <1>6, <1>7

\* What is still to be handed out after the monitor appended was so before,
\* or is new.
LEMMA RemainingGrows ==
  ASSUME IInv, AddItems
  PROVE  \A b \in Items(Remaining)' :
           b \in Items(Remaining) \/ StrLast(m_downQueue, m_compelteQueue) < b
<1>1. PICK added \in Seq(Segments) :
        /\ m_downQueue' = m_downQueue \o added
        /\ Items(m_downQueue') = Items(m_downQueue) \cup Items(added)
        /\ Increasing(m_downQueue')
        /\ \A s \in Items(added) : StrLast(m_downQueue, m_compelteQueue) < s
  BY AddItemsOrdered
<1>2. pcMain' = pcMain /\ (HandedOut => pcMain = "remove")
  BY DEF AddItems, mainVars, HandedOut, IInv, LocksInv
<1>3. CASE ~HandedOut
  BY <1>1, <1>2, <1>3 DEF Remaining, HandedOut
<1>4. CASE HandedOut
  <2>1. m_downQueue # <<>> /\ m_downQueue \in Seq(Segments)
    BY <1>2, <1>4, QueueFacts DEF IInv, PeekedIsPopped
  <2>2. /\ m_downQueue' \in Seq(Segments)
        /\ m_downQueue' # <<>> /\ Head(m_downQueue') = Head(m_downQueue)
    BY <1>1, <2>1, HeadConcat, AddItemsType
  <2>3. SUFFICES ASSUME NEW b \in Items(Tail(m_downQueue'))
                 PROVE  \/ b \in Items(Tail(m_downQueue))
                        \/ StrLast(m_downQueue, m_compelteQueue) < b
    BY <1>2, <1>4 DEF Remaining, HandedOut
  <2>4. Segments \subseteq Int /\ Head(m_downQueue) \in Int
    BY <2>1, QueueFacts
  <2>5. Head(m_downQueue) < b /\ b \in Items(m_downQueue')
    BY <1>1, <2>2, <2>4, IncreasingTail, ItemsHeadTail
  <2>6. b # Head(m_downQueue)
    BY <2>4, <2>5
  <2>7. QED BY <1>1, <2>1, <2>5, <2>6, ItemsSplit
<1>5. QED BY <1>3, <1>4

\* Numbers that are compared are numbers.
LEMMA StrLastInt ==
  ASSUME IInv PROVE StrLast(m_downQueue, m_compelteQueue) \in Int
BY QueueFacts, Sizes, StrLastType DEF Segments

\* StrLast is still a number after the monitor appended.
LEMMA StrLastIntAfter ==
  ASSUME IInv, AddItems PROVE StrLast(m_downQueue', m_compelteQueue) \in Int
BY QueueFacts, AddItemsType, Sizes, StrLastType DEF Segments

\* A slot's segment is a number, NoSegment included.
LEMMA ItemInt ==
  ASSUME IInv PROVE \A w \in Workers : thInfo[w].item \in Int
BY Sizes DEF IInv, TypeOK

\* So is all that remains to be handed out after the monitor appended.
LEMMA RemainingInt ==
  ASSUME IInv, AddItems PROVE \A b \in Items(Remaining)' : b \in Int
<1>1. m_downQueue' \in Seq(Segments) /\ Segments \subseteq Int
  BY AddItemsType, QueueFacts
<1>2. Items(m_downQueue') \subseteq Int
  BY <1>1, ItemsType
<1>3. (HandedOut => pcMain = "remove") /\ pcMain' = pcMain
  BY DEF HandedOut, IInv, LocksInv, AddItems, mainVars
<1>4. CASE ~HandedOut
  BY <1>2, <1>3, <1>4 DEF Remaining, HandedOut
<1>5. CASE HandedOut
  <2>1. m_downQueue # <<>>
    BY <1>3, <1>5 DEF IInv, PeekedIsPopped
  <2>2. m_downQueue' # <<>>
    BY <2>1, QueueFacts, AddItemsFacts, HeadConcat
  <2>3. Items(Tail(m_downQueue')) \subseteq Int
    BY <1>1, <1>2, <2>2, ItemsHeadTail
  <2>4. QED BY <1>3, <1>5, <2>3 DEF Remaining, HandedOut
<1>6. QED BY <1>4, <1>5

\* The front of the queue is older than the rest, and not newer than StrLast.
LEMMA HeadNotNewest ==
  ASSUME IInv, m_downQueue # <<>>
  PROVE  /\ Head(m_downQueue) <= StrLast(m_downQueue, m_compelteQueue)
         /\ \A b \in Items(Tail(m_downQueue)) : Head(m_downQueue) < b
         /\ Head(m_downQueue) \in Items(m_downQueue) /\ Head(m_downQueue) \in Int
         /\ Head(m_downQueue) \notin Items(Tail(m_downQueue))
<1>1. /\ Head(m_downQueue) \in Items(m_downQueue) /\ Head(m_downQueue) \in Int
      /\ \A b \in Items(Tail(m_downQueue)) : Head(m_downQueue) < b
  BY QueueFacts
<1>2. Head(m_downQueue) <= m_downQueue[Len(m_downQueue)]
  BY <1>1, QueueFacts, BackIsNewest
<1>3. StrLast(m_downQueue, m_compelteQueue) = m_downQueue[Len(m_downQueue)]
  BY DEF StrLast
<1>4. QED BY <1>1, <1>2, <1>3

\* Every job is older than what waits, and no two workers share one.
LEMMA JobsStep == ASSUME IInv, NEW pinned, [StepWith(pinned)]_vars PROVE JobsInv'
<1> USE DEF IInv, JobsInv, OneJobPerSegment, monVars, queueVars, mainVars, workVars, othersOfWork
<1>1. CASE Publish
  BY <1>1 DEF Publish, Remaining, HandedOut
<1>2. CASE Poll
  BY <1>2 DEF Poll, Remaining, HandedOut
<1>3. CASE GetIndexOk
  BY <1>3 DEF GetIndexOk, Remaining, HandedOut
<1>4. CASE GetIndexFails
  BY <1>4 DEF GetIndexFails, Remaining, HandedOut
<1>5. CASE PublishBuffer
  BY <1>5 DEF PublishBuffer, Remaining, HandedOut
<1>6. CASE SaveIndex
  BY <1>6 DEF SaveIndex, Remaining, HandedOut
<1>7. CASE OnCallbackM3u8Change
  BY <1>7 DEF OnCallbackM3u8Change, Remaining, HandedOut
<1>8. CASE AddItems
  <2>1. /\ StrLast(m_downQueue, m_compelteQueue) <= StrLast(m_downQueue', m_compelteQueue)
        /\ StrLast(m_downQueue, m_compelteQueue) \in Int
        /\ StrLast(m_downQueue', m_compelteQueue) \in Int
    BY <1>8, StrLastGrows, StrLastInt, StrLastIntAfter
  <2>2. UNCHANGED <<thInfo, m_compelteQueue>>
    BY <1>8 DEF AddItems
  <2>3. ASSUME NEW w \in Workers, thInfo[w].bStartFlag
        PROVE  /\ thInfo[w].item <= StrLast(m_downQueue', m_compelteQueue)
               /\ \A b \in Items(Remaining)' : thInfo[w].item < b
               /\ thInfo[w].item \notin Items(Remaining)'
    <3>1. thInfo[w].item \in Int
      BY ItemInt
    <3>2. \A b \in Items(Remaining)' : b \in Int
      BY <1>8, RemainingInt
    <3>3. thInfo[w].item <= StrLast(m_downQueue, m_compelteQueue)
      BY <2>3
    <3>4. \A b \in Items(Remaining)' : thInfo[w].item < b
      BY <1>8, <2>1, <2>3, <3>1, <3>2, <3>3, RemainingGrows
    <3>5. QED BY <2>1, <3>1, <3>3, <3>4
  <2>4. QED BY <2>2, <2>3
<1>9. CASE StartMonitor
  BY <1>9 DEF StartMonitor, Remaining, HandedOut
<1>10. CASE SpawnWorkers
  BY <1>10 DEF SpawnWorkers, Remaining, HandedOut
<1>11. CASE GetDownloadFristObject
  BY <1>11 DEF GetDownloadFristObject, Remaining, HandedOut
<1>12. CASE ScanSlot
  BY <1>12 DEF ScanSlot, Remaining, HandedOut
<1>13. CASE ResetSlot
  <2>1. ~thInfo[iSlot].bStartFlag /\ iSlot \in Workers
    BY <1>13 DEF ResetSlot, SlotsInv, TypeOK
  <2>2. /\ \A w \in Workers : thInfo'[w].bStartFlag = thInfo[w].bStartFlag
        /\ \A w \in Workers \ {iSlot} : thInfo'[w].item = thInfo[w].item
    BY <1>13 DEF ResetSlot, TypeOK
  <2>3. Remaining' = Remaining /\ UNCHANGED <<m_downQueue, m_compelteQueue>>
    BY <1>13 DEF ResetSlot, Remaining, HandedOut
  <2>4. QED BY <2>1, <2>2, <2>3
<1>14. CASE StartSlot
  <2>1. /\ m_downQueue # <<>> /\ Head(m_downQueue) = strDownItem
        /\ thInfo[iSlot].item = strDownItem /\ ~thInfo[iSlot].bStartFlag
        /\ iSlot \in Workers
    BY <1>14 DEF StartSlot, PeekedIsPopped, SlotsInv, TypeOK
  <2>2. Remaining = m_downQueue /\ Remaining' = Tail(m_downQueue)
    BY <1>14 DEF StartSlot, Remaining, HandedOut
  <2>3. /\ strDownItem <= StrLast(m_downQueue, m_compelteQueue)
        /\ \A b \in Items(Tail(m_downQueue)) : strDownItem < b
        /\ strDownItem \in Items(m_downQueue) /\ strDownItem \in Int
        /\ strDownItem \notin Items(Tail(m_downQueue))
    BY <2>1, HeadNotNewest
  <2>4. /\ thInfo' = [thInfo EXCEPT ![iSlot].bStartFlag = TRUE]
        /\ UNCHANGED <<m_downQueue, m_compelteQueue>>
    BY <1>14 DEF StartSlot
  <2>5. /\ \A w \in Workers : thInfo'[w].item = thInfo[w].item
        /\ \A w \in Workers \ {iSlot} : thInfo'[w].bStartFlag = thInfo[w].bStartFlag
    BY <2>4 DEF TypeOK
  <2>6. \A w \in Workers \ {iSlot} : thInfo'[w].bStartFlag => thInfo'[w].item < strDownItem
    BY <2>2, <2>3, <2>5
  <2>7. ASSUME NEW w \in Workers \ {iSlot}, thInfo'[w].bStartFlag
        PROVE  /\ thInfo'[w].item # strDownItem
               /\ \A b \in Items(Tail(m_downQueue)) : thInfo'[w].item < b
               /\ thInfo'[w].item \notin Items(Tail(m_downQueue))
    <3>1. thInfo'[w].item \in Int
      BY <2>5, ItemInt
    <3>2. Items(Tail(m_downQueue)) \subseteq Int
      BY <2>1, QueueFacts
    <3>3. thInfo'[w].item < strDownItem
      BY <2>6, <2>7
    <3>4. \A b \in Items(Tail(m_downQueue)) : thInfo'[w].item < b
      BY <2>3, <3>1, <3>2, <3>3
    <3>5. QED BY <2>3, <3>1, <3>3, <3>4
  <2>8. QED BY <2>1, <2>2, <2>3, <2>4, <2>5, <2>7
<1>15. CASE RemoveBegin
  <2>1. m_downQueue # <<>>
    BY <1>15 DEF RemoveBegin, PeekedIsPopped
  <2>2. QED BY <1>15, <2>1 DEF RemoveBegin, Remaining, HandedOut
<1>16. CASE PushComplete
  <2>1. m_downQueue # <<>>
    BY <1>16 DEF PushComplete, PeekedIsPopped
  <2>2. QED BY <1>16, <2>1 DEF PushComplete, StrLast, Remaining, HandedOut
<1>17. CASE EvictOldest(pinned)
  <2>1. m_downQueue # <<>>
    BY <1>17 DEF EvictOldest, MoveInv
  <2>2. QED BY <1>17, <2>1 DEF EvictOldest, StrLast, Remaining, HandedOut
<1>18. CASE PopDownItem
  <2>1. /\ m_downQueue # <<>> /\ m_compelteQueue # <<>>
        /\ m_compelteQueue[Len(m_compelteQueue)] = Head(m_downQueue)
    BY <1>18 DEF PopDownItem, MoveInv
  <2>2. StrLast(Tail(m_downQueue), m_compelteQueue) = StrLast(m_downQueue, m_compelteQueue)
    BY <2>1, QueueFacts, StrLastOfTail
  <2>3. QED BY <1>18, <2>2 DEF PopDownItem, Remaining, HandedOut
<1>19. ASSUME NEW w \in Workers,
              TakeJob(w) \/ Fetch(w) \/ OpenFile(w) \/ OpenFails(w)
              \/ WriteFile(w) \/ SetComplete(w) \/ ClearStart(w)
       PROVE  JobsInv'
  <2> DEFINE Kept == /\ \A v \in Workers : thInfo'[v].item = thInfo[v].item
                     /\ \A v \in Workers : thInfo'[v].bStartFlag => thInfo[v].bStartFlag
                     /\ UNCHANGED <<m_downQueue, m_compelteQueue, pcMain>>
  <2>1. CASE TakeJob(w)
    <3>1. Kept BY <2>1 DEF TakeJob, TypeOK
    <3>2. QED BY <3>1 DEF Remaining, HandedOut
  <2>2. CASE Fetch(w)
    <3>1. Kept BY <2>2 DEF Fetch, TypeOK
    <3>2. QED BY <3>1 DEF Remaining, HandedOut
  <2>3. CASE OpenFile(w)
    <3>1. Kept BY <2>3 DEF OpenFile, TypeOK
    <3>2. QED BY <3>1 DEF Remaining, HandedOut
  <2>4. CASE OpenFails(w)
    <3>1. Kept BY <2>4 DEF OpenFails, TypeOK
    <3>2. QED BY <3>1 DEF Remaining, HandedOut
  <2>5. CASE WriteFile(w)
    <3>1. Kept BY <2>5 DEF WriteFile, TypeOK
    <3>2. QED BY <3>1 DEF Remaining, HandedOut
  <2>6. CASE SetComplete(w)
    <3>1. Kept BY <2>6 DEF SetComplete, TypeOK
    <3>2. QED BY <3>1 DEF Remaining, HandedOut
  <2>7. CASE ClearStart(w)
    <3>1. Kept BY <2>7 DEF ClearStart, TypeOK
    <3>2. QED BY <3>1 DEF Remaining, HandedOut
  <2>8. QED BY <1>19, <2>1, <2>2, <2>3, <2>4, <2>5, <2>6, <2>7
<1>20. CASE UNCHANGED vars
  BY <1>20 DEF vars, Remaining, HandedOut
<1>21. QED BY NextCases, <1>1, <1>2, <1>3, <1>4, <1>5, <1>6, <1>7, <1>8, <1>9, <1>10, <1>11,
    <1>12, <1>13, <1>14, <1>15, <1>16, <1>17, <1>18, <1>19, <1>20

-----------------------------------------------------------------------------
(* The invariant, and the properties it implies.                           *)

\* Every step of every thread preserves the invariant.
LEMMA IInvStep == ASSUME IInv, NEW pinned, [StepWith(pinned)]_vars PROVE IInv'
BY TypeStep, LocksStep, SlotsStep, PeekStep, MoveStep, PlaylistStep, OrderStep,
   JobsStep DEF IInv

\* The inductive invariant holds in every state the live relay can reach,
\* whatever the queue capacities, the number of workers, and what fails.
THEOREM Invariant == Spec => []IInv
<1>1. Init => IInv
  BY InitInv
<1>2. IInv /\ [Next]_vars => IInv'
  BY IInvStep, NextIsStep
<1>3. QED BY <1>1, <1>2, PTL DEF Spec

\* Every variable stays within its type: the search for a slot never leaves
\* thInfo, and every segment queued is one the upstream published.
THEOREM TypeCorrect == Spec => []TypeOK
<1>1. IInv => TypeOK
  BY DEF IInv
<1>2. QED BY <1>1, Invariant, PTL

\* Filling in a slot of thInfo excludes the worker that owns it: the hand-shake
\* of THREAD_DATA (Reset and downloadSingle) needs no lock.
THEOREM HandoffSafe == Spec => []HandoffExclusion
<1>1. IInv => HandoffExclusion
  <2>1. SUFFICES ASSUME IInv, pcMain \in {"reset", "start"}
                 PROVE  pcWork[iSlot] = "idle" /\ ~thInfo[iSlot].bStartFlag
    BY DEF HandoffExclusion
  <2>2. iSlot \in Workers
    BY <2>1 DEF IInv, TypeOK
  <2>3. ~thInfo[iSlot].bStartFlag
    BY <2>1 DEF IInv, SlotsInv
  <2>4. pcWork[iSlot] # "unborn"
    BY <2>1, <2>2 DEF IInv, SlotsInv
  <2>5. pcWork[iSlot] \in {"unborn", "idle"}
    BY <2>1, <2>2, <2>3 DEF IInv, SlotsInv
  <2>6. QED BY <2>3, <2>4, <2>5
<1>2. QED BY <1>1, Invariant, PTL

\* RemoveDownItems pops the segment GetDownloadFristObject copied and the
\* worker was given, though the queue was unlocked in between.
THEOREM PopsWhatItHandedOut == Spec => []PeekedIsPopped
<1>1. IInv => PeekedIsPopped
  BY DEF IInv
<1>2. QED BY <1>1, Invariant, PTL

\* Completed and queued segments are in stream order and distinct, also while
\* RemoveDownItems has the front in both queues.
THEOREM PipelineInOrder == Spec => []PipelineOrdered
<1>1. ASSUME IInv PROVE PipelineOrdered
  <2>1. /\ Segments \subseteq Int
        /\ m_downQueue \in Seq(Segments) /\ m_compelteQueue \in Seq(Segments)
        /\ Increasing(m_downQueue) /\ Increasing(m_compelteQueue)
    BY <1>1, QueueFacts
  <2>2. CASE pcMain # "evict"
    <3>1. \A a \in Items(m_compelteQueue), b \in Items(m_downQueue) : a < b
      BY <1>1, <2>2 DEF IInv, OrderInv
    <3>2. Increasing(m_compelteQueue \o m_downQueue)
      BY <2>1, <3>1, IncreasingConcat
    <3>3. QED BY <2>2, <3>2 DEF PipelineOrdered, Pipeline
  <2>3. CASE pcMain = "evict"
    <3>1. /\ m_downQueue # <<>> /\ m_compelteQueue # <<>>
          /\ m_compelteQueue[Len(m_compelteQueue)] = Head(m_downQueue)
      BY <1>1, <2>3 DEF IInv, MoveInv
    <3>2. /\ Tail(m_downQueue) \in Seq(Segments) /\ Increasing(Tail(m_downQueue))
          /\ Head(m_downQueue) \in Int
          /\ Items(Tail(m_downQueue)) \subseteq Int
          /\ \A b \in Items(Tail(m_downQueue)) : Head(m_downQueue) < b
      BY <1>1, <3>1, QueueFacts
    <3>3. /\ Items(m_compelteQueue) \subseteq Int
          /\ \A a \in Items(m_compelteQueue) : a <= Head(m_downQueue)
      BY <1>1, <2>1, <3>1, QueueFacts, BackIsNewest
    <3>4. \A a \in Items(m_compelteQueue), b \in Items(Tail(m_downQueue)) : a < b
      BY <3>2, <3>3
    <3>5. Increasing(m_compelteQueue \o Tail(m_downQueue))
      BY <2>1, <3>2, <3>4, IncreasingConcat
    <3>6. QED BY <2>3, <3>5 DEF PipelineOrdered, Pipeline
  <2>4. QED BY <2>2, <2>3
<1>2. IInv => PipelineOrdered
  BY <1>1
<1>3. QED BY <1>2, Invariant, PTL

\* No two workers have the same segment, and none that a worker has is still
\* to be handed out.
THEOREM NoSegmentTwice == Spec => []OneJobPerSegment
<1>1. IInv => OneJobPerSegment
  BY DEF IInv, JobsInv
<1>2. QED BY <1>1, Invariant, PTL

\* Neither queue ever outgrows its capacity where another thread could see it.
THEOREM QueuesWithinBounds == Spec => []QueuesBounded
<1>1. IInv => QueuesBounded
  BY DEF IInv, OrderInv
<1>2. QED BY <1>1, Invariant, PTL

\* The playlist a client is served is at least as new as the stamp sent with
\* it, though DoM3u8Monitor learns the two from different requests.
THEOREM StampIsHonest == Spec => []BodyNotOlderThanStamp
<1>1. IInv => BodyNotOlderThanStamp
  BY DEF IInv, PlaylistInv
<1>2. QED BY <1>1, Invariant, PTL

\* The steps other than PublishBuffer leave the served playlist alone.
LEMMA OnlyPublishBuffer ==
  ASSUME [Next]_vars, ~PublishBuffer
  PROVE  UNCHANGED <<m_strBuffer, m_llLastModifyTime>>
BY NextCases, NextIsStep DEF vars, monVars, queueVars, mainVars, workVars, othersOfWork, Publish, Poll,
   GetIndexOk, GetIndexFails, SaveIndex, OnCallbackM3u8Change, AddItems, StartMonitor,
   SpawnWorkers, GetDownloadFristObject, ScanSlot, ResetSlot, StartSlot, RemoveBegin,
   PushComplete, EvictOldest, PopDownItem, TakeJob, Fetch, OpenFile, OpenFails,
   WriteFile, SetComplete, ClearStart

\* The served playlist never moves back in the stream, from any poll to any
\* later one, whichever of them failed.
THEOREM ServedIndexForward == Spec => IndexNeverGoesBack
<1>1. ASSUME IInv, [Next]_vars
      PROVE  /\ m_strBuffer'.first >= m_strBuffer.first
             /\ m_strBuffer'.last >= m_strBuffer.last
  <2>1. /\ m_strBuffer.first \in Int /\ m_strBuffer.last \in Int
        /\ strBuffer.first \in Int /\ strBuffer.last \in Int
    BY <1>1, PlaylistInts DEF IInv, TypeOK
  <2>2. CASE PublishBuffer
    <3>1. m_strBuffer' = strBuffer /\ NotAhead(m_strBuffer, strBuffer)
      BY <1>1, <2>2 DEF PublishBuffer, IInv, PlaylistInv
    <3>2. QED BY <2>1, <3>1 DEF NotAhead
  <2>3. CASE ~PublishBuffer
    BY <1>1, <2>1, <2>3, OnlyPublishBuffer
  <2>4. QED BY <2>2, <2>3
<1>2. IInv /\ [Next]_vars => [/\ m_strBuffer'.first >= m_strBuffer.first
                              /\ m_strBuffer'.last >= m_strBuffer.last]_vars
  BY <1>1
<1>3. QED BY <1>2, Invariant, PTL DEF Spec, IndexNeverGoesBack

\* A playlist that differs from the one served before it has a newer stamp, so
\* that a client that compares stamps notices it.
THEOREM ServedStampForward == Spec => NewBodyNewStamp
<1>1. ASSUME IInv, [Next]_vars
      PROVE  m_strBuffer' # m_strBuffer => m_llLastModifyTime' > m_llLastModifyTime
  <2>1. CASE PublishBuffer
    <3>1. m_llLastModifyTime' = llTime /\ m_llLastModifyTime < llTime
      BY <1>1, <2>1 DEF PublishBuffer, IInv, PlaylistInv
    <3>2. m_llLastModifyTime \in Int /\ llTime \in Int
      BY <1>1, Sizes DEF IInv, TypeOK
    <3>3. QED BY <3>1, <3>2
  <2>2. CASE ~PublishBuffer
    BY <1>1, <2>2, OnlyPublishBuffer
  <2>3. QED BY <2>1, <2>2
<1>2. IInv /\ [Next]_vars =>
        [m_strBuffer' # m_strBuffer => m_llLastModifyTime' > m_llLastModifyTime]_vars
  BY <1>1
<1>3. QED BY <1>2, Invariant, PTL DEF Spec, NewBodyNewStamp

-----------------------------------------------------------------------------
(* What the output directory holds of the completed segments.              *)

\* The segments owed to the directory are segments.
LEMMA OwedType == ASSUME IInv PROVE Owed \subseteq Segments
<1>1. Items(m_compelteQueue) \subseteq Segments
  BY QueueFacts, ItemsType
<1>2. pcMain \in {"remove", "complete"} => strDownItem \in Segments
  BY QueueFacts DEF IInv, PeekedIsPopped
<1>3. QED BY <1>1, <1>2 DEF Owed

\* A step that leaves the completed queue, the slots, the workers and the
\* directory alone, and does not hand out, preserves DiskInv.
LEMMA DiskQuiet ==
  ASSUME DiskInv, UNCHANGED <<m_compelteQueue, thInfo, pcWork, disk>>, Owed' = Owed
  PROVE  DiskInv'
BY DEF DiskInv

\* A worker's step preserves DiskInv.
LEMMA DiskWork ==
  ASSUME IInv, DiskInv, NEW w \in Workers,
         TakeJob(w) \/ Fetch(w) \/ OpenFile(w) \/ OpenFails(w)
         \/ WriteFile(w) \/ SetComplete(w) \/ ClearStart(w)
  PROVE  DiskInv'
<1> USE DEF IInv, TypeOK
<1>1. Owed' = Owed /\ Owed \subseteq Segments
  BY OwedType DEF TakeJob, Fetch, OpenFile, OpenFails, WriteFile, SetComplete, ClearStart,
                  othersOfWork, queueVars, mainVars, Owed
<1>2. SUFFICES ASSUME "disk" \notin Faults, NEW s \in Owed
               PROVE  \/ disk'[s] # "absent"
                      \/ \E v \in Workers : /\ thInfo'[v].bStartFlag /\ thInfo'[v].item = s
                                           /\ pcWork'[v] \in {"idle", "fetch", "open"}
  BY <1>1 DEF DiskInv
<1>3. \/ disk[s] # "absent"
      \/ \E v \in Workers : /\ thInfo[v].bStartFlag /\ thInfo[v].item = s
                           /\ pcWork[v] \in {"idle", "fetch", "open"}
  BY <1>2 DEF DiskInv
<1>4. s \in Segments
  BY <1>1
<1>5. ASSUME disk[s] # "absent" PROVE disk'[s] # "absent"
  <2>1. CASE OpenFile(w)
    BY <1>4, <1>5, <2>1 DEF OpenFile
  <2>2. CASE WriteFile(w)
    <3>1. thInfo[w].readBuffer \in {"whole", "bad"}
      BY <2>2 DEF WriteFile, SlotsInv
    <3>2. QED BY <1>4, <1>5, <2>2, <3>1 DEF WriteFile
  <2>3. CASE ~OpenFile(w) /\ ~WriteFile(w)
    BY <1>5, <2>3 DEF TakeJob, Fetch, OpenFails, SetComplete, ClearStart
  <2>4. QED BY <2>1, <2>2, <2>3
<1>6. ASSUME NEW v \in Workers, thInfo[v].bStartFlag, thInfo[v].item = s,
             pcWork[v] \in {"idle", "fetch", "open"}
      PROVE  \/ disk'[s] # "absent"
             \/ /\ thInfo'[v].bStartFlag /\ thInfo'[v].item = s
                /\ pcWork'[v] \in {"idle", "fetch", "open"}
  <2>1. CASE v # w
    <3>1. thInfo'[v] = thInfo[v] /\ pcWork'[v] = pcWork[v]
      BY <2>1 DEF TakeJob, Fetch, OpenFile, OpenFails, WriteFile, SetComplete, ClearStart
    <3>2. QED BY <1>6, <3>1
  <2>2. CASE v = w
    <3>1. CASE TakeJob(w)
      BY <1>6, <2>2, <3>1 DEF TakeJob
    <3>2. CASE Fetch(w)
      BY <1>6, <2>2, <3>2 DEF Fetch
    <3>3. CASE OpenFile(w)
      BY <1>4, <1>6, <2>2, <3>3 DEF OpenFile
    <3>4. CASE OpenFails(w)
      BY <1>2, <3>4 DEF OpenFails
    <3>5. CASE WriteFile(w) \/ SetComplete(w) \/ ClearStart(w)
      BY <1>6, <2>2, <3>5 DEF WriteFile, SetComplete, ClearStart
    <3>6. QED BY <3>1, <3>2, <3>3, <3>4, <3>5
  <2>3. QED BY <2>1, <2>2
<1>7. QED BY <1>3, <1>5, <1>6

\* Handing a segment out makes the directory owed it, and its worker is the one
\* that will open the file.
LEMMA DiskStart == ASSUME IInv, DiskInv, StartSlot PROVE DiskInv'
<1> USE DEF IInv, TypeOK
<1>1. /\ iSlot \in Workers /\ pcWork[iSlot] \in {"unborn", "idle"}
      /\ pcWork[iSlot] # "unborn" /\ ~thInfo[iSlot].bStartFlag
      /\ thInfo[iSlot].item = strDownItem
  BY DEF StartSlot, SlotsInv
<1>2. /\ thInfo'[iSlot].bStartFlag /\ thInfo'[iSlot].item = strDownItem
      /\ \A w \in Workers \ {iSlot} : thInfo'[w] = thInfo[w]
      /\ UNCHANGED <<pcWork, disk>>
  BY <1>1 DEF StartSlot
<1>3. Owed = Items(m_compelteQueue) /\ Owed' = Owed \cup {strDownItem}
  BY DEF StartSlot, queueVars, Owed
<1>4. ASSUME NEW s \in Owed, "disk" \notin Faults
      PROVE  \/ disk'[s] # "absent"
             \/ \E w \in Workers : /\ thInfo'[w].bStartFlag /\ thInfo'[w].item = s
                                  /\ pcWork'[w] \in {"idle", "fetch", "open"}
  <2>1. CASE disk[s] # "absent"
    BY <1>2, <2>1
  <2>2. CASE disk[s] = "absent"
    <3>1. PICK w \in Workers : /\ thInfo[w].bStartFlag /\ thInfo[w].item = s
                               /\ pcWork[w] \in {"idle", "fetch", "open"}
      BY <1>4, <2>2 DEF DiskInv
    <3>2. w # iSlot
      BY <1>1, <3>1
    <3>3. thInfo'[w] = thInfo[w] /\ pcWork'[w] = pcWork[w]
      BY <1>2, <3>2
    <3>4. QED BY <3>1, <3>3
  <2>3. QED BY <2>1, <2>2
<1>5. pcWork'[iSlot] = "idle"
  BY <1>1, <1>2
<1>6. QED BY <1>1, <1>2, <1>3, <1>4, <1>5 DEF DiskInv

\* The segment the eviction deletes is owed no longer.
LEMMA DiskEvict ==
  ASSUME IInv, DiskInv, NEW pinned, EvictOldest(pinned) PROVE DiskInv'
<1> DEFINE s == Head(m_compelteQueue)
<1>1. m_compelteQueue # <<>>
  BY DEF EvictOldest, IInv, MoveInv
<1>2. /\ Items(m_compelteQueue) \subseteq Int /\ s \in Items(m_compelteQueue)
      /\ Items(Tail(m_compelteQueue)) \subseteq Items(m_compelteQueue)
      /\ \A a \in Items(Tail(m_compelteQueue)) : s < a
  BY <1>1, QueueFacts, ItemsHeadTail, IncreasingTail
<1>3. s \notin Items(Tail(m_compelteQueue))
  BY <1>2
<1>4. Owed = Items(m_compelteQueue) /\ Owed' = Items(Tail(m_compelteQueue))
  BY DEF EvictOldest, mainVars, Owed
<1>5. \A a \in Owed' : disk'[a] = disk[a]
  <2>1. Owed' \subseteq Segments
    BY <1>2, <1>4, OwedType
  <2>2. QED BY <1>3, <1>4, <2>1 DEF EvictOldest, IInv, TypeOK
<1>6. UNCHANGED <<thInfo, pcWork>> /\ Owed' \subseteq Owed
  BY <1>2, <1>4 DEF EvictOldest
<1>7. QED BY <1>5, <1>6 DEF DiskInv

\* Every step preserves DiskInv.
LEMMA DiskStep == ASSUME IInv, DiskInv, NEW pinned, [StepWith(pinned)]_vars PROVE DiskInv'
<1> USE DEF monVars, queueVars, mainVars, workVars
<1>1. CASE Publish
  BY <1>1, DiskQuiet DEF Publish, Owed
<1>2. CASE Poll
  BY <1>2, DiskQuiet DEF Poll, Owed
<1>3. CASE GetIndexOk
  BY <1>3, DiskQuiet DEF GetIndexOk, Owed
<1>4. CASE GetIndexFails
  BY <1>4, DiskQuiet DEF GetIndexFails, Owed
<1>5. CASE PublishBuffer
  BY <1>5, DiskQuiet DEF PublishBuffer, Owed
<1>6. CASE SaveIndex
  BY <1>6, DiskQuiet DEF SaveIndex, Owed
<1>7. CASE OnCallbackM3u8Change
  BY <1>7, DiskQuiet DEF OnCallbackM3u8Change, Owed
<1>8. CASE AddItems
  BY <1>8, DiskQuiet DEF AddItems, Owed
<1>9. CASE StartMonitor
  BY <1>9, DiskQuiet DEF StartMonitor, Owed
<1>10. CASE SpawnWorkers
  <2>1. Owed' = Owed /\ UNCHANGED <<thInfo, disk>>
    BY <1>10 DEF SpawnWorkers, Owed
  <2>2. \A w \in Workers : pcWork'[w] = "idle"
    BY <1>10 DEF SpawnWorkers
  <2>3. QED BY <2>1, <2>2 DEF DiskInv
<1>11. CASE GetDownloadFristObject
  BY <1>11, DiskQuiet DEF GetDownloadFristObject, Owed
<1>12. CASE ScanSlot
  BY <1>12, DiskQuiet DEF ScanSlot, Owed
<1>13. CASE ResetSlot
  <2>1. iSlot \in Workers /\ ~thInfo[iSlot].bStartFlag
    BY <1>13 DEF ResetSlot, IInv, TypeOK, SlotsInv
  <2>2. \A w \in Workers \ {iSlot} : thInfo'[w] = thInfo[w]
    BY <1>13 DEF ResetSlot, IInv, TypeOK
  <2>3. UNCHANGED <<pcWork, disk>> /\ Owed' = Owed
    BY <1>13 DEF ResetSlot, Owed
  <2>4. QED BY <2>1, <2>2, <2>3 DEF DiskInv
<1>14. CASE StartSlot
  BY <1>14, DiskStart
<1>15. CASE RemoveBegin
  <2>1. m_downQueue # <<>>
    BY <1>15 DEF RemoveBegin, IInv, PeekedIsPopped
  <2>2. QED BY <1>15, <2>1, DiskQuiet DEF RemoveBegin, Owed
<1>16. CASE PushComplete
  <2>1. m_downQueue # <<>> /\ Head(m_downQueue) = strDownItem
    BY <1>16 DEF PushComplete, IInv, PeekedIsPopped
  <2>2. Items(m_compelteQueue') = Items(m_compelteQueue) \cup {strDownItem}
    BY <1>16, <2>1, QueueFacts, ItemsAppend DEF PushComplete
  <2>3. Owed' = Owed /\ UNCHANGED <<thInfo, pcWork, disk>>
    BY <1>16, <2>2 DEF PushComplete, Owed
  <2>4. QED BY <2>3 DEF DiskInv
<1>17. CASE EvictOldest(pinned)
  BY <1>17, DiskEvict
<1>18. CASE PopDownItem
  BY <1>18, DiskQuiet DEF PopDownItem, Owed
<1>19. ASSUME NEW w \in Workers,
              TakeJob(w) \/ Fetch(w) \/ OpenFile(w) \/ OpenFails(w)
              \/ WriteFile(w) \/ SetComplete(w) \/ ClearStart(w)
       PROVE  DiskInv'
  BY <1>19, DiskWork
<1>20. CASE UNCHANGED vars
  BY <1>20, DiskQuiet DEF vars, Owed
<1>21. QED BY NextCases, <1>1, <1>2, <1>3, <1>4, <1>5, <1>6, <1>7, <1>8, <1>9, <1>10, <1>11,
    <1>12, <1>13, <1>14, <1>15, <1>16, <1>17, <1>18, <1>19, <1>20

\* Nothing is owed at the start.
LEMMA DiskInit == ASSUME Init PROVE DiskInv
<1>1. Items(<<>>) = {}
  BY EmptySeq DEF Items
<1>2. QED BY <1>1 DEF Init, DiskInv, Owed

\* A segment RemoveDownItems filed as completed is on disk or still some worker's
\* job, as long as its file can be opened: del only hits segments that left.
THEOREM CompletedStaysOnDisk == Spec => []CompletedIsOnDisk
<1>1. Init => DiskInv
  BY DiskInit
<1>2. IInv /\ DiskInv /\ [Next]_vars => DiskInv'
  BY DiskStep, NextIsStep
<1>3. DiskInv => CompletedIsOnDisk
  BY DEF DiskInv, CompletedIsOnDisk, Owed
<1>4. QED BY <1>1, <1>2, <1>3, Invariant, PTL DEF Spec

=============================================================================
