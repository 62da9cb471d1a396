-------------------------- MODULE LiveRelayProofs --------------------------
(***************************************************************************)
(* What the live downloader is to those around it.  It implements JobPool: *)
(* every step of a thread is a Submit, a Take, a Finish, or changes        *)
(* nothing JobPool sees.  And beside the web handler, which serves its     *)
(* playlist and its files while they change, its invariant still holds and *)
(* a file the handler found settled is sent whole.                         *)
(***************************************************************************)
EXTENDS LivePool, WebRelay, LiveDownloaderProofs

-----------------------------------------------------------------------------
(* JobPool                                                                 *)

\* The three things JobPool sees.
Seen == <<Remaining, Busy, Newest>>

\* A step that leaves them alone is a stutter of JobPool.
LEMMA StutterIsSeen ==
  ASSUME UNCHANGED Seen PROVE [Pool!Next]_(Pool!vars)
BY DEF Seen, Pool!vars

\* The initial state is one of JobPool's.
LEMMA PoolInit == ASSUME Init PROVE Pool!Init
BY DEF Init, Pool!Init, Pool!Idle, Remaining, HandedOut, Busy, Newest, StrLast, FreshSlot,
       NoSegment

\* What the monitor appends is a Submit, or nothing.
LEMMA PoolSubmit == ASSUME IInv, AddItems PROVE [Pool!Next]_(Pool!vars)
<1>1. PICK added \in Seq(Segments) :
        /\ m_downQueue' = m_downQueue \o added
        /\ Len(m_downQueue') <= DOWN_NUM
        /\ Increasing(m_downQueue')
        /\ \A s \in Items(added) : Newest < s
  BY AddItemsOrdered DEF Newest
<1>2. /\ m_downQueue \in Seq(Segments) /\ Len(m_downQueue) \in Nat
      /\ Len(added) \in Nat /\ Len(m_downQueue') = Len(m_downQueue) + Len(added)
      /\ \A k \in 1..Len(added) : m_downQueue'[Len(m_downQueue) + k] = added[k]
  BY <1>1, QueueFacts, LenProperties, ConcatProperties
<1>3. UNCHANGED <<m_compelteQueue, pcMain, thInfo>> /\ (HandedOut => pcMain = "remove")
  BY DEF AddItems, mainVars, workVars, HandedOut, IInv, LocksInv
<1>4. UNCHANGED Busy
  BY <1>3 DEF Busy
<1>5. CASE added = <<>>
  <2>1. m_downQueue' = m_downQueue
    BY <1>1, <1>2, <1>5, ConcatEmptySeq
  <2>2. UNCHANGED Seen
    BY <1>3, <1>4, <2>1 DEF Seen, Remaining, HandedOut, Newest
  <2>3. QED BY <2>2, StutterIsSeen
<1>6. CASE added # <<>>
  <2> DEFINE n == Len(added)
  <2>1. n \in Nat \ {0} /\ n \in 1..n
    BY <1>2, <1>6, EmptySeq
  <2>2. /\ Remaining \in Seq(Segments) /\ Remaining' = Remaining \o added
        /\ Len(Remaining) <= Len(m_downQueue)
    <3>1. CASE ~HandedOut
      BY <1>1, <1>2, <1>3, <3>1 DEF Remaining, HandedOut
    <3>2. CASE HandedOut
      <4>1. m_downQueue # <<>>
        BY <1>3, <3>2 DEF IInv, PeekedIsPopped
      <4>2. /\ Tail(m_downQueue) \in Seq(Segments)
            /\ Tail(m_downQueue \o added) = Tail(m_downQueue) \o added
        BY <1>2, <4>1, TailConcat
      <4>3. Len(Tail(m_downQueue)) <= Len(m_downQueue)
        BY <1>2, <4>1, HeadTailProperties, EmptySeq
      <4>4. QED BY <1>1, <1>3, <3>2, <4>2, <4>3 DEF Remaining, HandedOut
    <3>3. QED BY <3>1, <3>2
  <2>3. n \in 1..(DOWN_NUM - Len(Remaining))
    <3>1. Len(Remaining) \in Nat /\ DOWN_NUM \in Nat
      BY <2>2, QueueSizes, LenProperties
    <3>2. QED BY <1>1, <1>2, <2>1, <2>2, <3>1
  <2>4. added \in [1..n -> (Newest + 1)..MaxSeg]
    <3>1. Newest \in Int
      BY StrLastInt DEF Newest
    <3>2. \A k \in 1..n : added[k] \in 1..MaxSeg /\ Newest < added[k]
      BY <1>1, ElementOfSeq DEF Segments, Items
    <3>3. \A k \in 1..n : added[k] \in (Newest + 1)..MaxSeg
      BY <3>1, <3>2, Sizes
    <3>4. added = [k \in 1..n |-> added[k]]
      BY <1>1, LenProperties
    <3>5. QED BY <3>3, <3>4
  <2>5. Pool!Ascending(added)
    <3>1. SUFFICES ASSUME NEW j \in 1..n, NEW k \in 1..n, j < k
                   PROVE  added[j] < added[k]
      BY DEF Pool!Ascending
    <3>2. /\ Len(m_downQueue) + j \in 1..Len(m_downQueue')
          /\ Len(m_downQueue) + k \in 1..Len(m_downQueue')
          /\ Len(m_downQueue) + j < Len(m_downQueue) + k
      BY <1>2, <3>1
    <3>3. QED BY <1>1, <1>2, <3>2 DEF Increasing
  <2>6. Newest' = added[n]
    <3>1. m_downQueue'[Len(m_downQueue')] = added[n]
      BY <1>2, <2>1
    <3>2. m_downQueue' # <<>>
      BY <1>2, <2>1, EmptySeq
    <3>3. QED BY <3>1, <3>2 DEF Newest, StrLast
  <2>7. Pool!Submit
    BY <1>4, <2>2, <2>3, <2>4, <2>5, <2>6 DEF Pool!Submit
  <2>8. QED BY <2>7 DEF Pool!Next
<1>7. QED BY <1>5, <1>6

\* Letting the worker see its job is a Take: StartSlot.
LEMMA PoolTake == ASSUME IInv, StartSlot PROVE [Pool!Next]_(Pool!vars)
<1>1. /\ iSlot \in Workers /\ ~thInfo[iSlot].bStartFlag
      /\ thInfo[iSlot].item = strDownItem
      /\ m_downQueue # <<>> /\ Head(m_downQueue) = strDownItem
  BY DEF StartSlot, IInv, TypeOK, SlotsInv, PeekedIsPopped
<1>2. Remaining = m_downQueue /\ Remaining' = Tail(m_downQueue)
  BY DEF StartSlot, Remaining, HandedOut, queueVars
<1>3. UNCHANGED Newest
  BY DEF StartSlot, queueVars, Newest
<1>4. Busy[iSlot] = Pool!Idle
  BY <1>1 DEF Busy, Pool!Idle, NoSegment
<1>5. /\ thInfo'[iSlot].bStartFlag /\ thInfo'[iSlot].item = strDownItem
      /\ \A w \in Workers \ {iSlot} : thInfo'[w] = thInfo[w]
  BY <1>1 DEF StartSlot, IInv, TypeOK
<1>6. Busy' = [Busy EXCEPT ![iSlot] = Head(Remaining)]
  BY <1>1, <1>2, <1>5 DEF Busy
<1>7. Pool!Take(iSlot)
  BY <1>1, <1>2, <1>3, <1>4, <1>6 DEF Pool!Take
<1>8. QED BY <1>1, <1>7 DEF Pool!Next

\* Clearing bStartFlag is a Finish.
LEMMA PoolFinish ==
  ASSUME IInv, NEW w \in Workers, ClearStart(w) PROVE [Pool!Next]_(Pool!vars)
<1>1. UNCHANGED <<Remaining, Newest>>
  BY DEF ClearStart, othersOfWork, queueVars, mainVars, Remaining, HandedOut, Newest
<1>2. ~thInfo'[w].bStartFlag /\ \A v \in Workers \ {w} : thInfo'[v] = thInfo[v]
  BY DEF ClearStart, IInv, TypeOK
<1>3. Busy' = [Busy EXCEPT ![w] = Pool!Idle]
  BY <1>2 DEF Busy, Pool!Idle, NoSegment
<1>4. CASE Busy[w] # Pool!Idle
  <2>1. Pool!Finish(w)
    BY <1>1, <1>3, <1>4 DEF Pool!Finish
  <2>2. QED BY <2>1 DEF Pool!Next
<1>5. CASE Busy[w] = Pool!Idle
  <2>1. Busy' = Busy
    BY <1>3, <1>5 DEF Busy
  <2>2. QED BY <1>1, <2>1, StutterIsSeen DEF Seen
<1>6. QED BY <1>4, <1>5

\* Moving the front from one queue to the other is not seen.
LEMMA PoolMove ==
  ASSUME IInv, NEW pinned,
         RemoveBegin \/ PushComplete \/ EvictOldest(pinned) \/ PopDownItem
  PROVE  UNCHANGED Seen
<1> USE DEF queueVars, mainVars, workVars
<1>1. UNCHANGED Busy
  BY DEF RemoveBegin, PushComplete, EvictOldest, PopDownItem, Busy
<1>2. m_downQueue # <<>>
  BY DEF RemoveBegin, PushComplete, EvictOldest, PopDownItem, IInv, PeekedIsPopped, MoveInv
<1>3. CASE RemoveBegin
  BY <1>1, <1>2, <1>3 DEF Seen, RemoveBegin, Remaining, HandedOut, Newest
<1>4. CASE PushComplete
  BY <1>1, <1>2, <1>4 DEF Seen, PushComplete, Remaining, HandedOut, Newest, StrLast
<1>5. CASE EvictOldest(pinned)
  BY <1>1, <1>2, <1>5 DEF Seen, EvictOldest, Remaining, HandedOut, Newest, StrLast
<1>6. CASE PopDownItem
  <2>1. /\ m_compelteQueue # <<>>
        /\ m_compelteQueue[Len(m_compelteQueue)] = Head(m_downQueue)
    BY <1>6 DEF PopDownItem, IInv, MoveInv
  <2>2. StrLast(Tail(m_downQueue), m_compelteQueue) = StrLast(m_downQueue, m_compelteQueue)
    BY <1>2, <2>1, QueueFacts, StrLastOfTail
  <2>3. QED BY <1>1, <1>6, <2>2 DEF Seen, PopDownItem, Remaining, HandedOut, Newest
<1>7. QED BY <1>3, <1>4, <1>5, <1>6

\* Nor is filling in a slot whose worker is parked.
LEMMA PoolReset == ASSUME IInv, ResetSlot PROVE UNCHANGED Seen
<1>1. iSlot \in Workers /\ ~thInfo[iSlot].bStartFlag
  BY DEF ResetSlot, IInv, TypeOK, SlotsInv
<1>2. /\ ~thInfo'[iSlot].bStartFlag
      /\ \A w \in Workers \ {iSlot} : thInfo'[w] = thInfo[w]
  BY <1>1 DEF ResetSlot, IInv, TypeOK
<1>3. UNCHANGED Busy
  BY <1>1, <1>2 DEF Busy
<1>4. UNCHANGED <<Remaining, Newest>>
  BY DEF ResetSlot, queueVars, Remaining, HandedOut, Newest
<1>5. QED BY <1>3, <1>4 DEF Seen

\* Nor what a worker does between seeing its job and clearing bStartFlag.
LEMMA PoolWork ==
  ASSUME IInv, NEW w \in Workers,
         TakeJob(w) \/ Fetch(w) \/ OpenFile(w) \/ OpenFails(w) \/ WriteFile(w) \/ SetComplete(w)
  PROVE  UNCHANGED Seen
<1> DEFINE Kept == \A v \in Workers : /\ thInfo'[v].item = thInfo[v].item
                                      /\ thInfo'[v].bStartFlag = thInfo[v].bStartFlag
<1> USE DEF IInv, TypeOK
<1>1. CASE TakeJob(w)
  <2>1. Kept BY <1>1 DEF TakeJob
  <2>2. UNCHANGED Busy BY <2>1 DEF Busy
  <2>3. QED BY <1>1, <2>2 DEF TakeJob, othersOfWork, queueVars, mainVars, Seen, Remaining,
                              HandedOut, Newest
<1>2. CASE Fetch(w)
  <2>1. Kept BY <1>2 DEF Fetch
  <2>2. UNCHANGED Busy BY <2>1 DEF Busy
  <2>3. QED BY <1>2, <2>2 DEF Fetch, othersOfWork, queueVars, mainVars, Seen, Remaining,
                              HandedOut, Newest
<1>3. CASE OpenFile(w) \/ OpenFails(w) \/ WriteFile(w)
  BY <1>3 DEF OpenFile, OpenFails, WriteFile, othersOfWork, queueVars, mainVars, Seen, Busy,
              Remaining, HandedOut, Newest
<1>4. CASE SetComplete(w)
  <2>1. Kept BY <1>4 DEF SetComplete
  <2>2. UNCHANGED Busy BY <2>1 DEF Busy
  <2>3. QED BY <1>4, <2>2 DEF SetComplete, othersOfWork, queueVars, mainVars, Seen,
                              Remaining, HandedOut, Newest
<1>5. QED BY <1>1, <1>2, <1>3, <1>4

\* Nor what the monitor and the upstream do before AddDownItems, and what the
\* main thread does before it hands a segment out.
LEMMA PoolRest ==
  ASSUME IInv,
         \/ Publish \/ Poll \/ GetIndexOk \/ GetIndexFails \/ PublishBuffer \/ SaveIndex
         \/ OnCallbackM3u8Change \/ StartMonitor \/ SpawnWorkers
         \/ GetDownloadFristObject \/ ScanSlot \/ UNCHANGED vars
  PROVE  UNCHANGED Seen
<1>1. UNCHANGED <<m_downQueue, m_compelteQueue, thInfo>>
  BY DEF Publish, Poll, GetIndexOk, GetIndexFails, PublishBuffer, SaveIndex,
         OnCallbackM3u8Change, StartMonitor, SpawnWorkers, GetDownloadFristObject, ScanSlot,
         vars, queueVars, mainVars, workVars
<1>2. HandedOut' = HandedOut
  BY DEF Publish, Poll, GetIndexOk, GetIndexFails, PublishBuffer, SaveIndex,
         OnCallbackM3u8Change, StartMonitor, SpawnWorkers, GetDownloadFristObject, ScanSlot,
         vars, mainVars, HandedOut
<1>3. QED BY <1>1, <1>2 DEF Seen, Remaining, Busy, Newest

\* The live relay hands each segment out exactly once, in stream order, to one
\* idle worker: GetDownloadFristObject, Reset and RemoveDownItems together are
\* one Take of a bounded first-in-first-out pool.
THEOREM LiveImplementsPool == Spec => ImplementsJobPool
<1>1. Init => Pool!Init
  BY PoolInit
<1>2. ASSUME IInv, [Next]_vars PROVE [Pool!Next]_(Pool!vars)
  <2>1. ASSUME NEW w \in Workers,
               TakeJob(w) \/ Fetch(w) \/ OpenFile(w) \/ OpenFails(w)
               \/ WriteFile(w) \/ SetComplete(w) \/ ClearStart(w)
        PROVE  [Pool!Next]_(Pool!vars)
    <3>1. CASE ClearStart(w)
      BY <1>2, <3>1, PoolFinish
    <3>2. CASE ~ClearStart(w)
      BY <1>2, <2>1, <3>2, PoolWork, StutterIsSeen
    <3>3. QED BY <3>1, <3>2
  <2>2. CASE AddItems
    BY <1>2, <2>2, PoolSubmit
  <2>3. CASE StartSlot
    BY <1>2, <2>3, PoolTake
  <2>4. CASE RemoveBegin \/ PushComplete \/ EvictOldest({}) \/ PopDownItem
    BY <1>2, <2>4, PoolMove, StutterIsSeen
  <2>5. CASE ResetSlot
    BY <1>2, <2>5, PoolReset, StutterIsSeen
  <2>6. CASE \/ Publish \/ Poll \/ GetIndexOk \/ GetIndexFails \/ PublishBuffer \/ SaveIndex
             \/ OnCallbackM3u8Change \/ StartMonitor \/ SpawnWorkers
             \/ GetDownloadFristObject \/ ScanSlot \/ UNCHANGED vars
    BY <1>2, <2>6, PoolRest, StutterIsSeen
  <2>7. QED BY <1>2, <2>1, <2>2, <2>3, <2>4, <2>5, <2>6, NextCases, NextIsStep
<1>3. IInv /\ [Next]_vars => [Pool!Next]_(Pool!vars)
  BY <1>2
<1>4. QED BY <1>1, <1>3, Invariant, PTL DEF Spec, ImplementsJobPool, Pool!Spec

-----------------------------------------------------------------------------
(* The web handler beside it                                               *)

\* Segment s was handed out, and will not be again.
Taken(s) == s <= Newest /\ s \notin Items(Remaining)

\* No worker is on segment s, and none will be.
AtRest(s) == Taken(s) /\ \A w \in Workers : Busy[w] # s

\* A file is there only when its segment was handed out; the one the handler
\* found settled stays what it was until it is read.
WebInv ==
  /\ copy \in PlaylistType
  /\ \A s \in Segments : disk[s] # "absent" => Taken(s)
  /\ pcWeb = "open" => seg \in Segments
  /\ pcWeb = "open" /\ settled => AtRest(seg) /\ disk[seg] = announced
  /\ SettledFileSentWhole

\* Handing segments out goes forward: what was taken stays so.
LEMMA TakenStays ==
  ASSUME IInv, NEW pinned, [StepWith(pinned)]_vars, NEW s \in Segments, Taken(s)
  PROVE  Taken(s)'
<1>1. CASE UNCHANGED Seen
  BY <1>1 DEF Seen, Taken
<1>2. CASE AddItems
  <2>1. /\ Newest <= Newest' /\ Newest \in Int /\ Newest' \in Int
        /\ \A b \in Items(Remaining)' : b \in Items(Remaining) \/ Newest < b
    BY <1>2, StrLastGrows, StrLastInt, StrLastIntAfter, RemainingGrows DEF AddItems, Newest
  <2>2. s \in Int
    BY Sizes DEF Segments
  <2>3. QED BY <2>1, <2>2 DEF Taken
<1>3. CASE StartSlot
  <2>1. /\ Remaining = m_downQueue /\ Remaining' = Tail(m_downQueue)
        /\ m_downQueue # <<>> /\ UNCHANGED Newest
    BY <1>3 DEF StartSlot, Remaining, HandedOut, queueVars, Newest, IInv, PeekedIsPopped
  <2>2. Items(Tail(m_downQueue)) \subseteq Items(m_downQueue)
    BY <2>1, QueueFacts, ItemsHeadTail
  <2>3. QED BY <2>1, <2>2 DEF Taken
<1>4. ASSUME NEW w \in Workers, ClearStart(w) PROVE UNCHANGED <<Remaining, Newest>>
  BY <1>4 DEF ClearStart, othersOfWork, queueVars, mainVars, Remaining, HandedOut, Newest
<1>5. QED BY <1>1, <1>2, <1>3, <1>4, NextCases, PoolMove, PoolReset, PoolWork, PoolRest
             DEF Taken

\* A worker's segment was handed out.
LEMMA BusyIsTaken ==
  ASSUME IInv, NEW w \in Workers, thInfo[w].bStartFlag PROVE Taken(thInfo[w].item)
<1>1. /\ thInfo[w].item <= Newest /\ thInfo[w].item \in Int
      /\ thInfo[w].item \notin Items(Remaining)
  BY ItemInt DEF IInv, JobsInv, OneJobPerSegment, Newest
<1>2. QED BY <1>1 DEF Taken

\* A file changes because a worker on its segment opens or writes it, or
\* because the eviction deletes it, which no pin holds then.
LEMMA DiskMoves ==
  ASSUME IInv, NEW pinned, [StepWith(pinned)]_vars, NEW s \in Segments, disk'[s] # disk[s]
  PROVE  \/ \E w \in Workers : thInfo[w].bStartFlag /\ thInfo[w].item = s
         \/ disk'[s] = "absent" /\ s \notin pinned
<1> USE DEF IInv, TypeOK, queueVars, mainVars, workVars
<1>1. CASE EvictOldest(pinned)
  BY <1>1 DEF EvictOldest
<1>2. ASSUME NEW w \in Workers, OpenFile(w) \/ WriteFile(w)
      PROVE  \E v \in Workers : thInfo[v].bStartFlag /\ thInfo[v].item = s
  <2>1. thInfo[w].bStartFlag
    BY <1>2 DEF OpenFile, WriteFile, SlotsInv
  <2>2. thInfo[w].item = s
    BY <1>2 DEF OpenFile, WriteFile
  <2>3. QED BY <2>1, <2>2
<1>3. ASSUME NEW w \in Workers,
             TakeJob(w) \/ Fetch(w) \/ OpenFails(w) \/ SetComplete(w) \/ ClearStart(w)
      PROVE  UNCHANGED disk
  BY <1>3 DEF TakeJob, Fetch, OpenFails, SetComplete, ClearStart
<1>4. CASE \/ Publish \/ Poll \/ GetIndexOk \/ GetIndexFails \/ PublishBuffer \/ SaveIndex
           \/ OnCallbackM3u8Change \/ AddItems \/ StartMonitor \/ SpawnWorkers
           \/ GetDownloadFristObject \/ ScanSlot \/ ResetSlot \/ StartSlot \/ RemoveBegin
           \/ PushComplete \/ PopDownItem \/ UNCHANGED vars
  BY <1>4 DEF Publish, Poll, GetIndexOk, GetIndexFails, PublishBuffer, SaveIndex,
              OnCallbackM3u8Change, AddItems, StartMonitor, SpawnWorkers,
              GetDownloadFristObject, ScanSlot, ResetSlot, StartSlot, RemoveBegin,
              PushComplete, PopDownItem, vars
<1>5. QED BY <1>1, <1>2, <1>3, <1>4, NextCases

\* A worker that comes to a segment is handed the front of what remains.
LEMMA BusyMoves ==
  ASSUME IInv, NEW pinned, [StepWith(pinned)]_vars, NEW w \in Workers,
         Busy'[w] # Busy[w], Busy'[w] # NoSegment
  PROVE  Busy'[w] \in Items(Remaining)
<1>1. CASE UNCHANGED Seen
  BY <1>1 DEF Seen
<1>2. CASE AddItems
  BY <1>2 DEF AddItems, workVars, Busy
<1>3. CASE StartSlot
  <2>1. /\ iSlot \in Workers /\ thInfo[iSlot].item = strDownItem
        /\ m_downQueue # <<>> /\ Head(m_downQueue) = strDownItem
        /\ Remaining = m_downQueue
    BY <1>3 DEF StartSlot, IInv, TypeOK, SlotsInv, PeekedIsPopped, Remaining, HandedOut
  <2>2. /\ thInfo'[iSlot].item = strDownItem
        /\ \A v \in Workers \ {iSlot} : thInfo'[v] = thInfo[v]
    BY <1>3, <2>1 DEF StartSlot, IInv, TypeOK
  <2>3. Busy'[w] = strDownItem
    BY <2>2 DEF Busy
  <2>4. strDownItem \in Items(m_downQueue)
    BY <2>1, QueueFacts, ItemsHeadTail
  <2>5. QED BY <2>1, <2>3, <2>4
<1>4. ASSUME NEW v \in Workers, ClearStart(v) PROVE FALSE
  <2>1. ~thInfo'[v].bStartFlag /\ \A u \in Workers \ {v} : thInfo'[u] = thInfo[u]
    BY <1>4 DEF ClearStart, IInv, TypeOK
  <2>2. QED BY <2>1 DEF Busy
<1>5. QED BY <1>1, <1>2, <1>3, <1>4, NextCases, PoolMove, PoolReset, PoolWork, PoolRest

\* A segment at rest stays so.
LEMMA RestStays ==
  ASSUME IInv, NEW pinned, [StepWith(pinned)]_vars, NEW s \in Segments, AtRest(s)
  PROVE  AtRest(s)'
<1>1. Taken(s)'
  BY TakenStays DEF AtRest
<1>2. s # NoSegment
  BY Sizes DEF Segments, NoSegment
<1>3. ASSUME NEW w \in Workers, Busy'[w] = s PROVE FALSE
  BY <1>2, <1>3, BusyMoves DEF AtRest, Taken
<1>4. QED BY <1>1, <1>3 DEF AtRest

\* The downloader's step, with what the handler has open pinned.
LEMMA WebNextIsStep ==
  ASSUME [WebNext]_allVars
  PROVE  /\ [StepWith(Pinned)]_vars
         /\ Web \/ UNCHANGED webVars
         /\ Web => UNCHANGED vars
BY DEF WebNext, StepWith, allVars, Web, GetIndex, OpenSegment, CannotReadFile,
       SendBadRequest, ReadAndSend, Finish

\* What the files must be, through every step of the downloader.
LEMMA FilesStep ==
  ASSUME IInv, NEW pinned, [StepWith(pinned)]_vars,
         \A s \in Segments : disk[s] # "absent" => Taken(s)
  PROVE  (\A s \in Segments : disk[s] # "absent" => Taken(s))'
<1>1. SUFFICES ASSUME NEW s \in Segments, disk'[s] # "absent" PROVE Taken(s)'
  OBVIOUS
<1>2. Taken(s)
  BY <1>1, DiskMoves, BusyIsTaken
<1>3. QED BY <1>2, TakenStays

\* The downloader takes its step: an open settled file is not written, since
\* no worker is or will be on it, and not deleted, since it is open.
LEMMA WebInvBeside ==
  ASSUME IInv, WebInv, [StepWith(Pinned)]_vars, UNCHANGED webVars PROVE WebInv'
<1> USE DEF webVars
<1>1. copy' \in PlaylistType /\ (pcWeb' = "open" => seg' \in Segments)
  BY DEF WebInv
<1>2. (\A s \in Segments : disk[s] # "absent" => Taken(s))'
  BY FilesStep DEF WebInv
<1>3. ASSUME pcWeb = "open", settled PROVE AtRest(seg)' /\ disk'[seg] = announced
  <2>1. seg \in Segments /\ AtRest(seg) /\ disk[seg] = announced /\ seg \in Pinned
    BY <1>3 DEF WebInv, Pinned
  <2>2. AtRest(seg)'
    BY <2>1, RestStays
  <2>3. disk'[seg] = disk[seg]
    BY <2>1, DiskMoves DEF AtRest, Busy
  <2>4. QED BY <2>1, <2>2, <2>3
<1>4. SettledFileSentWhole'
  BY DEF WebInv, SettledFileSentWhole
<1>5. QED BY <1>1, <1>2, <1>3, <1>4 DEF WebInv, AtRest

\* A request moves on.
LEMMA WebInvOwn == ASSUME IInv, WebInv, Web, UNCHANGED vars PROVE WebInv'
<1>1. /\ m_strBuffer \in PlaylistType
      /\ \A s \in copy.first..copy.last : s \in Segments
  <2>1. m_strBuffer \in PlaylistType /\ copy \in PlaylistType
    BY DEF IInv, TypeOK, WebInv
  <2>2. copy.first \in 1..(MaxSeg + 1) /\ copy.last \in 0..MaxSeg
    BY <2>1 DEF PlaylistType, Windows
  <2>3. QED BY <2>1, <2>2, Sizes DEF Segments
<1>2. (\A s \in Segments : disk[s] # "absent" => Taken(s))'
  BY DEF WebInv, Taken, vars, queueVars, workVars, mainVars, Newest, Remaining, HandedOut
<1>3. \A s : AtRest(s) => AtRest(s)'
  BY DEF AtRest, Taken, vars, queueVars, workVars, mainVars, Newest, Remaining, HandedOut, Busy
<1>4. UNCHANGED <<disk, thInfo>>
  BY DEF vars, workVars
<1>5. CASE GetIndex
  BY <1>1, <1>2, <1>5 DEF GetIndex, WebInv, SettledFileSentWhole
<1>6. CASE OpenSegment
  <2>1. /\ seg' \in Segments /\ announced' = disk[seg'] /\ disk[seg'] # "absent"
        /\ settled' => \A w \in Workers : thInfo[w].bStartFlag => thInfo[w].item # seg'
    BY <1>1, <1>6 DEF OpenSegment
  <2>2. seg' # NoSegment
    BY <2>1, Sizes DEF Segments, NoSegment
  <2>3. settled' => AtRest(seg')
    BY <2>1, <2>2 DEF AtRest, Busy, WebInv
  <2>4. settled' => AtRest(seg)'
    BY <2>3 DEF AtRest, Taken, vars, queueVars, workVars, mainVars, Newest, Remaining,
                HandedOut, Busy
  <2>5. copy' = copy /\ pcWeb' = "open"
    BY <1>6 DEF OpenSegment
  <2>6. QED BY <1>2, <1>4, <2>1, <2>4, <2>5 DEF WebInv, SettledFileSentWhole
<1>7. CASE CannotReadFile \/ SendBadRequest \/ Finish
  BY <1>2, <1>7 DEF CannotReadFile, SendBadRequest, Finish, WebInv, SettledFileSentWhole
<1>8. CASE ReadAndSend
  BY <1>2, <1>8 DEF ReadAndSend, WebInv, SettledFileSentWhole
<1>9. QED BY <1>5, <1>6, <1>7, <1>8 DEF Web

\* The downloader's invariant and the handler's hold together.
THEOREM RelayInvariant == WebSpec => [](IInv /\ WebInv)
<1>1. WebInit => IInv /\ WebInv
  <2>1. ASSUME WebInit PROVE WebInv
    <3>1. EmptyPlaylist \in PlaylistType
      BY <2>1, InitInv DEF WebInit, IInv, TypeOK, Init
    <3>2. QED BY <2>1, <3>1 DEF WebInit, Init, WebInv, SettledFileSentWhole
  <2>2. QED BY <2>1, InitInv DEF WebInit
<1>2. IInv /\ WebInv /\ [WebNext]_allVars => IInv' /\ WebInv'
  <2>1. SUFFICES ASSUME IInv, WebInv, [WebNext]_allVars PROVE IInv' /\ WebInv'
    OBVIOUS
  <2>2. QED BY <2>1, WebNextIsStep, IInvStep, WebInvBeside, WebInvOwn
<1>3. QED BY <1>1, <1>2, PTL DEF WebSpec

\* A file no worker had when the handler opened it is sent exactly as its
\* content-length announced, whatever the workers write and the eviction
\* deletes meanwhile.
THEOREM RelaySendsWhole == WebSpec => []SettledFileSentWhole
<1>1. IInv /\ WebInv => SettledFileSentWhole
  BY DEF WebInv
<1>2. QED BY <1>1, RelayInvariant, PTL

\* Beside the handler too, a completed segment is on disk or about to be: what
\* the handler has open is not deleted, and nothing else changes.
THEOREM RelayKeepsFiles == WebSpec => []CompletedIsOnDisk
<1>1. WebInit => DiskInv
  BY DiskInit DEF WebInit
<1>2. IInv /\ DiskInv /\ [WebNext]_allVars => DiskInv'
  BY WebNextIsStep, DiskStep
<1>3. IInv /\ DiskInv => CompletedIsOnDisk
  BY DEF DiskInv, Owed, CompletedIsOnDisk
<1>4. QED BY <1>1, <1>2, <1>3, RelayInvariant, PTL DEF WebSpec

=============================================================================
