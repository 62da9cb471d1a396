-------------------------- MODULE AddDownItemsLoop --------------------------
(***************************************************************************)
(* HLSPlaylistDownloader::AddDownItems as it is written: two while loops   *)
(* over the parsed list, one turn per action, with both queue locks held   *)
(* throughout.  The operator AddDownItems of SegmentLists, which           *)
(* LiveDownloader uses, is checked against it for every list, repeated     *)
(* names included, and every content of the queues.                        *)
(***************************************************************************)
EXTENDS SegmentLists

CONSTANTS Names,      \* segment names
          MaxList     \* bound: lines of a playlist

ASSUME LoopBound == MaxList \in Nat

VARIABLES m_s_hlsList, m_downQueue, m_compelteQueue,
          before,     \* history: the download queue on entry
          strlast, bFirstFlag, it, iCount,    \* the locals
          pc

loopVars == <<m_s_hlsList, m_downQueue, m_compelteQueue, before, strlast,
          bFirstFlag, it, iCount, pc>>

Lists(n) == UNION {[1..k -> Names] : k \in 0..n}

LoopInit ==
  /\ m_s_hlsList \in Lists(MaxList)
  /\ m_downQueue \in Lists(DOWN_NUM) /\ m_compelteQueue \in Lists(1)
  /\ before = m_downQueue
  /\ strlast = NoSegment /\ bFirstFlag = FALSE /\ it = 1 /\ iCount = 0
  /\ pc = "enter"

AtEnd == it > Len(m_s_hlsList)
HasRoom == Len(m_downQueue) < DOWN_NUM

\* The newest segment of either queue, or the flag when there is none.
FindLast ==
  /\ pc = "enter"
  /\ strlast' = StrLast(m_downQueue, m_compelteQueue)
  /\ bFirstFlag' = (m_downQueue = <<>> /\ m_compelteQueue = <<>>)
  /\ pc' = "first"
  /\ UNCHANGED <<m_s_hlsList, m_downQueue, m_compelteQueue, before, it, iCount>>

\* Slip: iCount does not end the loop.
FirstLoopUncounted ==
  /\ pc = "first"
  /\ HasRoom /\ ~AtEnd
  /\ IF bFirstFlag
     THEN m_downQueue' = Append(m_downQueue, m_s_hlsList[it]) /\ UNCHANGED bFirstFlag
     ELSE bFirstFlag' = (strlast = m_s_hlsList[it]) /\ UNCHANGED m_downQueue
  /\ iCount' = iCount + 1 /\ it' = it + 1
  /\ UNCHANGED <<m_s_hlsList, m_compelteQueue, before, strlast, pc>>

\* A turn of the first loop: a segment behind strlast is queued, strlast
\* itself raises the flag, anything before it is passed over.
FirstLoop ==
  /\ pc = "first"
  /\ iCount < DOWN_NUM /\ HasRoom /\ ~AtEnd
  /\ IF bFirstFlag
     THEN m_downQueue' = Append(m_downQueue, m_s_hlsList[it]) /\ UNCHANGED bFirstFlag
     ELSE bFirstFlag' = (strlast = m_s_hlsList[it]) /\ UNCHANGED m_downQueue
  /\ iCount' = iCount + 1 /\ it' = it + 1
  /\ UNCHANGED <<m_s_hlsList, m_compelteQueue, before, strlast, pc>>

\* The first loop ends; the second begins at the head of the list, and only
\* if the flag never rose.
FirstLoopEnds ==
  /\ pc = "first"
  /\ iCount >= DOWN_NUM \/ ~HasRoom \/ AtEnd
  /\ IF bFirstFlag THEN pc' = "done" /\ UNCHANGED it ELSE pc' = "second" /\ it' = 1
  /\ UNCHANGED <<m_s_hlsList, m_downQueue, m_compelteQueue, before, strlast,
                 bFirstFlag, iCount>>

SecondLoop ==
  /\ pc = "second" /\ HasRoom /\ ~AtEnd
  /\ m_downQueue' = Append(m_downQueue, m_s_hlsList[it])
  /\ it' = it + 1
  /\ UNCHANGED <<m_s_hlsList, m_compelteQueue, before, strlast, bFirstFlag,
                 iCount, pc>>

SecondLoopEnds ==
  /\ pc = "second" /\ (~HasRoom \/ AtEnd)
  /\ pc' = "done"
  /\ UNCHANGED <<m_s_hlsList, m_downQueue, m_compelteQueue, before, strlast,
                 bFirstFlag, it, iCount>>

LoopNext == FindLast \/ FirstLoop \/ FirstLoopEnds \/ SecondLoop \/ SecondLoopEnds

-----------------------------------------------------------------------------
\* The loops end with the queue the operator AddDownItems describes.
LoopsComputeAddDownItems ==
  pc = "done" => m_downQueue = AddDownItems(m_s_hlsList, before, m_compelteQueue)

=============================================================================
