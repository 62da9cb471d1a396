---------------------------- MODULE SegmentLists ----------------------------
(***************************************************************************)
(* The pure part of the live downloader: what a playlist is, the list of   *)
(* segment names the parser gets out of it, and which of them              *)
(* HLSPlaylistDownloader::AddDownItems appends to the download queue.      *)
(*                                                                         *)
(* A segment name is the number of the segment in the live stream.  A      *)
(* playlist is a window [first, last] of consecutive segments; a playlist  *)
(* that lists nothing has last = first - 1.  Queues are sequences whose    *)
(* head is the front of the std::queue.                                    *)
(***************************************************************************)
EXTENDS Integers, Sequences

CONSTANTS DOWN_NUM,    \* capacity of m_downQueue (3 in the code)
          COMP_NUM     \* finished segments kept on disk (6 in the code)

ASSUME QueueSizes == DOWN_NUM \in Nat \ {0} /\ COMP_NUM \in Nat \ {0}

\* The value of a std::string that names no segment ("").
NoSegment == 0

LeastOf(a, b) == IF a <= b THEN a ELSE b

\* The elements of a queue.
Items(q) == {q[k] : k \in 1..Len(q)}

\* A sequence of segments in which every later one is newer.
Increasing(q) == \A j, k \in 1..Len(q) : j < k => q[j] < q[k]

\* The playlist that lists nothing; also the empty buffer before any download.
EmptyPlaylist == [first |-> 1, last |-> 0]

\* The playlists over segments up to n.
Windows(n) == {w \in [first : 1..(n + 1), last : 0..n] : w.first <= w.last + 1}

\* The lines of a playlist that name a segment, in the order they are listed.
BuildListFromStream(w) == [k \in 1..(w.last - w.first + 1) |-> w.first + k - 1]

-----------------------------------------------------------------------------
(* AddDownItems.  strlast is the newest segment ever queued: the back of   *)
(* the download queue or, when that is empty, of the completed queue.      *)

\* Slip: the completed queue is asked first.
StrLastSwapped(down, comp) ==
  IF comp # <<>> THEN comp[Len(comp)]
  ELSE IF down # <<>> THEN down[Len(down)]
  ELSE NoSegment

StrLast(down, comp) ==
  IF down # <<>> THEN down[Len(down)]
  ELSE IF comp # <<>> THEN comp[Len(comp)]
  ELSE NoSegment

\* The list positions the first loop can reach (iCount < DOWN_NUM).
Scanned(list) == LeastOf(DOWN_NUM, Len(list))

Matches(list, seg) == {k \in 1..Scanned(list) : list[k] = seg}

\* Slip: the scan stops on strlast instead of behind it.
StartPosAtLast(list, down, comp) ==
  LET found == Matches(list, StrLast(down, comp))
  IN  IF (down = <<>> /\ comp = <<>>) \/ found = {} THEN 1
      ELSE CHOOSE k \in found : \A j \in found : k <= j

\* The list position whose segment is queued first: behind strlast when the
\* scan meets it, and the start of the list when there is no strlast or when
\* the scan does not meet it.
StartPos(list, down, comp) ==
  LET found == Matches(list, StrLast(down, comp))
  IN  IF (down = <<>> /\ comp = <<>>) \/ found = {} THEN 1
      ELSE 1 + CHOOSE k \in found : \A j \in found : k <= j

\* Slip: the size of the queue is not tested.
AddDownItemsNoLimit(list, down, comp) ==
  down \o SubSeq(list, StartPos(list, down, comp), Scanned(list))

\* Segments go in until the queue is full or the scanned part is used up.
AddDownItems(list, down, comp) ==
  LET start == StartPos(list, down, comp)
      stop  == LeastOf(Scanned(list), start - 1 + DOWN_NUM - Len(down))
  IN  down \o SubSeq(list, start, stop)

=============================================================================
