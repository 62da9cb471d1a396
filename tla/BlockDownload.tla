--------------------------- MODULE BlockDownload ---------------------------
(***************************************************************************)
(* Downloads of one item in blocks: downloadMediaOne and Three, block by   *)
(* block on the caller's thread, and downloadMediaTwo, with a worker per   *)
(* block that shares a slot with the caller.  sigle_download calls them    *)
(* one after the other on one object and then deletes it.                  *)
(***************************************************************************)
EXTENDS Integers, Sequences, FiniteSets

CONSTANTS Lengths,   \* what getItemLenth may answer
          SplitAt,   \* where downloadMediaThree splits: 1000 in the code
          MaxCalls   \* bound: calls on one object

ASSUME BlockAssumption == Lengths \subseteq Int /\ SplitAt \in Nat /\ MaxCalls \in Nat

MAX_THREAD_NUM == 3
Slots == 0..(MAX_THREAD_NUM - 1)

VARIABLES
  m_bExitFlag, m_DownInfo,
  worker,      \* per slot: where its thread is
  caller,      \* where the calling thread is
  call,        \* its call: function, the length answered, the next block, and
               \* how much the file held when it was opened
  m_hlsstream, \* the file written: what it held, and the blocks appended to it
  calls        \* calls made

blockVars == <<m_bExitFlag, m_DownInfo, worker, caller, call, m_hlsstream, calls>>

\* The answer to a request for a block: the URL and the range asked for.  What
\* came, if anything, nobody looks at.
Block(url, b, e) == [url |-> url, begin |-> b, end |-> e]

NoBlock == Block("none", 0, 0)
NoCall == [fn |-> "none", len |-> 0, next |-> 0, old |-> 0]

FreeSlot == [sUrl |-> "none", iRangeBegin |-> 0, iRangeEnd |-> 0, readBuffer |-> NoBlock,
             bDoComplete |-> FALSE, bStartFlag |-> FALSE]

BlockInit ==
  /\ m_bExitFlag = FALSE /\ m_DownInfo = [i \in Slots |-> FreeSlot]
  /\ worker = [i \in Slots |-> "none"] /\ caller = "constructed"
  /\ call = NoCall /\ m_hlsstream = <<>> /\ calls = 0

-----------------------------------------------------------------------------
(* ranges *)

\* C division truncates towards zero.
Part3(len) == IF len < 0 THEN -((-len) \div MAX_THREAD_NUM) ELSE len \div MAX_THREAD_NUM

\* Both ends of a range are inclusive, and i is never 3, so that the rest of
\* the division is added to none.
RangeBegin(len, i) == i * Part3(len)

RangeEnd(len, i) == (i + 1) * Part3(len)

-----------------------------------------------------------------------------
(* the caller *)

AtCaller(p) == caller = p
WorkerFrame == UNCHANGED <<m_bExitFlag, worker>>

\* InitDownloadThread, were it called: the handles are never initialised, and
\* a thread whose handle is not 0 by chance is not started.
InitDownloadThread ==
  /\ AtCaller("constructed")
  /\ m_bExitFlag' = FALSE
  /\ \E unset \in SUBSET Slots :
       worker' = [i \in Slots |-> IF i \in unset THEN "none" ELSE "top"]
  /\ caller' = "ready"
  /\ UNCHANGED <<m_DownInfo, call, m_hlsstream, calls>>

\* The constructor as it is starts no threads.
NoThreads ==
  /\ AtCaller("constructed") /\ caller' = "ready"
  /\ UNCHANGED <<m_bExitFlag, m_DownInfo, worker, call, m_hlsstream, calls>>

\* A call begins with the item's length, -1 when that could not be got, and
\* opens the file of its name to append to it.  That may hold something, for
\* nobody looks whether that of an earlier run could be deleted: however much
\* it is counts as one entry.  A third of less than 3 is 0, and the remainder
\* of a division by it, which nothing uses, is taken: the compiler may leave it
\* out.
BeginCall(fn) ==
  /\ AtCaller("ready") /\ calls < MaxCalls
  /\ \E len \in Lengths, file \in {<<>>, <<NoBlock>>} :
       /\ call' = [fn |-> fn, len |-> len, next |-> 0, old |-> Len(file)]
       /\ caller' \in {"blocks"} \cup IF fn # "Three" /\ Part3(len) = 0 THEN {"crashed"} ELSE {}
       /\ m_hlsstream' = file
  /\ calls' = calls + 1
  /\ UNCHANGED m_DownInfo /\ WorkerFrame

\* The range of the next block.
NextRange ==
  IF call.fn # "Three" THEN <<RangeBegin(call.len, call.next), RangeEnd(call.len, call.next)>>
  ELSE IF call.next = 0 THEN <<0, SplitAt>> ELSE <<SplitAt + 1, call.len>>

Blocks == IF call.fn = "Three" THEN 2 ELSE MAX_THREAD_NUM

\* downloadBlock: what came is appended, though the transfer may have failed.
DownloadBlock ==
  /\ AtCaller("blocks") /\ call.fn # "Two" /\ call.next < Blocks
  /\ m_hlsstream' = Append(m_hlsstream, Block("item", NextRange[1], NextRange[2]))
  /\ call' = [call EXCEPT !.next = @ + 1]
  /\ UNCHANGED <<m_DownInfo, caller, calls>> /\ WorkerFrame

\* downloadMediaTwo fills a slot; one that is busy meets an assertion and,
\* in a release build, is left to its old range.  The arguments for url and
\* path are mixed up: the worker asks for a URL "single" and not for the item.
FillSlot ==
  LET i == call.next
  IN /\ AtCaller("blocks") /\ call.fn = "Two" /\ i < Blocks
     /\ m_DownInfo' = IF m_DownInfo[i].bStartFlag THEN m_DownInfo
                      ELSE [m_DownInfo EXCEPT ![i] =
                              [sUrl |-> "single", iRangeBegin |-> NextRange[1],
                               iRangeEnd |-> NextRange[2], readBuffer |-> NoBlock,
                               bDoComplete |-> FALSE, bStartFlag |-> TRUE]]
     /\ call' = [call EXCEPT !.next = @ + 1]
     /\ UNCHANGED <<caller, m_hlsstream, calls>> /\ WorkerFrame

\* Slip: bStartFlag is not looked at.
AllCompleteOnly == \A i \in Slots : m_DownInfo[i].bDoComplete

\* The caller looks at the slots over and over; one that is complete stays so.
AllComplete == \A i \in Slots : ~m_DownInfo[i].bStartFlag /\ m_DownInfo[i].bDoComplete

Join ==
  /\ AtCaller("blocks") /\ call.fn = "Two" /\ call.next = Blocks /\ AllComplete
  /\ m_hlsstream' = m_hlsstream \o [i \in 1..Blocks |-> m_DownInfo[i - 1].readBuffer]
  /\ caller' = "ready"
  /\ UNCHANGED <<m_DownInfo, call, calls>> /\ WorkerFrame

EndCall ==
  /\ AtCaller("blocks") /\ call.fn # "Two" /\ call.next = Blocks
  /\ caller' = "ready"
  /\ UNCHANGED <<m_DownInfo, call, m_hlsstream, calls>> /\ WorkerFrame

\* DeleteDownloadThread: the wait names 24 handles of an array of 3 and fails
\* at once, and the slots are gone while workers still look at them.
Delete ==
  /\ AtCaller("ready")
  /\ m_bExitFlag' = TRUE /\ caller' = "deleted"
  /\ UNCHANGED <<m_DownInfo, worker, call, m_hlsstream, calls>>

-----------------------------------------------------------------------------
(* the workers: downloadFunc, and downloadPro but for a pause *)

Goes(i, from, to) == worker[i] = from /\ worker' = [worker EXCEPT ![i] = to]

CallerFrame == UNCHANGED <<m_bExitFlag, caller, call, m_hlsstream, calls>>

TestExit(i) ==
  /\ Goes(i, "top", IF m_bExitFlag THEN "ended" ELSE "looking")
  /\ UNCHANGED m_DownInfo /\ CallerFrame

\* In a slot that is gone anything may be found.
TestStart(i) ==
  /\ \/ /\ m_DownInfo[i].bStartFlag \/ caller = "deleted"
        /\ Goes(i, "looking", "fetching")
     \/ /\ ~m_DownInfo[i].bStartFlag \/ caller = "deleted"
        /\ Goes(i, "looking", "top")
  /\ UNCHANGED m_DownInfo /\ CallerFrame

\* downloadBlockEx; its result is not looked at.
FetchBlock(i) ==
  /\ Goes(i, "fetching", "complete")
  /\ LET slot == m_DownInfo[i]
     IN m_DownInfo' = [m_DownInfo EXCEPT ![i].readBuffer =
                         Block(slot.sUrl, slot.iRangeBegin, slot.iRangeEnd)]
  /\ CallerFrame

CompleteBlock(i) ==
  /\ Goes(i, "complete", "clear")
  /\ m_DownInfo' = [m_DownInfo EXCEPT ![i].bDoComplete = TRUE]
  /\ CallerFrame

\* Slip: the worker forgets to free its slot.
FreeForgotten(i) ==
  /\ Goes(i, "clear", "top")
  /\ UNCHANGED m_DownInfo /\ CallerFrame

Free(i) ==
  /\ Goes(i, "clear", "top")
  /\ m_DownInfo' = [m_DownInfo EXCEPT ![i].bStartFlag = FALSE]
  /\ CallerFrame

Worker(i) == TestExit(i) \/ TestStart(i) \/ FetchBlock(i) \/ CompleteBlock(i) \/ Free(i)

Caller ==
  \/ InitDownloadThread \/ NoThreads \/ DownloadBlock \/ FillSlot \/ Join \/ EndCall \/ Delete
  \/ \E fn \in {"One", "Two", "Three"} : BeginCall(fn)

BlockNext == Caller \/ \E i \in Slots : Worker(i)

\* What goes on by itself once a call is made: threads run, and every transfer
\* ends, which curl without a timeout does not promise.
WithinCall == DownloadBlock \/ FillSlot \/ Join \/ EndCall

-----------------------------------------------------------------------------
(* Properties *)

Returned(fn) == caller = "ready" /\ call.fn = fn

\* What downloadMediaTwo joins, behind what the file held, are the answers to
\* this call's ranges in order: whatever the workers did before, no answer to
\* an earlier call is taken for one of them.
JoinedBlocksAreFresh ==
  Returned("Two") =>
    /\ Len(m_hlsstream) = call.old + MAX_THREAD_NUM
    /\ \A i \in Slots : /\ m_hlsstream[call.old + i + 1].begin = RangeBegin(call.len, i)
                        /\ m_hlsstream[call.old + i + 1].end = RangeEnd(call.len, i)

\* With its threads running every call returns, though the caller and three
\* workers tell each other so by two flags only, and after the end of the
\* object every thread ends.
DownloadsFinish ==
  /\ (caller = "blocks" /\ \A i \in Slots : worker[i] # "none") ~> caller = "ready"
  /\ caller = "deleted" ~> \A i \in Slots : worker[i] \in {"none", "ended"}

=============================================================================
