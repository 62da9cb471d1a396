------------------------------ MODULE LivePool ------------------------------
(***************************************************************************)
(* LiveDownloader implements JobPool.                                      *)
(***************************************************************************)
EXTENDS LiveDownloader

\* The segment of each worker; a worker is busy until it clears bStartFlag.
Busy == [w \in Workers |-> IF thInfo[w].bStartFlag THEN thInfo[w].item ELSE NoSegment]

\* The newest segment that was ever queued.
Newest == StrLast(m_downQueue, m_compelteQueue)

\* A segment has been taken from the moment its worker may see it, although
\* RemoveDownItems pops it from m_downQueue only later.
Pool == INSTANCE JobPool WITH
          Capacity <- DOWN_NUM, todo <- Remaining, busy <- Busy, newest <- Newest

\* The peek, the hand-off and the pop together take each segment exactly
\* once, in order, whatever the monitor queues and the workers finish in
\* between.
ImplementsJobPool == Pool!Spec

=============================================================================
