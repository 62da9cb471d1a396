------------------------------ MODULE JobPool -------------------------------
(***************************************************************************)
(* What the download side promises, without locks, flags or the completed  *)
(* queue: a bounded queue of segments, each newer than all before it,      *)
(* handed out first in first out, one at a time to an idle worker.  Taking *)
(* a segment and removing it from the queue is one step here; in           *)
(* LiveDownloader it is a peek, a hand-off and a pop under locks that are  *)
(* released in between.                                                    *)
(***************************************************************************)
EXTENDS Integers, Sequences

CONSTANTS Workers, Capacity, MaxSeg

VARIABLES todo,     \* segments nobody has taken yet
          busy,     \* the segment each worker is on, 0 when it is idle
          newest    \* the newest segment ever submitted

vars == <<todo, busy, newest>>

Idle == 0
Ascending(q) == \A j, k \in 1..Len(q) : j < k => q[j] < q[k]

Init == todo = <<>> /\ busy = [w \in Workers |-> Idle] /\ newest = 0

\* One or more segments newer than all before them join the queue.
Submit ==
  \E n \in 1..(Capacity - Len(todo)) : \E q \in [1..n -> (newest + 1)..MaxSeg] :
    /\ Ascending(q)
    /\ todo' = todo \o q /\ newest' = q[n] /\ UNCHANGED busy

Take(w) ==
  /\ busy[w] = Idle /\ todo # <<>>
  /\ busy' = [busy EXCEPT ![w] = Head(todo)]
  /\ todo' = Tail(todo) /\ UNCHANGED newest

Finish(w) ==
  /\ busy[w] # Idle
  /\ busy' = [busy EXCEPT ![w] = Idle] /\ UNCHANGED <<todo, newest>>

Next == Submit \/ \E w \in Workers : Take(w) \/ Finish(w)

Spec == Init /\ [][Next]_vars

=============================================================================
