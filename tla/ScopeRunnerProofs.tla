------------------------- MODULE ScopeRunnerProofs --------------------------
(***************************************************************************)
(* Proofs about ScopeRunner, for any finite number of handler threads and  *)
(* any number of threads that call stop.                                   *)
(***************************************************************************)
EXTENDS ScopeRunner, FiniteSetTheorems, TLAPS

\* A returned stop left the gate shut, and a gate that is shut was shut by a
\* stop that returned; a local that is negative was read from a shut gate.
GateInv ==
  /\ (\E s \in Stoppers : pcS[s] = "returned") <=> count = -1
  /\ \A h \in Handlers : expected[h] < 0 => count = -1
  /\ \A h \in Handlers : pcH[h] = "refused" => expected[h] < 0

IInv == TypeOK /\ CountsLocks /\ GateInv

\* The number of handlers inside is a number, 0 when there are none.
LEMMA InsideFinite ==
  /\ IsFiniteSet(Inside) /\ Cardinality(Inside) \in Nat
  /\ Cardinality(Inside) = 0 <=> Inside = {}
<1>1. IsFiniteSet(Inside)
  BY FiniteHandlers, FS_Subset DEF Inside
<1>2. QED BY <1>1, FS_CardinalityType, FS_EmptySet

\* The initial state satisfies the invariant.
LEMMA InitInv == ASSUME Init PROVE IInv
<1>1. Inside = {} /\ count = 0
  BY DEF Init, Inside
<1>2. CountsLocks
  BY <1>1, FS_EmptySet DEF CountsLocks
<1>3. TypeOK /\ GateInv
  BY DEF Init, TypeOK, GateInv
<1>4. QED BY <1>2, <1>3 DEF IInv

\* A successful exchange counts the handler it lets in.
LEMMA EnterStep == ASSUME IInv, NEW h \in Handlers, Enter(h) PROVE IInv'
<1> USE DEF IInv, TypeOK, Enter
<1>1. Inside' = Inside \cup {h} /\ h \notin Inside
  BY DEF Inside
<1>2. Cardinality(Inside \cup {h}) = Cardinality(Inside) + 1
  BY <1>1, InsideFinite, FS_AddElement
<1>3. count = Cardinality(Inside)
  BY DEF CountsLocks
<1>4. CountsLocks'
  BY <1>1, <1>2, <1>3 DEF CountsLocks
<1>5. count >= 0 /\ count' = count + 1
  OBVIOUS
<1>6. GateInv'
  BY <1>5 DEF GateInv
<1>7. TypeOK'
  OBVIOUS
<1>8. QED BY <1>4, <1>6, <1>7

\* A lock given up is counted down.
LEMMA LeaveStep == ASSUME IInv, NEW h \in Handlers, Leave(h) PROVE IInv'
<1> USE DEF IInv, TypeOK, Leave
<1>1. Inside' = Inside \ {h} /\ h \in Inside
  BY DEF Inside
<1>2. Cardinality(Inside \ {h}) = Cardinality(Inside) - 1
  BY <1>1, InsideFinite, FS_RemoveElement
<1>3. count = Cardinality(Inside)
  BY <1>1 DEF CountsLocks
<1>4. CountsLocks'
  BY <1>1, <1>2, <1>3 DEF CountsLocks
<1>5. count # -1 /\ count' = count - 1 /\ count' # -1
  BY <1>1, <1>3, InsideFinite
<1>6. GateInv'
  BY <1>5 DEF GateInv
<1>7. TypeOK'
  OBVIOUS
<1>8. QED BY <1>4, <1>6, <1>7

\* The gate is shut only with nobody inside.
LEMMA ShutStep == ASSUME IInv, NEW s \in Stoppers, Shut(s) PROVE IInv'
<1> USE DEF IInv, TypeOK, Shut
<1>1. Inside' = Inside
  BY DEF Inside
<1>2. Inside = {}
  BY InsideFinite DEF CountsLocks
<1>3. CountsLocks'
  BY <1>1, <1>2 DEF CountsLocks
<1>4. GateInv' /\ TypeOK'
  BY DEF GateInv
<1>5. QED BY <1>3, <1>4

\* The other steps leave the counter and the handlers inside alone.
LEMMA QuietStep ==
  ASSUME IInv, TypeOK', GateInv', UNCHANGED count, Inside' = Inside
  PROVE  IInv'
BY DEF IInv, CountsLocks

\* Every step preserves the invariant.
LEMMA IInvStep == ASSUME IInv, [Next]_vars PROVE IInv'
<1>1. ASSUME NEW h \in Handlers, ReadCount(h) PROVE IInv'
  <2>1. UNCHANGED count /\ Inside' = Inside
    BY <1>1 DEF IInv, TypeOK, ReadCount, Inside
  <2>2. TypeOK' /\ GateInv'
    BY <1>1, InsideFinite DEF IInv, TypeOK, ReadCount, GateInv, CountsLocks
  <2>3. QED BY <2>1, <2>2, QuietStep
<1>2. ASSUME NEW h \in Handlers, Enter(h) PROVE IInv'
  BY <1>2, EnterStep
<1>3. ASSUME NEW h \in Handlers, Retry(h) PROVE IInv'
  <2>1. UNCHANGED count /\ Inside' = Inside
    BY <1>3 DEF IInv, TypeOK, Retry, Inside
  <2>2. TypeOK' /\ GateInv'
    BY <1>3, InsideFinite DEF IInv, TypeOK, Retry, GateInv, CountsLocks
  <2>3. QED BY <2>1, <2>2, QuietStep
<1>4. ASSUME NEW h \in Handlers, Refuse(h) PROVE IInv'
  <2>1. UNCHANGED count /\ Inside' = Inside
    BY <1>4 DEF IInv, TypeOK, Refuse, Inside
  <2>2. TypeOK' /\ GateInv'
    BY <1>4 DEF IInv, TypeOK, Refuse, GateInv
  <2>3. QED BY <2>1, <2>2, QuietStep
<1>5. ASSUME NEW h \in Handlers, Leave(h) PROVE IInv'
  BY <1>5, LeaveStep
<1>6. ASSUME NEW s \in Stoppers, CallStop(s) PROVE IInv'
  <2>1. UNCHANGED count /\ Inside' = Inside
    BY <1>6 DEF CallStop, Inside
  <2>2. TypeOK' /\ GateInv'
    BY <1>6 DEF IInv, TypeOK, CallStop, GateInv
  <2>3. QED BY <2>1, <2>2, QuietStep
<1>7. ASSUME NEW s \in Stoppers, Shut(s) PROVE IInv'
  BY <1>7, ShutStep
<1>8. ASSUME NEW s \in Stoppers, AlreadyShut(s) PROVE IInv'
  <2>1. UNCHANGED count /\ Inside' = Inside /\ count = -1
    BY <1>8, InsideFinite DEF AlreadyShut, Inside, IInv, CountsLocks
  <2>2. TypeOK' /\ GateInv'
    BY <1>8, <2>1 DEF IInv, TypeOK, AlreadyShut, GateInv
  <2>3. QED BY <2>1, <2>2, QuietStep
<1>9. CASE UNCHANGED vars
  BY <1>9 DEF vars, IInv, TypeOK, CountsLocks, GateInv, Inside
<1>10. QED BY <1>1, <1>2, <1>3, <1>4, <1>5, <1>6, <1>7, <1>8, <1>9
       DEF Next, Handler, Stopper

\* The invariant holds in every reachable state.
THEOREM Invariant == Spec => []IInv
<1>1. Init => IInv
  BY InitInv
<1>2. IInv /\ [Next]_vars => IInv'
  BY IInvStep
<1>3. QED BY <1>1, <1>2, PTL DEF Spec

\* The counter of ScopeRunner is exactly the number of SharedLocks alive until
\* stop sets it to -1, and then there are none.
THEOREM LocksCounted == Spec => []CountsLocks
<1>1. IInv => CountsLocks
  BY DEF IInv
<1>2. QED BY <1>1, Invariant, PTL

\* Once any stop returned no handler is inside, nor will one be: what the
\* server's destructor frees after stop is used by nobody.
THEOREM StopIsABarrier == Spec => []NoHandlerAfterStop
<1>1. IInv => NoHandlerAfterStop
  BY InsideFinite DEF IInv, GateInv, CountsLocks, NoHandlerAfterStop
<1>2. QED BY <1>1, Invariant, PTL

\* continue_lock returns nullptr only after a stop was called.
THEOREM RefusalMeansStop == Spec => []RefusedOnlyWhenStopping
<1>1. IInv => RefusedOnlyWhenStopping
  BY DEF IInv, GateInv, RefusedOnlyWhenStopping
<1>2. QED BY <1>1, Invariant, PTL

\* Nothing ever opens the gate again.
THEOREM GateStaysShut == Spec => ShutForGood
<1>1. ASSUME IInv, [Next]_vars, count = -1 PROVE count' = -1
  <2>1. Inside = {}
    BY <1>1, InsideFinite DEF IInv, CountsLocks
  <2>2. ASSUME NEW h \in Handlers PROVE ~Leave(h) /\ ~Enter(h)
    BY <1>1, <2>1 DEF Leave, Enter, Inside
  <2>3. QED BY <1>1, <2>2 DEF Next, Handler, Stopper, vars, ReadCount, Retry, Refuse,
                              CallStop, Shut, AlreadyShut
<1>2. IInv /\ [Next]_vars => [count = -1 => count' = -1]_vars
  BY <1>1
<1>3. QED BY <1>2, Invariant, PTL DEF Spec, ShutForGood

=============================================================================
