----------------------------- MODULE ScopeRunner ----------------------------
(***************************************************************************)
(* SimpleWeb::ScopeRunner, the gate every asynchronous handler of the web  *)
(* server passes: continue_lock lets a handler in while the server lives,  *)
(* and the server's destructor calls stop, which waits for the handlers    *)
(* inside and shuts the gate.  Both are loops around a weak                *)
(* compare-exchange on one counter; each action here is one access to it.  *)
(***************************************************************************)
EXTENDS Integers, FiniteSets

CONSTANTS Handlers,    \* threads that run handlers, again and again
          Stoppers     \* threads that call stop

ASSUME FiniteHandlers == IsFiniteSet(Handlers)

VARIABLES count,       \* the atomic counter; -1 when the gate is shut
          pcH,         \* where each handler thread is
          expected,    \* continue_lock's local
          pcS          \* where each stopping thread is

vars == <<count, pcH, expected, pcS>>

Init == /\ count = 0
        /\ pcH = [h \in Handlers |-> "outside"] /\ expected = [h \in Handlers |-> 0]
        /\ pcS = [s \in Stoppers |-> "before"]

-----------------------------------------------------------------------------
(* continue_lock *)

\* long expected = count;
ReadCount(h) ==
  /\ pcH[h] = "outside"
  /\ expected' = [expected EXCEPT ![h] = count]
  /\ pcH' = [pcH EXCEPT ![h] = "test"]
  /\ UNCHANGED <<count, pcS>>

\* Slip: the counter is stored without comparing it first.
EnterBlindly(h) ==
  /\ pcH[h] = "test" /\ expected[h] >= 0
  /\ count' = expected[h] + 1
  /\ pcH' = [pcH EXCEPT ![h] = "inside"]
  /\ UNCHANGED <<expected, pcS>>

\* Slip: the sign of expected is not tested.
EnterUntested(h) ==
  /\ pcH[h] = "test" /\ count = expected[h]
  /\ count' = expected[h] + 1
  /\ pcH' = [pcH EXCEPT ![h] = "inside"]
  /\ UNCHANGED <<expected, pcS>>

\* expected >= 0 and the exchange succeeds: the handler holds a SharedLock.
Enter(h) ==
  /\ pcH[h] = "test" /\ expected[h] >= 0 /\ count = expected[h]
  /\ count' = expected[h] + 1
  /\ pcH' = [pcH EXCEPT ![h] = "inside"]
  /\ UNCHANGED <<expected, pcS>>

\* The exchange fails, because the counter moved or for no reason at all.
Retry(h) ==
  /\ pcH[h] = "test" /\ expected[h] >= 0
  /\ expected' = [expected EXCEPT ![h] = count]
  /\ UNCHANGED <<count, pcH, pcS>>

\* Slip: a counter of 0 counts as shut.
RefuseZero(h) ==
  /\ pcH[h] = "test" /\ expected[h] <= 0
  /\ pcH' = [pcH EXCEPT ![h] = "refused"]
  /\ UNCHANGED <<count, expected, pcS>>

\* nullptr is returned: the handler gives up.
Refuse(h) ==
  /\ pcH[h] = "test" /\ expected[h] < 0
  /\ pcH' = [pcH EXCEPT ![h] = "refused"]
  /\ UNCHANGED <<count, expected, pcS>>

\* Slip: the lock is given up without counting down.
LeaveUncounted(h) ==
  /\ pcH[h] = "inside"
  /\ pcH' = [pcH EXCEPT ![h] = "outside"]
  /\ UNCHANGED <<count, expected, pcS>>

\* ~SharedLock, and the thread is free for its next handler.
Leave(h) ==
  /\ pcH[h] = "inside"
  /\ count' = count - 1
  /\ pcH' = [pcH EXCEPT ![h] = "outside"]
  /\ UNCHANGED <<expected, pcS>>

Handler(h) == ReadCount(h) \/ Enter(h) \/ Retry(h) \/ Refuse(h) \/ Leave(h)

-----------------------------------------------------------------------------
(* stop.  A failed exchange on a counter that is not negative, spurious or *)
(* not, changes nothing and the loop goes round.                           *)

CallStop(s) ==
  /\ pcS[s] = "before"
  /\ pcS' = [pcS EXCEPT ![s] = "trying"]
  /\ UNCHANGED <<count, pcH, expected>>

\* Slip: stop does not wait for the locks that are held.
ShutAtOnce(s) ==
  /\ pcS[s] = "trying" /\ count >= 0
  /\ count' = -1
  /\ pcS' = [pcS EXCEPT ![s] = "returned"]
  /\ UNCHANGED <<pcH, expected>>

Shut(s) ==
  /\ pcS[s] = "trying" /\ count = 0
  /\ count' = -1
  /\ pcS' = [pcS EXCEPT ![s] = "returned"]
  /\ UNCHANGED <<pcH, expected>>

\* Some other thread shut the gate.
AlreadyShut(s) ==
  /\ pcS[s] = "trying" /\ count < 0
  /\ pcS' = [pcS EXCEPT ![s] = "returned"]
  /\ UNCHANGED <<count, pcH, expected>>

Stopper(s) == CallStop(s) \/ Shut(s) \/ AlreadyShut(s)

Next == (\E h \in Handlers : Handler(h)) \/ (\E s \in Stoppers : Stopper(s))

Spec == Init /\ [][Next]_vars

\* Every handler returns, a destructor calls stop, and its weak exchange does
\* not fail spuriously for ever on a counter that stays 0.
Fairness ==
  /\ \A h \in Handlers : WF_vars(Leave(h))
  /\ \A s \in Stoppers : WF_vars(Stopper(s))

FairSpec == Spec /\ Fairness

-----------------------------------------------------------------------------
(* Properties.                                                             *)

Inside == {h \in Handlers : pcH[h] = "inside"}

TypeOK ==
  /\ count \in Int
  /\ pcH \in [Handlers -> {"outside", "test", "inside", "refused"}]
  /\ expected \in [Handlers -> Int]
  /\ pcS \in [Stoppers -> {"before", "trying", "returned"}]

\* The counter is the number of locks held, or -1 with none held: no
\* interleaving of failed and successful exchanges miscounts.
CountsLocks == count = Cardinality(Inside) \/ (count = -1 /\ Inside = {})

\* stop promises its caller, a destructor, that no handler runs any more.
NoHandlerAfterStop ==
  (\E s \in Stoppers : pcS[s] = "returned") => Inside = {} /\ count = -1

\* A handler is turned away only by a server that is being destroyed.
RefusedOnlyWhenStopping ==
  (\E h \in Handlers : pcH[h] = "refused") => \E s \in Stoppers : pcS[s] # "before"

\* The gate never opens again.
ShutForGood == [][count = -1 => count' = -1]_vars

\* stop returns if handlers at some time stop asking to be let in; while they
\* keep coming nothing makes it return, for stop does not hold newcomers back.
StopReturns ==
  <>[](\A h \in Handlers : pcH[h] # "test")
    => \A s \in Stoppers : <>(pcS[s] = "returned")

=============================================================================
