---------------------------- MODULE SyncRequests ----------------------------
(***************************************************************************)
(* The client's synchronous requests: a thread posts its request and runs  *)
(* the io_service itself, together with whatever other threads do the same *)
(* on one client.  An io_service that ran out of work is stopped and must  *)
(* be restarted, which the last one to leave does.                         *)
(***************************************************************************)
EXTENDS Naturals, FiniteSets

CONSTANTS Threads,   \* threads that share the client
          MaxSync,   \* bound: requests of a thread
          MaxThrows  \* bound: handlers that throw

ASSUME SyncAssumption == IsFiniteSet(Threads) /\ MaxSync \in Nat /\ MaxThrows \in Nat

VARIABLES
  at,           \* per thread: where it is
  sent,         \* per thread: requests made so far
  result,       \* per thread: what its last request returned
  pending,      \* requests whose callback is still to be called
  stopped,      \* the io_service's flag
  concurrent_synchronous_requests,
  overlapped,   \* history: requests that met one of another thread
  strayed,      \* history: requests whose callback wrote to a frame that was gone
  thrown        \* history: requests that a handler threw out of

syncVars == <<at, sent, result, pending, stopped, concurrent_synchronous_requests,
              overlapped, strayed, thrown>>

SyncInit ==
  /\ at = [t \in Threads |-> "out"] /\ sent = [t \in Threads |-> 0]
  /\ result = [t \in Threads |-> "none"] /\ pending = {} /\ stopped = FALSE
  /\ concurrent_synchronous_requests = 0 /\ overlapped = {} /\ strayed = {}
  /\ thrown = {}

Inside(t) == at[t] # "out"
Latest(t) == <<t, sent[t]>>
Moves(t, from, to) == at[t] = from /\ at' = [at EXCEPT ![t] = to]
HistoryFrame == UNCHANGED <<sent, overlapped, strayed, thrown>>

\* The request is handed to the asynchronous function.
Post(t) ==
  /\ sent[t] < MaxSync /\ Moves(t, "out", "posted")
  /\ sent' = [sent EXCEPT ![t] = @ + 1]
  /\ pending' = pending \cup {<<t, sent[t] + 1>>}
  /\ result' = [result EXCEPT ![t] = "none"]
  /\ LET others == {u \in Threads : u # t /\ Inside(u)}
     IN overlapped' = IF others = {} THEN overlapped
                      ELSE overlapped \cup {Latest(u) : u \in others} \cup {<<t, sent[t] + 1>>}
  /\ UNCHANGED <<stopped, concurrent_synchronous_requests, strayed, thrown>>

Count(t) ==
  /\ Moves(t, "posted", "running")
  /\ concurrent_synchronous_requests' = concurrent_synchronous_requests + 1
  /\ UNCHANGED <<result, pending, stopped>> /\ HistoryFrame

\* run(): any thread in it may call the callback of any request, which writes
\* to the frame of the function that made it, whether it returned or not.
RunHandler(t) ==
  /\ at[t] = "running" /\ ~stopped
  /\ \E r \in pending :
       /\ pending' = pending \ {r}
       /\ IF r = Latest(r[1]) /\ Inside(r[1])
          THEN result' = [result EXCEPT ![r[1]] = "answer"] /\ UNCHANGED strayed
          ELSE strayed' = strayed \cup {r} /\ UNCHANGED result
  /\ UNCHANGED <<at, sent, stopped, concurrent_synchronous_requests, overlapped, thrown>>

\* The handler of an answer whose length is no number throws instead, out of
\* run and of the request of the thread it was called on: the request it was
\* for has no callback any more, and the thread leaves without counting itself
\* out or restarting the io_service.
HandlerThrows(t) ==
  /\ Cardinality(thrown) < MaxThrows /\ ~stopped /\ Moves(t, "running", "out")
  /\ \E r \in pending : pending' = pending \ {r}
  /\ thrown' = thrown \cup {Latest(t)}
  /\ UNCHANGED <<sent, result, stopped, concurrent_synchronous_requests, overlapped, strayed>>

\* The thread that sees nothing left to do stops the io_service, though a
\* request may be posted before it comes to that.
Drain(t) ==
  /\ pending = {} /\ Moves(t, "running", "draining")
  /\ UNCHANGED <<result, pending, stopped, concurrent_synchronous_requests>> /\ HistoryFrame

\* run() returns once stopped, at once when it was stopped before.
RunReturns(t) ==
  /\ \/ stopped /\ Moves(t, "running", "ran")
     \/ Moves(t, "draining", "ran")
  /\ stopped' = TRUE
  /\ UNCHANGED <<result, pending, concurrent_synchronous_requests>> /\ HistoryFrame

\* Slip: the io_service is not restarted.
LeaveStopped(t) ==
  /\ Moves(t, "ran", "out")
  /\ concurrent_synchronous_requests' = concurrent_synchronous_requests - 1
  /\ UNCHANGED <<result, pending, stopped>> /\ HistoryFrame

LeaveSync(t) ==
  /\ Moves(t, "ran", "out")
  /\ concurrent_synchronous_requests' = concurrent_synchronous_requests - 1
  /\ stopped' = (stopped /\ concurrent_synchronous_requests' # 0)
  /\ UNCHANGED <<result, pending>> /\ HistoryFrame

SyncNext ==
  \E t \in Threads :
    \/ Post(t) \/ Count(t) \/ RunHandler(t) \/ HandlerThrows(t) \/ Drain(t) \/ RunReturns(t)
    \/ LeaveSync(t)

-----------------------------------------------------------------------------
(* Properties *)

\* A request made while no other thread is in one is answered, whatever the
\* threads did before: the io_service is never left stopped for it, and no
\* thread sleeps through a restart.  Only a request that meets another may
\* return with neither answer nor error, and only its callback goes astray, or
\* that of one a handler threw out of.  From then on the count stays above 0, so
\* that nobody restarts an io_service that stops, and requests may be lost.
EmptyHandedOnlyInGap ==
  /\ thrown = {} =>
       /\ \A t \in Threads : at[t] = "ran" /\ result[t] = "none" => Latest(t) \in overlapped
       /\ (\A t \in Threads : ~Inside(t)) => ~stopped
  /\ thrown # {} /\ stopped => concurrent_synchronous_requests > 0
  /\ strayed \subseteq overlapped \cup thrown

=============================================================================
