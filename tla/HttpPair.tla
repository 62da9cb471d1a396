------------------------------ MODULE HttpPair ------------------------------
(***************************************************************************)
(* The client and the server of the library talking to each other, as in   *)
(* http_examples.cpp.  faults bounds what may go wrong: timers that expire *)
(* although something is still under way, and calls of stop.               *)
(***************************************************************************)
EXTENDS HttpClient, HttpServer

pairVars == <<netVars, clientVars, serverVars, faults>>

PairInit == NetInit /\ ClientInit /\ ServerInit

ClientStep(A) == A /\ UNCHANGED <<serverVars, faults>>
ServerStep(A) == A /\ UNCHANGED <<clientVars, faults>>

\* Neither side has anything under way on c but a read that nothing feeds.
Quiet(c) ==
  /\ c \notin endC \cup endS /\ up[c] = <<>>
  /\ session[c].phase \in {"header", "upgraded"}
  /\ \A r \in Requests :
       connection[r] = c /\ step[r] \in Pending => step[r] # "write" /\ down[c] = <<>>

Fault == faults > 0 /\ faults' = faults - 1

ClientConnectFails(r) ==
  /\ ConnectFails(r) /\ UNCHANGED serverVars
  /\ \/ step[r] = "connect" /\ (connection[r] \in endC \/ ~listening) /\ UNCHANGED faults
     \/ Fault

ClientExpires(r) ==
  /\ Expire(r) /\ UNCHANGED serverVars
  /\ \/ connection[r] # NoConnection /\ Quiet(connection[r]) /\ UNCHANGED faults
     \/ Fault

ServerExpires(c) ==
  /\ ServerExpire(c) /\ UNCHANGED clientVars
  /\ \/ Quiet(c) /\ UNCHANGED faults
     \/ Fault

\* Completions, timers, and the application letting go of responses.
Progress ==
  \/ \E r \in Requests : ClientStep(Handler(r)) \/ ClientConnectFails(r) \/ ClientExpires(r)
  \/ \E c \in Conns :
       \/ ClientStep(OnExpired(c)) \/ ServerExpires(c)
       \/ ServerStep(Accept(c) \/ ServerHandler(c) \/ AppRelease(c) \/ OnServerExpired(c))

PairNext ==
  \/ Progress
  \/ \E r \in Requests : ClientStep(Request(r))
  \/ \E c \in Conns : ServerStep(AppSend(c))
  \/ \E destroyed \in BOOLEAN : \/ Stop(destroyed) /\ UNCHANGED serverVars /\ Fault
                                \/ CloseAcceptor(destroyed) /\ UNCHANGED clientVars /\ Fault
  \/ ServerStep(CloseConnections)

\* The io_services run: while something is under way, something of it ends.
PairFairness == WF_pairVars(Progress)

PairSpec == PairInit /\ [][PairNext]_pairVars /\ PairFairness

-----------------------------------------------------------------------------
(* Properties *)

PairTypeOK ==
  /\ created \in 0..MaxConns
  /\ connections \subseteq 1..created /\ in_use \subseteq 1..created
  /\ \A r \in Requests : connection[r] \in (1..created) \cup {NoConnection}
  /\ \A r \in Requests : step[r] \in {"new", "done", "thrown"} \cup Pending

UnderWay(r) == step[r] \in Pending

\* get_connection and the callbacks between them keep one connection open for
\* the next request and no more, whatever order requests end in.
AtMostOneIdle == \A c, d \in connections \ in_use : c = d

\* Two requests never read and write the same connection, though it goes from
\* one to the next, streams keep theirs and failed ones are replaced.
OneRequestPerConnection ==
  \A r, q \in Requests :
    r # q /\ UnderWay(r) /\ UnderWay(q) => connection[r] # connection[q]

\* A connection of the pool is in use only for a request that will give it
\* back: none is lost to the pool by an error, a stream or a stop, only by a
\* handler that throws.
NoConnectionLeaks ==
  \A c \in connections \cap in_use :
    \E r \in Requests : (UnderWay(r) \/ step[r] = "thrown") /\ connection[r] = c

\* However often reads fail, a request makes one connection and one more, so
\* that it is sent twice at most.
ConnectionsBounded == created <= 2 * Cardinality({r \in Requests : step[r] # "new"})

\* The server starts every session with an empty stream: no byte of a next
\* request may be in the stream of the last when that one is answered.
NothingReadAhead ==
  \A c \in Conns : session[c].phase \in {"app", "released", "final"} =>
                     session[c].streambuf = <<>>

\* The parts are of one request's answer, none twice and none after a later one.
Ascending(r, parts) ==
  \A i \in DOMAIN parts :
    /\ parts[i] \in {Part(r, n) : n \in 1..kind[r].parts}
    /\ \A j \in 1..(i - 1) : parts[j].part < parts[i].part

\* Nothing was closed before its time, or at least no server was destroyed.
Undisturbed(r) == server_gate = "open" \/ connection[r] \notin cut

\* What the client collects for a request are parts of its own answer in their
\* order, and no part is left out: the queue of the server keeps the order, and
\* the pool the conversations apart.  Only a server destroyed with parts queued
\* sends the end of a response without them.
AnswersInOrder ==
  \A r \in Requests :
    /\ Ascending(r, content[r])
    /\ Undisturbed(r) => content[r] = PartsOf(r, 1, Len(content[r]))

Completed(r) == step[r] = "done" /\ callbacks[r][Len(callbacks[r])] = FALSE

\* A request that ends without an error was answered in full.  An answer in
\* chunks can lack some when the server was destroyed, and one that is read to
\* the end of the connection its end when a timer or a stop closed that first.
AnswersWhole ==
  \A r \in Requests :
    /\ Completed(r) /\ kind[r].answer # "close"
    /\ kind[r].answer = "chunked" => Undisturbed(r)
    /\ kind[r].answer = "http/1.0" => connection[r] \notin cut
    => content[r] = Answer(r)

\* An answer that ends with its connection is complete as well when the
\* server closed it after the response.
ClosedAnswersWhole ==
  \A r \in Requests :
    Completed(r) /\ kind[r].answer = "close" /\ connection[r] \notin cut
    => content[r] = Answer(r)

\* After stop the server reads from no connection it did not close, but one
\* whose accept was being handled at that time.
StopReachesAllButOne ==
  LET open == {c \in Conns : session[c].phase \in Timed /\ c \notin endS}
  IN stopped => \A c, d \in open : c = d /\ accepting = "failing"

\* Every request is called back in the end, whether its connection was closed
\* by the peer, a timer or stop, or the answer never came: time and again no
\* request is under way.
RequestsAnswered == []<>(handler_runner = "shut" \/ \A r \in Requests : ~UnderWay(r))

\* The server lets go of every connection it accepted, or gives it away: idle
\* ones by their timer, and those that end by whatever their last write meets.
ConnectionsReleased == []<>(\A c \in Conns : session[c].phase \in {"none", "gone", "upgraded"})

=============================================================================
