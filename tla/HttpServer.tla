----------------------------- MODULE HttpServer -----------------------------
(***************************************************************************)
(* SimpleWeb::Server: connections accepted, requests read and given to a   *)
(* resource of the application, responses sent from a queue and, when the  *)
(* application lets go of one, what is left of it.  Every action is one    *)
(* completion handler or one call of the application.  The io_service is   *)
(* the application's own: an internal one stop also halts.                 *)
(*                                                                         *)
(* From the first read to the last write some timer is armed: read, write  *)
(* and send set one, and only the next set_timeout or the end of a read or *)
(* of the last write cancels it.  server_expired holds expiries queued.    *)
(***************************************************************************)
EXTENDS Http

VARIABLES
  accepting,           \* an accept is "waiting", "handling", "failing", "none"
  server_connections,  \* connections->set
  stopped,             \* stop has closed the connections
  server_expired,      \* connections with an expiry queued
  server_gate,         \* handler_runner
  session              \* per connection: the session and its response

(***************************************************************************)
(* A session: what is under way (phase), the parts read that belong to no  *)
(* request yet (streambuf), the request last read (request), the parts in  *)
(* the response's stream (response), those to be sent one write after the  *)
(* other (send_queue), and those of the writes in flight (writing).        *)
(***************************************************************************)
Fresh(p) == [phase |-> p, streambuf |-> <<>>, request |-> {}, response |-> <<>>,
             send_queue |-> <<>>, writing |-> <<>>]

server == <<accepting, stopped, server_gate>>
serverVars == <<server, server_connections, server_expired, session>>

ServerInit ==
  /\ accepting = "waiting" /\ server_connections = {} /\ stopped = FALSE
  /\ server_expired = {} /\ server_gate = "open"
  /\ session = [c \in Conns |-> Fresh("none")]

Reading == {"header", "content", "chunk"}

\* Slip: a connection that waits for the next request has no timer.
TimedNotIdle == {"content", "chunk", "app", "released", "final"}

Timed == Reading \cup {"app", "released", "final"}

Running(c, phases) == server_gate = "open" /\ session[c].phase \in phases

NetFrame == UNCHANGED <<kind, endC, established, listening>>

\* The session goes on as s.
Proceed(c, s) ==
  /\ session' = [session EXCEPT ![c] = s]
  /\ UNCHANGED <<server, server_connections, server_expired, endS, cut>> /\ NetFrame

\* The last reference to the connection goes, and with it its entry, its
\* socket, and the expiry that would have looked for it.  With the gate shut
\* that is the work of the stop.
Gone(c) ==
  /\ session' = [session EXCEPT ![c] = Fresh("gone")]
  /\ server_connections' = server_connections \ {c}
  /\ server_expired' = server_expired \ {c}
  /\ endS' = endS \cup {c} /\ Cut(IF server_gate = "shut" THEN {c} ELSE {})
  /\ UNCHANGED server /\ NetFrame

-----------------------------------------------------------------------------
(* accept *)

\* Slip: the connection is not in the set.
AcceptUnlisted(c) ==
  /\ accepting = "waiting" /\ listening
  /\ c \in established /\ session[c].phase = "none"
  /\ accepting' = "handling"
  /\ session' = [session EXCEPT ![c] = Fresh("accepted")]
  /\ UNCHANGED <<netVars, server_connections, stopped, server_expired, server_gate>>

\* The connection made for it was put into the set when the accept began; its
\* socket is assigned only when the handler runs.
Accept(c) ==
  /\ accepting = "waiting" /\ listening
  /\ c \in established /\ session[c].phase = "none"
  /\ accepting' = "handling"
  /\ server_connections' = server_connections \cup {c}
  /\ session' = [session EXCEPT ![c] = Fresh("accepted")]
  /\ UNCHANGED <<netVars, stopped, server_expired, server_gate>>

\* The next accept fails when the acceptor was closed, and its handler starts
\* another: only an accept that was aborted ends the chain.
AcceptHandler(c) ==
  /\ Running(c, {"accepted"})
  /\ accepting' = IF listening THEN "waiting" ELSE "failing"
  /\ session' = [session EXCEPT ![c] = Fresh("header")]
  /\ UNCHANGED <<netVars, server_connections, stopped, server_expired, server_gate>>

-----------------------------------------------------------------------------
(* read, read_chunked_transfer_encoded and find_resource *)

\* The request of s is read.  One without a resource for its path and method
\* is dropped without an answer, an upgrade leaves the server, and a resource
\* function that throws leaves its response empty.
FindResource(c, s, r) ==
  CASE kind[r].target = "missing" -> Gone(c)
    [] kind[r].target = "upgrade" ->
         /\ session' = [session EXCEPT ![c] = Fresh("upgraded")]
         /\ server_connections' = server_connections \ {c}
         /\ UNCHANGED <<server, server_expired, endS, cut>> /\ NetFrame
    [] kind[r].target = "throws" -> Proceed(c, [s EXCEPT !.phase = "final"])
    [] OTHER -> Proceed(c, [s EXCEPT !.phase = "app", !.response = Answer(r)])

\* read_until takes n parts, more than the header where they are there.  A
\* request that does not parse is dropped without an answer, and so is one
\* refused as too large, for its response is never sent.
ReadHeader(c) ==
  /\ Running(c, {"header"}) /\ c \notin endS
  /\ \E n \in 1..Len(up[c]) :
       LET r == up[c][1].of
           more == SubSeq(up[c], 2, n)
           Read(p, left) == [session[c] EXCEPT !.phase = p, !.request = {r}, !.streambuf = left]
       IN /\ up' = [up EXCEPT ![c] = Drop(@, n)]
          /\ IF up[c][1].part # 1 \/ kind[r].target = "bad" THEN Gone(c)
             ELSE IF kind[r].body = "none" THEN FindResource(c, Read("app", more), r)
             ELSE IF kind[r].body = "chunked" THEN Proceed(c, Read("chunk", more))
             ELSE IF more = <<>> THEN Proceed(c, Read("content", more))
             ELSE FindResource(c, Read("app", Tail(more)), r)
  /\ UNCHANGED down

\* transfer_exactly the rest of Content-Length.
ReadContent(c) ==
  /\ Running(c, {"content"}) /\ c \notin endS /\ up[c] # <<>>
  /\ up' = [up EXCEPT ![c] = Tail(@)]
  /\ \E r \in session[c].request : FindResource(c, session[c], r)
  /\ UNCHANGED down

\* One chunk; the last ends the request.
ReadChunk(c) ==
  LET all == session[c].streambuf \o up[c]
      s == [session[c] EXCEPT !.streambuf = Tail(all)]
  IN /\ Running(c, {"chunk"}) /\ c \notin endS /\ all # <<>>
     /\ up' = [up EXCEPT ![c] = <<>>]
     /\ \E r \in s.request :
          IF all[1].part = BodyParts(r) THEN FindResource(c, s, r) ELSE Proceed(c, s)
     /\ UNCHANGED down

ReadFails(c) ==
  /\ Running(c, Reading) /\ c \in endS \cup endC
  /\ Gone(c)
  /\ UNCHANGED <<up, down>>

-----------------------------------------------------------------------------
(* Response: send, send_from_queue, send_on_delete *)

\* Slip: every send starts a write.
AppSendAlways(c) ==
  LET s == session[c]
  IN /\ s.phase = "app" /\ Len(s.response) > 1
     /\ Proceed(c, [s EXCEPT !.response = Tail(@),
                             !.send_queue = Append(@, s.response[1]),
                             !.writing = Append(@, s.response[1])])
     /\ UNCHANGED <<up, down>>

\* The application sends what it has written so far.
AppSend(c) ==
  LET s == session[c]
  IN /\ s.phase = "app" /\ Len(s.response) > 1
     /\ Proceed(c, [s EXCEPT !.response = Tail(@),
                             !.send_queue = Append(@, s.response[1]),
                             !.writing = IF s.send_queue = <<>> THEN <<s.response[1]>> ELSE @])
     /\ UNCHANGED <<up, down>>

\* The application lets go of the response; a write in flight still holds it.
AppRelease(c) ==
  LET s == session[c]
  IN /\ s.phase = "app"
     /\ Proceed(c, [s EXCEPT !.phase = IF s.writing = <<>> THEN "final" ELSE "released"])
     /\ UNCHANGED <<up, down>>

Deliver(c, parts) == down' = IF c \in endC THEN down ELSE [down EXCEPT ![c] = @ \o parts]

\* A write whose result nobody looks at.
DeliverIfOpen(c, parts) == IF c \in endS THEN UNCHANGED down ELSE Deliver(c, parts)

\* A write ends, the i-th of those in flight, and the next of the queue begins.
\* When it failed the whole queue is given up.  A handler that finds the gate
\* shut leaves the queue as it is, though its part has gone out.
QueueWritten(c, i) ==
  LET s == session[c]
      others == SubSeq(s.writing, 1, i - 1) \o Drop(s.writing, i)
      Left(q, w) == [s EXCEPT !.send_queue = q, !.writing = w,
                              !.phase = IF @ = "released" /\ w = <<>> THEN "final" ELSE @]
  IN /\ \/ /\ server_gate = "open" /\ c \notin endS
           /\ Deliver(c, <<s.writing[i]>>)
           /\ Proceed(c, Left(Tail(s.send_queue),
                              IF Len(s.send_queue) > 1 THEN Append(others, s.send_queue[2])
                              ELSE others))
        \/ /\ server_gate = "open" /\ c \in endS \cup endC
           /\ UNCHANGED down /\ Proceed(c, Left(<<>>, others))
        \/ /\ server_gate = "shut"
           /\ DeliverIfOpen(c, <<s.writing[i]>>)
           /\ Proceed(c, Left(s.send_queue, others))
     /\ UNCHANGED up

\* The application asked for the connection to be closed, which is also what
\* makes write_header leave out the length.
Closes(r) == kind[r].answer \in {"close", "http/1.0"}

\* close_connection_after_response, the request's Connection fields, and the
\* version decide.
Keeps(r) == kind[r].keep /\ ~Closes(r)

\* The last write ends: a new session, with an empty streambuf, or the end.
FinalWritten(c) ==
  LET s == session[c]
  IN /\ Running(c, {"final"})
     /\ \/ /\ c \notin endS
           /\ Deliver(c, s.response)
           /\ \E r \in s.request : IF Keeps(r) THEN Proceed(c, Fresh("header")) ELSE Gone(c)
        \/ /\ c \in endS \cup endC
           /\ Gone(c) /\ UNCHANGED down
     /\ UNCHANGED up

\* A handler that finds the gate shut returns, and its session goes.
Refused(c) ==
  /\ server_gate = "shut" /\ session[c].phase \in Reading \cup {"accepted"}
  /\ Gone(c)
  /\ UNCHANGED <<up, down>>

\* The last write was begun by whoever let go of the response, a handler that
\* was refused included: what is left of the stream goes out, past the parts
\* still queued, and its own handler is refused.
FinalRefused(c) ==
  /\ server_gate = "shut" /\ session[c].phase = "final"
  /\ DeliverIfOpen(c, session[c].response)
  /\ Gone(c)
  /\ UNCHANGED up

-----------------------------------------------------------------------------
(* timers and stop *)

ServerExpire(c) ==
  /\ session[c].phase \in Timed /\ c \notin server_expired \cup endS
  /\ server_expired' = server_expired \cup {c}
  /\ UNCHANGED <<netVars, server, server_connections, session>>

OnServerExpired(c) ==
  /\ c \in server_expired
  /\ server_expired' = server_expired \ {c}
  /\ endS' = endS \cup {c} /\ Cut({c})
  /\ UNCHANGED <<up, down, server, server_connections, session>> /\ NetFrame

\* stop closes the acceptor: the accept that waits is aborted, and connections
\* nobody accepted are reset.  ~ServerBase shuts the gate first.
CloseAcceptor(destroyed) ==
  LET unaccepted == {c \in established : session[c].phase = "none"}
  IN
  /\ listening
  /\ listening' = FALSE
  /\ accepting' = IF accepting = "waiting" THEN "none" ELSE accepting
  /\ server_gate' = IF destroyed THEN "shut" ELSE "open"
  /\ endS' = endS \cup unaccepted /\ Cut(unaccepted)
  /\ UNCHANGED <<kind, up, down, endC, established, stopped, server_connections,
                 server_expired, session>>

\* Then it closes every connection of the set; the socket of one whose accept
\* is still being handled is not open yet.
CloseConnections ==
  LET open == {c \in server_connections : session[c].phase # "accepted"}
  IN
  /\ ~listening /\ ~stopped
  /\ stopped' = TRUE
  /\ endS' = endS \cup open /\ Cut(open)
  /\ server_connections' = {}
  /\ UNCHANGED <<up, down, accepting, server_gate, server_expired, session>> /\ NetFrame

ServerHandler(c) ==
  \/ AcceptHandler(c) \/ ReadHeader(c) \/ ReadContent(c) \/ ReadChunk(c) \/ ReadFails(c)
  \/ FinalWritten(c) \/ Refused(c) \/ FinalRefused(c)
  \/ \E i \in 1..Len(session[c].writing) : QueueWritten(c, i)

=============================================================================
