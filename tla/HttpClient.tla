----------------------------- MODULE HttpClient -----------------------------
(***************************************************************************)
(* SimpleWeb::Client: asynchronous requests over a pool of connections     *)
(* that are kept open between requests.  Every action is one completion    *)
(* handler or one call of the user, from the gate of handler_runner to its *)
(* last statement.  The peer is whatever changes down, endS and listening. *)
(*                                                                         *)
(* A timer covers every pending operation: set_timeout precedes each       *)
(* asynchronous call and cancel_timeout begins each completion.  What the  *)
(* cancellation cannot recall is an expiry that was already queued, and    *)
(* that is what expired holds.                                             *)
(***************************************************************************)
EXTENDS Http

CONSTANTS NoConnection  \* a session that has no connection yet

ASSUME ClientAssumption == NoConnection \notin Conns

VARIABLES
  created,             \* connections made so far
  connections,         \* the pool
  in_use, attempt_reconnect, event_stream, opened,  \* flags of connections
  expired,             \* connections with an expiry queued
  connection, step, content,                        \* per session
  callbacks,           \* per request: the error flags it was called with
  handler_runner       \* the gate

pool == <<created, connections, in_use, attempt_reconnect, event_stream, opened>>
sessions == <<connection, step, content, callbacks>>
clientVars == <<pool, sessions, expired, handler_runner>>

ClientInit ==
  /\ created = 0 /\ connections = {} /\ in_use = {} /\ attempt_reconnect = {}
  /\ event_stream = {} /\ opened = {} /\ expired = {}
  /\ connection = [r \in Requests |-> NoConnection]
  /\ step = [r \in Requests |-> "new"]
  /\ content = [r \in Requests |-> <<>>]
  /\ callbacks = [r \in Requests |-> <<>>]
  /\ handler_runner = "open"

-----------------------------------------------------------------------------
(* request, and get_connection *)

\* Slip: a connection is taken whether or not it is in use.
AvailableAny == connections

\* The connections get_connection may hand out before it makes a new one.
Available == connections \ in_use

\* The session gets connection c and connect begins.
Claim(r, c) ==
  /\ connections' = connections \cup {c}
  /\ attempt_reconnect' = attempt_reconnect \cup {c}
  /\ in_use' = in_use \cup {c}
  /\ connection' = [connection EXCEPT ![r] = c]
  /\ step' = [step EXCEPT ![r] = IF c \in opened THEN "write" ELSE "resolve"]

Request(r) ==
  /\ handler_runner = "open" /\ step[r] = "new" /\ kind[r].body # "uncalled"
  /\ \/ \E c \in Available : Claim(r, c) /\ UNCHANGED created
     \/ /\ Available = {}
        /\ created' = created + 1
        /\ Claim(r, created + 1)
  /\ UNCHANGED <<netVars, event_stream, opened, expired, content, callbacks, handler_runner>>

-----------------------------------------------------------------------------
(* session->callback(ec): the connection is given back, the pool pruned,   *)
(* and the user's function called.                                         *)

\* Slip: the pool is not pruned.
PrunedNever(left, inUse) == {left}

\* All connections in use are kept and, of the others, whichever the
\* iteration of the unordered set meets first.
Pruned(left, inUse) ==
  LET idle == left \ inUse
  IN IF idle = {} THEN {left} ELSE {(left \cap inUse) \cup {c} : c \in idle}

\* Slip: an event stream gives its connection back as well.
GivenBackAlways(c) == in_use \ {c}

\* Slip: in_use is never reset.
GivenBackNever(c) == in_use

\* An event stream keeps its connection.
GivenBack(c) == IF c \in event_stream' THEN in_use ELSE in_use \ {c}

Callback(r, ec, next) ==
  LET c == connection[r]
      left == IF ec THEN connections \ {c} ELSE connections
  IN /\ in_use' = GivenBack(c)
     /\ connections' \in Pruned(left, GivenBack(c))
     \* a connection nobody refers to is destroyed: its socket is closed, and
     \* the expiry that would have looked for it finds nothing
     /\ endC' = endC \cup ((IF next = "done" THEN {c} \cup connections ELSE connections)
                           \ connections')
     /\ expired' = expired \ (endC' \ endC)
     /\ callbacks' = [callbacks EXCEPT ![r] = Append(@, ec)]
     /\ step' = [step EXCEPT ![r] = next]

\* The handler starts the next operation instead.
GoOn(r, next) ==
  /\ step' = [step EXCEPT ![r] = next]
  /\ UNCHANGED <<connections, in_use, endC, expired, callbacks>>

Fails(r) == Callback(r, TRUE, "done")
Succeeds(r) == Callback(r, FALSE, "done")

InStep(r, s) == handler_runner = "open" /\ step[r] = s

\* No handler but that of a failed header touches these.
HandlerFrame ==
  UNCHANGED <<kind, endS, listening, cut, created, connection, handler_runner>>

\* The errors a read from c can end with: a socket that close shut down gives
\* the end of the stream when the shutdown is seen before the cancellation, and
\* a peer that closed gives it after all it sent, or resets the connection when
\* it had not read all it was sent.
Errors(c) ==
  (IF c \in endC THEN {"operation_aborted", "eof"} ELSE {})
  \cup (IF c \in endS THEN {"eof", "reset"} ELSE {})

-----------------------------------------------------------------------------
(* connect and write *)

Resolved(r) ==
  /\ InStep(r, "resolve")
  /\ UNCHANGED event_stream
  /\ GoOn(r, "connect") /\ opened' = opened \cup {connection[r]}
  /\ UNCHANGED <<up, down, established, attempt_reconnect, content>> /\ HandlerFrame

Connected(r) ==
  /\ InStep(r, "connect") /\ connection[r] \notin endC /\ listening
  /\ UNCHANGED event_stream
  /\ established' = established \cup {connection[r]}
  /\ GoOn(r, "write")
  /\ UNCHANGED <<up, down, opened, attempt_reconnect, content>> /\ HandlerFrame

\* The name is unknown, nobody listens, or the timer closed the socket.
ConnectFails(r) ==
  /\ InStep(r, "resolve") \/ InStep(r, "connect")
  /\ UNCHANGED event_stream
  /\ Fails(r)
  /\ UNCHANGED <<up, down, established, opened, attempt_reconnect, content>> /\ HandlerFrame

\* A peer that has closed may still let the write complete; its bytes are lost.
Written(r) ==
  LET c == connection[r]
  IN /\ InStep(r, "write")
     /\ UNCHANGED event_stream
     /\ \/ /\ c \notin endC
           /\ up' = IF c \in endS THEN up ELSE [up EXCEPT ![c] = @ \o PartsOf(r, 1, BodyParts(r))]
           /\ GoOn(r, "read")
        \/ c \in endC \cup endS /\ Fails(r) /\ UNCHANGED up
     /\ UNCHANGED <<down, established, opened, attempt_reconnect, content>> /\ HandlerFrame

-----------------------------------------------------------------------------
(* read *)

\* n parts are taken from the stream into the session's response.
Take(r, n) ==
  LET c == connection[r]
  IN /\ content' = [content EXCEPT ![r] = @ \o SubSeq(down[c], 1, n)]
     /\ down' = [down EXCEPT ![c] = Drop(@, n)]

\* A text that is no header is a protocol error.
NoHeader(r) == kind[r].answer = "malformed" \/ down[connection[r]][1].part # 1

\* A length that is no number throws out of the handler, and out of run of the
\* io_service: the session is gone without a callback, and its connection stays
\* in the pool, in use.  The application has to run the io_service again.
Throws(r) ==
  /\ step' = [step EXCEPT ![r] = "thrown"]
  /\ UNCHANGED <<connections, in_use, endC, expired, callbacks>>

\* The header: how the rest is read depends on the framing it names.  A
\* response that is to end with its connection is looked for under a header
\* "Session", which nobody sends: it counts as read with what came along.
HeaderRead(r) ==
  LET c == connection[r] framing == kind[r].answer
  IN /\ InStep(r, "read") /\ down[c] # <<>>
     /\ attempt_reconnect' = attempt_reconnect \cup {c}
     /\ event_stream' = IF ~NoHeader(r) /\ framing = "events" THEN event_stream \cup {c}
                        ELSE event_stream
     /\ \E n \in 1..(IF framing = "close" THEN Len(down[c]) ELSE 1) : Take(r, n)
     /\ IF NoHeader(r) THEN Fails(r)
        ELSE IF framing = "bad length" THEN Throws(r)
        ELSE IF framing = "length" /\ kind[r].parts > 1 THEN GoOn(r, "content")
        ELSE IF framing = "chunked" THEN GoOn(r, "chunk")
        ELSE IF framing = "http/1.0" THEN GoOn(r, "untilEof")
        ELSE IF framing = "events" THEN Callback(r, FALSE, "events")
        ELSE Succeeds(r)
     /\ UNCHANGED <<up, established, opened>> /\ HandlerFrame

\* Slip: the new connection may be given up and replaced in its turn.
ReconnectAgain(r) ==
  LET n == created + 1
  IN /\ created' = n
     /\ connections' = (connections \ {connection[r]}) \cup {n}
     /\ attempt_reconnect' = attempt_reconnect \cup {n}
     /\ in_use' = in_use \cup {n}
     /\ endC' = endC \cup {connection[r]} /\ expired' = expired \ {connection[r]}
     /\ connection' = [connection EXCEPT ![r] = n]
     /\ content' = [content EXCEPT ![r] = <<>>]
     /\ step' = [step EXCEPT ![r] = "resolve"]
     /\ UNCHANGED callbacks

\* The connection is replaced and the whole request sent again.
Reconnect(r) ==
  LET n == created + 1
  IN /\ created' = n
     /\ connections' = (connections \ {connection[r]}) \cup {n}
     /\ attempt_reconnect' = attempt_reconnect \ {n}
     /\ in_use' = in_use \cup {n}
     /\ endC' = endC \cup {connection[r]} /\ expired' = expired \ {connection[r]}
     /\ connection' = [connection EXCEPT ![r] = n]
     /\ content' = [content EXCEPT ![r] = <<>>]
     /\ step' = [step EXCEPT ![r] = "resolve"]
     /\ UNCHANGED callbacks

HeaderFails(r) ==
  LET c == connection[r]
  IN /\ InStep(r, "read")
     /\ UNCHANGED event_stream
     /\ \E ec \in Errors(c) :
          IF c \in attempt_reconnect /\ c \in connections /\ ec # "operation_aborted"
          THEN Reconnect(r)
          ELSE Fails(r) /\ UNCHANGED <<created, attempt_reconnect, connection, content>>
     /\ UNCHANGED <<kind, up, down, endS, established, listening, cut, opened, handler_runner>>

\* What every later read of a response leaves alone.
ReadFrame == UNCHANGED <<up, established, opened, attempt_reconnect>> /\ HandlerFrame

\* transfer_exactly the rest of Content-Length.
ContentRead(r) ==
  /\ InStep(r, "content") /\ Len(down[connection[r]]) >= kind[r].parts - 1
  /\ UNCHANGED event_stream
  /\ Take(r, kind[r].parts - 1) /\ Succeeds(r)
  /\ ReadFrame

\* One chunk; the last, of length 0, ends the response.
ChunkRead(r) ==
  /\ InStep(r, "chunk") /\ down[connection[r]] # <<>>
  /\ UNCHANGED event_stream
  /\ Take(r, 1)
  /\ IF down[connection[r]][1].part = kind[r].parts THEN Succeeds(r) ELSE GoOn(r, "chunk")
  /\ ReadFrame

BodyFails(r) ==
  /\ handler_runner = "open" /\ step[r] \in {"content", "chunk", "events"}
  /\ connection[r] \in endC \cup endS
  /\ UNCHANGED <<event_stream, down, content>>
  /\ Fails(r)
  /\ ReadFrame

\* Slip: a reset counts as the end.
UntilAnyEnd(r) ==
  LET c == connection[r]
  IN /\ InStep(r, "untilEof")
     /\ UNCHANGED event_stream
     /\ \E ec \in Errors(c) : Take(r, IF ec = "eof" THEN Len(down[c]) ELSE 0)
     /\ Succeeds(r)
     /\ ReadFrame

\* Without a length the end of the stream ends the response, and is no error,
\* whoever ended it; the connection stays in the pool.
UntilEof(r) ==
  LET c == connection[r]
  IN /\ InStep(r, "untilEof")
     /\ UNCHANGED event_stream
     /\ \E ec \in Errors(c) :
          /\ IF ec = "eof" THEN Take(r, Len(down[c])) ELSE UNCHANGED <<content, down>>
          /\ Callback(r, ec # "eof", "done")
     /\ ReadFrame

\* One server-sent event, and the next read.
EventRead(r) ==
  /\ InStep(r, "events") /\ down[connection[r]] # <<>>
  /\ UNCHANGED event_stream
  /\ Take(r, 1) /\ Callback(r, FALSE, "events")
  /\ ReadFrame

-----------------------------------------------------------------------------
(* timers and the end of the client *)

Pending == {"resolve", "connect", "write", "read", "content", "chunk", "untilEof", "events"}

\* Slip: the wait for the header has no timer.
ExpireNotRead(r) ==
  /\ step[r] \in Pending \ {"read"} /\ connection[r] \notin expired \cup endC
  /\ expired' = expired \cup {connection[r]}
  /\ UNCHANGED <<netVars, pool, sessions, handler_runner>>

Expire(r) ==
  /\ step[r] \in Pending /\ connection[r] \notin expired \cup endC
  /\ expired' = expired \cup {connection[r]}
  /\ UNCHANGED <<netVars, pool, sessions, handler_runner>>

\* The handler of an expiry closes the connection, were it only by then used
\* for another operation; a socket not yet open is left as it is.
OnExpired(c) ==
  /\ c \in expired
  /\ expired' = expired \ {c}
  /\ endC' = endC \cup ({c} \cap opened) /\ Cut({c} \cap opened)
  /\ UNCHANGED <<kind, up, down, endS, established, listening, pool, sessions, handler_runner>>

\* stop: every connection of the pool is closed and dropped; ~ClientBase shuts
\* the gate first.
Stop(destroyed) ==
  LET open == {c \in connections : c \in opened \/ \A r \in Requests : connection[r] # c}
  IN
  /\ handler_runner = "open" /\ (destroyed \/ connections # {})
  /\ handler_runner' = IF destroyed THEN "shut" ELSE "open"
  /\ connections' = {}
  /\ endC' = endC \cup open /\ Cut(open)
  /\ UNCHANGED <<kind, up, down, endS, established, listening, created, in_use,
                 attempt_reconnect, event_stream, opened, sessions, expired>>

Handler(r) ==
  \/ Resolved(r) \/ Connected(r) \/ Written(r) \/ HeaderRead(r) \/ HeaderFails(r)
  \/ ContentRead(r) \/ ChunkRead(r) \/ BodyFails(r) \/ UntilEof(r) \/ EventRead(r)

=============================================================================
