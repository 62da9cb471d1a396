-------------------------------- MODULE Http --------------------------------
(***************************************************************************)
(* What a client and a server of the webserver library share: messages,    *)
(* in parts as the two sides read them, and the connections between them.  *)
(* A connection delivers in order; what breaks it is that a side closes.   *)
(***************************************************************************)
EXTENDS Naturals, Sequences, FiniteSets

CONSTANTS Requests,     \* calls of the client's asynchronous request function
          Scenarios     \* what each request asks for, and how much goes wrong

\* A request makes one connection, and one more when it reconnects.
MaxConns == 2 * Cardinality(Requests)
Conns == 1..MaxConns

VARIABLES
  kind,        \* per request: the framing of its body, and of its answer, the
               \* parts of that, its target, whether it keeps the connection
  up, down,    \* parts on their way to the server and to the client
  endC, endS,  \* connections the client and the server have closed
  established, \* connections the network has set up
  listening,   \* somebody accepts connections
  cut,         \* history: connections first closed by a timer or by a stop
  faults       \* how much may still go wrong

netVars == <<kind, up, down, endC, endS, established, listening, cut>>

\* What a request can be: "uncalled" is one that is never made.
Framing ==
  [body : {"none", "length", "chunked", "uncalled"}, parts : Nat, keep : BOOLEAN,
   answer : {"length", "chunked", "http/1.0", "events", "malformed", "bad length",
             "close"},
   target : {"resource", "throws", "missing", "bad", "upgrade"}]

ASSUME HttpAssumption ==
  /\ IsFiniteSet(Requests)
  /\ \A s \in Scenarios : s.kind \in [Requests -> Framing] /\ s.faults \in Nat

Part(r, i) == [of |-> r, part |-> i]
PartsOf(r, first, last) == [i \in 1..(last + 1 - first) |-> Part(r, first + i - 1)]

\* A response: its header, then its content.
Answer(r) == PartsOf(r, 1, kind[r].parts)

\* The parts of a request: a header and, by its framing, content.
BodyParts(r) == CASE kind[r].body = "none" -> 1
                  [] kind[r].body = "length" -> 2
                  [] kind[r].body = "chunked" -> 3

Drop(s, n) == SubSeq(s, n + 1, Len(s))

\* The connections of S that nobody has closed before.
Cut(S) == cut' = cut \cup (S \ (endC \cup endS))

NetInit ==
  /\ \E s \in Scenarios : kind = s.kind /\ faults = s.faults
  /\ up = [c \in Conns |-> <<>>] /\ down = [c \in Conns |-> <<>>]
  /\ endC = {} /\ endS = {} /\ established = {} /\ listening = TRUE
  /\ cut = {}

=============================================================================
