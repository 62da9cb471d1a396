-------------------------- MODULE HttpAnswersProofs --------------------------
(***************************************************************************)
(* Proofs about what travels between the client and the server, for any    *)
(* number of requests, parts and faults: that requests and their answers   *)
(* keep apart on the connections they share one after the other.           *)
(*                                                                         *)
(* They leave out answers of HTTP/1.1 that end with their connection: the  *)
(* client takes such an answer for read with its header, and leaves the    *)
(* rest for the next request, as the run http_closing shows.  A server     *)
(* that is destroyed may leave parts out, and a timer or a stop may end an *)
(* answer that goes on to the end of its connection: Broken and cut say    *)
(* which connections that can have happened to.                            *)
(***************************************************************************)
EXTENDS HttpPairProofs, SequenceTheorems

\* No answer of HTTP/1.1 ends with its connection.
NeverCloses == \A r \in Requests : kind[r].answer # "close"

Parts == [of : Requests, part : Nat]
Answering == {"app", "released", "final"}
Phases == {"none", "accepted", "gone", "upgraded"} \cup Reading \cup Answering

Session ==
  [phase : Phases, streambuf : Seq(Parts), request : SUBSET Requests,
   response : Seq(Parts), send_queue : Seq(Parts), writing : Seq(Parts)]

\* Nothing is delivered to the client any more.
Dead(c) == c \in endS \cup endC

\* The server may have closed it without what it had queued.
Broken(c) == server_gate = "shut" /\ c \in cut

PairTypes ==
  /\ kind \in [Requests -> Framing]
  /\ up \in [Conns -> Seq(Parts)] /\ down \in [Conns -> Seq(Parts)]
  /\ session \in [Conns -> Session]
  /\ content \in [Requests -> Seq(Parts)] /\ callbacks \in [Requests -> Seq(BOOLEAN)]
  /\ server_gate \in {"open", "shut"} /\ (server_gate = "shut" => ~listening)

\* A session has an answer only after its request, one write in flight at a
\* time, which is the first of the queue, and a last write of its own.
Orderly(c) ==
  LET s == session[c]
  IN /\ s.phase \notin Answering => s.response = <<>> /\ s.send_queue = <<>> /\ s.writing = <<>>
     /\ s.phase # "chunk" => s.streambuf = <<>>
     /\ s.send_queue # <<>> => s.response # <<>>
     /\ s.writing # <<>> => s.send_queue # <<>> /\ s.writing = <<s.send_queue[1]>>
     /\ s.phase = "final" => s.writing = <<>>
     /\ server_gate = "open" /\ s.send_queue # <<>> => s.writing # <<>>

\* What is sent on a connection that still answers was sent by the request
\* that now reads there.
Sender(r, c) == Dead(c) \/ (step[r] = "read" /\ connection[r] = c)

\* The server finds one whole request on its way, or the rest of the one it
\* is reading.
OneRequest(c) ==
  server_gate = "open" /\ c \notin endS =>
    /\ session[c].phase \notin {"content", "chunk", "upgraded"} /\ up[c] # <<>> =>
         \E r \in Requests : /\ Sender(r, c) /\ kind[r].body # "uncalled"
                             /\ up[c] = PartsOf(r, 1, BodyParts(r))
    /\ session[c].phase = "content" =>
         \E r \in Requests : /\ Sender(r, c) /\ kind[r].body = "length"
                             /\ session[c].request = {r} /\ up[c] = <<Part(r, 2)>>
    /\ session[c].phase = "chunk" =>
         \E r \in Requests :
           /\ Sender(r, c) /\ kind[r].body = "chunked" /\ session[c].request = {r}
           /\ <<session[c].streambuf, up[c]>> \in
                {<< <<>>, <<Part(r, 2), Part(r, 3)>> >>, << <<Part(r, 2)>>, <<Part(r, 3)>> >>,
                 << <<Part(r, 2), Part(r, 3)>>, <<>> >>, << <<Part(r, 3)>>, <<>> >>}

\* The server has a request to read.
Busy(c) == up[c] # <<>> \/ session[c].phase \in {"content", "chunk"}

\* s is what comes after the first k parts of the answer.
Follows(s, r, k) ==
  /\ \A i \in 1..Len(s) : s[i] = Part(r, k + i)
  /\ k + Len(s) <= kind[r].parts

\* s are parts of the answer in their order, and those left out may be anywhere.
Rising(s, r) ==
  \A i \in 1..Len(s) :
    /\ s[i] = Part(r, s[i].part) /\ i <= s[i].part /\ s[i].part + Len(s) <= kind[r].parts + i
    /\ \A j \in 1..(i - 1) : s[j].part < s[i].part

Silent(c) ==
  /\ down[c] = <<>>
  /\ ~Dead(c) => session[c].send_queue = <<>> /\ session[c].response = <<>>

\* Nothing is left on a connection for the request that comes next.
Idle(c) == Silent(c) /\ (~Dead(c) => ~Busy(c))

Vacant(c) == c \in connections \ in_use \/ c > created

\* The parts that came for r or are on their way, and of them those that are not
\* still in the queue: a write whose handler was refused leaves its part there.
Came(c, r) == Len(content[r]) + Len(down[c])
Dequeued(c, r) ==
  LET s == session[c]
  IN Came(c, r) - (IF s.send_queue # <<>> /\ s.writing = <<>> THEN 1 ELSE 0)

\* What is still to come on c is the rest of the answer of r, and nothing is
\* missing from it unless the connection was cut.
Coming(c, r) ==
  LET s == session[c] sent == Dequeued(c, r)
  IN /\ Rising(content[r] \o down[c], r)
     /\ ~Broken(c) => Follows(down[c], r, Len(content[r]))
     /\ ~Dead(c) => /\ sent \in Nat /\ Follows(s.send_queue, r, sent)
                    /\ Follows(s.response, r, sent + Len(s.send_queue))
                    /\ sent + Len(s.send_queue) + Len(s.response) \in {0, kind[r].parts}
     /\ c \in endS \ cut => Came(c, r) \in {0, kind[r].parts}

Talk(r) ==
  LET c == connection[r]
  IN /\ step[r] \in {"resolve", "connect", "write"} => content[r] = <<>> /\ Idle(c)
     /\ step[r] = "read" => /\ content[r] = <<>> /\ Coming(c, r)
                            /\ ~Dead(c) /\ Busy(c) => Silent(c)
     /\ step[r] \in {"content", "chunk", "untilEof", "events"} =>
          /\ Coming(c, r) /\ content[r] # <<>> /\ (~Dead(c) => ~Busy(c))
          /\ kind[r].answer = CASE step[r] = "content" -> "length" [] step[r] = "chunk" -> "chunked"
                              [] step[r] = "untilEof" -> "http/1.0" [] OTHER -> "events"
          /\ step[r] = "content" => Len(content[r]) = 1

\* What came for r is of its own answer, and whole when it should be.
Own(r) ==
  /\ Rising(content[r], r)
  /\ ~Broken(connection[r]) => Follows(content[r], r, 0)

Ended(r) ==
  /\ Completed(r)
  /\ kind[r].answer = "chunked" => ~Broken(connection[r])
  /\ kind[r].answer = "http/1.0" => connection[r] \notin cut
  => content[r] = Answer(r)

\* A connection the client closed while nobody had cut or left it is one that
\* it has given up.
Discarded(c) ==
  /\ c \in 1..created /\ c \notin connections
  /\ \A r \in Requests : UnderWay(r) => connection[r] # c

EndsInv ==
  /\ cut \subseteq endS \cup endC
  /\ \A c \in endC \ (endS \cup cut) : Discarded(c)

AnswersInv ==
  /\ PairTypes /\ NeverCloses
  /\ \A c \in Conns : Orderly(c) /\ OneRequest(c) /\ (Vacant(c) => Idle(c))
  /\ \A r \in Requests : /\ (step[r] # "new" => kind[r].body # "uncalled")
                         /\ (step[r] = "new" => content[r] = <<>>)
                         /\ Talk(r) /\ Own(r) /\ Ended(r)

-----------------------------------------------------------------------------
(* parts of an answer, in order *)

\* Parts that follow one another do so from any of them on, and as far as any.
LEMMA FollowsCut ==
  ASSUME NEW r \in Requests, NEW s \in Seq(Parts), NEW k \in Nat, NEW n \in 0..Len(s),
         kind[r].parts \in Nat, Follows(s, r, k)
  PROVE  /\ SubSeq(s, 1, n) \in Seq(Parts) /\ Len(SubSeq(s, 1, n)) = n
         /\ Drop(s, n) \in Seq(Parts) /\ Len(Drop(s, n)) = Len(s) - n
         /\ Follows(SubSeq(s, 1, n), r, k) /\ Follows(Drop(s, n), r, k + n)
<1>1. /\ SubSeq(s, 1, n) \in Seq(Parts) /\ Len(SubSeq(s, 1, n)) = n
      /\ \A i \in 1..n : SubSeq(s, 1, n)[i] = s[i]
  BY SubSeqProperties
<1>2. /\ Drop(s, n) \in Seq(Parts) /\ Len(Drop(s, n)) = Len(s) - n
      /\ \A i \in 1..(Len(s) - n) : Drop(s, n)[i] = s[n + i]
  BY SubSeqProperties DEF Drop
<1>3. kind[r].parts \in Nat /\ Len(s) \in Nat
  OBVIOUS
<1>4. Follows(SubSeq(s, 1, n), r, k)
  BY <1>1, <1>3 DEF Follows
<1>5. Follows(Drop(s, n), r, k + n)
  BY <1>2, <1>3 DEF Follows
<1>6. QED BY <1>1, <1>2, <1>4, <1>5

\* Nothing follows anything.
LEMMA FollowsNone ==
  ASSUME NEW r, NEW k \in Nat, k <= kind[r].parts
  PROVE  Follows(<<>>, r, k)
<1>1. Len(<<>>) = 0 /\ k + 0 = k
  OBVIOUS
<1>2. QED BY <1>1 DEF Follows

\* They still do when what follows them is put behind.
LEMMA FollowsJoin ==
  ASSUME NEW r \in Requests, NEW s \in Seq(Parts), NEW t \in Seq(Parts), NEW k \in Nat,
         Follows(s, r, k), Follows(t, r, k + Len(s))
  PROVE  s \o t \in Seq(Parts) /\ Len(s \o t) = Len(s) + Len(t) /\ Follows(s \o t, r, k)
BY DEF Follows

\* The first of the parts behind may come to those before.
LEMMA FollowsMove ==
  ASSUME NEW r \in Requests, NEW s \in Seq(Parts), NEW t \in Seq(Parts), NEW k \in Nat,
         kind[r].parts \in Nat, t # <<>>, Follows(s, r, k), Follows(t, r, k + Len(s))
  PROVE  /\ Follows(Append(s, t[1]), r, k)
         /\ Follows(Tail(t), r, k + Len(Append(s, t[1])))
<1>1. Len(s) \in Nat /\ Len(t) \in Nat /\ Len(t) >= 1 /\ t[1] \in Parts
  OBVIOUS
<1>2. t[1] = Part(r, k + Len(s) + 1) /\ k + Len(s) + Len(t) <= kind[r].parts
  BY <1>1 DEF Follows
<1>3. /\ Len(Append(s, t[1])) = Len(s) + 1
      /\ \A i \in 1..Len(s) : Append(s, t[1])[i] = s[i]
      /\ Append(s, t[1])[Len(s) + 1] = t[1]
  BY <1>1, AppendProperties
<1>4. /\ Len(Tail(t)) = Len(t) - 1
      /\ \A i \in 1..(Len(t) - 1) : Tail(t)[i] = t[i + 1]
  BY HeadTailProperties
<1>5. Follows(Append(s, t[1]), r, k)
  <2>1. \A i \in 1..(Len(s) + 1) : Append(s, t[1])[i] = Part(r, k + i)
    <3>1. ASSUME NEW i \in 1..Len(s)
          PROVE  Append(s, t[1])[i] = Part(r, k + i)
      BY <1>3 DEF Follows
    <3>2. Append(s, t[1])[Len(s) + 1] = Part(r, k + (Len(s) + 1))
      BY <1>1, <1>2, <1>3
    <3>3. QED BY <1>1, <3>1, <3>2
  <2>2. QED BY <2>1, <1>1, <1>2, <1>3 DEF Follows
<1>6. Follows(Tail(t), r, k + Len(Append(s, t[1])))
  <2>1. \A i \in 1..(Len(t) - 1) : t[i + 1] = Part(r, (k + Len(s)) + (i + 1))
    BY <1>1 DEF Follows
  <2>2. \A i \in Nat : (k + Len(s)) + (i + 1) = (k + (Len(s) + 1)) + i
    BY <1>1
  <2>3. \A i \in 1..(Len(t) - 1) : Tail(t)[i] = Part(r, (k + (Len(s) + 1)) + i)
    BY <1>1, <1>4, <2>1, <2>2
  <2>4. (k + (Len(s) + 1)) + (Len(t) - 1) <= kind[r].parts
    BY <1>1, <1>2
  <2>5. QED BY <2>3, <2>4, <1>3, <1>4 DEF Follows
<1>7. QED BY <1>1, <1>3, <1>4, <1>5, <1>6

\* An answer is the parts that follow none.
LEMMA FollowsAll ==
  ASSUME NEW r \in Requests, kind[r].parts \in Nat
  PROVE  /\ Answer(r) \in Seq(Parts) /\ Follows(Answer(r), r, 0)
         /\ Len(Answer(r)) = kind[r].parts
         /\ \A s \in Seq(Parts) : Follows(s, r, 0) =>
              /\ s = PartsOf(r, 1, Len(s))
              /\ Len(s) = kind[r].parts => s = Answer(r)
<1>1. ASSUME NEW n \in Nat
      PROVE  /\ PartsOf(r, 1, n) \in Seq(Parts) /\ Len(PartsOf(r, 1, n)) = n
             /\ \A i \in 1..n : PartsOf(r, 1, n)[i] = Part(r, i)
  <2>1. PartsOf(r, 1, n) = [i \in 1..n |-> Part(r, i)]
    BY DEF PartsOf
  <2>2. \A i \in 1..n : Part(r, i) \in Parts
    BY DEF Part, Parts
  <2>3. PartsOf(r, 1, n) \in [1..n -> Parts]
    BY <2>1, <2>2
  <2>4. QED BY <2>1, <2>3
<1>2. /\ Answer(r) \in Seq(Parts) /\ Follows(Answer(r), r, 0)
      /\ Len(Answer(r)) = kind[r].parts
  BY <1>1 DEF Answer, Follows
<1>3. ASSUME NEW s \in Seq(Parts), Follows(s, r, 0)
      PROVE  s = PartsOf(r, 1, Len(s))
  BY <1>1, <1>3, SeqEqual DEF Follows
<1>4. QED BY <1>2, <1>3 DEF Answer

\* Parts that follow none rise, also with others behind that follow more.
LEMMA FollowsRise ==
  ASSUME NEW r \in Requests, NEW s \in Seq(Parts), NEW t \in Seq(Parts), NEW k \in Nat,
         kind[r].parts \in Nat, Follows(s, r, 0), Follows(t, r, k), Len(s) <= k
  PROVE  s \o t \in Seq(Parts) /\ Rising(s \o t, r) /\ Rising(s, r)
<1> DEFINE m == Len(s)
           n == Len(t)
           all == s \o t
<1>1. /\ m \in Nat /\ n \in Nat /\ all \in Seq(Parts) /\ Len(all) = m + n
      /\ \A i \in 1..m : all[i] = s[i]
      /\ \A i \in (m + 1)..(m + n) : all[i] = t[i - m]
  BY ConcatProperties
<1>2. /\ \A i \in 1..m : s[i] = Part(r, i)
      /\ \A i \in (m + 1)..(m + n) : t[i - m] = Part(r, k + (i - m))
      /\ k + n <= kind[r].parts
  <2>1. \A i \in 1..m : s[i] = Part(r, i)
    BY DEF Follows
  <2>2. \A i \in 1..n : t[i] = Part(r, k + i)
    BY DEF Follows
  <2>3. \A i \in (m + 1)..(m + n) : i - m \in 1..n
    BY <1>1
  <2>4. k + n <= kind[r].parts
    BY DEF Follows
  <2> HIDE DEF m, n, all
  <2>5. QED BY <2>1, <2>2, <2>3, <2>4
<1>3. \A x : Part(r, x).part = x
  BY DEF Part
<1>0. m <= k
  OBVIOUS
<1> HIDE DEF m, n, all
<1>4. Rising(all, r)
  <2> DEFINE f == [i \in 1..(m + n) |-> IF i <= m THEN i ELSE k + (i - m)]
  <2>1. ASSUME NEW i \in 1..(m + n)
        PROVE  all[i] = Part(r, f[i]) /\ all[i].part = f[i]
    <3>1. CASE i <= m
      BY <1>1, <1>2, <1>3, <3>1
    <3>2. CASE ~(i <= m)
      <4>1. i \in (m + 1)..(m + n)
        BY <1>1, <3>2
      <4>2. QED BY <1>1, <1>2, <1>3, <3>2, <4>1
    <3>3. QED BY <3>1, <3>2
  <2>2. ASSUME NEW i \in 1..(m + n)
        PROVE  /\ i <= f[i] /\ f[i] + (m + n) <= kind[r].parts + i
               /\ \A j \in 1..(i - 1) : f[j] < f[i]
    <3>1. f[i] = IF i <= m THEN i ELSE k + (i - m)
      OBVIOUS
    <3>2. \A j \in 1..(i - 1) : f[j] = IF j <= m THEN j ELSE k + (j - m)
      BY <1>1
    <3> HIDE DEF f
    <3>3. k + n <= kind[r].parts /\ m <= k /\ m \in Nat /\ n \in Nat /\ kind[r].parts \in Nat
      BY <1>0, <1>1, <1>2
    <3>4. i <= f[i] /\ f[i] + (m + n) <= kind[r].parts + i
      BY <3>1, <3>3
    <3>5. ASSUME NEW j \in 1..(i - 1)
          PROVE  f[j] < f[i]
      BY <3>1, <3>2, <3>3
    <3>6. QED BY <3>4, <3>5
  <2> HIDE DEF f
  <2>3. \A i \in 1..(m + n) : \A j \in 1..(i - 1) : j \in 1..(m + n)
    BY <1>1
  <2>4. QED BY <1>1, <2>1, <2>2, <2>3 DEF Rising
<1>5. Rising(s, r)
  <2>1. \A i \in 1..m : s[i] = Part(r, i) /\ s[i].part = i
    BY <1>2, <1>3
  <2>2. m <= kind[r].parts
    BY DEF Follows, m
  <2>3. \A i \in 1..m : \A j \in 1..(i - 1) : j \in 1..m /\ j < i
    BY <1>1
  <2>4. \A i \in 1..m : i + m <= kind[r].parts + i
    BY <1>1, <2>2
  <2>5. QED BY <1>1, <2>1, <2>3, <2>4 DEF Rising, m
<1>6. QED BY <1>1, <1>4, <1>5 DEF all

\* The first of parts that rise do, and a part that is the last has none behind.
LEMMA RisingFacts ==
  ASSUME NEW r \in Requests, NEW s \in Seq(Parts), Rising(s, r), kind[r].parts \in Nat
  PROVE  /\ s # <<>> => Len(s) <= kind[r].parts
         /\ \A i \in 1..Len(s) : s[i].part = kind[r].parts => i = Len(s)
         /\ Len(s) = kind[r].parts => s = Answer(r)
         /\ \A a, b \in Seq(Parts) : s = a \o b => Rising(a, r)
<1>1. /\ Len(s) \in Nat
      /\ \A i \in 1..Len(s) : /\ s[i] = Part(r, s[i].part) /\ s[i].part \in Nat /\ i <= s[i].part
                              /\ s[i].part + Len(s) <= kind[r].parts + i
  <2>1. Len(s) \in Nat /\ \A i \in 1..Len(s) : s[i] \in Parts
    OBVIOUS
  <2>2. QED BY <2>1 DEF Rising, Parts
<1>2. s # <<>> => Len(s) <= kind[r].parts
  <2>1. SUFFICES ASSUME s # <<>> PROVE Len(s) <= kind[r].parts
    OBVIOUS
  <2>2. 1 \in 1..Len(s)
    BY <2>1
  <2>3. QED BY <1>1, <2>2
<1>3. \A i \in 1..Len(s) : s[i].part = kind[r].parts => i = Len(s)
  BY <1>1
<1>4. ASSUME Len(s) = kind[r].parts
      PROVE  s = Answer(r)
  <2>1. \A i \in 1..Len(s) : s[i].part = i
    BY <1>1, <1>4
  <2>2. \A i \in 1..Len(s) : s[i] = Part(r, 0 + i)
    BY <1>1, <2>1
  <2>3. Follows(s, r, 0)
    BY <1>1, <1>4, <2>2 DEF Follows
  <2>4. QED BY <1>4, <2>3, FollowsAll
<1>5. ASSUME NEW a \in Seq(Parts), NEW b \in Seq(Parts), s = a \o b
      PROVE  Rising(a, r)
  <2>1. /\ Len(a) \in Nat /\ Len(b) \in Nat /\ Len(s) = Len(a) + Len(b)
        /\ \A i \in 1..Len(a) : a[i] = s[i]
    BY <1>5, ConcatProperties
  <2>2. \A i \in 1..Len(a) : i \in 1..Len(s) /\ \A j \in 1..(i - 1) : j \in 1..Len(a)
    BY <2>1
  <2>3. \A i \in 1..Len(a) : \A j \in 1..(i - 1) : a[j].part < a[i].part
    BY <2>1, <2>2 DEF Rising
  <2>4. \A i \in 1..Len(a) : a[i].part + Len(a) <= kind[r].parts + i
    BY <1>1, <2>1, <2>2
  <2>5. QED BY <1>1, <2>1, <2>2, <2>3, <2>4 DEF Rising
<1>6. QED BY <1>2, <1>3, <1>4, <1>5

\* It makes no difference how much of what came was taken.
LEMMA CutAndJoin ==
  ASSUME NEW s \in Seq(Parts), NEW t \in Seq(Parts), NEW n \in 0..Len(t)
  PROVE  (s \o SubSeq(t, 1, n)) \o Drop(t, n) = s \o t
<1> DEFINE a == SubSeq(t, 1, n)
           b == Drop(t, n)
<1>1. /\ a \in Seq(Parts) /\ Len(a) = n /\ \A i \in 1..n : a[i] = t[i]
      /\ b \in Seq(Parts) /\ Len(b) = Len(t) - n /\ \A i \in 1..(Len(t) - n) : b[i] = t[n + i]
  BY SubSeqProperties DEF Drop
<1> HIDE DEF a, b
<1>2. a \o b = t
  <2>0. n \in Nat /\ Len(t) \in Nat /\ n <= Len(t)
    OBVIOUS
  <2>1. /\ a \o b \in Seq(Parts) /\ Len(a \o b) = Len(a) + Len(b)
        /\ \A i \in 1..(Len(a) + Len(b)) :
             (a \o b)[i] = IF i <= Len(a) THEN a[i] ELSE b[i - Len(a)]
    BY <1>1, ConcatProperties
  <2>2. ASSUME NEW i \in 1..Len(t)
        PROVE  (a \o b)[i] = t[i]
    <3>1. i <= n => a[i] = t[i]
      BY <1>1
    <3>2. ~(i <= n) => b[i - n] = t[n + (i - n)] /\ n + (i - n) = i
      BY <1>1, <2>0
    <3>3. (a \o b)[i] = IF i <= n THEN a[i] ELSE b[i - n]
      BY <1>1, <2>0, <2>1
    <3>4. QED BY <3>1, <3>2, <3>3
  <2>3. Len(a \o b) = Len(t)
    BY <1>1, <2>0, <2>1
  <2>4. QED BY <2>1, <2>2, <2>3, SeqEqual
<1>3. (s \o a) \o b = s \o (a \o b)
  BY <1>1, ConcatAssociative
<1>4. QED BY <1>2, <1>3 DEF a, b

-----------------------------------------------------------------------------
(* who closed what *)

\* Timers and stop, and every step of the server, cut what they close.
LEMMA CutKeeps ==
  ASSUME ClientInv, EndsInv, endS \subseteq endS', cut \subseteq cut', cut' \subseteq endS' \cup endC',
         endC' \ endC \subseteq endS' \cup cut',
         UNCHANGED <<created, connection, step>>, connections' \subseteq connections
  PROVE  EndsInv'
<1>1. ASSUME NEW c \in endC' \ (endS' \cup cut')
      PROVE  Discarded(c)'
  <2>1. c \in endC \ (endS \cup cut)
    OBVIOUS
  <2>2. UNCHANGED <<created, connection>> /\ \A r \in Requests : UnderWay(r)' => UnderWay(r)
    BY DEF UnderWay
  <2>3. Discarded(c)
    BY <2>1 DEF EndsInv
  <2>4. QED BY <2>2, <2>3 DEF Discarded
<1>2. QED BY <1>1 DEF EndsInv

\* A callback closes a connection of its own, or one nobody uses.
LEMMA CallbackDiscards ==
  ASSUME ClientInv, EndsInv, NEW r \in Requests, UnderWay(r), NEW ec \in BOOLEAN,
         NEW next \in {"done", "events"}, Callback(r, ec, next),
         next = "events" => ~ec /\ connection[r] \in event_stream',
         UNCHANGED <<created, connection, endS, cut>>
  PROVE  EndsInv'
<1> DEFINE c == connection[r]
           left == IF ec THEN connections \ {c} ELSE connections
<1>1. /\ in_use' = IF c \in event_stream' THEN in_use ELSE in_use \ {c}
      /\ connections' \in Pruned(left, in_use') /\ step' = [step EXCEPT ![r] = next]
      /\ endC' = endC \cup ((IF next = "done" THEN {c} \cup connections ELSE connections)
                            \ connections')
  BY DEF Callback, GivenBack
<1>2. connections' \subseteq left /\ left \cap in_use' \subseteq connections'
  BY <1>1 DEF Pruned
<1>3. /\ created \in Nat /\ connections \subseteq 1..created /\ c \in 1..created
      /\ step \in [Requests -> Steps]
      /\ \A q \in Requests : UnderWay(q) => connection[q] \in in_use
      /\ \A q \in Requests : q # r /\ UnderWay(q) => connection[q] # c
  BY DEF ClientInv, PoolInv, PoolTypes, Uses, OneRequestPerConnection
<1>4. /\ step'[r] = next /\ \A q \in Requests : q # r => step'[q] = step[q]
      /\ "done" \notin Pending
  BY <1>1, <1>3 DEF Pending
<1>5. \A q \in Requests : UnderWay(q)' => UnderWay(q) /\ (q = r => next = "events")
  BY <1>4 DEF UnderWay
<1>6. ASSUME NEW d \in endC' \ (endS' \cup cut')
      PROVE  Discarded(d)'
  <2>1. CASE d \in endC
    <3>1. Discarded(d)
      BY <1>6, <2>1 DEF EndsInv
    <3>2. QED BY <3>1, <1>2, <1>5 DEF Discarded
  <2>2. CASE d \notin endC
    <3>1. d \notin connections' /\ d \in connections \cup {c} /\ (d \in connections \/ next = "done")
      BY <1>1, <1>6, <2>2
    <3>2. ASSUME NEW q \in Requests, UnderWay(q)', connection[q] = d
          PROVE  FALSE
      <4>1. UnderWay(q) /\ d \in in_use
        BY <1>3, <1>5, <3>2
      <4>2. CASE q = r
        <5>1. next = "events" /\ d = c
          BY <1>5, <3>2, <4>2
        <5>2. d \in connections /\ left = connections /\ in_use' = in_use
          BY <1>1, <3>1, <5>1
        <5>3. QED BY <1>2, <3>1, <4>1, <5>2
      <4>3. CASE q # r
        <5>1. d # c
          BY <1>3, <3>2, <4>1, <4>3
        <5>2. d \in left /\ d \in in_use'
          BY <1>1, <3>1, <4>1, <5>1
        <5>3. QED BY <1>2, <3>1, <5>2
      <4>4. QED BY <4>2, <4>3
    <3>3. QED BY <1>3, <3>1, <3>2 DEF Discarded
  <2>3. QED BY <2>1, <2>2
<1>7. endC \subseteq endC'
  BY <1>1
<1>8. QED BY <1>6, <1>7 DEF EndsInv

\* A handler that goes on, or throws, closes nothing.
LEMMA NothingDiscarded ==
  ASSUME ClientInv, EndsInv, NEW r \in Requests, UnderWay(r), NEW next, GoOn(r, next),
         UNCHANGED <<created, connection, endS, cut>>
  PROVE  EndsInv'
<1>1. /\ step' = [step EXCEPT ![r] = next] /\ UNCHANGED <<connections, endC>>
      /\ step \in [Requests -> Steps]
  BY DEF GoOn, ClientInv, PoolInv, PoolTypes
<1>2. \A q \in Requests : UnderWay(q)' => UnderWay(q)
  BY <1>1 DEF UnderWay
<1>3. QED BY <1>1, <1>2 DEF EndsInv, Discarded

\* The connection that is replaced is given up, and the other is new.
LEMMA ReconnectDiscards ==
  ASSUME ClientInv, EndsInv, NEW r \in Requests, UnderWay(r), Reconnect(r),
         UNCHANGED <<endS, cut>>
  PROVE  EndsInv'
<1>1. /\ created \in Nat /\ connections \subseteq 1..created /\ connection[r] \in 1..created
      /\ step \in [Requests -> Steps] /\ DOMAIN connection = Requests
      /\ \A q \in Requests : q # r /\ UnderWay(q) => connection[q] # connection[r]
  BY DEF ClientInv, PoolInv, PoolTypes, OneRequestPerConnection
<1>2. /\ created' = created + 1 /\ connections' = (connections \ {connection[r]}) \cup {created + 1}
      /\ endC' = endC \cup {connection[r]} /\ step' = [step EXCEPT ![r] = "resolve"]
      /\ connection' = [connection EXCEPT ![r] = created + 1]
  BY DEF Reconnect
<1>3. /\ connection'[r] = created + 1
      /\ \A q \in Requests : q # r => connection'[q] = connection[q] /\ (UnderWay(q)' => UnderWay(q))
  BY <1>1, <1>2 DEF UnderWay
<1>4. ASSUME NEW d \in endC' \ (endS' \cup cut')
      PROVE  Discarded(d)'
  <2>1. d \in 1..created /\ d \notin connections' /\ (d # connection[r] => Discarded(d))
    BY <1>1, <1>2, <1>4 DEF EndsInv, Discarded
  <2>2. d \in 1..created' /\ d # created + 1
    BY <1>1, <1>2, <2>1
  <2>3. ASSUME NEW q \in Requests, UnderWay(q)'
        PROVE  connection'[q] # d
    BY <1>1, <1>3, <2>1, <2>2, <2>3 DEF Discarded
  <2>4. QED BY <2>1, <2>2, <2>3 DEF Discarded
<1>5. QED BY <1>2, <1>4 DEF EndsInv

\* A request takes a connection of the pool, or a new one.
LEMMA RequestDiscards ==
  ASSUME ClientInv, EndsInv, NEW r \in Requests, Request(r)
  PROVE  EndsInv'
<1>1. /\ created \in Nat /\ connections \subseteq 1..created
      /\ step \in [Requests -> Steps] /\ DOMAIN connection = Requests
  BY DEF ClientInv, PoolInv, PoolTypes
<1>2. PICK c : /\ Claim(r, c)
               /\ \/ c \in connections /\ created' = created
                  \/ c = created + 1 /\ created' = created + 1
  BY DEF Request, Available
<1>3. UNCHANGED <<endC, endS, cut>>
  BY DEF Request, netVars
<1>4. /\ connections' = connections \cup {c} /\ connection'[r] = c
      /\ \A q \in Requests : q # r => connection'[q] = connection[q] /\ (UnderWay(q)' => UnderWay(q))
  BY <1>1, <1>2 DEF Claim, UnderWay
<1>5. ASSUME NEW d \in endC \ (endS \cup cut)
      PROVE  Discarded(d)'
  <2>1. Discarded(d)
    BY <1>5 DEF EndsInv
  <2>2. d \in 1..created /\ d # c /\ d \in 1..created'
    BY <1>1, <1>2, <2>1 DEF Discarded
  <2>3. QED BY <1>4, <2>1, <2>2 DEF Discarded
<1>6. QED BY <1>3, <1>5 DEF EndsInv

\* The handlers of the client.
LEMMA HandlerDiscards ==
  ASSUME ClientInv, EndsInv, NEW r \in Requests, Handler(r) \/ ConnectFails(r)
  PROVE  EndsInv'
<1>1. UnderWay(r) /\ UNCHANGED <<endS, cut>>
  BY DEF Handler, ConnectFails, Resolved, Connected, Written, HeaderRead, HeaderFails, ContentRead,
         ChunkRead, BodyFails, UntilEof, EventRead, InStep, UnderWay, Pending, ReadFrame,
         HandlerFrame
<1>2. CASE HeaderFails(r)
  <2>1. CASE Reconnect(r)
    BY <1>1, <2>1, ReconnectDiscards
  <2>2. CASE Fails(r) /\ UNCHANGED <<created, connection>>
    BY <1>1, <2>2, CallbackDiscards DEF Fails
  <2>3. QED BY <1>2, <2>1, <2>2 DEF HeaderFails
<1>3. CASE HeaderRead(r)
  <2>1. UNCHANGED <<created, connection>>
    BY <1>3 DEF HeaderRead, HandlerFrame
  <2>2. CASE Throws(r)
    BY <1>1, <2>1, <2>2, NothingDiscarded DEF Throws, GoOn
  <2>3. CASE \E next : GoOn(r, next)
    BY <1>1, <2>1, <2>3, NothingDiscarded
  <2>4. CASE Fails(r) \/ Succeeds(r)
    BY <1>1, <2>1, <2>4, CallbackDiscards DEF Fails, Succeeds
  <2>5. CASE Callback(r, FALSE, "events") /\ event_stream' = event_stream \cup {connection[r]}
    BY <1>1, <2>1, <2>5, CallbackDiscards
  <2>6. QED BY <1>3, <2>2, <2>3, <2>4, <2>5 DEF HeaderRead
<1>4. CASE EventRead(r)
  <2>1. UNCHANGED <<created, connection, event_stream>> /\ Callback(r, FALSE, "events")
        /\ step[r] = "events"
    BY <1>4 DEF EventRead, ReadFrame, HandlerFrame, InStep
  <2>2. connection[r] \in event_stream
    BY <1>1, <2>1 DEF ClientInv, PoolInv, Uses
  <2>3. QED BY <1>1, <2>1, <2>2, CallbackDiscards
<1>5. CASE Resolved(r) \/ Connected(r) \/ Written(r) \/ ChunkRead(r) \/ ContentRead(r)
             \/ BodyFails(r) \/ UntilEof(r) \/ ConnectFails(r)
  <2>1. UNCHANGED <<created, connection>>
    BY <1>5 DEF Resolved, Connected, Written, ChunkRead, ContentRead, BodyFails, UntilEof,
                ConnectFails, ReadFrame, HandlerFrame
  <2>2. (\E next : GoOn(r, next)) \/ (\E ec \in BOOLEAN : Callback(r, ec, "done"))
    BY <1>5 DEF Resolved, Connected, Written, ChunkRead, ContentRead, BodyFails, UntilEof,
                ConnectFails, Fails, Succeeds
  <2>3. QED BY <1>1, <2>1, <2>2, NothingDiscarded, CallbackDiscards
<1>6. QED BY <1>2, <1>3, <1>4, <1>5 DEF Handler

-----------------------------------------------------------------------------
(* steps of the server *)

\* A request under way is the only one on its connection, which exists and is
\* not vacant.
LEMMA OnItsOwn ==
  ASSUME ClientInv, NEW r \in Requests, UnderWay(r)
  PROVE  /\ connection[r] \in Conns /\ ~Vacant(connection[r])
         /\ \A q \in Requests : q # r /\ UnderWay(q) => connection[q] # connection[r]
<1>1. created \in 0..MaxConns /\ created \in Nat /\ MaxConns \in Nat
  <2>1. Cardinality(Requests) \in Nat
    BY RequestSetsFinite
  <2>2. QED BY <2>1, CreatedBounded DEF MaxConns
<1>2. connection[r] \in in_use /\ connection[r] \in 1..created
  BY DEF ClientInv, PoolInv, PoolTypes, Uses
<1>3. QED BY <1>1, <1>2 DEF ClientInv, PoolInv, OneRequestPerConnection, Vacant, Conns

\* What a request may count on stays while nothing happens on its connection,
\* but that it is closed, and cut if it was not closed before.
LEMMA TalkKept ==
  ASSUME NEW r \in Requests, Talk(r), UNCHANGED <<step[r], connection[r], content[r], kind>>,
         NEW d, connection[r] = d, UNCHANGED <<session[d], up[d], down[d]>>, Dead(d) => Dead(d)',
         Broken(d) => Broken(d)', d \in endS' \ cut' => d \in endS \ cut
  PROVE  Talk(r)'
<1>1. Idle(d) => Idle(d)'
  BY DEF Idle, Silent, Busy
<1>2. Coming(d, r) => Coming(d, r)'
  BY DEF Coming, Follows, Rising, Came, Dequeued
<1>3. ~Dead(d)' /\ Busy(d)' => ~Dead(d) /\ Busy(d)
  BY DEF Busy
<1>4. Silent(d) => Silent(d)'
  BY DEF Silent
<1>5. QED BY <1>1, <1>2, <1>3, <1>4 DEF Talk

\* A connection of a request under way that the client closed was closed by the
\* server or cut, and one that nobody closed is not broken.
LEMMA EndsFacts ==
  ASSUME EndsInv, NEW r \in Requests, UnderWay(r), NEW c, connection[r] = c
  PROVE  /\ c \in endC => c \in endS \cup cut
         /\ c \in cut => Dead(c)
         /\ Broken(c) => Dead(c)
BY DEF EndsInv, Discarded, Dead, Broken

\* The server passes on what it has of an answer, or drops it.
Carries(c) ==
  /\ \A r \in Requests : UnderWay(r) /\ connection[r] = c /\ Coming(c, r) => Coming(c, r)'
  /\ Silent(c) => Silent(c)'
  /\ ~Dead(c)' /\ Busy(c)' => Busy(c)

\* The server has read the request of r and begins its answer.
Replies(c) ==
  /\ ~Dead(c) /\ Busy(c) /\ ~Busy(c)'
  /\ \E r \in Requests : /\ step[r] = "read" /\ connection[r] = c
                         /\ Silent(c) => Coming(c, r)'

\* A step of the server keeps the conversations if it does so on the
\* connections it touches.
LEMMA ServerMove ==
  ASSUME ClientInv, EndsInv, AnswersInv, PairTypes',
         \A d \in Conns : \/ /\ UNCHANGED <<session[d], up[d], down[d]>>
                             /\ d \in endS' \ cut' => Dead(d)
                          \/ Orderly(d)' /\ OneRequest(d)' /\ (Carries(d) \/ Replies(d)),
         endS \subseteq endS', cut \subseteq cut', server_gate' = "open" => server_gate = "open",
         UNCHANGED <<endC, kind, clientVars>>
  PROVE  AnswersInv'
<1>1. \A d : (Dead(d) => Dead(d)') /\ (Broken(d) => Broken(d)')
  BY DEF Dead, Broken, AnswersInv, PairTypes
<1>2. UNCHANGED <<step, connection, content, callbacks, connections, in_use, created>>
  BY DEF clientVars, sessions, pool
<1>3. ASSUME NEW d \in Conns
      PROVE  Orderly(d)' /\ OneRequest(d)'
  <2>1. CASE UNCHANGED <<session[d], up[d], down[d]>>
    <3>1. Orderly(d) /\ OneRequest(d)
      BY DEF AnswersInv
    <3>2. Orderly(d)'
      BY <2>1, <3>1 DEF Orderly
    <3>3. \A r : Sender(r, d) => Sender(r, d)'
      BY <1>1, <1>2 DEF Sender
    <3>4. OneRequest(d)'
      BY <2>1, <3>1, <3>3 DEF OneRequest, BodyParts, PartsOf
    <3>5. QED BY <3>2, <3>4
  <2>2. QED BY <2>1
<1>4. ASSUME NEW d \in Conns, Vacant(d)'
      PROVE  Idle(d)'
  <2>1. Vacant(d) /\ Idle(d)
    BY <1>2, <1>4 DEF Vacant, AnswersInv
  <2>2. CASE UNCHANGED <<session[d], up[d], down[d]>>
    BY <2>1, <2>2, <1>1 DEF Idle, Silent, Busy
  <2>3. CASE Carries(d)
    BY <2>1, <2>3, <1>1 DEF Idle, Carries
  <2>4. CASE Replies(d)
    BY <2>1, <2>4, OnItsOwn DEF Replies, UnderWay, Pending
  <2>5. QED BY <2>2, <2>3, <2>4
<1>5. ASSUME NEW r \in Requests
      PROVE  Talk(r)'
  <2>1. Talk(r)
    BY DEF AnswersInv
  <2>2. CASE ~UnderWay(r)
    BY <2>2, <1>2 DEF Talk, UnderWay, Pending
  <2>3. CASE UnderWay(r)
    <3>1. PICK c \in Conns : connection[r] = c
      BY <2>3, OnItsOwn
    <3>2. CASE UNCHANGED <<session[c], up[c], down[c]>> /\ (c \in endS' \ cut' => Dead(c))
      <4>1. c \in endS' \ cut' => c \in endS \ cut
        BY <2>3, <3>1, <3>2, EndsFacts DEF Dead
      <4>2. QED BY <2>1, <3>1, <3>2, <4>1, <1>1, <1>2, TalkKept
    <3>3. CASE Carries(c)
      <4>1. Idle(c) => Idle(c)'
        BY <3>3, <1>1 DEF Idle, Carries
      <4>2. Coming(c, r) => Coming(c, r)'
        BY <2>3, <3>1, <3>3 DEF Carries
      <4>3. (Silent(c) => Silent(c)') /\ (~Dead(c)' /\ Busy(c)' => ~Dead(c) /\ Busy(c))
        BY <3>3, <1>1 DEF Carries
      <4>4. QED BY <2>1, <3>1, <4>1, <4>2, <4>3, <1>1, <1>2 DEF Talk
    <3>4. CASE Replies(c)
      <4>1. PICK q \in Requests : /\ step[q] = "read" /\ connection[q] = c
                                  /\ Silent(c) => Coming(c, q)'
        BY <3>4 DEF Replies
      <4>2. UnderWay(q)
        BY <4>1 DEF UnderWay, Pending
      <4>3. q = r
        BY <2>3, <3>1, <4>1, <4>2, OnItsOwn
      <4>4. QED BY <2>1, <3>1, <3>4, <4>1, <4>3, <1>2 DEF Talk, Replies
    <3>5. QED BY <3>2, <3>3, <3>4
  <2>4. QED BY <2>2, <2>3
<1>6. ASSUME NEW r \in Requests
      PROVE  /\ step'[r] # "new" => kind'[r].body # "uncalled"
             /\ step'[r] = "new" => content'[r] = <<>>
             /\ Own(r)' /\ Ended(r)'
  <2>1. /\ Own(r) /\ Ended(r) /\ (step[r] # "new" => kind[r].body # "uncalled")
        /\ (step[r] = "new" => content[r] = <<>>)
    BY DEF AnswersInv
  <2>2. Own(r)'
    BY <1>1, <1>2, <2>1 DEF Own, Follows, Rising
  <2>3. Ended(r)'
    BY <1>1, <1>2, <2>1 DEF Ended, Completed, Answer, PartsOf
  <2>4. QED BY <1>2, <2>1, <2>2, <2>3
<1>7. NeverCloses'
  BY DEF NeverCloses, AnswersInv
<1>8. QED BY <1>3, <1>4, <1>5, <1>6, <1>7 DEF AnswersInv

\* Nothing new comes from a connection that is dead, or whose answer is left
\* alone.
LEMMA StillCarries ==
  ASSUME NEW c \in Conns, UNCHANGED <<down[c], kind, content, endC, endS, cut, server_gate>>,
         \/ Dead(c)
         \/ /\ UNCHANGED <<session[c].send_queue, session[c].response>>
            /\ session[c].send_queue # <<>> => UNCHANGED session[c].writing
            /\ Busy(c)' => Busy(c)
  PROVE  Carries(c)
<1>1. (Dead(c)' <=> Dead(c)) /\ (Broken(c)' <=> Broken(c))
  BY DEF Dead, Broken
<1>2. Silent(c) => Silent(c)'
  BY <1>1 DEF Silent
<1>3. ASSUME NEW r \in Requests, Coming(c, r)
      PROVE  Coming(c, r)'
  <2>1. Came(c, r)' = Came(c, r)
    BY DEF Came
  <2>2. ~Dead(c) => Dequeued(c, r)' = Dequeued(c, r)
    BY <2>1 DEF Dequeued
  <2>3. Rising(content[r] \o down[c], r)' /\ (~Broken(c)' => Follows(down[c], r, Len(content[r]))')
    BY <1>1, <1>3 DEF Coming, Rising, Follows
  <2>4. QED BY <1>1, <1>3, <2>1, <2>2, <2>3 DEF Coming, Follows
<1>4. QED BY <1>1, <1>2, <1>3 DEF Carries

\* A request nobody has begun to read stays whole.
LEMMA Unread ==
  ASSUME AnswersInv, NEW c \in Conns,
         session[c].phase \notin {"content", "chunk", "upgraded"},
         session'[c].phase \notin {"content", "chunk"},
         UNCHANGED <<up[c], kind, endC, step, connection>>, endS \subseteq endS',
         server_gate' \in {server_gate, "shut"}
  PROVE  OneRequest(c)'
<1>1. Dead(c) => Dead(c)'
  BY DEF Dead, AnswersInv, PairTypes
<1>2. \A r \in Requests : Sender(r, c) => Sender(r, c)'
  BY <1>1 DEF Sender
<1>3. OneRequest(c)
  BY DEF AnswersInv
<1>4. QED BY <1>2, <1>3 DEF OneRequest, PartsOf, BodyParts

\* A session that ends takes along what it has not sent.
LEMMA GoneMove ==
  ASSUME ClientInv, EndsInv, AnswersInv, NEW c \in Conns, Gone(c), UNCHANGED clientVars,
         NEW u \in Seq(Parts), up' = [up EXCEPT ![c] = u],
         NEW w \in Seq(Parts), down' = [down EXCEPT ![c] = w],
         \A r \in Requests :
           UnderWay(r) /\ connection[r] = c /\ Coming(c, r) =>
             /\ Rising(content[r] \o w, r)
             /\ ~Broken(c)' => Follows(w, r, Len(content[r]))
             /\ c \notin cut' => Len(content[r]) + Len(w) \in {0, kind[r].parts},
         Silent(c) => w = <<>>
  PROVE  AnswersInv'
<1>1. /\ session' = [session EXCEPT ![c] = Fresh("gone")] /\ endS' = endS \cup {c}
      /\ cut \subseteq cut' /\ UNCHANGED <<server_gate, endC, kind, listening>>
  BY DEF Gone, server, NetFrame, Cut
<1>2. UNCHANGED <<content, callbacks>>
  BY DEF clientVars, sessions
<1>3. Fresh("gone") \in Session
  BY DEF Fresh, Session, Phases
<1>4. PairTypes'
  BY <1>1, <1>2, <1>3 DEF AnswersInv, PairTypes
<1>5. session'[c] = Fresh("gone") /\ up'[c] = u /\ down'[c] = w /\ Dead(c)'
  BY <1>1 DEF AnswersInv, PairTypes, Dead
<1>6. \A d \in Conns \ {c} : /\ UNCHANGED <<session[d], up[d], down[d]>>
                             /\ d \in endS' \ cut' => Dead(d)
  BY <1>1 DEF AnswersInv, PairTypes, Dead
<1>7. Orderly(c)' /\ OneRequest(c)'
  <2>1. /\ Fresh("gone").phase = "gone" /\ Fresh("gone").response = <<>>
        /\ Fresh("gone").send_queue = <<>> /\ Fresh("gone").writing = <<>>
        /\ Fresh("gone").streambuf = <<>>
    BY DEF Fresh
  <2>2. Orderly(c)'
    BY <1>5, <2>1 DEF Orderly
  <2>3. OneRequest(c)'
    BY <1>1 DEF OneRequest
  <2>4. QED BY <2>2, <2>3
<1>8. Carries(c)
  <2>1. Silent(c) => Silent(c)'
    BY <1>5 DEF Silent
  <2>2. ASSUME NEW r \in Requests, UnderWay(r), connection[r] = c, Coming(c, r)
        PROVE  Coming(c, r)'
    <3>1. Rising(content[r] \o down[c], r)'
      BY <1>1, <1>2, <1>5, <2>2 DEF Rising
    <3>2. ~Broken(c)' => Follows(down[c], r, Len(content[r]))'
      BY <1>1, <1>2, <1>5, <2>2 DEF Follows
    <3>3. c \notin cut' => Came(c, r)' \in {0, kind'[r].parts}
      BY <1>1, <1>2, <1>5, <2>2 DEF Came
    <3>4. QED BY <1>5, <3>1, <3>2, <3>3 DEF Coming
  <2>3. QED BY <2>1, <2>2, <1>5 DEF Carries
<1>9. QED BY <1>1, <1>4, <1>6, <1>7, <1>8, ServerMove

\* One that ends without another word was cut with its connection, or had said
\* all it had.
LEMMA GoneQuietly ==
  ASSUME ClientInv, EndsInv, AnswersInv, NEW c \in Conns, Gone(c), UNCHANGED <<clientVars, down>>,
         NEW u \in Seq(Parts), up' = [up EXCEPT ![c] = u],
         \/ Dead(c) \/ server_gate = "shut"
         \/ session[c].send_queue = <<>> /\ session[c].response = <<>>
  PROVE  AnswersInv'
<1>1. /\ cut \subseteq cut' /\ UNCHANGED server_gate
      /\ server_gate = "shut" /\ ~Dead(c) => c \in cut'
  BY DEF Gone, server, Cut, Dead
<1>2. down[c] \in Seq(Parts) /\ down' = [down EXCEPT ![c] = down[c]]
  BY DEF AnswersInv, PairTypes
<1>3. ASSUME NEW r \in Requests, UnderWay(r), connection[r] = c, Coming(c, r)
      PROVE  /\ Rising(content[r] \o down[c], r)
             /\ ~Broken(c)' => Follows(down[c], r, Len(content[r]))
             /\ c \notin cut' => Len(content[r]) + Len(down[c]) \in {0, kind[r].parts}
  <2>1. Rising(content[r] \o down[c], r)
    BY <1>3 DEF Coming
  <2>2. ~Broken(c)' => Follows(down[c], r, Len(content[r]))
    BY <1>1, <1>3 DEF Coming, Broken
  <2>3. ASSUME c \notin cut'
        PROVE  Came(c, r) \in {0, kind[r].parts}
    <3>1. CASE Dead(c)
      <4>1. c \in endS \ cut
        BY <1>1, <1>3, <2>3, <3>1, EndsFacts DEF Dead
      <4>2. QED BY <1>3, <4>1 DEF Coming
    <3>2. CASE ~Dead(c)
      <4>1. session[c].send_queue = <<>> /\ session[c].response = <<>>
        BY <1>1, <2>3, <3>2
      <4>2. Dequeued(c, r) = Came(c, r) - 0 /\ Len(<<>>) = 0
        BY <4>1 DEF Dequeued
      <4>3. Dequeued(c, r) + 0 + 0 \in {0, kind[r].parts}
        BY <1>3, <3>2, <4>1, <4>2 DEF Coming
      <4>4. Came(c, r) \in Nat
        BY DEF Came, AnswersInv, PairTypes
      <4>5. QED BY <4>2, <4>3, <4>4
    <3>3. QED BY <3>1, <3>2
  <2>4. QED BY <2>1, <2>2, <2>3 DEF Came
<1>4. Silent(c) => down[c] = <<>>
  BY DEF Silent
<1>5. QED BY <1>2, <1>3, <1>4, GoneMove

\* A handler that goes on as session s.
LEMMA ProceedMove ==
  ASSUME ClientInv, EndsInv, AnswersInv, NEW c \in Conns, NEW s \in Session,
         session' = [session EXCEPT ![c] = s],
         UNCHANGED <<endS, cut, server_gate, clientVars>>, NetFrame,
         NEW u \in Seq(Parts), up' = [up EXCEPT ![c] = u],
         NEW w \in Seq(Parts), down' = [down EXCEPT ![c] = w],
         Orderly(c)', OneRequest(c)', Carries(c) \/ Replies(c)
  PROVE  AnswersInv'
<1>1. UNCHANGED <<server_gate, endC, endS, cut, kind, listening, content, callbacks>>
  BY DEF NetFrame, clientVars, sessions
<1>2. PairTypes'
  BY <1>1 DEF AnswersInv, PairTypes
<1>3. \A d \in Conns \ {c} : /\ UNCHANGED <<session[d], up[d], down[d]>>
                             /\ d \in endS' \ cut' => Dead(d)
  BY <1>1 DEF AnswersInv, PairTypes, Dead
<1>4. QED BY <1>1, <1>2, <1>3, ServerMove

\* The request of r was read to its end, and nothing behind it.
LEMMA FindMove ==
  ASSUME ClientInv, EndsInv, AnswersInv, NEW c \in Conns, NEW r \in Requests, Sender(r, c), Busy(c),
         session[c].phase \in Reading, NEW s \in Session, FindResource(c, s, r), UNCHANGED <<down, clientVars>>,
         up' = [up EXCEPT ![c] = <<>>],
         s.streambuf = <<>>, s.response = <<>>, s.send_queue = <<>>, s.writing = <<>>
  PROVE  AnswersInv'
<1>1. /\ <<>> \in Seq(Parts) /\ down[c] \in Seq(Parts) /\ down' = [down EXCEPT ![c] = down[c]]
      /\ kind[r].parts \in Nat /\ Answer(r) \in Seq(Parts) /\ Follows(Answer(r), r, 0)
      /\ Len(Answer(r)) = kind[r].parts
  <2>1. /\ <<>> \in Seq(Parts) /\ down[c] \in Seq(Parts) /\ down' = [down EXCEPT ![c] = down[c]]
        /\ kind[r] \in Framing
    BY DEF AnswersInv, PairTypes
  <2>2. kind[r].parts \in Nat
    BY <2>1 DEF Framing
  <2>3. QED BY <2>1, <2>2, FollowsAll
<1>2. CASE kind[r].target = "missing"
  <2>1. Gone(c)
    BY <1>2 DEF FindResource
  <2>2. session[c].send_queue = <<>> /\ session[c].response = <<>>
    BY DEF AnswersInv, Orderly, Reading, Answering
  <2>3. QED BY <1>1, <2>1, <2>2, GoneQuietly
<1>3. CASE kind[r].target # "missing"
  <2> DEFINE Found(t) ==
               /\ t.streambuf = <<>> /\ t.send_queue = <<>> /\ t.writing = <<>>
               /\ \/ t.phase \in {"upgraded", "final"} /\ t.response = <<>>
                  \/ t.phase = "app" /\ t.response = Answer(r)
  <2>1. PICK t \in Session : session' = [session EXCEPT ![c] = t] /\ Found(t)
    <3>1. CASE kind[r].target = "upgrade"
      <4>1. session' = [session EXCEPT ![c] = Fresh("upgraded")]
        BY <3>1 DEF FindResource
      <4>2. Fresh("upgraded") \in Session /\ Found(Fresh("upgraded"))
        BY DEF Fresh, Session, Phases
      <4>3. QED BY <4>1, <4>2
    <3>2. CASE kind[r].target = "throws"
      <4> DEFINE t == [s EXCEPT !.phase = "final"]
      <4>1. session' = [session EXCEPT ![c] = t]
        BY <3>2 DEF FindResource, Proceed
      <4>2. t \in Session /\ Found(t)
        BY DEF Session, Phases, Answering
      <4>3. QED BY <4>1, <4>2
    <3>3. CASE kind[r].target \notin {"missing", "upgrade", "throws"}
      <4> DEFINE t == [s EXCEPT !.phase = "app", !.response = Answer(r)]
      <4>1. session' = [session EXCEPT ![c] = t]
        BY <3>3 DEF FindResource, Proceed
      <4>2. t \in Session /\ Found(t)
        BY <1>1 DEF Session, Phases, Answering
      <4>3. QED BY <4>1, <4>2
    <3>4. QED BY <1>3, <3>1, <3>2, <3>3
  <2>2. UNCHANGED <<endS, cut, server_gate>> /\ NetFrame
    BY <1>3 DEF FindResource, Proceed, server
  <2>3. /\ session'[c] = t /\ up'[c] = <<>>
        /\ UNCHANGED <<down[c], kind, content, endC, endS, cut, server_gate>>
    BY <2>1, <2>2 DEF AnswersInv, PairTypes, NetFrame, clientVars, sessions
  <2>4. Orderly(c)' /\ OneRequest(c)'
    BY <2>1, <2>3 DEF Orderly, OneRequest, Answering
  <2>5. Dead(c)' <=> Dead(c)
    BY <2>3 DEF Dead
  <2>6. CASE Dead(c)
    BY <1>1, <2>1, <2>2, <2>3, <2>4, <2>5, <2>6, StillCarries, ProceedMove
  <2>7. CASE ~Dead(c)
    <3>1. step[r] = "read" /\ connection[r] = c
      BY <2>7 DEF Sender
    <3>2. ~Busy(c)'
      BY <2>1, <2>3 DEF Busy
    <3>3. ASSUME Silent(c)
          PROVE  Coming(c, r)'
      <4>1. down'[c] = <<>> /\ content'[r] = <<>> /\ t.send_queue = <<>>
        BY <3>1, <3>3, <2>1, <2>3 DEF Silent, AnswersInv, Talk
      <4>2. <<>> \o <<>> = <<>> /\ Len(<<>>) = 0
        OBVIOUS
      <4>3. Rising(content[r] \o down[c], r)'
        BY <4>1, <4>2 DEF Rising
      <4>4. Dequeued(c, r)' = 0
        BY <2>3, <4>1, <4>2 DEF Dequeued, Came
      <4>5. Follows(down[c], r, Len(content[r]))' /\ Follows(<<>>, r, 0)
        BY <1>1, <2>3, <4>1, <4>2 DEF Follows
      <4>6. /\ session'[c].send_queue = <<>> /\ session'[c].response = t.response
            /\ Follows(t.response, r, 0) /\ Len(t.response) \in {0, kind[r].parts}
        BY <1>1, <2>1, <2>3, <4>1, <4>2, <4>5
      <4>7. c \notin endS' /\ kind'[r] = kind[r]
        BY <2>3, <2>7 DEF Dead
      <4>8. LET n == Len(t.response) z == Len(<<>>) sent == Dequeued(c, r)'
            IN /\ sent \in Nat /\ sent + z = 0 /\ sent + z + n = n
        BY <1>1, <4>2, <4>4, <4>6
      <4>9. LET sent == Dequeued(c, r)'
            IN /\ sent \in Nat /\ Follows(<<>>, r, sent) /\ Follows(t.response, r, sent + Len(<<>>))
               /\ sent + Len(<<>>) + Len(t.response) \in {0, kind[r].parts}
        BY <4>4, <4>5, <4>6, <4>8
      <4>10. QED BY <4>3, <4>5, <4>6, <4>7, <4>9 DEF Coming, Follows
    <3>4. Replies(c)
      BY <2>7, <3>1, <3>2, <3>3 DEF Replies
    <3>5. QED BY <1>1, <2>1, <2>2, <2>4, <3>4, ProceedMove
  <2>8. QED BY <2>6, <2>7
<1>4. QED BY <1>2, <1>3

\* A sequence is its parts one after the other.
LEMMA OneOrTwo ==
  ASSUME NEW s \in Seq(Parts)
  PROVE  /\ Len(s) = 1 => s = <<s[1]>>
         /\ Len(s) = 2 => s = <<s[1], s[2]>>
<1>1. ASSUME Len(s) = 1
      PROVE  s = <<s[1]>>
  <2>1. s[1] \in Parts
    BY <1>1
  <2>2. <<s[1]>> \in Seq(Parts) /\ Len(<<s[1]>>) = 1 /\ <<s[1]>>[1] = s[1]
    BY <2>1
  <2>3. QED BY <1>1, <2>2, SeqEqual
<1>2. ASSUME Len(s) = 2
      PROVE  s = <<s[1], s[2]>>
  <2>1. s[1] \in Parts /\ s[2] \in Parts
    BY <1>2
  <2>2. /\ <<s[1], s[2]>> \in Seq(Parts) /\ Len(<<s[1], s[2]>>) = 2
        /\ <<s[1], s[2]>>[1] = s[1] /\ <<s[1], s[2]>>[2] = s[2]
    BY <2>1
  <2>3. QED BY <1>2, <2>2, SeqEqual
<1>3. QED BY <1>1, <1>2

\* Two parts make the same sequence wherever it is divided.
LEMMA TwoParts ==
  ASSUME NEW a \in Parts, NEW b \in Parts
  PROVE  /\ <<>> \o <<a, b>> = <<a, b>> /\ <<a>> \o <<b>> = <<a, b>>
         /\ <<a, b>> \o <<>> = <<a, b>> /\ <<b>> \o <<>> = <<b>>
         /\ Tail(<<a, b>>) = <<b>> /\ Tail(<<b>>) = <<>>
<1>1. <<>> \in Seq(Parts) /\ <<a>> \in Seq(Parts) /\ <<b>> \in Seq(Parts) /\ <<a, b>> \in Seq(Parts)
  OBVIOUS
<1>2. <<>> \o <<a, b>> = <<a, b>> /\ <<a, b>> \o <<>> = <<a, b>> /\ <<b>> \o <<>> = <<b>>
  BY <1>1, ConcatEmptySeq
<1>3. <<a>> \o <<b>> = <<a, b>>
  <2>1. /\ <<a>> \o <<b>> \in Seq(Parts) /\ Len(<<a>> \o <<b>>) = 2
        /\ (<<a>> \o <<b>>)[1] = a /\ (<<a>> \o <<b>>)[2] = b
    BY <1>1, ConcatProperties
  <2>2. QED BY <2>1, OneOrTwo
<1>4. Tail(<<a, b>>) = <<b>> /\ Tail(<<b>>) = <<>>
  <2>1. /\ Tail(<<a, b>>) \in Seq(Parts) /\ Len(Tail(<<a, b>>)) = 1
        /\ Tail(<<a, b>>)[1] = b
    BY <1>1, HeadTailProperties
  <2>2. Tail(<<b>>) \in Seq(Parts) /\ Len(Tail(<<b>>)) = 0
    BY <1>1, HeadTailProperties
  <2>3. QED BY <2>1, <2>2, OneOrTwo
<1>5. QED BY <1>2, <1>3, <1>4

\* What a request consists of, and what is left when its first parts are read.
LEMMA WholeRequest ==
  ASSUME NEW r \in Requests, kind[r].body \in {"none", "length", "chunked"}
  PROVE  LET n == BodyParts(r) all == PartsOf(r, 1, n)
         IN /\ n = CASE kind[r].body = "none" -> 1 [] kind[r].body = "length" -> 2 [] OTHER -> 3
            /\ all \in Seq(Parts) /\ Len(all) = n /\ all[1] = Part(r, 1)
            /\ n = 1 => Drop(all, 1) = <<>>
            /\ n = 2 => Drop(all, 1) = <<Part(r, 2)>> /\ Drop(all, 2) = <<>>
            /\ n = 3 => /\ Drop(all, 1) = <<Part(r, 2), Part(r, 3)>>
                        /\ Drop(all, 2) = <<Part(r, 3)>> /\ Drop(all, 3) = <<>>
            /\ SubSeq(all, 2, 1) = <<>>
            /\ n >= 2 => SubSeq(all, 2, 2) = <<Part(r, 2)>>
            /\ n = 3 => SubSeq(all, 2, 3) = <<Part(r, 2), Part(r, 3)>>
<1> DEFINE n == BodyParts(r)
           all == PartsOf(r, 1, n)
<1>1. n = CASE kind[r].body = "none" -> 1 [] kind[r].body = "length" -> 2 [] OTHER -> 3
  BY DEF BodyParts
<1>2. n \in 1..3
  BY <1>1
<1>3. all = [i \in 1..n |-> Part(r, i)]
  BY <1>2 DEF PartsOf
<1>4. \A i \in 1..3 : Part(r, i) \in Parts
  BY DEF Part, Parts
<1>5. all \in Seq(Parts) /\ Len(all) = n /\ \A i \in 1..n : all[i] = Part(r, i)
  <2>1. all \in [1..n -> Parts]
    BY <1>2, <1>3, <1>4
  <2>2. QED BY <2>1, <1>2, <1>3
<1> HIDE DEF n, all
<1>6. ASSUME NEW a \in 2..4, NEW b \in 1..n, b = a - 1
      PROVE  SubSeq(all, a, b) = <<>>
  BY <1>5, <1>6, SubSeqEmpty
<1>7. ASSUME NEW a \in 2..n
      PROVE  SubSeq(all, a, a) = <<Part(r, a)>>
  <2>1. /\ SubSeq(all, a, a) \in Seq(Parts) /\ Len(SubSeq(all, a, a)) = 1
        /\ SubSeq(all, a, a)[1] = Part(r, a)
    BY <1>2, <1>5, <1>7, SubSeqProperties
  <2>2. QED BY <2>1, OneOrTwo
<1>8. n = 3 => SubSeq(all, 2, 3) = <<Part(r, 2), Part(r, 3)>>
  <2>1. SUFFICES ASSUME n = 3 PROVE SubSeq(all, 2, 3) = <<Part(r, 2), Part(r, 3)>>
    OBVIOUS
  <2>2. /\ SubSeq(all, 2, 3) \in Seq(Parts) /\ Len(SubSeq(all, 2, 3)) = 2
        /\ SubSeq(all, 2, 3)[1] = Part(r, 2) /\ SubSeq(all, 2, 3)[2] = Part(r, 3)
    BY <2>1, <1>5, SubSeqProperties
  <2>3. QED BY <2>2, OneOrTwo
<1>9. QED BY <1>1, <1>2, <1>5, <1>6, <1>7, <1>8 DEF Drop, n, all

\* read_until takes a header, and of what is behind it no more than belongs to
\* the same request.
LEMMA ReadHeaderMove ==
  ASSUME ClientInv, EndsInv, AnswersInv, NEW c \in Conns, ReadHeader(c), UNCHANGED clientVars
  PROVE  AnswersInv'
<1> DEFINE s == session[c]
<1>1. /\ s \in Session /\ s.phase = "header" /\ s.phase \in Reading /\ server_gate = "open" /\ c \notin endS
      /\ s.streambuf = <<>> /\ s.response = <<>> /\ s.send_queue = <<>> /\ s.writing = <<>>
      /\ up[c] \in Seq(Parts) /\ down[c] \in Seq(Parts) /\ down' = down
  BY DEF ReadHeader, Running, AnswersInv, PairTypes, Orderly, Answering, Reading
<1>2. PICK n \in 1..Len(up[c]) :
        LET r == up[c][1].of
            more == SubSeq(up[c], 2, n)
            Read(p, left) == [s EXCEPT !.phase = p, !.request = {r}, !.streambuf = left]
        IN /\ up' = [up EXCEPT ![c] = Drop(up[c], n)]
           /\ IF up[c][1].part # 1 \/ kind[r].target = "bad" THEN Gone(c)
              ELSE IF kind[r].body = "none" THEN FindResource(c, Read("app", more), r)
              ELSE IF kind[r].body = "chunked" THEN Proceed(c, Read("chunk", more))
              ELSE IF more = <<>> THEN Proceed(c, Read("content", more))
              ELSE FindResource(c, Read("app", Tail(more)), r)
  BY DEF ReadHeader
<1>3. up[c] # <<>> /\ Busy(c)
  BY <1>1 DEF Busy
<1>4. PICK r \in Requests : /\ Sender(r, c) /\ kind[r].body # "uncalled"
                            /\ up[c] = PartsOf(r, 1, BodyParts(r))
  BY <1>1, <1>3 DEF AnswersInv, OneRequest
<1>5. kind[r].body \in {"none", "length", "chunked"}
  BY <1>4 DEF AnswersInv, PairTypes, Framing
<1> DEFINE more == SubSeq(up[c], 2, n)
           left == Drop(up[c], n)
           Read(p, q) == [s EXCEPT !.phase = p, !.request = {r}, !.streambuf = q]
<1>6. /\ up[c][1] = Part(r, 1) /\ n \in 1..BodyParts(r) /\ left \in Seq(Parts)
      /\ more \in Seq(Parts)
  BY <1>4, <1>5, <1>1, WholeRequest, SubSeqProperties DEF Drop
<1>7. up[c][1].of = r /\ up[c][1].part = 1
  BY <1>6 DEF Part
<1>8. up' = [up EXCEPT ![c] = left]
  BY <1>2
<1>9. ASSUME NEW p \in Phases, NEW q \in Seq(Parts)
      PROVE  /\ Read(p, q) \in Session /\ Read(p, q).streambuf = q /\ Read(p, q).phase = p
             /\ Read(p, q).request = {r} /\ Read(p, q).response = <<>>
             /\ Read(p, q).send_queue = <<>> /\ Read(p, q).writing = <<>>
  BY <1>1 DEF Session
<1>0. {"app", "content", "chunk"} \subseteq Phases
  BY DEF Phases, Answering, Reading
<1> HIDE DEF Read, more, left
<1>10. CASE kind[r].target = "bad"
  <2>1. Gone(c)
    BY <1>2, <1>7, <1>10
  <2>2. QED BY <1>1, <1>6, <1>8, <2>1, GoneQuietly
<1>11. CASE kind[r].target # "bad" /\ kind[r].body = "none"
  <2>1. more = <<>> /\ left = <<>>
    BY <1>4, <1>5, <1>6, <1>11, WholeRequest DEF more, left
  <2>2. FindResource(c, Read("app", <<>>), r)
    BY <1>2, <1>7, <1>11, <2>1 DEF Read, more
  <2>3. up' = [up EXCEPT ![c] = <<>>] /\ UNCHANGED <<down, clientVars>>
    BY <1>1, <1>8, <2>1
  <2>4. "app" \in Phases /\ <<>> \in Seq(Parts)
    BY <1>0
  <2>5. /\ Read("app", <<>>) \in Session /\ Read("app", <<>>).streambuf = <<>>
        /\ Read("app", <<>>).response = <<>> /\ Read("app", <<>>).send_queue = <<>>
        /\ Read("app", <<>>).writing = <<>>
    BY <1>9, <2>4, ZenonT(60)
  <2>6. QED BY <1>1, <1>3, <1>4, <2>2, <2>3, <2>5, FindMove
<1>12. CASE kind[r].target # "bad" /\ kind[r].body = "length" /\ n = 2
  <2>1. more = <<Part(r, 2)>> /\ left = <<>> /\ more # <<>> /\ Tail(more) = <<>>
    BY <1>4, <1>5, <1>6, <1>12, WholeRequest DEF more, left
  <2>2. FindResource(c, Read("app", <<>>), r)
    BY <1>2, <1>7, <1>12, <2>1 DEF Read, more
  <2>3. up' = [up EXCEPT ![c] = <<>>] /\ UNCHANGED <<down, clientVars>>
    BY <1>1, <1>8, <2>1
  <2>4. "app" \in Phases /\ <<>> \in Seq(Parts)
    BY <1>0
  <2>5. /\ Read("app", <<>>) \in Session /\ Read("app", <<>>).streambuf = <<>>
        /\ Read("app", <<>>).response = <<>> /\ Read("app", <<>>).send_queue = <<>>
        /\ Read("app", <<>>).writing = <<>>
    BY <1>9, <2>4, ZenonT(60)
  <2>6. QED BY <1>1, <1>3, <1>4, <2>2, <2>3, <2>5, FindMove
<1>13. ASSUME NEW t \in Session, Proceed(c, t), t.request = {r},
              t.response = <<>>, t.send_queue = <<>>, t.writing = <<>>,
              \/ /\ t.phase = "content" /\ t.streambuf = <<>> /\ left = <<Part(r, 2)>>
                 /\ kind[r].body = "length"
              \/ /\ t.phase = "chunk" /\ kind[r].body = "chunked"
                 /\ <<t.streambuf, left>> \in
                      {<< <<>>, <<Part(r, 2), Part(r, 3)>> >>,
                       << <<Part(r, 2)>>, <<Part(r, 3)>> >>,
                       << <<Part(r, 2), Part(r, 3)>>, <<>> >>}
       PROVE  AnswersInv'
  <2>1. /\ session' = [session EXCEPT ![c] = t] /\ UNCHANGED <<endS, cut, server_gate>> /\ NetFrame
        /\ down' = [down EXCEPT ![c] = down[c]]
    BY <1>1, <1>13 DEF Proceed, server, AnswersInv, PairTypes
  <2>2. /\ session'[c] = t /\ up'[c] = left
        /\ UNCHANGED <<down[c], kind, content, endC, endS, cut, server_gate, step, connection>>
    BY <1>8, <2>1 DEF AnswersInv, PairTypes, NetFrame, clientVars, sessions
  <2>3. Sender(r, c)' /\ (Dead(c) <=> Dead(c)')
    BY <1>4, <2>2 DEF Sender, Dead
  <2>4. Orderly(c)'
    BY <1>13, <2>2 DEF Orderly, Answering
  <2>5. OneRequest(c)'
    BY <1>13, <2>2, <2>3 DEF OneRequest, Part
  <2>6. Carries(c)
    BY <1>1, <1>3, <1>13, <2>2, <2>3, StillCarries
  <2>7. QED BY <1>1, <1>6, <1>8, <1>13, <2>1, <2>4, <2>5, <2>6, ProceedMove
<1>14. CASE kind[r].target # "bad" /\ kind[r].body = "length" /\ n # 2
  <2>1. more = <<>> /\ left = <<Part(r, 2)>>
    BY <1>4, <1>5, <1>6, <1>14, WholeRequest DEF more, left
  <2>2. Proceed(c, Read("content", <<>>))
    BY <1>2, <1>7, <1>14, <2>1 DEF Read, more
  <2>3. "content" \in Phases /\ <<>> \in Seq(Parts)
    BY <1>0
  <2>4. Read("content", <<>>) \in Session
    BY <1>9, <2>3
  <2>5. QED BY <1>9, <1>13, <1>14, <2>1, <2>2, <2>3, <2>4
<1>15. CASE kind[r].target # "bad" /\ kind[r].body = "chunked"
  <2>1. <<more, left>> \in {<< <<>>, <<Part(r, 2), Part(r, 3)>> >>,
                            << <<Part(r, 2)>>, <<Part(r, 3)>> >>,
                            << <<Part(r, 2), Part(r, 3)>>, <<>> >>}
    <3>1. n \in 1..3
      BY <1>6, <1>15 DEF BodyParts
    <3>2. CASE n = 1
      BY <1>4, <1>15, <3>2, WholeRequest DEF more, left
    <3>3. CASE n = 2
      BY <1>4, <1>15, <3>3, WholeRequest DEF more, left
    <3>4. CASE n = 3
      BY <1>4, <1>15, <3>4, WholeRequest DEF more, left
    <3>5. QED BY <3>1, <3>2, <3>3, <3>4
  <2>2. Proceed(c, Read("chunk", more))
    BY <1>2, <1>7, <1>15 DEF Read, more
  <2>3. QED BY <1>0, <1>6, <1>9, <1>13, <1>15, <2>1, <2>2
<1>16. QED BY <1>5, <1>10, <1>11, <1>12, <1>14, <1>15

\* The rest of a body by its length.
LEMMA ReadContentMove ==
  ASSUME ClientInv, EndsInv, AnswersInv, NEW c \in Conns, ReadContent(c), UNCHANGED clientVars
  PROVE  AnswersInv'
<1> DEFINE s == session[c]
<1>1. /\ s \in Session /\ s.phase = "content" /\ s.phase \in Reading /\ server_gate = "open" /\ c \notin endS
      /\ s.streambuf = <<>> /\ s.response = <<>> /\ s.send_queue = <<>> /\ s.writing = <<>>
      /\ up' = [up EXCEPT ![c] = Tail(up[c])] /\ down' = down
      /\ \E r \in s.request : FindResource(c, s, r)
  BY DEF ReadContent, Running, AnswersInv, PairTypes, Orderly, Answering, Reading
<1>2. PICK r \in Requests : /\ Sender(r, c) /\ s.request = {r} /\ up[c] = <<Part(r, 2)>>
  BY <1>1 DEF AnswersInv, OneRequest
<1>3. Tail(up[c]) = <<>>
  BY <1>2
<1>4. FindResource(c, s, r) /\ Busy(c) /\ up' = [up EXCEPT ![c] = <<>>]
  BY <1>1, <1>2, <1>3 DEF Busy
<1>5. QED BY <1>1, <1>2, <1>4, FindMove

\* One chunk, and after the last the request.
LEMMA ReadChunkMove ==
  ASSUME ClientInv, EndsInv, AnswersInv, NEW c \in Conns, ReadChunk(c), UNCHANGED clientVars
  PROVE  AnswersInv'
<1> DEFINE all == session[c].streambuf \o up[c]
           s == [session[c] EXCEPT !.streambuf = Tail(all)]
<1>1. /\ session[c] \in Session /\ session[c].phase = "chunk" /\ server_gate = "open"
      /\ session[c].phase \in Reading
      /\ c \notin endS /\ session[c].response = <<>> /\ session[c].send_queue = <<>>
      /\ session[c].writing = <<>>
      /\ up' = [up EXCEPT ![c] = <<>>] /\ down' = down
  BY DEF ReadChunk, Running, AnswersInv, PairTypes, Orderly, Answering, Reading
<1>2. PICK r \in Requests :
        /\ Sender(r, c) /\ kind[r].body = "chunked" /\ session[c].request = {r}
        /\ <<session[c].streambuf, up[c]>> \in
             {<< <<>>, <<Part(r, 2), Part(r, 3)>> >>, << <<Part(r, 2)>>, <<Part(r, 3)>> >>,
              << <<Part(r, 2), Part(r, 3)>>, <<>> >>, << <<Part(r, 3)>>, <<>> >>}
  BY <1>1 DEF AnswersInv, OneRequest
<1>4. Part(r, 2) \in Parts /\ Part(r, 3) \in Parts /\ BodyParts(r) = 3 /\ Busy(c)
  BY <1>1, <1>2 DEF Part, Parts, BodyParts, Busy
<1>5. /\ <<>> \o <<Part(r, 2), Part(r, 3)>> = <<Part(r, 2), Part(r, 3)>>
      /\ <<Part(r, 2)>> \o <<Part(r, 3)>> = <<Part(r, 2), Part(r, 3)>>
      /\ <<Part(r, 2), Part(r, 3)>> \o <<>> = <<Part(r, 2), Part(r, 3)>>
      /\ <<Part(r, 3)>> \o <<>> = <<Part(r, 3)>>
      /\ Tail(<<Part(r, 2), Part(r, 3)>>) = <<Part(r, 3)>> /\ Tail(<<Part(r, 3)>>) = <<>>
      /\ <<Part(r, 3)>> \in Seq(Parts) /\ <<>> \in Seq(Parts)
  BY <1>4, TwoParts
<1>3. \/ all = <<Part(r, 2), Part(r, 3)>>
      \/ all = <<Part(r, 3)>>
  <2>1. \/ session[c].streambuf = <<>> /\ up[c] = <<Part(r, 2), Part(r, 3)>>
        \/ session[c].streambuf = <<Part(r, 2)>> /\ up[c] = <<Part(r, 3)>>
        \/ session[c].streambuf = <<Part(r, 2), Part(r, 3)>> /\ up[c] = <<>>
        \/ session[c].streambuf = <<Part(r, 3)>> /\ up[c] = <<>>
    BY <1>2
  <2>2. QED BY <2>1, <1>5
<1>10. IF all[1].part = BodyParts(r) THEN FindResource(c, s, r) ELSE Proceed(c, s)
  <2>1. \E q \in s.request : IF all[1].part = BodyParts(q) THEN FindResource(c, s, q)
                             ELSE Proceed(c, s)
    BY DEF ReadChunk
  <2>2. s.request = {r}
    BY <1>1, <1>2 DEF Session
  <2>3. QED BY <2>1, <2>2
<1>6. /\ Tail(all) \in Seq(Parts)
      /\ all = <<Part(r, 2), Part(r, 3)>> => Tail(all) = <<Part(r, 3)>>
      /\ all = <<Part(r, 3)>> => Tail(all) = <<>>
  BY <1>3, <1>5
<1>7. /\ s \in Session /\ s.phase = "chunk" /\ s.streambuf = Tail(all) /\ s.request = {r}
      /\ s.response = <<>> /\ s.send_queue = <<>> /\ s.writing = <<>>
  BY <1>1, <1>2, <1>6 DEF Session
<1> HIDE DEF s
<1>8. CASE all = <<Part(r, 3)>>
  <2>1. FindResource(c, s, r) /\ s.streambuf = <<>>
    BY <1>4, <1>10, <1>6, <1>7, <1>8 DEF Part
  <2>2. QED BY <1>1, <1>2, <1>4, <1>7, <2>1, FindMove
<1>9. CASE all = <<Part(r, 2), Part(r, 3)>>
  <2>1. Proceed(c, s) /\ s.streambuf = <<Part(r, 3)>>
    BY <1>4, <1>10, <1>6, <1>7, <1>9 DEF Part
  <2>2. /\ session' = [session EXCEPT ![c] = s] /\ UNCHANGED <<endS, cut, server_gate>> /\ NetFrame
        /\ down' = [down EXCEPT ![c] = down[c]] /\ down[c] \in Seq(Parts) /\ <<>> \in Seq(Parts)
    BY <1>1, <2>1 DEF Proceed, server, AnswersInv, PairTypes
  <2>3. /\ session'[c] = s /\ up'[c] = <<>>
        /\ UNCHANGED <<down[c], kind, content, endC, endS, cut, server_gate, step, connection>>
    BY <1>1, <2>2 DEF AnswersInv, PairTypes, NetFrame, clientVars, sessions
  <2>4. Sender(r, c)' /\ (Dead(c) <=> Dead(c)')
    BY <1>2, <2>3 DEF Sender, Dead
  <2>5. Orderly(c)'
    BY <1>7, <2>3 DEF Orderly, Answering
  <2>6. OneRequest(c)'
    BY <1>2, <1>7, <2>1, <2>3, <2>4 DEF OneRequest, Part
  <2>7. Carries(c)
    BY <1>1, <1>4, <1>7, <2>3, <2>4, StillCarries
  <2>8. QED BY <1>1, <1>7, <2>2, <2>5, <2>6, <2>7, ProceedMove
<1>11. QED BY <1>3, <1>8, <1>9

\* The application's part of an answer joins the queue.
LEMMA AppSendMove ==
  ASSUME ClientInv, EndsInv, AnswersInv, NEW c \in Conns, AppSend(c), UNCHANGED clientVars
  PROVE  AnswersInv'
<1> DEFINE s == session[c]
           x == s.response[1]
           t == [s EXCEPT !.response = Tail(@), !.send_queue = Append(@, x),
                          !.writing = IF s.send_queue = <<>> THEN <<x>> ELSE @]
<1>1. /\ s \in Session /\ s.phase = "app" /\ Len(s.response) > 1 /\ s.streambuf = <<>>
      /\ Proceed(c, t) /\ UNCHANGED <<up, down>> /\ up[c] \in Seq(Parts) /\ down[c] \in Seq(Parts)
      /\ s.response \in Seq(Parts) /\ s.send_queue \in Seq(Parts) /\ s.writing \in Seq(Parts)
  BY DEF AppSend, AnswersInv, PairTypes, Orderly, Session
<1>2. /\ x \in Parts /\ Tail(s.response) \in Seq(Parts) /\ Append(s.send_queue, x) \in Seq(Parts)
      /\ Append(s.send_queue, x) # <<>> /\ s.response # <<>>
      /\ Append(s.send_queue, x)[1] = IF s.send_queue = <<>> THEN x ELSE s.send_queue[1]
  <2>1. x \in Parts /\ s.response # <<>> /\ Tail(s.response) \in Seq(Parts)
    BY <1>1, HeadTailProperties
  <2>2. /\ Append(s.send_queue, x) \in Seq(Parts) /\ Append(s.send_queue, x) # <<>>
        /\ \A i \in 1..Len(s.send_queue) : Append(s.send_queue, x)[i] = s.send_queue[i]
        /\ Append(s.send_queue, x)[Len(s.send_queue) + 1] = x
    <3>1. s.send_queue \in Seq(Parts) /\ x \in Parts
      BY <1>1, <2>1
    <3> HIDE DEF s, x
    <3>2. QED BY <3>1, AppendProperties
  <2>3. s.send_queue # <<>> => 1 \in 1..Len(s.send_queue)
    BY <1>1
  <2>4. QED BY <2>1, <2>2, <2>3
<1>3. /\ t \in Session /\ t.phase = "app" /\ t.streambuf = <<>> /\ t.request = s.request
      /\ t.response = Tail(s.response) /\ t.send_queue = Append(s.send_queue, x)
      /\ t.writing = IF s.send_queue = <<>> THEN <<x>> ELSE s.writing
  <2>1. (IF s.send_queue = <<>> THEN <<x>> ELSE s.writing) \in Seq(Parts)
    BY <1>1, <1>2
  <2>2. QED BY <1>1, <1>2, <2>1 DEF Session
<1> HIDE DEF t
<1>4. /\ session' = [session EXCEPT ![c] = t] /\ UNCHANGED <<endS, cut, server_gate>> /\ NetFrame
      /\ down' = [down EXCEPT ![c] = down[c]] /\ up' = [up EXCEPT ![c] = up[c]]
  BY <1>1 DEF Proceed, server, AnswersInv, PairTypes
<1>5. /\ session'[c] = t
      /\ UNCHANGED <<up[c], down[c], kind, content, endC, endS, cut, server_gate, step, connection>>
  BY <1>1, <1>4 DEF AnswersInv, PairTypes, NetFrame, clientVars, sessions
<1>6. Dead(c)' <=> Dead(c)
  BY <1>5 DEF Dead
<1>7. Orderly(c)'
  <2>1. Len(s.response) # 1 /\ Tail(s.response) # <<>>
    <3> DEFINE m == Len(s.response)
               n == Len(Tail(s.response))
    <3>1. n = m - 1 /\ m \in Nat /\ m > 1
      BY <1>1, <1>2, HeadTailProperties
    <3>2. Len(<<>>) = 0
      OBVIOUS
    <3> HIDE DEF m, n
    <3>3. n # 0 /\ m # 1
      BY <3>1
    <3>4. QED BY <3>2, <3>3 DEF m, n
  <2>2. <<x>> # <<>> /\ Append(s.send_queue, x)[1] = IF s.send_queue = <<>> THEN x ELSE s.send_queue[1]
    BY <1>2
  <2>3. /\ s.writing # <<>> => s.send_queue # <<>> /\ s.writing = <<s.send_queue[1]>>
        /\ server_gate = "open" /\ s.send_queue # <<>> => s.writing # <<>>
    BY DEF AnswersInv, Orderly
  <2>4. /\ t.writing # <<>> => t.writing = <<t.send_queue[1]>>
        /\ server_gate = "open" => t.writing # <<>>
    BY <1>3, <2>2, <2>3
  <2>5. QED BY <1>1, <1>2, <1>3, <1>5, <2>1, <2>4 DEF Orderly, Answering
<1>8. OneRequest(c)'
  BY <1>1, <1>3, <1>5, <1>6, Unread
<1>9. Carries(c)
  <2>1. CASE Dead(c)
    BY <2>1, <1>5, <1>6, StillCarries
  <2>2. CASE ~Dead(c)
    <3>1. ~Silent(c)
      BY <2>2, <1>2 DEF Silent
    <3>2. ASSUME NEW r \in Requests, Coming(c, r)
          PROVE  Coming(c, r)'
      <4> DEFINE sent == Dequeued(c, r)
      <4>1. Dequeued(c, r)' = sent
        <5>1. Came(c, r)' = Came(c, r)
          BY <1>5 DEF Came
        <5>2. (s.send_queue # <<>> /\ s.writing = <<>>) <=> t.writing = <<>>
          BY <1>2, <1>3 DEF AnswersInv, Orderly
        <5>3. QED BY <1>2, <1>3, <1>5, <5>1, <5>2 DEF Dequeued
      <4>2. /\ sent \in Nat /\ Follows(s.send_queue, r, sent)
            /\ Follows(s.response, r, sent + Len(s.send_queue))
            /\ sent + Len(s.send_queue) + Len(s.response) \in {0, kind[r].parts}
        BY <2>2, <3>2 DEF Coming
      <4>3. /\ Len(s.send_queue) \in Nat /\ kind[r].parts \in Nat
            /\ Len(s.response) \in Nat /\ 1 \in 1..Len(s.response)
        <5>1. kind[r].parts \in Nat
          BY DEF AnswersInv, PairTypes, Framing
        <5>2. QED BY <1>1, <5>1
      <4> HIDE DEF sent
      <4>4. /\ Follows(Append(s.send_queue, x), r, sent)
            /\ Follows(Tail(s.response), r, sent + Len(Append(s.send_queue, x)))
        BY <1>1, <1>2, <4>2, <4>3, FollowsMove
      <4>5. /\ Len(Append(s.send_queue, x)) = Len(s.send_queue) + 1
            /\ Len(Tail(s.response)) = Len(s.response) - 1
        BY <1>1, <1>2, AppendProperties, HeadTailProperties
      <4>6. sent + Len(Append(s.send_queue, x)) + Len(Tail(s.response)) \in {0, kind[r].parts}
        <5> DEFINE m == Len(s.send_queue)
                   n == Len(s.response)
                   mm == Len(Append(s.send_queue, x))
                   nn == Len(Tail(s.response))
        <5>1. /\ m \in Nat /\ n \in Nat /\ mm = m + 1 /\ nn = n - 1 /\ sent \in Nat
              /\ sent + m + n \in {0, kind[r].parts}
          BY <4>2, <4>3, <4>5
        <5> HIDE DEF m, n, mm, nn
        <5>2. sent + mm + nn = sent + m + n
          BY <5>1
        <5>3. QED BY <5>1, <5>2 DEF m, n, mm, nn
      <4>7. /\ Rising(content[r] \o down[c], r)'
            /\ ~Broken(c)' => Follows(down[c], r, Len(content[r]))'
        BY <1>5, <3>2 DEF Coming, Rising, Follows, Broken
      <4>8. c \notin endS'
        BY <1>5, <2>2 DEF Dead
      <4>9. session'[c].send_queue = Append(s.send_queue, x) /\ session'[c].response = Tail(s.response)
        BY <1>3, <1>5
      <4>10. /\ Follows(session'[c].send_queue, r, sent)
             /\ Follows(session'[c].response, r, sent + Len(session'[c].send_queue))
             /\ sent + Len(session'[c].send_queue) + Len(session'[c].response)
                  \in {0, kind[r].parts}
        BY <1>5, <4>4, <4>6, <4>9 DEF Follows
      <4>11. QED BY <1>5, <4>1, <4>2, <4>7, <4>8, <4>10 DEF Coming, Follows
    <3>3. ~Dead(c)' /\ Busy(c)' => Busy(c)
      BY <1>1, <1>3, <1>5 DEF Busy
    <3>4. QED BY <3>1, <3>2, <3>3 DEF Carries
  <2>3. QED BY <2>1, <2>2
<1>10. QED BY <1>1, <1>3, <1>4, <1>7, <1>8, <1>9, ProceedMove

\* The end of a write brings the first part of the queue to the client.
LEMMA QueueWrittenMove ==
  ASSUME ClientInv, EndsInv, AnswersInv, NEW c \in Conns, NEW i \in 1..Len(session[c].writing),
         QueueWritten(c, i), UNCHANGED clientVars
  PROVE  AnswersInv'
<1> DEFINE s == session[c]
           x == s.send_queue[1]
           others == SubSeq(s.writing, 1, i - 1) \o Drop(s.writing, i)
           Left(q, w) == [s EXCEPT !.send_queue = q, !.writing = w,
                                   !.phase = IF @ = "released" /\ w = <<>> THEN "final" ELSE @]
<1>1. /\ s \in Session /\ s.send_queue \in Seq(Parts) /\ s.response \in Seq(Parts)
      /\ s.writing \in Seq(Parts) /\ up[c] \in Seq(Parts) /\ down[c] \in Seq(Parts) /\ up' = up
      /\ server_gate \in {"open", "shut"}
  <2>1. s \in Session
    BY DEF AnswersInv, PairTypes
  <2>2. s.send_queue \in Seq(Parts) /\ s.response \in Seq(Parts) /\ s.writing \in Seq(Parts)
    BY <2>1 DEF Session
  <2>3. QED BY <2>1, <2>2 DEF AnswersInv, PairTypes, QueueWritten
<1>2. /\ s.phase \in Answering /\ s.phase # "final" /\ s.streambuf = <<>>
      /\ s.send_queue # <<>> /\ s.response # <<>> /\ s.writing = <<x>>
  <2>1. s.writing # <<>>
    OBVIOUS
  <2>2. s.phase \in Answering /\ s.phase # "final" /\ s.send_queue # <<>> /\ s.writing = <<x>>
    BY <2>1 DEF AnswersInv, Orderly
  <2>3. s.streambuf = <<>> /\ s.response # <<>>
    BY <2>2 DEF AnswersInv, Orderly, Answering
  <2>4. QED BY <2>2, <2>3
<1>3. x \in Parts /\ i = 1 /\ s.writing[i] = x /\ others = <<>>
  <2>1. x \in Parts /\ Len(<<x>>) = 1 /\ <<x>>[1] = x
    BY <1>1, <1>2
  <2>2. i = 1
    BY <1>2, <2>1
  <2>3. SubSeq(s.writing, 1, i - 1) = <<>> /\ Drop(s.writing, i) = <<>>
    BY <1>1, <1>2, <2>1, <2>2, SubSeqEmpty DEF Drop
  <2>4. <<>> \o <<>> = <<>>
    OBVIOUS
  <2>5. QED BY <1>2, <2>1, <2>2, <2>3, <2>4
<1> HIDE DEF others
<1>5. ASSUME NEW q \in Seq(Parts), NEW w \in Seq(Parts)
      PROVE  /\ Left(q, w) \in Session /\ Left(q, w).phase \in Answering
             /\ Left(q, w).phase = "final" => w = <<>>
             /\ Left(q, w).streambuf = <<>> /\ Left(q, w).response = s.response
             /\ Left(q, w).send_queue = q /\ Left(q, w).writing = w
  BY <1>1, <1>2 DEF Session, Answering, Phases
<1> HIDE DEF Left
<1>6. ASSUME NEW q \in Seq(Parts), NEW w \in Seq(Parts), Proceed(c, Left(q, w)),
             NEW d \in Seq(Parts), down' = [down EXCEPT ![c] = d],
             w = IF q = <<>> \/ server_gate = "shut" THEN <<>> ELSE <<q[1]>>,
             \/ Dead(c) /\ d = down[c]
             \/ /\ ~Dead(c) /\ d = Append(down[c], x)
                /\ q = IF server_gate = "open" THEN Tail(s.send_queue) ELSE s.send_queue
      PROVE  AnswersInv'
  <2> DEFINE t == Left(q, w)
  <2>1. /\ session' = [session EXCEPT ![c] = t] /\ UNCHANGED <<endS, cut, server_gate>> /\ NetFrame
        /\ up' = [up EXCEPT ![c] = up[c]]
    BY <1>1, <1>6 DEF Proceed, server, AnswersInv, PairTypes
  <2>2. /\ session'[c] = t /\ down'[c] = d
        /\ UNCHANGED <<up[c], kind, content, endC, endS, cut, server_gate, step, connection>>
    BY <1>1, <1>6, <2>1 DEF AnswersInv, PairTypes, NetFrame, clientVars, sessions
  <2>3. (Dead(c)' <=> Dead(c)) /\ (Broken(c)' <=> Broken(c))
    BY <2>2 DEF Dead, Broken
  <2>4. Orderly(c)'
    <3>1. /\ t.phase \in Answering /\ t.streambuf = <<>> /\ t.send_queue = q /\ t.writing = w
          /\ t.response = s.response /\ (t.phase = "final" => w = <<>>)
      BY <1>5
    <3>2. <<q[1]>> # <<>>
      OBVIOUS
    <3>3. QED BY <1>2, <1>6, <2>2, <3>1, <3>2 DEF Orderly
  <2>5. OneRequest(c)'
    <3>1. /\ session[c].phase \notin {"content", "chunk", "upgraded"}
          /\ session'[c].phase \notin {"content", "chunk"}
      BY <1>2, <1>5, <2>2 DEF Answering
    <3>2. QED BY <2>2, <3>1, Unread
  <2>6. Carries(c)
    <3>1. CASE Dead(c) /\ d = down[c]
      BY <3>1, <2>2, <2>3, StillCarries
    <3>2. CASE /\ ~Dead(c) /\ d = Append(down[c], x)
               /\ q = IF server_gate = "open" THEN Tail(s.send_queue) ELSE s.send_queue
      <4>1. ASSUME NEW r \in Requests, UnderWay(r), connection[r] = c, Coming(c, r)
            PROVE  Coming(c, r)'
        <5> DEFINE k == Len(content[r])
                   m == Len(down[c])
                   n == Len(s.send_queue)
                   z == Len(s.response)
                   sent == Dequeued(c, r)'
        <5>1. /\ content[r] \in Seq(Parts) /\ kind[r] \in Framing
              /\ k \in Nat /\ m \in Nat /\ n \in Nat /\ z \in Nat
          BY <1>1 DEF AnswersInv, PairTypes
        <5>2. kind[r].parts \in Nat /\ ~Broken(c)
          BY <3>2, <4>1, <5>1, EndsFacts DEF Framing
        <5>3. Follows(content[r], r, 0) /\ Follows(down[c], r, k)
          BY <4>1, <5>2 DEF Coming, AnswersInv, Own
        <5>4. Dequeued(c, r) = k + m
          <6>1. s.writing # <<>>
            BY <1>2
          <6>2. Dequeued(c, r) = k + m - 0
            BY <6>1 DEF Dequeued, Came
          <6> HIDE DEF k, m
          <6>3. QED BY <5>1, <6>2
        <5>5. /\ Follows(s.send_queue, r, k + m) /\ Follows(s.response, r, k + m + n)
              /\ k + m + n + z \in {0, kind[r].parts}
          BY <3>2, <4>1, <5>4 DEF Coming
        <5>6. Follows(d, r, k) /\ Follows(Tail(s.send_queue), r, k + Len(d))
          BY <1>1, <1>2, <3>2, <5>1, <5>2, <5>3, <5>5, FollowsMove
        <5>7. Rising(content[r] \o d, r)
          BY <5>1, <5>2, <5>3, <5>6, FollowsRise
        <5>8. Len(d) = m + 1 /\ Len(Tail(s.send_queue)) = n - 1
          BY <1>1, <1>2, <1>3, <3>2, AppendProperties, HeadTailProperties
        <5>9. t.send_queue = q /\ t.writing = w /\ t.response = s.response
          BY <1>5
        <5>10. sent \in Nat /\ Follows(q, r, sent) /\ sent + Len(q) = k + m + n
          <6>1. sent = (k + Len(d)) - (IF q # <<>> /\ w = <<>> THEN 1 ELSE 0)
            BY <2>2, <5>9 DEF Dequeued, Came
          <6>2. CASE server_gate = "open"
            <7>1. q = Tail(s.send_queue) /\ ~(q # <<>> /\ w = <<>>)
              BY <1>6, <3>2, <6>2
            <7>2. sent = (k + Len(d)) - 0
              BY <6>1, <7>1
            <7>3. sent = k + Len(d) /\ sent \in Nat /\ sent + (n - 1) = k + m + n
              <8> HIDE DEF k, m, n, sent
              <8>1. QED BY <5>1, <5>8, <7>2
            <7>4. QED BY <5>6, <5>8, <7>1, <7>3
          <6>3. CASE server_gate = "shut"
            <7>1. q = s.send_queue /\ q # <<>> /\ w = <<>>
              BY <1>2, <1>6, <3>2, <6>3
            <7>2. sent = (k + Len(d)) - 1
              BY <6>1, <7>1
            <7>3. sent = k + m /\ sent \in Nat
              <8> HIDE DEF k, m, n, sent
              <8>1. QED BY <5>1, <5>8, <7>2
            <7>4. QED BY <5>5, <7>1, <7>3
          <6>4. QED BY <1>1, <6>2, <6>3
        <5>11. /\ Follows(s.response, r, sent + Len(q))
               /\ sent + Len(q) + z \in {0, kind[r].parts}
          BY <5>5, <5>10
        <5>12. c \notin endS'
          BY <2>2, <3>2 DEF Dead
        <5> HIDE DEF t, sent
        <5>13. /\ Rising(content[r] \o down[c], r)' /\ Follows(down[c], r, Len(content[r]))'
          BY <2>2, <5>6, <5>7 DEF Rising, Follows
        <5>14. /\ sent \in Nat /\ Follows(session'[c].send_queue, r, sent)
               /\ Follows(session'[c].response, r, sent + Len(session'[c].send_queue))
               /\ sent + Len(session'[c].send_queue) + Len(session'[c].response)
                    \in {0, kind[r].parts}
          BY <2>2, <5>9, <5>10, <5>11
        <5>15. QED BY <2>2, <5>12, <5>13, <5>14 DEF Coming, Follows, sent
      <4>2. ~Silent(c)
        BY <1>2, <3>2 DEF Silent
      <4>3. Busy(c)' => Busy(c)
        BY <1>5, <2>2 DEF Busy, Answering
      <4>4. QED BY <4>1, <4>2, <4>3, <3>2 DEF Carries
    <3>3. QED BY <1>6, <3>1, <3>2
  <2>7. t \in Session
    BY <1>5
  <2>8. QED BY <1>1, <1>6, <2>1, <2>4, <2>5, <2>6, <2>7, ProceedMove
<1>7. /\ down = [down EXCEPT ![c] = down[c]]
      /\ ~Dead(c) => Deliver(c, <<x>>) <=> down' = [down EXCEPT ![c] = Append(down[c], x)]
      /\ Append(down[c], x) \in Seq(Parts)
  <2>1. down[c] \o <<x>> = Append(down[c], x) /\ Append(down[c], x) \in Seq(Parts)
    BY <1>1, <1>3, AppendIsConcat
  <2>2. QED BY <2>1 DEF Dead, Deliver, AnswersInv, PairTypes
<1>8. CASE /\ server_gate = "open" /\ c \notin endS /\ Deliver(c, <<s.writing[i]>>)
           /\ Proceed(c, Left(Tail(s.send_queue),
                              IF Len(s.send_queue) > 1 THEN Append(others, s.send_queue[2])
                              ELSE others))
  <2> DEFINE q == Tail(s.send_queue)
             w == IF Len(s.send_queue) > 1 THEN Append(others, s.send_queue[2]) ELSE others
  <2>1. /\ q \in Seq(Parts) /\ Len(q) = Len(s.send_queue) - 1
        /\ Len(s.send_queue) > 1 => q[1] = s.send_queue[2] /\ s.send_queue[2] \in Parts
    BY <1>1, <1>2, HeadTailProperties
  <2>2. w = IF q = <<>> THEN <<>> ELSE <<q[1]>>
    <3>1. Append(<<>>, s.send_queue[2]) = <<s.send_queue[2]>>
      OBVIOUS
    <3>2. q = <<>> <=> ~(Len(s.send_queue) > 1)
      <4>1. \A u \in Seq(Parts) : u = <<>> <=> Len(u) = 0
        OBVIOUS
      <4>2. Len(s.send_queue) \in Nat /\ Len(s.send_queue) # 0
        BY <1>1, <1>2, <4>1
      <4>3. q = <<>> <=> Len(q) = 0
        BY <2>1, <4>1
      <4>4. QED BY <4>2, <4>3, <2>1
    <3>3. QED BY <1>3, <2>1, <3>1, <3>2
  <2>3. w \in Seq(Parts)
    <3>1. q # <<>> => q[1] \in Parts
      BY <2>1
    <3>2. \A y \in Parts : <<y>> \in Seq(Parts)
      OBVIOUS
    <3>3. QED BY <2>1, <2>2, <3>1, <3>2
  <2>4. CASE c \in endC
    <3>1. Dead(c) /\ down' = [down EXCEPT ![c] = down[c]]
      BY <1>7, <1>8, <2>4 DEF Dead, Deliver
    <3>2. QED BY <1>1, <1>6, <1>8, <2>1, <2>2, <2>3, <3>1
  <2>5. CASE c \notin endC
    <3>1. ~Dead(c)
      BY <1>8, <2>5 DEF Dead
    <3>2. down' = [down EXCEPT ![c] = Append(down[c], x)]
      BY <1>3, <1>7, <1>8, <3>1
    <3>3. QED BY <1>6, <1>7, <1>8, <2>1, <2>2, <2>3, <3>1, <3>2
  <2>6. QED BY <2>4, <2>5
<1>9. CASE /\ server_gate = "open" /\ c \in endS \cup endC /\ UNCHANGED down
           /\ Proceed(c, Left(<<>>, others))
  <2>1. others = <<>> /\ Dead(c) /\ <<>> \in Seq(Parts)
    BY <1>3, <1>9 DEF Dead
  <2>2. QED BY <1>1, <1>6, <1>7, <1>9, <2>1
<1>10. CASE /\ server_gate = "shut" /\ DeliverIfOpen(c, <<s.writing[i]>>)
            /\ Proceed(c, Left(s.send_queue, others))
  <2>1. others = <<>> /\ <<>> \in Seq(Parts) /\ s.writing[i] = x
    BY <1>3
  <2>2. CASE Dead(c)
    <3>1. down' = [down EXCEPT ![c] = down[c]]
      BY <1>7, <1>10, <2>2 DEF Dead, DeliverIfOpen, Deliver
    <3>2. QED BY <1>1, <1>6, <1>10, <2>1, <2>2, <3>1
  <2>3. CASE ~Dead(c)
    <3>1. down' = [down EXCEPT ![c] = Append(down[c], x)]
      BY <1>7, <1>10, <2>1, <2>3 DEF Dead, DeliverIfOpen
    <3>2. QED BY <1>1, <1>6, <1>7, <1>10, <2>1, <2>3, <3>1
  <2>4. QED BY <2>2, <2>3
<1>11. QED BY <1>8, <1>9, <1>10 DEF QueueWritten, others, Left

\* The last write brings what the queue did not.
LEMMA FinalWrittenMove ==
  ASSUME ClientInv, EndsInv, AnswersInv, NEW c \in Conns, FinalWritten(c), UNCHANGED clientVars
  PROVE  AnswersInv'
<1> DEFINE s == session[c]
           sent == down[c] \o s.response
<1>1. /\ s \in Session /\ s.phase = "final" /\ server_gate = "open" /\ s.streambuf = <<>>
      /\ s.send_queue = <<>> /\ s.response \in Seq(Parts) /\ up' = up
      /\ up[c] \in Seq(Parts) /\ down[c] \in Seq(Parts) /\ sent \in Seq(Parts)
      /\ Len(sent) = Len(down[c]) + Len(s.response)
  <2>1. s \in Session /\ s.phase = "final" /\ server_gate = "open" /\ up' = up
    BY DEF FinalWritten, Running, AnswersInv, PairTypes
  <2>2. s.streambuf = <<>> /\ s.send_queue = <<>>
    BY <2>1 DEF AnswersInv, Orderly
  <2>3. s.response \in Seq(Parts) /\ up[c] \in Seq(Parts) /\ down[c] \in Seq(Parts)
    BY <2>1 DEF Session, AnswersInv, PairTypes
  <2>4. QED BY <2>1, <2>2, <2>3, ConcatProperties
<1>2. up' = [up EXCEPT ![c] = up[c]] /\ down = [down EXCEPT ![c] = down[c]]
  BY <1>1 DEF AnswersInv, PairTypes
<1>3. ASSUME Proceed(c, Fresh("header"))
      PROVE  /\ session' = [session EXCEPT ![c] = Fresh("header")]
             /\ UNCHANGED <<endS, cut, server_gate>> /\ NetFrame /\ session'[c] = Fresh("header")
             /\ UNCHANGED <<up[c], kind, content, endC, step, connection>>
             /\ Fresh("header") \in Session /\ Fresh("header").phase = "header"
             /\ Fresh("header").send_queue = <<>> /\ Fresh("header").response = <<>>
             /\ Orderly(c)' /\ OneRequest(c)'
  <2>1. /\ session' = [session EXCEPT ![c] = Fresh("header")]
        /\ UNCHANGED <<endS, cut, server_gate>> /\ NetFrame
    BY <1>3 DEF Proceed, server
  <2>2. /\ session'[c] = Fresh("header")
        /\ UNCHANGED <<up[c], kind, content, endC, step, connection>>
    BY <1>1, <2>1 DEF AnswersInv, PairTypes, NetFrame, clientVars, sessions
  <2>3. /\ Fresh("header") \in Session /\ Fresh("header").phase = "header"
        /\ Fresh("header").send_queue = <<>> /\ Fresh("header").response = <<>>
        /\ Fresh("header").writing = <<>> /\ Fresh("header").streambuf = <<>>
    BY DEF Fresh, Session, Phases, Reading
  <2>4. Orderly(c)'
    BY <2>2, <2>3 DEF Orderly, Answering
  <2>5. OneRequest(c)'
    BY <1>1, <2>1, <2>2, <2>3, Unread
  <2>6. QED BY <2>1, <2>2, <2>3, <2>4, <2>5
<1>4. CASE Dead(c)
  <2>1. down' = down
    BY <1>4 DEF FinalWritten, Deliver, Dead
  <2>2. CASE Gone(c)
    BY <1>1, <1>2, <1>4, <2>1, <2>2, GoneQuietly
  <2>3. CASE Proceed(c, Fresh("header"))
    <3>1. Carries(c)
      BY <1>3, <1>4, <2>1, <2>3, StillCarries
    <3>2. QED BY <1>1, <1>2, <1>3, <2>1, <2>3, <3>1, ProceedMove
  <2>4. QED BY <2>2, <2>3 DEF FinalWritten
<1>5. CASE ~Dead(c)
  <2>1. down' = [down EXCEPT ![c] = sent]
    BY <1>1, <1>5 DEF FinalWritten, Deliver, Dead
  <2>2. ASSUME NEW r \in Requests, UnderWay(r), connection[r] = c, Coming(c, r)
        PROVE  /\ Rising(content[r] \o sent, r) /\ Follows(sent, r, Len(content[r]))
               /\ Len(content[r]) \in Nat /\ Len(content[r]) + Len(sent) \in {0, kind[r].parts}
    <3> DEFINE k == Len(content[r])
               m == Len(down[c])
               n == Len(s.response)
    <3>1. content[r] \in Seq(Parts) /\ kind[r] \in Framing /\ k \in Nat /\ m \in Nat /\ n \in Nat
      BY <1>1 DEF AnswersInv, PairTypes
    <3>2. kind[r].parts \in Nat /\ ~Broken(c)
      BY <1>5, <2>2, <3>1, EndsFacts DEF Framing
    <3>3. Follows(content[r], r, 0) /\ Follows(down[c], r, k)
      BY <2>2, <3>2 DEF Coming, AnswersInv, Own
    <3>4. Dequeued(c, r) = k + m - 0 /\ Len(<<>>) = 0
      BY <1>1 DEF Dequeued, Came
    <3>5. /\ Follows(s.response, r, Dequeued(c, r) + Len(s.send_queue))
          /\ Dequeued(c, r) + Len(s.send_queue) + Len(s.response) \in {0, kind[r].parts}
      BY <1>5, <2>2 DEF Coming
    <3>6. Dequeued(c, r) + Len(s.send_queue) = k + m /\ k + m \in Nat
      <4>1. Len(s.send_queue) = 0
        BY <1>1, <3>4
      <4> HIDE DEF k, m
      <4>2. QED BY <3>1, <3>4, <4>1
    <3>7. Follows(s.response, r, k + m) /\ k + m + n \in {0, kind[r].parts}
      BY <3>5, <3>6
    <3>8. Follows(sent, r, k)
      BY <1>1, <3>1, <3>3, <3>7, FollowsJoin
    <3>9. Rising(content[r] \o sent, r)
      <4>1. sent \in Seq(Parts) /\ k <= k
        BY <1>1, <3>1
      <4> HIDE DEF sent
      <4>2. QED BY <3>1, <3>2, <3>3, <3>8, <4>1, FollowsRise
    <3>10. k + Len(sent) \in {0, kind[r].parts}
      <4>1. Len(sent) = m + n
        BY <1>1
      <4> HIDE DEF k, m, n, sent
      <4>2. k + (m + n) = k + m + n
        BY <3>1
      <4>3. QED BY <3>7, <4>1, <4>2
    <3>11. QED BY <3>1, <3>8, <3>9, <3>10
  <2>3. Silent(c) => sent = <<>>
    <3>1. <<>> \o <<>> = <<>>
      OBVIOUS
    <3>2. QED BY <1>5, <3>1 DEF Silent
  <2>4. CASE Gone(c)
    BY <1>1, <1>2, <2>1, <2>2, <2>3, <2>4, GoneMove
  <2>5. CASE Proceed(c, Fresh("header"))
    <3>1. down'[c] = sent
      BY <1>1, <2>1 DEF AnswersInv, PairTypes
    <3>2. Silent(c) => Silent(c)'
      BY <1>3, <2>3, <2>5, <3>1 DEF Silent
    <3>3. Busy(c)' => Busy(c)
      BY <1>3, <2>5 DEF Busy
    <3>4. ASSUME NEW r \in Requests, UnderWay(r), connection[r] = c, Coming(c, r)
          PROVE  Coming(c, r)'
      <4> DEFINE n == Len(content[r]) + Len(sent)
      <4>1. /\ Rising(content[r] \o sent, r) /\ Follows(sent, r, Len(content[r]))
            /\ Len(content[r]) \in Nat /\ Len(sent) \in Nat /\ n \in {0, kind[r].parts}
        <5>1. Len(sent) \in Nat
          <6>1. sent \in Seq(Parts)
            BY <1>1
          <6> HIDE DEF sent
          <6>2. QED BY <6>1
        <5>2. QED BY <2>2, <3>4, <5>1
      <4>2. n \in Nat /\ n <= kind[r].parts /\ n - 0 = n /\ Len(<<>>) = 0 /\ n + 0 = n
        <5>1. n <= kind[r].parts
          BY <4>1 DEF Follows
        <5>2. Len(<<>>) = 0
          OBVIOUS
        <5>3. n \in Nat
          <6> HIDE DEF sent
          <6>1. QED BY <4>1
        <5> HIDE DEF n
        <5>4. QED BY <5>1, <5>2, <5>3
      <4>3. Dequeued(c, r)' = n
        BY <1>3, <2>5, <3>1, <4>2 DEF Dequeued, Came
      <4>4. Follows(<<>>, r, n)
        BY <4>2, FollowsNone
      <4>5. c \notin endS'
        BY <1>3, <1>5, <2>5 DEF Dead
      <4>6. /\ Rising(content[r] \o down[c], r)' /\ Follows(down[c], r, Len(content[r]))'
        BY <1>3, <2>5, <3>1, <4>1 DEF Rising, Follows
      <4>7. /\ n + Len(<<>>) = n /\ n + Len(<<>>) + Len(<<>>) = n
        <5> HIDE DEF n
        <5>1. QED BY <4>2
      <4>8. /\ Follows(session'[c].send_queue, r, n)
            /\ Follows(session'[c].response, r, n + Len(session'[c].send_queue))
            /\ n + Len(session'[c].send_queue) + Len(session'[c].response) \in {0, kind[r].parts}
        BY <1>3, <2>5, <4>1, <4>4, <4>7
      <4> HIDE DEF n
      <4>9. kind'[r] = kind[r]
        BY <1>3, <2>5
      <4>10. QED BY <4>2, <4>3, <4>5, <4>6, <4>8, <4>9 DEF Coming, Follows
    <3>5. Carries(c)
      BY <3>2, <3>3, <3>4 DEF Carries
    <3>6. QED BY <1>1, <1>2, <1>3, <2>1, <2>5, <3>5, ProceedMove
  <2>6. QED BY <2>4, <2>5, <1>5 DEF FinalWritten, Dead
<1>6. QED BY <1>4, <1>5

\* When the server was destroyed it goes past the parts still queued.
LEMMA FinalRefusedMove ==
  ASSUME ClientInv, EndsInv, AnswersInv, NEW c \in Conns, FinalRefused(c), UNCHANGED clientVars
  PROVE  AnswersInv'
<1> DEFINE s == session[c]
           sent == down[c] \o s.response
<1>1. /\ s \in Session /\ s.phase = "final" /\ server_gate = "shut" /\ Gone(c)
      /\ DeliverIfOpen(c, s.response) /\ up' = [up EXCEPT ![c] = up[c]]
      /\ s.response \in Seq(Parts) /\ s.send_queue \in Seq(Parts)
      /\ up[c] \in Seq(Parts) /\ down[c] \in Seq(Parts) /\ sent \in Seq(Parts)
  <2>1. /\ s \in Session /\ s.phase = "final" /\ server_gate = "shut" /\ Gone(c)
        /\ DeliverIfOpen(c, s.response) /\ up' = [up EXCEPT ![c] = up[c]]
    BY DEF FinalRefused, AnswersInv, PairTypes
  <2>2. /\ s.response \in Seq(Parts) /\ s.send_queue \in Seq(Parts)
        /\ up[c] \in Seq(Parts) /\ down[c] \in Seq(Parts)
    BY <2>1 DEF Session, AnswersInv, PairTypes
  <2>3. QED BY <2>1, <2>2, ConcatProperties
<1>2. CASE Dead(c)
  <2>1. down' = down
    BY <1>1, <1>2 DEF DeliverIfOpen, Deliver, Dead
  <2>2. QED BY <1>1, <1>2, <2>1, GoneQuietly
<1>3. CASE ~Dead(c)
  <2>1. down' = [down EXCEPT ![c] = sent]
    BY <1>1, <1>3 DEF DeliverIfOpen, Deliver, Dead
  <2>2. c \in cut' /\ Broken(c)'
    BY <1>1, <1>3 DEF Gone, Cut, Dead, Broken, server
  <2>3. Silent(c) => sent = <<>>
    <3>1. <<>> \o <<>> = <<>>
      OBVIOUS
    <3>2. QED BY <1>3, <3>1 DEF Silent
  <2>4. ASSUME NEW r \in Requests, UnderWay(r), connection[r] = c, Coming(c, r)
        PROVE  Rising(content[r] \o sent, r)
    <3> DEFINE came == content[r] \o down[c]
               k == Len(content[r])
               m == Len(down[c])
               n == Len(s.send_queue)
               after == Dequeued(c, r) + n
    <3>1. content[r] \in Seq(Parts) /\ kind[r] \in Framing /\ k \in Nat /\ m \in Nat /\ n \in Nat
      BY <1>1 DEF AnswersInv, PairTypes
    <3>2. kind[r].parts \in Nat /\ ~Broken(c)
      BY <1>3, <2>4, <3>1, EndsFacts DEF Framing
    <3>3. Follows(content[r], r, 0) /\ Follows(down[c], r, k)
      BY <2>4, <3>2 DEF Coming, AnswersInv, Own
    <3>4. came \in Seq(Parts) /\ Len(came) = k + m /\ Follows(came, r, 0)
      <4>1. Follows(down[c], r, 0 + k)
        BY <3>1, <3>3
      <4>2. QED BY <1>1, <3>1, <3>3, <4>1, FollowsJoin
    <3>5. Follows(s.response, r, after) /\ Dequeued(c, r) \in Nat
      BY <1>3, <2>4 DEF Coming
    <3>6. Dequeued(c, r) = (k + m) - (IF s.send_queue # <<>> /\ s.writing = <<>> THEN 1 ELSE 0)
      BY DEF Dequeued, Came
    <3>7. s.send_queue # <<>> => n >= 1
      BY <1>1
    <3>8. after \in Nat /\ k + m <= after
      <4> HIDE DEF k, m, n
      <4>1. QED BY <3>1, <3>5, <3>6, <3>7
    <3> HIDE DEF after
    <3>9. Rising(came \o s.response, r)
      BY <1>1, <3>2, <3>4, <3>5, <3>8, FollowsRise
    <3>10. came \o s.response = content[r] \o sent
      <4>1. down[c] \in Seq(Parts) /\ s.response \in Seq(Parts) /\ content[r] \in Seq(Parts)
        BY <1>1, <3>1
      <4>2. \A a, b, e \in Seq(Parts) : (a \o b) \o e = a \o (b \o e)
        BY ConcatAssociative
      <4>3. QED BY <4>1, <4>2
    <3>11. QED BY <3>9, <3>10
  <2>5. QED BY <1>1, <2>1, <2>2, <2>3, <2>4, GoneMove
<1>4. QED BY <1>2, <1>3

\* The steps that move no part: connections accepted, sessions that end, and
\* the application letting go of a response.
LEMMA PhaseMove ==
  ASSUME ClientInv, EndsInv, AnswersInv, NEW c \in Conns, UNCHANGED clientVars,
         Accept(c) \/ AcceptHandler(c) \/ AppRelease(c) \/ ReadFails(c) \/ Refused(c)
  PROVE  AnswersInv'
<1> DEFINE s == session[c]
<1>1. /\ s \in Session /\ up[c] \in Seq(Parts) /\ down[c] \in Seq(Parts) /\ UNCHANGED <<up, down>>
      /\ up' = [up EXCEPT ![c] = up[c]] /\ down' = [down EXCEPT ![c] = down[c]]
  BY DEF Accept, AcceptHandler, AppRelease, ReadFails, Refused, netVars, AnswersInv, PairTypes
<1>2. ASSUME NEW t \in Session, session' = [session EXCEPT ![c] = t],
             UNCHANGED <<endS, cut, server_gate>>, NetFrame,
             s.phase \notin {"content", "chunk", "upgraded"}, t.phase \notin {"content", "chunk"},
             UNCHANGED <<session[c].send_queue, session[c].response, session[c].writing>>,
             Orderly(c)'
      PROVE  AnswersInv'
  <2>1. /\ session'[c] = t
        /\ UNCHANGED <<up[c], down[c], kind, content, endC, endS, cut, server_gate, step, connection>>
    BY <1>1, <1>2 DEF AnswersInv, PairTypes, NetFrame, clientVars, sessions
  <2>2. OneRequest(c)'
    BY <1>2, <2>1, Unread
  <2>3. Dead(c) => Dead(c)'
    BY <2>1 DEF Dead
  <2>4. Busy(c)' => Busy(c)
    BY <1>2, <2>1 DEF Busy
  <2>5. Carries(c)
    BY <1>2, <2>1, <2>3, <2>4, StillCarries
  <2>6. QED BY <1>1, <1>2, <2>2, <2>5, ProceedMove
<1>3. ASSUME NEW p \in {"accepted", "header"}, session' = [session EXCEPT ![c] = Fresh(p)],
             s.phase \in {"none", "accepted"}, UNCHANGED <<netVars, server_gate>>
      PROVE  AnswersInv'
  <2>1. /\ Fresh(p) \in Session /\ Fresh(p).phase = p /\ Fresh(p).send_queue = <<>>
        /\ Fresh(p).response = <<>> /\ Fresh(p).writing = <<>> /\ Fresh(p).streambuf = <<>>
    BY DEF Fresh, Session, Phases, Reading
  <2>2. s.send_queue = <<>> /\ s.response = <<>> /\ s.writing = <<>>
    BY <1>3 DEF AnswersInv, Orderly, Answering
  <2>3. session'[c] = Fresh(p)
    BY <1>3 DEF AnswersInv, PairTypes
  <2>4. Orderly(c)'
    BY <2>1, <2>3 DEF Orderly, Answering
  <2>5. UNCHANGED <<endS, cut>> /\ NetFrame
    BY <1>3 DEF netVars, NetFrame
  <2>6. UNCHANGED <<session[c].send_queue, session[c].response, session[c].writing>>
    BY <2>1, <2>2, <2>3
  <2>7. QED BY <1>2, <1>3, <2>1, <2>4, <2>5, <2>6
<1>4. CASE Accept(c)
  BY <1>3, <1>4 DEF Accept
<1>5. CASE AcceptHandler(c)
  BY <1>3, <1>5 DEF AcceptHandler, Running
<1>6. CASE AppRelease(c)
  <2> DEFINE t == [s EXCEPT !.phase = IF s.writing = <<>> THEN "final" ELSE "released"]
  <2>1. s.phase = "app" /\ Proceed(c, t)
    BY <1>6 DEF AppRelease
  <2>2. /\ t \in Session /\ t.phase = IF s.writing = <<>> THEN "final" ELSE "released"
        /\ t.send_queue = s.send_queue /\ t.response = s.response /\ t.writing = s.writing
        /\ t.streambuf = s.streambuf
    BY <1>1 DEF Session, Phases, Answering
  <2> HIDE DEF t
  <2>3. /\ session' = [session EXCEPT ![c] = t] /\ UNCHANGED <<endS, cut, server_gate>> /\ NetFrame
    BY <2>1 DEF Proceed, server
  <2>4. session'[c] = t
    BY <2>3 DEF AnswersInv, PairTypes
  <2>5. Orderly(c)'
    <3>1. s.streambuf = <<>>
      BY <2>1 DEF AnswersInv, Orderly
    <3>2. /\ s.send_queue # <<>> => s.response # <<>>
          /\ s.writing # <<>> => s.send_queue # <<>> /\ s.writing = <<s.send_queue[1]>>
          /\ server_gate = "open" /\ s.send_queue # <<>> => s.writing # <<>>
      BY DEF AnswersInv, Orderly
    <3>3. QED BY <2>2, <2>3, <2>4, <3>1, <3>2 DEF Orderly, Answering
  <2>6. UNCHANGED <<session[c].send_queue, session[c].response, session[c].writing>>
    BY <2>2, <2>4
  <2>7. QED BY <1>2, <2>1, <2>2, <2>3, <2>5, <2>6
<1>7. CASE ReadFails(c) \/ Refused(c)
  <2>1. Gone(c) /\ (Dead(c) \/ server_gate = "shut")
    BY <1>7 DEF ReadFails, Refused, Dead
  <2>2. QED BY <1>1, <2>1, GoneQuietly
<1>8. QED BY <1>4, <1>5, <1>6, <1>7

\* Timers and stop close connections, and the end of the server its gate.
LEMMA ServerStopMove ==
  ASSUME ClientInv, EndsInv, AnswersInv, UNCHANGED clientVars,
         \/ \E c \in Conns : ServerExpire(c) \/ OnServerExpired(c)
         \/ \E destroyed \in BOOLEAN : CloseAcceptor(destroyed)
         \/ CloseConnections
  PROVE  AnswersInv'
<1>1. /\ UNCHANGED <<session, up, down, kind, endC>> /\ endS \subseteq endS'
      /\ cut \subseteq cut' /\ \A d \in Conns : d \in endS' \ cut' => Dead(d)
      /\ server_gate' = "open" => server_gate = "open"
      /\ server_gate' \in {"open", "shut"} /\ (server_gate' = "shut" => ~listening')
  <2>1. server_gate \in {"open", "shut"} /\ (server_gate = "shut" => ~listening)
    BY DEF AnswersInv, PairTypes
  <2>2. QED BY <2>1
         DEF ServerExpire, OnServerExpired, CloseAcceptor, CloseConnections, netVars, server, NetFrame,
             Cut, Dead
<1>2. PairTypes'
  BY <1>1 DEF AnswersInv, PairTypes, clientVars, sessions
<1>3. QED BY <1>1, <1>2, ServerMove

\* Every step of the server and of its application keeps the conversations.
LEMMA ServerStepMove ==
  ASSUME ClientInv, EndsInv, AnswersInv, UNCHANGED clientVars, NEW c \in Conns,
         Accept(c) \/ ServerHandler(c) \/ AppRelease(c) \/ AppSend(c)
  PROVE  AnswersInv'
BY ReadHeaderMove, ReadContentMove, ReadChunkMove, AppSendMove, QueueWrittenMove,
   FinalWrittenMove, FinalRefusedMove, PhaseMove DEF ServerHandler

-----------------------------------------------------------------------------
(* steps of the client *)

\* A step of one request keeps the conversations of the others, whatever
\* becomes of its own connection c, if it keeps its own.
LEMMA ClientMove ==
  ASSUME ClientInv, EndsInv, AnswersInv, PairTypes', NEW r \in Requests, NEW c,
         UNCHANGED <<session, endS, cut, server_gate, kind>>, endC \subseteq endC',
         \A q \in Requests \ {r} : UNCHANGED <<step[q], connection[q], content[q], callbacks[q]>>,
         UnderWay(r) => connection[r] = c /\ OneRequest(c)',
         \A d \in Conns : UNCHANGED <<up[d], down[d]>> \/ (UnderWay(r) /\ d = c),
         \A d \in Conns : Vacant(d)' => Vacant(d) \/ Idle(d)',
         step'[r] # "new", step[r] # "new" \/ kind[r].body # "uncalled",
         Talk(r)', Ended(r)', Own(r)'
  PROVE  AnswersInv'
<1>1. /\ \A d \in Conns : Dead(d) => Dead(d)'
      /\ \A d : (Broken(d) <=> Broken(d)') /\ (d \in endS' \ cut' => d \in endS \ cut)
  BY DEF Dead, Broken
<1>2. ASSUME NEW d \in Conns
      PROVE  Orderly(d)' /\ OneRequest(d)'
  <2>1. Orderly(d) /\ OneRequest(d)
    BY DEF AnswersInv
  <2>2. Orderly(d)'
    BY <2>1 DEF Orderly
  <2>3. CASE UnderWay(r) /\ d = c
    BY <2>2, <2>3
  <2>4. CASE ~(UnderWay(r) /\ d = c)
    <3>1. UNCHANGED <<up[d], down[d]>>
      BY <2>4
    <3>2. ASSUME NEW q \in Requests, Sender(q, d)
          PROVE  Sender(q, d)'
      <4>1. CASE q = r
        <5>1. Dead(d)
          BY <2>4, <3>2, <4>1 DEF Sender, UnderWay, Pending
        <5>2. QED BY <5>1, <1>1 DEF Sender
      <4>2. CASE q # r
        BY <3>2, <4>2, <1>1 DEF Sender
      <4>3. QED BY <4>1, <4>2
    <3>3. OneRequest(d)'
      BY <2>1, <3>1, <3>2 DEF OneRequest, BodyParts, PartsOf
    <3>4. QED BY <2>2, <3>3
  <2>5. QED BY <2>3, <2>4
<1>3. ASSUME NEW d \in Conns, Vacant(d)'
      PROVE  Idle(d)'
  <2>1. CASE Vacant(d)
    <3>1. Idle(d)
      BY <2>1 DEF AnswersInv
    <3>2. ~(UnderWay(r) /\ d = c)
      BY <2>1, OnItsOwn
    <3>3. QED BY <3>1, <3>2, <1>1 DEF Idle, Silent, Busy
  <2>2. QED BY <1>3, <2>1
<1>4. ASSUME NEW q \in Requests, q # r
      PROVE  /\ Talk(q)' /\ Ended(q)' /\ Own(q)'
             /\ step'[q] # "new" => kind'[q].body # "uncalled"
             /\ step'[q] = "new" => content'[q] = <<>>
  <2>1. /\ Talk(q) /\ Ended(q) /\ Own(q)
        /\ step[q] # "new" => kind[q].body # "uncalled"
        /\ step[q] = "new" => content[q] = <<>>
    BY DEF AnswersInv
  <2>2. UNCHANGED <<step[q], connection[q], content[q], callbacks[q]>>
    BY <1>4
  <2>3. Ended(q)' /\ Own(q)'
    BY <1>1, <1>4, <2>1, <2>2 DEF Ended, Completed, Own, Follows, Rising, Answer, PartsOf
  <2>4. CASE ~UnderWay(q)
    BY <2>1, <2>2, <2>3, <2>4 DEF Talk, UnderWay, Pending
  <2>5. CASE UnderWay(q)
    <3>1. PICK d \in Conns : connection[q] = d
      BY <2>5, OnItsOwn
    <3>2. ~(UnderWay(r) /\ d = c)
      BY <1>4, <2>5, <3>1, OnItsOwn
    <3>3. Talk(q)'
      BY <1>1, <2>1, <2>2, <3>1, <3>2, TalkKept
    <3>4. QED BY <2>1, <2>2, <2>3, <3>3
  <2>6. QED BY <2>4, <2>5
<1>5. NeverCloses'
  BY DEF NeverCloses, AnswersInv
<1>6. QED BY <1>2, <1>3, <1>4, <1>5 DEF AnswersInv

\* A callback ends its request: the connection is closed with an error, and is
\* vacant without.
LEMMA EndMove ==
  ASSUME ClientInv, EndsInv, AnswersInv, NEW r \in Requests, UnderWay(r), NEW c, connection[r] = c,
         NEW ec \in BOOLEAN, Callback(r, ec, "done"),
         UNCHANGED <<serverVars, kind, endS, cut, listening, created, connection, event_stream, up>>,
         NEW d \in Seq(Parts), down' = [down EXCEPT ![c] = d],
         NEW t \in Seq(Parts), content' = [content EXCEPT ![r] = t],
         Rising(t, r), ~Broken(c) => Follows(t, r, 0),
         ~ec => /\ (kind[r].answer = "chunked" => ~Broken(c))
                     /\ (kind[r].answer = "http/1.0" => c \notin cut) => t = Answer(r)
                /\ d = <<>>
                /\ ~Dead(c) => /\ session[c].send_queue = <<>> /\ session[c].response = <<>>
                               /\ ~Busy(c)
  PROVE  AnswersInv'
<1>1. c \in Conns /\ c \in in_use /\ c \in 1..created
  BY OnItsOwn DEF ClientInv, PoolInv, PoolTypes, Uses
<1>2. /\ UNCHANGED <<session, server_gate>>
      /\ step' = [step EXCEPT ![r] = "done"] /\ callbacks' = [callbacks EXCEPT ![r] = Append(@, ec)]
      /\ endC \subseteq endC'
  BY DEF Callback, serverVars, server
<1>3. /\ callbacks[r] \in Seq(BOOLEAN) /\ step \in [Requests -> Steps]
      /\ callbacks \in [Requests -> Seq(BOOLEAN)]
  BY DEF AnswersInv, PairTypes, ClientInv, PoolInv, PoolTypes
<1>4. /\ callbacks'[r] \in Seq(BOOLEAN) /\ callbacks' \in [Requests -> Seq(BOOLEAN)]
      /\ callbacks'[r][Len(callbacks'[r])] = ec /\ step'[r] = "done"
  <2>1. /\ Append(callbacks[r], ec) \in Seq(BOOLEAN)
        /\ Append(callbacks[r], ec)[Len(Append(callbacks[r], ec))] = ec
    BY <1>3, AppendProperties
  <2>2. QED BY <1>2, <1>3, <2>1
<1>5. up' = [up EXCEPT ![c] = up[c]] /\ up[c] \in Seq(Parts)
  BY <1>1 DEF AnswersInv, PairTypes
<1>6. /\ PairTypes' /\ up'[c] = up[c] /\ down'[c] = d /\ content'[r] = t
      /\ \A e \in Conns \ {c} : UNCHANGED <<up[e], down[e]>>
      /\ \A q \in Requests \ {r} : UNCHANGED content[q]
  <2>1. UNCHANGED <<kind, session, server_gate, listening>>
    BY <1>2
  <2>2. up[c] \in Seq(Parts) /\ up' = [up EXCEPT ![c] = up[c]]
    BY <1>5
  <2>3. callbacks' \in [Requests -> Seq(BOOLEAN)]
    BY <1>4
  <2>4. PairTypes
    BY DEF AnswersInv
  <2>5. up'[c] = up[c] /\ down'[c] = d /\ content'[r] = t
    BY <1>1, <2>2, <2>4 DEF PairTypes
  <2>6. \A e \in Conns \ {c} : UNCHANGED <<up[e], down[e]>>
    BY <1>1, <2>2, <2>4 DEF PairTypes
  <2>7. \A q \in Requests \ {r} : UNCHANGED content[q]
    BY <2>4 DEF PairTypes
  <2>8. PairTypes'
    BY <1>1, <2>1, <2>2, <2>3, <2>4 DEF PairTypes
  <2>9. QED BY <2>5, <2>6, <2>7, <2>8
<1>7. \A q \in Requests \ {r} : UNCHANGED <<step[q], connection[q], content[q], callbacks[q]>>
  BY <1>2, <1>3, <1>6
<1>8. /\ connections' \subseteq (IF ec THEN connections \ {c} ELSE connections)
      /\ in_use' = IF c \in event_stream THEN in_use ELSE in_use \ {c}
      /\ c \notin connections' => c \in endC'
  BY PrunedFacts DEF Callback, GivenBack
<1>9. Dead(c) => Dead(c)'
  BY <1>2 DEF Dead
<1>10. OneRequest(c)'
  <2>1. CASE ~ec /\ ~Dead(c)
    BY <2>1, <1>2, <1>6 DEF OneRequest, Busy
  <2>2. CASE ec \/ Dead(c)
    <3>1. Dead(c)'
      BY <2>2, <1>8, <1>9 DEF Dead
    <3>2. \A q : Sender(q, c)'
      BY <3>1 DEF Sender
    <3>3. OneRequest(c)
      BY <1>1 DEF AnswersInv
    <3>4. QED BY <1>2, <1>6, <3>2, <3>3 DEF OneRequest, BodyParts, PartsOf
  <2>3. QED BY <2>1, <2>2
<1>11. ASSUME NEW e \in Conns, Vacant(e)'
       PROVE  Vacant(e) \/ Idle(e)'
  <2>1. CASE e # c
    BY <1>8, <1>11, <2>1 DEF Vacant
  <2>2. CASE e = c
    <3>1. c \in connections' \ in_use'
      <4>1. created \in Nat
        BY DEF ClientInv, PoolInv, PoolTypes
      <4>2. QED BY <1>1, <1>11, <2>2, <4>1 DEF Vacant
    <3>2. ~ec
      BY <1>8, <3>1
    <3>3. QED BY <1>2, <1>6, <1>9, <2>2, <3>2 DEF Idle, Silent, Busy
  <2>3. QED BY <2>1, <2>2
<1>12. Talk(r)'
  BY <1>4 DEF Talk
<1>13. Ended(r)'
  <2>1. Answer(r)' = Answer(r)
    BY DEF Answer, PartsOf
  <2>2. connection'[r] = c /\ (Broken(c) <=> Broken(c)') /\ UNCHANGED <<kind, cut>>
    BY <1>2 DEF Broken
  <2>3. Completed(r)' => ~ec
    BY <1>4 DEF Completed
  <2>4. QED BY <1>6, <2>1, <2>2, <2>3 DEF Ended
<1>14. Own(r)'
  BY <1>2, <1>6 DEF Own, Follows, Rising, Broken
<1>15. step[r] # "new" /\ step'[r] # "new"
  BY <1>4 DEF UnderWay, Pending
<1>16. QED BY <1>2, <1>6, <1>7, <1>10, <1>11, <1>12, <1>13, <1>14, <1>15, ClientMove

\* The request goes on with its next operation.
LEMMA GoOnMove ==
  ASSUME ClientInv, EndsInv, AnswersInv, NEW r \in Requests, UnderWay(r), NEW c, connection[r] = c,
         NEW next \in Pending \cup {"thrown"}, GoOn(r, next),
         UNCHANGED <<serverVars, kind, endS, cut, listening, created, connection>>,
         NEW u \in Seq(Parts), up' = [up EXCEPT ![c] = u],
         NEW d \in Seq(Parts), down' = [down EXCEPT ![c] = d],
         NEW t \in Seq(Parts), content' = [content EXCEPT ![r] = t],
         Rising(t, r), ~Broken(c) => Follows(t, r, 0), OneRequest(c)', Talk(r)'
  PROVE  AnswersInv'
<1>1. c \in Conns
  BY OnItsOwn
<1>2. /\ UNCHANGED <<kind, session, server_gate, listening, endC, callbacks, connections, in_use>>
      /\ step' = [step EXCEPT ![r] = next]
  BY DEF GoOn, serverVars, server
<1>3. PairTypes /\ step \in [Requests -> Steps]
  BY DEF AnswersInv, ClientInv, PoolInv, PoolTypes
<1>4. step'[r] = next /\ next # "new" /\ next # "done" /\ step[r] # "new"
  BY <1>2, <1>3 DEF Pending, UnderWay
<1>5. up'[c] = u /\ down'[c] = d /\ content'[r] = t
  BY <1>1, <1>3 DEF PairTypes
<1>6. \A e \in Conns \ {c} : UNCHANGED <<up[e], down[e]>>
  BY <1>1, <1>3 DEF PairTypes
<1>7. \A q \in Requests \ {r} : UNCHANGED <<step[q], connection[q], content[q], callbacks[q]>>
  BY <1>2, <1>3 DEF PairTypes
<1>8. PairTypes'
  BY <1>1, <1>2, <1>3 DEF PairTypes
<1>9. Ended(r)'
  BY <1>4 DEF Ended, Completed
<1>10. Own(r)'
  BY <1>2, <1>5 DEF Own, Follows, Rising, Broken
<1>11. \A e \in Conns : Vacant(e)' => Vacant(e)
  BY <1>2 DEF Vacant
<1>12. QED BY <1>2, <1>4, <1>6, <1>7, <1>8, <1>9, <1>10, <1>11, ClientMove

\* Before the request is written nothing moves.
LEMMA ConnectMove ==
  ASSUME ClientInv, EndsInv, AnswersInv, NEW r \in Requests, UNCHANGED serverVars,
         Resolved(r) \/ Connected(r)
  PROVE  AnswersInv'
<1>1. PICK c \in Conns : connection[r] = c
  BY OnItsOwn DEF Resolved, Connected, InStep, UnderWay, Pending
<1>2. PICK next \in {"connect", "write"} : GoOn(r, next)
  BY DEF Resolved, Connected
<1>3. /\ step[r] \in {"resolve", "connect"} /\ UNCHANGED <<up, down, content>>
      /\ UNCHANGED <<serverVars, kind, endS, cut, listening, created, connection>>
  BY DEF Resolved, Connected, InStep, HandlerFrame
<1>4. PairTypes /\ Own(r) /\ OneRequest(c) /\ step \in [Requests -> Steps]
  BY DEF AnswersInv, ClientInv, PoolInv, PoolTypes
<1>5. /\ up[c] \in Seq(Parts) /\ down[c] \in Seq(Parts) /\ content[r] \in Seq(Parts)
      /\ up' = [up EXCEPT ![c] = up[c]] /\ down' = [down EXCEPT ![c] = down[c]]
      /\ content' = [content EXCEPT ![r] = content[r]]
  BY <1>3, <1>4 DEF PairTypes
<1>6. /\ UNCHANGED <<session, endC, server_gate>> /\ step' = [step EXCEPT ![r] = next]
      /\ next \in Pending /\ UnderWay(r)
  BY <1>2, <1>3 DEF GoOn, serverVars, server, Pending, UnderWay
<1>7. Dead(c)' <=> Dead(c)
  BY <1>3, <1>6 DEF Dead
<1>8. OneRequest(c)'
  <2>1. \A q \in Requests : Sender(q, c) => Sender(q, c)'
    BY <1>3, <1>4, <1>6, <1>7 DEF Sender
  <2>2. QED BY <1>3, <1>4, <1>6, <2>1 DEF OneRequest, BodyParts, PartsOf
<1>9. Talk(r)'
  <2>1. content[r] = <<>> /\ Idle(c)
    BY <1>1, <1>3 DEF AnswersInv, Talk
  <2>2. Idle(c)'
    BY <1>3, <1>6, <1>7, <2>1 DEF Idle, Silent, Busy
  <2>3. step'[r] \in {"connect", "write"} /\ connection'[r] = c
    BY <1>1, <1>3, <1>4, <1>6
  <2>4. QED BY <1>3, <2>1, <2>2, <2>3 DEF Talk
<1>10. Rising(content[r], r) /\ (~Broken(c) => Follows(content[r], r, 0))
  BY <1>1, <1>4 DEF Own
<1>11. QED BY <1>1, <1>2, <1>3, <1>4, <1>5, <1>6, <1>8, <1>9, <1>10, GoOnMove

\* An error ends the request whatever it was doing.
LEMMA FailMove ==
  ASSUME ClientInv, EndsInv, AnswersInv, NEW r \in Requests, UnderWay(r), Fails(r),
         UNCHANGED <<serverVars, kind, endS, cut, listening, created, connection, event_stream,
                     up, down, content>>
  PROVE  AnswersInv'
<1>1. PICK c \in Conns : connection[r] = c
  BY OnItsOwn
<1>2. PairTypes /\ Rising(content[r], r) /\ (~Broken(c) => Follows(content[r], r, 0))
  BY <1>1 DEF AnswersInv, Own
<1>3. /\ down[c] \in Seq(Parts) /\ content[r] \in Seq(Parts)
      /\ down' = [down EXCEPT ![c] = down[c]] /\ content' = [content EXCEPT ![r] = content[r]]
  BY <1>2 DEF PairTypes
<1>4. Callback(r, TRUE, "done")
  BY DEF Fails
<1>5. QED BY <1>1, <1>2, <1>3, <1>4, EndMove

\* The request goes out as a whole, on a connection where nothing is left.
LEMMA WrittenMove ==
  ASSUME ClientInv, EndsInv, AnswersInv, NEW r \in Requests, UNCHANGED serverVars, Written(r)
  PROVE  AnswersInv'
<1>1. step[r] = "write" /\ UnderWay(r)
  BY DEF Written, InStep, UnderWay, Pending
<1>2. PICK c \in Conns : connection[r] = c
  BY <1>1, OnItsOwn
<1>3. UNCHANGED <<serverVars, kind, endS, cut, listening, created, connection, event_stream,
                  down, content>>
  BY DEF Written, HandlerFrame
<1>4. CASE Fails(r) /\ UNCHANGED up
  BY <1>1, <1>3, <1>4, FailMove
<1>5. ASSUME c \notin endC, GoOn(r, "read"),
             up' = IF c \in endS THEN up ELSE [up EXCEPT ![c] = @ \o PartsOf(r, 1, BodyParts(r))]
      PROVE  AnswersInv'
  <2> DEFINE whole == PartsOf(r, 1, BodyParts(r))
             u == IF c \in endS THEN up[c] ELSE up[c] \o whole
  <2>1. /\ PairTypes /\ OneRequest(c) /\ step \in [Requests -> Steps]
        /\ Rising(content[r], r) /\ (~Broken(c) => Follows(content[r], r, 0))
    BY <1>2 DEF Own, AnswersInv, ClientInv, PoolInv, PoolTypes
  <2>2. kind[r].body \in {"none", "length", "chunked"} /\ kind[r].parts \in Nat
    BY <1>1, <2>1 DEF AnswersInv, PairTypes, Framing
  <2>3. whole \in Seq(Parts)
    BY <2>2, WholeRequest
  <2>4. content[r] = <<>> /\ Idle(c)
    BY <1>1, <1>2 DEF AnswersInv, Talk
  <2>5. /\ u \in Seq(Parts) /\ down[c] \in Seq(Parts) /\ content[r] \in Seq(Parts)
        /\ up' = [up EXCEPT ![c] = u] /\ down' = [down EXCEPT ![c] = down[c]]
        /\ content' = [content EXCEPT ![r] = content[r]] /\ up'[c] = u /\ down'[c] = down[c]
    BY <1>3, <1>5, <2>1, <2>3, ConcatProperties DEF PairTypes
  <2>6. /\ UNCHANGED <<session, endC, server_gate>> /\ step' = [step EXCEPT ![r] = "read"]
        /\ "read" \in Pending
    BY <1>3, <1>5 DEF GoOn, serverVars, server, Pending
  <2>7. step'[r] = "read" /\ connection'[r] = c
    BY <1>2, <1>3, <2>1, <2>6
  <2>8. Dead(c)' <=> Dead(c)
    BY <1>3, <2>6 DEF Dead
  <2>9. Talk(r)'
    <3>1. Silent(c) /\ Silent(c)'
      BY <2>4, <2>5, <2>6, <2>8 DEF Idle, Silent
    <3>2. /\ <<>> \o <<>> = <<>> /\ Len(<<>>) = 0 /\ kind'[r].parts \in Nat
          /\ content'[r] = <<>> /\ down'[c] = <<>>
      BY <2>2, <2>4, <2>5, <1>3 DEF Idle, Silent
    <3>3. Coming(c, r)'
      <4>1. Rising(content[r] \o down[c], r)' /\ Follows(down[c], r, Len(content[r]))'
        BY <3>2 DEF Rising, Follows
      <4>2. Came(c, r)' = 0
        BY <3>2 DEF Came
      <4>3. ASSUME ~Dead(c)'
            PROVE  /\ session'[c].send_queue = <<>> /\ session'[c].response = <<>>
                   /\ Dequeued(c, r)' = 0
        <5>1. session'[c].send_queue = <<>> /\ session'[c].response = <<>>
          BY <3>1, <4>3 DEF Silent
        <5>2. Dequeued(c, r)' = 0 - 0
          BY <4>2, <5>1 DEF Dequeued
        <5>3. QED BY <5>1, <5>2
      <4>4. 0 \in Nat /\ 0 + Len(<<>>) = 0 /\ 0 + Len(<<>>) + Len(<<>>) = 0
        BY <3>2
      <4>5. Follows(<<>>, r, 0)'
        BY <3>2 DEF Follows
      <4>6. QED BY <3>2, <4>1, <4>2, <4>3, <4>4, <4>5 DEF Coming, Follows
    <3>4. QED BY <1>3, <2>4, <2>7, <3>1, <3>3 DEF Talk
  <2>10. OneRequest(c)'
    <3>1. CASE ~Dead(c)
      <4>1. up[c] = <<>> /\ session[c].phase \notin {"content", "chunk"} /\ c \notin endS
        BY <2>4, <3>1 DEF Idle, Busy, Dead
      <4>2. u = whole
        BY <2>3, <4>1, ConcatEmptySeq
      <4>3. Sender(r, c)' /\ kind[r].body # "uncalled"
        BY <2>2, <2>7 DEF Sender
      <4>4. PartsOf(r, 1, BodyParts(r))' = whole
        BY <1>3 DEF PartsOf, BodyParts
      <4>5. QED BY <1>3, <2>5, <2>6, <4>1, <4>2, <4>3, <4>4 DEF OneRequest
    <3>2. CASE Dead(c)
      <4>1. c \in endS
        BY <1>5, <3>2 DEF Dead
      <4>2. QED BY <1>3, <2>6, <4>1 DEF OneRequest
    <3>3. QED BY <3>1, <3>2
  <2>11. QED BY <1>1, <1>2, <1>3, <1>5, <2>1, <2>5, <2>6, <2>9, <2>10, GoOnMove
<1>6. QED BY <1>2, <1>4, <1>5 DEF Written

\* What Take(r, n) leaves of an answer that comes on c.
Taken(r, c, n) == content[r] \o SubSeq(down[c], 1, n)
Untaken(c, n) == Drop(down[c], n)

\* Parts taken from the stream rise with those after them, and are the next of
\* the answer unless the connection was cut; behind all of them or the last
\* nothing is left.
LEMMA TakeNext ==
  ASSUME EndsInv, AnswersInv, NEW r \in Requests, UnderWay(r), NEW c \in Conns, connection[r] = c,
         Coming(c, r), NEW n \in 0..Len(down[c])
  PROVE  LET t == Taken(r, c, n) d == Untaken(c, n)
         IN /\ t \in Seq(Parts) /\ d \in Seq(Parts) /\ kind[r].parts \in Nat
            /\ Len(t) = Len(content[r]) + n /\ Len(d) = Len(down[c]) - n
            /\ Len(t) + Len(d) = Came(c, r) /\ Rising(t \o d, r) /\ Rising(t, r)
            /\ ~Broken(c) => Follows(t, r, 0) /\ Follows(d, r, Len(t))
            /\ Len(t) = kind[r].parts /\ t # <<>> =>
                 /\ t = Answer(r) /\ d = <<>>
                 /\ ~Dead(c) => session[c].send_queue = <<>> /\ session[c].response = <<>>
            /\ t # <<>> /\ t[Len(t)].part = kind[r].parts =>
                 d = <<>> /\ (~Broken(c) => Len(t) = kind[r].parts)
<1> DEFINE k == Len(content[r])
           l == Len(down[c])
           t == Taken(r, c, n)
           d == Untaken(c, n)
           q == session[c].send_queue
           p == session[c].response
<1>1. /\ content[r] \in Seq(Parts) /\ down[c] \in Seq(Parts) /\ kind[r] \in Framing
      /\ session[c] \in Session /\ Own(r) /\ Orderly(c)
  BY DEF AnswersInv, PairTypes
<1>2. kind[r].parts \in Nat /\ q \in Seq(Parts) /\ p \in Seq(Parts)
  BY <1>1 DEF Session, Framing
<1>3. k \in Nat /\ l \in Nat /\ n \in Nat /\ n <= l
  BY <1>1
<1>4. /\ SubSeq(down[c], 1, n) \in Seq(Parts) /\ Len(SubSeq(down[c], 1, n)) = n
      /\ d \in Seq(Parts) /\ Len(d) = l - n
  BY <1>1, SubSeqProperties DEF Untaken, Drop
<1>5. t \in Seq(Parts) /\ Len(t) = k + n
  <2> DEFINE v == SubSeq(down[c], 1, n)
             s == content[r]
  <2>1. v \in Seq(Parts) /\ Len(v) = n /\ s \in Seq(Parts)
    BY <1>1, <1>4
  <2>2. t = s \o v
    BY DEF Taken
  <2> HIDE DEF v, t, s
  <2>3. t \in Seq(Parts) /\ Len(t) = Len(s) + Len(v)
    BY <2>1, <2>2, ConcatProperties
  <2>4. QED BY <2>1, <2>3 DEF s
<1>6. t \o d = content[r] \o down[c] /\ Rising(t \o d, r)
  BY <1>1, CutAndJoin DEF Coming, Taken, Untaken
<1>7. Len(t) + Len(d) = k + l /\ Came(c, r) = k + l /\ t \o d \in Seq(Parts)
      /\ Len(t \o d) = k + l
  <2>1. Len(t) + Len(d) = k + l
    <3> DEFINE lt == Len(t)
               ld == Len(d)
    <3>1. lt = k + n /\ ld = l - n
      BY <1>4, <1>5
    <3> HIDE DEF k, l, lt, ld
    <3>2. lt + ld = k + l
      BY <1>3, <3>1
    <3>3. QED BY <3>2 DEF lt, ld
  <2>2. t \in Seq(Parts) /\ d \in Seq(Parts)
    BY <1>4, <1>5
  <2>3. Came(c, r) = k + l
    BY DEF Came
  <2> HIDE DEF t, d, k, l
  <2>4. t \o d \in Seq(Parts) /\ Len(t \o d) = Len(t) + Len(d)
    BY <2>2, ConcatProperties
  <2>5. QED BY <2>1, <2>3, <2>4
<1>8. Rising(t, r)
  BY <1>2, <1>4, <1>5, <1>6, <1>7, RisingFacts
<1>9. ASSUME ~Broken(c)
      PROVE  Follows(t, r, 0) /\ Follows(d, r, Len(t))
  <2>1. Follows(content[r], r, 0) /\ Follows(down[c], r, k)
    BY <1>1, <1>9 DEF Coming, Own
  <2>2. Follows(SubSeq(down[c], 1, n), r, k) /\ Follows(d, r, k + n)
    BY <1>1, <1>2, <1>3, <2>1, FollowsCut DEF Untaken
  <2> DEFINE v == SubSeq(down[c], 1, n)
  <2>3. v \in Seq(Parts) /\ Follows(v, r, 0 + k)
    BY <1>3, <1>4, <2>2
  <2> HIDE DEF v
  <2>4. Follows(content[r] \o v, r, 0)
    BY <1>1, <2>1, <2>3, FollowsJoin
  <2>5. QED BY <1>5, <2>2, <2>4 DEF Taken, v
<1>10. /\ t \o d # <<>> => k + l <= kind[r].parts
       /\ \A i \in 1..(k + l) : (t \o d)[i].part = kind[r].parts => i = k + l
  BY <1>2, <1>6, <1>7, RisingFacts
<1>11. t # <<>> => Len(t) >= 1 /\ t \o d # <<>> /\ (t \o d)[Len(t)] = t[Len(t)]
  <2>1. \A i \in 1..Len(t) : (t \o d)[i] = t[i]
    BY <1>4, <1>5, ConcatProperties
  <2>2. SUFFICES ASSUME t # <<>> PROVE Len(t) >= 1 /\ t \o d # <<>> /\ (t \o d)[Len(t)] = t[Len(t)]
    OBVIOUS
  <2>3. Len(t) >= 1 /\ Len(t) \in 1..Len(t)
    BY <1>5, <2>2
  <2>4. Len(t \o d) # 0 /\ Len(<<>>) = 0
    <3>1. d \in Seq(Parts) /\ Len(t \o d) = k + l /\ Len(t) + Len(d) = k + l /\ Len(<<>>) = 0
      BY <1>4, <1>7
    <3> HIDE DEF t, d, k, l
    <3>2. Len(t \o d) >= 1
      BY <2>3, <3>1
    <3>3. QED BY <3>1, <3>2
  <2>5. QED BY <2>1, <2>3, <2>4
<1>12. Len(d) = 0 => d = <<>>
  BY <1>4
<1>13. ASSUME Len(t) = kind[r].parts, t # <<>>
       PROVE  t = Answer(r) /\ d = <<>> /\ (~Dead(c) => q = <<>> /\ p = <<>>)
  <2>1. t = Answer(r)
    BY <1>2, <1>5, <1>8, <1>13, RisingFacts
  <2>2. Len(t) + Len(d) <= kind[r].parts /\ Len(t) \in Nat /\ Len(d) \in Nat
    <3>1. t \in Seq(Parts) /\ d \in Seq(Parts) /\ Len(t) + Len(d) <= kind[r].parts
      BY <1>4, <1>5, <1>7, <1>10, <1>11, <1>13
    <3> HIDE DEF t, d
    <3>2. QED BY <3>1
  <2>3. Len(d) = 0 /\ Came(c, r) = kind[r].parts /\ kind[r].parts >= 1
    <3>1. Len(t) >= 1 /\ Came(c, r) = Len(t) + Len(d) /\ Len(t) = kind[r].parts
      BY <1>7, <1>11, <1>13
    <3> HIDE DEF t, d
    <3>2. QED BY <2>2, <3>1
  <2>4. ASSUME ~Dead(c)
        PROVE  q = <<>> /\ p = <<>>
    <3>1. Dequeued(c, r) + Len(q) + Len(p) \in {0, kind[r].parts}
      BY <2>4 DEF Coming
    <3>2. /\ Dequeued(c, r) = kind[r].parts - (IF q # <<>> /\ session[c].writing = <<>> THEN 1 ELSE 0)
          /\ Len(q) \in Nat /\ Len(p) \in Nat /\ (Len(q) = 0 => q = <<>>) /\ (Len(p) = 0 => p = <<>>)
          /\ q # <<>> => p # <<>>
      BY <1>1, <1>2, <2>3 DEF Dequeued, Orderly
    <3> HIDE DEF q, p
    <3>3. CASE q = <<>>
      <4>1. Dequeued(c, r) = kind[r].parts - 0
        BY <3>2, <3>3
      <4>2. Len(p) = 0
        BY <1>2, <2>3, <3>1, <3>2, <4>1
      <4>3. QED BY <3>2, <3>3, <4>2
    <3>4. CASE q # <<>>
      <4>1. Len(q) >= 1 /\ Len(p) >= 1
        BY <3>2, <3>4
      <4>2. Dequeued(c, r) \in {kind[r].parts, kind[r].parts - 1}
        BY <1>2, <3>2
      <4>3. QED BY <1>2, <2>3, <3>1, <3>2, <4>1, <4>2
    <3>5. QED BY <3>3, <3>4
  <2>5. QED BY <1>12, <2>1, <2>3, <2>4
<1>14. ASSUME t # <<>>, t[Len(t)].part = kind[r].parts
       PROVE  d = <<>> /\ (~Broken(c) => Len(t) = kind[r].parts)
  <2>1. Len(t) \in 1..(k + l) /\ Len(t) \in Nat /\ Len(d) \in Nat
    <3>1. t \in Seq(Parts) /\ d \in Seq(Parts) /\ Len(t) >= 1 /\ Len(t) + Len(d) = k + l
      BY <1>4, <1>5, <1>7, <1>11, <1>14
    <3>2. Len(t) \in Nat /\ Len(d) \in Nat
      <4> HIDE DEF t, d
      <4>1. QED BY <3>1
    <3> HIDE DEF t, d, k, l
    <3>3. QED BY <1>3, <3>1, <3>2
  <2>2. Len(t) = k + l
    BY <1>10, <1>11, <1>14, <2>1
  <2>3. d = <<>>
    <3>1. Len(t) + Len(d) = k + l
      BY <1>7
    <3>2. Len(d) = 0
      <4> HIDE DEF t, d, k, l
      <4>1. QED BY <2>1, <2>2, <3>1
    <3>3. QED BY <1>12, <3>2
  <2>4. ASSUME ~Broken(c)
        PROVE  Len(t) = kind[r].parts
    <3>1. t[Len(t)] = Part(r, 0 + Len(t))
      BY <1>9, <1>11, <1>14, <2>1, <2>4 DEF Follows
    <3>2. Part(r, 0 + Len(t)).part = 0 + Len(t)
      BY DEF Part
    <3>3. QED BY <1>14, <2>1, <3>1, <3>2
  <2>5. QED BY <2>3, <2>4
<1>15. QED BY <1>2, <1>4, <1>5, <1>6, <1>7, <1>8, <1>9, <1>13, <1>14

\* The operation a request reads the rest of an answer with, by its framing.
Awaits(next, framing) ==
  <<next, framing>> \in {<<"content", "length">>, <<"chunk", "chunked">>,
                         <<"untilEof", "http/1.0">>, <<"events", "events">>}

\* Where the server has nothing to read, it has after a step of the client too.
LEMMA NothingToRead ==
  ASSUME AnswersInv, NEW c \in Conns, ~Dead(c) => ~Busy(c),
         UNCHANGED <<session, endS, server_gate, kind, up>>, endC \subseteq endC'
  PROVE  OneRequest(c)'
<1>1. CASE Dead(c)
  <2>1. \A q : Sender(q, c)'
    BY <1>1 DEF Sender, Dead
  <2>2. OneRequest(c)
    BY DEF AnswersInv
  <2>3. QED BY <2>1, <2>2 DEF OneRequest, BodyParts, PartsOf
<1>2. CASE ~Dead(c)
  BY <1>2 DEF OneRequest, Busy
<1>3. QED BY <1>1, <1>2

\* A request that has taken a part of its answer waits for the next.
LEMMA TakeTalks ==
  ASSUME EndsInv, AnswersInv, NEW r \in Requests, UnderWay(r), NEW c \in Conns, connection[r] = c,
         Coming(c, r), ~Dead(c) => ~Busy(c), NEW n \in 0..Len(down[c]),
         UNCHANGED <<session, endS, cut, server_gate, kind, up>>, endC \subseteq endC',
         connection'[r] = c, down'[c] = Untaken(c, n), content'[r] = Taken(r, c, n),
         Awaits(step'[r], kind[r].answer), Taken(r, c, n) # <<>>,
         step'[r] = "content" => Len(Taken(r, c, n)) = 1
  PROVE  Talk(r)' /\ OneRequest(c)'
<1> DEFINE t == Taken(r, c, n)
           d == Untaken(c, n)
<1>1. /\ Len(t) + Len(d) = Came(c, r) /\ Rising(t \o d, r)
      /\ ~Broken(c) => Follows(d, r, Len(t))
  BY TakeNext
<1>2. content'[r] = t /\ down'[c] = d /\ t # <<>>
  OBVIOUS
<1> HIDE DEF t, d
<1>3. (Dead(c) => Dead(c)') /\ (Broken(c) <=> Broken(c)')
  BY DEF Dead, Broken
<1>4. Coming(c, r)'
  <2>1. Came(c, r)' = Came(c, r)
    BY <1>1, <1>2 DEF Came
  <2>2. Dequeued(c, r)' = Dequeued(c, r)
    BY <2>1 DEF Dequeued
  <2>3. Rising(content[r] \o down[c], r)' /\ (~Broken(c)' => Follows(down[c], r, Len(content[r]))')
    BY <1>1, <1>2, <1>3 DEF Rising, Follows
  <2>4. ~Dead(c) => /\ Dequeued(c, r) \in Nat /\ Follows(session[c].send_queue, r, Dequeued(c, r))
                    /\ Follows(session[c].response, r, Dequeued(c, r) + Len(session[c].send_queue))
                    /\ Dequeued(c, r) + Len(session[c].send_queue) + Len(session[c].response)
                         \in {0, kind[r].parts}
    BY DEF Coming
  <2>5. c \in endS' \ cut' => Came(c, r) \in {0, kind[r].parts}
    BY DEF Coming
  <2>6. QED BY <1>3, <2>1, <2>2, <2>3, <2>4, <2>5 DEF Coming, Follows
<1>5. ~Dead(c)' => ~Busy(c)'
  BY <1>3 DEF Busy
<1>6. Talk(r)'
  BY <1>2, <1>4, <1>5 DEF Talk, Awaits, t
<1>7. QED BY <1>6, NothingToRead

\* An event keeps its connection, and the request its place on it.
LEMMA EventMove ==
  ASSUME ClientInv, EndsInv, AnswersInv, NEW r \in Requests, UnderWay(r), NEW c \in Conns,
         connection[r] = c, Callback(r, FALSE, "events"), c \in event_stream',
         UNCHANGED <<serverVars, kind, endS, cut, listening, created, connection, up>>,
         NEW d \in Seq(Parts), down' = [down EXCEPT ![c] = d],
         NEW t \in Seq(Parts), content' = [content EXCEPT ![r] = t],
         Rising(t, r), ~Broken(c) => Follows(t, r, 0), OneRequest(c)', Talk(r)'
  PROVE  AnswersInv'
<1>1. /\ UNCHANGED <<session, server_gate>> /\ step' = [step EXCEPT ![r] = "events"]
      /\ callbacks' = [callbacks EXCEPT ![r] = Append(@, FALSE)] /\ endC \subseteq endC'
  BY DEF Callback, serverVars, server
<1>2. PairTypes /\ step \in [Requests -> Steps]
  BY DEF AnswersInv, ClientInv, PoolInv, PoolTypes
<1>3. step'[r] = "events" /\ step[r] # "new"
  BY <1>1, <1>2 DEF UnderWay, Pending
<1>4. callbacks' \in [Requests -> Seq(BOOLEAN)]
  <2>1. callbacks[r] \in Seq(BOOLEAN) /\ callbacks \in [Requests -> Seq(BOOLEAN)]
    BY <1>2 DEF PairTypes
  <2>2. Append(callbacks[r], FALSE) \in Seq(BOOLEAN)
    BY <2>1, AppendProperties
  <2>3. QED BY <1>1, <2>1, <2>2
<1>5. content'[r] = t
  BY <1>2 DEF PairTypes
<1>6. \A e \in Conns \ {c} : UNCHANGED <<up[e], down[e]>>
  BY <1>2 DEF PairTypes
<1>7. \A q \in Requests \ {r} : UNCHANGED <<step[q], connection[q], content[q], callbacks[q]>>
  BY <1>1, <1>2 DEF PairTypes
<1>8. PairTypes'
  <2>1. /\ content' \in [Requests -> Seq(Parts)] /\ down' \in [Conns -> Seq(Parts)]
        /\ up' = up /\ session' = session /\ UNCHANGED <<server_gate, listening, kind>>
    BY <1>1, <1>2 DEF PairTypes
  <2>2. QED BY <1>2, <1>4, <2>1 DEF PairTypes
<1>9. /\ connections' \subseteq connections
      /\ in_use' = in_use
  BY PrunedFacts DEF Callback, GivenBack
<1>10. \A e \in Conns : Vacant(e)' => Vacant(e)
  BY <1>9 DEF Vacant
<1>11. Ended(r)'
  BY <1>3 DEF Ended, Completed
<1>12. Own(r)'
  BY <1>1, <1>5 DEF Own, Follows, Rising, Broken
<1>13. /\ UNCHANGED <<session, endS, cut, server_gate, kind>> /\ step'[r] # "new"
       /\ UnderWay(r) => connection[r] = c /\ OneRequest(c)'
       /\ \A e \in Conns : Vacant(e)' => Vacant(e) \/ Idle(e)'
  BY <1>1, <1>3, <1>10
<1>14. QED BY <1>1, <1>3, <1>6, <1>7, <1>8, <1>11, <1>12, <1>13, ClientMove

\* A header says how the rest comes, or the request ends.
LEMMA HeaderReadMove ==
  ASSUME ClientInv, EndsInv, AnswersInv, NEW r \in Requests, UNCHANGED serverVars, HeaderRead(r)
  PROVE  AnswersInv'
<1>1. step[r] = "read" /\ UnderWay(r)
  BY DEF HeaderRead, InStep, UnderWay, Pending
<1>2. PICK c \in Conns : connection[r] = c
  BY <1>1, OnItsOwn
<1> DEFINE t == Taken(r, c, 1)
           d == Untaken(c, 1)
<1>3. /\ UNCHANGED <<serverVars, kind, endS, cut, listening, created, connection, up>>
      /\ down[c] # <<>>
  BY <1>2 DEF HeaderRead, HandlerFrame
<1>4. /\ PairTypes /\ content[r] = <<>> /\ Coming(c, r) /\ (~Dead(c) => ~Busy(c))
      /\ step \in [Requests -> Steps]
  BY <1>1, <1>2, <1>3 DEF AnswersInv, Talk, Silent, ClientInv, PoolInv, PoolTypes
<1>5. /\ 1 \in 0..Len(down[c]) /\ Len(content[r]) = 0
      /\ down[c] \in Seq(Parts) /\ kind[r].parts \in Nat
      /\ kind[r].answer \in {"length", "chunked", "http/1.0", "events", "malformed", "bad length"}
  <2>1. Len(content[r]) = 0
    BY <1>4
  <2>2. down[c] \in Seq(Parts) /\ 1 \in 0..Len(down[c])
    BY <1>3, <1>4 DEF PairTypes
  <2>3. /\ kind[r].parts \in Nat
        /\ kind[r].answer \in {"length", "chunked", "http/1.0", "events", "malformed", "bad length"}
    BY <1>4 DEF PairTypes, Framing, AnswersInv, NeverCloses
  <2>4. QED BY <2>1, <2>2, <2>3
<1>6. /\ t \in Seq(Parts) /\ d \in Seq(Parts) /\ Len(t) = 1 /\ t # <<>>
      /\ Rising(t, r) /\ (~Broken(c) => Follows(t, r, 0))
      /\ Len(t) = kind[r].parts =>
           /\ t = Answer(r) /\ d = <<>>
           /\ ~Dead(c) => session[c].send_queue = <<>> /\ session[c].response = <<>>
  <2>1. /\ t \in Seq(Parts) /\ d \in Seq(Parts) /\ Len(t) = Len(content[r]) + 1
        /\ Rising(t, r) /\ (~Broken(c) => Follows(t, r, 0))
        /\ Len(t) = kind[r].parts /\ t # <<>> =>
             /\ t = Answer(r) /\ d = <<>>
             /\ ~Dead(c) => session[c].send_queue = <<>> /\ session[c].response = <<>>
    BY <1>1, <1>2, <1>4, <1>5, TakeNext
  <2> HIDE DEF t, d
  <2>2. Len(content[r]) = 0
    BY <1>5
  <2>3. Len(t) = 1
    BY <2>1, <2>2
  <2>4. t # <<>>
    BY <2>3
  <2>5. QED BY <2>1, <2>3, <2>4
<1>7. content' = [content EXCEPT ![r] = t] /\ down' = [down EXCEPT ![c] = d]
  <2>1. Take(r, 1)
    <3>1. kind[r].answer # "close"
      BY <1>5
    <3>2. PICK n \in 1..1 : Take(r, n)
      BY <3>1 DEF HeaderRead
    <3>3. QED BY <3>2
  <2>2. QED BY <1>2, <2>1 DEF Take, Taken, Untaken
<1>8. content'[r] = t /\ down'[c] = d
  BY <1>4, <1>7 DEF PairTypes
<1>9. up[c] \in Seq(Parts) /\ up' = [up EXCEPT ![c] = up[c]]
  BY <1>3, <1>4 DEF PairTypes
<1> HIDE DEF t, d
<1>10. CASE NoHeader(r)
  <2>1. Callback(r, TRUE, "done") /\ UNCHANGED event_stream
    BY <1>10 DEF HeaderRead, Fails
  <2>2. QED BY <1>1, <1>2, <1>3, <1>6, <1>7, <2>1, EndMove
<1>11. ASSUME NEW next \in {"content", "chunk", "untilEof"}, GoOn(r, next),
              Awaits(next, kind[r].answer)
       PROVE  AnswersInv'
  <2>1. step'[r] = next /\ connection'[r] = c /\ next \in Pending
        /\ UNCHANGED <<session, endS, cut, server_gate, kind, up, endC>>
    BY <1>2, <1>3, <1>4, <1>11 DEF GoOn, serverVars, server, Pending
  <2>2. Talk(r)' /\ OneRequest(c)'
    BY <1>1, <1>2, <1>4, <1>5, <1>6, <1>8, <1>11, <2>1, TakeTalks DEF t, d
  <2>3. QED BY <1>1, <1>2, <1>3, <1>6, <1>7, <1>9, <1>11, <2>1, <2>2, GoOnMove
<1>12. CASE ~NoHeader(r) /\ kind[r].answer = "events"
  <2>1. Callback(r, FALSE, "events") /\ c \in event_stream'
    BY <1>2, <1>12 DEF HeaderRead
  <2>2. /\ step'[r] = "events" /\ connection'[r] = c
        /\ UNCHANGED <<session, endS, cut, server_gate, kind, up>> /\ endC \subseteq endC'
    BY <1>2, <1>3, <1>4, <2>1 DEF Callback, serverVars, server
  <2>3. Talk(r)' /\ OneRequest(c)'
    BY <1>1, <1>2, <1>4, <1>5, <1>6, <1>8, <1>12, <2>2, TakeTalks DEF t, d, Awaits
  <2>4. QED BY <1>1, <1>2, <1>3, <1>6, <1>7, <2>1, <2>3, EventMove
<1>13. CASE ~NoHeader(r) /\ kind[r].answer = "bad length"
  <2>1. GoOn(r, "thrown")
    BY <1>13 DEF HeaderRead, Throws, GoOn
  <2>2. OneRequest(c)'
    BY <1>3, <1>4, <2>1, NothingToRead DEF GoOn, serverVars, server
  <2>3. step'[r] = "thrown"
    BY <1>4, <2>1 DEF GoOn
  <2>4. Talk(r)'
    BY <2>3 DEF Talk
  <2>5. QED BY <1>1, <1>2, <1>3, <1>6, <1>7, <1>9, <2>1, <2>2, <2>4, GoOnMove
<1>14. CASE ~NoHeader(r) /\ kind[r].answer = "length" /\ kind[r].parts > 1
  BY <1>11, <1>14 DEF HeaderRead, Awaits
<1>15. CASE ~NoHeader(r) /\ kind[r].answer \in {"chunked", "http/1.0"}
  BY <1>11, <1>15 DEF HeaderRead, Awaits
<1>16. CASE ~NoHeader(r) /\ kind[r].answer = "length" /\ ~(kind[r].parts > 1)
  <2>1. Callback(r, FALSE, "done") /\ UNCHANGED event_stream
    BY <1>16 DEF HeaderRead, Succeeds
  <2>2. Len(t) = kind[r].parts
    <3>1. Len(t) <= kind[r].parts
      BY <1>5, <1>6, RisingFacts
    <3>2. QED BY <1>5, <1>6, <1>16, <3>1
  <2>3. QED BY <1>1, <1>2, <1>3, <1>4, <1>6, <1>7, <2>1, <2>2, EndMove
<1>17. kind[r].answer = "malformed" => NoHeader(r)
  BY DEF NoHeader
<1>18. QED BY <1>5, <1>10, <1>12, <1>13, <1>14, <1>15, <1>16, <1>17

\* A request whose header was read waits for the rest of what comes.
LEMMA ReadingRest ==
  ASSUME ClientInv, EndsInv, AnswersInv, NEW r \in Requests, NEW c \in Conns, connection[r] = c,
         step[r] \in {"content", "chunk", "untilEof", "events"}
  PROVE  /\ Coming(c, r) /\ (~Dead(c) => ~Busy(c)) /\ UnderWay(r)
         /\ Awaits(step[r], kind[r].answer) /\ (step[r] = "content" => Len(content[r]) = 1)
         /\ down[c] \in Seq(Parts) /\ Len(down[c]) \in Nat /\ Len(content[r]) \in Nat
         /\ content[r] # <<>> /\ kind[r].parts \in Nat /\ step \in [Requests -> Steps]
         /\ Len(content[r]) + Len(down[c]) <= kind[r].parts
<1>1. PairTypes /\ Talk(r) /\ step \in [Requests -> Steps]
  BY DEF AnswersInv, ClientInv, PoolInv, PoolTypes
<1>2. /\ down[c] \in Seq(Parts) /\ content[r] \in Seq(Parts) /\ kind[r].parts \in Nat
  BY <1>1 DEF PairTypes, Framing
<1>3. /\ Coming(c, r) /\ (~Dead(c) => ~Busy(c)) /\ content[r] # <<>>
      /\ Awaits(step[r], kind[r].answer) /\ (step[r] = "content" => Len(content[r]) = 1)
  BY <1>1 DEF Talk, Awaits
<1>4. Len(content[r]) + Len(down[c]) <= kind[r].parts
  <2> DEFINE s == content[r] \o down[c]
  <2>1. /\ s \in Seq(Parts) /\ Len(s) = Len(content[r]) + Len(down[c])
        /\ Len(content[r]) \in Nat \ {0} /\ Len(down[c]) \in Nat /\ Rising(s, r)
    BY <1>2, <1>3, ConcatProperties, EmptySeq DEF Coming
  <2> HIDE DEF s
  <2>2. PICK k \in Nat \ {0}, m \in Nat : k = Len(content[r]) /\ m = Len(down[c])
    BY <2>1
  <2>6. k + m # 0
    OBVIOUS
  <2>3. Len(s) = k + m /\ k + m # 0
    BY <2>1, <2>2, <2>6
  <2>4. s # <<>>
    BY <2>3
  <2>5. QED BY <1>2, <2>1, <2>4, RisingFacts
<1>5. Len(down[c]) \in Nat /\ Len(content[r]) \in Nat
  BY <1>2
<1>6. UnderWay(r)
  BY DEF UnderWay, Pending
<1>7. QED BY <1>1, <1>2, <1>3, <1>4, <1>5, <1>6

\* A request that has taken the last part of its answer is done.
LEMMA LastTaken ==
  ASSUME ClientInv, EndsInv, AnswersInv, NEW r \in Requests, NEW c \in Conns, connection[r] = c,
         step[r] \in {"content", "chunk"}, Succeeds(r),
         UNCHANGED <<serverVars, kind, endS, cut, listening, created, connection, event_stream, up>>,
         NEW n \in 0..Len(down[c]), Take(r, n),
         \/ Len(Taken(r, c, n)) = kind[r].parts
         \/ /\ kind[r].answer = "chunked"
            /\ Taken(r, c, n)[Len(Taken(r, c, n))].part = kind[r].parts
  PROVE  AnswersInv'
<1> DEFINE t == Taken(r, c, n)
           d == Untaken(c, n)
<1>1. /\ Coming(c, r) /\ UnderWay(r) /\ (~Dead(c) => ~Busy(c)) /\ (Broken(c) => Dead(c))
      /\ content[r] # <<>> /\ Len(content[r]) \in Nat
  BY ReadingRest, EndsFacts
<1>2. /\ t \in Seq(Parts) /\ d \in Seq(Parts) /\ Rising(t, r) /\ (~Broken(c) => Follows(t, r, 0))
      /\ Len(t) = Len(content[r]) + n
      /\ Len(t) = kind[r].parts /\ t # <<>> =>
           /\ t = Answer(r) /\ d = <<>>
           /\ ~Dead(c) => session[c].send_queue = <<>> /\ session[c].response = <<>>
      /\ t # <<>> /\ t[Len(t)].part = kind[r].parts =>
           d = <<>> /\ (~Broken(c) => Len(t) = kind[r].parts)
  BY <1>1, TakeNext
<1>3. content' = [content EXCEPT ![r] = t] /\ down' = [down EXCEPT ![c] = d]
  BY DEF Take, Taken, Untaken
<1>4. \/ Len(t) = kind[r].parts
      \/ kind[r].answer = "chunked" /\ t[Len(t)].part = kind[r].parts
  OBVIOUS
<1> HIDE DEF t, d
<1>5. t # <<>>
  <2>1. Len(content[r]) # 0
    BY <1>1, EmptySeq DEF AnswersInv, PairTypes
  <2>2. Len(t) # 0
    BY <1>1, <1>2, <2>1
  <2>3. QED BY <2>2
<1>6. /\ ~Broken(c) \/ kind[r].answer # "chunked" => t = Answer(r)
      /\ d = <<>>
      /\ ~Dead(c) => session[c].send_queue = <<>> /\ session[c].response = <<>>
  BY <1>1, <1>2, <1>4, <1>5
<1>7. Callback(r, FALSE, "done")
  BY DEF Succeeds
<1>8. kind[r].answer # "http/1.0"
  BY ReadingRest DEF Awaits
<1>9. QED BY <1>1, <1>2, <1>3, <1>6, <1>7, EndMove

\* The rest of Content-Length comes at once, and is the last.
LEMMA ContentReadMove ==
  ASSUME ClientInv, EndsInv, AnswersInv, NEW r \in Requests, UNCHANGED serverVars, ContentRead(r)
  PROVE  AnswersInv'
<1>1. step[r] = "content" /\ UnderWay(r)
  BY DEF ContentRead, InStep, UnderWay, Pending
<1>2. PICK c \in Conns : connection[r] = c
  BY <1>1, OnItsOwn
<1> DEFINE n == kind[r].parts - 1
<1>3. n <= Len(down[c]) /\ Take(r, n) /\ Succeeds(r)
  BY <1>2 DEF ContentRead
<1>4. UNCHANGED <<serverVars, kind, endS, cut, listening, created, connection, event_stream, up>>
  BY DEF ContentRead, ReadFrame, HandlerFrame
<1>5. /\ Len(content[r]) = 1 /\ Len(down[c]) \in Nat /\ kind[r].parts \in Nat
      /\ Len(content[r]) + Len(down[c]) <= kind[r].parts /\ Coming(c, r)
  BY <1>1, <1>2, ReadingRest
<1>6. n \in 0..Len(down[c]) /\ Len(content[r]) + n = kind[r].parts
  BY <1>3, <1>5
<1> HIDE DEF n
<1>7. Len(Taken(r, c, n)) = kind[r].parts
  BY <1>1, <1>2, <1>5, <1>6, TakeNext
<1>8. QED BY <1>1, <1>2, <1>3, <1>4, <1>6, <1>7, LastTaken

\* A chunk is taken, and the last of them ends the request.
LEMMA ChunkReadMove ==
  ASSUME ClientInv, EndsInv, AnswersInv, NEW r \in Requests, UNCHANGED serverVars, ChunkRead(r)
  PROVE  AnswersInv'
<1>1. step[r] = "chunk" /\ UnderWay(r)
  BY DEF ChunkRead, InStep, UnderWay, Pending
<1>2. PICK c \in Conns : connection[r] = c
  BY <1>1, OnItsOwn
<1>3. /\ Coming(c, r) /\ (~Dead(c) => ~Busy(c)) /\ Awaits(step[r], kind[r].answer)
      /\ down[c] \in Seq(Parts) /\ Len(content[r]) \in Nat /\ step \in [Requests -> Steps]
  BY <1>1, <1>2, ReadingRest
<1>4. down[c] # <<>> /\ Take(r, 1)
  BY <1>2 DEF ChunkRead
<1>5. UNCHANGED <<serverVars, kind, endS, cut, listening, created, connection, event_stream, up>>
  BY DEF ChunkRead, ReadFrame, HandlerFrame
<1>6. 1 \in 0..Len(down[c])
  BY <1>3, <1>4
<1> DEFINE t == Taken(r, c, 1)
           d == Untaken(c, 1)
<1>7. /\ t \in Seq(Parts) /\ d \in Seq(Parts) /\ Len(t) = Len(content[r]) + 1
      /\ Rising(t, r) /\ (~Broken(c) => Follows(t, r, 0))
  BY <1>1, <1>2, <1>3, <1>6, TakeNext
<1>8. t # <<>> /\ t[Len(t)] = down[c][1]
  <2>1. content[r] \in Seq(Parts)
    BY DEF AnswersInv, PairTypes
  <2>2. /\ SubSeq(down[c], 1, 1) \in Seq(Parts) /\ Len(SubSeq(down[c], 1, 1)) = 1
        /\ SubSeq(down[c], 1, 1)[1] = down[c][1]
    BY <1>3, <1>6, SubSeqProperties
  <2>3. PICK v \in Seq(Parts) : v = SubSeq(down[c], 1, 1)
    BY <2>2
  <2>4. PICK k \in Nat : k = Len(content[r])
    BY <1>3
  <2>5. t = content[r] \o v
    BY <2>3 DEF Taken
  <2> HIDE DEF t
  <2>6. Len(v) = 1 /\ v[1] = down[c][1]
    BY <2>2, <2>3
  <2>7. Len(t) = k + 1 /\ k + 1 \in 1..(k + 1) /\ ~(k + 1 <= k) /\ (k + 1) - k = 1
    BY <1>7, <2>4
  <2>8. t[k + 1] = v[(k + 1) - k]
    BY <2>1, <2>3, <2>4, <2>5, <2>6, <2>7, ConcatProperties
  <2>9. t # <<>>
    BY <2>7
  <2>10. QED BY <2>6, <2>7, <2>8, <2>9
<1>9. CASE down[c][1].part = kind[r].parts
  <2>1. Succeeds(r)
    BY <1>2, <1>9 DEF ChunkRead
  <2>2. Taken(r, c, 1)[Len(Taken(r, c, 1))].part = kind[r].parts
    BY <1>8, <1>9
  <2>3. kind[r].answer = "chunked"
    BY <1>1, <1>3 DEF Awaits
  <2>4. QED BY <1>1, <1>2, <1>4, <1>5, <1>6, <2>1, <2>2, <2>3, LastTaken
<1>10. CASE down[c][1].part # kind[r].parts
  <2>1. GoOn(r, "chunk")
    BY <1>2, <1>10 DEF ChunkRead
  <2>2. content' = [content EXCEPT ![r] = t] /\ down' = [down EXCEPT ![c] = d]
    BY <1>2, <1>4 DEF Take, Taken, Untaken
  <2>3. content'[r] = t /\ down'[c] = d
    BY <2>2 DEF AnswersInv, PairTypes
  <2>4. /\ step'[r] = "chunk" /\ step[r] = "chunk" /\ connection'[r] = c
        /\ UNCHANGED <<session, endS, cut, server_gate, kind, up, endC>>
    BY <1>1, <1>2, <1>3, <1>5, <2>1 DEF GoOn, serverVars, server
  <2>5. Talk(r)' /\ OneRequest(c)'
    <3>1. Awaits(step'[r], kind[r].answer) /\ endC \subseteq endC'
      BY <1>3, <2>4
    <3>2. step'[r] # "content"
      BY <2>4
    <3>3. QED BY <1>1, <1>2, <1>3, <1>6, <1>8, <2>3, <2>4, <3>1, <3>2, TakeTalks
  <2>6. up[c] \in Seq(Parts) /\ up' = [up EXCEPT ![c] = up[c]]
    BY <1>5 DEF AnswersInv, PairTypes
  <2> HIDE DEF t, d
  <2>7. "chunk" \in Pending
    BY DEF Pending
  <2>8. QED BY <1>1, <1>2, <1>5, <1>7, <2>1, <2>2, <2>5, <2>6, <2>7, GoOnMove
<1>11. QED BY <1>9, <1>10

\* An answer without length ends with its connection: it is whole if neither a
\* timer nor a stop was the first to close that.
LEMMA UntilEofMove ==
  ASSUME ClientInv, EndsInv, AnswersInv, NEW r \in Requests, UNCHANGED serverVars, UntilEof(r)
  PROVE  AnswersInv'
<1>1. step[r] = "untilEof" /\ UnderWay(r)
  BY DEF UntilEof, InStep, UnderWay, Pending
<1>2. PICK c \in Conns : connection[r] = c
  BY <1>1, OnItsOwn
<1>3. UNCHANGED <<serverVars, kind, endS, cut, listening, created, connection, event_stream, up>>
  BY DEF UntilEof, ReadFrame, HandlerFrame
<1>4. /\ Coming(c, r) /\ Awaits(step[r], kind[r].answer) /\ content[r] # <<>>
      /\ down[c] \in Seq(Parts) /\ Len(down[c]) \in Nat /\ Len(content[r]) \in Nat
  BY <1>1, <1>2, ReadingRest
<1>5. CASE Callback(r, TRUE, "done") /\ UNCHANGED <<content, down>>
  BY <1>1, <1>3, <1>5, FailMove DEF Fails
<1>6. CASE "eof" \in Errors(c) /\ Take(r, Len(down[c])) /\ Callback(r, FALSE, "done")
  <2> DEFINE n == Len(down[c])
             t == Taken(r, c, n)
             d == Untaken(c, n)
  <2>1. n \in 0..Len(down[c])
    BY <1>4
  <2>2. /\ t \in Seq(Parts) /\ d \in Seq(Parts) /\ Len(d) = Len(down[c]) - n
        /\ Len(t) = Len(content[r]) + n /\ Rising(t, r) /\ (~Broken(c) => Follows(t, r, 0))
        /\ Len(t) = kind[r].parts /\ t # <<>> => t = Answer(r)
    BY <1>1, <1>2, <1>4, <2>1, TakeNext
  <2>3. content' = [content EXCEPT ![r] = t] /\ down' = [down EXCEPT ![c] = d]
    BY <1>2, <1>6 DEF Take, Taken, Untaken
  <2>4. d = <<>>
    <3>1. Len(down[c]) - n = 0
      BY <1>4
    <3> HIDE DEF d
    <3>2. QED BY <2>2, <3>1
  <2>5. Dead(c) /\ kind[r].answer = "http/1.0"
    BY <1>1, <1>4, <1>6 DEF Errors, Dead, Awaits
  <2>6. c \notin cut => Came(c, r) \in {0, kind[r].parts}
    BY <1>1, <1>2, <1>4, <2>5, EndsFacts DEF Coming, Dead
  <2>7. Len(t) = Came(c, r)
    BY <2>2 DEF Came
  <2>8. Len(t) # 0 /\ t # <<>>
    <3>1. Len(content[r]) # 0
      BY <1>4, EmptySeq DEF AnswersInv, PairTypes
    <3>2. Len(content[r]) \in Nat /\ n \in Nat
      BY <1>4
    <3> HIDE DEF t, n
    <3>3. Len(t) # 0
      BY <2>2, <3>1, <3>2
    <3>4. QED BY <3>3
  <2> HIDE DEF t, d, n
  <2>9. c \notin cut => t = Answer(r)
    BY <2>2, <2>6, <2>7, <2>8
  <2>10. QED BY <1>1, <1>2, <1>3, <1>6, <2>2, <2>3, <2>4, <2>5, <2>9, EndMove
<1>7. QED
  <2>1. PICK ec \in Errors(c) :
          /\ IF ec = "eof" THEN Take(r, Len(down[c])) ELSE UNCHANGED <<content, down>>
          /\ Callback(r, ec # "eof", "done")
    BY <1>2 DEF UntilEof
  <2>2. CASE ec = "eof"
    BY <1>6, <2>1, <2>2
  <2>3. CASE ec # "eof"
    <3>1. (ec # "eof") = TRUE
      BY <2>3
    <3>2. QED BY <1>5, <2>1, <2>3, <3>1
  <2>4. QED BY <2>2, <2>3

\* An event is taken, and the next waited for.
LEMMA EventReadMove ==
  ASSUME ClientInv, EndsInv, AnswersInv, NEW r \in Requests, UNCHANGED serverVars, EventRead(r)
  PROVE  AnswersInv'
<1>1. step[r] = "events" /\ UnderWay(r)
  BY DEF EventRead, InStep, UnderWay, Pending
<1>2. PICK c \in Conns : connection[r] = c
  BY <1>1, OnItsOwn
<1> DEFINE t == Taken(r, c, 1)
           d == Untaken(c, 1)
<1>3. /\ Coming(c, r) /\ (~Dead(c) => ~Busy(c)) /\ Awaits(step[r], kind[r].answer)
      /\ content[r] # <<>> /\ Len(content[r]) \in Nat /\ down[c] \in Seq(Parts) /\ step \in [Requests -> Steps]
  BY <1>1, <1>2, ReadingRest
<1>4. down[c] # <<>> /\ Take(r, 1) /\ Callback(r, FALSE, "events")
  BY <1>2 DEF EventRead
<1>5. UNCHANGED <<serverVars, kind, endS, cut, listening, created, connection, event_stream, up>>
  BY DEF EventRead, ReadFrame, HandlerFrame
<1>6. c \in event_stream'
  BY <1>1, <1>2, <1>5 DEF ClientInv, PoolInv, Uses
<1>7. 1 \in 0..Len(down[c])
  BY <1>3, <1>4
<1>8. /\ t \in Seq(Parts) /\ d \in Seq(Parts) /\ Len(t) = Len(content[r]) + 1
      /\ Rising(t, r) /\ (~Broken(c) => Follows(t, r, 0))
  BY <1>1, <1>2, <1>3, <1>7, TakeNext
<1>9. content' = [content EXCEPT ![r] = t] /\ down' = [down EXCEPT ![c] = d]
  BY <1>2, <1>4 DEF Take, Taken, Untaken
<1>10. content'[r] = t /\ down'[c] = d
  BY <1>9 DEF AnswersInv, PairTypes
<1>11. /\ step'[r] = "events" /\ connection'[r] = c
       /\ UNCHANGED <<session, endS, cut, server_gate, kind, up>> /\ endC \subseteq endC'
  BY <1>2, <1>3, <1>4, <1>5 DEF Callback, serverVars, server
<1>12. Talk(r)' /\ OneRequest(c)'
  <2>1. Awaits(step'[r], kind[r].answer) /\ step'[r] # "content"
    BY <1>1, <1>3, <1>11
  <2>2. t # <<>>
    <3>1. PICK k \in Nat : k = Len(content[r])
      BY <1>3
    <3> HIDE DEF t
    <3>2. Len(t) = k + 1 /\ k + 1 # 0
      BY <1>8, <3>1
    <3>3. QED BY <3>2
  <2>3. QED BY <1>1, <1>2, <1>3, <1>7, <1>10, <1>11, <2>1, <2>2, TakeTalks
<1> HIDE DEF t, d
<1>13. QED BY <1>1, <1>2, <1>4, <1>5, <1>6, <1>8, <1>9, <1>12, EventMove

\* The errors that end a request whose connection was set up, or not.
LEMMA FailsMove ==
  ASSUME ClientInv, EndsInv, AnswersInv, NEW r \in Requests, UNCHANGED serverVars,
         BodyFails(r) \/ ConnectFails(r)
  PROVE  AnswersInv'
<1>1. UnderWay(r) /\ Fails(r)
  BY DEF BodyFails, ConnectFails, InStep, UnderWay, Pending
<1>2. UNCHANGED <<kind, endS, cut, listening, created, connection, event_stream, up, down, content>>
  BY DEF BodyFails, ConnectFails, ReadFrame, HandlerFrame
<1>3. QED BY <1>1, <1>2, FailMove

\* A connection that was never made is one where nothing is left.
LEMMA NextConnection ==
  ASSUME ClientInv, ClientInv', EndsInv, AnswersInv, created' = created + 1
  PROVE  /\ created + 1 \in Conns /\ Vacant(created + 1) /\ Idle(created + 1)
         /\ created \in Nat /\ \A e \in Conns : e > created' => Vacant(e)
<1>1. created \in Nat /\ created' \in Nat
  BY DEF ClientInv, PoolInv, PoolTypes
<1>2. Conns' = Conns /\ MaxConns' = MaxConns
  BY DEF Conns, MaxConns
<1>3. created' \in 0..MaxConns
  <2>1. (ClientInv => created \in 0..MaxConns)'
    BY CreatedBounded, PTL
  <2>2. QED BY <1>2, <2>1
<1>4. MaxConns \in Nat
  <2>1. Cardinality(Requests) \in Nat
    BY RequestSetsFinite
  <2>2. QED BY <2>1 DEF MaxConns
<1>5. created + 1 \in Conns
  BY <1>1, <1>3, <1>4 DEF Conns
<1>6. Vacant(created + 1) /\ \A e \in Conns : e > created' => Vacant(e)
  BY <1>1, <1>4 DEF Vacant, Conns
<1>7. QED BY <1>1, <1>5, <1>6 DEF AnswersInv

\* A request for which nothing came.
LEMMA NothingCame ==
  ASSUME NEW r \in Requests, PairTypes, content'[r] = <<>>, UNCHANGED kind
  PROVE  Own(r)'
<1>1. kind[r].parts \in Nat /\ 0 <= kind[r].parts
  <2>1. kind[r].parts \in Nat
    BY DEF PairTypes, Framing
  <2>2. QED BY <2>1
<1>2. Follows(<<>>, r, 0)
  BY <1>1, FollowsNone
<1>3. Follows(content[r], r, 0)' /\ Rising(content[r], r)'
  BY <1>2 DEF Follows, Rising
<1>4. QED BY <1>3 DEF Own

\* A request begins on a connection where nothing is left.
LEMMA RequestMove ==
  ASSUME ClientInv, EndsInv, AnswersInv, NEW r \in Requests, UNCHANGED serverVars, Request(r)
  PROVE  AnswersInv'
<1>1. step[r] = "new" /\ kind[r].body # "uncalled" /\ ~UnderWay(r)
  BY DEF Request, UnderWay, Pending
<1>2. /\ UNCHANGED <<up, down, kind, endC, endS, cut, listening, session, server_gate, content, callbacks>>
  BY DEF Request, netVars, serverVars, server
<1>3. PICK c : /\ Claim(r, c)
               /\ \/ c \in Available /\ created' = created
                  \/ c = created + 1 /\ created' = created + 1
  BY DEF Request
<1>4. /\ c \in Conns /\ Idle(c)
      /\ created \in Nat /\ created' >= created
  <2>1. CASE c \in Available /\ created' = created
    <3>1. created \in 0..MaxConns /\ created \in Nat /\ c \in 1..created
      BY <2>1, CreatedBounded DEF Available, ClientInv, PoolInv, PoolTypes
    <3>2. MaxConns \in Nat
      <4>1. Cardinality(Requests) \in Nat
        BY RequestSetsFinite
      <4>2. QED BY <4>1 DEF MaxConns
    <3>3. c \in Conns
      BY <3>1, <3>2 DEF Conns
    <3>4. Vacant(c)
      BY <2>1 DEF Vacant, Available
    <3>5. QED BY <2>1, <3>1, <3>3, <3>4 DEF AnswersInv
  <2>2. CASE c = created + 1 /\ created' = created + 1
    BY <2>2, RequestStep, NextConnection
  <2>3. QED BY <1>3, <2>1, <2>2
<1>5. PairTypes /\ step \in [Requests -> Steps] /\ DOMAIN connection = Requests
  BY DEF AnswersInv, ClientInv, PoolInv, PoolTypes
<1>6. /\ step'[r] \in {"write", "resolve"} /\ connection'[r] = c
      /\ \A q \in Requests \ {r} : UNCHANGED <<step[q], connection[q]>>
      /\ connections' = connections \cup {c} /\ in_use' = in_use \cup {c}
  BY <1>3, <1>5 DEF Claim
<1>7. PairTypes'
  BY <1>2, <1>5 DEF PairTypes
<1>8. Idle(c)'
  BY <1>2, <1>4 DEF Idle, Silent, Busy, Dead
<1>9. content[r] = <<>>
  BY <1>1 DEF AnswersInv
<1>10. Talk(r)' /\ Ended(r)' /\ Own(r)'
  <2>1. Talk(r)'
    BY <1>2, <1>6, <1>8, <1>9 DEF Talk
  <2>2. Ended(r)'
    BY <1>6 DEF Ended, Completed
  <2>3. Own(r)'
    BY <1>2, <1>5, <1>9, NothingCame
  <2>4. QED BY <2>1, <2>2, <2>3
<1>11. \A e \in Conns : Vacant(e)' => Vacant(e)
  <2>1. \A e \in Conns : e \in Nat
    BY DEF Conns
  <2>2. created' \in Nat
    BY <1>3, <1>4
  <2>3. QED BY <1>4, <1>6, <2>1, <2>2 DEF Vacant
<1>12. /\ endC \subseteq endC' /\ step'[r] # "new"
       /\ \A q \in Requests \ {r} : UNCHANGED <<step[q], connection[q], content[q], callbacks[q]>>
       /\ \A e \in Conns : UNCHANGED <<up[e], down[e]>>
  BY <1>2, <1>6
<1>13. QED BY <1>1, <1>2, <1>7, <1>10, <1>11, <1>12, ClientMove

\* A request that is sent again is so on a connection where nothing is left,
\* and what came for it on the other is forgotten.
LEMMA ReconnectMove ==
  ASSUME ClientInv, ClientInv', EndsInv, AnswersInv, NEW r \in Requests, UnderWay(r), Reconnect(r),
         UNCHANGED <<serverVars, kind, up, down, endS, cut, listening>>
  PROVE  AnswersInv'
<1>1. PICK c \in Conns : connection[r] = c
  BY OnItsOwn
<1>0. PICK n : n = created + 1
  OBVIOUS
<1>2. /\ UNCHANGED <<session, server_gate, callbacks>> /\ created' = n
      /\ connections' = (connections \ {c}) \cup {n} /\ in_use' = in_use \cup {n}
      /\ endC' = endC \cup {c} /\ connection' = [connection EXCEPT ![r] = n]
      /\ content' = [content EXCEPT ![r] = <<>>] /\ step' = [step EXCEPT ![r] = "resolve"]
  BY <1>0, <1>1 DEF Reconnect, serverVars, server
<1>3. PairTypes /\ step \in [Requests -> Steps] /\ DOMAIN connection = Requests
  BY DEF AnswersInv, ClientInv, PoolInv, PoolTypes
<1>4. /\ n \in Conns /\ Idle(n) /\ created \in Nat
      /\ \A e \in Conns : e > created' => Vacant(e)
  BY <1>0, <1>2, NextConnection
<1>5. /\ step'[r] = "resolve" /\ connection'[r] = n /\ content'[r] = <<>>
      /\ \A q \in Requests \ {r} : UNCHANGED <<step[q], connection[q], content[q], callbacks[q]>>
  BY <1>2, <1>3 DEF PairTypes
<1>6. PairTypes'
  <2>1. <<>> \in Seq(Parts)
    OBVIOUS
  <2>2. QED BY <1>2, <1>3, <2>1 DEF PairTypes
<1>7. Dead(c)' /\ \A e : Dead(e) => Dead(e)'
  BY <1>2 DEF Dead
<1>8. OneRequest(c)'
  <2>1. \A q : Sender(q, c)'
    BY <1>7 DEF Sender
  <2>2. OneRequest(c)
    BY <1>1 DEF AnswersInv
  <2>3. QED BY <1>2, <2>1, <2>2 DEF OneRequest, BodyParts, PartsOf
<1>9. Talk(r)' /\ Ended(r)'
  <2>1. Idle(n)'
    BY <1>2, <1>4, <1>7 DEF Idle, Silent, Busy
  <2>2. Talk(r)'
    BY <1>5, <2>1 DEF Talk
  <2>3. QED BY <1>5, <2>2 DEF Ended, Completed
<1>10. Own(r)'
  BY <1>3, <1>5, NothingCame
<1>11. ASSUME NEW e \in Conns, Vacant(e)'
       PROVE  Vacant(e)
  BY <1>2, <1>4, <1>11 DEF Vacant
<1>12. /\ endC \subseteq endC' /\ step'[r] # "new" /\ step[r] # "new"
       /\ \A e \in Conns : UNCHANGED <<up[e], down[e]>>
  BY <1>2, <1>5 DEF UnderWay, Pending
<1>13. QED BY <1>1, <1>2, <1>5, <1>6, <1>8, <1>9, <1>10, <1>11, <1>12, ClientMove

\* A header that cannot be read.
LEMMA HeaderFailsMove ==
  ASSUME ClientInv, EndsInv, AnswersInv, NEW r \in Requests, UNCHANGED serverVars, HeaderFails(r)
  PROVE  AnswersInv'
<1>1. UnderWay(r) /\ UNCHANGED <<kind, up, down, endS, cut, listening, event_stream>>
  BY DEF HeaderFails, InStep, UnderWay, Pending
<1>2. CASE Reconnect(r)
  BY <1>1, <1>2, HeaderFailsStep, ReconnectMove
<1>3. CASE Fails(r) /\ UNCHANGED <<created, connection, content>>
  BY <1>1, <1>3, FailMove
<1>4. QED BY <1>2, <1>3 DEF HeaderFails

\* Every handler of the client keeps the conversations.
LEMMA ClientStepMove ==
  ASSUME ClientInv, EndsInv, AnswersInv, NEW r \in Requests, UNCHANGED serverVars,
         Handler(r) \/ ConnectFails(r) \/ Request(r)
  PROVE  AnswersInv'
BY ConnectMove, WrittenMove, HeaderReadMove, HeaderFailsMove, ContentReadMove, ChunkReadMove,
   FailsMove, UntilEofMove, EventReadMove, RequestMove DEF Handler

\* Timers and stop close connections of the client, and take them from its
\* pool: they are cut unless they were closed before.
LEMMA ClientStopMove ==
  ASSUME ClientInv, EndsInv, AnswersInv, UNCHANGED serverVars,
         \/ \E r \in Requests : Expire(r)
         \/ \E c \in Conns : OnExpired(c)
         \/ \E destroyed \in BOOLEAN : Stop(destroyed)
  PROVE  AnswersInv' /\ EndsInv'
<1>1. /\ UNCHANGED <<session, server_gate, kind, up, down, endS, listening, created, in_use>>
      /\ UNCHANGED <<step, connection, content, callbacks>>
      /\ endC \subseteq endC' /\ connections' \subseteq connections
  BY DEF Expire, OnExpired, Stop, netVars, pool, sessions, serverVars, server
<1>2. cut \subseteq cut' /\ cut' \subseteq endS' \cup endC' /\ endC' \ endC \subseteq endS' \cup cut'
  BY DEF Expire, OnExpired, Stop, Cut, netVars, EndsInv
<1>3. EndsInv'
  BY <1>1, <1>2, CutKeeps
<1>4. PairTypes' /\ NeverCloses'
  BY <1>1 DEF AnswersInv, PairTypes, NeverCloses
<1>5. \A c : /\ Dead(c) => Dead(c)'
             /\ Broken(c) => Broken(c)'
             /\ c \in endS' \ cut' => c \in endS \ cut
  BY <1>1, <1>2 DEF Dead, Broken
<1>6. ASSUME NEW c \in Conns
      PROVE  Orderly(c)' /\ OneRequest(c)' /\ (Vacant(c)' => Idle(c)')
  <2>1. Orderly(c) /\ OneRequest(c) /\ (Vacant(c) => Idle(c))
    BY DEF AnswersInv
  <2>2. Orderly(c)'
    BY <1>1, <2>1 DEF Orderly
  <2>3. \A q \in Requests : Sender(q, c) => Sender(q, c)'
    BY <1>1, <1>5 DEF Sender
  <2>4. OneRequest(c)'
    BY <1>1, <2>1, <2>3 DEF OneRequest, BodyParts, PartsOf
  <2>5. Vacant(c)' => Idle(c)'
    BY <1>1, <1>5, <2>1 DEF Vacant, Idle, Silent, Busy
  <2>6. QED BY <2>2, <2>4, <2>5
<1>7. ASSUME NEW r \in Requests
      PROVE  Talk(r)' /\ Ended(r)' /\ Own(r)'
  <2>1. Talk(r) /\ Ended(r) /\ Own(r)
    BY DEF AnswersInv
  <2>2. Talk(r)'
    BY <1>1, <1>5, <2>1, TalkKept
  <2>3. Ended(r)'
    BY <1>1, <1>2, <1>5, <2>1 DEF Ended, Completed, Answer, PartsOf
  <2>4. Own(r)'
    BY <1>1, <1>5, <2>1 DEF Own, Follows, Rising
  <2>5. QED BY <2>2, <2>3, <2>4
<1>8. ASSUME NEW r \in Requests
      PROVE  /\ step'[r] # "new" => kind'[r].body # "uncalled"
             /\ step'[r] = "new" => content'[r] = <<>>
  BY <1>1 DEF AnswersInv
<1>9. QED BY <1>3, <1>4, <1>6, <1>7, <1>8 DEF AnswersInv

-----------------------------------------------------------------------------
(* theorems *)

\* At first nothing was sent, and nothing closed.
LEMMA AnswersInit == PairInit /\ NeverCloses => AnswersInv /\ EndsInv
<1>1. SUFFICES ASSUME PairInit, NeverCloses PROVE AnswersInv /\ EndsInv
  OBVIOUS
<1>2. /\ \E s \in Scenarios : kind = s.kind
      /\ up = [c \in Conns |-> <<>>] /\ down = [c \in Conns |-> <<>>]
      /\ session = [c \in Conns |-> Fresh("none")] /\ server_gate = "open"
      /\ step = [r \in Requests |-> "new"] /\ content = [r \in Requests |-> <<>>]
      /\ callbacks = [r \in Requests |-> <<>>] /\ endC = {} /\ endS = {} /\ cut = {}
  BY <1>1 DEF PairInit, NetInit, ClientInit, ServerInit
<1>3. /\ Fresh("none") \in Session /\ Fresh("none").phase = "none"
      /\ Fresh("none").send_queue = <<>> /\ Fresh("none").response = <<>>
      /\ Fresh("none").writing = <<>> /\ Fresh("none").streambuf = <<>>
  BY DEF Fresh, Session, Phases
<1>4. kind \in [Requests -> Framing]
  BY <1>2, HttpAssumption
<1>5. PairTypes
  BY <1>2, <1>3, <1>4 DEF PairTypes
<1>6. ASSUME NEW c \in Conns
      PROVE  Orderly(c) /\ OneRequest(c) /\ Idle(c)
  <2>1. session[c] = Fresh("none") /\ up[c] = <<>> /\ down[c] = <<>>
    BY <1>2
  <2>2. Orderly(c)
    BY <1>3, <2>1 DEF Orderly
  <2>3. OneRequest(c)
    BY <1>3, <2>1 DEF OneRequest
  <2>4. Idle(c)
    BY <1>3, <2>1 DEF Idle, Silent, Busy
  <2>5. QED BY <2>2, <2>3, <2>4
<1>7. ASSUME NEW r \in Requests
      PROVE  /\ step[r] = "new" /\ content[r] = <<>>
             /\ Talk(r) /\ Ended(r) /\ Own(r)
  <2>1. step[r] = "new" /\ content[r] = <<>>
    BY <1>2
  <2>2. kind[r].parts \in Nat
    BY <1>4 DEF Framing
  <2>3. Follows(content[r], r, 0)
    BY <2>1, <2>2, FollowsNone
  <2>4. Own(r)
    BY <2>1, <2>3 DEF Own, Rising
  <2>5. Talk(r) /\ Ended(r)
    BY <2>1 DEF Talk, Ended, Completed
  <2>6. QED BY <2>1, <2>4, <2>5
<1>8. EndsInv
  BY <1>2 DEF EndsInv
<1>9. QED BY <1>1, <1>5, <1>6, <1>7, <1>8 DEF AnswersInv

\* Steps that change nothing the conversations depend on.
LEMMA AnswersStutter ==
  AnswersInv /\ EndsInv /\ UNCHANGED pairVars => AnswersInv' /\ EndsInv'
<1>1. SUFFICES ASSUME AnswersInv, EndsInv, UNCHANGED pairVars PROVE AnswersInv' /\ EndsInv'
  OBVIOUS
<1>2. /\ UNCHANGED <<kind, up, down, endC, endS, cut, listening, session, server_gate>>
      /\ UNCHANGED <<created, connections, in_use, step, connection, content, callbacks>>
  BY <1>1 DEF pairVars, netVars, clientVars, pool, sessions, serverVars, server
<1>3. PairTypes' /\ NeverCloses'
  BY <1>1, <1>2 DEF AnswersInv, PairTypes, NeverCloses
<1>4. ASSUME NEW c \in Conns
      PROVE  Orderly(c)' /\ OneRequest(c)' /\ (Vacant(c)' => Idle(c)')
  <2>1. Orderly(c) /\ OneRequest(c) /\ (Vacant(c) => Idle(c))
    BY <1>1 DEF AnswersInv
  <2>2. Orderly(c)'
    BY <1>2, <2>1 DEF Orderly
  <2>3. OneRequest(c)'
    BY <1>2, <2>1 DEF OneRequest, Sender, Dead, BodyParts, PartsOf
  <2>4. Vacant(c)' => Idle(c)'
    BY <1>2, <2>1 DEF Vacant, Idle, Silent, Busy, Dead
  <2>5. QED BY <2>2, <2>3, <2>4
<1>5. ASSUME NEW r \in Requests
      PROVE  /\ Talk(r)' /\ Ended(r)' /\ Own(r)'
             /\ step'[r] # "new" => kind'[r].body # "uncalled"
             /\ step'[r] = "new" => content'[r] = <<>>
  <2>1. /\ Talk(r) /\ Ended(r) /\ Own(r)
        /\ step[r] # "new" => kind[r].body # "uncalled"
        /\ step[r] = "new" => content[r] = <<>>
    BY <1>1 DEF AnswersInv
  <2>2. Talk(r)'
    BY <1>2, <2>1, TalkKept DEF Dead, Broken
  <2>3. Ended(r)' /\ Own(r)'
    BY <1>2, <2>1 DEF Ended, Completed, Own, Broken, Rising, Follows, Answer, PartsOf
  <2>4. QED BY <1>2, <2>1, <2>2, <2>3
<1>6. EndsInv'
  BY <1>1, <1>2 DEF EndsInv, Discarded, UnderWay
<1>7. QED BY <1>3, <1>4, <1>5, <1>6 DEF AnswersInv

\* What the server closes and does not cut no client has closed.
LEMMA ServerDiscards ==
  ASSUME ClientInv, EndsInv, UNCHANGED clientVars,
         \/ \E c \in Conns : \/ Accept(c) \/ ServerHandler(c) \/ AppRelease(c) \/ AppSend(c)
                             \/ ServerExpire(c) \/ OnServerExpired(c)
         \/ \E destroyed \in BOOLEAN : CloseAcceptor(destroyed)
         \/ CloseConnections
  PROVE  EndsInv'
<1> DEFINE Closed == /\ endC' = endC /\ endS \subseteq endS' /\ cut \subseteq cut'
                      /\ cut' \subseteq endS' \cup endC
<1>1. cut \subseteq endS \cup endC
  BY DEF EndsInv
<1>2. ASSUME NEW c \in Conns, Accept(c) \/ ServerHandler(c) \/ AppRelease(c) \/ AppSend(c)
      PROVE  Closed
  <2>1. \A s : Proceed(c, s) => Closed
    BY <1>1 DEF Proceed, NetFrame
  <2>2. Gone(c) => Closed
    BY <1>1 DEF Gone, NetFrame, Cut
  <2>3. \A s, r : FindResource(c, s, r) => Closed
    BY <1>1, <2>1, <2>2 DEF FindResource, NetFrame
  <2>4. Accept(c) \/ AcceptHandler(c) => Closed
    BY <1>1 DEF Accept, AcceptHandler, netVars
  <2> HIDE DEF Closed
  <2>5. ReadHeader(c) => Closed
    BY <2>1, <2>2, <2>3 DEF ReadHeader
  <2>6. ReadContent(c) \/ ReadChunk(c) \/ ReadFails(c) => Closed
    BY <2>1, <2>2, <2>3 DEF ReadContent, ReadChunk, ReadFails
  <2>7. AppSend(c) \/ AppRelease(c) \/ (\E i \in 1..Len(session[c].writing) : QueueWritten(c, i))
          => Closed
    BY <2>1 DEF AppSend, AppRelease, QueueWritten
  <2>8. FinalWritten(c) \/ Refused(c) \/ FinalRefused(c) => Closed
    BY <2>1, <2>2 DEF FinalWritten, Refused, FinalRefused
  <2>9. QED BY <1>2, <2>4, <2>5, <2>6, <2>7, <2>8 DEF ServerHandler
<1>3. ASSUME \/ \E c \in Conns : ServerExpire(c) \/ OnServerExpired(c)
             \/ \E destroyed \in BOOLEAN : CloseAcceptor(destroyed)
             \/ CloseConnections
      PROVE  Closed
  BY <1>1, <1>3 DEF ServerExpire, OnServerExpired, CloseAcceptor, CloseConnections, netVars, NetFrame,
                    Cut
<1>4. Closed
  BY <1>2, <1>3
<1>5. UNCHANGED <<created, connection, step, connections>>
  BY DEF clientVars, pool, sessions
<1>6. QED BY <1>4, <1>5, CutKeeps

\* Every step of the pair keeps the conversations.
LEMMA AnswersNext ==
  ClientInv /\ EndsInv /\ AnswersInv /\ [PairNext]_pairVars => AnswersInv' /\ EndsInv'
<1>1. SUFFICES ASSUME ClientInv, EndsInv, AnswersInv, [PairNext]_pairVars
               PROVE  AnswersInv' /\ EndsInv'
  OBVIOUS
<1> USE <1>1
<1>2. CASE UNCHANGED pairVars
  BY <1>2, AnswersStutter
<1>3. CASE Progress
  <2>1. ASSUME NEW r \in Requests, ClientStep(Handler(r)) \/ ClientConnectFails(r)
        PROVE  AnswersInv' /\ EndsInv'
    BY <2>1, ClientStepMove, HandlerDiscards DEF ClientStep, ClientConnectFails
  <2>2. ASSUME NEW r \in Requests, ClientExpires(r)
        PROVE  AnswersInv' /\ EndsInv'
    BY <2>2, ClientStopMove DEF ClientExpires
  <2>3. ASSUME NEW c \in Conns, ClientStep(OnExpired(c))
        PROVE  AnswersInv' /\ EndsInv'
    BY <2>3, ClientStopMove DEF ClientStep
  <2>4. ASSUME NEW c \in Conns, ServerExpires(c) \/ ServerStep(OnServerExpired(c))
        PROVE  AnswersInv' /\ EndsInv'
    BY <2>4, ServerStopMove, ServerDiscards DEF ServerExpires, ServerStep
  <2>5. ASSUME NEW c \in Conns, ServerStep(Accept(c) \/ ServerHandler(c) \/ AppRelease(c))
        PROVE  AnswersInv' /\ EndsInv'
    BY <2>5, ServerStepMove, ServerDiscards DEF ServerStep
  <2>6. QED BY <1>3, <2>1, <2>2, <2>3, <2>4, <2>5 DEF Progress, ServerStep
<1>4. ASSUME NEW r \in Requests, ClientStep(Request(r))
      PROVE  AnswersInv' /\ EndsInv'
  BY <1>4, ClientStepMove, RequestDiscards DEF ClientStep
<1>5. ASSUME NEW c \in Conns, ServerStep(AppSend(c))
      PROVE  AnswersInv' /\ EndsInv'
  BY <1>5, ServerStepMove, ServerDiscards DEF ServerStep
<1>6. ASSUME NEW destroyed \in BOOLEAN, Stop(destroyed) /\ UNCHANGED serverVars
      PROVE  AnswersInv' /\ EndsInv'
  BY <1>6, ClientStopMove
<1>7. ASSUME NEW destroyed \in BOOLEAN, CloseAcceptor(destroyed) /\ UNCHANGED clientVars
      PROVE  AnswersInv' /\ EndsInv'
  BY <1>7, ServerStopMove, ServerDiscards
<1>8. CASE ServerStep(CloseConnections)
  BY <1>8, ServerStopMove, ServerDiscards DEF ServerStep
<1>9. QED BY <1>2, <1>3, <1>4, <1>5, <1>6, <1>7, <1>8 DEF PairNext

\* The conversations of a client and a server keep apart and in order, whatever
\* fails, when no answer of HTTP/1.1 is to end with its connection.
THEOREM AnswersInvariant == NeverCloses /\ PairSpec => [](AnswersInv /\ EndsInv)
<1>1. PairInit /\ NeverCloses => AnswersInv /\ EndsInv
  BY AnswersInit
<1>2. ClientInv /\ EndsInv /\ AnswersInv /\ [PairNext]_pairVars => AnswersInv' /\ EndsInv'
  BY AnswersNext
<1>3. QED BY <1>1, <1>2, ClientInvariant, PTL DEF PairSpec

\* A server that answers has read its request to the end and nothing beyond:
\* the stream it drops when it starts the next session held nothing.
THEOREM ServerReadsNothingAhead == NeverCloses /\ PairSpec => []NothingReadAhead
<1>1. AnswersInv => NothingReadAhead
  <2>1. SUFFICES ASSUME AnswersInv, NEW c \in Conns, session[c].phase \in Answering
                 PROVE  session[c].streambuf = <<>>
    BY DEF NothingReadAhead, Answering
  <2>2. Orderly(c)
    BY <2>1 DEF AnswersInv
  <2>3. session[c].phase # "chunk"
    BY <2>1 DEF Answering
  <2>4. QED BY <2>2, <2>3 DEF Orderly
<1>2. QED BY <1>1, AnswersInvariant, PTL

\* What a request collects are parts of its own answer, one after the other, on
\* connections that pass from one request to the next, fail and are replaced;
\* and none is left out unless the server was destroyed before it had sent it.
THEOREM OwnAnswersInOrder == NeverCloses /\ PairSpec => []AnswersInOrder
<1>1. AnswersInv => AnswersInOrder
  <2>1. SUFFICES ASSUME AnswersInv, NEW r \in Requests
                 PROVE  /\ Ascending(r, content[r])
                        /\ Undisturbed(r) => content[r] = PartsOf(r, 1, Len(content[r]))
    BY DEF AnswersInOrder
  <2>2. kind[r].parts \in Nat /\ content[r] \in Seq(Parts) /\ Own(r)
    BY <2>1 DEF AnswersInv, PairTypes, Framing
  <2>3. Ascending(r, content[r])
    <3>1. PICK s \in Seq(Parts) : s = content[r] /\ Rising(s, r)
      BY <2>2 DEF Own
    <3>2. PICK k \in Nat : k = Len(s)
      OBVIOUS
    <3>3. DOMAIN s = 1..k /\ \A i \in 1..k : s[i].part \in Nat
      <4>1. DOMAIN s = 1..k /\ \A i \in 1..k : s[i] \in Parts
        BY <3>2
      <4>2. QED BY <4>1 DEF Parts
    <3>4. ASSUME NEW i \in 1..k
          PROVE  /\ s[i] \in {Part(r, n) : n \in 1..kind[r].parts}
                 /\ \A j \in 1..(i - 1) : s[j].part < s[i].part
      <4>1. /\ s[i] = Part(r, s[i].part) /\ i <= s[i].part /\ s[i].part + k <= kind[r].parts + i
            /\ \A j \in 1..(i - 1) : s[j].part < s[i].part
        BY <3>1, <3>2 DEF Rising
      <4>2. s[i].part \in 1..kind[r].parts
        BY <2>2, <3>3, <4>1
      <4>3. QED BY <4>1, <4>2
    <3>5. QED BY <3>1, <3>3, <3>4 DEF Ascending
  <2>4. ASSUME Undisturbed(r)
        PROVE  content[r] = PartsOf(r, 1, Len(content[r]))
    <3>1. ~Broken(connection[r])
      BY <2>4 DEF Undisturbed, Broken
    <3>2. QED BY <2>2, <3>1, FollowsAll DEF Own
  <2>5. QED BY <2>3, <2>4
<1>2. QED BY <1>1, AnswersInvariant, PTL

\* A request called back without an error has its whole answer: one that names
\* its length always, one in chunks unless the server was destroyed before it
\* had sent it, and one that goes to the end of its connection unless a timer
\* or a stop was the first to close that.
THEOREM OwnAnswersWhole == NeverCloses /\ PairSpec => []AnswersWhole
<1>1. AnswersInv => AnswersWhole
  <2>1. SUFFICES ASSUME AnswersInv, NEW r \in Requests, Completed(r),
                        kind[r].answer = "chunked" => Undisturbed(r),
                        kind[r].answer = "http/1.0" => connection[r] \notin cut
                 PROVE  content[r] = Answer(r)
    BY DEF AnswersWhole
  <2>2. Undisturbed(r) => ~Broken(connection[r])
    BY DEF Undisturbed, Broken
  <2>3. Ended(r)
    BY <2>1 DEF AnswersInv
  <2>4. QED BY <2>1, <2>2, <2>3 DEF Ended
<1>2. QED BY <1>1, AnswersInvariant, PTL

=============================================================================
