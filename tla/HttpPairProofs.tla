--------------------------- MODULE HttpPairProofs ---------------------------
(***************************************************************************)
(* Proofs about the client and the server beside each other: the client's  *)
(* pool of connections, for any finite number of requests, any framings    *)
(* and any number of faults; and the end of the server, for any number of  *)
(* connections, whatever is under way on each of them when it comes.       *)
(***************************************************************************)
EXTENDS HttpPair, FiniteSetTheorems, TLAPS

-----------------------------------------------------------------------------
(* the pool of the client *)

Steps == {"new", "done", "thrown"} \cup Pending

\* A request that has its connection, be it that it will not give it back.
Holds(r) == UnderWay(r) \/ step[r] = "thrown"

PoolTypes ==
  /\ created \in Nat /\ connections \subseteq 1..created /\ in_use \subseteq 1..created
  /\ step \in [Requests -> Steps] /\ DOMAIN connection = Requests
  /\ \A r \in Requests : connection[r] \in (1..created) \cup {NoConnection}
  /\ \A r \in Requests : UnderWay(r) => connection[r] \in 1..created

\* A request under way uses its connection, which is an event stream's just
\* when the request waits for events; a stream's connection stays in use.
Uses ==
  /\ event_stream \subseteq in_use
  /\ \A r \in Requests :
       UnderWay(r) => /\ connection[r] \in in_use
                      /\ step[r] = "events" <=> connection[r] \in event_stream

PoolInv == PoolTypes /\ Uses /\ AtMostOneIdle /\ OneRequestPerConnection /\ NoConnectionLeaks

\* Requests made, and those that may still replace their connection.
Called == {r \in Requests : step[r] # "new"}
Early == {"resolve", "connect", "write", "read"}
MayReconnect == {r \in Requests : step[r] \in Early /\ connection[r] \in attempt_reconnect}

\* Every request has two connections to make.
Budget == created + Cardinality(MayReconnect) <= 2 * Cardinality(Called)

ClientInv == PoolInv /\ Budget

-----------------------------------------------------------------------------
(* the pool *)

\* Pruning keeps connections of what is left only, and one idle at most.
LEMMA PrunedFacts ==
  ASSUME NEW left, NEW inUse, NEW kept \in Pruned(left, inUse)
  PROVE  /\ kept \subseteq left
         /\ \A c, d \in kept \ inUse : c = d
BY DEF Pruned

\* A callback that ends a request, or brings an event, keeps the pool sound.
LEMMA CallbackKeeps ==
  ASSUME PoolInv, NEW r \in Requests, UnderWay(r), NEW ec \in BOOLEAN,
         NEW next \in {"done", "events"}, Callback(r, ec, next),
         next = "events" => ~ec /\ event_stream' = event_stream \cup {connection[r]},
         next = "done" => event_stream' = event_stream /\ (step[r] = "events" => ec),
         UNCHANGED <<created, connection>>
  PROVE  PoolInv'
<1> DEFINE c == connection[r]
           left == IF ec THEN connections \ {c} ELSE connections
<1> USE DEF PoolInv
<1>1. /\ in_use' = IF c \in event_stream' THEN in_use ELSE in_use \ {c}
      /\ connections' \in Pruned(left, in_use')
      /\ step' = [step EXCEPT ![r] = next]
  BY DEF Callback, GivenBack
<1>2. connections' \subseteq left /\ \A a, b \in connections' \ in_use' : a = b
  BY <1>1, PrunedFacts
<1>3. AtMostOneIdle'
  BY <1>2 DEF AtMostOneIdle
<1>4. "events" \in Pending /\ "done" \notin Pending /\ "done" # "events"
  BY DEF Pending
<1>5. \A q \in Requests : q # r => step'[q] = step[q]
  BY <1>1 DEF PoolTypes
<1>6. step'[r] = next /\ step' \in [Requests -> Steps]
  BY <1>1, <1>4 DEF PoolTypes, Steps
<1>7. \A q \in Requests : UnderWay(q)' => UnderWay(q)
  BY <1>5 DEF UnderWay
<1>8. PoolTypes'
  BY <1>1, <1>2, <1>6, <1>7 DEF PoolTypes
<1>9. OneRequestPerConnection'
  BY <1>7 DEF OneRequestPerConnection
<1>10. \A q \in Requests : q # r /\ UnderWay(q) => connection[q] # c
  BY DEF OneRequestPerConnection
<1>11. Uses'
  <2>1. event_stream' \subseteq in_use'
    BY <1>1 DEF Uses
  <2>2. ASSUME NEW q \in Requests, UnderWay(q)', q # r
        PROVE  connection'[q] \in in_use' /\ (step'[q] = "events" <=> connection'[q] \in event_stream')
    BY <2>2, <1>1, <1>5, <1>7, <1>10 DEF Uses
  <2>3. ASSUME UnderWay(r)'
        PROVE  connection'[r] \in in_use' /\ (step'[r] = "events" <=> connection'[r] \in event_stream')
    <3>1. next = "events"
      BY <2>3, <1>4, <1>6 DEF UnderWay
    <3>2. QED BY <3>1, <1>1, <1>6 DEF Uses
  <2>4. QED BY <2>1, <2>2, <2>3 DEF Uses
<1>12. NoConnectionLeaks'
  <2>1. SUFFICES ASSUME NEW d \in connections', d \in in_use'
                 PROVE  \E q \in Requests : Holds(q)' /\ connection'[q] = d
    BY DEF NoConnectionLeaks, Holds
  <2>2. d \in connections /\ d \in in_use
    BY <2>1, <1>1, <1>2
  <2>3. PICK q \in Requests : Holds(q) /\ connection[q] = d
    BY <2>2 DEF NoConnectionLeaks, Holds
  <2>4. CASE q # r
    BY <2>3, <2>4, <1>5 DEF UnderWay, Holds
  <2>5. CASE q = r
    <3>1. ~ec /\ c \in event_stream'
      BY <2>1, <2>3, <2>5, <1>1, <1>2
    <3>2. next = "events"
      BY <3>1, <2>3, <2>5 DEF Uses
    <3>3. QED BY <3>2, <2>3, <2>5, <1>4, <1>6 DEF UnderWay, Holds
  <2>6. QED BY <2>4, <2>5
<1>13. QED BY <1>3, <1>8, <1>9, <1>11, <1>12

\* So does a handler that starts the request's next operation.
LEMMA GoOnKeeps ==
  ASSUME PoolInv, NEW r \in Requests, UnderWay(r), step[r] # "events",
         NEW next \in Pending \ {"events"}, GoOn(r, next),
         UNCHANGED <<created, connection, event_stream>>
  PROVE  PoolInv'
<1> USE DEF PoolInv
<1>1. step' = [step EXCEPT ![r] = next] /\ UNCHANGED <<connections, in_use>>
  BY DEF GoOn
<1>2. \A q \in Requests : UnderWay(q)' <=> UnderWay(q)
  BY <1>1 DEF PoolTypes, UnderWay
<1>3. \A q \in Requests : step'[q] = "events" <=> step[q] = "events"
  BY <1>1 DEF PoolTypes
<1>4. step' \in [Requests -> Steps]
  BY <1>1 DEF PoolTypes, Steps
<1>5. PoolTypes'
  BY <1>1, <1>2, <1>4 DEF PoolTypes
<1>6. Uses'
  BY <1>1, <1>2, <1>3 DEF Uses
<1>7. AtMostOneIdle' /\ OneRequestPerConnection'
  BY <1>1, <1>2 DEF AtMostOneIdle, OneRequestPerConnection
<1>8. \A q \in Requests : Holds(q) => Holds(q)'
  BY <1>1, <1>2 DEF PoolTypes, Holds
<1>9. NoConnectionLeaks'
  BY <1>1, <1>8 DEF NoConnectionLeaks, Holds
<1>10. QED BY <1>5, <1>6, <1>7, <1>9

\* So does a handler that throws: its request is under way no more, but holds
\* its connection still.
LEMMA ThrowsKeeps ==
  ASSUME PoolInv, NEW r \in Requests, UnderWay(r), Throws(r),
         UNCHANGED <<created, connection, event_stream>>
  PROVE  PoolInv'
<1> USE DEF PoolInv
<1>1. step' = [step EXCEPT ![r] = "thrown"] /\ UNCHANGED <<connections, in_use>>
  BY DEF Throws
<1>2. /\ step'[r] = "thrown" /\ \A q \in Requests : q # r => step'[q] = step[q]
      /\ step' \in [Requests -> Steps]
  BY <1>1 DEF PoolTypes, Steps
<1>3. \A q \in Requests : (UnderWay(q)' => UnderWay(q) /\ q # r) /\ (Holds(q) => Holds(q)')
  BY <1>2 DEF UnderWay, Pending, Holds
<1>4. PoolTypes'
  BY <1>1, <1>2, <1>3 DEF PoolTypes
<1>5. Uses'
  BY <1>1, <1>2, <1>3 DEF Uses
<1>6. AtMostOneIdle' /\ OneRequestPerConnection'
  BY <1>1, <1>3 DEF AtMostOneIdle, OneRequestPerConnection
<1>7. NoConnectionLeaks'
  BY <1>1, <1>3 DEF NoConnectionLeaks, Holds
<1>8. QED BY <1>4, <1>5, <1>6, <1>7

\* A request gets a connection nobody uses.
LEMMA ClaimKeeps ==
  ASSUME PoolInv, NEW r \in Requests, step[r] = "new", NEW c, Claim(r, c),
         \/ c \in Available /\ created' = created
         \/ c = created + 1 /\ created' = created + 1,
         UNCHANGED event_stream
  PROVE  PoolInv'
<1> USE DEF PoolInv, Claim
<1>1. created' \in Nat /\ created <= created' /\ c \in 1..created' /\ c \notin in_use
  <2>1. CASE c \in Available /\ created' = created
    BY <2>1 DEF PoolTypes, Available
  <2>2. CASE c = created + 1 /\ created' = created + 1
    BY <2>2 DEF PoolTypes
  <2>3. QED BY <2>1, <2>2
<1>2. /\ \A q \in Requests : q # r => step'[q] = step[q] /\ connection'[q] = connection[q]
      /\ step'[r] \in Pending \ {"events"} /\ connection'[r] = c
      /\ step' \in [Requests -> Steps] /\ DOMAIN connection' = Requests
  BY DEF PoolTypes, Pending, Steps
<1>3. \A q \in Requests : q # r => (UnderWay(q)' <=> UnderWay(q))
  BY <1>2 DEF UnderWay
<1>4. connections' \subseteq 1..created' /\ in_use' \subseteq 1..created'
  BY <1>1 DEF PoolTypes
<1>5. \A q \in Requests : connection'[q] \in (1..created') \cup {NoConnection}
  BY <1>1, <1>2 DEF PoolTypes
<1>6. \A q \in Requests : UnderWay(q)' => connection'[q] \in 1..created'
  BY <1>1, <1>2, <1>3 DEF PoolTypes
<1>7. PoolTypes'
  BY <1>1, <1>2, <1>4, <1>5, <1>6 DEF PoolTypes
<1>8. Uses'
  BY <1>1, <1>2, <1>3 DEF Uses
<1>9. AtMostOneIdle'
  BY <1>1 DEF AtMostOneIdle, Available
<1>10. OneRequestPerConnection'
  BY <1>1, <1>2, <1>3 DEF OneRequestPerConnection, Uses
<1>11. UnderWay(r)'
  BY <1>2 DEF UnderWay
<1>12. NoConnectionLeaks'
  <2>1. \A q \in Requests : Holds(q) => Holds(q)' /\ connection'[q] = connection[q]
    BY <1>2, <1>3 DEF Holds, UnderWay, Pending
  <2>2. QED BY <1>2, <1>11, <2>1 DEF NoConnectionLeaks, Holds
<1>13. QED BY <1>7, <1>8, <1>9, <1>10, <1>12

\* A connection that is replaced leaves the pool.
LEMMA ReconnectKeeps ==
  ASSUME PoolInv, NEW r \in Requests, UnderWay(r), step[r] # "events",
         Reconnect(r), UNCHANGED event_stream
  PROVE  PoolInv'
<1> USE DEF PoolInv, Reconnect
<1>1. created' = created + 1 /\ created' \in Nat /\ created' \notin 1..created
  BY DEF PoolTypes
<1>2. /\ \A q \in Requests : q # r => step'[q] = step[q] /\ connection'[q] = connection[q]
      /\ step'[r] \in Pending \ {"events"} /\ connection'[r] = created'
      /\ step' \in [Requests -> Steps] /\ DOMAIN connection' = Requests
  BY DEF PoolTypes, Pending, Steps
<1>3. \A q \in Requests : UnderWay(q)' <=> UnderWay(q)
  BY <1>2 DEF UnderWay
<1>4. connections' \subseteq 1..created' /\ in_use' \subseteq 1..created'
  <2>1. 1..created \subseteq 1..created' /\ created' \in 1..created'
    BY <1>1 DEF PoolTypes
  <2>2. connections' \subseteq connections \cup {created'} /\ in_use' = in_use \cup {created'}
    BY <1>1
  <2>3. QED BY <2>1, <2>2 DEF PoolTypes
<1>5. \A q \in Requests : connection'[q] \in (1..created') \cup {NoConnection}
  BY <1>1, <1>2 DEF PoolTypes
<1>6. \A q \in Requests : UnderWay(q)' => connection'[q] \in 1..created'
  BY <1>1, <1>2, <1>3 DEF PoolTypes
<1>7. PoolTypes'
  BY <1>1, <1>2, <1>4, <1>5, <1>6 DEF PoolTypes
<1>8. created' \notin event_stream
  BY <1>1 DEF Uses, PoolTypes
<1>9. Uses'
  BY <1>1, <1>2, <1>3, <1>8 DEF Uses
<1>10. AtMostOneIdle'
  BY DEF AtMostOneIdle
<1>11. OneRequestPerConnection'
  BY <1>1, <1>2, <1>3 DEF OneRequestPerConnection, PoolTypes
<1>12. NoConnectionLeaks'
  <2>1. SUFFICES ASSUME NEW d \in connections', d \in in_use'
                 PROVE  \E q \in Requests : Holds(q)' /\ connection'[q] = d
    BY DEF NoConnectionLeaks, Holds
  <2>2. CASE d = created'
    BY <2>2, <1>2, <1>3 DEF Holds
  <2>3. CASE d # created'
    <3>1. d \in connections /\ d \in in_use /\ d # connection[r]
      BY <2>1, <2>3, <1>1
    <3>2. PICK q \in Requests : Holds(q) /\ connection[q] = d
      BY <3>1 DEF NoConnectionLeaks, Holds
    <3>3. q # r /\ Holds(q)' /\ connection'[q] = d
      BY <3>1, <3>2, <1>2, <1>3 DEF Holds
    <3>4. QED BY <3>3
  <2>4. QED BY <2>2, <2>3
<1>13. QED BY <1>7, <1>9, <1>10, <1>11, <1>12

-----------------------------------------------------------------------------
(* the budget of connections *)

\* Sets of requests are finite, and the smaller of two has no more elements.
LEMMA RequestSetsFinite ==
  ASSUME NEW A, NEW B, A \subseteq B, B \subseteq Requests
  PROVE  Cardinality(A) \in Nat /\ Cardinality(B) \in Nat /\ Cardinality(A) <= Cardinality(B)
<1>1. IsFiniteSet(B)
  BY FS_Subset, HttpAssumption
<1>2. QED BY <1>1, FS_Subset, FS_CardinalityType

\* A handler that makes no connection leaves its request at most the chances
\* to reconnect it had.
LEMMA StepKeepsBudget ==
  ASSUME PoolInv, Budget, NEW r \in Requests, UnderWay(r), NEW next,
         step' = [step EXCEPT ![r] = next], next # "new",
         attempt_reconnect' \subseteq attempt_reconnect \cup {connection[r]},
         next \in Early => step[r] \in Early /\ attempt_reconnect' = attempt_reconnect,
         UNCHANGED <<created, connection>>
  PROVE  Budget'
<1>1. Called' = Called
  BY DEF Called, PoolInv, PoolTypes, UnderWay, Pending
<1>2. MayReconnect' \subseteq MayReconnect
  <2>1. SUFFICES ASSUME NEW q \in MayReconnect' PROVE q \in MayReconnect
    OBVIOUS
  <2>2. CASE q = r
    BY <2>2 DEF MayReconnect, PoolInv, PoolTypes
  <2>3. CASE q # r
    <3>1. step[q] \in Early /\ UnderWay(q)
      BY <2>3 DEF MayReconnect, PoolInv, PoolTypes, UnderWay, Early, Pending
    <3>2. connection[q] # connection[r]
      BY <3>1, <2>3 DEF PoolInv, OneRequestPerConnection, MayReconnect
    <3>3. QED BY <3>1, <3>2 DEF MayReconnect
  <2>4. QED BY <2>2, <2>3
<1>3. /\ Cardinality(MayReconnect') \in Nat /\ Cardinality(MayReconnect) \in Nat
      /\ Cardinality(MayReconnect') <= Cardinality(MayReconnect)
  BY <1>2, RequestSetsFinite DEF MayReconnect
<1>4. Cardinality(Called) \in Nat
  BY RequestSetsFinite DEF Called
<1>5. QED BY <1>1, <1>3, <1>4 DEF Budget, PoolInv, PoolTypes

\* A request adds two connections to the budget, and one to what is made or
\* one to what may be made.
LEMMA ClaimKeepsBudget ==
  ASSUME PoolInv, Budget, NEW r \in Requests, step[r] = "new", NEW c, Claim(r, c),
         c \notin in_use, created' \in {created, created + 1}
  PROVE  Budget'
<1>1. Called' = Called \cup {r} /\ r \notin Called
  BY DEF Called, Claim, PoolInv, PoolTypes
<1>2. MayReconnect' \subseteq MayReconnect \cup {r}
  <2>1. SUFFICES ASSUME NEW q \in MayReconnect', q # r PROVE q \in MayReconnect
    OBVIOUS
  <2>2. step[q] = step'[q] /\ connection[q] = connection'[q]
    BY <2>1 DEF Claim, MayReconnect, PoolInv, PoolTypes
  <2>3. step[q] \in Early /\ UnderWay(q)
    BY <2>2 DEF MayReconnect, UnderWay, Early, Pending
  <2>4. connection[q] # c
    BY <2>3, <2>1 DEF PoolInv, Uses, MayReconnect
  <2>5. QED BY <2>2, <2>3, <2>4 DEF MayReconnect, Claim
<1>3. IsFiniteSet(Called) /\ IsFiniteSet(MayReconnect)
  BY FS_Subset, HttpAssumption DEF Called, MayReconnect
<1>4. Cardinality(Called') = Cardinality(Called) + 1 /\ Cardinality(Called) \in Nat
  BY <1>1, <1>3, FS_AddElement, FS_CardinalityType
<1>5. /\ Cardinality(MayReconnect') \in Nat /\ Cardinality(MayReconnect) \in Nat
      /\ Cardinality(MayReconnect') <= Cardinality(MayReconnect) + 1
  <2>1. MayReconnect \cup {r} \subseteq Requests
    BY DEF MayReconnect
  <2>2. Cardinality(MayReconnect') <= Cardinality(MayReconnect \cup {r})
        /\ Cardinality(MayReconnect') \in Nat
    BY <2>1, <1>2, RequestSetsFinite
  <2>3. Cardinality(MayReconnect \cup {r}) \in
          {Cardinality(MayReconnect), Cardinality(MayReconnect) + 1}
        /\ Cardinality(MayReconnect) \in Nat
    BY <1>3, FS_AddElement, FS_CardinalityType
  <2>4. QED BY <2>2, <2>3
<1>6. created \in Nat
  BY DEF PoolInv, PoolTypes
<1>7. QED BY <1>1, <1>4, <1>5, <1>6 DEF Budget

\* A connection that replaces another uses up its request's chance.
LEMMA ReconnectKeepsBudget ==
  ASSUME PoolInv, Budget, NEW r \in Requests, step[r] = "read",
         connection[r] \in attempt_reconnect, Reconnect(r)
  PROVE  Budget'
<1>1. Called' = Called
  BY DEF Called, Reconnect, PoolInv, PoolTypes
<1>2. r \in MayReconnect
  BY DEF MayReconnect, Early
<1>3. MayReconnect' \subseteq MayReconnect \ {r}
  BY DEF MayReconnect, Reconnect, PoolInv, PoolTypes
<1>4. IsFiniteSet(MayReconnect) /\ Cardinality(Called) \in Nat
  BY FS_Subset, HttpAssumption, RequestSetsFinite DEF MayReconnect, Called
<1>5. /\ Cardinality(MayReconnect \ {r}) = Cardinality(MayReconnect) - 1
      /\ Cardinality(MayReconnect) \in Nat
  BY <1>2, <1>4, FS_RemoveElement, FS_CardinalityType
<1>6. /\ Cardinality(MayReconnect') <= Cardinality(MayReconnect \ {r})
      /\ Cardinality(MayReconnect') \in Nat
  <2>1. MayReconnect \ {r} \subseteq Requests
    BY DEF MayReconnect
  <2>2. QED BY <2>1, <1>3, RequestSetsFinite
<1>7. created \in Nat /\ created' = created + 1
  BY DEF PoolInv, PoolTypes, Reconnect
<1>8. created + Cardinality(MayReconnect) <= 2 * Cardinality(Called)
  BY DEF Budget
<1>9. created' + Cardinality(MayReconnect') <= 2 * Cardinality(Called)
  BY <1>4, <1>5, <1>6, <1>7, <1>8
<1>10. QED BY <1>1, <1>9 DEF Budget

\* No request makes more than its two connections.
LEMMA CreatedBounded == ClientInv => ConnectionsBounded /\ created \in 0..MaxConns
<1>1. /\ Cardinality(MayReconnect) \in Nat /\ Cardinality(Called) \in Nat
      /\ Cardinality(Requests) \in Nat /\ Cardinality(Called) <= Cardinality(Requests)
  BY RequestSetsFinite DEF MayReconnect, Called
<1>2. SUFFICES ASSUME ClientInv
               PROVE  created <= 2 * Cardinality(Called) /\ created \in 0..MaxConns
  BY DEF ConnectionsBounded, Called
<1>3. created \in Nat /\ created + Cardinality(MayReconnect) <= 2 * Cardinality(Called)
  BY <1>2 DEF ClientInv, PoolInv, PoolTypes, Budget
<1>4. QED BY <1>1, <1>3 DEF MaxConns

-----------------------------------------------------------------------------
(* the steps of the client *)

\* What a step that touches neither the pool nor a session leaves sound.
LEMMA UntouchedKeeps ==
  ASSUME ClientInv, UNCHANGED <<created, in_use, event_stream, attempt_reconnect, connection, step>>,
         connections' \in {connections, {}}
  PROVE  ClientInv'
<1>1. \A r \in Requests : UnderWay(r)' <=> UnderWay(r)
  BY DEF UnderWay
<1>2. PoolTypes' /\ Uses' /\ OneRequestPerConnection'
  BY <1>1 DEF ClientInv, PoolInv, PoolTypes, Uses, OneRequestPerConnection
<1>3. AtMostOneIdle' /\ NoConnectionLeaks'
  BY <1>1 DEF ClientInv, PoolInv, AtMostOneIdle, NoConnectionLeaks, Holds
<1>4. Budget'
  BY DEF ClientInv, Budget, Called, MayReconnect
<1>5. QED BY <1>2, <1>3, <1>4 DEF ClientInv, PoolInv

\* A handler that goes on, or calls back, keeps the invariant.
LEMMA GoOnStep ==
  ASSUME ClientInv, NEW r \in Requests, UnderWay(r), step[r] # "events",
         NEW next \in Pending \ {"events"}, GoOn(r, next),
         UNCHANGED <<created, connection, event_stream>>,
         attempt_reconnect' \subseteq attempt_reconnect \cup {connection[r]},
         next \in Early => step[r] \in Early /\ attempt_reconnect' = attempt_reconnect
  PROVE  ClientInv'
<1>1. PoolInv'
  BY GoOnKeeps DEF ClientInv
<1>2. step' = [step EXCEPT ![r] = next] /\ next # "new"
  BY DEF GoOn, Pending
<1>3. Budget'
  BY <1>2, StepKeepsBudget DEF ClientInv
<1>4. QED BY <1>1, <1>3 DEF ClientInv

\* A callback keeps the pool and the count of connections.
LEMMA CallbackStep ==
  ASSUME ClientInv, NEW r \in Requests, UnderWay(r), NEW ec \in BOOLEAN,
         NEW next \in {"done", "events"}, Callback(r, ec, next),
         next = "events" => ~ec /\ event_stream' = event_stream \cup {connection[r]},
         next = "done" => event_stream' = event_stream /\ (step[r] = "events" => ec),
         attempt_reconnect' \subseteq attempt_reconnect \cup {connection[r]},
         UNCHANGED <<created, connection>>
  PROVE  ClientInv'
<1>1. PoolInv'
  BY CallbackKeeps DEF ClientInv
<1>2. step' = [step EXCEPT ![r] = next] /\ next # "new" /\ next \notin Early
  BY DEF Callback, Early
<1>3. Budget'
  BY <1>2, StepKeepsBudget DEF ClientInv
<1>4. QED BY <1>1, <1>3 DEF ClientInv

\* request() takes an idle connection or makes one, and keeps both.
LEMMA RequestStep ==
  ASSUME ClientInv, NEW r \in Requests, Request(r)
  PROVE  ClientInv'
<1>1. step[r] = "new" /\ UNCHANGED event_stream
  BY DEF Request
<1>2. PICK c : /\ Claim(r, c)
               /\ \/ c \in Available /\ created' = created
                  \/ c = created + 1 /\ created' = created + 1
  BY DEF Request
<1>3. c \notin in_use /\ created' \in {created, created + 1}
  BY <1>2 DEF Available, ClientInv, PoolInv, PoolTypes
<1>4. PoolInv'
  BY <1>1, <1>2, ClaimKeeps DEF ClientInv
<1>5. Budget'
  BY <1>1, <1>2, <1>3, ClaimKeepsBudget DEF ClientInv
<1>6. QED BY <1>4, <1>5 DEF ClientInv

\* The handler of a header that was read keeps both, whichever way the body is
\* to be read.
LEMMA HeaderReadStep ==
  ASSUME ClientInv, NEW r \in Requests, HeaderRead(r)
  PROVE  ClientInv'
<1>1. UnderWay(r) /\ step[r] = "read"
  BY DEF HeaderRead, InStep, UnderWay, Pending
<1>2. /\ UNCHANGED <<created, connection>>
      /\ attempt_reconnect' \subseteq attempt_reconnect \cup {connection[r]}
  BY DEF HeaderRead, HandlerFrame
<1>3. CASE ~NoHeader(r) /\ kind[r].answer = "events"
  <2>1. event_stream' = event_stream \cup {connection[r]} /\ Callback(r, FALSE, "events")
    BY <1>3 DEF HeaderRead
  <2>2. QED BY <1>1, <1>2, <2>1, CallbackStep
<1>4. CASE NoHeader(r) \/ kind[r].answer # "events"
  <2>1. event_stream' = event_stream
    BY <1>4 DEF HeaderRead
  <2>2. \/ \E next \in {"content", "chunk", "untilEof"} : GoOn(r, next)
        \/ \E ec \in BOOLEAN : Callback(r, ec, "done")
        \/ Throws(r)
    BY <1>4 DEF HeaderRead, Fails, Succeeds
  <2>3. ASSUME NEW next \in {"content", "chunk", "untilEof"}, GoOn(r, next)
        PROVE  ClientInv'
    <3>1. next \in Pending \ {"events"} /\ next \notin Early
      BY DEF Pending, Early
    <3>2. QED BY <1>1, <1>2, <2>1, <2>3, <3>1, GoOnStep
  <2>4. ASSUME NEW ec \in BOOLEAN, Callback(r, ec, "done")
        PROVE  ClientInv'
    BY <1>1, <1>2, <2>1, <2>4, CallbackStep
  <2>5. CASE Throws(r)
    <3>1. PoolInv'
      BY <1>1, <1>2, <2>1, <2>5, ThrowsKeeps DEF ClientInv
    <3>2. step' = [step EXCEPT ![r] = "thrown"] /\ "thrown" # "new" /\ "thrown" \notin Early
      BY <2>5 DEF Throws, Early
    <3>3. Budget'
      BY <1>1, <1>2, <3>2, StepKeepsBudget DEF ClientInv
    <3>4. QED BY <3>1, <3>3 DEF ClientInv
  <2>6. QED BY <2>2, <2>3, <2>4, <2>5
<1>5. QED BY <1>3, <1>4

\* The handler of a header that could not be read keeps both, whether it
\* reconnects or gives the error to the callback.
LEMMA HeaderFailsStep ==
  ASSUME ClientInv, NEW r \in Requests, HeaderFails(r)
  PROVE  ClientInv'
<1>1. UnderWay(r) /\ step[r] = "read" /\ event_stream' = event_stream
  BY DEF HeaderFails, InStep, UnderWay, Pending
<1>2. CASE Reconnect(r) /\ connection[r] \in attempt_reconnect
  <2>1. PoolInv'
    BY <1>1, <1>2, ReconnectKeeps DEF ClientInv
  <2>2. Budget'
    BY <1>1, <1>2, ReconnectKeepsBudget DEF ClientInv
  <2>3. QED BY <2>1, <2>2 DEF ClientInv
<1>3. CASE Callback(r, TRUE, "done") /\ UNCHANGED <<created, attempt_reconnect, connection>>
  BY <1>1, <1>3, CallbackStep
<1>4. QED BY <1>2, <1>3 DEF HeaderFails, Fails

\* The handlers that go on with the next operation, or call back.
LEMMA SimpleStep ==
  ASSUME ClientInv, NEW r \in Requests,
         \/ Resolved(r) \/ Connected(r) \/ ConnectFails(r) \/ Written(r) \/ ContentRead(r)
         \/ ChunkRead(r) \/ BodyFails(r) \/ UntilEof(r) \/ EventRead(r)
  PROVE  ClientInv'
<1>1. UnderWay(r)
  BY DEF Resolved, Connected, ConnectFails, Written, ContentRead, ChunkRead, BodyFails,
         UntilEof, EventRead, InStep, UnderWay, Pending
<1>2. UNCHANGED <<created, connection, event_stream, attempt_reconnect>>
  BY DEF Resolved, Connected, ConnectFails, Written, ContentRead, ChunkRead, BodyFails,
         UntilEof, EventRead, ReadFrame, HandlerFrame
<1>3. ASSUME NEW next \in Pending \ {"events"}, GoOn(r, next), step[r] # "events",
             next \in Early => step[r] \in Early
      PROVE  ClientInv'
  BY <1>1, <1>2, <1>3, GoOnStep
<1>4. ASSUME NEW ec \in BOOLEAN, Callback(r, ec, "done"), step[r] = "events" => ec
      PROVE  ClientInv'
  BY <1>1, <1>2, <1>4, CallbackStep
<1>5. CASE Resolved(r)
  <2>1. GoOn(r, "connect") /\ step[r] = "resolve"
    BY <1>5 DEF Resolved, InStep
  <2>2. QED BY <2>1, <1>3 DEF Pending, Early
<1>6. CASE Connected(r)
  <2>1. GoOn(r, "write") /\ step[r] = "connect"
    BY <1>6 DEF Connected, InStep
  <2>2. QED BY <2>1, <1>3 DEF Pending, Early
<1>7. CASE ConnectFails(r)
  BY <1>7, <1>4 DEF ConnectFails, Fails
<1>8. CASE Written(r)
  <2>1. step[r] = "write" /\ (GoOn(r, "read") \/ Fails(r))
    BY <1>8 DEF Written, InStep
  <2>2. CASE GoOn(r, "read")
    BY <2>1, <2>2, <1>3 DEF Pending, Early
  <2>3. CASE Fails(r)
    BY <2>3, <1>4 DEF Fails
  <2>4. QED BY <2>1, <2>2, <2>3
<1>9. CASE ContentRead(r)
  BY <1>9, <1>4 DEF ContentRead, InStep, Succeeds
<1>10. CASE ChunkRead(r)
  <2>1. step[r] = "chunk" /\ (GoOn(r, "chunk") \/ Succeeds(r))
    BY <1>10 DEF ChunkRead, InStep
  <2>2. CASE GoOn(r, "chunk")
    BY <2>1, <2>2, <1>3 DEF Pending, Early
  <2>3. CASE Succeeds(r)
    BY <2>1, <2>3, <1>4 DEF Succeeds
  <2>4. QED BY <2>1, <2>2, <2>3
<1>11. CASE BodyFails(r)
  BY <1>11, <1>4 DEF BodyFails, Fails
<1>12. CASE UntilEof(r)
  <2>1. step[r] = "untilEof" /\ \E ec \in BOOLEAN : Callback(r, ec, "done")
    BY <1>12 DEF UntilEof, InStep
  <2>2. QED BY <2>1, <1>4
<1>13. CASE EventRead(r)
  <2>1. step[r] = "events" /\ Callback(r, FALSE, "events")
    BY <1>13 DEF EventRead, InStep
  <2>2. event_stream' = event_stream \cup {connection[r]}
    BY <2>1, <1>1, <1>2 DEF ClientInv, PoolInv, Uses
  <2>3. QED BY <2>1, <2>2, <1>1, <1>2, CallbackStep
<1>14. QED BY <1>5, <1>6, <1>7, <1>8, <1>9, <1>10, <1>11, <1>12, <1>13

-----------------------------------------------------------------------------
(* theorems *)

\* The client starts with no connection.
LEMMA InitHolds == PairInit => ClientInv
<1>1. SUFFICES ASSUME PairInit PROVE ClientInv
  OBVIOUS
<1>2. /\ created = 0 /\ connections = {} /\ in_use = {} /\ event_stream = {}
      /\ attempt_reconnect = {} /\ step = [r \in Requests |-> "new"]
      /\ connection = [r \in Requests |-> NoConnection]
  BY <1>1 DEF PairInit, ClientInit
<1>3. \A r \in Requests : ~UnderWay(r)
  BY <1>2 DEF UnderWay, Pending
<1>4. PoolTypes /\ Uses
  BY <1>2, <1>3 DEF PoolTypes, Uses, Steps
<1>5. AtMostOneIdle /\ OneRequestPerConnection /\ NoConnectionLeaks
  BY <1>2, <1>3 DEF AtMostOneIdle, OneRequestPerConnection, NoConnectionLeaks
<1>6. Called = {} /\ MayReconnect = {}
  BY <1>2 DEF Called, MayReconnect
<1>7. Budget
  BY <1>2, <1>6, FS_EmptySet DEF Budget
<1>8. QED BY <1>4, <1>5, <1>7 DEF ClientInv, PoolInv

\* Every step of the client, of the server and of the faults between them keeps
\* the invariant of the client.
LEMMA NextKeeps == ClientInv /\ [PairNext]_pairVars => ClientInv'
<1>1. SUFFICES ASSUME ClientInv, [PairNext]_pairVars PROVE ClientInv'
  OBVIOUS
<1> USE <1>1
<1>2. ASSUME UNCHANGED clientVars
      PROVE  ClientInv'
  BY <1>2, UntouchedKeeps DEF clientVars, pool, sessions
<1>3. ASSUME NEW r \in Requests, Handler(r) \/ ConnectFails(r)
      PROVE  ClientInv'
  BY <1>3, HeaderReadStep, HeaderFailsStep, SimpleStep DEF Handler
<1>4. ASSUME NEW r \in Requests, Expire(r)
      PROVE  ClientInv'
  BY <1>4, UntouchedKeeps DEF Expire, pool, sessions
<1>5. ASSUME NEW c \in Conns, OnExpired(c)
      PROVE  ClientInv'
  BY <1>5, UntouchedKeeps DEF OnExpired, pool, sessions
<1>6. ASSUME NEW destroyed \in BOOLEAN, Stop(destroyed)
      PROVE  ClientInv'
  BY <1>6, UntouchedKeeps DEF Stop, sessions
<1>7. ASSUME NEW r \in Requests, Request(r)
      PROVE  ClientInv'
  BY <1>7, RequestStep
<1>8. CASE Progress
  BY <1>8, <1>2, <1>3, <1>4, <1>5
     DEF Progress, ClientStep, ServerStep, ClientConnectFails, ClientExpires, ServerExpires
<1>9. CASE PairNext /\ ~Progress
  BY <1>9, <1>2, <1>6, <1>7 DEF PairNext, ClientStep, ServerStep
<1>10. CASE UNCHANGED pairVars
  BY <1>10, <1>2 DEF pairVars
<1>11. QED BY <1>8, <1>9, <1>10

\* The invariant holds of the pair, whatever the server answers and whatever
\* fails.
THEOREM ClientInvariant == PairSpec => []ClientInv
<1>1. PairInit => ClientInv
  BY InitHolds
<1>2. ClientInv /\ [PairNext]_pairVars => ClientInv'
  BY NextKeeps
<1>3. QED BY <1>1, <1>2, PTL DEF PairSpec

\* Whatever order requests of get_connection and callbacks come in, the pool
\* keeps one connection nobody uses, at most.
THEOREM PoolKeepsOneIdle == PairSpec => []AtMostOneIdle
<1>1. ClientInv => AtMostOneIdle
  BY DEF ClientInv, PoolInv
<1>2. QED BY <1>1, ClientInvariant, PTL

\* No two requests under way ever have the same connection.
THEOREM RequestsKeepApart == PairSpec => []OneRequestPerConnection
<1>1. ClientInv => OneRequestPerConnection
  BY DEF ClientInv, PoolInv
<1>2. QED BY <1>1, ClientInvariant, PTL

\* A pooled connection in use is used by a request that gives it back, or was
\* until a handler threw.
THEOREM PoolLosesNone == PairSpec => []NoConnectionLeaks
<1>1. ClientInv => NoConnectionLeaks
  BY DEF ClientInv, PoolInv
<1>2. QED BY <1>1, ClientInvariant, PTL

\* Failed reads make a request connect twice at most, for any number of
\* requests and failures.
THEOREM ReconnectsOnce == PairSpec => []ConnectionsBounded
<1>1. ClientInv => ConnectionsBounded
  BY CreatedBounded
<1>2. QED BY <1>1, ClientInvariant, PTL

\* Connections are numbered within the bound the model gives them, so that no
\* handler acts on one that does not exist.
THEOREM PairTypesHold == PairSpec => []PairTypeOK
<1>1. ClientInv => PairTypeOK
  BY CreatedBounded DEF PairTypeOK, ClientInv, PoolInv, PoolTypes, Steps
<1>2. QED BY <1>1, ClientInvariant, PTL

-----------------------------------------------------------------------------
(* the end of the server *)


\* A session as long as it lasts is a record with a phase.
SessionShape ==
  /\ DOMAIN session = Conns
  /\ \A c \in Conns :
       DOMAIN session[c] = {"phase", "streambuf", "request", "response", "send_queue", "writing"}

\* Connections that have a session the server has not closed.
Served(c) == session[c].phase \in Timed /\ c \notin endS
Accepted(c) == session[c].phase = "accepted"

\* Connections are accepted one after the other, and none once the acceptor is
\* closed.
OneAccept ==
  /\ \A c \in Conns : Accepted(c) => accepting = "handling" /\ session[c].writing = <<>>
  /\ \A c, d \in Conns : Accepted(c) /\ Accepted(d) => c = d
  /\ ~listening => accepting # "waiting"
  /\ stopped => ~listening

\* Before stop every connection served is in the set stop goes through; after
\* it there is one left at most, whose accept came too early to be aborted and
\* too late to be closed.
StopFinds ==
  /\ ~stopped => \A c \in Conns : Served(c) \/ Accepted(c) => c \in server_connections
  /\ stopped => /\ \A c \in Conns : Served(c) => accepting = "failing"
                /\ \A c, d \in Conns : Served(c) /\ (Served(d) \/ Accepted(d)) => c = d

ServerInv == SessionShape /\ OneAccept /\ StopFinds

\* A step of one session that begins none, and drops no connection that is
\* still served from the set.
LEMMA SessionStepKeeps ==
  ASSUME ServerInv, NEW c \in Conns, NEW s, session' = [session EXCEPT ![c] = s],
         DOMAIN s = DOMAIN Fresh("none"), s.phase # "accepted",
         s.phase \in Timed => session[c].phase \in Timed /\ server_connections' = server_connections,
         server_connections \ {c} \subseteq server_connections', endS \subseteq endS',
         UNCHANGED <<server, listening>>
  PROVE  ServerInv'
<1>1. /\ session'[c] = s /\ DOMAIN session' = Conns
      /\ \A d \in Conns : d # c => session'[d] = session[d]
  BY DEF ServerInv, SessionShape
<1>2. SessionShape'
  BY <1>1 DEF ServerInv, SessionShape, Fresh
<1>3. \A d \in Conns : (Accepted(d)' => Accepted(d)) /\ (Served(d)' => Served(d))
  BY <1>1 DEF Accepted, Served
<1>4. OneAccept'
  <2>1. \A d \in Conns : Accepted(d)' => session'[d] = session[d]
    BY <1>1 DEF Accepted
  <2>2. QED BY <1>3, <2>1 DEF ServerInv, OneAccept, server
<1>5. \A d \in Conns : (Served(d)' \/ Accepted(d)') /\ d \in server_connections
                      => d \in server_connections'
  BY <1>1 DEF Served, Accepted
<1>6. StopFinds'
  BY <1>3, <1>5 DEF ServerInv, StopFinds, server
<1>7. QED BY <1>2, <1>4, <1>6 DEF ServerInv

Fields == DOMAIN Fresh("none")

\* A handler that reads or writes on, without touching the set of connections.
LEMMA ProceedKeeps ==
  ASSUME ServerInv, NEW c \in Conns, NEW s, Proceed(c, s), DOMAIN s = Fields,
         s.phase # "accepted", s.phase \in Timed => session[c].phase \in Timed
  PROVE  ServerInv'
BY SessionStepKeeps DEF Proceed, NetFrame, Fields

\* A handler that drops its session closes what it takes out of the set.
LEMMA GoneKeeps ==
  ASSUME ServerInv, NEW c \in Conns, Gone(c)
  PROVE  ServerInv'
<1>1. /\ DOMAIN Fresh("gone") = DOMAIN Fresh("none") /\ Fresh("gone").phase = "gone"
      /\ "gone" \notin Timed
  BY DEF Fresh, Timed, Reading
<1>2. QED BY <1>1, SessionStepKeeps DEF Gone, NetFrame

\* So does the search for the resource, which may call it, drop the session or
\* hand the connection over.
LEMMA FindResourceKeeps ==
  ASSUME ServerInv, NEW c \in Conns, session[c].phase \in Timed,
         NEW s, DOMAIN s = Fields, NEW r, FindResource(c, s, r)
  PROVE  ServerInv'
<1>1. CASE kind[r].target = "missing"
  BY <1>1, GoneKeeps DEF FindResource
<1>2. CASE kind[r].target = "upgrade"
  <2>1. /\ session' = [session EXCEPT ![c] = Fresh("upgraded")]
        /\ server_connections' = server_connections \ {c}
        /\ UNCHANGED <<server, server_expired, endS>> /\ NetFrame
    BY <1>2 DEF FindResource
  <2>2. /\ DOMAIN Fresh("upgraded") = DOMAIN Fresh("none")
        /\ Fresh("upgraded").phase = "upgraded" /\ "upgraded" \notin Timed
    BY DEF Fresh, Timed, Reading
  <2>3. QED BY <2>1, <2>2, SessionStepKeeps DEF NetFrame
<1>3. CASE kind[r].target = "throws"
  <2>1. Proceed(c, [s EXCEPT !.phase = "final"])
    BY <1>3 DEF FindResource
  <2>2. /\ DOMAIN [s EXCEPT !.phase = "final"] = Fields
        /\ [s EXCEPT !.phase = "final"].phase = "final"
    BY DEF Fields, Fresh
  <2>3. QED BY <2>1, <2>2, ProceedKeeps
<1>4. CASE kind[r].target \notin {"missing", "upgrade", "throws"}
  <2>1. Proceed(c, [s EXCEPT !.phase = "app", !.response = Answer(r)])
    BY <1>4 DEF FindResource
  <2>2. /\ DOMAIN [s EXCEPT !.phase = "app", !.response = Answer(r)] = Fields
        /\ [s EXCEPT !.phase = "app", !.response = Answer(r)].phase = "app"
    BY DEF Fields, Fresh
  <2>3. QED BY <2>1, <2>2, ProceedKeeps
<1>5. QED BY <1>1, <1>2, <1>3, <1>4

-----------------------------------------------------------------------------
(* reading *)

\* The handler of a request header keeps the invariant.
LEMMA ReadHeaderKeeps ==
  ASSUME ServerInv, NEW c \in Conns, ReadHeader(c)
  PROVE  ServerInv'
<1>1. session[c].phase \in Timed
  BY DEF ReadHeader, Running, Timed, Reading
<1> DEFINE Read(p, r, left) ==
             [session[c] EXCEPT !.phase = p, !.request = {r}, !.streambuf = left]
<1>2. ASSUME NEW p \in Timed, NEW r, NEW left
      PROVE  DOMAIN Read(p, r, left) = Fields /\ Read(p, r, left).phase = p
  BY DEF ServerInv, SessionShape, Fields, Fresh
<1>3. PICK r, left : \/ Gone(c)
                     \/ \E p \in {"app"} : FindResource(c, Read(p, r, left), r)
                     \/ \E p \in {"chunk", "content"} : Proceed(c, Read(p, r, left))
  <2>1. PICK n \in 1..Len(up[c]) :
          LET r == up[c][1].of
              more == SubSeq(up[c], 2, n)
              R(p, left) == [session[c] EXCEPT !.phase = p, !.request = {r}, !.streambuf = left]
          IN IF up[c][1].part # 1 \/ kind[r].target = "bad" THEN Gone(c)
             ELSE IF kind[r].body = "none" THEN FindResource(c, R("app", more), r)
             ELSE IF kind[r].body = "chunked" THEN Proceed(c, R("chunk", more))
             ELSE IF more = <<>> THEN Proceed(c, R("content", more))
             ELSE FindResource(c, R("app", Tail(more)), r)
    BY DEF ReadHeader
  <2>2. QED BY <2>1, ZenonT(60)
<1>4. CASE Gone(c)
  BY <1>4, GoneKeeps
<1>5. CASE FindResource(c, Read("app", r, left), r)
  <2>1. DOMAIN Read("app", r, left) = Fields
    BY <1>2 DEF Timed
  <2>2. QED BY <1>1, <1>5, <2>1, FindResourceKeeps
<1>6. ASSUME NEW p \in {"chunk", "content"}, Proceed(c, Read(p, r, left))
      PROVE  ServerInv'
  <2>1. p \in Timed /\ p # "accepted"
    BY DEF Timed, Reading
  <2>2. DOMAIN Read(p, r, left) = Fields /\ Read(p, r, left).phase = p
    BY <1>2, <2>1
  <2>3. QED BY <1>1, <1>6, <2>1, <2>2, ProceedKeeps
<1>7. QED BY <1>3, <1>4, <1>5, <1>6

\* So do the handlers of a body of known length and of a chunk.
LEMMA ReadRestKeeps ==
  ASSUME ServerInv, NEW c \in Conns, ReadContent(c) \/ ReadChunk(c)
  PROVE  ServerInv'
<1>1. session[c].phase \in Timed /\ session[c].phase # "accepted"
  BY DEF ReadContent, ReadChunk, Running, Timed, Reading
<1>2. DOMAIN session[c] = Fields
  BY DEF ServerInv, SessionShape, Fields, Fresh
<1>3. CASE ReadContent(c)
  <2>1. PICK r : FindResource(c, session[c], r)
    BY <1>3 DEF ReadContent
  <2>2. QED BY <1>1, <1>2, <2>1, FindResourceKeeps
<1>4. CASE ReadChunk(c)
  <2> DEFINE s == [session[c] EXCEPT !.streambuf = Tail(session[c].streambuf \o up[c])]
  <2>1. DOMAIN s = Fields /\ s.phase = session[c].phase
    BY <1>2 DEF Fields, Fresh
  <2>2. PICK r : FindResource(c, s, r) \/ Proceed(c, s)
    BY <1>4 DEF ReadChunk
  <2>3. QED BY <1>1, <2>1, <2>2, FindResourceKeeps, ProceedKeeps
<1>5. QED BY <1>3, <1>4

-----------------------------------------------------------------------------
(* responding *)

\* So does the application, when it sends a part or lets the response go.
LEMMA SendingKeeps ==
  ASSUME ServerInv, NEW c \in Conns, AppSend(c) \/ AppRelease(c)
  PROVE  ServerInv'
<1> DEFINE s == session[c]
<1>1. s.phase = "app" /\ s.phase \in Timed /\ DOMAIN s = Fields
  BY DEF AppSend, AppRelease, Timed, ServerInv, SessionShape, Fields, Fresh
<1>2. CASE AppSend(c)
  <2> DEFINE t == [s EXCEPT !.response = Tail(@), !.send_queue = Append(@, s.response[1]),
                            !.writing = IF s.send_queue = <<>> THEN <<s.response[1]>> ELSE @]
  <2>1. Proceed(c, t)
    BY <1>2 DEF AppSend
  <2>2. DOMAIN t = Fields /\ t.phase = "app"
    BY <1>1 DEF Fields, Fresh
  <2>3. QED BY <1>1, <2>1, <2>2, ProceedKeeps
<1>3. CASE AppRelease(c)
  <2>1. PICK p \in {"final", "released"} : Proceed(c, [s EXCEPT !.phase = p])
    BY <1>3 DEF AppRelease
  <2>2. DOMAIN [s EXCEPT !.phase = p] = Fields /\ [s EXCEPT !.phase = p].phase = p
    BY <1>1 DEF Fields, Fresh
  <2>3. QED BY <1>1, <2>1, <2>2, ProceedKeeps
<1>4. QED BY <1>2, <1>3

\* So does the end of one write of the send queue.
LEMMA QueueWrittenKeeps ==
  ASSUME ServerInv, NEW c \in Conns, NEW i, QueueWritten(c, i), session[c].phase # "accepted"
  PROVE  ServerInv'
<1> DEFINE s == session[c]
           Left(q, w) == [s EXCEPT !.send_queue = q, !.writing = w,
                                   !.phase = IF @ = "released" /\ w = <<>> THEN "final" ELSE @]
<1>1. DOMAIN s = Fields
  BY DEF ServerInv, SessionShape, Fields, Fresh
<1>2. PICK q, w : Proceed(c, Left(q, w))
  BY DEF QueueWritten
<1>3. DOMAIN Left(q, w) = Fields
  BY <1>1
<1>4. Left(q, w).phase = IF s.phase = "released" /\ w = <<>> THEN "final" ELSE s.phase
  BY <1>1 DEF Fields, Fresh
<1>5. Left(q, w).phase # "accepted" /\ (Left(q, w).phase \in Timed => s.phase \in Timed)
  BY <1>4 DEF Timed
<1>6. QED BY <1>2, <1>3, <1>5, ProceedKeeps

\* So does the end of the last write, which keeps the connection for a next
\* request or closes it.
LEMMA FinalWrittenKeeps ==
  ASSUME ServerInv, NEW c \in Conns, FinalWritten(c)
  PROVE  ServerInv'
<1>1. session[c].phase \in Timed
  BY DEF FinalWritten, Running, Timed
<1>2. DOMAIN Fresh("header") = Fields /\ Fresh("header").phase = "header"
  BY DEF Fresh, Fields
<1>3. Gone(c) \/ Proceed(c, Fresh("header"))
  BY DEF FinalWritten
<1>4. QED BY <1>1, <1>2, <1>3, GoneKeeps, ProceedKeeps

-----------------------------------------------------------------------------
(* accepting, timers and stop *)

\* A connection is listed when it is accepted, which stop has not prevented.
LEMMA AcceptKeeps ==
  ASSUME ServerInv, NEW c \in Conns, Accept(c)
  PROVE  ServerInv'
<1>1. /\ accepting = "waiting" /\ accepting' = "handling" /\ listening /\ listening'
      /\ server_connections' = server_connections \cup {c}
      /\ session' = [session EXCEPT ![c] = Fresh("accepted")]
      /\ UNCHANGED <<endS, stopped>>
  BY DEF Accept, netVars
<1>2. /\ DOMAIN Fresh("accepted") = Fields /\ Fresh("accepted").phase = "accepted"
      /\ Fresh("accepted").writing = <<>> /\ "accepted" \notin Timed
  BY DEF Fresh, Fields, Timed, Reading
<1>3. /\ session'[c] = Fresh("accepted") /\ DOMAIN session' = Conns
      /\ \A d \in Conns : d # c => session'[d] = session[d]
  BY <1>1 DEF ServerInv, SessionShape
<1>4. \A d \in Conns : ~Accepted(d)
  BY <1>1 DEF ServerInv, OneAccept
<1>5. \A d \in Conns : (Accepted(d)' => d = c) /\ (Served(d)' => Served(d) /\ d # c)
  BY <1>1, <1>2, <1>3, <1>4 DEF Accepted, Served
<1>6. SessionShape'
  BY <1>2, <1>3 DEF ServerInv, SessionShape, Fields, Fresh
<1>7. OneAccept'
  BY <1>1, <1>2, <1>3, <1>5 DEF ServerInv, OneAccept
<1>8. StopFinds'
  BY <1>1, <1>5 DEF ServerInv, OneAccept, StopFinds
<1>9. QED BY <1>6, <1>7, <1>8 DEF ServerInv

\* The accept handler begins a session: stop has listed or missed it already,
\* and when it missed it no further accept is waiting.
LEMMA AcceptHandlerKeeps ==
  ASSUME ServerInv, NEW c \in Conns, AcceptHandler(c)
  PROVE  ServerInv'
<1>1. /\ Accepted(c) /\ accepting' = IF listening THEN "waiting" ELSE "failing"
      /\ session' = [session EXCEPT ![c] = Fresh("header")]
      /\ UNCHANGED <<endS, stopped, server_connections, listening>>
  BY DEF AcceptHandler, Running, Accepted, netVars
<1>2. /\ DOMAIN Fresh("header") = Fields /\ Fresh("header").phase = "header"
  BY DEF Fresh, Fields
<1>3. /\ session'[c] = Fresh("header") /\ DOMAIN session' = Conns
      /\ \A d \in Conns : d # c => session'[d] = session[d]
  BY <1>1 DEF ServerInv, SessionShape
<1>4. \A d \in Conns : ~Accepted(d)' /\ (d # c /\ Served(d)' => Served(d))
  BY <1>1, <1>2, <1>3 DEF ServerInv, OneAccept, Accepted, Served
<1>5. SessionShape'
  BY <1>2, <1>3 DEF ServerInv, SessionShape, Fields, Fresh
<1>6. OneAccept'
  BY <1>1, <1>4 DEF ServerInv, OneAccept
<1>7. CASE stopped
  <2>1. accepting' = "failing" /\ stopped'
    BY <1>1, <1>7 DEF ServerInv, OneAccept
  <2>2. \A d \in Conns : d # c => ~Served(d)
    BY <1>1, <1>7 DEF ServerInv, StopFinds
  <2>3. QED BY <2>1, <2>2, <1>4, <1>5, <1>6 DEF ServerInv, StopFinds
<1>8. CASE ~stopped
  BY <1>1, <1>4, <1>5, <1>6, <1>8 DEF ServerInv, StopFinds
<1>9. QED BY <1>7, <1>8

\* The two halves of stop: the acceptor first, then every listed connection but
\* the one whose accept is still being handled.
LEMMA StopKeeps ==
  ASSUME ServerInv, (\E destroyed \in BOOLEAN : CloseAcceptor(destroyed)) \/ CloseConnections
  PROVE  ServerInv'
<1>1. session' = session /\ endS \subseteq endS'
  BY DEF CloseAcceptor, CloseConnections
<1>2. \A c \in Conns : (Accepted(c)' <=> Accepted(c)) /\ (Served(c)' => Served(c))
  BY <1>1 DEF Accepted, Served
<1>3. SessionShape'
  BY <1>1 DEF ServerInv, SessionShape
<1>4. ASSUME NEW destroyed \in BOOLEAN, CloseAcceptor(destroyed)
      PROVE  OneAccept' /\ StopFinds'
  <2>1. /\ ~listening' /\ UNCHANGED <<stopped, server_connections>>
        /\ accepting' = IF accepting = "waiting" THEN "none" ELSE accepting
        /\ ~stopped
    BY <1>4 DEF CloseAcceptor, ServerInv, OneAccept
  <2>2. OneAccept'
    BY <2>1, <1>1, <1>2 DEF ServerInv, OneAccept
  <2>3. StopFinds'
    BY <2>1, <1>2 DEF ServerInv, StopFinds
  <2>4. QED BY <2>2, <2>3
<1>5. CASE CloseConnections
  <2>1. /\ ~listening /\ ~listening' /\ ~stopped /\ stopped' /\ accepting' = accepting
        /\ endS' = endS \cup {c \in server_connections : session[c].phase # "accepted"}
    BY <1>5 DEF CloseConnections, server, NetFrame
  <2>2. OneAccept'
    BY <2>1, <1>1, <1>2 DEF ServerInv, OneAccept
  <2>3. \A c \in Conns : ~Served(c)'
    <3>1. SUFFICES ASSUME NEW c \in Conns, Served(c)' PROVE FALSE
      OBVIOUS
    <3>2. Served(c) /\ session[c].phase # "accepted"
      BY <3>1, <1>1, <1>2 DEF Served, Timed, Reading
    <3>3. c \in server_connections
      BY <3>2, <2>1 DEF ServerInv, StopFinds
    <3>4. QED BY <3>1, <3>2, <3>3, <2>1 DEF Served
  <2>4. QED BY <1>3, <2>1, <2>2, <2>3 DEF ServerInv, StopFinds
<1>6. QED BY <1>3, <1>4, <1>5 DEF ServerInv

-----------------------------------------------------------------------------
(* theorems *)

\* A step of the client or of the network that leaves the sessions alone.
LEMMA ServerUntouchedKeeps ==
  ASSUME ServerInv, UNCHANGED <<session, server, listening, server_connections>>,
         endS \subseteq endS'
  PROVE  ServerInv'
<1>1. \A c \in Conns : (Accepted(c)' <=> Accepted(c)) /\ (Served(c)' => Served(c))
  BY DEF Accepted, Served
<1>2. QED BY <1>1 DEF ServerInv, SessionShape, OneAccept, StopFinds, server

\* Every handler of the server keeps the invariant.
LEMMA ServerHandlerKeeps ==
  ASSUME ServerInv, NEW c \in Conns, ServerHandler(c)
  PROVE  ServerInv'
<1>1. CASE AcceptHandler(c)
  BY <1>1, AcceptHandlerKeeps
<1>2. CASE ReadHeader(c)
  BY <1>2, ReadHeaderKeeps
<1>3. CASE ReadContent(c) \/ ReadChunk(c)
  BY <1>3, ReadRestKeeps
<1>4. CASE ReadFails(c) \/ Refused(c) \/ FinalRefused(c)
  BY <1>4, GoneKeeps DEF ReadFails, Refused, FinalRefused
<1>5. CASE FinalWritten(c)
  BY <1>5, FinalWrittenKeeps
<1>6. ASSUME NEW i \in 1..Len(session[c].writing), QueueWritten(c, i)
      PROVE  ServerInv'
  <2>1. CASE session[c].phase # "accepted"
    BY <1>6, <2>1, QueueWrittenKeeps
  <2>2. CASE session[c].phase = "accepted"
    <3>1. Len(session[c].writing) = 0
      BY <2>2 DEF ServerInv, OneAccept, Accepted
    <3>2. QED BY <3>1
  <2>3. QED BY <2>1, <2>2
<1>7. QED BY <1>1, <1>2, <1>3, <1>4, <1>5, <1>6 DEF ServerHandler

\* The server starts with no session, waiting for a connection.
LEMMA ServerInitHolds == PairInit => ServerInv
<1>1. SUFFICES ASSUME PairInit PROVE ServerInv
  OBVIOUS
<1>2. /\ listening /\ ~stopped /\ session = [c \in Conns |-> Fresh("none")]
  BY <1>1 DEF PairInit, NetInit, ServerInit
<1>3. SessionShape
  BY <1>2 DEF SessionShape, Fresh
<1>4. \A c \in Conns : ~Accepted(c) /\ ~Served(c)
  BY <1>2 DEF Accepted, Served, Fresh, Timed, Reading
<1>5. QED BY <1>2, <1>3, <1>4 DEF ServerInv, OneAccept, StopFinds

\* Every step of the server, of the client and of the faults between them keeps
\* the invariant of the server.
LEMMA ServerNextKeeps == ServerInv /\ [PairNext]_pairVars => ServerInv'
<1>1. SUFFICES ASSUME ServerInv, [PairNext]_pairVars PROVE ServerInv'
  OBVIOUS
<1> USE <1>1
<1>2. ASSUME UNCHANGED <<serverVars, endS, listening>>
      PROVE  ServerInv'
  BY <1>2, ServerUntouchedKeeps DEF serverVars
<1>3. ASSUME NEW r \in Requests, Handler(r) \/ ConnectFails(r) \/ Expire(r) \/ Request(r)
      PROVE  UNCHANGED <<endS, listening>>
  BY <1>3 DEF Handler, Resolved, Connected, ConnectFails, Written, HeaderRead, HeaderFails,
         ContentRead, ChunkRead, BodyFails, UntilEof, EventRead, ReadFrame, HandlerFrame,
         Expire, Request, netVars
<1>4. ASSUME NEW c \in Conns, OnExpired(c)
      PROVE  UNCHANGED <<endS, listening>>
  BY <1>4 DEF OnExpired
<1>5. ASSUME NEW destroyed \in BOOLEAN, Stop(destroyed)
      PROVE  UNCHANGED <<endS, listening>>
  BY <1>5 DEF Stop
<1>6. ASSUME NEW c \in Conns, Accept(c) \/ ServerHandler(c) \/ AppRelease(c) \/ AppSend(c)
      PROVE  ServerInv'
  BY <1>6, AcceptKeeps, ServerHandlerKeeps, SendingKeeps
<1>7. ASSUME NEW c \in Conns, ServerExpire(c) \/ OnServerExpired(c)
      PROVE  ServerInv'
  BY <1>7, ServerUntouchedKeeps DEF ServerExpire, OnServerExpired, netVars, NetFrame
<1>8. ASSUME NEW r \in Requests,
             ClientStep(Handler(r)) \/ ClientConnectFails(r) \/ ClientExpires(r)
                \/ ClientStep(Request(r))
      PROVE  ServerInv'
  <2>1. UNCHANGED serverVars /\ (Handler(r) \/ ConnectFails(r) \/ Expire(r) \/ Request(r))
    BY <1>8 DEF ClientStep, ClientConnectFails, ClientExpires
  <2>2. QED BY <2>1, <1>2, <1>3
<1>9. CASE Progress
  <2>1. ASSUME NEW c \in Conns,
               \/ ClientStep(OnExpired(c)) \/ ServerExpires(c)
               \/ ServerStep(Accept(c) \/ ServerHandler(c) \/ AppRelease(c) \/ OnServerExpired(c))
        PROVE  ServerInv'
    BY <2>1, <1>2, <1>4, <1>6, <1>7 DEF ClientStep, ServerExpires, ServerStep
  <2>2. QED BY <1>9, <1>8, <2>1 DEF Progress
<1>10. ASSUME NEW destroyed \in BOOLEAN, Stop(destroyed) /\ UNCHANGED serverVars
       PROVE  ServerInv'
  BY <1>10, <1>2, <1>5
<1>11. CASE PairNext /\ ~Progress
  BY <1>11, <1>6, <1>8, <1>10, StopKeeps DEF PairNext, ServerStep
<1>12. CASE UNCHANGED pairVars
  BY <1>12, <1>2 DEF pairVars, netVars
<1>13. QED BY <1>9, <1>11, <1>12

\* The invariant holds of the pair, whatever its client does.
THEOREM ServerInvariant == PairSpec => []ServerInv
<1>1. PairInit => ServerInv
  BY ServerInitHolds
<1>2. ServerInv /\ [PairNext]_pairVars => ServerInv'
  BY ServerNextKeeps
<1>3. QED BY <1>1, <1>2, PTL DEF PairSpec

\* However many connections are open when stop comes, and whatever is under
\* way on them, it closes all but the one whose accept is being handled.
THEOREM StopReaches == PairSpec => []StopReachesAllButOne
<1>1. ServerInv => StopReachesAllButOne
  BY DEF ServerInv, StopFinds, StopReachesAllButOne, Served
<1>2. QED BY <1>1, ServerInvariant, PTL

=============================================================================
