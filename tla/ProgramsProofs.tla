--------------------------- MODULE ProgramsProofs ---------------------------
(***************************************************************************)
(* Proofs about the programs: synchronous requests, for any number of      *)
(* threads and of exceptions out of them; downloaded playlists, for any    *)
(* playlists and any number of runs; downloads in blocks, for items of     *)
(* every length and whatever order the workers come in; the loops of       *)
(* AddDownItems, for every list and every content of the queues; the       *)
(* conversions, for texts of every length.                                 *)
(***************************************************************************)
EXTENDS Programs, TextParsersProofs, FiniteSetTheorems

-----------------------------------------------------------------------------
(* synchronous requests *)

SyncTypes ==
  /\ at \in [Threads -> {"out", "posted", "running", "draining", "ran"}]
  /\ sent \in [Threads -> Nat] /\ result \in [Threads -> {"none", "answer"}]
  /\ stopped \in BOOLEAN
  /\ \A r \in pending : r \in Threads \X Nat /\ r[2] <= sent[r[1]]

\* The threads concurrent_synchronous_requests counts.
Counted == {t \in Threads : at[t] \in {"running", "draining", "ran"}}

\* The io_service is stopped only while somebody is there to restart it, or is
\* thought to be, once a handler threw a thread out that is still counted.
Restarted ==
  /\ concurrent_synchronous_requests \in Nat
  /\ IF thrown = {} THEN concurrent_synchronous_requests = Cardinality(Counted)
     ELSE concurrent_synchronous_requests > Cardinality(Counted)
  /\ stopped => concurrent_synchronous_requests # 0
  /\ \A t \in Threads : at[t] = "ran" => stopped

\* A request that met no other.
Alone(t) == Inside(t) /\ Latest(t) \notin overlapped

\* Such a request is the only one, and either still has its callback to come,
\* on an io_service that runs, or its answer, as long as no handler throws.
AloneAnswered ==
  thrown = {} => \A t \in Threads : Alone(t) =>
    /\ \A u \in Threads : u # t => ~Inside(u)
    /\ at[t] \in {"posted", "running"} => ~stopped /\ (Latest(t) \in pending \/ result[t] = "answer")
    /\ at[t] \in {"draining", "ran"} => result[t] = "answer"

\* Callbacks still to come are those of the requests threads wait for, of
\* requests that met another or that a handler threw out of, or come no more.
Owned ==
  /\ ~(stopped /\ thrown # {}) =>
       \A r \in pending : r \in overlapped \cup thrown \/ (r = Latest(r[1]) /\ Inside(r[1]))
  /\ \A t \in Threads : Inside(t) /\ result[t] = "answer" => Latest(t) \notin pending
  /\ strayed \subseteq overlapped \cup thrown

SyncInv == SyncTypes /\ Restarted /\ AloneAnswered /\ Owned

\* The threads counted as inside a synchronous request are finitely many.
LEMMA CountedFinite == IsFiniteSet(Counted) /\ Cardinality(Counted) \in Nat
BY FS_Subset, FS_CardinalityType, SyncAssumption DEF Counted

\* Posting the request on the shared io_service.
LEMMA PostKeeps ==
  ASSUME SyncInv, NEW t \in Threads, Post(t)
  PROVE  SyncInv'
<1> USE DEF SyncInv
<1> DEFINE n == sent[t] + 1
           others == {u \in Threads : u # t /\ Inside(u)}
<1>1. /\ at[t] = "out" /\ at' = [at EXCEPT ![t] = "posted"]
      /\ sent' = [sent EXCEPT ![t] = n] /\ pending' = pending \cup {<<t, n>>}
      /\ result' = [result EXCEPT ![t] = "none"]
      /\ overlapped' = IF others = {} THEN overlapped
                       ELSE overlapped \cup {Latest(u) : u \in others} \cup {<<t, n>>}
      /\ UNCHANGED <<stopped, concurrent_synchronous_requests, strayed, thrown>>
  BY DEF Post, Moves
<1>2. /\ n \in Nat /\ Latest(t)' = <<t, n>> /\ at'[t] = "posted" /\ result'[t] = "none"
      /\ \A u \in Threads : u # t => /\ at'[u] = at[u] /\ Latest(u)' = Latest(u)
                                     /\ result'[u] = result[u] /\ sent'[u] = sent[u]
  BY <1>1 DEF SyncTypes, Latest
<1>3. SyncTypes'
  <2>1. \A r \in pending' : r \in Threads \X Nat /\ r[2] <= sent'[r[1]]
    <3>1. SUFFICES ASSUME NEW r \in pending' PROVE r \in Threads \X Nat /\ r[2] <= sent'[r[1]]
      OBVIOUS
    <3>2. CASE r = <<t, n>>
      BY <3>2, <1>1, <1>2 DEF SyncTypes
    <3>3. CASE r \in pending
      BY <3>3, <1>1, <1>2 DEF SyncTypes
    <3>4. QED BY <3>1, <3>2, <3>3, <1>1
  <2>2. QED BY <2>1, <1>1, <1>2 DEF SyncTypes
<1>4. Counted' = Counted
  BY <1>1 DEF Counted, SyncTypes
<1>5. Restarted'
  BY <1>1, <1>2, <1>4 DEF Restarted
<1>6. <<t, n>> \notin pending
  BY <1>2 DEF SyncTypes
<1>7. AloneAnswered'
  <2>1. ASSUME NEW u \in Threads, u # t, Alone(u)'
        PROVE  FALSE
    <3>1. u \in others /\ Latest(u) \in overlapped'
      BY <2>1, <1>1, <1>2 DEF Alone, Inside
    <3>2. QED BY <3>1, <2>1, <1>2 DEF Alone
  <2>2. ASSUME thrown = {}, Alone(t)'
        PROVE  /\ \A u \in Threads : u # t => ~Inside(u)'
               /\ ~stopped' /\ Latest(t)' \in pending'
    <3>1. \A u \in Threads : ~Inside(u)
      BY <2>2, <1>1, <1>2 DEF Alone, Inside
    <3>2. Counted = {}
      BY <3>1 DEF Counted, Inside
    <3>3. ~stopped
      BY <2>2, <3>2, FS_EmptySet DEF Restarted
    <3>4. QED BY <3>1, <3>3, <1>1, <1>2 DEF Inside
  <2>3. QED BY <2>1, <2>2, <1>1, <1>2 DEF AloneAnswered
<1>8. Owned'
  <2>1. ASSUME ~(stopped /\ thrown # {}), NEW r \in pending'
        PROVE  r \in overlapped' \cup thrown \/ (r = Latest(r[1])' /\ Inside(r[1])')
    <3>1. CASE r = <<t, n>>
      BY <3>1, <1>2 DEF Inside
    <3>2. CASE r \in pending /\ r[1] = t
      BY <2>1, <3>2, <1>1 DEF Owned, Inside
    <3>3. CASE r \in pending /\ r[1] # t
      BY <2>1, <3>3, <1>1, <1>2 DEF Owned, Inside, SyncTypes
    <3>4. QED BY <2>1, <3>1, <3>2, <3>3, <1>1
  <2>2. ASSUME NEW u \in Threads, Inside(u)', result'[u] = "answer"
        PROVE  Latest(u)' \notin pending'
    <3>1. u # t
      BY <2>2, <1>2
    <3>2. Latest(u)' # <<t, n>>
      BY <3>1, <1>2 DEF Latest
    <3>3. QED BY <2>2, <3>1, <3>2, <1>1, <1>2 DEF Owned, Inside
  <2>3. QED BY <2>1, <2>2, <1>1 DEF Owned
<1>9. QED BY <1>3, <1>5, <1>7, <1>8

\* Counting the thread in, under the mutex.
LEMMA CountKeeps ==
  ASSUME SyncInv, NEW t \in Threads, Count(t)
  PROVE  SyncInv'
<1> USE DEF SyncInv
<1>1. /\ at[t] = "posted" /\ at' = [at EXCEPT ![t] = "running"]
      /\ concurrent_synchronous_requests' = concurrent_synchronous_requests + 1
      /\ UNCHANGED <<result, pending, stopped, sent, overlapped, strayed, thrown>>
  BY DEF Count, Moves, HistoryFrame
<1>2. /\ at'[t] = "running" /\ \A u \in Threads : u # t => at'[u] = at[u]
      /\ \A u \in Threads : Latest(u)' = Latest(u) /\ (Inside(u)' <=> Inside(u))
  BY <1>1 DEF SyncTypes, Latest, Inside
<1>3. SyncTypes'
  BY <1>1 DEF SyncTypes
<1>4. Counted' = Counted \cup {t} /\ t \notin Counted
  BY <1>1, <1>2 DEF Counted
<1>5. Cardinality(Counted') = Cardinality(Counted) + 1
  BY <1>4, CountedFinite, FS_AddElement
<1>6. Restarted'
  BY <1>1, <1>2, <1>5, CountedFinite DEF Restarted
<1>7. AloneAnswered'
  BY <1>1, <1>2 DEF AloneAnswered, Alone
<1>8. Owned'
  BY <1>1, <1>2 DEF Owned, SyncTypes
<1>9. QED BY <1>3, <1>6, <1>7, <1>8

\* Running a handler, whoever posted it.
LEMMA RunHandlerKeeps ==
  ASSUME SyncInv, NEW t \in Threads, RunHandler(t)
  PROVE  SyncInv'
<1> USE DEF SyncInv
<1>1. PICK r \in pending :
        /\ pending' = pending \ {r}
        /\ IF r = Latest(r[1]) /\ Inside(r[1])
           THEN result' = [result EXCEPT ![r[1]] = "answer"] /\ UNCHANGED strayed
           ELSE strayed' = strayed \cup {r} /\ UNCHANGED result
  BY DEF RunHandler
<1>2. UNCHANGED <<at, sent, stopped, concurrent_synchronous_requests, overlapped, thrown>> /\ ~stopped
  BY DEF RunHandler
<1>3. \A u \in Threads : Latest(u)' = Latest(u) /\ (Inside(u)' <=> Inside(u)) /\ Latest(u)[1] = u
  BY <1>2 DEF Latest, Inside
<1>4. r[1] \in Threads /\ \A u \in Threads : u # r[1] => result'[u] = result[u]
  BY <1>1 DEF SyncTypes
<1>5. SyncTypes' /\ Restarted'
  BY <1>1, <1>2 DEF SyncTypes, Restarted, Counted
<1>6. \A u \in Threads : Alone(u)' <=> Alone(u)
  BY <1>2, <1>3 DEF Alone
<1>7. ASSUME NEW u \in Threads, Inside(u)
      PROVE  /\ result[u] = "answer" => result'[u] = "answer"
             /\ r = Latest(u) => result'[u] = "answer"
             /\ result'[u] = "answer" => result[u] = "answer" \/ r = Latest(u)
  BY <1>1, <1>3, <1>4, <1>7 DEF SyncTypes
<1>8. AloneAnswered'
  BY <1>1, <1>2, <1>3, <1>6, <1>7 DEF AloneAnswered, Alone
<1>9. Owned'
  <2>1. \A q \in pending' : q \in overlapped' \cup thrown' \/ (q = Latest(q[1])' /\ Inside(q[1])')
    BY <1>1, <1>2, <1>3 DEF Owned, SyncTypes
  <2>2. \A u \in Threads : Inside(u)' /\ result'[u] = "answer" => Latest(u)' \notin pending'
    BY <1>1, <1>3, <1>7 DEF Owned
  <2>3. strayed' \subseteq overlapped' \cup thrown'
    BY <1>1, <1>2 DEF Owned
  <2>4. QED BY <2>1, <2>2, <2>3 DEF Owned
<1>10. QED BY <1>5, <1>8, <1>9

\* A handler throws a thread out of run and of its request.
LEMMA ThrowKeeps ==
  ASSUME SyncInv, NEW t \in Threads, HandlerThrows(t)
  PROVE  SyncInv'
<1> USE DEF SyncInv
<1>1. /\ at[t] = "running" /\ at' = [at EXCEPT ![t] = "out"] /\ ~stopped
      /\ pending' \subseteq pending /\ thrown' = thrown \cup {Latest(t)}
      /\ UNCHANGED <<sent, result, stopped, concurrent_synchronous_requests, overlapped, strayed>>
  BY DEF HandlerThrows, Moves
<1>2. /\ at'[t] = "out" /\ \A u \in Threads : u # t => at'[u] = at[u]
      /\ \A u \in Threads : Latest(u)' = Latest(u)
      /\ ~Inside(t)' /\ \A u \in Threads : u # t => (Inside(u)' <=> Inside(u))
  BY <1>1 DEF SyncTypes, Latest, Inside
<1>3. SyncTypes'
  BY <1>1 DEF SyncTypes
<1>4. Counted' = Counted \ {t} /\ t \in Counted
  BY <1>1, <1>2 DEF Counted
<1>5. Cardinality(Counted') = Cardinality(Counted) - 1
  BY <1>4, CountedFinite, FS_RemoveElement
<1>6. Restarted'
  BY <1>1, <1>2, <1>5, CountedFinite DEF Restarted
<1>7. AloneAnswered'
  BY <1>1 DEF AloneAnswered
<1>8. Owned'
  <2>1. \A r \in pending : r[1] \in Threads
    BY DEF SyncTypes
  <2>2. ASSUME NEW r \in pending
        PROVE  r \in overlapped \cup thrown' \/ (r = Latest(r[1])' /\ Inside(r[1])')
    BY <2>1, <2>2, <1>1, <1>2 DEF Owned
  <2>3. QED BY <2>2, <1>1, <1>2 DEF Owned
<1>9. QED BY <1>3, <1>6, <1>7, <1>8

\* The thread moves on within run, which sets the flag or leaves it.
LEMMA RunningKeeps ==
  ASSUME SyncInv, NEW t \in Threads, Drain(t) \/ RunReturns(t)
  PROVE  SyncInv'
<1> USE DEF SyncInv
<1>1. PICK w \in {"draining", "ran"} :
        /\ at' = [at EXCEPT ![t] = w]
        /\ \/ at[t] = "running" /\ pending = {} /\ UNCHANGED stopped
           \/ at[t] = "running" /\ stopped /\ stopped'
           \/ at[t] = "draining" /\ stopped'
        /\ w = "ran" => stopped'
        /\ UNCHANGED <<result, pending, concurrent_synchronous_requests, sent, overlapped, strayed,
                       thrown>>
  BY DEF Drain, RunReturns, Moves, HistoryFrame
<1>2. /\ at'[t] = w /\ \A u \in Threads : u # t => at'[u] = at[u]
      /\ \A u \in Threads : Latest(u)' = Latest(u) /\ (Inside(u)' <=> Inside(u))
  BY <1>1 DEF SyncTypes, Latest, Inside
<1>3. stopped' \in BOOLEAN /\ SyncTypes'
  BY <1>1 DEF SyncTypes
<1>4. Counted' = Counted /\ t \in Counted
  BY <1>1, <1>2 DEF Counted
<1>5. Restarted'
  <2>1. Cardinality(Counted) # 0
    BY <1>4, CountedFinite, FS_EmptySet
  <2>2. QED BY <2>1, <1>1, <1>2, <1>4, CountedFinite DEF Restarted
<1>6. AloneAnswered'
  <2>1. SUFFICES ASSUME thrown = {}, NEW u \in Threads, Alone(u)
                 PROVE  /\ \A v \in Threads : v # u => ~Inside(v)'
                        /\ at'[u] \in {"posted", "running"} =>
                             ~stopped' /\ (Latest(u)' \in pending' \/ result'[u] = "answer")
                        /\ at'[u] \in {"draining", "ran"} => result'[u] = "answer"
    BY <1>1, <1>2 DEF AloneAnswered, Alone
  <2>2. u = t
    BY <2>1, <1>1 DEF AloneAnswered, Inside
  <2>3. result[u] = "answer"
    BY <2>1, <2>2, <1>1 DEF AloneAnswered
  <2>4. QED BY <2>1, <2>2, <2>3, <1>1, <1>2 DEF AloneAnswered
<1>7. Owned'
  BY <1>1, <1>2 DEF Owned, SyncTypes
<1>8. QED BY <1>3, <1>5, <1>6, <1>7

\* Counting the thread out, with or without an answer.
LEMMA LeaveKeeps ==
  ASSUME SyncInv, NEW t \in Threads, LeaveSync(t)
  PROVE  SyncInv'
<1> USE DEF SyncInv
<1>1. /\ at[t] = "ran" /\ at' = [at EXCEPT ![t] = "out"]
      /\ concurrent_synchronous_requests' = concurrent_synchronous_requests - 1
      /\ stopped' = (stopped /\ concurrent_synchronous_requests' # 0)
      /\ UNCHANGED <<result, pending, sent, overlapped, strayed, thrown>>
  BY DEF LeaveSync, Moves, HistoryFrame
<1>2. /\ at'[t] = "out" /\ \A u \in Threads : u # t => at'[u] = at[u]
      /\ \A u \in Threads : Latest(u)' = Latest(u)
      /\ ~Inside(t)' /\ \A u \in Threads : u # t => (Inside(u)' <=> Inside(u))
  BY <1>1 DEF SyncTypes, Latest, Inside
<1>3. stopped' \in BOOLEAN
  BY <1>1
<1>4. SyncTypes'
  BY <1>1, <1>3 DEF SyncTypes
<1>5. Counted' = Counted \ {t} /\ t \in Counted
  BY <1>1, <1>2 DEF Counted
<1>6. Cardinality(Counted') = Cardinality(Counted) - 1
  BY <1>5, CountedFinite, FS_RemoveElement
<1>7. Restarted' /\ (thrown # {} => stopped')
  <2>1. stopped /\ concurrent_synchronous_requests \in Nat /\ Cardinality(Counted) >= 1
    BY <1>1, <1>5, CountedFinite, FS_EmptySet DEF Restarted
  <2>2. CASE thrown # {}
    <3>1. concurrent_synchronous_requests > Cardinality(Counted) /\ Cardinality(Counted) \in Nat
      BY <2>2, CountedFinite DEF Restarted
    <3>2. /\ concurrent_synchronous_requests' \in Nat
          /\ concurrent_synchronous_requests' > Cardinality(Counted')
          /\ concurrent_synchronous_requests' # 0
      BY <2>1, <3>1, <1>1, <1>6
    <3>3. stopped' /\ thrown' # {}
      BY <2>1, <2>2, <3>2, <1>1
    <3>4. QED BY <3>2, <3>3 DEF Restarted
  <2>3. CASE thrown = {}
    <3>1. concurrent_synchronous_requests' = Cardinality(Counted')
      BY <2>3, <1>1, <1>6 DEF Restarted
    <3>2. ASSUME NEW u \in Threads, at'[u] = "ran"
          PROVE  Cardinality(Counted') # 0
      <4>1. u \in Counted' /\ IsFiniteSet(Counted')
        BY <3>2, <1>5, CountedFinite, FS_RemoveElement DEF Counted
      <4>2. QED BY <4>1, FS_EmptySet
    <3>3. concurrent_synchronous_requests' \in Nat
      <4>1. Cardinality(Counted) \in Nat
        BY CountedFinite
      <4>2. QED BY <2>1, <3>1, <4>1, <1>6
    <3>4. stopped' <=> concurrent_synchronous_requests' # 0
      BY <2>1, <1>1
    <3>5. thrown' = {}
      BY <2>3, <1>1
    <3>6. QED BY <2>3, <3>1, <3>2, <3>3, <3>4, <3>5 DEF Restarted
  <2>4. QED BY <2>2, <2>3
<1>8. AloneAnswered'
  BY <1>1, <1>2 DEF AloneAnswered, Alone
<1>9. Owned'
  <2>1. ASSUME thrown = {}, NEW r \in pending, r = Latest(t)
        PROVE  r \in overlapped
    <3>1. Inside(t) /\ result[t] # "answer"
      BY <2>1, <1>1 DEF Owned, Inside
    <3>2. QED BY <3>1, <2>1, <1>1 DEF AloneAnswered, Alone
  <2>2. \A r \in pending : r[1] \in Threads
    BY DEF SyncTypes
  <2>3. thrown = {} => \A r \in pending : r \in overlapped \/ (r = Latest(r[1])' /\ Inside(r[1])')
    BY <2>1, <2>2, <1>2 DEF Owned
  <2>4. QED BY <2>3, <1>1, <1>2, <1>7 DEF Owned
<1>10. QED BY <1>4, <1>7, <1>8, <1>9

\* No thread is inside a synchronous request at first.
LEMMA SyncInitHolds == ProgramsInit => SyncInv
<1>1. SUFFICES ASSUME SyncInit PROVE SyncInv
  BY DEF ProgramsInit
<1>2. SyncTypes /\ AloneAnswered /\ Owned
  BY <1>1 DEF SyncInit, SyncTypes, AloneAnswered, Alone, Inside, Owned
<1>3. Counted = {}
  BY <1>1 DEF SyncInit, Counted
<1>4. Restarted
  BY <1>1, <1>3, FS_EmptySet DEF SyncInit, Restarted
<1>5. QED BY <1>2, <1>4 DEF SyncInv

\* Every step of the programs keeps the invariant of the synchronous requests.
LEMMA SyncNextKeeps == SyncInv /\ [ProgramsNext]_programVars => SyncInv'
<1>1. SUFFICES ASSUME SyncInv, [ProgramsNext]_programVars PROVE SyncInv'
  OBVIOUS
<1>2. SyncNext \/ UNCHANGED syncVars
  BY <1>1 DEF ProgramsNext, Runs, Others, programVars
<1>3. CASE UNCHANGED syncVars
  BY <1>1, <1>3 DEF syncVars, SyncInv, SyncTypes, Restarted, Counted, AloneAnswered, Alone,
                    Inside, Latest, Owned
<1>4. CASE SyncNext
  BY <1>1, <1>4, PostKeeps, CountKeeps, RunHandlerKeeps, ThrowKeeps, RunningKeeps,
     LeaveKeeps DEF SyncNext
<1>5. QED BY <1>2, <1>3, <1>4

\* Any number of threads may share a client: a request that meets no other is
\* answered, and the io_service is never left stopped, until a handler throws;
\* after that it is never restarted, and callbacks only stray into the frames of
\* requests that met another or were left by an exception.
THEOREM SyncAnswered == ProgramsSpec => []EmptyHandedOnlyInGap
<1>1. SyncInv => EmptyHandedOnlyInGap
  <2>1. SUFFICES ASSUME SyncInv PROVE EmptyHandedOnlyInGap
    OBVIOUS
  <2>2. ASSUME thrown = {}
        PROVE  \A t \in Threads : at[t] = "ran" /\ result[t] = "none" => Latest(t) \in overlapped
    BY <2>1, <2>2 DEF SyncInv, AloneAnswered, Alone, Inside
  <2>3. ASSUME thrown = {}, \A t \in Threads : ~Inside(t)
        PROVE  ~stopped
    <3>1. Counted = {}
      BY <2>3 DEF Counted, Inside
    <3>2. QED BY <2>1, <2>3, <3>1, FS_EmptySet DEF SyncInv, Restarted
  <2>4. stopped => concurrent_synchronous_requests > 0
    BY <2>1 DEF SyncInv, Restarted
  <2>5. QED BY <2>1, <2>2, <2>3, <2>4 DEF EmptyHandedOnlyInGap, SyncInv, Owned
<1>2. QED BY <1>1, SyncInitHolds, SyncNextKeeps, PTL DEF ProgramsSpec

-----------------------------------------------------------------------------
(* files of one run *)

DiskAnswers == [run : Nat, lists : Playlists \cup SubLists \cup {<<>>}]

AnswersOf(r) == \A p \in DOMAIN files : \A i \in DOMAIN files[p] : files[p][i].run = r

\* A run writes only into a directory it made, and it makes none where
\* anything was left: before that the files are those of one earlier run.
DiskInv ==
  /\ run \in Nat /\ \A p \in DOMAIN files : files[p] \in Seq(DiskAnswers)
  /\ Root \in dirs \/ DOMAIN files = {}
  /\ step_of_run \in {"index", "items", "item", "streams"} => Root \in dirs /\ AnswersOf(run)
  /\ \E r \in Nat : AnswersOf(r)

\* A step of the downloads proper, which leaves the files or appends to one.
LEMMA WritingKeeps ==
  ASSUME DiskInv, step_of_run \in {"index", "items", "item", "streams"}, run' = run,
         dirs \subseteq dirs',
         \/ files' = files
         \/ \E p : \E ok \in BOOLEAN, lists \in Playlists \cup SubLists \cup {<<>>} :
              files' = Appended(p, lists, ok)
  PROVE  DiskInv'
<1>1. Root \in dirs' /\ AnswersOf(run)
  BY DEF DiskInv
<1>2. CASE files' = files
  BY <1>1, <1>2 DEF DiskInv, AnswersOf
<1>3. ASSUME NEW p, NEW ok \in BOOLEAN, NEW lists \in Playlists \cup SubLists \cup {<<>>},
             files' = Appended(p, lists, ok)
      PROVE  DiskInv'
  <2> DEFINE answer == [run |-> run, lists |-> IF ok THEN lists ELSE <<>>]
             old == IF p \in DOMAIN files THEN files[p] ELSE <<>>
  <2>1. files' = [q \in DOMAIN files \cup {p} |-> IF q = p THEN Append(old, answer) ELSE files[q]]
    BY <1>3 DEF Appended
  <2>2. answer \in DiskAnswers /\ old \in Seq(DiskAnswers)
    <3>1. (IF ok THEN lists ELSE <<>>) \in Playlists \cup SubLists \cup {<<>>}
      OBVIOUS
    <3>2. answer \in DiskAnswers
      BY <3>1 DEF DiskInv, DiskAnswers
    <3>3. <<>> \in Seq(DiskAnswers)
      OBVIOUS
    <3>4. old \in Seq(DiskAnswers)
      BY <3>3 DEF DiskInv
    <3>5. QED BY <3>2, <3>4
  <2>3. \A i \in DOMAIN old : old[i].run = run
    BY <1>1 DEF AnswersOf
  <2> HIDE DEF old
  <2>4. \A i \in DOMAIN Append(old, answer) : Append(old, answer)[i].run = run
    <3>1. SUFFICES ASSUME NEW i \in DOMAIN Append(old, answer)
                   PROVE  Append(old, answer)[i].run = run
      OBVIOUS
    <3>2. i \in 1..(Len(old) + 1)
      BY <2>2
    <3>3. CASE i = Len(old) + 1
      BY <2>2, <3>3
    <3>4. CASE i \in 1..Len(old)
      BY <2>2, <2>3, <3>4
    <3>5. QED BY <2>2, <3>2, <3>3, <3>4
  <2>5. Append(old, answer) \in Seq(DiskAnswers)
    BY <2>2
  <2>6. \A q \in DOMAIN files' : files'[q] \in Seq(DiskAnswers)
    BY <2>1, <2>5 DEF DiskInv
  <2>7. AnswersOf(run)'
    BY <2>1, <2>4, <1>1 DEF AnswersOf
  <2>8. QED BY <2>6, <2>7, <1>1 DEF DiskInv
<1>4. QED BY <1>2, <1>3

\* Every step of the programs keeps the files on the disk those of one run.
LEMMA DiskNextKeeps == DiskInv /\ [ProgramsNext]_programVars => DiskInv'
<1>1. SUFFICES ASSUME DiskInv, [ProgramsNext]_programVars PROVE DiskInv'
  OBVIOUS
<1> USE <1>1
<1>2. PlaylistNext \/ UNCHANGED playlistVars
  BY DEF ProgramsNext, Runs, Others, programVars
<1>3. CASE UNCHANGED playlistVars
  BY <1>3 DEF playlistVars, diskVars, DiskInv, AnswersOf
<1>4. CASE StartRun
  BY <1>4 DEF StartRun, At, Goto, diskVars, DiskInv, AnswersOf
<1>5. CASE DeleteRoot
  <2>1. step_of_run' = "create" /\ run' = run
    BY <1>5 DEF DeleteRoot, Goto
  <2>2. CASE dirs' = {} /\ files' = NoFiles
    BY <2>1, <2>2 DEF DiskInv, AnswersOf, NoFiles
  <2>3. ASSUME Root \in dirs, dirs' = dirs, NEW kept \in SUBSET DOMAIN files,
               files' = [p \in kept |-> files[p]]
        PROVE  DiskInv'
    BY <2>1, <2>3, ZenonT(60) DEF DiskInv, AnswersOf
  <2>4. QED BY <1>5, <2>2, <2>3 DEF DeleteRoot
<1>6. CASE CreateRoot
  <2>1. run' = run /\ files' = files
    BY <1>6 DEF CreateRoot
  <2>2. CASE dirs' \in MakeDir(Root) /\ step_of_run' = "index"
    <3>1. dirs' = dirs \cup {Root} /\ Root \notin dirs
      BY <2>2 DEF MakeDir
    <3>2. DOMAIN files = {}
      BY <3>1 DEF DiskInv
    <3>3. QED BY <2>1, <2>2, <3>1, <3>2 DEF DiskInv, AnswersOf
  <2>3. CASE dirs' = dirs /\ step_of_run' = "over"
    BY <2>1, <2>3 DEF DiskInv, AnswersOf
  <2>4. QED BY <1>6, <2>2, <2>3 DEF CreateRoot, Goto
<1>7. CASE GetPlaylist
  <2>1. PICK lists \in Playlists, ok \in BOOLEAN : files' = Appended(<<IndexName>>, lists, ok)
    BY <1>7 DEF GetPlaylist
  <2>2. step_of_run = "index" /\ run' = run /\ dirs \subseteq dirs'
    BY <1>7 DEF GetPlaylist, At
  <2>3. QED BY <2>1, <2>2, WritingKeeps
<1>8. CASE GetMedia \/ GetItem \/ GetSequence
  <2>1. step_of_run \in {"items", "item", "streams"} /\ run' = run /\ dirs \subseteq dirs'
    BY <1>8 DEF GetMedia, GetItem, GetSequence, At
  <2>2. \/ files' = files
        \/ \E p : \E ok \in BOOLEAN, lists \in SubLists \cup {<<>>} : files' = Appended(p, lists, ok)
    BY <1>8 DEF GetMedia, GetItem, GetSequence
  <2>3. QED BY <2>1, <2>2, WritingKeeps
<1>9. CASE MakeItemDir
  <2>1. dirs \subseteq dirs' /\ files' = files /\ run' = run /\ step_of_run = "items"
    BY <1>9 DEF MakeItemDir, MakeDir, At
  <2>2. QED BY <2>1, WritingKeeps
<1>10. CASE EndStreams \/ EndRun
  BY <1>10 DEF EndStreams, EndRun, At, Goto, diskVars, DiskInv, AnswersOf
<1>11. QED BY <1>2, <1>3, <1>4, <1>5, <1>6, <1>7, <1>8, <1>9, <1>10 DEF PlaylistNext

\* For any playlists, and however runs end, the disk never holds files, or a
\* file answers, of two runs.
THEOREM OneRunOnDisk == ProgramsSpec => []FilesOfOneRun
<1>1. ProgramsInit => DiskInv
  <2>1. SUFFICES ASSUME PlaylistInit PROVE DiskInv
    BY DEF ProgramsInit, PlaylistIdle
  <2>2. DOMAIN files = {} /\ run = 0 /\ step_of_run = "over"
    BY <2>1 DEF PlaylistInit, NoFiles
  <2>3. QED BY <2>2 DEF DiskInv, AnswersOf
<1>2. DiskInv => FilesOfOneRun
  BY DEF DiskInv, AnswersOf, FilesOfOneRun
<1>3. QED BY <1>1, <1>2, DiskNextKeeps, PTL DEF ProgramsSpec

-----------------------------------------------------------------------------
(* downloads in blocks *)

Answers == [url : {"none", "item", "single"}, begin : Int, end : Int]

BlockTypes ==
  /\ m_DownInfo \in [Slots -> [sUrl : {"none", "single"}, iRangeBegin : Int, iRangeEnd : Int,
                               readBuffer : Answers, bDoComplete : BOOLEAN, bStartFlag : BOOLEAN]]
  /\ worker \in [Slots -> {"none", "top", "looking", "fetching", "complete", "clear", "ended"}]
  /\ caller \in {"constructed", "ready", "blocks", "crashed", "deleted"}
  /\ call \in [fn : {"none", "One", "Two", "Three"}, len : Lengths \cup {0}, next : 0..3,
              old : 0..1]

\* The range of block i of the call, and a block that has it.
Expected(i) ==
  IF call.fn # "Three" THEN <<RangeBegin(call.len, i), RangeEnd(call.len, i)>>
  ELSE IF i = 0 THEN <<0, SplitAt>> ELSE <<SplitAt + 1, call.len>>
IsBlock(block, i) == block.begin = Expected(i)[1] /\ block.end = Expected(i)[2]

\* The buffer of a slot holds what was asked for last.
Answered(i) ==
  /\ m_DownInfo[i].readBuffer.begin = m_DownInfo[i].iRangeBegin
  /\ m_DownInfo[i].readBuffer.end = m_DownInfo[i].iRangeEnd

\* A worker that is busy has a slot that is not free, as long as the object
\* lives, and what it leaves complete is the answer to the slot's range.
SlotsAnswered ==
  \A i \in Slots :
    /\ caller # "deleted" /\ worker[i] \in {"fetching", "complete", "clear"}
         => m_DownInfo[i].bStartFlag
    /\ worker[i] \in {"complete", "clear"} \/ m_DownInfo[i].bDoComplete => Answered(i)

Filling == caller = "blocks" /\ call.fn = "Two"

\* Slots are free but while downloadMediaTwo runs, which fills them in order.
SlotsFilled ==
  \A i \in Slots :
    /\ caller # "deleted" /\ ~Filling => ~m_DownInfo[i].bStartFlag
    /\ Filling => IF i < call.next
                  THEN /\ m_DownInfo[i].iRangeBegin = RangeBegin(call.len, i)
                       /\ m_DownInfo[i].iRangeEnd = RangeEnd(call.len, i)
                  ELSE ~m_DownInfo[i].bStartFlag

\* What has been written, behind what the file held, are the call's blocks in
\* order; downloadMediaTwo writes nothing before it joins them.
StreamInv ==
  /\ caller = "constructed" => call.fn = "none"
  /\ caller \in {"blocks", "ready"} /\ ~Filling /\ call.fn # "none" =>
       /\ m_hlsstream \in Seq(Answers) /\ Len(m_hlsstream) = call.old + call.next
       /\ \A i \in 0..(call.next - 1) : IsBlock(m_hlsstream[call.old + i + 1], i)
  /\ Filling => m_hlsstream \in Seq(Answers) /\ Len(m_hlsstream) = call.old
  /\ caller = "ready" /\ call.fn # "none" => call.next = Blocks

BlockInv == BlockTypes /\ SlotsAnswered /\ SlotsFilled /\ StreamInv

-----------------------------------------------------------------------------
(* the workers *)

\* The ranges computed from a length, and those a slot is expected to hold, are
\* pairs of integers, as the provers must know to compare them.
LEMMA RangesAreIntegers ==
  ASSUME BlockTypes
  PROVE  /\ call.len \in Int /\ Part3(call.len) \in Int
         /\ \A i \in 0..3 : /\ RangeBegin(call.len, i) \in Int /\ RangeEnd(call.len, i) \in Int
                            /\ Expected(i)[1] \in Int /\ Expected(i)[2] \in Int
                            /\ Expected(i) = <<Expected(i)[1], Expected(i)[2]>>
<1>1. call.len \in Int
  <2>1. call.len \in Lengths \cup {0}
    BY DEF BlockTypes
  <2>2. Lengths \subseteq Int
    BY BlockAssumption
  <2>3. CASE call.len = 0
    BY <2>3
  <2>4. CASE call.len \in Lengths
    BY <2>2, <2>4
  <2>5. QED BY <2>1, <2>3, <2>4
<1>2. Part3(call.len) \in Int
  BY <1>1 DEF Part3, MAX_THREAD_NUM
<1>3. \A i \in 0..3 : RangeBegin(call.len, i) \in Int /\ RangeEnd(call.len, i) \in Int
  BY <1>2 DEF RangeBegin, RangeEnd
<1>4. QED BY <1>1, <1>2, <1>3, BlockAssumption DEF Expected

\* A worker keeps the invariant: it touches its own slot, which the caller
\* leaves alone until it is free.
LEMMA WorkerKeeps ==
  ASSUME BlockInv, NEW i \in Slots, Worker(i)
  PROVE  BlockInv'
<1> USE DEF BlockInv
<1>1. UNCHANGED <<caller, call, m_hlsstream>>
  BY DEF Worker, TestExit, TestStart, FetchBlock, CompleteBlock, Free, CallerFrame
<1>2. StreamInv'
  BY <1>1 DEF StreamInv, Filling, IsBlock, Expected, Blocks
<1>3. CASE TestExit(i) \/ TestStart(i)
  <2>1. m_DownInfo' = m_DownInfo
    BY <1>3 DEF TestExit, TestStart
  <2>2. PICK w \in {"ended", "looking", "fetching", "top"} :
          /\ worker' = [worker EXCEPT ![i] = w]
          /\ w = "fetching" => m_DownInfo[i].bStartFlag \/ caller = "deleted"
    BY <1>3 DEF TestExit, TestStart, Goes
  <2>3. BlockTypes'
    BY <1>1, <2>1, <2>2 DEF BlockTypes
  <2>4. SlotsAnswered'
    BY <1>1, <2>1, <2>2 DEF BlockTypes, SlotsAnswered, Answered
  <2>5. SlotsFilled'
    BY <1>1, <2>1 DEF SlotsFilled, Filling
  <2>6. QED BY <1>2, <2>3, <2>4, <2>5
<1>4. CASE FetchBlock(i)
  <2>1. m_DownInfo' = [m_DownInfo EXCEPT ![i].readBuffer =
                         Block(m_DownInfo[i].sUrl, m_DownInfo[i].iRangeBegin,
                               m_DownInfo[i].iRangeEnd)]
    BY <1>4 DEF FetchBlock
  <2>2. worker[i] = "fetching" /\ worker' = [worker EXCEPT ![i] = "complete"]
    BY <1>4 DEF FetchBlock, Goes
  <2>3. /\ BlockTypes'
        /\ \A j \in Slots : j # i => m_DownInfo'[j] = m_DownInfo[j] /\ worker'[j] = worker[j]
        /\ m_DownInfo'[i].bStartFlag = m_DownInfo[i].bStartFlag /\ worker'[i] = "complete"
        /\ m_DownInfo'[i].iRangeBegin = m_DownInfo[i].iRangeBegin
        /\ m_DownInfo'[i].iRangeEnd = m_DownInfo[i].iRangeEnd
        /\ Answered(i)'
    BY <1>1, <2>1, <2>2 DEF BlockTypes, Block, Answers, Answered
  <2>4. SlotsAnswered'
    BY <1>1, <2>2, <2>3 DEF SlotsAnswered, Answered
  <2>5. SlotsFilled'
    BY <1>1, <2>3 DEF SlotsFilled, Filling
  <2>6. QED BY <1>2, <2>3, <2>4, <2>5
<1>5. CASE CompleteBlock(i)
  <2>1. /\ m_DownInfo' = [m_DownInfo EXCEPT ![i].bDoComplete = TRUE]
        /\ worker[i] = "complete" /\ worker' = [worker EXCEPT ![i] = "clear"]
    BY <1>5 DEF CompleteBlock, Goes
  <2>2. /\ BlockTypes'
        /\ \A j \in Slots : j # i => m_DownInfo'[j] = m_DownInfo[j] /\ worker'[j] = worker[j]
        /\ m_DownInfo'[i].bStartFlag = m_DownInfo[i].bStartFlag /\ worker'[i] = "clear"
        /\ m_DownInfo'[i].iRangeBegin = m_DownInfo[i].iRangeBegin
        /\ m_DownInfo'[i].iRangeEnd = m_DownInfo[i].iRangeEnd
        /\ m_DownInfo'[i].readBuffer = m_DownInfo[i].readBuffer
    BY <1>1, <2>1 DEF BlockTypes
  <2>3. SlotsAnswered'
    BY <1>1, <2>1, <2>2 DEF SlotsAnswered, Answered
  <2>4. SlotsFilled'
    BY <1>1, <2>2 DEF SlotsFilled, Filling
  <2>5. QED BY <1>2, <2>2, <2>3, <2>4
<1>6. CASE Free(i)
  <2>1. /\ m_DownInfo' = [m_DownInfo EXCEPT ![i].bStartFlag = FALSE]
        /\ worker[i] = "clear" /\ worker' = [worker EXCEPT ![i] = "top"]
    BY <1>6 DEF Free, Goes
  <2>2. /\ BlockTypes'
        /\ \A j \in Slots : j # i => m_DownInfo'[j] = m_DownInfo[j] /\ worker'[j] = worker[j]
        /\ ~m_DownInfo'[i].bStartFlag /\ worker'[i] = "top"
        /\ m_DownInfo'[i].iRangeBegin = m_DownInfo[i].iRangeBegin
        /\ m_DownInfo'[i].iRangeEnd = m_DownInfo[i].iRangeEnd
        /\ m_DownInfo'[i].readBuffer = m_DownInfo[i].readBuffer
        /\ m_DownInfo'[i].bDoComplete = m_DownInfo[i].bDoComplete
    BY <1>1, <2>1 DEF BlockTypes
  <2>3. SlotsAnswered'
    BY <1>1, <2>1, <2>2 DEF SlotsAnswered, Answered
  <2>4. SlotsFilled'
    BY <1>1, <2>2 DEF SlotsFilled, Filling
  <2>5. QED BY <1>2, <2>2, <2>3, <2>4
<1>7. QED BY <1>3, <1>4, <1>5, <1>6 DEF Worker

-----------------------------------------------------------------------------
(* the caller *)

\* Steps of the caller that touch no slot and no worker.
LEMMA SlotsLeftAlone ==
  ASSUME BlockInv, UNCHANGED <<m_DownInfo, worker>>, ~Filling',
         \/ caller' = "deleted"
         \/ caller # "deleted" /\ \A i \in Slots : ~m_DownInfo[i].bStartFlag
  PROVE  SlotsAnswered' /\ SlotsFilled'
<1>1. CASE caller' = "deleted"
  BY <1>1 DEF BlockInv, SlotsAnswered, SlotsFilled, Answered
<1>2. CASE caller # "deleted" /\ \A i \in Slots : ~m_DownInfo[i].bStartFlag
  BY <1>2 DEF BlockInv, SlotsAnswered, SlotsFilled, Answered
<1>3. QED BY <1>1, <1>2

\* The worker threads are started, or not, while every slot is free.
LEMMA StartKeeps ==
  ASSUME BlockInv, InitDownloadThread \/ NoThreads
  PROVE  BlockInv'
<1> USE DEF BlockInv
<1>1. /\ caller = "constructed" /\ caller' = "ready" /\ UNCHANGED <<m_DownInfo, call, m_hlsstream>>
      /\ \/ worker' = worker
         \/ \E unset \in SUBSET Slots :
              worker' = [i \in Slots |-> IF i \in unset THEN "none" ELSE "top"]
  BY DEF InitDownloadThread, NoThreads, AtCaller
<1>2. BlockTypes'
  BY <1>1 DEF BlockTypes
<1>3. call.fn = "none"
  BY <1>1 DEF StreamInv
<1>4. SlotsAnswered' /\ SlotsFilled'
  BY <1>1, <1>3 DEF SlotsAnswered, SlotsFilled, Filling, Answered
<1>5. StreamInv'
  BY <1>1, <1>3 DEF StreamInv, Filling
<1>6. QED BY <1>2, <1>4, <1>5

\* A call begins with every slot free, as an earlier one left them.
LEMMA BeginCallKeeps ==
  ASSUME BlockInv, NEW fn \in {"One", "Two", "Three"}, BeginCall(fn)
  PROVE  BlockInv'
<1> USE DEF BlockInv
<1>1. PICK len \in Lengths, file \in {<<>>, <<NoBlock>>} :
        /\ call' = [fn |-> fn, len |-> len, next |-> 0, old |-> Len(file)]
        /\ caller' \in {"blocks"} \cup IF fn # "Three" /\ Part3(len) = 0 THEN {"crashed"} ELSE {}
        /\ m_hlsstream' = file
  BY DEF BeginCall
<1>2. /\ caller = "ready" /\ UNCHANGED <<m_DownInfo, worker>>
      /\ file \in Seq(Answers) /\ Len(file) \in 0..1
  <2>1. NoBlock \in Answers
    BY DEF NoBlock, Block, Answers
  <2> DEFINE none == NoBlock
  <2> HIDE DEF none
  <2>2. /\ <<>> \in Seq(Answers) /\ Len(<<>>) = 0
        /\ <<none>> \in Seq(Answers) /\ Len(<<none>>) = 1
    BY <2>1 DEF none
  <2>3. file \in Seq(Answers) /\ Len(file) \in 0..1
    <3>1. CASE file = <<>>
      BY <2>2, <3>1
    <3>2. CASE file = <<none>>
      BY <2>2, <3>2
    <3>3. QED BY <3>1, <3>2 DEF none
  <2>4. QED BY <2>3 DEF BeginCall, AtCaller, WorkerFrame
<1>3. BlockTypes'
  BY <1>1, <1>2 DEF BlockTypes
<1>4. \A i \in Slots : ~m_DownInfo[i].bStartFlag
  BY <1>2 DEF SlotsFilled, Filling
<1>5. SlotsAnswered'
  BY <1>2 DEF SlotsAnswered, Answered
<1>6. SlotsFilled'
  BY <1>1, <1>2, <1>4 DEF SlotsFilled, Slots
<1>7. StreamInv'
  BY <1>1, <1>2 DEF StreamInv, Filling, IsBlock
<1>8. QED BY <1>3, <1>5, <1>6, <1>7

\* downloadBlock appends the call's next block to those written before.
LEMMA DownloadBlockKeeps ==
  ASSUME BlockInv, DownloadBlock
  PROVE  BlockInv'
<1> USE DEF BlockInv
<1>1. /\ caller = "blocks" /\ caller' = "blocks" /\ call.fn # "Two" /\ call.next < Blocks
      /\ call' = [call EXCEPT !.next = @ + 1]
      /\ UNCHANGED <<m_DownInfo, worker>>
  BY DEF DownloadBlock, AtCaller, WorkerFrame
<1>2. m_hlsstream' = Append(m_hlsstream, Block("item", NextRange[1], NextRange[2]))
  BY DEF DownloadBlock
<1>3. /\ call.next \in 0..2 /\ call'.next = call.next + 1 /\ call'.fn = call.fn
      /\ call.old \in 0..1 /\ call'.old = call.old /\ call'.len = call.len /\ BlockTypes'
  BY <1>1 DEF BlockTypes, Blocks, MAX_THREAD_NUM
<1>4. SlotsAnswered' /\ SlotsFilled'
  BY <1>1, <1>3 DEF SlotsAnswered, SlotsFilled, Filling, Answered
<1>5. /\ NextRange[1] = Expected(call.next)[1] /\ NextRange[2] = Expected(call.next)[2]
      /\ NextRange[1] \in Int /\ NextRange[2] \in Int
  BY <1>3, RangesAreIntegers DEF NextRange, Expected
<1>6. Block("item", NextRange[1], NextRange[2]) \in Answers
  BY <1>5 DEF Block, Answers
<1>7. CASE call.fn # "none"
  <2>1. /\ m_hlsstream \in Seq(Answers) /\ Len(m_hlsstream) = call.old + call.next
        /\ \A i \in 0..(call.next - 1) : IsBlock(m_hlsstream[call.old + i + 1], i)
    BY <1>1, <1>7 DEF StreamInv, Filling
  <2>2. /\ m_hlsstream' \in Seq(Answers) /\ Len(m_hlsstream') = call.old + call.next + 1
        /\ m_hlsstream'[call.old + call.next + 1] = Block("item", NextRange[1], NextRange[2])
        /\ \A i \in 0..(call.next - 1) : m_hlsstream'[call.old + i + 1] = m_hlsstream[call.old + i + 1]
    <3> DEFINE new == Block("item", NextRange[1], NextRange[2])
    <3> HIDE DEF new
    <3>1. m_hlsstream' = Append(m_hlsstream, new) /\ new \in Answers
      BY <1>2, <1>6 DEF new
    <3>2. /\ m_hlsstream' \in Seq(Answers) /\ Len(m_hlsstream') = Len(m_hlsstream) + 1
          /\ m_hlsstream'[Len(m_hlsstream) + 1] = new
          /\ \A j \in 1..Len(m_hlsstream) : m_hlsstream'[j] = m_hlsstream[j]
      BY <3>1, <2>1
    <3>3. \A i \in 0..(call.next - 1) : call.old + i + 1 \in 1..Len(m_hlsstream)
      BY <2>1, <1>3
    <3>4. QED BY <3>2, <3>3, <2>1, <1>3 DEF new
  <2>3. \A i \in 0..2 : Expected(i)' = Expected(i)
    BY <1>3 DEF Expected
  <2>4. \A i \in 0..call.next : IsBlock(m_hlsstream[call.old + i + 1], i)'
    <3>1. SUFFICES ASSUME NEW i \in 0..call.next PROVE IsBlock(m_hlsstream[call.old + i + 1], i)'
      OBVIOUS
    <3>2. CASE i = call.next
      BY <3>2, <1>3, <1>5, <2>2, <2>3 DEF IsBlock, Block
    <3>3. CASE i # call.next
      <4>1. i \in 0..(call.next - 1) /\ i \in 0..2
        BY <3>3, <1>3
      <4>2. /\ IsBlock(m_hlsstream[call.old + i + 1], i) /\ Expected(i)' = Expected(i)
            /\ m_hlsstream'[call'.old + i + 1] = m_hlsstream[call.old + i + 1]
        BY <4>1, <2>1, <2>2, <2>3, <1>3
      <4>3. QED BY <4>2 DEF IsBlock
    <3>4. QED BY <3>2, <3>3
  <2>5. ~Filling'
    BY <1>1, <1>3 DEF Filling
  <2>6. QED BY <1>1, <1>3, <1>4, <2>2, <2>4, <2>5 DEF StreamInv
<1>8. CASE call.fn = "none"
  BY <1>1, <1>3, <1>4, <1>8 DEF StreamInv, Filling
<1>9. QED BY <1>7, <1>8

\* The slot filled next is free, so it takes the call's range, whatever the
\* workers do meanwhile with the slots filled before it.
LEMMA FillSlotKeeps ==
  ASSUME BlockInv, FillSlot
  PROVE  BlockInv'
<1> USE DEF BlockInv
<1> DEFINE k == call.next
<1>1. /\ caller = "blocks" /\ call.fn = "Two" /\ k < Blocks
      /\ call' = [call EXCEPT !.next = @ + 1]
      /\ UNCHANGED <<worker, caller, m_hlsstream>>
  BY DEF FillSlot, AtCaller, WorkerFrame
<1>2. k \in Slots /\ ~m_DownInfo[k].bStartFlag
  <2>1. k \in Slots
    BY <1>1 DEF BlockTypes, Blocks, Slots, MAX_THREAD_NUM
  <2>2. QED BY <2>1, <1>1 DEF SlotsFilled, Filling, Slots
<1>3. m_DownInfo' = [m_DownInfo EXCEPT ![k] =
                       [sUrl |-> "single", iRangeBegin |-> RangeBegin(call.len, k),
                        iRangeEnd |-> RangeEnd(call.len, k), readBuffer |-> NoBlock,
                        bDoComplete |-> FALSE, bStartFlag |-> TRUE]]
  BY <1>1, <1>2 DEF FillSlot, NextRange
<1>4. /\ k \in 0..2 /\ call'.next = k + 1 /\ call'.fn = call.fn /\ call'.len = call.len
      /\ call' \in [fn : {"none", "One", "Two", "Three"}, len : Lengths \cup {0}, next : 0..3,
                     old : 0..1]
      /\ call'.old = call.old
  BY <1>1, <1>2 DEF BlockTypes, Slots, MAX_THREAD_NUM
<1>5. /\ m_DownInfo'[k].bStartFlag /\ ~m_DownInfo'[k].bDoComplete
      /\ m_DownInfo'[k].iRangeBegin = RangeBegin(call.len, k)
      /\ m_DownInfo'[k].iRangeEnd = RangeEnd(call.len, k)
      /\ \A j \in Slots : j # k => m_DownInfo'[j] = m_DownInfo[j]
  BY <1>2, <1>3 DEF BlockTypes
<1>6. BlockTypes'
  <2>1. RangeBegin(call.len, k) \in Int /\ RangeEnd(call.len, k) \in Int
    BY <1>4, RangesAreIntegers
  <2>2. NoBlock \in Answers
    BY DEF NoBlock, Block, Answers
  <2>3. QED BY <1>1, <1>2, <1>3, <1>4, <2>1, <2>2 DEF BlockTypes
<1>7. worker[k] \notin {"fetching", "complete", "clear"}
  BY <1>1, <1>2 DEF SlotsAnswered
<1>8. SlotsAnswered'
  BY <1>1, <1>5, <1>7 DEF SlotsAnswered, Answered
<1>9. SlotsFilled'
  <2>1. SUFFICES ASSUME NEW i \in Slots
                 PROVE  IF i < k + 1
                        THEN /\ m_DownInfo'[i].iRangeBegin = RangeBegin(call.len, i)
                             /\ m_DownInfo'[i].iRangeEnd = RangeEnd(call.len, i)
                        ELSE ~m_DownInfo'[i].bStartFlag
    BY <1>1, <1>4 DEF SlotsFilled, Filling
  <2>2. CASE i = k
    BY <2>2, <1>4, <1>5
  <2>3. CASE i # k
    <3>1. i < k + 1 <=> i < k
      BY <2>3, <1>4 DEF Slots, MAX_THREAD_NUM
    <3>2. QED BY <2>3, <3>1, <1>1, <1>5 DEF SlotsFilled, Filling
  <2>4. QED BY <2>2, <2>3
<1>10. StreamInv'
  BY <1>1, <1>4 DEF StreamInv, Filling
<1>11. QED BY <1>6, <1>8, <1>9, <1>10

\* What is joined are the answers to this call's ranges, for every slot was
\* filled by it and is complete.
LEMMA JoinKeeps ==
  ASSUME BlockInv, Join
  PROVE  BlockInv'
<1> USE DEF BlockInv
<1>1. /\ caller = "blocks" /\ caller' = "ready" /\ call.fn = "Two" /\ call.next = 3 /\ Blocks = 3
      /\ m_hlsstream' = m_hlsstream \o [i \in 1..3 |-> m_DownInfo[i - 1].readBuffer]
      /\ UNCHANGED <<m_DownInfo, call, worker>>
      /\ \A i \in Slots : ~m_DownInfo[i].bStartFlag /\ m_DownInfo[i].bDoComplete
  BY DEF Join, AtCaller, WorkerFrame, AllComplete, Blocks, MAX_THREAD_NUM
<1>2. BlockTypes'
  BY <1>1 DEF BlockTypes
<1>3. SlotsAnswered' /\ SlotsFilled'
  BY <1>1, SlotsLeftAlone DEF Filling
<1>4. \A i \in 0..2 : /\ m_DownInfo[i].readBuffer \in Answers
                      /\ IsBlock(m_DownInfo[i].readBuffer, i)
  <2>1. SUFFICES ASSUME NEW i \in 0..2
                 PROVE  m_DownInfo[i].readBuffer \in Answers /\ IsBlock(m_DownInfo[i].readBuffer, i)
    OBVIOUS
  <2>2. i \in Slots
    BY DEF Slots, MAX_THREAD_NUM
  <2>3. m_DownInfo[i].iRangeBegin = RangeBegin(call.len, i)
        /\ m_DownInfo[i].iRangeEnd = RangeEnd(call.len, i)
    BY <1>1, <2>2 DEF SlotsFilled, Filling
  <2>4. Answered(i)
    BY <1>1, <2>2 DEF SlotsAnswered
  <2>5. IsBlock(m_DownInfo[i].readBuffer, i)
    BY <1>1, <2>3, <2>4 DEF Answered, IsBlock, Expected
  <2>6. m_DownInfo[i].readBuffer \in Answers
    BY <2>2 DEF BlockTypes
  <2>7. QED BY <2>5, <2>6
<1>5. /\ m_hlsstream' \in Seq(Answers) /\ Len(m_hlsstream') = call.old + 3
      /\ \A i \in 0..2 : m_hlsstream'[call.old + i + 1] = m_DownInfo[i].readBuffer
  <2> DEFINE joined == [i \in 1..3 |-> m_DownInfo[i - 1].readBuffer]
  <2>1. \A i \in 1..3 : i - 1 \in 0..2
    OBVIOUS
  <2>2. joined \in Seq(Answers) /\ Len(joined) = 3
    BY <2>1, <1>4
  <2>3. \A i \in 0..2 : i + 1 \in 1..3 /\ joined[i + 1] = m_DownInfo[i].readBuffer
    <3>1. \A i \in 0..2 : i + 1 \in 1..3 /\ (i + 1) - 1 = i
      OBVIOUS
    <3>2. QED BY <3>1
  <2>4. m_hlsstream' = m_hlsstream \o joined
    BY <1>1
  <2> HIDE DEF joined
  <2>5. m_hlsstream \in Seq(Answers) /\ Len(m_hlsstream) = call.old /\ call.old \in 0..1
    BY <1>1 DEF StreamInv, Filling, BlockTypes
  <2>6. m_hlsstream' \in Seq(Answers) /\ Len(m_hlsstream') = call.old + 3
    <3>1. m_hlsstream \o joined \in Seq(Answers)
      BY <2>2, <2>5, ConcatProperties
    <3>2. Len(m_hlsstream \o joined) = Len(m_hlsstream) + Len(joined)
      BY <2>2, <2>5, ConcatProperties
    <3>3. QED BY <3>1, <3>2, <2>2, <2>4, <2>5
  <2>7. \A i \in 0..2 : m_hlsstream'[call.old + i + 1] = joined[i + 1]
    <3>1. \A i \in 0..2 : call.old + i + 1 = Len(m_hlsstream) + (i + 1) /\ i + 1 \in 1..Len(joined)
      BY <2>2, <2>5
    <3>2. ASSUME NEW j \in 1..Len(joined)
          PROVE  (m_hlsstream \o joined)[Len(m_hlsstream) + j] = joined[j]
      <4> DEFINE k == Len(m_hlsstream) + j
      <4>1. /\ k \in 1..(Len(m_hlsstream) + Len(joined)) /\ ~(k <= Len(m_hlsstream))
            /\ k - Len(m_hlsstream) = j
        BY <2>2, <2>5
      <4> HIDE DEF k
      <4>2. (m_hlsstream \o joined)[k] = joined[k - Len(m_hlsstream)]
        BY <4>1, <2>2, <2>5, ConcatProperties
      <4>3. QED BY <4>1, <4>2 DEF k
    <3>3. QED BY <3>1, <3>2, <2>4
  <2>8. QED BY <2>3, <2>6, <2>7
<1>6. StreamInv'
  <2>1. \A i \in 0..2 : IsBlock(m_hlsstream[call.old + i + 1], i)'
    BY <1>1, <1>4, <1>5 DEF IsBlock, Expected
  <2>2. 0..(call.next - 1) = 0..2 /\ Blocks' = 3
    BY <1>1 DEF Blocks, MAX_THREAD_NUM
  <2>3. ~Filling'
    BY <1>1 DEF Filling
  <2>4. QED BY <1>1, <1>5, <2>1, <2>2, <2>3 DEF StreamInv
<1>7. QED BY <1>2, <1>3, <1>6

\* A call ends with all its blocks written, and the object after a call.
LEMMA EndKeeps ==
  ASSUME BlockInv, EndCall \/ Delete
  PROVE  BlockInv'
<1> USE DEF BlockInv
<1>1. /\ UNCHANGED <<m_DownInfo, worker, call, m_hlsstream>> /\ ~Filling /\ ~Filling'
      /\ \/ caller = "blocks" /\ caller' = "ready" /\ call.next = Blocks
         \/ caller = "ready" /\ caller' = "deleted"
  BY DEF EndCall, Delete, AtCaller, WorkerFrame, Filling
<1>2. BlockTypes'
  BY <1>1 DEF BlockTypes
<1>3. SlotsAnswered' /\ SlotsFilled'
  BY <1>1, SlotsLeftAlone DEF SlotsFilled
<1>4. StreamInv'
  BY <1>1 DEF StreamInv, IsBlock, Expected, Blocks
<1>5. QED BY <1>2, <1>3, <1>4

-----------------------------------------------------------------------------
(* the invariant *)

\* The block downloader starts with free slots and no stream.
LEMMA BlockInitHolds == ProgramsInit => BlockInv
<1>1. SUFFICES ASSUME BlockInit PROVE BlockInv
  BY DEF ProgramsInit
<1>2. NoBlock \in Answers /\ NoBlock.begin = 0 /\ NoBlock.end = 0
  BY DEF NoBlock, Block, Answers
<1>3. BlockTypes
  BY <1>1, <1>2 DEF BlockInit, BlockTypes, FreeSlot, NoCall
<1>4. SlotsAnswered /\ SlotsFilled
  BY <1>1 DEF BlockInit, SlotsAnswered, SlotsFilled, FreeSlot, Filling
<1>5. StreamInv
  BY <1>1 DEF BlockInit, StreamInv, NoCall
<1>6. QED BY <1>3, <1>4, <1>5 DEF BlockInv

\* Every step of the programs keeps the invariant of the block downloader: the
\* steps of the others leave its variables alone.
LEMMA BlockNextKeeps == BlockInv /\ [ProgramsNext]_programVars => BlockInv'
<1>1. SUFFICES ASSUME BlockInv, [ProgramsNext]_programVars PROVE BlockInv'
  OBVIOUS
<1> USE <1>1
<1>2. BlockNext \/ UNCHANGED blockVars
  BY DEF ProgramsNext, Runs, Others, programVars
<1>3. CASE UNCHANGED blockVars
  BY <1>3 DEF blockVars, BlockInv, BlockTypes, SlotsAnswered, Answered, SlotsFilled, Filling,
              StreamInv, IsBlock, Expected, Blocks
<1>4. ASSUME NEW i \in Slots, Worker(i)
      PROVE  BlockInv'
  BY <1>4, WorkerKeeps
<1>5. CASE Caller
  BY <1>5, StartKeeps, BeginCallKeeps, DownloadBlockKeeps, FillSlotKeeps, JoinKeeps, EndKeeps
     DEF Caller
<1>6. QED BY <1>2, <1>3, <1>4, <1>5 DEF BlockNext

\* The invariant holds whatever the length of items and the order of workers.
THEOREM BlockInvariant == ProgramsSpec => []BlockInv
<1>1. QED BY BlockInitHolds, BlockNextKeeps, PTL DEF ProgramsSpec

\* No answer to an earlier call is joined to what the file held, though caller
\* and workers tell each other what is new by two flags only.
THEOREM JoinsFresh == ProgramsSpec => []JoinedBlocksAreFresh
<1>1. BlockInv => JoinedBlocksAreFresh
  <2>1. SUFFICES ASSUME BlockInv, Returned("Two") PROVE JoinedBlocksAreFresh
    BY DEF JoinedBlocksAreFresh
  <2>2. call.next = 3 /\ Len(m_hlsstream) = call.old + 3
    BY <2>1 DEF BlockInv, StreamInv, Returned, Blocks, Filling, MAX_THREAD_NUM
  <2>3. ASSUME NEW i \in Slots
        PROVE  /\ m_hlsstream[call.old + i + 1].begin = RangeBegin(call.len, i)
               /\ m_hlsstream[call.old + i + 1].end = RangeEnd(call.len, i)
    <3>1. i \in 0..(call.next - 1)
      BY <2>2 DEF Slots, MAX_THREAD_NUM
    <3>2. IsBlock(m_hlsstream[call.old + i + 1], i)
      BY <2>1, <3>1 DEF BlockInv, StreamInv, Returned, Filling
    <3>3. QED BY <2>1, <3>2 DEF IsBlock, Expected, Returned
  <2>4. QED BY <2>2, <2>3 DEF JoinedBlocksAreFresh, MAX_THREAD_NUM
<1>2. QED BY <1>1, BlockInvariant, PTL

-----------------------------------------------------------------------------
(* the loops of AddDownItems *)

LoopTypes ==
  /\ m_s_hlsList \in Seq(Names) /\ before \in Seq(Names) /\ m_compelteQueue \in Seq(Names)
  /\ Len(before) <= DOWN_NUM /\ it \in Nat \ {0} /\ iCount \in Nat /\ bFirstFlag \in BOOLEAN
  /\ pc \in {"enter", "first", "second", "done"}

\* The list position that is queued first.
Start == StartPos(m_s_hlsList, before, m_compelteQueue)

\* What the call would have queued had it ended before list position k.
QueuedUpTo(from, k) == before \o SubSeq(m_s_hlsList, from, k - 1)

\* The first loop: with the flag up it is behind strlast and has queued what
\* lies between; with the flag down it has met no strlast yet.
FirstLoopInv ==
  /\ strlast = StrLast(before, m_compelteQueue)
  /\ it = iCount + 1 /\ iCount <= Scanned(m_s_hlsList)
  /\ IF bFirstFlag
     THEN /\ Start <= it /\ Len(before) + it - Start <= DOWN_NUM
          /\ m_downQueue = QueuedUpTo(Start, it)
     ELSE /\ ~(before = <<>> /\ m_compelteQueue = <<>>)
          /\ \A k \in 1..iCount : m_s_hlsList[k] # strlast
          /\ m_downQueue = before

\* The second loop: the scan met no strlast, or there was no room to begin with.
SecondLoopInv ==
  /\ it <= Len(m_s_hlsList) + 1 /\ Len(before) + it - 1 <= DOWN_NUM
  /\ Start = 1 \/ Len(before) = DOWN_NUM
  /\ m_downQueue = QueuedUpTo(1, it)

LoopInv ==
  /\ LoopTypes
  /\ pc = "enter" => m_downQueue = before /\ it = 1 /\ iCount = 0
  /\ pc = "first" => FirstLoopInv
  /\ pc = "second" => SecondLoopInv
  /\ LoopsComputeAddDownItems

\* What is queued once the item at list position k is queued too.
LEMMA QueuedGrows ==
  ASSUME NEW S, NEW p \in Seq(S), NEW q \in Seq(S),
         NEW from \in 1..(Len(q) + 1), NEW k \in from..(Len(q) + 1)
  PROVE  /\ p \o SubSeq(q, from, k - 1) \in Seq(S)
         /\ Len(p \o SubSeq(q, from, k - 1)) = Len(p) + k - from
         /\ k <= Len(q) => Append(p \o SubSeq(q, from, k - 1), q[k]) = p \o SubSeq(q, from, k)
<1> DEFINE part == SubSeq(q, from, k - 1)
<1>1. /\ Len(q) \in Nat /\ Len(p) \in Nat /\ from \in Nat \ {0} /\ k \in Nat
      /\ \A i \in 1..Len(q) : q[i] \in S
  BY LenProperties, ElementOfSeq
<1>2. /\ part \in Seq(S) /\ Len(part) = k - from
  <2>1. \A i \in from..(k - 1) : q[i] \in S
    BY <1>1
  <2>2. /\ part \in Seq(S)
        /\ Len(part) = IF from <= k - 1 THEN k - 1 - from + 1 ELSE 0
    BY <1>1, <2>1, SubSeqProperties
  <2>3. QED BY <1>1, <2>2
<1> HIDE DEF part
<1>3. p \o part \in Seq(S) /\ Len(p \o part) = Len(p) + k - from
  <2>1. p \o part \in Seq(S) /\ Len(p \o part) = Len(p) + Len(part)
    BY <1>2, ConcatProperties
  <2>2. QED BY <2>1, <1>1, <1>2
<1>4. ASSUME k <= Len(q)
      PROVE  Append(p \o part, q[k]) = p \o SubSeq(q, from, k)
  <2>1. from \in 1..Len(q) /\ k \in from..Len(q) /\ q[k] \in S
    BY <1>1, <1>4
  <2>2. SubSeq(q, from, k) = part \o <<q[k]>>
    BY <2>1, SubSeqRecursiveSecond DEF part
  <2>3. Append(p \o part, q[k]) = (p \o part) \o <<q[k]>>
    BY <1>3, <2>1, AppendIsConcat
  <2>4. (p \o part) \o <<q[k]>> = p \o (part \o <<q[k]>>)
    <3>1. <<q[k]>> \in Seq(S)
      BY <2>1
    <3>2. QED BY <3>1, <1>2, ConcatAssociative, SMTT(40)
  <2>5. QED BY <2>2, <2>3, <2>4
<1>5. QED BY <1>3, <1>4 DEF part

\* The list and the queues are sequences of names.
LEMMA ListsTyped ==
  ASSUME LoopInv PROVE m_s_hlsList \in Seq(Names) /\ before \in Seq(Names)
BY DEF LoopInv, LoopTypes

\* The part of the list the scan reaches, and where it can leave off.
LEMMA ScanFacts ==
  ASSUME LoopTypes
  PROVE  /\ DOWN_NUM \in Nat \ {0} /\ Len(m_s_hlsList) \in Nat /\ Len(before) \in Nat
         /\ Scanned(m_s_hlsList) \in Nat /\ Scanned(m_s_hlsList) <= Len(m_s_hlsList)
         /\ Scanned(m_s_hlsList) <= DOWN_NUM
         /\ Scanned(m_s_hlsList) = Len(m_s_hlsList) \/ Scanned(m_s_hlsList) = DOWN_NUM
         /\ Start \in 1..(Scanned(m_s_hlsList) + 1)
<1> DEFINE n == Scanned(m_s_hlsList)
           found == Matches(m_s_hlsList, StrLast(before, m_compelteQueue))
<1>1. /\ DOWN_NUM \in Nat \ {0} /\ Len(m_s_hlsList) \in Nat /\ Len(before) \in Nat
      /\ n \in Nat /\ n <= Len(m_s_hlsList) /\ n <= DOWN_NUM
      /\ n = Len(m_s_hlsList) \/ n = DOWN_NUM
  BY QueueSizes, LenProperties DEF LoopTypes, Scanned, LeastOf
<1>2. found \subseteq 1..n
  BY DEF Matches
<1> HIDE DEF n, found
<1>3. CASE found = {}
  BY <1>1, <1>3 DEF Start, StartPos, found, n
<1>4. CASE found # {}
  <2>1. found \subseteq Nat
    BY <1>1, <1>2
  <2> DEFINE least == CHOOSE k \in found : \A j \in found : k <= j
  <2>2. \E k \in found : \A j \in found : k <= j
    BY <1>4, <2>1, LeastNumber
  <2>3. least \in found
    BY <2>2
  <2>4. Start = 1 \/ Start = 1 + least
    BY DEF Start, StartPos, found
  <2> HIDE DEF least
  <2>5. Start \in 1..(n + 1)
    BY <1>1, <1>2, <2>3, <2>4
  <2>6. QED BY <1>1, <2>5 DEF n
<1>5. QED BY <1>1, <1>3, <1>4 DEF n

\* The scan that meets strlast first at position k starts behind it.
LEMMA StartBehind ==
  ASSUME LoopTypes, ~(before = <<>> /\ m_compelteQueue = <<>>),
         NEW k \in 1..Scanned(m_s_hlsList),
         m_s_hlsList[k] = StrLast(before, m_compelteQueue),
         \A j \in 1..(k - 1) : m_s_hlsList[j] # StrLast(before, m_compelteQueue)
  PROVE  Start = k + 1
<1> DEFINE found == Matches(m_s_hlsList, StrLast(before, m_compelteQueue))
<1>1. k \in found /\ k \in Int /\ \A j \in found : j \in Int /\ k <= j
  BY ScanFacts DEF Matches
<1> HIDE DEF found
<1> DEFINE least == CHOOSE i \in found : \A j \in found : i <= j
<1>2. least = k
  <2>1. least \in found /\ \A j \in found : least <= j
    BY <1>1
  <2> HIDE DEF least
  <2>2. QED BY <1>1, <2>1
<1>3. Start = 1 + least
  BY <1>1 DEF Start, StartPos, found
<1> HIDE DEF least
<1>4. QED BY <1>1, <1>2, <1>3

\* Where the first loop starts.
LEMMA FindLastKeeps == ASSUME LoopInv, FindLast PROVE LoopInv'
<1> USE DEF LoopInv
<1>1. /\ pc' = "first" /\ strlast' = StrLast(before, m_compelteQueue)
      /\ bFirstFlag' = (before = <<>> /\ m_compelteQueue = <<>>)
      /\ it = 1 /\ iCount = 0 /\ m_downQueue = before
      /\ UNCHANGED <<m_s_hlsList, m_downQueue, m_compelteQueue, before, it, iCount>>
  BY DEF FindLast
<1>2. LoopTypes' /\ Start' = Start /\ Scanned(m_s_hlsList)' = Scanned(m_s_hlsList)
  BY <1>1 DEF LoopTypes, Start, Scanned, LeastOf
<1>3. /\ Scanned(m_s_hlsList) \in Nat /\ Start \in 1..(Scanned(m_s_hlsList) + 1)
      /\ Len(before) \in Nat /\ Len(before) <= DOWN_NUM
  BY ScanFacts DEF LoopTypes
<1>4. CASE before = <<>> /\ m_compelteQueue = <<>>
  <2>1. Start = 1
    BY <1>4 DEF Start, StartPos
  <2>2. before = QueuedUpTo(1, 1)
    <3>1. SubSeq(m_s_hlsList, 1, 0) = <<>>
      BY SubSeqEmpty
    <3>2. QED BY <3>1, ConcatEmptySeq DEF QueuedUpTo, LoopTypes
  <2>3. bFirstFlag'
    BY <1>1, <1>4
  <2>4. QueuedUpTo(1, 1)' = QueuedUpTo(1, 1)
    BY <1>1 DEF QueuedUpTo
  <2>5. FirstLoopInv'
    BY <1>1, <1>2, <1>3, <2>1, <2>2, <2>3, <2>4 DEF FirstLoopInv
  <2>6. QED BY <1>1, <1>2, <2>5 DEF LoopsComputeAddDownItems
<1>5. CASE ~(before = <<>> /\ m_compelteQueue = <<>>)
  <2>1. ~bFirstFlag'
    BY <1>1, <1>5
  <2>2. FirstLoopInv'
    BY <1>1, <1>2, <1>3, <1>5, <2>1 DEF FirstLoopInv
  <2>3. QED BY <1>1, <1>2, <2>2 DEF LoopsComputeAddDownItems
<1>6. QED BY <1>4, <1>5

\* A turn of the first loop.
LEMMA FirstLoopKeeps == ASSUME LoopInv, FirstLoop PROVE LoopInv'
<1> USE DEF LoopInv
<1> DEFINE n == Scanned(m_s_hlsList)
<1>1. /\ pc = "first" /\ pc' = "first" /\ iCount' = iCount + 1 /\ it' = it + 1
      /\ iCount < DOWN_NUM /\ Len(m_downQueue) < DOWN_NUM /\ ~(it > Len(m_s_hlsList))
      /\ IF bFirstFlag
         THEN m_downQueue' = Append(m_downQueue, m_s_hlsList[it]) /\ UNCHANGED bFirstFlag
         ELSE bFirstFlag' = (strlast = m_s_hlsList[it]) /\ UNCHANGED m_downQueue
      /\ UNCHANGED <<m_s_hlsList, m_compelteQueue, before, strlast>>
  BY DEF FirstLoop, AtEnd, HasRoom
<1>2. /\ LoopTypes' /\ Start' = Start /\ n' = n
      /\ \A from, k : QueuedUpTo(from, k)' = QueuedUpTo(from, k)
  <2>1. Start' = Start /\ \A from, k : QueuedUpTo(from, k)' = QueuedUpTo(from, k)
    BY <1>1 DEF Start, QueuedUpTo
  <2>2. LoopTypes'
    <3>1. bFirstFlag' \in BOOLEAN
      BY <1>1 DEF LoopTypes
    <3>2. QED BY <1>1, <3>1 DEF LoopTypes
  <2>3. n' = n
    BY <1>1
  <2>4. QED BY <2>1, <2>2, <2>3
<1>3. /\ it \in Nat /\ iCount \in Nat /\ it = iCount + 1
      /\ strlast = StrLast(before, m_compelteQueue)
  BY <1>1 DEF LoopTypes, FirstLoopInv
<1>4. /\ DOWN_NUM \in Nat /\ Len(m_s_hlsList) \in Nat /\ Len(before) \in Nat
      /\ n \in Nat /\ n <= Len(m_s_hlsList) /\ n <= DOWN_NUM
      /\ n = Len(m_s_hlsList) \/ n = DOWN_NUM
      /\ Start \in 1..(n + 1) /\ Len(before) <= DOWN_NUM
  BY ScanFacts DEF LoopTypes
<1> HIDE DEF n
<1>5. it <= n /\ iCount' <= n /\ it' = iCount' + 1
  BY <1>1, <1>3, <1>4
<1>6. CASE bFirstFlag
  <2>1. /\ Start <= it /\ Len(before) + it - Start <= DOWN_NUM
        /\ m_downQueue = QueuedUpTo(Start, it)
    BY <1>1, <1>6 DEF FirstLoopInv
  <2>2. /\ it \in Start..(Len(m_s_hlsList) + 1) /\ it <= Len(m_s_hlsList)
        /\ Start \in 1..(Len(m_s_hlsList) + 1) /\ (it + 1) - 1 = it
    BY <1>3, <1>4, <1>5, <2>1
  <2>3. /\ Len(m_downQueue) = Len(before) + it - Start
        /\ Append(m_downQueue, m_s_hlsList[it]) = QueuedUpTo(Start, it + 1)
    <3>1. /\ Len(before \o SubSeq(m_s_hlsList, Start, it - 1)) = Len(before) + it - Start
          /\ Append(before \o SubSeq(m_s_hlsList, Start, it - 1), m_s_hlsList[it])
             = before \o SubSeq(m_s_hlsList, Start, it)
      <4>1. m_s_hlsList \in Seq(Names) /\ before \in Seq(Names)
        BY ListsTyped
      <4>2. ASSUME NEW from \in 1..(Len(m_s_hlsList) + 1), NEW k \in from..(Len(m_s_hlsList) + 1),
                   k <= Len(m_s_hlsList)
            PROVE  /\ Len(before \o SubSeq(m_s_hlsList, from, k - 1)) = Len(before) + k - from
                   /\ Append(before \o SubSeq(m_s_hlsList, from, k - 1), m_s_hlsList[k])
                      = before \o SubSeq(m_s_hlsList, from, k)
        BY <4>1, <4>2, QueuedGrows
      <4>3. QED BY <2>2, <4>2
    <3>2. QED BY <2>1, <2>2, <3>1 DEF QueuedUpTo
  <2>4. Len(before) + it' - Start <= DOWN_NUM /\ Start <= it'
    BY <1>1, <1>3, <1>4, <2>1, <2>3
  <2>5. bFirstFlag' /\ m_downQueue' = QueuedUpTo(Start, it')
    BY <1>1, <1>6, <2>3
  <2>6. QED BY <1>1, <1>2, <1>3, <1>5, <2>4, <2>5 DEF FirstLoopInv, LoopsComputeAddDownItems, n
<1>7. CASE ~bFirstFlag
  <2>1. /\ ~(before = <<>> /\ m_compelteQueue = <<>>) /\ m_downQueue = before
        /\ \A k \in 1..iCount : m_s_hlsList[k] # strlast
    BY <1>1, <1>7 DEF FirstLoopInv
  <2>2. CASE m_s_hlsList[it] = strlast
    <3>1. Start = it + 1
      <4>1. it \in 1..n /\ it - 1 = iCount
        BY <1>3, <1>4, <1>5
      <4>2. QED BY <1>3, <2>1, <2>2, <4>1, StartBehind DEF n
    <3>2. before = QueuedUpTo(it + 1, it + 1)
      <4>1. SubSeq(m_s_hlsList, it + 1, (it + 1) - 1) = <<>>
        BY <1>3, SubSeqEmpty
      <4>2. QED BY <4>1, ConcatEmptySeq DEF QueuedUpTo, LoopTypes
    <3>3. bFirstFlag' /\ m_downQueue' = QueuedUpTo(Start, it')
      BY <1>1, <1>7, <2>1, <2>2, <3>1, <3>2
    <3>4. Start <= it' /\ Len(before) + it' - Start <= DOWN_NUM
      BY <1>1, <1>3, <1>4, <3>1
    <3>5. QED BY <1>1, <1>2, <1>3, <1>5, <3>3, <3>4 DEF FirstLoopInv, LoopsComputeAddDownItems, n
  <2>3. CASE m_s_hlsList[it] # strlast
    <3>1. \A k \in 1..iCount' : m_s_hlsList[k] # strlast
      BY <1>1, <1>3, <2>1, <2>3
    <3>2. ~bFirstFlag' /\ m_downQueue' = before
      BY <1>1, <1>7, <2>1, <2>3
    <3>3. QED BY <1>1, <1>2, <1>3, <1>5, <2>1, <3>1, <3>2 DEF FirstLoopInv, LoopsComputeAddDownItems, n
  <2>4. QED BY <2>2, <2>3
<1>8. QED BY <1>6, <1>7

\* The first loop ends: with the flag up everything is queued that should be.
LEMMA FirstLoopEndsKeeps == ASSUME LoopInv, FirstLoopEnds PROVE LoopInv'
<1> USE DEF LoopInv
<1> DEFINE n == Scanned(m_s_hlsList)
           stop == LeastOf(n, Start - 1 + DOWN_NUM - Len(before))
<1>1. /\ pc = "first" /\ FirstLoopInv
      /\ iCount >= DOWN_NUM \/ ~(Len(m_downQueue) < DOWN_NUM) \/ it > Len(m_s_hlsList)
      /\ IF bFirstFlag THEN pc' = "done" /\ UNCHANGED it ELSE pc' = "second" /\ it' = 1
      /\ UNCHANGED <<m_s_hlsList, m_downQueue, m_compelteQueue, before, bFirstFlag, iCount>>
  BY DEF FirstLoopEnds, AtEnd, HasRoom
<1>2. /\ LoopTypes' /\ Start' = Start
      /\ \A from, k : QueuedUpTo(from, k)' = QueuedUpTo(from, k)
  BY <1>1 DEF LoopTypes, Start, QueuedUpTo
<1>3. /\ it \in Nat /\ iCount \in Nat /\ it = iCount + 1 /\ iCount <= n
  BY <1>1 DEF LoopTypes, FirstLoopInv
<1>4. /\ DOWN_NUM \in Nat /\ Len(m_s_hlsList) \in Nat /\ Len(before) \in Nat
      /\ n \in Nat /\ n <= Len(m_s_hlsList) /\ n <= DOWN_NUM
      /\ n = Len(m_s_hlsList) \/ n = DOWN_NUM
      /\ Start \in 1..(n + 1) /\ Len(before) <= DOWN_NUM
  BY ScanFacts DEF LoopTypes
<1>5. CASE bFirstFlag
  <2>1. /\ Start <= it /\ Len(before) + it - Start <= DOWN_NUM
        /\ m_downQueue = QueuedUpTo(Start, it)
    BY <1>1, <1>5 DEF FirstLoopInv
  <2>2. Len(m_downQueue) = Len(before) + it - Start
    <3>1. it \in Start..(Len(m_s_hlsList) + 1) /\ Start \in 1..(Len(m_s_hlsList) + 1)
      BY <1>3, <1>4, <2>1
    <3>2. Len(before \o SubSeq(m_s_hlsList, Start, it - 1)) = Len(before) + it - Start
      BY <3>1, ListsTyped, QueuedGrows
    <3>3. QED BY <2>1, <3>2 DEF QueuedUpTo
  <2>3. it - 1 = stop
    BY <1>1, <1>3, <1>4, <2>1, <2>2 DEF LeastOf
  <2>4. m_downQueue = AddDownItems(m_s_hlsList, before, m_compelteQueue)
    BY <2>1, <2>3 DEF AddDownItems, QueuedUpTo, Start
  <2>5. QED BY <1>1, <1>2, <1>5, <2>4 DEF LoopsComputeAddDownItems
<1>6. CASE ~bFirstFlag
  <2>1. /\ ~(before = <<>> /\ m_compelteQueue = <<>>) /\ m_downQueue = before
        /\ strlast = StrLast(before, m_compelteQueue)
        /\ \A k \in 1..iCount : m_s_hlsList[k] # strlast
    BY <1>1, <1>6 DEF FirstLoopInv
  <2>2. Start = 1 \/ Len(before) = DOWN_NUM
    <3>1. SUFFICES ASSUME Len(before) # DOWN_NUM PROVE Start = 1
      OBVIOUS
    <3>2. iCount = n
      BY <1>1, <1>3, <1>4, <2>1, <3>1
    <3>3. Matches(m_s_hlsList, strlast) = {}
      BY <2>1, <3>2 DEF Matches
    <3>4. QED BY <2>1, <3>3 DEF Start, StartPos
  <2>3. before = QueuedUpTo(1, 1)
    <3>1. SubSeq(m_s_hlsList, 1, 0) = <<>>
      BY SubSeqEmpty
    <3>2. QED BY <3>1, ConcatEmptySeq DEF QueuedUpTo, LoopTypes
  <2>4. QED BY <1>1, <1>2, <1>4, <1>6, <2>1, <2>2, <2>3
            DEF SecondLoopInv, LoopsComputeAddDownItems
<1>7. QED BY <1>5, <1>6

\* A turn of the second loop.
LEMMA SecondLoopKeeps == ASSUME LoopInv, SecondLoop PROVE LoopInv'
<1> USE DEF LoopInv
<1>1. /\ pc = "second" /\ pc' = "second" /\ SecondLoopInv /\ it' = it + 1
      /\ Len(m_downQueue) < DOWN_NUM /\ ~(it > Len(m_s_hlsList))
      /\ m_downQueue' = Append(m_downQueue, m_s_hlsList[it])
      /\ UNCHANGED <<m_s_hlsList, m_compelteQueue, before, bFirstFlag, iCount>>
  BY DEF SecondLoop, AtEnd, HasRoom
<1>2. /\ LoopTypes' /\ Start' = Start
      /\ \A from, k : QueuedUpTo(from, k)' = QueuedUpTo(from, k)
  BY <1>1 DEF LoopTypes, Start, QueuedUpTo
<1>3. /\ it \in Nat \ {0} /\ DOWN_NUM \in Nat /\ Len(m_s_hlsList) \in Nat /\ Len(before) \in Nat
  BY ScanFacts DEF LoopTypes
<1>4. /\ it \in 1..(Len(m_s_hlsList) + 1) /\ 1 \in 1..(Len(m_s_hlsList) + 1)
      /\ it <= Len(m_s_hlsList) /\ (it + 1) - 1 = it
  BY <1>1, <1>3
<1>5. /\ Len(m_downQueue) = Len(before) + it - 1
      /\ m_downQueue' = QueuedUpTo(1, it')
  <2>1. /\ Len(before \o SubSeq(m_s_hlsList, 1, it - 1)) = Len(before) + it - 1
        /\ Append(before \o SubSeq(m_s_hlsList, 1, it - 1), m_s_hlsList[it])
           = before \o SubSeq(m_s_hlsList, 1, it)
    BY <1>4, ListsTyped, QueuedGrows, SMTT(40)
  <2>2. QED BY <1>1, <1>4, <2>1 DEF QueuedUpTo, SecondLoopInv
<1>6. it' <= Len(m_s_hlsList) + 1 /\ Len(before) + it' - 1 <= DOWN_NUM
  BY <1>1, <1>3, <1>5
<1>7. QED BY <1>1, <1>2, <1>5, <1>6 DEF SecondLoopInv, LoopsComputeAddDownItems

\* The second loop ends: the head of the list is queued as far as it goes, or
\* as far as there is room.
LEMMA SecondLoopEndsKeeps == ASSUME LoopInv, SecondLoopEnds PROVE LoopInv'
<1> USE DEF LoopInv
<1> DEFINE n == Scanned(m_s_hlsList)
           stop == LeastOf(n, Start - 1 + DOWN_NUM - Len(before))
<1>1. /\ pc = "second" /\ pc' = "done" /\ SecondLoopInv
      /\ ~(Len(m_downQueue) < DOWN_NUM) \/ it > Len(m_s_hlsList)
      /\ UNCHANGED <<m_s_hlsList, m_downQueue, m_compelteQueue, before, bFirstFlag, it, iCount>>
  BY DEF SecondLoopEnds, AtEnd, HasRoom
<1>2. LoopTypes'
  BY <1>1 DEF LoopTypes
<1>3. /\ it \in Nat \ {0} /\ DOWN_NUM \in Nat /\ Len(m_s_hlsList) \in Nat /\ Len(before) \in Nat
      /\ n \in Nat /\ n <= Len(m_s_hlsList) /\ n <= DOWN_NUM
      /\ n = Len(m_s_hlsList) \/ n = DOWN_NUM
      /\ Start \in 1..(n + 1)
  BY ScanFacts DEF LoopTypes
<1>4. /\ it <= Len(m_s_hlsList) + 1 /\ Len(before) + it - 1 <= DOWN_NUM
      /\ Start = 1 \/ Len(before) = DOWN_NUM
      /\ m_downQueue = QueuedUpTo(1, it)
  BY <1>1 DEF SecondLoopInv
<1>5. Len(m_downQueue) = Len(before) + it - 1
  <2>1. it \in 1..(Len(m_s_hlsList) + 1) /\ 1 \in 1..(Len(m_s_hlsList) + 1)
    BY <1>3, <1>4
  <2>2. Len(before \o SubSeq(m_s_hlsList, 1, it - 1)) = Len(before) + it - 1
    BY <2>1, ListsTyped, QueuedGrows
  <2>3. QED BY <1>4, <2>2 DEF QueuedUpTo
<1>6. m_downQueue = AddDownItems(m_s_hlsList, before, m_compelteQueue)
  <2>1. CASE Start = 1
    <3>1. it - 1 = stop
      BY <1>1, <1>3, <1>4, <1>5, <2>1 DEF LeastOf
    <3>2. QED BY <1>4, <2>1, <3>1 DEF AddDownItems, QueuedUpTo, Start
  <2>2. CASE Len(before) = DOWN_NUM
    <3>1. it - 1 < 1 /\ stop < Start
      BY <1>3, <1>4, <2>2 DEF LeastOf
    <3>2. SubSeq(m_s_hlsList, 1, it - 1) = <<>> /\ SubSeq(m_s_hlsList, Start, stop) = <<>>
      <4>1. stop \in Int
        BY <1>3 DEF LeastOf
      <4>2. QED BY <1>3, <3>1, <4>1, SubSeqEmpty
    <3>3. QED BY <1>4, <3>2 DEF AddDownItems, QueuedUpTo, Start
  <2>3. QED BY <1>4, <2>1, <2>2
<1>7. QED BY <1>1, <1>2, <1>6 DEF LoopsComputeAddDownItems

\* A list of at most n names is a sequence.
LEMMA ListsAreSequences ==
  ASSUME NEW n \in Nat, NEW l \in Lists(n) PROVE l \in Seq(Names) /\ Len(l) <= n
<1>1. PICK k \in 0..n : l \in [1..k -> Names]
  BY DEF Lists
<1>2. l \in Seq(Names) /\ Len(l) = k
  BY <1>1
<1>3. QED BY <1>2

\* The call begins with any list and any queues, and so does it idle.
LEMMA LoopInitHolds == ProgramsInit => LoopInv
<1>1. SUFFICES ASSUME LoopInit PROVE LoopInv
  BY DEF ProgramsInit, LoopIdle
<1>2. /\ m_s_hlsList \in Lists(MaxList) /\ m_downQueue \in Lists(DOWN_NUM)
      /\ m_compelteQueue \in Lists(1) /\ before = m_downQueue
  BY <1>1 DEF LoopInit
<1>3. /\ m_s_hlsList \in Seq(Names) /\ before \in Seq(Names) /\ m_compelteQueue \in Seq(Names)
      /\ Len(before) <= DOWN_NUM
  BY <1>2, LoopBound, QueueSizes, ListsAreSequences
<1>4. pc = "enter" /\ it = 1 /\ iCount = 0 /\ bFirstFlag \in BOOLEAN
  BY <1>1 DEF LoopInit
<1>5. LoopTypes
  BY <1>3, <1>4 DEF LoopTypes
<1>6. QED BY <1>2, <1>4, <1>5 DEF LoopInv, LoopsComputeAddDownItems

\* Every step of the programs keeps the invariant of the loops.
LEMMA LoopNextKeeps == LoopInv /\ [ProgramsNext]_programVars => LoopInv'
<1>1. SUFFICES ASSUME LoopInv, [ProgramsNext]_programVars PROVE LoopInv'
  OBVIOUS
<1>2. LoopNext \/ UNCHANGED loopVars
  BY <1>1 DEF ProgramsNext, Runs, Others, programVars
<1>3. CASE UNCHANGED loopVars
  BY <1>1, <1>3 DEF loopVars, LoopInv, LoopTypes, FirstLoopInv, SecondLoopInv, Start, QueuedUpTo,
                    LoopsComputeAddDownItems
<1>4. CASE LoopNext
  BY <1>1, <1>4, FindLastKeeps, FirstLoopKeeps, FirstLoopEndsKeeps, SecondLoopKeeps,
     SecondLoopEndsKeeps DEF LoopNext
<1>5. QED BY <1>2, <1>3, <1>4

\* For every list, with repeated names or without, every content of the queues
\* and every capacity, the two loops of AddDownItems end with the queue the
\* operator describes, so what is proved of the operator holds of the code.
THEOREM LoopsComputeOperator == ProgramsSpec => []LoopsComputeAddDownItems
<1>1. LoopInv => LoopsComputeAddDownItems
  BY DEF LoopInv
<1>2. QED BY <1>1, LoopInitHolds, LoopNextKeeps, PTL DEF ProgramsSpec

-----------------------------------------------------------------------------
(* texts *)

\* Nothing is typed at first, where nothing ever is as well.
LEMMA HeaderEndInit == ProgramsInit => HeaderEndInv
<1>1. SUFFICES ASSUME ProgramsInit PROVE HeaderEndInv
  OBVIOUS
<1>2. text = <<>> /\ alphabet \subseteq Chars /\ crlfcrlf = 0 /\ lflf = 0 /\ matched = FALSE
  <2>1. TextInit \/ TextIdle
    BY <1>1 DEF ProgramsInit
  <2>2. QED BY <2>1 DEF TextInit, TextIdle, Chars
<1>3. ASSUME NEW s \in Seq(Chars), s # <<>>
      PROVE  ~EndsWith(s)
  <2>1. <<>> \in Seq(Chars)
    OBVIOUS
  <2>2. QED BY <1>2, <1>3, <2>1, SuffixEnds DEF EndsWith
<1>4. ~EndsWith(<<LF>>) /\ ~EndsWith(<<CR>>) /\ ~EndsWith(<<CR, LF>>) /\ ~EndsWith(<<LF, LF>>)
  <2>1. <<LF>> \in Seq(Chars) /\ <<CR>> \in Seq(Chars)
    BY LineEnds
  <2>2. <<CR, LF>> \in Seq(Chars) /\ <<LF, LF>> \in Seq(Chars)
    BY LineEnds
  <2>3. <<LF>> # <<>> /\ <<CR>> # <<>> /\ <<CR, LF>> # <<>> /\ <<LF, LF>> # <<>>
    OBVIOUS
  <2>4. QED BY <1>3, <2>1, <2>2, <2>3
<1>5. ~EndsWith(<<CR, LF, CR>>) /\ ~EndsWith(<<CR, LF, CR, LF>>)
  <2>1. <<CR, LF, CR>> \in Seq(Chars) /\ <<CR, LF, CR, LF>> \in Seq(Chars)
    BY LineEnds
  <2>2. <<CR, LF, CR>> # <<>> /\ <<CR, LF, CR, LF>> # <<>>
    OBVIOUS
  <2>3. QED BY <1>3, <2>1, <2>2
<1>6. text \in Seq(Chars)
  BY <1>2
<1>7. QED BY <1>2, <1>4, <1>5, <1>6 DEF HeaderEndInv

\* Every step of the programs keeps what the counters say.
LEMMA HeaderEndNext == HeaderEndInv /\ [ProgramsNext]_programVars => HeaderEndInv'
<1>1. SUFFICES ASSUME HeaderEndInv, [ProgramsNext]_programVars PROVE HeaderEndInv'
  OBVIOUS
<1>2. TextNext \/ UNCHANGED textVars
  BY <1>1 DEF ProgramsNext, Runs, Others, programVars
<1>3. CASE UNCHANGED textVars
  BY <1>1, <1>3 DEF textVars, HeaderEndInv, EndsWith, NoDoubleCR
<1>4. CASE TextNext
  BY <1>1, <1>4, TypeKeeps DEF TextNext
<1>5. QED BY <1>2, <1>3, <1>4

\* The client stops at the first blank line, whichever line ends a header has
\* and however long it is, if no two carriage returns stand together.
THEOREM HeaderEndsAreFound == ProgramsSpec => []HeaderEndFound
<1>1. HeaderEndInv => HeaderEndFound
  BY DEF HeaderEndInv, HeaderEndFound, NoDoubleCR, EndsWith
<1>2. QED BY <1>1, HeaderEndInit, HeaderEndNext, PTL DEF ProgramsSpec

\* First lines come apart where they should, whatever they hold: a status for
\* every text, and a target too, which with a space in it makes a request only
\* when what follows the space reads as a version.
THEOREM FirstLinesComeBack == ProgramsSpec => [](StatusComesBack /\ TargetsComeBack)
<1>1. HeaderEndInv => StatusComesBack /\ TargetsComeBack
  BY StatusRead, TargetRead, TargetWithSpaceRead DEF HeaderEndInv
<1>2. QED BY <1>1, HeaderEndInit, HeaderEndNext, PTL DEF ProgramsSpec

\* A list that slid on merges with its successor for every size of the two and
\* wherever the first begins; the runs check it on lists of at most four.
THEOREM ListsMerge ==
  /\ \A from, size, gone \in Nat, came \in 0..1 : gone < size => WindowMerges(from, size, gone, came)
  /\ WindowsMerge
<1>1. \A from, size, gone \in Nat, came \in 0..1 : gone < size => WindowMerges(from, size, gone, came)
  BY WindowMerged
<1>2. 0..4 \subseteq Nat
  OBVIOUS
<1>3. QED BY <1>1, <1>2 DEF WindowsMerge

\* The characters of every alphabet are bytes, and so are those that end a line.
LEMMA TextsAreBytes == HeaderEndInv => text \in Seq(Octets)
<1>1. Chars \subseteq Octets
  BY CharactersAreBytes DEF Chars, Octets, CR, LF
<1>2. ASSUME text \in Seq(Chars) PROVE text \in Seq(Octets)
  BY <1>1, <1>2, SeqMonotonic
<1>3. QED BY <1>2 DEF HeaderEndInv

\* What ParsersAgree says of the conversions, each for the texts its conditions
\* name, holds of texts of every length over any alphabets of bytes; the runs
\* check it for texts of at most MaxText characters.  Of a playlist whose name
\* has a character special to a regular expression it says nothing.
THEOREM ParsersAreInverse == ProgramsSpec => []ParsersAgree
<1>1. HeaderEndInv => HeaderEndFound
  BY DEF HeaderEndInv, HeaderEndFound, NoDoubleCR, EndsWith
<1>2. HeaderEndInv => ParsersAgree
  BY <1>1, TextsAreBytes, EveryTextComesBack, ListsMerge DEF ParsersAgree
<1>3. QED BY <1>2, HeaderEndInit, HeaderEndNext, PTL DEF ProgramsSpec

=============================================================================
