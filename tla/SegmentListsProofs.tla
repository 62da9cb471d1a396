------------------------- MODULE SegmentListsProofs -------------------------
(***************************************************************************)
(* Facts about the operators of SegmentLists, for every queue and every    *)
(* playlist.                                                               *)
(***************************************************************************)
EXTENDS SegmentLists, SequenceTheorems, TLAPS

-----------------------------------------------------------------------------
(* Items and Increasing under the queue operations.                        *)

\* A queue over S holds members of S.
LEMMA ItemsType ==
  ASSUME NEW S, NEW q \in Seq(S)
  PROVE  Items(q) \subseteq S
BY ElementOfSeq DEF Items

\* Joining two queues joins what they hold.
LEMMA ItemsConcat ==
  ASSUME NEW S, NEW p \in Seq(S), NEW q \in Seq(S)
  PROVE  Items(p \o q) = Items(p) \cup Items(q)
<1>1. ASSUME NEW s \in Items(p \o q) PROVE s \in Items(p) \cup Items(q)
  <2>1. PICK k \in 1..(Len(p) + Len(q)) : s = (p \o q)[k]
    BY <1>1, ConcatProperties DEF Items
  <2>2. CASE k <= Len(p)
    BY <2>1, <2>2, ConcatProperties, LenProperties DEF Items
  <2>3. CASE k > Len(p)
    <3>1. k - Len(p) \in 1..Len(q) /\ s = q[k - Len(p)]
      BY <2>1, <2>3, ConcatProperties, LenProperties
    <3>2. QED BY <3>1 DEF Items
  <2>4. QED BY <2>2, <2>3, <2>1, LenProperties
<1>2. ASSUME NEW s \in Items(p) PROVE s \in Items(p \o q)
  <2>1. PICK k \in 1..Len(p) : s = p[k]
    BY <1>2 DEF Items
  <2>2. k \in 1..Len(p \o q) /\ (p \o q)[k] = s
    BY <2>1, ConcatProperties, LenProperties
  <2>3. QED BY <2>2 DEF Items
<1>3. ASSUME NEW s \in Items(q) PROVE s \in Items(p \o q)
  <2>1. PICK k \in 1..Len(q) : s = q[k]
    BY <1>3 DEF Items
  <2>2. /\ k + Len(p) \in 1..Len(p \o q)
        /\ (p \o q)[k + Len(p)] = s
    BY <2>1, ConcatProperties, LenProperties
  <2>3. QED BY <2>2 DEF Items
<1>4. QED BY <1>1, <1>2, <1>3

\* Pushing a segment adds it to what the queue holds.
LEMMA ItemsAppend ==
  ASSUME NEW S, NEW q \in Seq(S), NEW e \in S
  PROVE  Items(Append(q, e)) = Items(q) \cup {e}
<1>1. ASSUME NEW s \in Items(Append(q, e)) PROVE s \in Items(q) \cup {e}
  <2>1. PICK k \in 1..(Len(q) + 1) : s = Append(q, e)[k]
    BY <1>1, AppendProperties DEF Items
  <2>2. CASE k \in 1..Len(q)
    BY <2>1, <2>2, AppendProperties DEF Items
  <2>3. CASE k = Len(q) + 1
    BY <2>1, <2>3, AppendProperties
  <2>4. QED BY <2>2, <2>3, <2>1, LenProperties
<1>2. ASSUME NEW s \in Items(q) PROVE s \in Items(Append(q, e))
  <2>1. PICK k \in 1..Len(q) : s = q[k]
    BY <1>2 DEF Items
  <2>2. k \in 1..Len(Append(q, e)) /\ Append(q, e)[k] = s
    BY <2>1, AppendProperties, LenProperties
  <2>3. QED BY <2>2 DEF Items
<1>3. e \in Items(Append(q, e))
  <2>1. Len(q) + 1 \in 1..Len(Append(q, e)) /\ Append(q, e)[Len(q) + 1] = e
    BY AppendProperties, LenProperties
  <2>2. QED BY <2>1 DEF Items
<1>4. QED BY <1>1, <1>2, <1>3

\* The head of a queue is one of its items, and so is all of its tail.
LEMMA ItemsHeadTail ==
  ASSUME NEW S, NEW q \in Seq(S), q # <<>>
  PROVE  /\ Head(q) \in Items(q) /\ Head(q) = q[1]
         /\ Items(Tail(q)) \subseteq Items(q)
<1>1. Len(q) \in Nat \ {0} /\ Head(q) = q[1]
  BY EmptySeq
<1>2. ASSUME NEW s \in Items(Tail(q)) PROVE s \in Items(q)
  <2>1. PICK k \in 1..Len(Tail(q)) : s = Tail(q)[k]
    BY <1>2 DEF Items
  <2>2. k + 1 \in 1..Len(q) /\ s = q[k + 1]
    BY <2>1, <1>1, HeadTailProperties
  <2>3. QED BY <2>2 DEF Items
<1>3. QED BY <1>1, <1>2 DEF Items

\* A queue holds its head and what its tail holds.
LEMMA ItemsSplit ==
  ASSUME NEW S, NEW q \in Seq(S), q # <<>>
  PROVE  Items(q) = {Head(q)} \cup Items(Tail(q))
<1>1. /\ Len(q) \in Nat \ {0} /\ Head(q) = q[1] /\ Len(Tail(q)) = Len(q) - 1
      /\ \A k \in 1..Len(Tail(q)) : Tail(q)[k] = q[k + 1]
  BY EmptySeq, HeadTailProperties
<1>2. ASSUME NEW s \in Items(q), s # Head(q) PROVE s \in Items(Tail(q))
  <2>1. PICK k \in 1..Len(q) : s = q[k]
    BY DEF Items
  <2>2. k - 1 \in 1..Len(Tail(q)) /\ s = Tail(q)[k - 1]
    BY <1>1, <1>2, <2>1
  <2>3. QED BY <2>2 DEF Items
<1>3. QED BY <1>2, ItemsHeadTail

\* In an increasing queue the head is older than the rest, which increases.
LEMMA IncreasingTail ==
  ASSUME NEW S, S \subseteq Int, NEW q \in Seq(S), q # <<>>, Increasing(q)
  PROVE  /\ Increasing(Tail(q))
         /\ \A s \in Items(Tail(q)) : Head(q) < s
<1>1. /\ Len(q) \in Nat \ {0} /\ Head(q) = q[1]
      /\ Len(Tail(q)) = Len(q) - 1
      /\ \A k \in 1..Len(Tail(q)) : k + 1 \in 1..Len(q) /\ Tail(q)[k] = q[k + 1]
  BY EmptySeq, HeadTailProperties
<1>2. Increasing(Tail(q))
  BY <1>1 DEF Increasing
<1>3. ASSUME NEW s \in Items(Tail(q)) PROVE Head(q) < s
  <2>1. PICK k \in 1..Len(Tail(q)) : s = Tail(q)[k]
    BY <1>3 DEF Items
  <2>2. k + 1 \in 1..Len(q) /\ s = q[k + 1] /\ 1 \in 1..Len(q) /\ 1 < k + 1
    BY <2>1, <1>1
  <2>3. QED BY <2>2, <1>1 DEF Increasing
<1>4. QED BY <1>2, <1>3

\* The back of an increasing queue is its newest segment.
LEMMA BackIsNewest ==
  ASSUME NEW S, S \subseteq Int, NEW q \in Seq(S), q # <<>>, Increasing(q)
  PROVE  /\ q[Len(q)] \in Items(q)
         /\ \A s \in Items(q) : s <= q[Len(q)]
<1>1. Len(q) \in Nat \ {0} /\ Len(q) \in 1..Len(q)
  BY EmptySeq
<1>2. \A k \in 1..Len(q) : q[k] \in Int
  BY ElementOfSeq
<1>3. QED BY <1>1, <1>2 DEF Items, Increasing

\* Joining at the back leaves the front as it is.
LEMMA HeadConcat ==
  ASSUME NEW S, NEW p \in Seq(S), NEW q \in Seq(S), p # <<>>
  PROVE  p \o q # <<>> /\ Head(p \o q) = Head(p)
<1>1. Len(p) \in Nat \ {0} /\ Len(q) \in Nat
  BY EmptySeq, LenProperties
<1>2. Len(p \o q) = Len(p) + Len(q) /\ (p \o q)[1] = p[1] /\ p \o q \in Seq(S)
  BY <1>1, ConcatProperties
<1>3. p \o q # <<>>
  BY <1>1, <1>2, EmptySeq
<1>4. QED BY <1>2, <1>3

\* Joining at the back leaves the rest in front of what is joined.
LEMMA TailConcat ==
  ASSUME NEW S, NEW p \in Seq(S), NEW q \in Seq(S), p # <<>>
  PROVE  /\ Tail(p) \in Seq(S)
         /\ Tail(p \o q) = Tail(p) \o q
<1>1. /\ Len(p) \in Nat \ {0} /\ Len(q) \in Nat
      /\ Tail(p) \in Seq(S) /\ Len(Tail(p)) = Len(p) - 1
      /\ \A k \in 1..(Len(p) - 1) : Tail(p)[k] = p[k + 1]
  BY EmptySeq, LenProperties, HeadTailProperties
<1>2. /\ p \o q \in Seq(S) /\ Len(p \o q) = Len(p) + Len(q)
      /\ \A k \in 1..(Len(p) + Len(q)) :
           (p \o q)[k] = IF k <= Len(p) THEN p[k] ELSE q[k - Len(p)]
  BY ConcatProperties
<1>3. p \o q # <<>>
  BY <1>1, <1>2, EmptySeq
<1>4. /\ Tail(p \o q) \in Seq(S) /\ Len(Tail(p \o q)) = Len(p) + Len(q) - 1
      /\ \A k \in 1..(Len(p) + Len(q) - 1) : Tail(p \o q)[k] = (p \o q)[k + 1]
  BY <1>2, <1>3, HeadTailProperties
<1>5. /\ Tail(p) \o q \in Seq(S) /\ Len(Tail(p) \o q) = Len(p) + Len(q) - 1
      /\ \A k \in 1..(Len(p) + Len(q) - 1) :
           (Tail(p) \o q)[k] = IF k <= Len(p) - 1 THEN Tail(p)[k] ELSE q[k - (Len(p) - 1)]
  BY <1>1, ConcatProperties
<1>6. ASSUME NEW k \in 1..(Len(p) + Len(q) - 1)
      PROVE  Tail(p \o q)[k] = (Tail(p) \o q)[k]
  <2>1. k + 1 \in 1..(Len(p) + Len(q)) /\ (k + 1) - Len(p) = k - (Len(p) - 1)
    BY <1>1
  <2>2. Tail(p \o q)[k] = IF k + 1 <= Len(p) THEN p[k + 1] ELSE q[(k + 1) - Len(p)]
    BY <1>2, <1>4, <2>1
  <2>3. CASE k <= Len(p) - 1
    BY <1>1, <1>5, <2>2, <2>3
  <2>4. CASE ~(k <= Len(p) - 1)
    <3>1. ~(k + 1 <= Len(p))
      BY <1>1, <2>4
    <3>2. QED BY <1>5, <2>1, <2>2, <2>4, <3>1
  <2>5. QED BY <2>3, <2>4
<1>7. QED BY <1>1, <1>4, <1>5, <1>6, SeqEqual

\* Taking the front off leaves the back as it is.
LEMMA BackOfTail ==
  ASSUME NEW S, NEW q \in Seq(S), Len(q) > 1
  PROVE  Tail(q) # <<>> /\ Tail(q)[Len(Tail(q))] = q[Len(q)]
<1>1. Len(q) \in Nat /\ q # <<>>
  BY LenProperties, EmptySeq
<1>2. /\ Tail(q) \in Seq(S) /\ Len(Tail(q)) = Len(q) - 1
      /\ \A k \in 1..Len(Tail(q)) : Tail(q)[k] = q[k + 1]
  BY <1>1, HeadTailProperties
<1>3. Len(q) - 1 \in 1..Len(Tail(q)) /\ (Len(q) - 1) + 1 = Len(q)
  BY <1>1, <1>2
<1>4. Len(Tail(q)) # 0 /\ Tail(q)[Len(Tail(q))] = q[Len(q)]
  BY <1>1, <1>2, <1>3
<1>5. Tail(q) # <<>>
  BY <1>4, EmptySeq
<1>6. QED BY <1>4, <1>5

\* Joining increasing queues, the second newer than the first throughout.
LEMMA IncreasingConcat ==
  ASSUME NEW S, S \subseteq Int, NEW p \in Seq(S), NEW q \in Seq(S),
         Increasing(p), Increasing(q),
         \A a \in Items(p), b \in Items(q) : a < b
  PROVE  Increasing(p \o q)
<1>1. Len(p) \in Nat /\ Len(q) \in Nat
  BY LenProperties
<1>2. SUFFICES ASSUME NEW j \in 1..(Len(p) + Len(q)), NEW k \in 1..(Len(p) + Len(q)), j < k
               PROVE  (p \o q)[j] < (p \o q)[k]
  BY ConcatProperties DEF Increasing
<1>3. CASE k <= Len(p)
  <2>1. /\ j \in 1..Len(p) /\ k \in 1..Len(p)
        /\ (p \o q)[j] = p[j] /\ (p \o q)[k] = p[k]
    BY <1>1, <1>2, <1>3, ConcatProperties
  <2>2. QED BY <2>1, <1>2 DEF Increasing
<1>4. CASE j > Len(p)
  <2>1. /\ j - Len(p) \in 1..Len(q) /\ k - Len(p) \in 1..Len(q)
        /\ j - Len(p) < k - Len(p)
        /\ (p \o q)[j] = q[j - Len(p)] /\ (p \o q)[k] = q[k - Len(p)]
    BY <1>1, <1>2, <1>4, ConcatProperties
  <2>2. QED BY <2>1 DEF Increasing
<1>5. CASE j <= Len(p) /\ k > Len(p)
  <2>1. /\ j \in 1..Len(p) /\ k - Len(p) \in 1..Len(q)
        /\ (p \o q)[j] = p[j] /\ (p \o q)[k] = q[k - Len(p)]
    BY <1>1, <1>2, <1>5, ConcatProperties
  <2>2. p[j] \in Items(p) /\ q[k - Len(p)] \in Items(q)
    BY <2>1 DEF Items
  <2>3. QED BY <2>1, <2>2
<1>6. QED BY <1>1, <1>3, <1>4, <1>5

\* Pushing a segment newer than all the queue holds keeps it increasing.
LEMMA IncreasingAppend ==
  ASSUME NEW S, S \subseteq Int, NEW q \in Seq(S), NEW e \in S,
         Increasing(q), \A a \in Items(q) : a < e
  PROVE  Increasing(Append(q, e))
<1>1. Len(q) \in Nat
  BY LenProperties
<1>2. SUFFICES ASSUME NEW j \in 1..(Len(q) + 1), NEW k \in 1..(Len(q) + 1), j < k
               PROVE  Append(q, e)[j] < Append(q, e)[k]
  BY AppendProperties DEF Increasing
<1>3. j \in 1..Len(q) /\ Append(q, e)[j] = q[j] /\ q[j] \in Items(q)
  BY <1>1, <1>2, AppendProperties DEF Items
<1>4. CASE k = Len(q) + 1
  BY <1>3, <1>4, AppendProperties
<1>5. CASE k \in 1..Len(q)
  <2>1. Append(q, e)[k] = q[k]
    BY <1>5, AppendProperties
  <2>2. QED BY <2>1, <1>2, <1>3, <1>5 DEF Increasing
<1>6. QED BY <1>1, <1>4, <1>5

-----------------------------------------------------------------------------
(* AddDownItems on the list of a playlist.                                 *)

\* The parsed list runs over the playlist, one segment after the other.
LEMMA BuildListFacts ==
  ASSUME NEW n \in Nat, NEW w \in Windows(n)
  PROVE  LET list == BuildListFromStream(w)
         IN  /\ list \in Seq(1..n)
             /\ Len(list) = w.last - w.first + 1
             /\ \A k \in 1..Len(list) : list[k] = w.first + k - 1
<1> DEFINE len == w.last - w.first + 1
<1>1. w.first \in 1..(n + 1) /\ w.last \in 0..n /\ w.first <= w.last + 1
  BY DEF Windows
<1>2. len \in Nat
  BY <1>1
<1>3. \A k \in 1..len : w.first + k - 1 \in 1..n
  BY <1>1
<1>4. BuildListFromStream(w) \in [1..len -> 1..n]
  BY <1>3 DEF BuildListFromStream
<1>5. /\ BuildListFromStream(w) \in Seq(1..n)
      /\ Len(BuildListFromStream(w)) = len
  BY <1>2, <1>4
<1>6. QED BY <1>5 DEF BuildListFromStream

\* StrLast is nothing when no segment was ever queued, and otherwise one of
\* the queued segments.
LEMMA StrLastType ==
  ASSUME NEW n \in Nat, NEW down \in Seq(1..n), NEW comp \in Seq(1..n)
  PROVE  /\ StrLast(down, comp) \in 0..n
         /\ (down = <<>> /\ comp = <<>>) => StrLast(down, comp) = NoSegment
         /\ down # <<>> => StrLast(down, comp) \in Items(down)
         /\ (down = <<>> /\ comp # <<>>) => StrLast(down, comp) \in Items(comp)
<1>1. ASSUME NEW q \in Seq(1..n), q # <<>>
      PROVE  Len(q) \in 1..Len(q) /\ q[Len(q)] \in 1..n
  <2>1. Len(q) \in Nat \ {0}
    BY <1>1, EmptySeq
  <2>2. Len(q) \in 1..Len(q)
    BY <2>1
  <2>3. QED BY <2>2, ElementOfSeq
<1>2. QED BY <1>1 DEF StrLast, NoSegment, Items

\* In two increasing queues, one after the other, StrLast is the newest.
LEMMA StrLastIsNewest ==
  ASSUME NEW S, S \subseteq Int, NEW down \in Seq(S), NEW comp \in Seq(S),
         Increasing(down), Increasing(comp),
         \A a \in Items(comp), b \in Items(down) : a < b
  PROVE  \A a \in Items(comp) \cup Items(down) : a <= StrLast(down, comp)
<1>1. CASE down # <<>>
  <2>1. /\ StrLast(down, comp) = down[Len(down)]
        /\ down[Len(down)] \in Items(down)
        /\ \A a \in Items(down) : a <= down[Len(down)]
    BY <1>1, BackIsNewest DEF StrLast
  <2>2. \A a \in Items(comp) : a < down[Len(down)]
    BY <2>1
  <2>3. Items(comp) \subseteq Int /\ Items(down) \subseteq Int
    BY ItemsType
  <2>4. QED BY <2>1, <2>2, <2>3
<1>2. CASE down = <<>> /\ comp # <<>>
  <2>1. Items(down) = {}
    BY <1>2, EmptySeq DEF Items
  <2>2. StrLast(down, comp) = comp[Len(comp)]
    BY <1>2 DEF StrLast
  <2>3. \A a \in Items(comp) : a <= comp[Len(comp)]
    BY <1>2, BackIsNewest
  <2>4. QED BY <2>1, <2>2, <2>3
<1>3. CASE down = <<>> /\ comp = <<>>
  BY <1>3, EmptySeq DEF Items
<1>4. QED BY <1>1, <1>2, <1>3

\* While the back of comp is the front of down, taking that front off leaves
\* StrLast as it is.
LEMMA StrLastOfTail ==
  ASSUME NEW S, NEW down \in Seq(S), NEW comp \in Seq(S),
         down # <<>>, comp # <<>>, comp[Len(comp)] = Head(down)
  PROVE  StrLast(Tail(down), comp) = StrLast(down, comp)
<1>1. Len(down) \in Nat \ {0} /\ Head(down) = down[1] /\ Len(Tail(down)) = Len(down) - 1
      /\ Tail(down) \in Seq(S)
  BY EmptySeq, HeadTailProperties
<1>2. CASE Len(down) > 1
  BY <1>2, BackOfTail DEF StrLast
<1>3. CASE Len(down) = 1
  <2>1. Len(Tail(down)) = 0
    BY <1>1, <1>3
  <2>2. Tail(down) = <<>>
    BY <1>1, <2>1, EmptySeq
  <2>3. QED BY <1>1, <1>3, <2>2 DEF StrLast
<1>4. QED BY <1>1, <1>2, <1>3

\* When every queued segment is within the part of the playlist the scan
\* reaches, or older, AddDownItems appends segments of that part only, in
\* order, all newer than StrLast, and stays within the capacity.
LEMMA AddDownItemsFacts ==
  ASSUME NEW n \in Nat, NEW w \in Windows(n),
         NEW down \in Seq(1..n), NEW comp \in Seq(1..n),
         Len(down) <= DOWN_NUM,
         StrLast(down, comp) <= w.last,
         StrLast(down, comp) <= w.first + DOWN_NUM - 1
  PROVE  \E added \in Seq(1..n) :
           /\ AddDownItems(BuildListFromStream(w), down, comp) = down \o added
           /\ Len(down \o added) <= DOWN_NUM
           /\ Increasing(added)
           /\ \A s \in Items(added) : /\ StrLast(down, comp) < s
                                      /\ s <= w.last
                                      /\ s <= w.first + DOWN_NUM - 1
<1> DEFINE f       == w.first
           l       == w.last
           list    == BuildListFromStream(w)
           seg     == StrLast(down, comp)
           scanned == Scanned(list)
           found   == Matches(list, seg)
           start   == StartPos(list, down, comp)
           stop    == LeastOf(scanned, start - 1 + DOWN_NUM - Len(down))
           added   == SubSeq(list, start, stop)
<1>1. /\ f \in 1..(n + 1) /\ l \in 0..n /\ f <= l + 1
      /\ f \in Int /\ l \in Int
  BY DEF Windows
<1> HIDE DEF f, l
<1>2. /\ list \in Seq(1..n)
      /\ Len(list) = l - f + 1
      /\ \A k \in 1..Len(list) : list[k] = f + k - 1
  BY BuildListFacts DEF f, l
<1>3. /\ DOWN_NUM \in Nat \ {0} /\ Len(down) \in Nat /\ seg \in 0..n
      /\ seg <= l /\ seg <= f + DOWN_NUM - 1
  BY QueueSizes, LenProperties, StrLastType DEF f, l
<1>4. /\ scanned \in Nat /\ scanned <= DOWN_NUM /\ scanned <= Len(list)
      /\ scanned = DOWN_NUM \/ scanned = Len(list)
  BY <1>1, <1>2, <1>3 DEF Scanned, LeastOf
<1> HIDE DEF list, seg
<1>5. found = {k \in 1..scanned : f + k - 1 = seg}
  BY <1>2, <1>4 DEF Matches
<1> HIDE DEF found, scanned
<1>6. start \in Nat \ {0} /\ f + start - 2 >= seg
  <2>1. CASE down = <<>> /\ comp = <<>>
    <3>1. seg = 0 /\ start = 1
      BY <2>1, StrLastType DEF seg, start, StartPos, NoSegment
    <3>2. QED BY <3>1, <1>1
  <2>2. CASE ~(down = <<>> /\ comp = <<>>) /\ found = {}
    <3>1. start = 1
      BY <2>2 DEF found, seg, StartPos
    <3>2. ~(seg >= f)
      <4>1. SUFFICES ASSUME seg >= f PROVE FALSE
        OBVIOUS
      <4>2. seg - f + 1 \in 1..scanned
        BY <4>1, <1>1, <1>2, <1>3, <1>4
      <4>3. seg - f + 1 \in found
        BY <4>2, <1>1, <1>3, <1>5
      <4>4. QED BY <4>3, <2>2
    <3>3. QED BY <3>1, <3>2, <1>1, <1>3
  <2>3. CASE ~(down = <<>> /\ comp = <<>>) /\ found # {}
    <3>1. PICK k \in found : TRUE
      BY <2>3
    <3>2. \A j \in found : j = k
      BY <3>1, <1>1, <1>5
    <3>3. (CHOOSE i \in found : \A j \in found : i <= j) = k
      BY <3>1, <3>2, <1>5
    <3>4. start = 1 + k
      BY <2>3, <3>3 DEF found, seg, StartPos
    <3>5. QED BY <3>1, <3>4, <1>1, <1>5
  <2>4. QED BY <2>1, <2>2, <2>3
<1> HIDE DEF start
<1>7. /\ stop \in Int /\ stop <= scanned
      /\ stop <= start - 1 + DOWN_NUM - Len(down)
      /\ stop <= DOWN_NUM /\ stop <= l - f + 1
  <2>1. scanned \in Int /\ start - 1 + DOWN_NUM - Len(down) \in Int
    BY <1>3, <1>4, <1>6
  <2>2. /\ stop \in Int /\ stop <= scanned
        /\ stop <= start - 1 + DOWN_NUM - Len(down)
    BY <2>1 DEF LeastOf
  <2>3. scanned <= DOWN_NUM /\ scanned <= l - f + 1
    BY <1>2, <1>4
  <2>4. QED BY <2>1, <2>2, <2>3, <1>1, <1>3
<1> HIDE DEF stop
<1>8. \A k \in start..stop : list[k] \in 1..n /\ list[k] = f + k - 1
  <2>1. \A k \in start..stop : k \in 1..Len(list)
    BY <1>1, <1>2, <1>4, <1>6, <1>7
  <2>2. QED BY <2>1, <1>2, ElementOfSeq
<1>9. /\ added \in Seq(1..n)
      /\ Len(added) = IF start <= stop THEN stop - start + 1 ELSE 0
      /\ \A k \in 1..(stop - start + 1) : added[k] = list[start + k - 1]
  BY <1>6, <1>7, <1>8, SubSeqProperties
<1>10. \A k \in 1..Len(added) : /\ start + k - 1 \in start..stop
                                /\ added[k] = f + start + k - 2
  <2>1. SUFFICES ASSUME NEW k \in 1..Len(added)
                 PROVE  /\ start + k - 1 \in start..stop
                        /\ added[k] = f + start + k - 2
    OBVIOUS
  <2>2. k \in 1..(stop - start + 1) /\ start + k - 1 \in start..stop
    BY <1>6, <1>7, <1>9
  <2>3. added[k] = list[start + k - 1]
    BY <2>2, <1>9
  <2>4. list[start + k - 1] = f + (start + k - 1) - 1
    BY <2>2, <1>8
  <2>5. QED BY <2>2, <2>3, <2>4, <1>1, <1>6
<1> HIDE DEF added
<1>11. AddDownItems(list, down, comp) = down \o added
  BY DEF AddDownItems, added, start, stop, scanned
<1>12. Len(down \o added) <= DOWN_NUM
  <2>1. Len(down \o added) = Len(down) + Len(added)
    BY <1>9, ConcatProperties
  <2>2. QED BY <2>1, <1>3, <1>6, <1>7, <1>9
<1>13. Increasing(added)
  BY <1>1, <1>6, <1>10 DEF Increasing
<1>14. ASSUME NEW s \in Items(added)
       PROVE  seg < s /\ s <= l /\ s <= f + DOWN_NUM - 1
  <2>1. PICK k \in 1..Len(added) : s = added[k]
    BY DEF Items
  <2>2. /\ k \in Nat \ {0} /\ start + k - 1 <= stop
        /\ s = f + start + k - 2
    BY <2>1, <1>6, <1>7, <1>9, <1>10
  <2>3. QED BY <2>2, <1>1, <1>3, <1>6, <1>7
<1>15. QED BY <1>9, <1>11, <1>12, <1>13, <1>14 DEF list, seg, f, l

=============================================================================
