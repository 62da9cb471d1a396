------------------------- MODULE TextParsersProofs -------------------------
(***************************************************************************)
(* Proofs about the conversions, for texts of any characters and of every  *)
(* length: that each is the inverse of the one that made its text, or      *)
(* splits it where it should.                                              *)
(***************************************************************************)
EXTENDS TextParsers, SequenceTheorems, FiniteSetTheorems, WellFoundedInduction, TLAPS

-----------------------------------------------------------------------------
(* induction *)

\* The library's induction theorems take a predicate as a parameter, which the
\* provers cannot instantiate; that < is well founded on Nat needs none.
Less == {ss \in Nat \X Nat : ss[1] < ss[2]}

\* The order of the numbers has no endless descent.
LEMMA LessWellFounded == IsWellFoundedOn(Less, Nat)
BY NatLessThanWellFounded, Zenon DEF OpToRel, Less

\* A set of natural numbers that is not empty has a least one: induction, for
\* the set of counterexamples to what is to be proved.
LEMMA LeastNumber ==
  ASSUME NEW T \in SUBSET Nat, T # {}
  PROVE  \E m \in T : \A k \in T : m <= k
<1>1. PICK m \in T : \A k \in T : ~(<<k, m>> \in Less)
  BY LessWellFounded, WFMin
<1>2. ASSUME NEW k \in T PROVE m <= k
  <2>1. <<k, m>> \in Nat \X Nat /\ m \in Nat /\ k \in Nat
    OBVIOUS
  <2>2. ~(k < m)
    BY <1>1, <2>1 DEF Less
  <2>3. QED BY <2>1, <2>2
<1>3. QED BY <1>1, <1>2


-----------------------------------------------------------------------------
(* the end of a header *)

\* What a text ends with is told from its last character and from what the
\* text before that ends with.
LEMMA SuffixStep ==
  ASSUME NEW A, NEW s \in Seq(A), NEW t \in Seq(A), NEW x \in A, NEW c \in A
  PROVE  IsSuffix(Append(s, x), Append(t, c)) <=> x = c /\ IsSuffix(s, t)
<1>1. ASSUME NEW u \in Seq(A), NEW v \in Seq(A)
      PROVE  IsSuffix(u, v) <=> /\ Len(u) <= Len(v)
                                /\ \A i \in 1..Len(u) : u[Len(u) + 1 - i] = v[Len(v) + 1 - i]
  <2>1. /\ Reverse(u) \in Seq(A) /\ Len(Reverse(u)) = Len(u)
        /\ \A i \in 1..Len(u) : Reverse(u)[i] = u[Len(u) + 1 - i]
    BY DEF Reverse
  <2>2. /\ Reverse(v) \in Seq(A) /\ Len(Reverse(v)) = Len(v)
        /\ \A i \in 1..Len(v) : Reverse(v)[i] = v[Len(v) + 1 - i]
    BY DEF Reverse
  <2>3. Len(u) \in Nat /\ Len(v) \in Nat
    OBVIOUS
  <2> DEFINE p == SubSeq(Reverse(u), 1, Len(u))
             q == SubSeq(Reverse(v), 1, Len(u))
  <2>4. ASSUME Len(u) <= Len(v)
        PROVE  /\ p \in Seq(A) /\ Len(p) = Len(u) /\ \A i \in 1..Len(u) : p[i] = u[Len(u) + 1 - i]
               /\ q \in Seq(A) /\ Len(q) = Len(u) /\ \A i \in 1..Len(u) : q[i] = v[Len(v) + 1 - i]
    <3>1. /\ p \in Seq(A) /\ Len(p) = Len(u)
          /\ \A i \in 1..Len(u) : p[i] = Reverse(u)[i]
      BY <2>1, <2>3, SubSeqProperties
    <3>2. /\ q \in Seq(A) /\ Len(q) = Len(u)
          /\ \A i \in 1..Len(u) : q[i] = Reverse(v)[i]
      BY <2>2, <2>3, <2>4, SubSeqProperties
    <3>3. QED BY <2>1, <2>2, <2>3, <2>4, <3>1, <3>2
  <2>5. IsSuffix(u, v) <=> Len(u) <= Len(v) /\ p = q
    BY <2>1, <2>2 DEF IsSuffix, IsPrefix
  <2> HIDE DEF p, q
  <2>6. ASSUME Len(u) <= Len(v)
        PROVE  p = q <=> \A i \in 1..Len(u) : p[i] = q[i]
    BY <2>3, <2>4, <2>6, SeqEqual
  <2>7. QED BY <2>3, <2>4, <2>5, <2>6
<1> DEFINE m == Len(s)
           n == Len(t)
           u == Append(s, x)
           v == Append(t, c)
<1>2. m \in Nat /\ n \in Nat
  OBVIOUS
<1>3. /\ u \in Seq(A) /\ Len(u) = m + 1 /\ u[m + 1] = x /\ \A i \in 1..m : u[i] = s[i]
      /\ v \in Seq(A) /\ Len(v) = n + 1 /\ v[n + 1] = c /\ \A i \in 1..n : v[i] = t[i]
  BY AppendProperties
<1>4. IsSuffix(u, v) <=> /\ m + 1 <= n + 1
                         /\ \A i \in 1..(m + 1) : u[(m + 1) + 1 - i] = v[(n + 1) + 1 - i]
  <2>1. IsSuffix(u, v) <=> /\ Len(u) <= Len(v)
                           /\ \A i \in 1..Len(u) : u[Len(u) + 1 - i] = v[Len(v) + 1 - i]
    <3> HIDE DEF u, v
    <3>1. QED BY <1>1, <1>3
  <2> HIDE DEF u, v
  <2>2. QED BY <2>1, <1>3
<1>5. IsSuffix(s, t) <=> m <= n /\ \A i \in 1..m : s[m + 1 - i] = t[n + 1 - i]
  BY <1>1
<1> HIDE DEF m, n, u, v
<1>6. ASSUME m <= n
      PROVE  (\A i \in 1..(m + 1) : u[(m + 1) + 1 - i] = v[(n + 1) + 1 - i])
               <=> x = c /\ \A i \in 1..m : s[m + 1 - i] = t[n + 1 - i]
  <2>1. u[(m + 1) + 1 - 1] = x /\ v[(n + 1) + 1 - 1] = c /\ 1 \in 1..(m + 1)
    BY <1>2, <1>3
  <2>2. ASSUME NEW i \in 1..m
        PROVE  /\ u[(m + 1) + 1 - (i + 1)] = s[m + 1 - i]
               /\ v[(n + 1) + 1 - (i + 1)] = t[n + 1 - i]
               /\ i + 1 \in 1..(m + 1)
    <3>1. /\ (m + 1) + 1 - (i + 1) = m + 1 - i /\ m + 1 - i \in 1..m
          /\ (n + 1) + 1 - (i + 1) = n + 1 - i /\ n + 1 - i \in 1..n
      BY <1>2, <1>6
    <3>2. QED BY <1>2, <1>3, <3>1
  <2>3. \A i \in 1..(m + 1) : i = 1 \/ \E j \in 1..m : i = j + 1
    <3>1. \A i \in 1..(m + 1) : i = 1 \/ (i - 1 \in 1..m /\ i = (i - 1) + 1)
      BY <1>2
    <3>2. QED BY <3>1
  <2>4. QED BY <2>1, <2>2, <2>3
<1>7. m + 1 <= n + 1 <=> m <= n
  BY <1>2
<1>8. QED BY <1>4, <1>5, <1>6, <1>7 DEF u, v

Chars == {LF, CR} \cup UNION Alphabets

EndsWith(s) == IsSuffix(s, text)

NoDoubleCR == ~\E i \in 1..(Len(text) - 1) : text[i] = CR /\ text[i + 1] = CR

\* What the two counters say of the text: how much of the one end and of the
\* other it ends with.  A second carriage return confuses the first for good.
HeaderEndInv ==
  /\ text \in Seq(Chars) /\ alphabet \subseteq Chars /\ lflf \in {0, 1}
  /\ lflf = 1 <=> EndsWith(<<LF>>)
  /\ EndsWith(<<LF>>) => ~EndsWith(<<CR>>)
  /\ EndsWith(<<CR, LF>>) => EndsWith(<<LF>>)
  /\ EndsWith(<<CR, LF, CR>>) => EndsWith(<<CR>>)
  /\ NoDoubleCR =>
       /\ matched <=> EndsWith(<<LF, LF>>) \/ EndsWith(<<CR, LF, CR, LF>>)
       /\ ~matched => crlfcrlf = CASE EndsWith(<<CR, LF, CR>>) -> 3
                                   [] EndsWith(<<CR, LF>>) -> 2
                                   [] EndsWith(<<CR>>) /\ ~EndsWith(<<CR, LF, CR>>) -> 1
                                   [] ~EndsWith(<<CR>>) /\ ~EndsWith(<<CR, LF>>) -> 0

\* Every text ends with the empty one, and the empty text with no other.
LEMMA SuffixEnds ==
  ASSUME NEW A, NEW t \in Seq(A), NEW s \in Seq(A)
  PROVE  IsSuffix(<<>>, t) /\ (s # <<>> => ~IsSuffix(s, <<>>))
<1>1. Reverse(<<>>) = <<>> /\ Len(<<>>) = 0
  BY DEF Reverse
<1>2. Reverse(t) \in Seq(A) /\ Reverse(s) \in Seq(A) /\ Len(Reverse(s)) = Len(s)
  BY DEF Reverse
<1>3. IsSuffix(<<>>, t)
  <2>1. SubSeq(<<>>, 1, 0) = <<>> /\ SubSeq(Reverse(t), 1, 0) = <<>>
    BY <1>2, SubSeqEmpty
  <2>2. Len(Reverse(t)) \in Nat
    BY <1>2
  <2>3. QED BY <1>1, <2>1, <2>2 DEF IsSuffix, IsPrefix
<1>4. s # <<>> => ~IsSuffix(s, <<>>)
  BY <1>1, <1>2 DEF IsSuffix, IsPrefix
<1>5. QED BY <1>3, <1>4

\* Line ends are characters, and two of them.
LEMMA LineEnds == CR \in Chars /\ LF \in Chars /\ CR # LF
<1>1. CR # LF
  BY DEF CR, LF
<1>2. {LF, CR} \subseteq Chars
  BY DEF Chars
<1>3. QED BY <1>1, <1>2

\* The ends of lines, a character at a time.
LEMMA AppendedIs ==
  ASSUME NEW A, NEW s \in Seq(A), NEW e \in A, NEW t \in Seq(A), Len(t) = Len(s) + 1,
         \A i \in 1..Len(s) : t[i] = s[i], t[Len(s) + 1] = e
  PROVE  Append(s, e) = t
<1>1. /\ Append(s, e) \in Seq(A) /\ Len(Append(s, e)) = Len(s) + 1
      /\ \A i \in 1..Len(s) : Append(s, e)[i] = s[i]
      /\ Append(s, e)[Len(s) + 1] = e
  BY AppendProperties
<1>2. Len(s) \in Nat
  OBVIOUS
<1>3. \A i \in 1..Len(t) : Append(s, e)[i] = t[i]
  BY <1>1, <1>2
<1>4. QED BY <1>1, <1>3, SeqEqual

\* What the ends of a header are made of.
LEMMA LineEndsAppended ==
  /\ \A x, y \in Chars : Append(<<x>>, y) = <<x, y>>
  /\ Append(<<CR, LF>>, CR) = <<CR, LF, CR>>
  /\ Append(<<CR, LF, CR>>, LF) = <<CR, LF, CR, LF>>
<1>1. ASSUME NEW x \in Chars, NEW y \in Chars
      PROVE  Append(<<x>>, y) = <<x, y>>
  <2>1. /\ <<x>> \in Seq(Chars) /\ <<x, y>> \in Seq(Chars)
        /\ Len(<<x, y>>) = Len(<<x>>) + 1
        /\ \A i \in 1..Len(<<x>>) : <<x, y>>[i] = <<x>>[i]
        /\ <<x, y>>[Len(<<x>>) + 1] = y
    OBVIOUS
  <2>2. QED BY <2>1, AppendedIs
<1>2. Append(<<CR, LF>>, CR) = <<CR, LF, CR>>
  <2> DEFINE s == <<CR, LF>>
             t == <<CR, LF, CR>>
  <2>1. /\ s \in Seq(Chars) /\ t \in Seq(Chars) /\ Len(t) = Len(s) + 1
        /\ \A i \in 1..Len(s) : t[i] = s[i]
        /\ t[Len(s) + 1] = CR
    BY LineEnds
  <2> HIDE DEF s, t
  <2>2. Append(s, CR) = t
    BY <2>1, LineEnds, AppendedIs
  <2>3. QED BY <2>2 DEF s, t
<1>3. Append(<<CR, LF, CR>>, LF) = <<CR, LF, CR, LF>>
  <2> DEFINE s == <<CR, LF, CR>>
             t == <<CR, LF, CR, LF>>
  <2>1. /\ s \in Seq(Chars) /\ t \in Seq(Chars) /\ Len(t) = Len(s) + 1
        /\ \A i \in 1..Len(s) : t[i] = s[i]
        /\ t[Len(s) + 1] = LF
    BY LineEnds
  <2> HIDE DEF s, t
  <2>2. Append(s, LF) = t
    BY <2>1, LineEnds, AppendedIs
  <2>3. QED BY <2>2 DEF s, t
<1>4. QED BY <1>1, <1>2, <1>3

\* A character typed moves both ends on.
LEMMA TypeKeeps ==
  ASSUME HeaderEndInv, NEW c \in alphabet, Type(c)
  PROVE  HeaderEndInv'
<1>1. /\ text \in Seq(Chars) /\ c \in Chars /\ text' = Append(text, c) /\ ~matched
      /\ CR \in Chars /\ LF \in Chars /\ CR # LF /\ alphabet' = alphabet
      /\ lflf' = IF c = LF THEN 1 ELSE 0
  <2>1. CR \in Chars /\ LF \in Chars
    BY LineEnds
  <2>2. CR # LF
    BY LineEnds
  <2>3. text \in Seq(Chars) /\ c \in Chars
    BY DEF HeaderEndInv
  <2>4. /\ text' = Append(text, c) /\ ~matched /\ alphabet' = alphabet
        /\ lflf' = IF c = LF THEN 1 ELSE 0
    BY DEF Type
  <2>5. QED BY <2>1, <2>2, <2>3, <2>4
<1>2. ASSUME NEW s \in Seq(Chars), NEW x \in Chars
      PROVE  IsSuffix(Append(s, x), text') <=> x = c /\ IsSuffix(s, text)
  BY <1>1, SuffixStep
<1>3. EndsWith(<<>>)
  BY <1>1, SuffixEnds DEF EndsWith
<1>4. ASSUME NEW x \in Chars
      PROVE  EndsWith(<<x>>)' <=> x = c
  <2>1. <<>> \in Seq(Chars) /\ Append(<<>>, x) = <<x>>
    OBVIOUS
  <2>2. QED BY <1>2, <1>3, <2>1 DEF EndsWith
<1>5. ASSUME NEW x \in Chars, NEW y \in Chars
      PROVE  EndsWith(<<x, y>>)' <=> y = c /\ EndsWith(<<x>>)
  <2>1. <<x>> \in Seq(Chars)
    OBVIOUS
  <2>2. Append(<<x>>, y) = <<x, y>>
    BY LineEndsAppended
  <2>3. QED BY <1>2, <2>1, <2>2 DEF EndsWith
<1>6. EndsWith(<<CR, LF, CR>>)' <=> c = CR /\ EndsWith(<<CR, LF>>)
  <2>1. <<CR, LF>> \in Seq(Chars)
    BY <1>1
  <2>2. Append(<<CR, LF>>, CR) = <<CR, LF, CR>>
    BY LineEndsAppended
  <2>3. QED BY <1>1, <1>2, <2>1, <2>2 DEF EndsWith
<1>7. EndsWith(<<CR, LF, CR, LF>>)' <=> c = LF /\ EndsWith(<<CR, LF, CR>>)
  <2>1. <<CR, LF, CR>> \in Seq(Chars)
    BY <1>1
  <2>2. Append(<<CR, LF, CR>>, LF) = <<CR, LF, CR, LF>>
    BY LineEndsAppended, Zenon
  <2>3. QED BY <1>1, <1>2, <2>1, <2>2 DEF EndsWith
<1>8. NoDoubleCR' => NoDoubleCR /\ ~(c = CR /\ EndsWith(<<CR>>))
  <2>1. /\ Len(text) \in Nat /\ Len(text') = Len(text) + 1 /\ text'[Len(text) + 1] = c
        /\ \A i \in 1..Len(text) : text'[i] = text[i]
    BY <1>1, AppendProperties
  <2>2. EndsWith(<<CR>>) => Len(text) # 0 /\ text[Len(text)] = CR
    <3>1. text = <<>> => ~EndsWith(<<CR>>)
      <4>1. <<CR>> \in Seq(Chars) /\ <<CR>> # <<>> /\ <<>> \in Seq(Chars)
        BY <1>1
      <4>2. QED BY <4>1, SuffixEnds DEF EndsWith
    <3>2. ASSUME text # <<>>, EndsWith(<<CR>>)
          PROVE  text[Len(text)] = CR
      <4>1. PICK t \in Seq(Chars), e \in Chars : text = Append(t, e)
        BY <1>1, <3>2, SequenceEmptyOrAppend
      <4>2. <<>> \in Seq(Chars) /\ Append(<<>>, CR) = <<CR>>
        OBVIOUS
      <4>3. e = CR
        <5>1. IsSuffix(Append(<<>>, CR), Append(t, e)) <=> CR = e /\ IsSuffix(<<>>, t)
          BY <1>1, <4>1, <4>2, SuffixStep
        <5>2. QED BY <3>2, <4>1, <4>2, <5>1 DEF EndsWith
      <4>4. QED BY <4>1, <4>3, AppendProperties
    <3>3. QED BY <1>1, <3>1, <3>2
  <2>3. ASSUME NoDoubleCR'
        PROVE  \A i \in 1..Len(text) : ~(text'[i] = CR /\ text'[i + 1] = CR)
    BY <2>1, <2>3 DEF NoDoubleCR
  <2>4. ASSUME NoDoubleCR'
        PROVE  NoDoubleCR
    <3>1. \A i \in 1..(Len(text) - 1) : /\ i \in 1..Len(text) /\ i + 1 \in 1..Len(text)
      BY <2>1
    <3>2. QED BY <2>1, <2>3, <2>4, <3>1 DEF NoDoubleCR
  <2>5. ASSUME NoDoubleCR', c = CR, EndsWith(<<CR>>)
        PROVE  FALSE
    <3>1. Len(text) \in 1..Len(text)
      BY <2>1, <2>2, <2>5
    <3>2. QED BY <2>1, <2>2, <2>3, <2>5, <3>1
  <2>6. QED BY <2>4, <2>5
<1>9. /\ text' \in Seq(Chars) /\ alphabet' \subseteq Chars /\ lflf' \in {0, 1}
      /\ lflf' = 1 <=> EndsWith(<<LF>>)'
      /\ EndsWith(<<LF>>)' => ~EndsWith(<<CR>>)'
      /\ EndsWith(<<CR, LF>>)' => EndsWith(<<LF>>)'
      /\ EndsWith(<<CR, LF, CR>>)' => EndsWith(<<CR>>)'
  <2>1. text' \in Seq(Chars) /\ alphabet' \subseteq Chars
    BY <1>1, AppendProperties DEF HeaderEndInv
  <2>2. QED BY <1>1, <1>4, <1>5, <1>6, <2>1
<1>10. ASSUME NoDoubleCR'
       PROVE  /\ matched' <=> EndsWith(<<LF, LF>>)' \/ EndsWith(<<CR, LF, CR, LF>>)'
              /\ ~matched' => crlfcrlf' = CASE EndsWith(<<CR, LF, CR>>)' -> 3
                                [] EndsWith(<<CR, LF>>)' -> 2
                                [] EndsWith(<<CR>>)' /\ ~EndsWith(<<CR, LF, CR>>)' -> 1
                                [] ~EndsWith(<<CR>>)' /\ ~EndsWith(<<CR, LF>>)' -> 0
  <2> DEFINE lf == EndsWith(<<LF>>)
             cr == EndsWith(<<CR>>)
             crlf == EndsWith(<<CR, LF>>)
             crlfcr == EndsWith(<<CR, LF, CR>>)
  <2>1. /\ lflf = 1 <=> lf
        /\ lf => ~cr
        /\ crlf => lf
        /\ crlfcr => cr
        /\ crlfcrlf = CASE crlfcr -> 3 [] crlf -> 2 [] cr /\ ~crlfcr -> 1 [] ~cr /\ ~crlf -> 0
        /\ ~(c = CR /\ cr)
    BY <1>1, <1>8, <1>10 DEF HeaderEndInv
  <2>2. /\ crlfcrlf' = CASE c = LF -> IF crlfcrlf = 1 THEN 2 ELSE IF crlfcrlf = 2 THEN 0 ELSE crlfcrlf
                         [] c = CR -> IF crlfcrlf \in {0, 2} THEN crlfcrlf + 1 ELSE 0
                         [] OTHER -> 0
        /\ matched' = (c = LF /\ (crlfcrlf = 3 \/ lflf = 1))
    BY DEF Type
  <2>3. /\ EndsWith(<<LF, LF>>)' <=> c = LF /\ lf
        /\ EndsWith(<<CR, LF, CR, LF>>)' <=> c = LF /\ crlfcr
        /\ EndsWith(<<CR, LF, CR>>)' <=> c = CR /\ crlf
        /\ EndsWith(<<CR, LF>>)' <=> c = LF /\ cr
        /\ EndsWith(<<CR>>)' <=> c = CR
    BY <1>1, <1>4, <1>5, <1>6, <1>7
  <2> HIDE DEF lf, cr, crlf, crlfcr
  <2>4. crlfcrlf = 3 <=> crlfcr
    BY <2>1
  <2>5. matched' <=> EndsWith(<<LF, LF>>)' \/ EndsWith(<<CR, LF, CR, LF>>)'
    BY <2>1, <2>2, <2>3, <2>4
  <2>6. CASE c = LF
    BY <1>1, <2>1, <2>2, <2>3, <2>5, <2>6
  <2>7. CASE c = CR
    BY <1>1, <2>1, <2>2, <2>3, <2>5, <2>7
  <2>8. CASE c # CR /\ c # LF
    BY <1>1, <2>1, <2>2, <2>3, <2>5, <2>8
  <2>9. QED BY <2>6, <2>7, <2>8
<1>11. QED BY <1>9, <1>10 DEF HeaderEndInv

-----------------------------------------------------------------------------
(* first lines *)

\* The first of the characters looked for.
LEMMA FirstIs ==
  ASSUME NEW A, NEW t \in Seq(A), NEW from \in Nat \ {0}, NEW c, NEW i \in from..Len(t),
         t[i] = c, \A j \in from..(i - 1) : t[j] # c
  PROVE  First(t, from, c) = i
<1> DEFINE I == {j \in from..Len(t) : t[j] = c}
<1>1. i \in I /\ \A j \in I : i <= j
  OBVIOUS
<1>2. \A x \in I : (\A y \in I : x <= y) => x = i
  BY <1>1
<1>3. Min(I) = i
  BY <1>1, <1>2 DEF Min
<1>4. First(t, from, c) = IF I # {} THEN Min(I) ELSE 0
  BY DEF First, SelectInSubSeq
<1> HIDE DEF I
<1>5. QED BY <1>1, <1>3, <1>4

\* A text between two others stands where it was put.
LEMMA Between ==
  ASSUME NEW A, NEW h \in Seq(A), NEW t \in Seq(A), NEW e \in Seq(A),
         NEW line, line = (h \o t) \o e
  PROVE  /\ line \in Seq(A) /\ Len(line) = Len(h) + Len(t) + Len(e)
         /\ \A i \in 1..Len(h) : line[i] = h[i]
         /\ \A i \in 1..Len(t) : line[Len(h) + i] = t[i]
         /\ \A i \in 1..Len(e) : line[Len(h) + Len(t) + i] = e[i]
<1> DEFINE ht == h \o t
<1>1. /\ ht \in Seq(A) /\ Len(ht) = Len(h) + Len(t)
      /\ \A i \in 1..(Len(h) + Len(t)) : ht[i] = IF i <= Len(h) THEN h[i] ELSE t[i - Len(h)]
  BY ConcatProperties
<1> HIDE DEF ht
<1>2. /\ line \in Seq(A) /\ Len(line) = Len(ht) + Len(e)
      /\ \A i \in 1..(Len(ht) + Len(e)) : line[i] = IF i <= Len(ht) THEN ht[i] ELSE e[i - Len(ht)]
  BY <1>1, ConcatProperties DEF ht
<1>3. Len(h) \in Nat /\ Len(t) \in Nat /\ Len(e) \in Nat
  OBVIOUS
<1>4. QED BY <1>1, <1>2, <1>3

\* A piece of a text is another whose characters are the same.
LEMMA PieceIs ==
  ASSUME NEW A, NEW t \in Seq(A), NEW from \in 1..(Len(t) + 1), NEW s \in Seq(A),
         from + Len(s) - 1 <= Len(t), \A i \in 1..Len(s) : s[i] = t[from + i - 1]
  PROVE  SubSeq(t, from, from + Len(s) - 1) = s
<1> DEFINE p == SubSeq(t, from, from + Len(s) - 1)
<1>1. Len(s) \in Nat /\ from \in Nat /\ from >= 1
  OBVIOUS
<1>2. p \in Seq(A) /\ Len(p) = Len(s) /\ \A i \in 1..Len(s) : p[i] = t[from + i - 1]
  BY <1>1, SubSeqProperties
<1> HIDE DEF p
<1>3. p = s
  BY <1>2, SeqEqual
<1>4. QED BY <1>3 DEF p

\* A carriage return behind a text is taken off.
LEMMA ReturnDropped ==
  ASSUME NEW A, NEW t \in Seq(A), CR \in A, NEW v \in Seq(A), Len(v) = Len(t) + 1,
         v[Len(t) + 1] = CR, \A i \in 1..Len(t) : v[i] = t[i]
  PROVE  WithoutCR(v) = t
<1>1. Len(t) \in Nat
  OBVIOUS
<1>2. v # <<>> /\ Last(v) = CR
  BY <1>1 DEF Last
<1>3. Front(v) = SubSeq(v, 1, 1 + Len(t) - 1)
  <2>1. Len(v) - 1 = 1 + Len(t) - 1
    BY <1>1
  <2>2. QED BY <2>1 DEF Front
<1>4. SubSeq(v, 1, 1 + Len(t) - 1) = t
  <2>1. 1 \in 1..(Len(v) + 1) /\ 1 + Len(t) - 1 <= Len(v) /\ \A i \in 1..Len(t) : t[i] = v[1 + i - 1]
    BY <1>1
  <2>2. QED BY <2>1, PieceIs
<1>5. QED BY <1>2, <1>3, <1>4 DEF WithoutCR

\* A status comes back whole, for every text.
LEMMA StatusRead == ASSUME NEW A, text \in Seq(A) PROVE StatusComesBack
<1> DEFINE B == A \cup Nat
           h == HTTP \o <<Slash, 49, SP>>
           line == h \o text \o <<CR>>
           n == Len(text)
<1>1. text \in Seq(B) /\ <<CR>> \in Seq(B) /\ CR \in B /\ n \in Nat
  BY DEF CR
<1>2. /\ h \in Seq(B) /\ Len(h) = 7 /\ h[6] = 49 /\ h[7] = SP
      /\ \A i \in 1..6 : h[i] # SP
  <2> DEFINE p == <<72, 84, 84, 80>>
             q == <<47, 49, 32>>
  <2>1. /\ p \in Seq(B) /\ Len(p) = 4 /\ q \in Seq(B) /\ Len(q) = 3
        /\ \A i \in 1..4 : p[i] # 32
        /\ q[1] = 47 /\ q[2] = 49 /\ q[3] = 32
    OBVIOUS
  <2>2. h = p \o q
    BY DEF HTTP, Slash, SP
  <2> HIDE DEF h, p, q, B
  <2>3. /\ h \in Seq(B) /\ Len(h) = 4 + 3
        /\ \A i \in 1..(4 + 3) : h[i] = IF i <= 4 THEN p[i] ELSE q[i - 4]
    <3>1. p \in Seq(B) /\ q \in Seq(B)
      BY <2>1
    <3>2. /\ p \o q \in Seq(B) /\ Len(p \o q) = Len(p) + Len(q)
          /\ \A i \in 1..(Len(p) + Len(q)) :
               (p \o q)[i] = IF i <= Len(p) THEN p[i] ELSE q[i - Len(p)]
      BY <3>1, ConcatProperties
    <3>3. QED BY <2>1, <2>2, <3>2, SMTT(40)
  <2>4. h[5] = 47 /\ h[6] = 49 /\ h[7] = 32 /\ \A i \in 1..4 : h[i] # 32
    BY <2>1, <2>3
  <2>5. \A i \in 1..6 : i \in 1..4 \/ i = 5 \/ i = 6
    OBVIOUS
  <2>6. QED BY <2>3, <2>4, <2>5 DEF SP
<1> HIDE DEF h
<1>3. /\ line \in Seq(B) /\ Len(line) = 7 + n + 1
      /\ \A i \in 1..7 : line[i] = h[i]
      /\ \A i \in 1..n : line[7 + i] = text[i]
      /\ line[7 + n + 1] = CR
  <2> DEFINE e == <<CR>>
  <2>1. e \in Seq(B) /\ Len(e) = 1 /\ e[1] = CR /\ 1 \in 1..1 /\ line = (h \o text) \o e
    BY <1>1
  <2> HIDE DEF line, B, e, n
  <2>2. /\ line \in Seq(B) /\ Len(line) = Len(h) + Len(text) + Len(e)
        /\ \A i \in 1..Len(h) : line[i] = h[i]
        /\ \A i \in 1..Len(text) : line[Len(h) + i] = text[i]
        /\ \A i \in 1..Len(e) : line[Len(h) + Len(text) + i] = e[i]
    <3>1. h \in Seq(B) /\ text \in Seq(B) /\ e \in Seq(B)
      BY <1>1, <1>2, <2>1
    <3>2. line = (h \o text) \o e
      BY <2>1
    <3>3. QED BY <3>1, <3>2, Between
  <2>3. Len(text) = n
    BY DEF n
  <2>4. QED BY <1>2, <2>1, <2>2, <2>3
<1> HIDE DEF line, n
<1>4. First(line, 1, SP) = 7
  <2>1. 7 \in 1..Len(line) /\ line[7] = SP /\ \A j \in 1..(7 - 1) : line[j] # SP
    BY <1>1, <1>2, <1>3
  <2>2. 1 \in Nat \ {0}
    OBVIOUS
  <2> HIDE DEF B
  <2>3. QED BY <1>3, <2>1, <2>2, FirstIs
<1>5. SubSeq(line, 6, 6) = <<49>>
  <2>1. /\ <<49>> \in Seq(B) /\ Len(<<49>>) = 1 /\ <<49>>[1] = 49 /\ 6 + 1 - 1 = 6
    OBVIOUS
  <2>2. 6 \in 1..(Len(line) + 1) /\ 6 + Len(<<49>>) - 1 <= Len(line)
    BY <1>1, <1>3, <2>1
  <2>3. \A i \in 1..Len(<<49>>) : <<49>>[i] = line[6 + i - 1]
    BY <1>2, <1>3, <2>1
  <2>4. SubSeq(line, 6, 6 + Len(<<49>>) - 1) = <<49>>
    BY <1>3, <2>1, <2>2, <2>3, PieceIs
  <2>5. QED BY <2>1, <2>4
<1>6. WithoutCR(Rest(line, 8)) = text
  <2> DEFINE v == SubSeq(line, 8, Len(line))
  <2>1. v \in Seq(B) /\ Len(v) = n + 1 /\ \A i \in 1..(n + 1) : v[i] = line[7 + i]
    <3>1. /\ v \in Seq(B) /\ Len(v) = (7 + n + 1) - 8 + 1
          /\ \A i \in 1..((7 + n + 1) - 8 + 1) : v[i] = line[8 + i - 1]
      BY <1>1, <1>3, SubSeqProperties
    <3> HIDE DEF v
    <3>2. QED BY <1>1, <3>1
  <2> HIDE DEF v
  <2>2. v[n + 1] = CR /\ \A i \in 1..n : v[i] = text[i]
    BY <1>1, <1>3, <2>1
  <2>3. WithoutCR(v) = text
    BY <1>1, <2>1, <2>2, ReturnDropped DEF n
  <2>4. QED BY <2>3 DEF v, Rest
<1>7. ~(First(line, 1, SP) = 0 \/ Len(line) <= 5 \/ First(line, 1, SP) = Len(line))
  BY <1>1, <1>3, <1>4
<1>8. ResponseParse(line) = [ok |-> TRUE, version |-> <<49>>, status_code |-> text]
  <2>1. SubSeq(line, 6, IF First(line, 1, SP) < 6 THEN Len(line) ELSE First(line, 1, SP) - 1)
          = <<49>>
    BY <1>4, <1>5
  <2>2. WithoutCR(Rest(line, First(line, 1, SP) + 1)) = text
    BY <1>4, <1>6
  <2>3. QED BY <1>7, <2>1, <2>2 DEF ResponseParse
<1>9. QED BY <1>8 DEF StatusComesBack, line, h

\* Some positions of a text have a last one.
LEMMA LastFacts ==
  ASSUME NEW from \in Nat, NEW to \in Nat, NEW I \in SUBSET (from..to), I # {}
  PROVE  Max(I) \in I /\ \A i \in I : i <= Max(I)
<1> DEFINE T == {to - i : i \in I}
<1>1. T \in SUBSET Nat /\ T # {}
  <2>1. \A i \in I : i \in Int /\ i <= to
    OBVIOUS
  <2>2. \A i \in I : to - i \in Nat
    BY <2>1
  <2>3. QED BY <2>2
<1>2. PICK m \in T : \A k \in T : m <= k
  BY <1>1, LeastNumber
<1>3. PICK x \in I : m = to - x
  BY <1>2
<1>4. \A i \in I : x >= i
  <2>1. \A i \in I : to - x <= to - i
    BY <1>2, <1>3
  <2>2. QED BY <2>1
<1>5. \E y \in I : \A i \in I : y >= i
  BY <1>4
<1>6. Max(I) \in I /\ \A i \in I : Max(I) >= i
  BY <1>5 DEF Max
<1>7. QED BY <1>6

\* The line a request with the text as its target begins with.
IsTargetLine(B, line) ==
  LET n == Len(text)
  IN /\ line \in Seq(B) /\ Len(line) = n + 10 /\ line[1] = 71 /\ line[2] = 32
     /\ \A i \in 1..n : line[2 + i] = text[i]
     /\ line[n + 3] = 32 /\ line[n + 8] = 47 /\ line[n + 9] = 49
     /\ \A i \in 1..4 : line[n + 3 + i] = HTTP[i]

\* What stands where in it.
LEMMA TargetLine ==
  ASSUME NEW A, text \in Seq(A)
  PROVE  IsTargetLine(A \cup Nat, <<71, SP>> \o text \o <<SP>> \o HTTP \o <<Slash, 49, CR>>)
<1> DEFINE B == A \cup Nat
           h == <<71, SP>>
           s == <<SP>>
           z == <<Slash, 49, CR>>
           e == (s \o HTTP) \o z
           line == h \o text \o s \o HTTP \o z
           n == Len(text)
<1>1. /\ text \in Seq(B) /\ n \in Nat /\ h \in Seq(B) /\ s \in Seq(B)
      /\ HTTP \in Seq(B) /\ z \in Seq(B)
  BY DEF CR, SP, Slash, HTTP
<1>2. /\ Len(h) = 2 /\ h[1] = 71 /\ h[2] = 32 /\ Len(s) = 1 /\ s[1] = 32
      /\ Len(z) = 3 /\ z[1] = 47 /\ z[2] = 49
      /\ Len(HTTP) = 4 /\ \A i \in 1..4 : HTTP[i] # 47
  BY DEF SP, Slash, HTTP
<1> HIDE DEF B, h, s, z
<1>3. /\ e \in Seq(B) /\ Len(e) = 8 /\ e[1] = 32 /\ \A i \in 1..4 : e[1 + i] = HTTP[i]
      /\ e[6] = 47 /\ e[7] = 49
  <2>1. /\ e \in Seq(B) /\ Len(e) = Len(s) + Len(HTTP) + Len(z)
        /\ \A i \in 1..Len(s) : e[i] = s[i]
        /\ \A i \in 1..Len(HTTP) : e[Len(s) + i] = HTTP[i]
        /\ \A i \in 1..Len(z) : e[Len(s) + Len(HTTP) + i] = z[i]
    BY <1>1, Between
  <2> HIDE DEF e
  <2>2. QED BY <1>2, <2>1
<1>4. line = (h \o text) \o e
  <2> DEFINE x == h \o text
  <2>1. x \in Seq(B)
    BY <1>1, ConcatProperties
  <2> HIDE DEF x
  <2>2. (x \o s) \o HTTP = x \o (s \o HTTP)
    BY <1>1, <2>1, ConcatAssociative, SMTT(40)
  <2> DEFINE y == s \o HTTP
  <2>3. y \in Seq(B) /\ e = y \o z /\ z \in Seq(B)
    BY <1>1, ConcatProperties
  <2>4. (x \o y) \o z = x \o (y \o z)
    <3> HIDE DEF y
    <3>1. QED BY <2>1, <2>3, ConcatAssociative
  <2>5. QED BY <2>2, <2>3, <2>4 DEF x
<1> HIDE DEF line, e
<1>5. /\ line \in Seq(B) /\ Len(line) = n + 10 /\ line[1] = 71 /\ line[2] = 32
      /\ \A i \in 1..n : line[2 + i] = text[i]
      /\ \A i \in 1..8 : line[2 + n + i] = e[i]
  <2>1. /\ line \in Seq(B) /\ Len(line) = Len(h) + Len(text) + Len(e)
        /\ \A i \in 1..Len(h) : line[i] = h[i]
        /\ \A i \in 1..Len(text) : line[Len(h) + i] = text[i]
        /\ \A i \in 1..Len(e) : line[Len(h) + Len(text) + i] = e[i]
    <3>1. h \in Seq(B) /\ text \in Seq(B) /\ e \in Seq(B)
      BY <1>1, <1>3
    <3>2. QED BY <1>4, <3>1, Between
  <2>2. Len(text) = n
    BY DEF n
  <2>3. QED BY <1>1, <1>2, <1>3, <2>1, <2>2
<1> HIDE DEF n
<1>6. /\ line[n + 3] = 32 /\ line[n + 8] = 47 /\ line[n + 9] = 49
      /\ \A i \in 1..4 : line[n + 3 + i] = HTTP[i]
  <2>1. /\ line[2 + n + 1] = 32 /\ line[2 + n + 6] = 47 /\ line[2 + n + 7] = 49
    BY <1>3, <1>5
  <2>2. \A i \in 1..4 : line[2 + n + (1 + i)] = HTTP[i]
    BY <1>3, <1>5
  <2>3. 2 + n + 1 = n + 3 /\ 2 + n + 6 = n + 8 /\ 2 + n + 7 = n + 9
        /\ \A i \in 1..4 : 2 + n + (1 + i) = n + 3 + i
    BY <1>1
  <2>4. QED BY <2>1, <2>2, <2>3
<1>7. QED BY <1>5, <1>6 DEF IsTargetLine, B, n, line, h, s, z

\* A target without a space is told from its query, whatever it holds.
LEMMA TargetRead == ASSUME NEW A, text \in Seq(A), ~Has(SP) PROVE TargetsComeBack
<1> DEFINE B == A \cup Nat
           n == Len(text)
           line == <<71, SP>> \o text \o <<SP>> \o HTTP \o <<Slash, 49, CR>>
<1>1. /\ text \in Seq(B) /\ n \in Nat /\ HTTP \in Seq(B)
  BY DEF HTTP
<1>2. Len(HTTP) = 4 /\ \A i \in 1..4 : HTTP[i] # 47
  BY DEF HTTP
<1>3. \A i \in 1..n : text[i] # 32
  BY <1>1 DEF Has, ToSet, SP
<1>4. IsTargetLine(B, line)
  BY TargetLine
<1> HIDE DEF B, line
<1>6. /\ line \in Seq(B) /\ Len(line) = n + 10 /\ line[1] = 71 /\ line[2] = 32
      /\ \A i \in 1..n : line[2 + i] = text[i]
  BY <1>4 DEF IsTargetLine
<1> HIDE DEF n
<1>7. /\ line[n + 3] = 32 /\ line[n + 8] = 47 /\ line[n + 9] = 49
      /\ \A i \in 1..4 : line[n + 3 + i] = HTTP[i]
  BY <1>4 DEF IsTargetLine, n
<1>8. First(line, 1, SP) = 2
  <2>1. 2 \in 1..Len(line) /\ line[2] = SP /\ \A j \in 1..(2 - 1) : line[j] # SP
    BY <1>1, <1>6 DEF SP
  <2>2. 1 \in Nat \ {0} /\ line \in Seq(B)
    BY <1>6
  <2>3. QED BY <2>1, <2>2, FirstIs
<1>9. First(line, 3, SP) = n + 3
  <2>1. n + 3 \in 3..Len(line) /\ line[n + 3] = SP
    BY <1>1, <1>6, <1>7 DEF SP
  <2>2. ASSUME NEW j \in 3..(n + 3 - 1)
        PROVE  line[j] # SP
    <3>1. j - 2 \in 1..n /\ 2 + (j - 2) = j
      BY <1>1
    <3>2. QED BY <1>3, <1>6, <3>1 DEF SP
  <2>3. 3 \in Nat \ {0} /\ line \in Seq(B)
    BY <1>6
  <2>4. \A j \in 3..(n + 3 - 1) : line[j] # SP
    BY <2>2
  <2> DEFINE i == n + 3
  <2>5. i \in 3..Len(line) /\ line[i] = SP /\ \A j \in 3..(i - 1) : line[j] # SP
    <3>1. i \in 3..Len(line) /\ line[i] = SP
      BY <2>1
    <3>2. \A j \in 3..(i - 1) : line[j] # SP
      BY <1>1, <2>4
    <3>3. QED BY <3>1, <3>2
  <2> HIDE DEF i
  <2>6. First(line, 3, SP) = i
    BY <2>3, <2>5, FirstIs
  <2>7. QED BY <2>6 DEF i
<1>10. First(line, n + 4, Slash) = n + 8
  <2>1. n + 8 \in (n + 4)..Len(line) /\ line[n + 8] = Slash
    BY <1>1, <1>6, <1>7 DEF Slash
  <2>2. ASSUME NEW j \in (n + 4)..(n + 8 - 1)
        PROVE  line[j] # Slash
    <3>1. j - n - 3 \in 1..4 /\ n + 3 + (j - n - 3) = j
      BY <1>1
    <3>2. QED BY <1>2, <1>7, <3>1 DEF Slash
  <2>3. n + 4 \in Nat \ {0} /\ line \in Seq(B)
    BY <1>1, <1>6
  <2>4. \A j \in (n + 4)..(n + 8 - 1) : line[j] # Slash
    BY <2>2
  <2> DEFINE from == n + 4
             i == n + 8
  <2>5. /\ i \in from..Len(line) /\ line[i] = Slash /\ \A j \in from..(i - 1) : line[j] # Slash
        /\ from \in Nat \ {0}
    <3>1. i \in from..Len(line) /\ line[i] = Slash
      BY <2>1
    <3>2. \A j \in from..(i - 1) : line[j] # Slash
      BY <1>1, <2>4
    <3>3. from \in Nat \ {0}
      BY <2>3
    <3>4. QED BY <3>1, <3>2, <3>3
  <2> HIDE DEF from, i
  <2>6. First(line, from, Slash) = i
    BY <2>3, <2>5, FirstIs
  <2>7. QED BY <2>6 DEF from, i
<1>11. ASSUME NEW from \in 1..(n + 10), NEW w \in Seq(B), from + Len(w) - 1 <= n + 10,
              \A i \in 1..Len(w) : w[i] = line[from + i - 1]
       PROVE  SubSeq(line, from, from + Len(w) - 1) = w
  <2>1. line \in Seq(B) /\ from \in 1..(Len(line) + 1) /\ from + Len(w) - 1 <= Len(line)
    BY <1>1, <1>6, <1>11
  <2>2. QED BY <1>11, <2>1, PieceIs
<1>12. /\ SubSeq(line, n + 4, n + 8 - 1) = HTTP
       /\ SubSeq(line, 1, 2 - 1) = <<71>> /\ SubSeq(line, n + 9, n + 9) = <<49>>
  <2>1. SubSeq(line, n + 4, n + 8 - 1) = HTTP
    <3>1. n + 4 \in 1..(n + 10) /\ n + 4 + Len(HTTP) - 1 = n + 8 - 1 /\ n + 8 - 1 <= n + 10
      BY <1>1, <1>2
    <3>2. \A i \in 1..4 : n + 4 + i - 1 = n + 3 + i
      BY <1>1
    <3>3. \A i \in 1..Len(HTTP) : HTTP[i] = line[n + 4 + i - 1]
      BY <1>2, <1>7, <3>2
    <3>4. SubSeq(line, n + 4, n + 4 + Len(HTTP) - 1) = HTTP
      BY <1>1, <1>11, <3>1, <3>3
    <3>5. QED BY <3>1, <3>4
  <2>2. ASSUME NEW x \in Nat, NEW where \in 1..(n + 10), line[where] = x
        PROVE  SubSeq(line, where, where) = <<x>>
    <3> DEFINE w == <<x>>
    <3>1. w \in Seq(B) /\ Len(w) = 1 /\ w[1] = x
      BY DEF B
    <3> HIDE DEF w
    <3>2. where + Len(w) - 1 = where /\ where <= n + 10 /\ \A i \in 1..Len(w) : w[i] = line[where + i - 1]
      BY <1>1, <2>2, <3>1
    <3>3. SubSeq(line, where, where + Len(w) - 1) = w
      BY <1>11, <3>1, <3>2
    <3>4. QED BY <3>2, <3>3 DEF w
  <2>3. SubSeq(line, 1, 2 - 1) = <<71>>
    <3>1. 1 \in 1..(n + 10) /\ 2 - 1 = 1
      BY <1>1
    <3>2. QED BY <1>6, <2>2, <3>1
  <2>4. SubSeq(line, n + 9, n + 9) = <<49>>
    <3>1. n + 9 \in 1..(n + 10)
      BY <1>1
    <3>2. QED BY <1>7, <2>2, <3>1
  <2>5. QED BY <2>1, <2>3, <2>4
<1> DEFINE q == SelectLastInSubSeq(line, 3, n + 2, LAMBDA x : x = Question)
           path == SubSeq(line, 3, (IF q = 0 THEN n + 3 ELSE q) - 1)
           query == IF q = 0 THEN <<>> ELSE SubSeq(line, q + 1, n + 2)
<1>13. /\ q = 0 => \A i \in 3..(n + 2) : line[i] # Question
       /\ q # 0 => /\ q \in 3..(n + 2) /\ line[q] = Question
                   /\ \A i \in 3..(n + 2) : line[i] = Question => i <= q
  <2> DEFINE I == {i \in 3..(n + 2) : line[i] = Question}
  <2>1. q = IF I # {} THEN Max(I) ELSE 0
    BY DEF SelectLastInSubSeq
  <2>2. 3 \in Nat /\ n + 2 \in Nat /\ I \in SUBSET (3..(n + 2)) /\ 0 \notin I
    BY <1>1
  <2> HIDE DEF q
  <2>3. CASE I = {}
    BY <2>1, <2>3
  <2>4. CASE I # {}
    <3> DEFINE to == n + 2
    <3>1. I \in SUBSET (3..to) /\ to \in Nat
      BY <2>2
    <3> HIDE DEF I, to
    <3>2. q \in I /\ \A i \in I : i <= q
      BY <2>1, <2>4, <3>1, LastFacts
    <3>3. q # 0
      BY <2>2, <3>2
    <3>4. QED BY <3>2, <3>3 DEF I, to
  <2>5. QED BY <2>3, <2>4
<1>14. LET r == RequestParse(line)
       IN r.ok /\ r.method = <<71>> /\ r.version = <<49>> /\ r.path = path /\ r.query = query
  <2>1. /\ 2 + 1 = 3 /\ (n + 3) - 1 = n + 2 /\ (n + 3) + 1 = n + 4 /\ (n + 8) + 1 = n + 9
        /\ Len(line) - 1 = n + 9 /\ 2 # 0 /\ n + 3 # 0 /\ n + 8 # 0
    BY <1>1, <1>6
  <2> DEFINE method_end == First(line, 1, SP)
             path_end == First(line, method_end + 1, SP)
             quest == SelectLastInSubSeq(line, method_end + 1, path_end - 1, LAMBDA c : c = Question)
             protocol_end == First(line, path_end + 1, Slash)
  <2>2. method_end = 2 /\ path_end = n + 3 /\ protocol_end = n + 8
    BY <1>8, <1>9, <1>10, <2>1
  <2>3. quest = q
    BY <2>1, <2>2
  <2>4. SubSeq(line, path_end + 1, protocol_end - 1) = HTTP
    <3> HIDE DEF method_end, path_end, protocol_end
    <3>1. path_end + 1 = n + 4 /\ protocol_end - 1 = n + 8 - 1
      BY <1>1, <2>2
    <3>2. QED BY <1>12, <3>1
  <2>5. RequestParse(line) =
          IF \/ method_end = 0 \/ path_end = 0 \/ protocol_end = 0
             \/ SubSeq(line, path_end + 1, protocol_end - 1) # HTTP
          THEN Wrong
          ELSE [ok |-> TRUE, method |-> SubSeq(line, 1, method_end - 1),
                path |-> SubSeq(line, method_end + 1, (IF quest = 0 THEN path_end ELSE quest) - 1),
                query |-> IF quest = 0 THEN <<>> ELSE SubSeq(line, quest + 1, path_end - 1),
                version |-> SubSeq(line, protocol_end + 1, Len(line) - 1)]
    BY DEF RequestParse
  <2> HIDE DEF method_end, path_end, quest, protocol_end, q
  <2>6. RequestParse(line) =
          [ok |-> TRUE, method |-> SubSeq(line, 1, 2 - 1),
           path |-> SubSeq(line, 3, (IF q = 0 THEN n + 3 ELSE q) - 1),
           query |-> IF q = 0 THEN <<>> ELSE SubSeq(line, q + 1, n + 2),
           version |-> SubSeq(line, n + 9, n + 9)]
    BY <2>1, <2>2, <2>3, <2>4, <2>5
  <2> DEFINE r == RequestParse(line)
             m == SubSeq(line, 1, 2 - 1)
             v == SubSeq(line, n + 9, n + 9)
  <2>7. r = [ok |-> TRUE, method |-> m, path |-> path, query |-> query, version |-> v]
    BY <2>6
  <2>8. m = <<71>> /\ v = <<49>>
    BY <1>12
  <2> HIDE DEF r, path, query, m, v
  <2>9. r.ok = TRUE /\ r.method = m /\ r.path = path /\ r.query = query /\ r.version = v
    BY <2>7
  <2>10. QED BY <2>8, <2>9 DEF r
<1> HIDE DEF q
<1>15. /\ text = path \o (IF Has(Question) THEN <<Question>> \o query ELSE <<>>)
       /\ Question \notin ToSet(query)
  <2>1. CASE q = 0
    <3>1. \A i \in 1..n : text[i] # Question
      <4>1. \A i \in 1..n : 2 + i \in 3..(n + 2)
        BY <1>1
      <4>2. QED BY <1>6, <1>13, <2>1, <4>1
    <3>2. ~Has(Question)
      BY <1>1, <3>1 DEF Has, ToSet, n
    <3>3. path = text
      <4>1. 3 \in 1..(n + 10) /\ 3 + n - 1 <= n + 10 /\ 3 + n - 1 = n + 3 - 1
            /\ \A i \in 1..n : 3 + i - 1 = 2 + i
        BY <1>1
      <4>2. \A i \in 1..n : text[i] = line[3 + i - 1]
        BY <1>6, <4>1
      <4>3. SubSeq(line, 3, 3 + n - 1) = text
        BY <1>1, <1>11, <4>1, <4>2 DEF n
      <4>4. path = SubSeq(line, 3, n + 3 - 1)
        <5>1. (IF q = 0 THEN n + 3 ELSE q) = n + 3
          BY <2>1
        <5> DEFINE end == IF q = 0 THEN n + 3 ELSE q
        <5> HIDE DEF end
        <5>2. end = n + 3
          BY <5>1 DEF end
        <5>3. SubSeq(line, 3, end - 1) = SubSeq(line, 3, n + 3 - 1)
          BY <1>1, <5>2
        <5>4. QED BY <5>3 DEF end
      <4> HIDE DEF path
      <4>5. QED BY <4>1, <4>3, <4>4
    <3>4. text \o <<>> = text
      BY <1>1, ConcatEmptySeq
    <3>5. query = <<>>
      BY <2>1
    <3>6. Question \notin ToSet(<<>>)
      BY DEF ToSet
    <3>7. QED BY <3>2, <3>3, <3>4, <3>5, <3>6
  <2>2. CASE q # 0
    <3> DEFINE m == q - 2
               before_q == SubSeq(text, 1, m - 1)
               after_q == SubSeq(text, m + 1, n)
    <3>1. /\ q \in 3..(n + 2) /\ line[q] = Question
          /\ \A i \in 3..(n + 2) : line[i] = Question => i <= q
      BY <1>13, <2>2
    <3>2. m \in 1..n /\ 2 + m = q
      BY <1>1, <3>1
    <3> HIDE DEF m
    <3>3. text[m] = Question /\ Len(text) = n
      BY <1>6, <3>1, <3>2 DEF n
    <3>4. Has(Question)
      <4>1. DOMAIN text = 1..n
        BY <1>1, <3>3
      <4>2. QED BY <3>2, <3>3, <4>1 DEF Has, ToSet
    <3>5. /\ before_q \in Seq(B) /\ Len(before_q) = m - 1 /\ \A i \in 1..(m - 1) : before_q[i] = text[i]
          /\ after_q \in Seq(B) /\ Len(after_q) = n - m /\ \A i \in 1..(n - m) : after_q[i] = text[m + i]
      <4>1. /\ before_q \in Seq(B) /\ Len(before_q) = (IF 1 <= m - 1 THEN m - 1 - 1 + 1 ELSE 0)
            /\ \A i \in 1..(m - 1 - 1 + 1) : before_q[i] = text[1 + i - 1]
        BY <1>1, <3>2, <3>3, SubSeqProperties
      <4>2. /\ after_q \in Seq(B) /\ Len(after_q) = (IF m + 1 <= n THEN n - (m + 1) + 1 ELSE 0)
            /\ \A i \in 1..(n - (m + 1) + 1) : after_q[i] = text[(m + 1) + i - 1]
        BY <1>1, <3>2, <3>3, SubSeqProperties
      <4> HIDE DEF before_q, after_q
      <4>3. \A i \in 1..(n - m) : i \in 1..(n - (m + 1) + 1) /\ (m + 1) + i - 1 = m + i
        BY <1>1, <3>2
      <4>4. \A i \in 1..(m - 1) : i \in 1..(m - 1 - 1 + 1) /\ 1 + i - 1 = i
        BY <1>1, <3>2
      <4>5. Len(before_q) = m - 1 /\ Len(after_q) = n - m
        BY <1>1, <3>2, <4>1, <4>2
      <4>6. QED BY <4>1, <4>2, <4>3, <4>4, <4>5
    <3>6. path = before_q
      <4> HIDE DEF before_q
      <4>1. 3 \in 1..(n + 10) /\ 3 + (m - 1) - 1 <= n + 10 /\ 3 + (m - 1) - 1 = q - 1
            /\ \A i \in 1..(m - 1) : 3 + i - 1 = 2 + i /\ i \in 1..n
        BY <1>1, <3>2
      <4>2. \A i \in 1..Len(before_q) : before_q[i] = line[3 + i - 1]
        BY <1>6, <3>5, <4>1
      <4>3. SubSeq(line, 3, 3 + Len(before_q) - 1) = before_q
        BY <1>11, <3>5, <4>1, <4>2
      <4>4. QED BY <2>2, <3>5, <4>1, <4>3
    <3>7. query = after_q
      <4> HIDE DEF after_q
      <4>0. q \in Int /\ m \in Int /\ n \in Nat /\ q = 2 + m /\ 1 <= m /\ m <= n
        BY <1>1, <3>1, <3>2
      <4>1. q + 1 \in 1..(n + 10) /\ (q + 1) + (n - m) - 1 = n + 2 /\ n + 2 <= n + 10
        BY <4>0
      <4>2. ASSUME NEW i \in 1..Len(after_q)
            PROVE  after_q[i] = line[(q + 1) + i - 1]
        <5>1. i \in 1..(n - m)
          BY <3>5
        <5>2. (q + 1) + i - 1 = 2 + (m + i) /\ m + i \in 1..n
          BY <4>0, <5>1
        <5>3. line[2 + (m + i)] = text[m + i]
          BY <1>6, <5>2
        <5>4. after_q[i] = text[m + i]
          BY <3>5, <5>1
        <5>5. QED BY <5>2, <5>3, <5>4
      <4>3. SubSeq(line, q + 1, (q + 1) + Len(after_q) - 1) = after_q
        BY <1>11, <3>5, <4>1, <4>2
      <4>4. QED BY <2>2, <3>5, <4>1, <4>3
    <3>8. text = before_q \o (<<Question>> \o after_q)
      <4>1. SubSeq(text, m, n) = <<text[m]>> \o SubSeq(text, m + 1, n)
        BY <1>1, <3>2, <3>3, SubSeqRecursiveFirst
      <4>2. SubSeq(text, 1, m - 1) \o SubSeq(text, (m - 1) + 1, n) = SubSeq(text, 1, n)
        <5>1. /\ 1 \in 1..(Len(text) + 1) /\ m - 1 \in (1 - 1)..Len(text) /\ n \in (m - 1)..Len(text)
              /\ text \in Seq(B)
          BY <1>1, <3>2, <3>3
        <5>2. QED BY <5>1, ConcatAdjacentSubSeq
      <4>3. (m - 1) + 1 = m /\ SubSeq(text, 1, n) = text
        BY <1>1, <3>2, <3>3, SubSeqFull
      <4>4. QED BY <3>3, <4>1, <4>2, <4>3
    <3>9. Question \notin ToSet(after_q)
      <4> HIDE DEF after_q
      <4>1. SUFFICES ASSUME NEW i \in 1..(n - m) PROVE after_q[i] # Question
        BY <1>1, <3>2, <3>5 DEF ToSet
      <4>2. m + i \in 1..n /\ 2 + (m + i) \in 3..(n + 2) /\ 2 + (m + i) > q
        BY <1>1, <3>2
      <4>3. line[2 + (m + i)] # Question
        BY <3>1, <4>2
      <4>4. line[2 + (m + i)] = text[m + i] /\ after_q[i] = text[m + i]
        BY <1>6, <3>5, <4>2
      <4>5. QED BY <4>3, <4>4
    <3> HIDE DEF before_q, after_q, path, query
    <3>10. QED BY <3>4, <3>6, <3>7, <3>8, <3>9
  <2>3. QED BY <2>1, <2>2
<1> HIDE DEF path, query
<1>16. LET r == RequestParse(line)
       IN /\ r.ok = ~Has(SP)
          /\ r.ok => /\ r.method = <<71>> /\ r.version = <<49>>
                     /\ text = r.path \o (IF Has(Question) THEN <<Question>> \o r.query ELSE <<>>)
                     /\ Question \notin ToSet(r.query)
  <2>1. RequestParse(line).ok = TRUE
    BY <1>14
  <2>2. QED BY <1>14, <1>15, <2>1
<1>17. QED BY <1>16 DEF TargetsComeBack, line

-----------------------------------------------------------------------------
(* merging windows *)

\* A window is a sequence of numbers.
LEMMA WindowIs ==
  ASSUME NEW a \in Nat, NEW b \in Nat, a <= b
  PROVE  /\ Window(a, b) \in Seq(Nat) /\ Len(Window(a, b)) = b - a
         /\ \A i \in 1..(b - a) : Window(a, b)[i] = a + i
<1>1. b - a \in Nat
  OBVIOUS
<1>2. \A i \in 1..(b - a) : a + i \in Nat
  OBVIOUS
<1>3. QED BY <1>1, <1>2 DEF Window

\* What is left of a window from an entry on is a window, and so is what goes
\* before it.
LEMMA WindowPiece ==
  ASSUME NEW a \in Nat, NEW b \in Nat, NEW x \in Nat, NEW y \in Nat, a <= x, x <= y, y <= b
  PROVE  SubSeq(Window(a, b), x - a + 1, y - a) = Window(x, y)
<1> DEFINE t == Window(a, b)
           s == Window(x, y)
           from == x - a + 1
<1>1. /\ t \in Seq(Nat) /\ Len(t) = b - a /\ \A i \in 1..(b - a) : t[i] = a + i
      /\ s \in Seq(Nat) /\ Len(s) = y - x /\ \A i \in 1..(y - x) : s[i] = x + i
  <2>1. a <= b /\ x <= y
    OBVIOUS
  <2>2. QED BY <2>1, WindowIs
<1> HIDE DEF t, s
<1>2. from \in 1..(Len(t) + 1) /\ from + Len(s) - 1 = y - a /\ y - a <= Len(t)
  BY <1>1
<1>3. ASSUME NEW i \in 1..Len(s)
      PROVE  s[i] = t[from + i - 1]
  <2>1. i \in 1..(y - x) /\ from + i - 1 \in 1..(b - a) /\ a + (from + i - 1) = x + i
    BY <1>1
  <2> HIDE DEF from
  <2>2. QED BY <1>1, <2>1
<1>4. \A i \in 1..Len(s) : s[i] = t[from + i - 1]
  BY <1>3
<1> HIDE DEF from
<1>5. SubSeq(t, from, from + Len(s) - 1) = s
  <2>1. from + Len(s) - 1 <= Len(t)
    BY <1>2
  <2>2. QED BY <1>1, <1>2, <1>4, <2>1, PieceIs
<1>6. QED BY <1>2, <1>5 DEF t, s, from

\* quick_match on a list and its successor: when one entry came at most, the
\* result is the new list and what left the old one, whatever their sizes.
LEMMA WindowMerged ==
  ASSUME NEW from \in Nat, NEW size \in Nat, NEW gone \in Nat, NEW came \in 0..1, gone < size
  PROVE  WindowMerges(from, size, gone, came)
<1> DEFINE a == from + gone
           b == from + size
           c == from + size + came
           old == Window(from, b)
           new == Window(a, c)
           found == IF new = <<>> THEN 0 ELSE First(old, 1, Head(new))
           kept == Rest(old, found)
           more == Rest(new, Len(kept) + 1)
           overlaid == [i \in DOMAIN kept |-> IF i <= Len(new) THEN new[i] ELSE kept[i]]
           went == SubSeq(old, 1, found - 1)
<1>1. /\ a \in Nat /\ b \in Nat /\ c \in Nat /\ from <= a /\ a < b /\ b <= c /\ c <= b + 1
      /\ a - from = gone
  OBVIOUS
<1> HIDE DEF a, b, c
<1>2. /\ old \in Seq(Nat) /\ Len(old) = b - from /\ \A i \in 1..(b - from) : old[i] = from + i
      /\ new \in Seq(Nat) /\ Len(new) = c - a /\ \A i \in 1..(c - a) : new[i] = a + i
  <2>1. from <= b /\ a <= c
    BY <1>1
  <2>2. QED BY <1>1, <2>1, WindowIs
<1>3. /\ SubSeq(old, gone + 1, b - from) = Window(a, b) /\ SubSeq(old, 1, gone) = Window(from, a)
      /\ SubSeq(new, b - a + 1, c - a) = Window(b, c) /\ SubSeq(new, 1, b - a) = Window(a, b)
  <2>1. SubSeq(old, a - from + 1, b - from) = Window(a, b)
    BY <1>1, WindowPiece
  <2>2. SubSeq(old, from - from + 1, a - from) = Window(from, a)
    BY <1>1, WindowPiece
  <2>3. SubSeq(new, b - a + 1, c - a) = Window(b, c)
    BY <1>1, WindowPiece
  <2>4. SubSeq(new, a - a + 1, b - a) = Window(a, b)
    BY <1>1, WindowPiece
  <2> HIDE DEF old, new
  <2>5. a - from + 1 = gone + 1 /\ from - from + 1 = 1 /\ a - a + 1 = 1 /\ a - from = gone
    BY <1>1
  <2>6. QED BY <2>1, <2>2, <2>3, <2>4, <2>5
<1> HIDE DEF old, new
<1>4. old # <<>> /\ new # <<>> /\ Head(new) = a + 1
  BY <1>1, <1>2
<1>5. found = gone + 1
  <2> DEFINE i == gone + 1
             x == a + 1
  <2>1. i \in 1..(b - from) /\ from + i = x /\ \A j \in 1..(i - 1) : j \in 1..(b - from) /\ from + j # x
    BY <1>1
  <2> HIDE DEF i, x
  <2>2. i \in 1..Len(old) /\ old[i] = x /\ \A j \in 1..(i - 1) : old[j] # x
    BY <1>2, <2>1
  <2>3. First(old, 1, x) = i
    <3>1. 1 \in Nat \ {0} /\ old \in Seq(Nat)
      BY <1>2
    <3>2. QED BY <2>2, <3>1, FirstIs
  <2>4. QED BY <1>4, <2>3 DEF i, x
<1> HIDE DEF found
<1>6. kept = Window(a, b)
  BY <1>2, <1>3, <1>5 DEF Rest
<1>7. went = Window(from, a)
  <2>1. found - 1 = gone
    BY <1>5
  <2>2. QED BY <1>3, <2>1
<1>8. Len(kept) = b - a /\ DOMAIN kept = 1..(b - a)
  <2> HIDE DEF kept
  <2>1. a <= b /\ b - a \in Nat
    BY <1>1
  <2>2. kept \in Seq(Nat) /\ Len(kept) = b - a
    BY <1>1, <1>6, <2>1, WindowIs
  <2>3. QED BY <2>1, <2>2
<1> HIDE DEF kept, went
<1>9. more = Window(b, c)
  BY <1>2, <1>3, <1>8 DEF Rest
<1>10. Len(more) = c - b /\ Len(more) < 2
  <2>1. Len(more) = c - b
    BY <1>1, <1>9, WindowIs
  <2>2. QED BY <1>1, <2>1
<1> HIDE DEF more
<1>11. overlaid = Window(a, b)
  <2>1. \A i \in 1..(b - a) : i <= Len(new) /\ new[i] = a + i
    <3>1. \A i \in 1..(b - a) : i \in 1..(c - a) /\ i <= c - a
      BY <1>1
    <3>2. QED BY <1>2, <3>1
  <2>2. overlaid = [i \in 1..(b - a) |-> a + i]
    BY <1>8, <2>1
  <2>3. QED BY <2>2 DEF Window
<1> HIDE DEF overlaid
<1>12. overlaid \o more = new
  <2>1. SubSeq(new, 1, b - a) \o SubSeq(new, (b - a) + 1, c - a) = SubSeq(new, 1, c - a)
    <3> DEFINE k == b - a
               l == c - a
    <3>1. /\ new \in Seq(Nat) /\ 1 \in 1..(Len(new) + 1) /\ k \in (1 - 1)..Len(new) /\ l \in k..Len(new)
      BY <1>1, <1>2
    <3> HIDE DEF k, l
    <3>2. SubSeq(new, 1, k) \o SubSeq(new, k + 1, l) = SubSeq(new, 1, l)
      BY <3>1, ConcatAdjacentSubSeq
    <3>3. QED BY <3>2 DEF k, l
  <2>2. SubSeq(new, 1, c - a) = new
    BY <1>2, SubSeqFull
  <2>3. QED BY <1>3, <1>9, <1>11, <2>1, <2>2
<1>13. QuickMatch(old, new) = {[latest |-> overlaid \o more, removed |-> went]}
  <2> DEFINE Overwritten == SelectSeq([i \in DOMAIN more |-> <<i, more[i]>>],
                                      LAMBDA e : e[1] % 2 = 0 \/ e[1] = Len(more))
             longer == {[latest |-> overlaid \o <<more[1]>>, removed |-> went],
                        [latest |-> overlaid \o [i \in DOMAIN Overwritten |-> Overwritten[i][2]],
                         removed |-> went]}
  <2>1. QuickMatch(old, new) =
          IF old = <<>> THEN {[latest |-> new, removed |-> <<>>]}
          ELSE IF new = <<>> THEN {[latest |-> old, removed |-> <<>>]}
          ELSE IF found = 0 THEN {[latest |-> new, removed |-> old]}
          ELSE IF Len(more) < 2 THEN {[latest |-> overlaid \o more, removed |-> went]} ELSE longer
    BY DEF QuickMatch, found, kept, more, overlaid, went
  <2> HIDE DEF longer
  <2>2. found # 0
    BY <1>1, <1>5
  <2>3. QED BY <1>4, <1>10, <2>1, <2>2
<1>14. QuickMatch(old, new) = {[latest |-> new, removed |-> Window(from, a)]}
  BY <1>7, <1>12, <1>13
<1>15. QED BY <1>14 DEF WindowMerges, old, new, a, b, c

-----------------------------------------------------------------------------
(* recursion *)

\* What holds of 0 and passes on holds of every number up to n.
LEMMA UpTo ==
  ASSUME NEW n \in Nat, NEW S, 0 \in S, \A k \in 1..n : k - 1 \in S => k \in S
  PROVE  \A k \in 0..n : k \in S
<1> DEFINE T == {k \in 0..n : k \notin S}
<1>1. SUFFICES ASSUME T # {} PROVE FALSE
  OBVIOUS
<1>2. T \in SUBSET Nat
  OBVIOUS
<1>3. PICK m \in T : \A k \in T : m <= k
  BY <1>1, <1>2, LeastNumber
<1>4. m \in 1..n /\ m - 1 \notin T /\ m - 1 \in 0..n
  BY <1>3
<1>5. QED BY <1>4

\* The greatest of a set of numbers up to n.
LEMMA MaxIs ==
  ASSUME NEW S \in SUBSET Nat, NEW m \in S, \A i \in S : i <= m
  PROVE  Max(S) = m
<1>1. \A x \in S : (\A i \in S : x >= i) => x = m
  OBVIOUS
<1>2. QED BY <1>1 DEF Max

\* n steps on values of V; what they make of base one after the other; and
\* what they make of it when only those of a set of places are taken.
Movings(V, n) == [1..n -> [V -> V]]
IsRun(V, base, n, F, g) ==
  g \in [0..n -> V] /\ g[0] = base /\ \A k \in 1..n : g[k] = F[k][g[k - 1]]
IsSetRun(V, base, n, F, g) ==
  /\ g \in [SUBSET (1..n) -> V]
  /\ \A s \in SUBSET (1..n) :
       g[s] = IF s = {} THEN base ELSE F[Max(s)][g[s \ {Max(s)}]]

\* A recursion over the sets of places, the last of them first.
LEMMA SetRun ==
  ASSUME NEW V, NEW base \in V, NEW n \in Nat, NEW F \in Movings(V, n)
  PROVE  \E g : IsSetRun(V, base, n, F, g)
<1> USE DEF Movings
<1> DEFINE Good(k, g) == \A s \in SUBSET (1..k) :
                           g[s] = IF s = {} THEN base ELSE F[Max(s)][g[s \ {Max(s)}]]
           T == {k \in 0..n : ~\E g \in [SUBSET (1..k) -> V] : Good(k, g)}
<1>1. 0 \notin T
  <2> DEFINE g == [s \in SUBSET (1..0) |-> base]
  <2>1. g \in [SUBSET (1..0) -> V] /\ \A s \in SUBSET (1..0) : s = {} /\ g[s] = base
    OBVIOUS
  <2>2. Good(0, g)
    BY <2>1
  <2> HIDE DEF g, Good
  <2>3. QED BY <2>1, <2>2
<1>2. ASSUME NEW m \in T, m # 0, m - 1 \notin T PROVE FALSE
  <2>1. m - 1 \in 0..n /\ m \in 1..n
    BY <1>2
  <2> HIDE DEF Good
  <2>2. PICK g \in [SUBSET (1..(m - 1)) -> V] : Good(m - 1, g)
    BY <1>2, <2>1
  <2> DEFINE h == [s \in SUBSET (1..m) |-> IF m \in s THEN F[m][g[s \ {m}]] ELSE g[s]]
  <2>3. \A s \in SUBSET (1..m) : /\ m \in s => s \ {m} \in SUBSET (1..(m - 1)) /\ Max(s) = m
                                 /\ m \notin s => s \in SUBSET (1..(m - 1))
    <3>1. ASSUME NEW s \in SUBSET (1..m), m \in s PROVE Max(s) = m
      <4>1. s \in SUBSET Nat /\ \A i \in s : i <= m
        BY <2>1
      <4>2. QED BY <3>1, <4>1, MaxIs
    <3>2. QED BY <2>1, <3>1
  <2>4. \A s \in SUBSET (1..m) : h[s] \in V
    BY <2>1, <2>2, <2>3
  <2>5. h \in [SUBSET (1..m) -> V]
    BY <2>4
  <2>6. ASSUME NEW s \in SUBSET (1..(m - 1)) PROVE s \in SUBSET (1..m) /\ h[s] = g[s]
    BY <2>1
  <2>7. ASSUME NEW s \in SUBSET (1..m)
        PROVE  h[s] = IF s = {} THEN base ELSE F[Max(s)][h[s \ {Max(s)}]]
    <3>1. CASE m \in s
      <4>1. h[s] = F[m][g[s \ {m}]]
        BY <3>1
      <4>2. h[s \ {m}] = g[s \ {m}]
        BY <2>3, <2>6, <3>1
      <4>3. QED BY <4>1, <4>2, <2>3, <3>1
    <3>2. CASE m \notin s
      <4>1. s \in SUBSET (1..(m - 1)) /\ h[s] = g[s]
        BY <2>3, <3>2
      <4>2. g[s] = IF s = {} THEN base ELSE F[Max(s)][g[s \ {Max(s)}]]
        BY <2>2, <4>1 DEF Good
      <4>3. s \ {Max(s)} \in SUBSET (1..(m - 1))
        BY <4>1
      <4>4. h[s \ {Max(s)}] = g[s \ {Max(s)}]
        BY <2>6, <4>3
      <4> HIDE DEF h
      <4>5. QED BY <4>1, <4>2, <4>4
    <3>3. QED BY <3>1, <3>2
  <2> HIDE DEF h
  <2>8. Good(m, h)
    BY <2>7 DEF Good
  <2>9. QED BY <1>2, <2>5, <2>8
<1>3. T = {}
  <2> HIDE DEF Good
  <2>1. SUFFICES ASSUME T # {} PROVE FALSE
    OBVIOUS
  <2>2. T \in SUBSET Nat
    OBVIOUS
  <2> HIDE DEF T
  <2>3. PICK m \in T : \A k \in T : m <= k
    BY <2>1, <2>2, LeastNumber
  <2>4. m - 1 \notin T /\ m # 0
    BY <1>1, <2>2, <2>3
  <2>5. QED BY <1>2, <2>3, <2>4
<1>4. n \in 0..n
  OBVIOUS
<1>5. PICK g \in [SUBSET (1..n) -> V] : Good(n, g)
  BY <1>3, <1>4
<1> HIDE DEF T
<1>6. QED BY <1>5 DEF IsSetRun

\* A recursion from a place to the one behind it.
LEMMA Run ==
  ASSUME NEW V, NEW base \in V, NEW n \in Nat, NEW F \in Movings(V, n)
  PROVE  \E g : IsRun(V, base, n, F, g)
<1>0. PICK h : IsSetRun(V, base, n, F, h)
  BY SetRun
<1>1. /\ h \in [SUBSET (1..n) -> V]
      /\ \A s \in SUBSET (1..n) :
           h[s] = IF s = {} THEN base ELSE F[Max(s)][h[s \ {Max(s)}]]
  BY <1>0 DEF IsSetRun
<1> DEFINE g == [k \in 0..n |-> h[1..k]]
<1>2. \A k \in 0..n : 1..k \in SUBSET (1..n)
  OBVIOUS
<1>3. g \in [0..n -> V]
  BY <1>1, <1>2
<1>4. g[0] = base
  <2>1. 1..0 = {} /\ 0 \in 0..n
    OBVIOUS
  <2>2. h[1..0] = base
    BY <1>1, <1>2, <2>1
  <2>3. QED BY <2>1, <2>2
<1>5. ASSUME NEW k \in 1..n PROVE g[k] = F[k][g[k - 1]]
  <2>1. k \in 0..n /\ k - 1 \in 0..n /\ 1..k # {} /\ (1..k) \ {k} = 1..(k - 1)
    OBVIOUS
  <2>2. Max(1..k) = k
    <3>1. 1..k \in SUBSET Nat /\ k \in 1..k /\ \A i \in 1..k : i <= k
      OBVIOUS
    <3>2. QED BY <3>1, MaxIs
  <2>3. h[1..k] = F[k][h[1..(k - 1)]]
    BY <1>1, <1>2, <2>1, <2>2
  <2>4. QED BY <2>1, <2>3
<1> HIDE DEF g
<1>6. QED BY <1>3, <1>4, <1>5 DEF IsRun

\* A recursion from a place to those before it: what it gives at a place
\* depends on what it gives behind only.  n bodies of such a function, of which
\* each looks behind its place; and what they say of it.
Bodies(W, n) == [1..n -> [[1..n -> W] -> W]]
LooksBehind(W, n, G) == \A i \in 1..n : \A f, h \in [1..n -> W] :
                          (\A j \in (i + 1)..n : f[j] = h[j]) => G[i][f] = G[i][h]
IsBackwardsRun(W, n, G, f) == f \in [1..n -> W] /\ \A i \in 1..n : f[i] = G[i][f]

\* A recursion over the positions that looks at later ones only has a value.
LEMMA BackwardsRun ==
  ASSUME NEW W, W # {}, NEW n \in Nat, NEW G \in Bodies(W, n), LooksBehind(W, n, G)
  PROVE  \E f : IsBackwardsRun(W, n, G, f)
<1> USE DEF Bodies, LooksBehind
<1> DEFINE Good(k, f) == \A i \in (n - k + 1)..n : f[i] = G[i][f]
           S == {k \in 0..n : \E f \in [1..n -> W] : Good(k, f)}
<1>1. 0 \in S
  <2>1. PICK w \in W : TRUE
    OBVIOUS
  <2>2. [i \in 1..n |-> w] \in [1..n -> W] /\ (n - 0 + 1)..n = {}
    OBVIOUS
  <2> DEFINE f == [i \in 1..n |-> w]
  <2>3. f \in [1..n -> W] /\ Good(0, f)
    BY <2>2
  <2> HIDE DEF f, Good
  <2>4. QED BY <2>3
<1>2. ASSUME NEW k \in 1..n, k - 1 \in S PROVE k \in S
  <2>1. PICK f \in [1..n -> W] : Good(k - 1, f)
    BY <1>2
  <2> DEFINE at == n - k + 1
             h == [f EXCEPT ![at] = G[at][f]]
  <2>2. at \in 1..n /\ at \in Int
    OBVIOUS
  <2>3. n - (k - 1) + 1 = at + 1 /\ \A i \in at..n : i = at \/ i \in (at + 1)..n
    OBVIOUS
  <2> HIDE DEF at
  <2>4. h \in [1..n -> W] /\ h[at] = G[at][f] /\ \A i \in (at + 1)..n : h[i] = f[i]
    BY <2>2
  <2> HIDE DEF h
  <2>5. \A i \in (at + 1)..n : f[i] = G[i][f]
    BY <2>1, <2>3
  <2>6. G[at][h] = G[at][f]
    BY <2>2, <2>4
  <2>7. ASSUME NEW i \in (at + 1)..n PROVE G[i][h] = G[i][f]
    <3>1. i \in 1..n /\ \A j \in (i + 1)..n : j \in (at + 1)..n
      BY <2>2
    <3>2. \A j \in (i + 1)..n : f[j] = h[j]
      BY <2>4, <3>1
    <3>3. QED BY <2>4, <3>1, <3>2
  <2>8. \A i \in at..n : h[i] = G[i][h]
    BY <2>3, <2>4, <2>5, <2>6, <2>7
  <2>9. QED BY <2>4, <2>8 DEF at
<1>3. n \in S
  <2> HIDE DEF S
  <2>1. \A k \in 0..n : k \in S
    BY <1>1, <1>2, UpTo
  <2>2. QED BY <2>1
<1>4. PICK f \in [1..n -> W] : Good(n, f)
  BY <1>3
<1>5. n - n + 1 = 1
  OBVIOUS
<1>6. QED BY <1>4, <1>5 DEF IsBackwardsRun

\* What a sequence of texts is put together to, text by text.
LEMMA Flattened ==
  ASSUME NEW A, NEW ss \in Seq(Seq(A))
  PROVE  \E g \in [0..Len(ss) -> Seq(A)] :
           /\ g[0] = <<>> /\ \A k \in 1..Len(ss) : g[k] = g[k - 1] \o ss[k]
           /\ FlattenSeq(ss) = g[Len(ss)]
<1> DEFINE n == Len(ss)
           F == [k \in 1..n |-> [s \in Seq(A) |-> s \o ss[k]]]
           eq(h) == h = [i \in 1..n |-> IF i = 1 THEN ss[i] ELSE h[i - 1] \o ss[i]]
           flatten == CHOOSE h : eq(h)
<1>1. n \in Nat /\ <<>> \in Seq(A) /\ \A k \in 1..n : ss[k] \in Seq(A)
  OBVIOUS
<1>2. F \in Movings(Seq(A), n)
  BY <1>1 DEF Movings
<1> DEFINE V == Seq(A)
           base == <<>>
<1>3. PICK g : g \in [0..n -> Seq(A)] /\ g[0] = <<>> /\ \A k \in 1..n : g[k] = F[k][g[k - 1]]
  <2>1. base \in V /\ n \in Nat /\ F \in Movings(V, n)
    BY <1>1, <1>2
  <2> HIDE DEF V, F, base, n
  <2>2. PICK g : IsRun(V, base, n, F, g)
    BY <2>1, Run
  <2>3. g \in [0..n -> V] /\ g[0] = base /\ \A k \in 1..n : g[k] = F[k][g[k - 1]]
    BY <2>2 DEF IsRun
  <2>4. QED BY <2>3 DEF V, base
<1>4. \A k \in 1..n : g[k] = g[k - 1] \o ss[k]
  <2>1. ASSUME NEW k \in 1..n PROVE g[k - 1] \in Seq(A) /\ F[k] = [s \in Seq(A) |-> s \o ss[k]]
    <3>1. k - 1 \in 0..n
      BY <1>1
    <3>2. QED BY <1>3, <3>1
  <2> HIDE DEF F
  <2>2. QED BY <1>3, <2>1, ZenonT(60)
<1> HIDE DEF F, V, base
<1>5. FlattenSeq(ss) = IF n = 0 THEN ss ELSE flatten[n]
  BY DEF FlattenSeq
<1>6. CASE n = 0
  <2>1. ss = <<>>
    BY <1>6
  <2>2. QED BY <1>3, <1>4, <1>5, <1>6, <2>1
<1>7. CASE n # 0
  <2>0. g[1] = ss[1]
    <3>1. 1 \in 1..n /\ 1 - 1 = 0
      BY <1>1, <1>7
    <3>2. g[1] = <<>> \o ss[1]
      BY <1>3, <1>4, <3>1
    <3>3. QED BY <1>1, <3>1, <3>2, ConcatEmptySeq
  <2> DEFINE h == [i \in 1..n |-> g[i]]
  <2>1. ASSUME NEW i \in 1..n PROVE h[i] = IF i = 1 THEN ss[i] ELSE h[i - 1] \o ss[i]
    <3>2. i # 1 => i - 1 \in 1..n
      BY <1>1
    <3>3. QED BY <1>4, <2>0, <3>2
  <2>2. eq(h)
    BY <2>1
  <2> HIDE DEF h, eq
  <2>3. eq(flatten)
    BY <2>2
  <2> HIDE DEF flatten
  <2>4. \A i \in 1..n : flatten[i] = IF i = 1 THEN ss[i] ELSE flatten[i - 1] \o ss[i]
    BY <2>3 DEF eq
  <2> DEFINE S == {k \in 0..n : k # 0 => flatten[k] = g[k]}
  <2>5. 0 \in S
    BY <1>1
  <2>6. ASSUME NEW k \in 1..n, k - 1 \in S PROVE k \in S
    <3>1. k # 1 => flatten[k - 1] = g[k - 1]
      BY <1>1, <2>6
    <3>2. flatten[k] = g[k]
      BY <1>4, <2>0, <2>4, <3>1
    <3>3. QED BY <3>2
  <2>7. n \in S
    <3> HIDE DEF S
    <3>1. \A k \in 0..n : k \in S
      BY <1>1, <2>5, <2>6, UpTo
    <3>2. QED BY <1>1, <3>1
  <2>8. flatten[n] = g[n]
    BY <1>7, <2>7
  <2>9. QED BY <1>3, <1>4, <1>5, <1>7, <2>8
<1>8. QED BY <1>6, <1>7

-----------------------------------------------------------------------------
(* percent encoding *)

Octets == 0..255

\* What stands for a character in an encoded text, and the characters of such
\* texts.
Code(c) == IF c \in Unreserved THEN <<c>>
           ELSE <<PercentSign, HexChar(c \div 16), HexChar(c % 16)>>
Safe == Unreserved \cup {PercentSign}

\* A code is made of characters that mean nothing elsewhere, and its digits
\* are read back.
LEMMA CodeIs ==
  ASSUME NEW c \in Octets
  PROVE  /\ Code(c) \in Seq(Safe) /\ Len(Code(c)) = IF c \in Unreserved THEN 1 ELSE 3
         /\ c \in Unreserved => Code(c)[1] = c
         /\ c \notin Unreserved => /\ Code(c)[1] = PercentSign
                                   /\ Strtol(Code(c)[2], Code(c)[3]) = c
<1>1. ASSUME NEW d \in 0..15
      PROVE  HexChar(d) \in Unreserved /\ HexValue(HexChar(d)) = d
  BY <1>1 DEF HexChar, HexValue, Unreserved, Digits
<1>2. c \div 16 \in 0..15 /\ c % 16 \in 0..15 /\ 16 * (c \div 16) + (c % 16) = c
  <2>1. c \in Int /\ 0 <= c /\ c <= 255
    BY DEF Octets
  <2>2. c \div 16 \in Int /\ c % 16 \in 0..15
    BY <2>1
  <2>5. c = 16 * (c \div 16) + (c % 16)
    BY <2>1, <2>2
  <2>3. c \div 16 <= 15 /\ c \div 16 >= 0
    BY <2>1, <2>2
  <2>4. QED BY <2>2, <2>3, <2>5
<1> DEFINE h == HexChar(c \div 16)
           l == HexChar(c % 16)
<1>3. /\ h \in Unreserved /\ l \in Unreserved
      /\ HexValue(h) = c \div 16 /\ HexValue(l) = c % 16
  BY <1>1, <1>2
<1> HIDE DEF h, l
<1>4. Strtol(h, l) = c
  <2>1. ~(HexValue(l) < 0) /\ HexValue(h) >= 0
    BY <1>2, <1>3
  <2>2. Strtol(h, l) = 16 * HexValue(h) + HexValue(l)
    BY <2>1 DEF Strtol
  <2>3. QED BY <1>2, <1>3, <2>2
<1>5. CASE c \in Unreserved
  <2>1. Code(c) = <<c>>
    BY <1>5 DEF Code
  <2>2. QED BY <1>5, <2>1 DEF Safe
<1>6. CASE c \notin Unreserved
  <2>1. Code(c) = <<PercentSign, h, l>>
    BY <1>6 DEF Code, h, l
  <2> DEFINE s == <<PercentSign, h, l>>
  <2>2. s \in Seq(Safe) /\ Len(s) = 3 /\ s[1] = PercentSign /\ s[2] = h /\ s[3] = l
    BY <1>3 DEF Safe
  <2> HIDE DEF s
  <2>3. QED BY <1>4, <1>6, <2>1, <2>2 DEF s
<1>7. QED BY <1>5, <1>6

\* strtol gives a number.
LEMMA StrtolInt == ASSUME NEW c \in Int, NEW d \in Int PROVE Strtol(c, d) \in Int
<1>1. HexValue(c) \in Int /\ HexValue(d) \in Int
  BY DEF HexValue, Digits
<1>2. QED BY <1>1 DEF Strtol

\* Decode from each place of a text on.
Decoding(v, f) ==
  /\ f \in [1..(Len(v) + 1) -> Seq(Int)] /\ Decode(v) = f[1]
  /\ \A i \in 1..(Len(v) + 1) :
       f[i] = IF i > Len(v) THEN <<>>
              ELSE IF v[i] = PercentSign /\ i + 2 <= Len(v)
                   THEN <<Strtol(v[i + 1], v[i + 2])>> \o f[i + 3]
                   ELSE <<IF v[i] = Plus THEN SP ELSE v[i]>> \o f[i + 1]

\* Decode's recursion over the positions of a text has a value.
LEMMA DecodeRun == ASSUME NEW v \in Seq(Int) PROVE \E f : Decoding(v, f)
<1> DEFINE n == Len(v) + 1
           W == Seq(Int)
           body(i, f) == IF i > Len(v) THEN <<>>
                         ELSE IF v[i] = PercentSign /\ i + 2 <= Len(v)
                              THEN <<Strtol(v[i + 1], v[i + 2])>> \o f[i + 3]
                              ELSE <<IF v[i] = Plus THEN SP ELSE v[i]>> \o f[i + 1]
           G == [i \in 1..n |-> [f \in [1..n -> W] |-> body(i, f)]]
           eq(f) == f = [i \in 1..n |-> body(i, f)]
           from == CHOOSE f : eq(f)
<1>1. Len(v) \in Nat /\ n \in Nat /\ \A i \in 1..Len(v) : v[i] \in Int
  OBVIOUS
<1>2. ASSUME NEW i \in 1..n, NEW f \in [1..n -> W] PROVE body(i, f) \in W
  <2>1. CASE i > Len(v)
    BY <2>1
  <2>2. CASE i <= Len(v) /\ v[i] = PercentSign /\ i + 2 <= Len(v)
    <3>1. i + 1 \in 1..Len(v) /\ i + 2 \in 1..Len(v) /\ i + 3 \in 1..n
      BY <1>1, <2>2
    <3>2. <<Strtol(v[i + 1], v[i + 2])>> \in Seq(Int) /\ f[i + 3] \in Seq(Int)
      <4>1. v[i + 1] \in Int /\ v[i + 2] \in Int
        BY <1>1, <3>1
      <4> DEFINE x == Strtol(v[i + 1], v[i + 2])
      <4>2. x \in Int
        BY <4>1, StrtolInt
      <4> HIDE DEF x
      <4>3. <<x>> \in Seq(Int)
        BY <4>2
      <4>4. QED BY <3>1, <4>3 DEF x
    <3>3. body(i, f) = <<Strtol(v[i + 1], v[i + 2])>> \o f[i + 3]
      BY <1>1, <2>2
    <3> HIDE DEF body
    <3>4. QED BY <3>2, <3>3, ConcatProperties
  <2>3. CASE i <= Len(v) /\ ~(v[i] = PercentSign /\ i + 2 <= Len(v))
    <3> DEFINE c == IF v[i] = Plus THEN SP ELSE v[i]
    <3>1. i \in 1..Len(v) /\ i + 1 \in 1..n
      BY <1>1, <2>3
    <3>2. <<c>> \in Seq(Int) /\ f[i + 1] \in Seq(Int)
      BY <1>1, <3>1 DEF SP
    <3>3. body(i, f) = <<c>> \o f[i + 1]
      BY <1>1, <2>3
    <3> HIDE DEF body, c
    <3>4. QED BY <3>2, <3>3, ConcatProperties
  <2>4. QED BY <1>1, <2>1, <2>2, <2>3
<1>3. ASSUME NEW i \in 1..n, NEW f \in [1..n -> W], NEW h \in [1..n -> W],
             \A j \in (i + 1)..n : f[j] = h[j]
      PROVE  body(i, f) = body(i, h)
  <2>1. i <= Len(v) => f[i + 1] = h[i + 1]
    BY <1>1, <1>3
  <2>2. i + 2 <= Len(v) => f[i + 3] = h[i + 3]
    BY <1>1, <1>3
  <2>3. QED BY <1>1, <2>1, <2>2
<1>4. Decode(v) = from[1]
  BY DEF Decode
<1> HIDE DEF body, W
<1>5. PICK f \in [1..n -> W] : \A i \in 1..n : f[i] = body(i, f)
  <2>1. G \in [1..n -> [[1..n -> W] -> W]]
    BY <1>2
  <2>2. \A i \in 1..n : \A f, h \in [1..n -> W] :
           (\A j \in (i + 1)..n : f[j] = h[j]) => G[i][f] = G[i][h]
    BY <1>3
  <2>3. W # {}
    BY DEF W
  <2>4. \A i \in 1..n : \A f \in [1..n -> W] : G[i][f] = body(i, f)
    OBVIOUS
  <2>5. G \in Bodies(W, n)
    BY <2>1 DEF Bodies
  <2>6. n \in Nat /\ LooksBehind(W, n, G)
    BY <1>1, <2>2 DEF LooksBehind
  <2> HIDE DEF G, n
  <2>7. PICK f : IsBackwardsRun(W, n, G, f)
    BY <2>3, <2>5, <2>6, BackwardsRun
  <2>8. f \in [1..n -> W] /\ \A i \in 1..n : f[i] = G[i][f]
    BY <2>7 DEF IsBackwardsRun
  <2>9. QED BY <2>4, <2>8
<1>6. eq(f)
  BY <1>5
<1> HIDE DEF eq
<1>7. eq(from)
  BY <1>6
<1> HIDE DEF from
<1>8. \A i \in 1..n : from[i] = body(i, from)
  BY <1>7 DEF eq
<1>9. from \in [1..n -> W]
  <2> DEFINE S == {k \in 0..n : \A i \in (n - k + 1)..n : from[i] \in W}
  <2>1. 0 \in S
    BY <1>1
  <2>2. ASSUME NEW k \in 1..n, k - 1 \in S PROVE k \in S
    <3> DEFINE at == n - k + 1
    <3>1. at \in 1..n /\ n - (k - 1) + 1 = at + 1 /\ \A i \in at..n : i = at \/ i \in (at + 1)..n
      BY <1>1
    <3>2. \A i \in (at + 1)..n : from[i] \in W
      BY <2>2, <3>1
    <3> DEFINE later == [i \in 1..n |-> IF i \in (at + 1)..n THEN from[i] ELSE <<>>]
    <3>3. later \in [1..n -> W]
      BY <3>2 DEF W
    <3>4. body(at, later) \in W
      BY <1>2, <3>1, <3>3
    <3>5. body(at, from) = body(at, later)
      <4>1. at <= Len(v) => at + 1 \in (at + 1)..n
        BY <1>1, <3>1
      <4>2. at + 2 <= Len(v) => at + 3 \in (at + 1)..n
        BY <1>1, <3>1
      <4>3. \A i \in (at + 1)..n : i \in 1..n /\ later[i] = from[i]
        BY <1>1, <3>1
      <4> HIDE DEF later, at
      <4>4. at <= Len(v) => from[at + 1] = later[at + 1]
        BY <4>1, <4>3
      <4>5. at + 2 <= Len(v) => from[at + 3] = later[at + 3]
        BY <4>2, <4>3
      <4>6. QED BY <1>1, <3>1, <4>4, <4>5 DEF body
    <3>6. QED BY <1>8, <3>1, <3>2, <3>4, <3>5
  <2>3. \A k \in 0..n : k \in S
    <3> HIDE DEF S
    <3>1. QED BY <1>1, <2>1, <2>2, UpTo
  <2>4. n - n + 1 = 1 /\ n \in 0..n
    BY <1>1
  <2>5. QED BY <1>7, <2>3, <2>4 DEF eq
<1>10. QED BY <1>4, <1>8, <1>9 DEF Decoding, body, W

\* A sequence of texts put together, one after the other.
IsConcat(A, ss, g) ==
  /\ g \in [0..Len(ss) -> Seq(A)] /\ g[0] = <<>>
  /\ \A k \in 1..Len(ss) : g[k] = g[k - 1] \o ss[k]

\* Each of them stands where those before it end.
Placed(ss, g) ==
  \A k \in 1..Len(ss) :
    /\ Len(g[k]) = Len(g[k - 1]) + Len(ss[k]) /\ Len(g[k]) <= Len(g[Len(ss)])
    /\ \A j \in 1..Len(ss[k]) : g[Len(ss)][Len(g[k - 1]) + j] = ss[k][j]

\* Where each of the sequences that FlattenSeq joins is found in what it makes.
LEMMA Concatenated ==
  ASSUME NEW A, NEW ss \in Seq(Seq(A)), NEW g, IsConcat(A, ss, g)
  PROVE  Placed(ss, g)
<1> DEFINE n == Len(ss)
           Over(k, m) == /\ Len(g[k]) <= Len(g[m])
                         /\ \A j \in 1..Len(g[k]) : g[m][j] = g[k][j]
<1>1. /\ n \in Nat /\ \A k \in 1..n : ss[k] \in Seq(A) /\ Len(ss[k]) \in Nat
      /\ \A k \in 0..n : g[k] \in Seq(A) /\ Len(g[k]) \in Nat
      /\ \A k \in 1..n : g[k] = g[k - 1] \o ss[k] /\ k - 1 \in 0..n /\ k \in 0..n
  BY DEF IsConcat
<1> HIDE DEF n
<1>2. ASSUME NEW k \in 1..n
      PROVE  /\ Len(g[k]) = Len(g[k - 1]) + Len(ss[k])
             /\ \A j \in 1..Len(g[k - 1]) : g[k][j] = g[k - 1][j]
             /\ \A j \in 1..Len(ss[k]) : g[k][Len(g[k - 1]) + j] = ss[k][j]
  <2> DEFINE a == g[k - 1]
             b == ss[k]
  <2>1. a \in Seq(A) /\ b \in Seq(A) /\ g[k] = a \o b /\ Len(a) \in Nat /\ Len(b) \in Nat
    BY <1>1
  <2> HIDE DEF a, b
  <2>2. Len(a \o b) = Len(a) + Len(b)
    BY <2>1, ConcatProperties
  <2>3. \A j \in 1..(Len(a) + Len(b)) :
           (a \o b)[j] = IF j <= Len(a) THEN a[j] ELSE b[j - Len(a)]
    BY <2>1, ConcatProperties
  <2>4. \A j \in 1..Len(a) : (a \o b)[j] = a[j]
    BY <2>1, <2>3
  <2>5. ASSUME NEW j \in 1..Len(b) PROVE (a \o b)[Len(a) + j] = b[j]
    <3>1. Len(a) + j \in 1..(Len(a) + Len(b)) /\ ~(Len(a) + j <= Len(a)) /\ Len(a) + j - Len(a) = j
      BY <2>1
    <3>2. QED BY <2>3, <3>1
  <2>6. QED BY <2>1, <2>2, <2>4, <2>5 DEF a, b
<1>3. ASSUME NEW k \in 0..n PROVE \A d \in 0..(n - k) : Over(k, k + d)
  <2> DEFINE S == {d \in 0..(n - k) : Over(k, k + d)}
  <2>1. n - k \in Nat /\ k + 0 = k /\ Len(g[k]) \in Nat /\ 0 \in 0..(n - k)
    BY <1>1
  <2>2. 0 \in S
    <3>1. Over(k, k)
      BY <2>1
    <3> HIDE DEF Over
    <3>2. Over(k, k + 0)
      BY <2>1, <3>1
    <3>3. QED BY <2>1, <3>2
  <2>3. ASSUME NEW d \in 1..(n - k), d - 1 \in S PROVE d \in S
    <3> DEFINE m == k + d
    <3>1. m \in 1..n /\ k + (d - 1) = m - 1
      BY <1>1, <2>1
    <3> HIDE DEF m
    <3>2. Over(k, m - 1)
      BY <2>3, <3>1
    <3>3. Len(g[k]) \in Nat /\ Len(g[m - 1]) \in Nat /\ Len(ss[m]) \in Nat
      BY <1>1, <3>1
    <3>4. Len(g[m]) = Len(g[m - 1]) + Len(ss[m])
      BY <1>2, <3>1
    <3>5. Len(g[k]) <= Len(g[m - 1]) /\ Len(g[k]) <= Len(g[m])
      <4> DEFINE x == Len(g[k])
                 y == Len(g[m - 1])
                 z == Len(g[m])
                 l == Len(ss[m])
      <4>1. x <= y /\ x \in Nat /\ y \in Nat /\ l \in Nat /\ z = y + l
        BY <3>2, <3>3, <3>4
      <4> HIDE DEF x, y, z, l
      <4>2. x <= y /\ x <= z
        BY <4>1
      <4>3. QED BY <4>2 DEF x, y, z
    <3>6. ASSUME NEW j \in 1..Len(g[k]) PROVE g[m][j] = g[k][j]
      <4>1. j \in 1..Len(g[m - 1])
        BY <3>3, <3>5
      <4>2. g[m][j] = g[m - 1][j]
        BY <1>2, <3>1, <4>1
      <4>3. QED BY <3>2, <4>2
    <3>7. Over(k, m)
      BY <3>5, <3>6
    <3>8. QED BY <3>7 DEF m
  <2> HIDE DEF S
  <2>4. \A d \in 0..(n - k) : d \in S
    BY <2>1, <2>2, <2>3, UpTo
  <2>5. QED BY <2>4 DEF S
<1>4. ASSUME NEW k \in 1..n
      PROVE  /\ Len(g[k]) = Len(g[k - 1]) + Len(ss[k]) /\ Len(g[k]) <= Len(g[n])
             /\ \A j \in 1..Len(ss[k]) : g[n][Len(g[k - 1]) + j] = ss[k][j]
  <2>1. k \in 0..n /\ n - k \in 0..(n - k) /\ k + (n - k) = n
    BY <1>1
  <2>2. Over(k, n)
    BY <1>3, <2>1
  <2>3. Len(g[k - 1]) \in Nat /\ Len(ss[k]) \in Nat /\ Len(g[k]) = Len(g[k - 1]) + Len(ss[k])
    BY <1>1, <1>2
  <2>4. ASSUME NEW j \in 1..Len(ss[k]) PROVE g[n][Len(g[k - 1]) + j] = ss[k][j]
    <3>1. Len(g[k - 1]) + j \in 1..Len(g[k])
      <4> DEFINE x == Len(g[k - 1])
                 l == Len(ss[k])
      <4>1. x \in Nat /\ l \in Nat /\ Len(g[k]) = x + l /\ j \in 1..l
        BY <2>3
      <4> HIDE DEF x, l
      <4>2. x + j \in 1..(x + l)
        BY <4>1
      <4>3. QED BY <4>1, <4>2 DEF x
    <3>2. g[n][Len(g[k - 1]) + j] = g[k][Len(g[k - 1]) + j]
      BY <2>2, <3>1
    <3>3. QED BY <1>2, <3>2
  <2>5. QED BY <2>2, <2>3, <2>4
<1>5. QED BY <1>4 DEF n, Placed

\* What a text is encoded as from one character to the next.
Encoding(v, g) == /\ IsConcat(Safe, [i \in 1..Len(v) |-> Code(v[i])], g)
                  /\ Encode(v) = g[Len(v)]

\* FlattenSeq's recursion over the codes of a text has a value.
LEMMA EncodeRun == ASSUME NEW v \in Seq(Octets) PROVE \E g : Encoding(v, g)
<1> DEFINE ss == [i \in 1..Len(v) |-> Code(v[i])]
<1>1. Len(v) \in Nat /\ DOMAIN v = 1..Len(v) /\ \A i \in 1..Len(v) : v[i] \in Octets
  OBVIOUS
<1>2. \A i \in 1..Len(v) : Code(v[i]) \in Seq(Safe)
  BY <1>1, CodeIs
<1>3. ss \in Seq(Seq(Safe)) /\ Len(ss) = Len(v)
  BY <1>1, <1>2
<1>4. Encode(v) = FlattenSeq(ss)
  BY <1>1 DEF Encode, Code
<1> HIDE DEF ss
<1>5. PICK g \in [0..Len(ss) -> Seq(Safe)] :
        /\ g[0] = <<>> /\ \A k \in 1..Len(ss) : g[k] = g[k - 1] \o ss[k]
        /\ FlattenSeq(ss) = g[Len(ss)]
  BY <1>3, Flattened
<1>6. IsConcat(Safe, ss, g)
  BY <1>5 DEF IsConcat
<1>7. QED BY <1>3, <1>4, <1>5, <1>6 DEF Encoding, ss

\* What is encoded is decoded to what it was.
LEMMA EncodedComesBack ==
  ASSUME NEW v \in Seq(Octets)
  PROVE  Encode(v) \in Seq(Safe) /\ Decode(Encode(v)) = v
<1> DEFINE n == Len(v)
           ss == [i \in 1..n |-> Code(v[i])]
           e == Encode(v)
<1>1. n \in Nat /\ \A i \in 1..n : v[i] \in Octets /\ Code(v[i]) \in Seq(Safe)
  BY CodeIs
<1>2. ss \in Seq(Seq(Safe)) /\ Len(ss) = n /\ \A i \in 1..n : ss[i] = Code(v[i])
  BY <1>1
<1>3. PICK g : Encoding(v, g)
  BY EncodeRun
<1>4. IsConcat(Safe, ss, g) /\ e = g[n]
  BY <1>3 DEF Encoding
<1> HIDE DEF ss, n, e
<1>5. /\ g[0] = <<>> /\ e \in Seq(Safe) /\ Len(e) \in Nat
      /\ \A k \in 0..n : g[k] \in Seq(Safe) /\ Len(g[k]) \in Nat
  BY <1>1, <1>2, <1>4 DEF IsConcat
<1>6. \A k \in 1..n :
        /\ Len(g[k]) = Len(g[k - 1]) + Len(Code(v[k])) /\ Len(g[k]) <= Len(e)
        /\ \A j \in 1..Len(Code(v[k])) : e[Len(g[k - 1]) + j] = Code(v[k])[j]
  <2>1. \A k \in 1..Len(ss) :
           /\ Len(g[k]) = Len(g[k - 1]) + Len(ss[k]) /\ Len(g[k]) <= Len(g[Len(ss)])
           /\ \A j \in 1..Len(ss[k]) : g[Len(ss)][Len(g[k - 1]) + j] = ss[k][j]
    <3> DEFINE A == Safe
    <3>1. ss \in Seq(Seq(A)) /\ IsConcat(A, ss, g)
      BY <1>2, <1>4
    <3> HIDE DEF A
    <3>2. Placed(ss, g)
      BY <3>1, Concatenated
    <3>3. QED BY <3>2 DEF Placed
  <2>2. QED BY <1>2, <1>4, <2>1
<1>7. e \in Seq(Int)
  <2>1. Safe \subseteq Int
    BY DEF Safe, Unreserved, Digits, PercentSign, Minus
  <2>2. QED BY <1>5, <2>1, SeqMonotonic
<1>8. PICK f : Decoding(e, f)
  BY <1>7, DecodeRun
<1>9. /\ Decode(e) = f[1]
      /\ \A i \in 1..(Len(e) + 1) :
           f[i] = IF i > Len(e) THEN <<>>
                  ELSE IF e[i] = PercentSign /\ i + 2 <= Len(e)
                       THEN <<Strtol(e[i + 1], e[i + 2])>> \o f[i + 3]
                       ELSE <<IF e[i] = Plus THEN SP ELSE e[i]>> \o f[i + 1]
  BY <1>8 DEF Decoding
<1> DEFINE S == {k \in 0..n : f[Len(g[n - k]) + 1] = SubSeq(v, n - k + 1, n)}
<1>10. 0 \in S
  <2>1. f[Len(e) + 1] = <<>>
    <3>1. Len(e) + 1 \in 1..(Len(e) + 1) /\ Len(e) + 1 > Len(e)
      BY <1>5
    <3>2. QED BY <1>9, <3>1
  <2>2. SubSeq(v, n + 1, n) = <<>>
    BY <1>1, SubSeqEmpty
  <2>3. n - 0 = n /\ 0 \in 0..n
    BY <1>1
  <2>4. QED BY <1>4, <2>1, <2>2, <2>3
<1>11. ASSUME NEW k \in 1..n, k - 1 \in S PROVE k \in S
  <2> DEFINE i == n - k + 1
             p == Len(g[i - 1])
             c == v[i]
  <2>1. i \in 1..n /\ n - k = i - 1 /\ n - (k - 1) = i /\ i - 1 \in 0..n /\ k \in 0..n
    BY <1>1
  <2> HIDE DEF i
  <2>2. /\ p \in Nat /\ c \in Octets /\ Len(g[i]) = p + Len(Code(c)) /\ Len(g[i]) <= Len(e)
        /\ \A j \in 1..Len(Code(c)) : e[p + j] = Code(c)[j]
    BY <1>1, <1>5, <1>6, <2>1
  <2>3. f[Len(g[i]) + 1] = SubSeq(v, i + 1, n)
    BY <1>11, <2>1
  <2> HIDE DEF p, c
  <2>4. ASSUME c \in Unreserved PROVE f[p + 1] = <<c>> \o SubSeq(v, i + 1, n)
    <3>1. Len(Code(c)) = 1 /\ Code(c)[1] = c
      BY <2>2, <2>4, CodeIs
    <3>2. e[p + 1] = c /\ Len(g[i]) = p + 1 /\ p + 1 <= Len(e) /\ p + 1 \in 1..(Len(e) + 1)
      BY <1>5, <2>2, <3>1
    <3>3. c # PercentSign /\ c # Plus
      BY <2>4 DEF Unreserved, Digits, PercentSign, Plus, Minus
    <3>4. f[p + 1] = <<c>> \o f[p + 1 + 1]
      <4>1. ~(p + 1 > Len(e)) /\ e[p + 1] # PercentSign /\ e[p + 1] # Plus
        BY <1>5, <2>2, <3>2, <3>3
      <4>2. QED BY <1>9, <3>2, <4>1
    <3>5. QED BY <2>3, <3>2, <3>4
  <2>5. ASSUME c \notin Unreserved PROVE f[p + 1] = <<c>> \o SubSeq(v, i + 1, n)
    <3>1. /\ Len(Code(c)) = 3 /\ Code(c)[1] = PercentSign
          /\ Strtol(Code(c)[2], Code(c)[3]) = c
      BY <2>2, <2>5, CodeIs
    <3>2. /\ e[p + 1] = PercentSign /\ e[p + 2] = Code(c)[2] /\ e[p + 3] = Code(c)[3]
          /\ Len(g[i]) = p + 3 /\ p + 3 <= Len(e) /\ p + 1 \in 1..(Len(e) + 1)
      BY <1>5, <2>2, <3>1
    <3>3. /\ p + 1 + 1 = p + 2 /\ p + 1 + 2 = p + 3 /\ p + 1 + 3 = p + 4 /\ p + 3 + 1 = p + 4
          /\ ~(p + 1 > Len(e))
      BY <1>5, <2>2, <3>2
    <3>4. f[p + 1] = <<Strtol(e[p + 2], e[p + 3])>> \o f[p + 4]
      BY <1>9, <3>2, <3>3
    <3>5. f[p + 1] = <<c>> \o f[p + 4]
      BY <3>1, <3>2, <3>4
    <3>6. QED BY <2>3, <3>2, <3>3, <3>5
  <2>6. f[p + 1] = <<c>> \o SubSeq(v, i + 1, n)
    BY <2>4, <2>5
  <2>7. SubSeq(v, i, n) = <<v[i]>> \o SubSeq(v, i + 1, n)
    BY <1>1, <2>1, SubSeqRecursiveFirst DEF n
  <2>8. f[Len(g[i - 1]) + 1] = SubSeq(v, i, n)
    BY <2>6, <2>7 DEF p, c
  <2>9. f[Len(g[n - k]) + 1] = SubSeq(v, n - k + 1, n)
    BY <2>1, <2>8 DEF i
  <2>10. QED BY <2>1, <2>9
<1>12. n \in S
  <2> HIDE DEF S
  <2>1. \A k \in 0..n : k \in S
    BY <1>1, <1>10, <1>11, UpTo
  <2>2. QED BY <1>1, <2>1
<1>13. n - n = 0 /\ Len(g[0]) + 1 = 1 /\ 0 + 1 = 1
  BY <1>1, <1>5
<1>14. f[1] = SubSeq(v, 1, n)
  <2>1. f[Len(g[n - n]) + 1] = SubSeq(v, n - n + 1, n)
    BY <1>12
  <2>2. QED BY <1>13, <2>1
<1>15. SubSeq(v, 1, n) = v
  BY SubSeqFull DEF n
<1>16. QED BY <1>5, <1>9, <1>14, <1>15 DEF e

\* Two texts put together.
IsJoin(A, x, y, z) ==
  /\ z \in Seq(A) /\ Len(z) = Len(x) + Len(y) /\ Len(x) \in Nat /\ Len(y) \in Nat
  /\ \A i \in 1..Len(x) : z[i] = x[i]
  /\ \A i \in 1..Len(y) : z[Len(x) + i] = y[i]

\* One sequence behind another, place by place.
LEMMA Joined ==
  ASSUME NEW A, NEW x \in Seq(A), NEW y \in Seq(A), NEW z, z = x \o y
  PROVE  IsJoin(A, x, y, z)
<1>1. /\ z \in Seq(A) /\ Len(z) = Len(x) + Len(y)
      /\ \A i \in 1..(Len(x) + Len(y)) : z[i] = IF i <= Len(x) THEN x[i] ELSE y[i - Len(x)]
  BY ConcatProperties
<1>2. Len(x) \in Nat /\ Len(y) \in Nat
  OBVIOUS
<1>3. QED BY <1>1, <1>2 DEF IsJoin

\* FlattenSeq of two sequences joins them.
LEMMA FlattenTwo ==
  ASSUME NEW A, NEW x \in Seq(A), NEW y \in Seq(A)
  PROVE  FlattenSeq(<<x, y>>) = x \o y
<1> DEFINE ss == <<x, y>>
<1>1. ss \in Seq(Seq(A)) /\ Len(ss) = 2 /\ ss[1] = x /\ ss[2] = y
  OBVIOUS
<1> HIDE DEF ss
<1>2. PICK g \in [0..Len(ss) -> Seq(A)] :
        /\ g[0] = <<>> /\ \A k \in 1..Len(ss) : g[k] = g[k - 1] \o ss[k]
        /\ FlattenSeq(ss) = g[Len(ss)]
  BY <1>1, Flattened
<1>3. 1 \in 1..Len(ss) /\ 2 \in 1..Len(ss) /\ 1 - 1 = 0 /\ 2 - 1 = 1
  BY <1>1
<1>4. g[1] = <<>> \o x /\ g[2] = g[1] \o y
  BY <1>1, <1>2, <1>3
<1>5. g[1] = x
  BY <1>4, ConcatEmptySeq
<1>6. QED BY <1>1, <1>2, <1>4, <1>5 DEF ss

-----------------------------------------------------------------------------
(* query strings *)

\* QueryParse's state, its steps and its end.
QueryStart == [result |-> <<>>, name_pos |-> 1, eq |-> 0]
QueryClosed(q, at, end) ==
  LET name == SubSeq(q, at.name_pos, (IF at.eq = 0 THEN end ELSE at.eq) - 1)
      value == IF at.eq = 0 THEN <<>> ELSE Decode(SubSeq(q, at.eq + 1, end - 1))
  IN IF name = <<>> THEN at.result ELSE Append(at.result, Field(name, value))
QueryStep(q, at, c) ==
  CASE q[c] = Amp -> [result |-> QueryClosed(q, at, c), name_pos |-> c + 1, eq |-> 0]
    [] q[c] = Equals -> [at EXCEPT !.eq = c]
    [] OTHER -> at

\* What it reads, character by character.
QueryRead(q, h) ==
  /\ h[0] = QueryStart /\ \A c \in 1..Len(q) : h[c] = QueryStep(q, h[c - 1], c)
  /\ QueryParse(q) = QueryClosed(q, h[Len(q)], Len(q) + 1)

\* QueryParse's fold over a query string has a value.
LEMMA QueryRun == ASSUME NEW A, NEW q \in Seq(A) PROVE \E h : QueryRead(q, h)
<1> DEFINE n == Len(q)
           t == [c \in DOMAIN q |-> c]
           eq(it) == it = [s \in SUBSET DOMAIN t |->
                             IF s = {} THEN QueryStart ELSE QueryStep(q, it[s \ {Max(s)}], t[Max(s)])]
           read == CHOOSE it : eq(it)
           W == {<<>>} \cup {Decode(SubSeq(q, p[1], p[2])) : p \in Int \X Int}
           R == {Field(SubSeq(q, p[1], p[2]), p[3]) : p \in Int \X Int \X W}
           V == [result : Seq(R), name_pos : Nat, eq : Nat]
           base == QueryStart
           F == [c \in 1..n |-> [at \in V |-> QueryStep(q, at, c)]]
           h == [k \in 0..n |-> read[1..k]]
<1>1. n \in Nat /\ DOMAIN t = 1..n /\ \A c \in 1..n : t[c] = c
  OBVIOUS
<1>2. QueryParse(q) = QueryClosed(q, read[DOMAIN t], n + 1)
  BY DEF QueryParse, QueryStart, QueryClosed, QueryStep, FoldLeft, MapThenFoldSet
<1>3. \A at \in V : \A c \in 1..n : QueryStep(q, at, c) \in V
  <2>1. ASSUME NEW at \in V, NEW c \in 1..n PROVE QueryClosed(q, at, c) \in Seq(R)
    <3> DEFINE p == at.name_pos
               l == (IF at.eq = 0 THEN c ELSE at.eq) - 1
               z == at.eq + 1
               w == c - 1
               name == SubSeq(q, p, l)
               value == IF at.eq = 0 THEN <<>> ELSE Decode(SubSeq(q, z, w))
    <3>1. p \in Int /\ l \in Int /\ z \in Int /\ w \in Int /\ at.result \in Seq(R)
      BY <1>1
    <3>2. QueryClosed(q, at, c) = IF name = <<>> THEN at.result
                                  ELSE Append(at.result, Field(name, value))
      BY DEF QueryClosed
    <3>3. value \in W
      <4> HIDE DEF z, w
      <4>1. <<z, w>> \in Int \X Int
        BY <3>1
      <4>2. Decode(SubSeq(q, z, w)) \in W
        BY <4>1
      <4>3. QED BY <4>2
    <3>4. Field(name, value) \in R
      <4> HIDE DEF p, l, value, W
      <4>1. <<p, l, value>> \in Int \X Int \X W
        BY <3>1, <3>3
      <4>2. QED BY <4>1
    <3> HIDE DEF name, value, R
    <3>5. Append(at.result, Field(name, value)) \in Seq(R)
      BY <3>1, <3>4, AppendProperties
    <3>6. QED BY <3>1, <3>2, <3>5
  <2> HIDE DEF R
  <2>2. ASSUME NEW at \in V, NEW c \in 1..n PROVE QueryStep(q, at, c) \in V
    <3>1. c \in Nat /\ c + 1 \in Nat /\ 0 \in Nat
      BY <1>1
    <3>2. [result |-> QueryClosed(q, at, c), name_pos |-> c + 1, eq |-> 0] \in V
      BY <2>1, <3>1
    <3>3. [at EXCEPT !.eq = c] \in V
      BY <3>1
    <3>4. QED BY <3>2, <3>3 DEF QueryStep
  <2>3. QED BY <2>2
<1>4. base \in V
  BY DEF QueryStart
<1>5. F \in Movings(V, n)
  BY <1>3 DEF Movings
<1>6. \A c \in 1..n : \A at \in V : F[c][at] = QueryStep(q, at, c)
  OBVIOUS
<1>7. \E g : eq(g)
  <2> HIDE DEF V, F, base, n
  <2>1. PICK g : IsSetRun(V, base, n, F, g)
    BY <1>1, <1>4, <1>5, SetRun
  <2>2. g \in [SUBSET (1..n) -> V] /\ \A s \in SUBSET (1..n) :
          g[s] = IF s = {} THEN base ELSE F[Max(s)][g[s \ {Max(s)}]]
    BY <2>1 DEF IsSetRun
  <2>3. ASSUME NEW s \in SUBSET (1..n)
        PROVE  g[s] = IF s = {} THEN base ELSE QueryStep(q, g[s \ {Max(s)}], t[Max(s)])
    <3>1. CASE s = {}
      BY <2>2, <3>1
    <3>2. CASE s # {}
      <4>1. Max(s) \in 1..n /\ s \ {Max(s)} \in SUBSET (1..n)
        BY <1>1, <3>2, LastFacts
      <4> HIDE DEF t
      <4>2. t[Max(s)] = Max(s) /\ g[s \ {Max(s)}] \in V
        BY <1>1, <2>2, <4>1
      <4>3. QED BY <1>6, <2>2, <3>2, <4>1, <4>2
    <3>3. QED BY <3>1, <3>2
  <2> HIDE DEF t
  <2>4. eq(g)
    BY <1>1, <2>2, <2>3 DEF base
  <2>5. QED BY <2>4
<1> HIDE DEF eq, F, V, base
<1>8. eq(read)
  BY <1>7
<1> HIDE DEF read, t, n
<1>9. \A s \in SUBSET (1..n) :
        read[s] = IF s = {} THEN QueryStart ELSE QueryStep(q, read[s \ {Max(s)}], t[Max(s)])
  BY <1>1, <1>8 DEF eq
<1>10. h[0] = QueryStart
  <2>1. 1..0 = {} /\ 0 \in 0..n /\ 1..0 \in SUBSET (1..n)
    BY <1>1
  <2>2. QED BY <1>9, <2>1
<1>11. ASSUME NEW k \in 1..n PROVE h[k] = QueryStep(q, h[k - 1], k)
  <2>1. /\ k \in 0..n /\ k - 1 \in 0..n /\ 1..k # {} /\ (1..k) \ {k} = 1..(k - 1)
        /\ 1..k \in SUBSET (1..n)
    BY <1>1
  <2>2. Max(1..k) = k
    <3>1. 1..k \in SUBSET Nat /\ k \in 1..k /\ \A i \in 1..k : i <= k
      BY <1>1
    <3>2. QED BY <3>1, MaxIs
  <2>3. read[1..k] = QueryStep(q, read[1..(k - 1)], k)
    BY <1>1, <1>9, <2>1, <2>2
  <2>4. QED BY <2>1, <2>3
<1>12. QueryParse(q) = QueryClosed(q, h[n], n + 1)
  <2>1. n \in 0..n /\ h[n] = read[1..n]
    BY <1>1
  <2>2. QED BY <1>1, <1>2, <2>1
<1> HIDE DEF h
<1>13. QueryRead(q, h)
  BY <1>10, <1>11, <1>12 DEF QueryRead, n
<1>14. QED BY <1>13

\* A field behind a place, whose value holds no separator, is read whole.
HoldsField(q, p, c, e) ==
  /\ p \in Nat /\ p + 2 + Len(e) <= Len(q) /\ q[p + 1] = c /\ c # Amp /\ c # Equals
  /\ q[p + 2] = Equals /\ \A j \in 1..Len(e) : q[p + 2 + j] = e[j]
BeginsField(h, p, r) == h[p] = [result |-> r, name_pos |-> p + 1, eq |-> 0]

\* A field of a query string that is read on from its name: the name, the sign and an encoded value.
LEMMA QueryField ==
  ASSUME NEW B, Safe \subseteq B, NEW q \in Seq(B), NEW e \in Seq(Safe), NEW c \in B,
         NEW h, QueryRead(q, h), NEW p, HoldsField(q, p, c, e),
         NEW r, BeginsField(h, p, r)
  PROVE  QueryClosed(q, h[p + 2 + Len(e)], p + 3 + Len(e)) = Append(r, Field(<<c>>, Decode(e)))
<1> USE DEF HoldsField, BeginsField
<1> DEFINE m == Len(e)
           n == Len(q)
           at == [result |-> r, name_pos |-> p + 1, eq |-> 0]
           after == [result |-> r, name_pos |-> p + 1, eq |-> p + 2]
<1>1. m \in Nat /\ n \in Nat /\ p + 2 + m <= n /\ \A j \in 1..m : q[p + 2 + j] = e[j] /\ e[j] \in Safe
  OBVIOUS
<1>2. \A x \in Safe : x # Amp /\ x # Equals
  <2>1. Amp \notin Safe /\ Equals \notin Safe
    BY DEF Safe, Unreserved, Digits, Amp, Equals, PercentSign, Minus
  <2>2. QED BY <2>1
<1>3. \A k \in 1..n : h[k] = QueryStep(q, h[k - 1], k)
  BY DEF QueryRead
<1>4. h[p + 1] = at
  <2>1. p + 1 \in 1..n /\ p + 1 - 1 = p
    BY <1>1
  <2>2. h[p + 1] = QueryStep(q, h[p], p + 1)
    BY <1>3, <2>1
  <2>3. QED BY <2>2 DEF QueryStep
<1>5. h[p + 2] = after
  <2>1. p + 2 \in 1..n /\ p + 2 - 1 = p + 1
    BY <1>1
  <2>2. h[p + 2] = QueryStep(q, at, p + 2)
    BY <1>3, <1>4, <2>1
  <2>3. Equals # Amp
    BY DEF Equals, Amp
  <2>4. QED BY <2>2, <2>3 DEF QueryStep
<1> HIDE DEF m, n, at, after
<1>6. \A k \in 0..m : h[p + 2 + k] = after
  <2> DEFINE S == {k \in 0..m : h[p + 2 + k] = after}
  <2>1. 0 \in S
    <3>1. 0 \in 0..m /\ p + 2 + 0 = p + 2
      BY <1>1
    <3>2. QED BY <1>5, <3>1
  <2>2. ASSUME NEW k \in 1..m, k - 1 \in S PROVE k \in S
    <3>1. p + 2 + k \in 1..n /\ p + 2 + k - 1 = p + 2 + (k - 1) /\ k \in 0..m
      BY <1>1
    <3>2. h[p + 2 + k] = QueryStep(q, after, p + 2 + k)
      BY <1>3, <2>2, <3>1
    <3>3. q[p + 2 + k] # Amp /\ q[p + 2 + k] # Equals
      BY <1>1, <1>2
    <3>4. QED BY <3>1, <3>2, <3>3 DEF QueryStep
  <2> HIDE DEF S
  <2>3. \A k \in 0..m : k \in S
    BY <1>1, <2>1, <2>2, UpTo
  <2>4. QED BY <2>3 DEF S
<1>7. h[p + 2 + m] = after
  BY <1>1, <1>6
<1>8. SubSeq(q, p + 1, p + 1) = <<c>>
  <2> DEFINE x == <<c>>
  <2>1. x \in Seq(B) /\ Len(x) = 1 /\ x[1] = c
    OBVIOUS
  <2> HIDE DEF x
  <2>2. p + 1 \in 1..(Len(q) + 1) /\ p + 1 + Len(x) - 1 = p + 1 /\ p + 1 <= Len(q)
    BY <1>1, <2>1 DEF n
  <2>3. \A i \in 1..Len(x) : x[i] = q[p + 1 + i - 1]
    BY <1>1, <2>1
  <2>4. SubSeq(q, p + 1, p + 1 + Len(x) - 1) = x
    BY <2>1, <2>2, <2>3, PieceIs
  <2>5. QED BY <2>2, <2>4 DEF x
<1>9. SubSeq(q, p + 3, p + 2 + m) = e
  <2>1. e \in Seq(B)
    BY SeqMonotonic
  <2>2. p + 3 \in 1..(Len(q) + 1) /\ p + 3 + Len(e) - 1 = p + 2 + m /\ p + 2 + m <= Len(q)
    BY <1>1 DEF n, m
  <2>3. ASSUME NEW i \in 1..Len(e) PROVE e[i] = q[p + 3 + i - 1]
    <3>1. p + 3 + i - 1 = p + 2 + i
      BY <1>1
    <3>2. QED BY <1>1, <3>1 DEF m
  <2>4. SubSeq(q, p + 3, p + 3 + Len(e) - 1) = e
    BY <2>1, <2>2, <2>3, PieceIs
  <2>5. QED BY <2>2, <2>4
<1>10. QueryClosed(q, after, p + 3 + m) = Append(r, Field(<<c>>, Decode(e)))
  <2>1. p + 2 # 0 /\ p + 2 - 1 = p + 1 /\ p + 2 + 1 = p + 3 /\ (p + 3 + m) - 1 = p + 2 + m
    BY <1>1
  <2>2. after.name_pos = p + 1 /\ after.eq = p + 2 /\ after.result = r
    BY DEF after
  <2> DEFINE to == (IF after.eq = 0 THEN p + 3 + m ELSE after.eq) - 1
             name == SubSeq(q, after.name_pos, to)
             value == IF after.eq = 0 THEN <<>> ELSE Decode(SubSeq(q, after.eq + 1, (p + 3 + m) - 1))
  <2>3. QueryClosed(q, after, p + 3 + m) = IF name = <<>> THEN after.result
                                           ELSE Append(after.result, Field(name, value))
    BY DEF QueryClosed
  <2>4. to = p + 1
    BY <2>1, <2>2
  <2>5. name = <<c>> /\ value = Decode(e)
    <3> HIDE DEF to
    <3>1. QED BY <1>8, <1>9, <2>1, <2>2, <2>4
  <2>6. <<c>> # <<>>
    OBVIOUS
  <2> HIDE DEF name, value
  <2>7. QED BY <2>2, <2>3, <2>5, <2>6
<1>11. QED BY <1>7, <1>10 DEF m

\* Two sequences of one make a pair.
LEMMA PairIs == ASSUME NEW A, NEW a \in A, NEW b \in A PROVE <<a>> \o <<b>> = <<a, b>>
<1> DEFINE x == <<a>>
           y == <<b>>
           z == x \o y
           p == <<a, b>>
<1>1. /\ x \in Seq(A) /\ y \in Seq(A) /\ Len(x) = 1 /\ Len(y) = 1 /\ x[1] = a /\ y[1] = b
      /\ p \in Seq(A) /\ Len(p) = 2 /\ p[1] = a /\ p[2] = b
  OBVIOUS
<1>0. z = x \o y
  OBVIOUS
<1> HIDE DEF x, y, z, p
<1>2. IsJoin(A, x, y, z)
  BY <1>0, <1>1, Joined
<1>3. Len(z) = 2 /\ z[1] = a /\ z[2] = b
  BY <1>1, <1>2 DEF IsJoin
<1>4. z = p
  <2>1. z \in Seq(A)
    BY <1>2 DEF IsJoin
  <2>2. QED BY <1>1, <1>3, <2>1, SeqEqual
<1>5. QED BY <1>4 DEF z, x, y, p

\* A field as QueryCreate writes it.
LEMMA QueryOne ==
  ASSUME NEW B, NEW c \in B, Equals \in B, NEW e \in Seq(B), NEW x, x = <<c>> \o <<Equals>> \o e
  PROVE  /\ x \in Seq(B) /\ Len(x) = Len(e) + 2 /\ x[1] = c /\ x[2] = Equals
         /\ \A j \in 1..Len(e) : x[2 + j] = e[j]
<1> DEFINE h == <<c, Equals>>
<1>1. h \in Seq(B) /\ Len(h) = 2 /\ h[1] = c /\ h[2] = Equals
  OBVIOUS
<1>2. x = h \o e
  <2>1. <<c>> \o <<Equals>> = h
    BY PairIs
  <2>2. QED BY <2>1
<1> HIDE DEF h
<1>3. IsJoin(B, h, e, x)
  BY <1>1, <1>2, Joined
<1>4. 1 \in 1..Len(h) /\ 2 \in 1..Len(h)
  BY <1>1
<1>5. QED BY <1>1, <1>3, <1>4 DEF IsJoin

\* Two fields come back from a query string.
LEMMA QueryComesBack ==
  ASSUME NEW v \in Seq(Octets),
         NEW fields, fields = <<Field(AName, v), Field(BName, v)>>
  PROVE  QueryParse(QueryCreate(fields)) = fields
<1> DEFINE e == Encode(v)
           m == Len(e)
           B == Safe \cup {Amp, Equals}
           x == <<97>> \o <<Equals>> \o e
           y == <<98>> \o <<Equals>> \o e
           s == <<Amp>>
           z == s \o y
           q == x \o z
           r == <<Field(<<97>>, v)>>
           F == [i \in DOMAIN fields |->
                   (IF i = 1 THEN <<>> ELSE s) \o (fields[i].name \o <<Equals>> \o Encode(fields[i].value))]
<1>1. e \in Seq(Safe) /\ Decode(e) = v /\ m \in Nat
  <2>1. e \in Seq(Safe) /\ Decode(e) = v
    BY EncodedComesBack
  <2> HIDE DEF e
  <2>2. QED BY <2>1
<1>2. Safe \subseteq B /\ e \in Seq(B) /\ 97 \in B /\ 98 \in B /\ Equals \in B /\ Amp \in B
  <2> HIDE DEF e
  <2>1. 97 \in Safe /\ 98 \in Safe
    BY DEF Safe, Unreserved, Digits
  <2> HIDE DEF B
  <2>2. Safe \subseteq B /\ Equals \in B /\ Amp \in B
    BY DEF B
  <2>3. QED BY <1>1, <2>1, <2>2, SeqMonotonic
<1>3. F = <<<<>> \o x, z>>
  <2>1. DOMAIN fields = 1..2 /\ fields[1] = Field(AName, v) /\ fields[2] = Field(BName, v)
    OBVIOUS
  <2>2. /\ fields[1].name = <<97>> /\ fields[1].value = v
        /\ fields[2].name = <<98>> /\ fields[2].value = v
    BY <2>1 DEF Field, AName, BName
  <2>3. F = [i \in 1..2 |-> IF i = 1 THEN <<>> \o x ELSE z]
    <3> HIDE DEF s
    <3>1. \A i \in 1..2 : i = 1 \/ i = 2
      OBVIOUS
    <3>2. \A i \in 1..2 : F[i] = IF i = 1 THEN <<>> \o x ELSE z
      BY <2>1, <2>2, <3>1
    <3>3. QED BY <2>1, <3>2
  <2> HIDE DEF F, x, z
  <2>4. QED BY <2>3
<1>4. QueryCreate(fields) = FlattenSeq(F)
  BY DEF QueryCreate
<1> HIDE DEF F, B, e, m, r
<1>5. /\ x \in Seq(B) /\ Len(x) = m + 2 /\ x[1] = 97 /\ x[2] = Equals
      /\ \A j \in 1..m : x[2 + j] = e[j]
  BY <1>2, QueryOne DEF m
<1>6. /\ y \in Seq(B) /\ Len(y) = m + 2 /\ y[1] = 98 /\ y[2] = Equals
      /\ \A j \in 1..m : y[2 + j] = e[j]
  BY <1>2, QueryOne DEF m
<1> HIDE DEF x, y
<1>7. /\ z \in Seq(B) /\ Len(z) = m + 3 /\ z[1] = Amp /\ z[2] = 98 /\ z[3] = Equals
      /\ \A j \in 1..m : z[3 + j] = e[j]
  <2>1. s \in Seq(B) /\ Len(s) = 1 /\ s[1] = Amp
    BY <1>2
  <2>0. z = s \o y
    OBVIOUS
  <2> HIDE DEF s, z
  <2>8. IsJoin(B, s, y, z)
    BY <1>6, <2>0, <2>1, Joined
  <2>2. /\ z \in Seq(B) /\ Len(z) = Len(s) + Len(y)
        /\ \A i \in 1..Len(s) : z[i] = s[i]
        /\ \A i \in 1..Len(y) : z[Len(s) + i] = y[i]
    BY <2>8 DEF IsJoin
  <2>3. Len(z) = m + 3 /\ z[1] = Amp
    BY <1>1, <1>6, <2>1, <2>2
  <2>4. \A i \in 1..(m + 2) : z[1 + i] = y[i]
    BY <1>6, <2>1, <2>2
  <2>5. z[1 + 1] = y[1] /\ z[1 + 2] = y[2]
    BY <1>1, <2>4
  <2>6. ASSUME NEW j \in 1..m PROVE z[3 + j] = e[j]
    <3>1. 2 + j \in 1..(m + 2) /\ 1 + (2 + j) = 3 + j
      BY <1>1
    <3>2. QED BY <1>6, <2>4, <3>1
  <2>7. QED BY <1>6, <2>2, <2>3, <2>5, <2>6
<1> HIDE DEF z, s
<1>8. QueryCreate(fields) = q
  <2>1. <<>> \o x = x
    BY <1>5, ConcatEmptySeq
  <2>2. FlattenSeq(<<x, z>>) = q
    BY <1>5, <1>7, FlattenTwo
  <2>3. QED BY <1>3, <1>4, <2>1, <2>2
<1>9. /\ q \in Seq(B) /\ Len(q) = m + m + 5 /\ q[1] = 97 /\ q[2] = Equals
      /\ \A j \in 1..m : q[2 + j] = e[j]
      /\ q[m + 3] = Amp /\ q[m + 4] = 98 /\ q[m + 5] = Equals
      /\ \A j \in 1..m : q[m + 5 + j] = e[j]
  <2>0. q = x \o z
    OBVIOUS
  <2> HIDE DEF q
  <2>10. IsJoin(B, x, z, q)
    BY <1>5, <1>7, <2>0, Joined
  <2>1. /\ q \in Seq(B) /\ Len(q) = Len(x) + Len(z)
        /\ \A i \in 1..Len(x) : q[i] = x[i]
        /\ \A i \in 1..Len(z) : q[Len(x) + i] = z[i]
    BY <2>10 DEF IsJoin
  <2>2. Len(q) = m + m + 5 /\ \A i \in 1..(m + 2) : q[i] = x[i]
    BY <1>1, <1>5, <1>7, <2>1
  <2>3. \A i \in 1..(m + 3) : q[m + 2 + i] = z[i]
    BY <1>5, <1>7, <2>1
  <2>4. q[1] = 97 /\ q[2] = Equals
    BY <1>1, <1>5, <2>2
  <2>5. ASSUME NEW j \in 1..m PROVE q[2 + j] = e[j]
    <3>1. 2 + j \in 1..(m + 2)
      BY <1>1
    <3>2. QED BY <1>5, <2>2, <3>1
  <2>6. q[m + 2 + 1] = z[1] /\ q[m + 2 + 2] = z[2] /\ q[m + 2 + 3] = z[3]
    BY <1>1, <2>3
  <2>7. m + 2 + 1 = m + 3 /\ m + 2 + 2 = m + 4 /\ m + 2 + 3 = m + 5
    BY <1>1
  <2>8. ASSUME NEW j \in 1..m PROVE q[m + 5 + j] = e[j]
    <3>1. 3 + j \in 1..(m + 3) /\ m + 2 + (3 + j) = m + 5 + j
      BY <1>1
    <3>2. QED BY <1>7, <2>3, <3>1
  <2>9. QED BY <1>7, <2>1, <2>2, <2>4, <2>5, <2>6, <2>7, <2>8
<1> HIDE DEF q
<1>10. PICK h : QueryRead(q, h)
  BY <1>9, QueryRun
<1>11. /\ h[0] = QueryStart /\ \A k \in 1..Len(q) : h[k] = QueryStep(q, h[k - 1], k)
       /\ QueryParse(q) = QueryClosed(q, h[Len(q)], Len(q) + 1)
  BY <1>10 DEF QueryRead
<1>12. Amp \notin Safe /\ 97 # Amp /\ 98 # Amp /\ 97 # Equals /\ 98 # Equals
  BY DEF Safe, Unreserved, Digits, Amp, Equals, PercentSign, Minus
<1>13. QueryClosed(q, h[m + 2], m + 3) = r
  <2> DEFINE p == 0
             none == <<>>
  <2>1. /\ p \in Nat /\ BeginsField(h, p, none)
        /\ p + 2 + Len(e) <= Len(q) /\ q[p + 1] = 97 /\ q[p + 2] = Equals
        /\ \A j \in 1..Len(e) : q[p + 2 + j] = e[j]
    BY <1>1, <1>9, <1>11 DEF QueryStart, BeginsField, m
  <2>2. p + 2 + Len(e) = m + 2 /\ p + 3 + Len(e) = m + 3
    BY <1>1 DEF m
  <2> DEFINE c == 97
  <2>6. c \in B /\ HoldsField(q, p, c, e)
    BY <1>2, <1>12, <2>1 DEF HoldsField
  <2> HIDE DEF p, none, c
  <2>3. QueryClosed(q, h[p + 2 + Len(e)], p + 3 + Len(e)) = Append(none, Field(<<c>>, Decode(e)))
    <3>1. /\ Safe \subseteq B /\ q \in Seq(B) /\ e \in Seq(Safe) /\ c \in B
          /\ QueryRead(q, h) /\ HoldsField(q, p, c, e) /\ BeginsField(h, p, none)
      BY <1>1, <1>2, <1>9, <1>10, <2>1, <2>6
    <3>2. QED BY <3>1, QueryField, SMTT(60)
  <2>4. Append(none, Field(<<97>>, v)) = r
    BY DEF none, r
  <2>5. QED BY <1>1, <2>2, <2>3, <2>4 DEF c
<1>14. h[m + 3] = [result |-> r, name_pos |-> m + 4, eq |-> 0]
  <2> DEFINE k == m + 3
  <2>1. k \in 1..Len(q) /\ k - 1 = m + 2 /\ k + 1 = m + 4 /\ k = m + 3
    BY <1>1, <1>9
  <2> HIDE DEF k
  <2>2. h[k] = QueryStep(q, h[m + 2], k)
    BY <1>11, <2>1
  <2>3. q[k] = Amp /\ QueryClosed(q, h[m + 2], k) = r
    BY <1>9, <1>13, <2>1
  <2>4. h[k] = [result |-> r, name_pos |-> k + 1, eq |-> 0]
    BY <2>2, <2>3 DEF QueryStep, Amp, Equals
  <2>5. QED BY <2>1, <2>4
<1>15. QueryClosed(q, h[Len(q)], Len(q) + 1) = Append(r, Field(<<98>>, v))
  <2> DEFINE p == m + 3
  <2>1. p \in Nat /\ p + 1 = m + 4 /\ p + 2 = m + 5 /\ p + 2 + m = Len(q) /\ p + 3 + m = Len(q) + 1
    BY <1>1, <1>9
  <2> HIDE DEF p
  <2>2. /\ BeginsField(h, p, r)
        /\ p + 2 + Len(e) <= Len(q) /\ q[p + 1] = 98 /\ q[p + 2] = Equals
        /\ \A j \in 1..Len(e) : q[p + 2 + j] = e[j]
    BY <1>1, <1>9, <1>14, <2>1 DEF BeginsField, m, p
  <2> DEFINE c == 98
  <2>3. c \in B /\ HoldsField(q, p, c, e)
    BY <1>2, <1>12, <2>1, <2>2 DEF HoldsField
  <2> HIDE DEF c
  <2>4. QueryClosed(q, h[p + 2 + Len(e)], p + 3 + Len(e)) = Append(r, Field(<<c>>, Decode(e)))
    <3>1. /\ Safe \subseteq B /\ q \in Seq(B) /\ e \in Seq(Safe) /\ c \in B
          /\ QueryRead(q, h) /\ HoldsField(q, p, c, e) /\ BeginsField(h, p, r)
      BY <1>1, <1>2, <1>9, <1>10, <2>2, <2>3
    <3>2. QED BY <3>1, QueryField, SMTT(60)
  <2>5. QED BY <1>1, <2>1, <2>4 DEF m, c
<1>16. Append(r, Field(<<98>>, v)) = fields
  <2> DEFINE a == Field(<<97>>, v)
             b == Field(<<98>>, v)
             C == {a, b}
  <2>1. fields = <<a, b>> /\ r = <<a>>
    BY DEF r, AName, BName
  <2> HIDE DEF a, b
  <2>2. a \in C /\ b \in C /\ <<a>> \in Seq(C)
    OBVIOUS
  <2> HIDE DEF C
  <2>3. Append(<<a>>, b) = <<a>> \o <<b>>
    BY <2>2, AppendIsConcat
  <2>4. <<a>> \o <<b>> = <<a, b>>
    BY <2>2, PairIs
  <2>5. QED BY <2>1, <2>3, <2>4 DEF b
<1>17. QED BY <1>8, <1>11, <1>15, <1>16

-----------------------------------------------------------------------------
(* pieces *)

\* Pieces' step, and what it makes of a text character by character.
Splits(ps, c, sep) == IF c = sep THEN Append(ps, <<>>)
                      ELSE [ps EXCEPT ![Len(ps)] = Append(@, c)]
PiecesRead(A, t, sep, h) ==
  /\ h \in [0..Len(t) -> Seq(Seq(A)) \ {<<>>}] /\ h[0] = <<<<>>>>
  /\ \A k \in 1..Len(t) : h[k] = Splits(h[k - 1], t[k], sep)
  /\ Pieces(t, sep) = IF Last(h[Len(t)]) = <<>> THEN Front(h[Len(t)]) ELSE h[Len(t)]

\* A step of Pieces keeps a sequence of texts that is never empty.
LEMMA SplitsIn ==
  ASSUME NEW A, NEW ps \in Seq(Seq(A)) \ {<<>>}, NEW c \in A, NEW sep
  PROVE  Splits(ps, c, sep) \in Seq(Seq(A)) \ {<<>>}
<1> DEFINE l == Len(ps)
           x == ps[l]
           y == Append(x, c)
           B == Seq(A)
           none == <<>>
<1>1. ps \in Seq(B) /\ l \in Nat /\ l # 0 /\ l \in 1..l
  <2>1. l \in Nat /\ l # 0
    OBVIOUS
  <2>2. QED BY <2>1
<1>2. x \in B /\ none \in B
  BY <1>1
<1>3. y \in B
  <2> HIDE DEF x
  <2>1. QED BY <1>2, AppendProperties
<1> HIDE DEF y, B
<1>4. CASE c = sep
  <2>1. Splits(ps, c, sep) = Append(ps, none)
    BY <1>4 DEF Splits
  <2> HIDE DEF none
  <2>2. Append(ps, none) \in Seq(B) /\ Append(ps, none) # <<>>
    BY <1>1, <1>2, AppendProperties
  <2>3. QED BY <2>1, <2>2 DEF B
<1>5. CASE c # sep
  <2>1. Splits(ps, c, sep) = [ps EXCEPT ![l] = y]
    BY <1>5 DEF Splits, y
  <2> DEFINE z == [ps EXCEPT ![l] = y]
  <2>2. z \in Seq(B) /\ Len(z) = l
    BY <1>1, <1>3, ExceptSeq
  <2> HIDE DEF z
  <2>3. z # <<>>
    BY <1>1, <2>2
  <2>4. QED BY <2>1, <2>2, <2>3 DEF z, B
<1>6. QED BY <1>4, <1>5

\* The fold of Pieces over a text has a value.
LEMMA PiecesRun ==
  ASSUME NEW A, NEW t \in Seq(A), NEW sep PROVE \E h : PiecesRead(A, t, sep, h)
<1> DEFINE n == Len(t)
           V == Seq(Seq(A)) \ {<<>>}
           base == <<<<>>>>
           eq(it) == it = [s \in SUBSET DOMAIN t |->
                             IF s = {} THEN base ELSE Splits(it[s \ {Max(s)}], t[Max(s)], sep)]
           read == CHOOSE it : eq(it)
           F == [k \in 1..n |-> [ps \in V |-> Splits(ps, t[k], sep)]]
           h == [k \in 0..n |-> read[1..k]]
<1>1. n \in Nat /\ DOMAIN t = 1..n /\ \A k \in 1..n : t[k] \in A
  OBVIOUS
<1>2. Pieces(t, sep) = IF Last(read[DOMAIN t]) = <<>> THEN Front(read[DOMAIN t]) ELSE read[DOMAIN t]
  BY DEF Pieces, Splits, FoldLeft, MapThenFoldSet
<1>3. \A ps \in V : \A k \in 1..n : Splits(ps, t[k], sep) \in V
  BY <1>1, SplitsIn
<1>4. base \in V
  OBVIOUS
<1>5. F \in Movings(V, n)
  <2> HIDE DEF V
  <2>1. QED BY <1>3 DEF Movings
<1>6. \A k \in 1..n : \A ps \in V : F[k][ps] = Splits(ps, t[k], sep)
  OBVIOUS
<1> HIDE DEF V, F, base, n
<1>7. PICK g : IsSetRun(V, base, n, F, g)
  BY <1>1, <1>4, <1>5, SetRun
<1>8. g \in [SUBSET (1..n) -> V] /\ \A s \in SUBSET (1..n) :
        g[s] = IF s = {} THEN base ELSE F[Max(s)][g[s \ {Max(s)}]]
  BY <1>7 DEF IsSetRun
<1>9. ASSUME NEW s \in SUBSET (1..n)
      PROVE  g[s] = IF s = {} THEN base ELSE Splits(g[s \ {Max(s)}], t[Max(s)], sep)
  <2>1. CASE s = {}
    BY <1>8, <2>1
  <2>2. CASE s # {}
    <3>1. Max(s) \in 1..n /\ s \ {Max(s)} \in SUBSET (1..n)
      BY <1>1, <2>2, LastFacts
    <3>2. QED BY <1>6, <1>8, <2>2, <3>1
  <2>3. QED BY <2>1, <2>2
<1>10. eq(read)
  <2>1. eq(g)
    BY <1>1, <1>8, <1>9
  <2> HIDE DEF eq
  <2>2. QED BY <2>1
<1> HIDE DEF eq, read
<1>11. \A s \in SUBSET (1..n) :
         read[s] = IF s = {} THEN base ELSE Splits(read[s \ {Max(s)}], t[Max(s)], sep)
  BY <1>1, <1>10 DEF eq
<1>12. h[0] = base
  <2>1. 1..0 = {} /\ 0 \in 0..n /\ 1..0 \in SUBSET (1..n)
    BY <1>1
  <2>2. QED BY <1>11, <2>1
<1>13. \A k \in 1..n : k - 1 \in 0..n /\ h[k] = Splits(h[k - 1], t[k], sep)
  <2>1. ASSUME NEW k \in 1..n PROVE k - 1 \in 0..n /\ h[k] = Splits(h[k - 1], t[k], sep)
    <3>1. /\ k \in 0..n /\ k - 1 \in 0..n /\ 1..k # {} /\ (1..k) \ {k} = 1..(k - 1)
          /\ 1..k \in SUBSET (1..n)
      <4>1. k \in Nat /\ 1 <= k /\ k <= n /\ n \in Nat
        BY <1>1
      <4>2. (1..k) \ {k} = 1..(k - 1)
        BY <4>1
      <4>3. 1 \in 1..k
        BY <4>1
      <4>4. 1..k \in SUBSET (1..n)
        BY <4>1
      <4>5. k \in 0..n /\ k - 1 \in 0..n
        BY <4>1
      <4>6. QED BY <4>2, <4>3, <4>4, <4>5
    <3>2. Max(1..k) = k
      <4>1. 1..k \in SUBSET Nat /\ k \in 1..k /\ \A i \in 1..k : i <= k
        BY <1>1
      <4>2. QED BY <4>1, MaxIs
    <3>3. read[1..k] = Splits(read[1..(k - 1)], t[k], sep)
      BY <1>11, <3>1, <3>2
    <3>4. QED BY <3>1, <3>3
  <2>2. QED BY <2>1
<1>14. \A k \in 0..n : h[k] \in V
  <2> DEFINE S == {k \in 0..n : h[k] \in V}
  <2> HIDE DEF h
  <2>1. 0 \in S
    BY <1>1, <1>4, <1>12
  <2>2. ASSUME NEW k \in 1..n, k - 1 \in S PROVE k \in S
    BY <1>3, <1>13, <2>2
  <2> HIDE DEF S
  <2>3. \A k \in 0..n : k \in S
    BY <1>1, <2>1, <2>2, UpTo
  <2>4. QED BY <2>3 DEF S
<1>15. h[n] = read[DOMAIN t] /\ h \in [0..n -> V]
  <2>1. n \in 0..n
    BY <1>1
  <2>2. QED BY <1>1, <1>14, <2>1
<1> HIDE DEF h
<1>16. PiecesRead(A, t, sep, h)
  BY <1>2, <1>12, <1>13, <1>15 DEF PiecesRead, n, V, base
<1>17. QED BY <1>16

\* A piece without a separator stands behind the first p characters.
HoldsPiece(t, sep, p, s) ==
  /\ p \in Nat /\ p + Len(s) <= Len(t)
  /\ \A j \in 1..Len(s) : t[p + j] = s[j] /\ s[j] # sep

\* It is read into the piece that was begun.
LEMMA PieceTaken ==
  ASSUME NEW A, NEW t \in Seq(A), NEW sep, NEW h, PiecesRead(A, t, sep, h),
         NEW ps \in Seq(Seq(A)), NEW p, NEW s \in Seq(A), HoldsPiece(t, sep, p, s),
         h[p] = Append(ps, <<>>)
  PROVE  h[p + Len(s)] = Append(ps, s)
<1> DEFINE m == Len(s)
           B == Seq(A)
           S == {k \in 0..m : h[p + k] = Append(ps, SubSeq(s, 1, k))}
<1>1. /\ m \in Nat /\ Len(t) \in Nat /\ p \in Nat /\ p + m <= Len(t)
      /\ \A j \in 1..m : t[p + j] = s[j] /\ s[j] # sep
  BY DEF HoldsPiece
<1>2. \A k \in 1..Len(t) : h[k] = Splits(h[k - 1], t[k], sep)
  BY DEF PiecesRead
<1>3. 0 \in S
  <2>1. SubSeq(s, 1, 0) = <<>>
    BY SubSeqEmpty
  <2>2. p + 0 = p /\ 0 \in 0..m
    BY <1>1
  <2>3. QED BY <2>1, <2>2
<1>4. ASSUME NEW k \in 1..m, k - 1 \in S PROVE k \in S
  <2> DEFINE x == SubSeq(s, 1, k - 1)
             z == Append(ps, x)
             l == Len(ps) + 1
             c == s[k]
             y == Append(x, c)
  <2>1. p + k \in 1..Len(t) /\ (p + k) - 1 = p + (k - 1) /\ k \in 1..Len(s) /\ k \in 0..m /\ 1 \in 1..Len(s)
        /\ k \in 1..Len(s)
    BY <1>1
  <2>2. h[p + k] = Splits(z, c, sep) /\ c # sep /\ c \in A
    <3>1. h[p + (k - 1)] = z /\ t[p + k] = c /\ c # sep
      BY <1>1, <1>4, <2>1
    <3> HIDE DEF z, c
    <3>2. h[p + k] = Splits(h[(p + k) - 1], t[p + k], sep)
      BY <1>2, <2>1
    <3>3. QED BY <2>1, <3>1, <3>2 DEF c
  <2>3. x \in B /\ y = SubSeq(s, 1, k)
    <3>1. x \in Seq(A)
      BY <2>1, SubSeqProperties
    <3>2. SubSeq(s, 1, k) = x \o <<c>>
      BY <2>1, SubSeqRecursiveSecond
    <3> HIDE DEF x, c
    <3>3. y = x \o <<c>>
      BY <2>2, <3>1, AppendIsConcat
    <3>4. QED BY <3>1, <3>2, <3>3
  <2> HIDE DEF x, c
  <2>4. y \in B
    BY <2>2, <2>3, AppendProperties
  <2> HIDE DEF y, B
  <2>5. /\ z \in Seq(B) /\ Len(z) = l /\ z[l] = x /\ \A i \in 1..Len(ps) : z[i] = ps[i]
        /\ l \in 1..l /\ Len(ps) \in Nat
    BY <2>3, AppendProperties DEF B
  <2>6. Splits(z, c, sep) = [z EXCEPT ![l] = y]
    <3> HIDE DEF z, l
    <3>1. QED BY <2>2, <2>5 DEF Splits, y
  <2> DEFINE w == [z EXCEPT ![l] = y]
             u == Append(ps, y)
  <2>7. /\ w \in Seq(B) /\ Len(w) = l /\ w[l] = y /\ \A i \in 1..Len(ps) : w[i] = ps[i]
    <3> HIDE DEF z
    <3>1. w \in Seq(B) /\ Len(w) = l /\ \A i \in 1..l : w[i] = IF i = l THEN y ELSE z[i]
      BY <2>4, <2>5, ExceptSeq
    <3>2. QED BY <2>5, <3>1
  <2>8. /\ u \in Seq(B) /\ Len(u) = l /\ u[l] = y /\ \A i \in 1..Len(ps) : u[i] = ps[i]
    BY <2>4, AppendProperties DEF B
  <2> HIDE DEF w, u
  <2>9. w = u
    <3>1. \A i \in 1..Len(w) : w[i] = u[i]
      <4>1. \A i \in 1..l : i = l \/ i \in 1..Len(ps)
        BY <2>5
      <4> HIDE DEF l
      <4>2. QED BY <2>7, <2>8, <4>1
    <3>2. QED BY <2>7, <2>8, <3>1, SeqEqual
  <2>10. QED BY <2>1, <2>2, <2>3, <2>6, <2>9 DEF w, u
<1>5. m \in S
  <2> HIDE DEF S
  <2>1. \A k \in 0..m : k \in S
    BY <1>1, <1>3, <1>4, UpTo
  <2>2. QED BY <1>1, <2>1
<1>6. SubSeq(s, 1, m) = s
  BY SubSeqFull
<1>7. QED BY <1>5, <1>6

\* A separator behind a piece begins an empty one.
LEMMA PieceEnded ==
  ASSUME NEW A, NEW t, NEW sep, NEW h, PiecesRead(A, t, sep, h),
         NEW p \in 1..Len(t), t[p] = sep
  PROVE  h[p] = Append(h[p - 1], <<>>)
BY DEF PiecesRead, Splits

-----------------------------------------------------------------------------
(* header fields *)

\* HeaderParse on one line.
HeaderParsed(l) ==
  LET colon == First(l, 1, Colon)
      start == CHOOSE s \in (colon + 1)..(Len(l) + 1) :
                 /\ \A i \in (colon + 1)..(s - 1) : l[i] = SP /\ i < Len(l)
                 /\ s >= Len(l) \/ l[s] # SP
  IN IF start > Len(l) THEN <<>>
     ELSE <<Field(SubSeq(l, 1, colon - 1), WithoutCR(Rest(l, start)))>>

\* A line as HeaderWrite writes it, without its end.
IsHeaderLine(B, l, c, v) ==
  /\ l \in Seq(B) /\ Len(l) = Len(v) + 4 /\ l[1] = c /\ l[2] = Colon /\ l[3] = SP
  /\ l[Len(v) + 4] = CR /\ \A j \in 1..Len(v) : l[3 + j] = v[j]

\* A line that HeaderWrite made parses to its one field.
LEMMA HeaderLineRead ==
  ASSUME NEW B, NEW v \in Seq(B), NEW c \in B, CR \in B, c # Colon, v # <<>> => Head(v) # SP,
         NEW l, IsHeaderLine(B, l, c, v)
  PROVE  Colon \in ToSet(l) /\ HeaderParsed(l) = <<Field(<<c>>, v)>>
<1> DEFINE m == Len(v)
           n == Len(l)
           colon == First(l, 1, Colon)
           Starts(s) == /\ \A i \in (colon + 1)..(s - 1) : l[i] = SP /\ i < Len(l)
                        /\ s >= Len(l) \/ l[s] # SP
           start == CHOOSE s \in (colon + 1)..(Len(l) + 1) : Starts(s)
<1>1. /\ m \in Nat /\ l \in Seq(B) /\ n = m + 4 /\ l[1] = c /\ l[2] = Colon /\ l[3] = SP
      /\ l[m + 4] = CR /\ \A j \in 1..m : l[3 + j] = v[j]
  BY DEF IsHeaderLine
<1>2. m # 0 => v[1] # SP
  <2>1. m # 0 => v # <<>> /\ Head(v) = v[1]
    OBVIOUS
  <2>2. QED BY <2>1
<1>8. HeaderParsed(l) = IF start > Len(l) THEN <<>>
                        ELSE <<Field(SubSeq(l, 1, colon - 1), WithoutCR(Rest(l, start)))>>
  BY DEF HeaderParsed
<1> HIDE DEF start, colon
<1> HIDE DEF m, n
<1>3. colon = 2 /\ colon + 1 = 3 /\ colon - 1 = 1 /\ n = Len(l)
  <2> DEFINE k == 1
  <2>1. 2 \in k..Len(l) /\ l[2] = Colon /\ (\A j \in k..(2 - 1) : l[j] # Colon) /\ k \in Nat \ {0}
    BY <1>1 DEF n
  <2> HIDE DEF k
  <2>2. First(l, k, Colon) = 2
    BY <1>1, <2>1, FirstIs
  <2>3. QED BY <2>2 DEF k, n, colon
<1>4. Colon \in ToSet(l)
  <2>1. 2 \in DOMAIN l
    BY <1>1 DEF n
  <2>2. QED BY <1>1, <2>1 DEF ToSet
<1>5. Starts(4) /\ 4 \in 3..(n + 1)
  <2>1. m = 0 => 4 >= n
    BY <1>1
  <2>2. m # 0 => l[4] # SP
    <3>1. m # 0 => 1 \in 1..m /\ 3 + 1 = 4
      BY <1>1
    <3>2. QED BY <1>1, <1>2, <3>1
  <2>3. 3 < n /\ \A i \in 3..(4 - 1) : i = 3
    BY <1>1
  <2>4. QED BY <1>1, <1>3, <2>1, <2>2, <2>3
<1>6. ASSUME NEW s \in 3..(n + 1), Starts(s) PROVE s = 4
  <2>1. s # 3
    BY <1>1, <1>3, <1>6
  <2>2. ASSUME s > 4 PROVE FALSE
    <3>1. 4 \in 3..(s - 1)
      BY <2>2
    <3>2. l[4] = SP /\ 4 < n
      BY <1>3, <1>6, <3>1
    <3>3. m # 0 /\ 1 \in 1..m /\ 3 + 1 = 4
      BY <1>1, <3>2
    <3>4. l[4] = v[1]
      BY <1>1, <3>3
    <3>5. QED BY <1>2, <3>2, <3>3, <3>4
  <2>3. QED BY <2>1, <2>2
<1>7. start = 4
  <2> HIDE DEF Starts
  <2>1. start \in 3..(n + 1) /\ Starts(start)
    BY <1>3, <1>5 DEF start
  <2>2. QED BY <1>6, <2>1
<1>9. SubSeq(l, 1, 1) = <<c>>
  <2> DEFINE x == <<c>>
             k == 1
  <2>1. x \in Seq(B) /\ Len(x) = 1 /\ x[1] = c /\ k \in 1..(Len(l) + 1) /\ k + Len(x) - 1 = 1
    BY <1>1 DEF n
  <2>2. k + Len(x) - 1 <= Len(l) /\ \A i \in 1..Len(x) : x[i] = l[k + i - 1]
    BY <1>1, <2>1 DEF n
  <2>3. k + Len(x) - 1 = 1 /\ k = 1
    BY <2>1
  <2> HIDE DEF x, k
  <2>4. SubSeq(l, k, k + Len(x) - 1) = x
    BY <1>1, <2>1, <2>2, PieceIs
  <2>5. QED BY <2>3, <2>4 DEF x
<1>10. WithoutCR(Rest(l, 4)) = v
  <2> DEFINE r == Rest(l, 4)
  <2>1. r = SubSeq(l, 4, n) /\ n - 4 + 1 = m + 1 /\ 4 <= n /\ n \in Int
    BY <1>1 DEF Rest, n
  <2>2. \A i \in 4..n : l[i] \in B
    BY <1>1 DEF n
  <2>3. /\ SubSeq(l, 4, n) \in Seq(B) /\ Len(SubSeq(l, 4, n)) = m + 1
        /\ \A i \in 1..(m + 1) : SubSeq(l, 4, n)[i] = l[4 + i - 1]
    <3> DEFINE k == 4
    <3>1. k \in Int /\ n - k + 1 = m + 1 /\ k <= n /\ \A i \in k..n : l[i] \in B
      BY <2>1, <2>2
    <3> HIDE DEF k
    <3>2. /\ SubSeq(l, k, n) \in Seq(B) /\ Len(SubSeq(l, k, n)) = IF k <= n THEN n - k + 1 ELSE 0
          /\ \A i \in 1..(n - k + 1) : SubSeq(l, k, n)[i] = l[k + i - 1]
      BY <2>1, <3>1, SubSeqProperties
    <3>3. QED BY <3>1, <3>2 DEF k
  <2>4. r \in Seq(B) /\ Len(r) = m + 1 /\ \A i \in 1..(m + 1) : r[i] = l[3 + i]
    <3>1. \A i \in 1..(m + 1) : 4 + i - 1 = 3 + i
      BY <1>1
    <3> HIDE DEF r
    <3>2. QED BY <2>1, <2>3, <3>1
  <2> HIDE DEF r
  <2>5. r[m + 1] = CR /\ \A i \in 1..m : r[i] = v[i]
    <3>1. m + 1 \in 1..(m + 1) /\ 3 + (m + 1) = m + 4 /\ \A i \in 1..m : i \in 1..(m + 1)
      BY <1>1
    <3>2. QED BY <1>1, <2>4, <3>1
  <2>6. WithoutCR(r) = v
    BY <2>4, <2>5, ReturnDropped DEF m
  <2>7. QED BY <2>6 DEF r
<1>11. ~(4 > n)
  BY <1>1
<1>12. QED BY <1>3, <1>4, <1>7, <1>8, <1>9, <1>10, <1>11

\* What was appended is last, and what was there is the front.
LEMMA LastAppended ==
  ASSUME NEW A, NEW ps \in Seq(A), NEW x \in A
  PROVE  Last(Append(ps, x)) = x /\ Front(Append(ps, x)) = ps
<1> DEFINE z == Append(ps, x)
           n == Len(ps)
           k == 1
<1>1. z \in Seq(A) /\ Len(z) = n + 1 /\ (\A i \in 1..n : z[i] = ps[i]) /\ z[n + 1] = x /\ n \in Nat
  BY AppendProperties
<1> HIDE DEF z
<1>2. Last(z) = x
  BY <1>1 DEF Last
<1>3. Front(z) = SubSeq(z, 1, n)
  <2>1. Len(z) - 1 = n
    BY <1>1
  <2>2. QED BY <2>1 DEF Front
<1>4. SubSeq(z, k, k + n - 1) = ps
  <2>1. k \in 1..(Len(z) + 1) /\ k + n - 1 <= Len(z) /\ \A i \in 1..n : ps[i] = z[k + i - 1]
    BY <1>1
  <2> HIDE DEF k
  <2>2. QED BY <1>1, <2>1, PieceIs
<1>5. k + n - 1 = n
  BY <1>1
<1>6. QED BY <1>2, <1>3, <1>4, <1>5 DEF z

\* A whole line: a piece and the separator behind it.
HoldsLine(t, sep, p, s) ==
  /\ p \in Nat /\ p + Len(s) + 1 <= Len(t) /\ t[p + Len(s) + 1] = sep
  /\ \A j \in 1..Len(s) : t[p + j] = s[j] /\ s[j] # sep

\* A line and its separator, read on from an empty last piece, are one piece more.
LEMMA LineTaken ==
  ASSUME NEW A, NEW t \in Seq(A), NEW sep, NEW h, PiecesRead(A, t, sep, h),
         NEW ps \in Seq(Seq(A)), NEW s \in Seq(A), NEW p, HoldsLine(t, sep, p, s),
         h[p] = Append(ps, <<>>)
  PROVE  h[p + Len(s) + 1] = Append(Append(ps, s), <<>>)
<1> DEFINE m == Len(s)
           k == p + m + 1
           none == <<>>
<1>1. /\ p \in Nat /\ m \in Nat /\ k \in 1..Len(t) /\ t[k] = sep /\ k - 1 = p + m /\ p + m <= Len(t)
      /\ \A j \in 1..m : t[p + j] = s[j] /\ s[j] # sep
  <2>1. p \in Nat /\ m \in Nat /\ p + m + 1 <= Len(t) /\ Len(t) \in Nat
    BY DEF HoldsLine
  <2>2. k \in 1..Len(t) /\ k - 1 = p + m /\ p + m <= Len(t)
    <3> HIDE DEF m
    <3>1. QED BY <2>1
  <2>3. QED BY <2>1, <2>2 DEF HoldsLine
<1>2. h[p] = Append(ps, none)
  OBVIOUS
<1> HIDE DEF k
<1>3. h[p + m] = Append(ps, s)
  <2>1. HoldsPiece(t, sep, p, s)
    BY <1>1 DEF HoldsPiece
  <2>2. h[p + Len(s)] = Append(ps, s)
    BY <1>2, <2>1, PieceTaken
  <2>3. QED BY <2>2
<1> HIDE DEF m
<1>4. h[k] = Append(h[k - 1], none)
  BY <1>1, PieceEnded
<1>5. h[k] = Append(Append(ps, s), none)
  BY <1>1, <1>3, <1>4
<1>6. QED BY <1>5 DEF k, m

\* A text of whole lines: what stands in front of the end of each.
LEMMA TwoLines ==
  ASSUME NEW A, NEW t \in Seq(A), NEW sep, NEW l1 \in Seq(A), NEW l2 \in Seq(A),
         HoldsLine(t, sep, 0, l1), HoldsLine(t, sep, Len(l1) + 1, l2),
         Len(t) = Len(l1) + Len(l2) + 2
  PROVE  Pieces(t, sep) = <<l1, l2>>
<1> DEFINE B == Seq(A)
           none == <<>>
           ps0 == <<>>
           ps1 == Append(ps0, l1)
           ps2 == Append(ps1, l2)
           p == 0
           r == Len(l1) + 1
<1>1. PICK h : PiecesRead(A, t, sep, h)
  BY PiecesRun
<1>2. /\ ps0 \in Seq(B) /\ none \in B /\ l1 \in B /\ l2 \in B /\ Len(l1) \in Nat /\ Len(l2) \in Nat
      /\ r \in Nat
  OBVIOUS
<1>3. h[p] = Append(ps0, none) /\ HoldsLine(t, sep, p, l1) /\ HoldsLine(t, sep, r, l2)
  BY <1>1 DEF PiecesRead
<1>4. p + Len(l1) + 1 = r /\ r + Len(l2) + 1 = Len(t)
  BY <1>2
<1> HIDE DEF p, r, ps0, none
<1>5. h[p + Len(l1) + 1] = Append(Append(ps0, l1), <<>>)
  BY <1>1, <1>2, <1>3, LineTaken, SMTT(40) DEF B, none
<1>6. ps1 \in Seq(B)
  BY <1>2, AppendProperties
<1>7. h[r] = Append(ps1, <<>>)
  BY <1>4, <1>5
<1>8. ps2 \in Seq(B)
  <2> HIDE DEF ps1
  <2>1. QED BY <1>2, <1>6, AppendProperties
<1> HIDE DEF ps1
<1>9. h[r + Len(l2) + 1] = Append(Append(ps1, l2), <<>>)
  <2>1. PiecesRead(A, t, sep, h) /\ ps1 \in Seq(Seq(A)) /\ HoldsLine(t, sep, r, l2)
    BY <1>1, <1>3, <1>6 DEF B
  <2>2. QED BY <1>7, <2>1, LineTaken, SMTT(30)
<1>10. h[Len(t)] = Append(ps2, none)
  BY <1>4, <1>9 DEF none
<1> HIDE DEF ps2, B
<1>11. Last(Append(ps2, none)) = <<>> /\ Front(Append(ps2, none)) = ps2
  BY <1>2, <1>8, LastAppended DEF none
<1>12. Pieces(t, sep) = ps2
  BY <1>1, <1>10, <1>11 DEF PiecesRead
<1>13. ps2 = <<l1, l2>>
  <2>1. ps1 = <<l1>>
    BY DEF ps1, ps0
  <2>2. <<l1>> \in Seq(B)
    BY <1>2
  <2>3. Append(<<l1>>, l2) = <<l1>> \o <<l2>>
    BY <1>2, <2>2, AppendIsConcat
  <2>4. <<l1>> \o <<l2>> = <<l1, l2>>
    BY <1>2, PairIs
  <2>5. QED BY <2>1, <2>3, <2>4 DEF ps2
<1>14. QED BY <1>12, <1>13

\* A line with its end, as HeaderWrite writes it.
IsHeaderText(B, w, c, v) ==
  /\ w \in Seq(B) /\ Len(w) = Len(v) + 5 /\ w[1] = c /\ w[2] = Colon /\ w[3] = SP
  /\ w[Len(v) + 4] = CR /\ w[Len(v) + 5] = LF /\ \A j \in 1..Len(v) : w[3 + j] = v[j]

\* What HeaderWrite makes of one field, place by place.
LEMMA HeaderOne ==
  ASSUME NEW B, {Colon, SP, CR, LF} \subseteq B, NEW v \in Seq(B), NEW c \in B
  PROVE  /\ IsHeaderText(B, <<c>> \o <<Colon, SP>> \o v \o <<CR, LF>>, c, v)
         /\ \E l : IsHeaderLine(B, l, c, v)
<1> DEFINE a == <<c>>
           b == <<Colon, SP>>
           h == a \o b
           e == <<CR, LF>>
           d == <<CR>>
           w == (h \o v) \o e
           l == (h \o v) \o d
           m == Len(v)
<1>1. /\ a \in Seq(B) /\ Len(a) = 1 /\ a[1] = c
      /\ b \in Seq(B) /\ Len(b) = 2 /\ b[1] = Colon /\ b[2] = SP
      /\ e \in Seq(B) /\ Len(e) = 2 /\ e[1] = CR /\ e[2] = LF
      /\ d \in Seq(B) /\ Len(d) = 1 /\ d[1] = CR /\ m \in Nat
  OBVIOUS
<1> HIDE DEF a, b, e, d
<1>2. /\ h \in Seq(B) /\ Len(h) = 3 /\ h[1] = c /\ h[2] = Colon /\ h[3] = SP
  <2>1. h = a \o b
    OBVIOUS
  <2> HIDE DEF h
  <2>2. IsJoin(B, a, b, h)
    BY <1>1, <2>1, Joined
  <2>3. /\ h \in Seq(B) /\ Len(h) = 3 /\ \A i \in 1..1 : h[i] = a[i]
        /\ \A i \in 1..2 : h[1 + i] = b[i]
    BY <1>1, <2>2 DEF IsJoin
  <2>4. h[1] = a[1] /\ h[1 + 1] = b[1] /\ h[1 + 2] = b[2]
    BY <2>3
  <2>5. QED BY <1>1, <2>3, <2>4
<1>9. w = (h \o v) \o e /\ l = (h \o v) \o d
  OBVIOUS
<1> HIDE DEF h, w, l
<1>3. /\ w \in Seq(B) /\ Len(w) = Len(h) + Len(v) + Len(e)
      /\ \A i \in 1..Len(h) : w[i] = h[i]
      /\ \A i \in 1..Len(v) : w[Len(h) + i] = v[i]
      /\ \A i \in 1..Len(e) : w[Len(h) + Len(v) + i] = e[i]
  <2>1. h \in Seq(B) /\ v \in Seq(B) /\ e \in Seq(B) /\ w = (h \o v) \o e
    BY <1>1, <1>2, <1>9
  <2>2. QED BY <2>1, Between
<1>4. /\ l \in Seq(B) /\ Len(l) = Len(h) + Len(v) + Len(d)
      /\ \A i \in 1..Len(h) : l[i] = h[i]
      /\ \A i \in 1..Len(v) : l[Len(h) + i] = v[i]
      /\ \A i \in 1..Len(d) : l[Len(h) + Len(v) + i] = d[i]
  <2>1. h \in Seq(B) /\ v \in Seq(B) /\ d \in Seq(B) /\ l = (h \o v) \o d
    BY <1>1, <1>2, <1>9
  <2>2. QED BY <2>1, Between
<1>5. IsHeaderText(B, w, c, v)
  <2>1. /\ w \in Seq(B) /\ Len(w) = m + 5 /\ \A i \in 1..3 : w[i] = h[i]
    BY <1>1, <1>2, <1>3
  <2>2. \A i \in 1..m : w[3 + i] = v[i]
    BY <1>2, <1>3
  <2>3. w[3 + m + 1] = CR /\ w[3 + m + 2] = LF
    BY <1>1, <1>2, <1>3
  <2>4. 3 + m + 1 = m + 4 /\ 3 + m + 2 = m + 5
    BY <1>1
  <2>5. w[1] = c /\ w[2] = Colon /\ w[3] = SP
    BY <1>2, <2>1
  <2>6. QED BY <2>1, <2>2, <2>3, <2>4, <2>5 DEF IsHeaderText
<1>6. IsHeaderLine(B, l, c, v)
  <2>1. /\ l \in Seq(B) /\ Len(l) = m + 4 /\ \A i \in 1..3 : l[i] = h[i]
    BY <1>1, <1>2, <1>4
  <2>2. \A i \in 1..m : l[3 + i] = v[i]
    BY <1>2, <1>4
  <2>3. l[3 + m + 1] = CR
    BY <1>1, <1>2, <1>4
  <2>4. 3 + m + 1 = m + 4
    BY <1>1
  <2>5. l[1] = c /\ l[2] = Colon /\ l[3] = SP
    BY <1>2, <2>1
  <2>6. QED BY <2>1, <2>2, <2>3, <2>4, <2>5 DEF IsHeaderLine
<1>7. <<c>> \o <<Colon, SP>> \o v \o <<CR, LF>> = w
  BY DEF w, h, a, b, e
<1>8. QED BY <1>5, <1>6, <1>7

\* Two fields come back from a header, unless a value begins with a space or
\* holds an end of line.
LEMMA HeaderComesBack ==
  ASSUME NEW v \in Seq(Octets), \A j \in 1..Len(v) : v[j] # LF, v # <<>> => Head(v) # SP,
         NEW fields, fields = <<Field(AName, v), Field(BName, v)>>
  PROVE  HeaderParse(HeaderWrite(fields)) = fields
<1> DEFINE B == Octets
           w1 == <<97>> \o <<Colon, SP>> \o v \o <<CR, LF>>
           w2 == <<98>> \o <<Colon, SP>> \o v \o <<CR, LF>>
           t == w1 \o w2
           m == Len(v)
           F == [i \in DOMAIN fields |-> fields[i].name \o <<Colon, SP>> \o fields[i].value \o <<CR, LF>>]
<1>1. /\ {Colon, SP, CR, LF} \subseteq B /\ 97 \in B /\ 98 \in B /\ 97 # Colon /\ 98 # Colon
      /\ 97 # LF /\ 98 # LF /\ Colon # LF /\ SP # LF /\ CR # LF /\ m \in Nat
  BY DEF Octets, Colon, SP, CR, LF
<1>2. F = <<w1, w2>>
  <2>1. DOMAIN fields = 1..2 /\ fields[1] = Field(AName, v) /\ fields[2] = Field(BName, v)
    OBVIOUS
  <2>2. /\ fields[1].name = <<97>> /\ fields[1].value = v
        /\ fields[2].name = <<98>> /\ fields[2].value = v
    BY <2>1 DEF Field, AName, BName
  <2>3. \A i \in 1..2 : i = 1 \/ i = 2
    OBVIOUS
  <2>4. F = [i \in 1..2 |-> IF i = 1 THEN w1 ELSE w2]
    <3>1. \A i \in 1..2 : F[i] = IF i = 1 THEN w1 ELSE w2
      BY <2>1, <2>2, <2>3
    <3>2. QED BY <2>1, <3>1
  <2> HIDE DEF F, w1, w2
  <2>5. QED BY <2>4
<1>3. HeaderWrite(fields) = FlattenSeq(F)
  BY DEF HeaderWrite
<1>4. /\ IsHeaderText(B, w1, 97, v) /\ \E l : IsHeaderLine(B, l, 97, v)
      /\ IsHeaderText(B, w2, 98, v) /\ \E l : IsHeaderLine(B, l, 98, v)
  BY <1>1, HeaderOne
<1> HIDE DEF F, w1, w2
<1>5. PICK l1, l2 : IsHeaderLine(B, l1, 97, v) /\ IsHeaderLine(B, l2, 98, v)
  BY <1>4
<1>6. /\ w1 \in Seq(B) /\ Len(w1) = m + 5 /\ w1[1] = 97 /\ w1[2] = Colon /\ w1[3] = SP
      /\ w1[m + 4] = CR /\ w1[m + 5] = LF /\ \A j \in 1..m : w1[3 + j] = v[j]
  BY <1>4 DEF IsHeaderText
<1>7. /\ w2 \in Seq(B) /\ Len(w2) = m + 5 /\ w2[1] = 98 /\ w2[2] = Colon /\ w2[3] = SP
      /\ w2[m + 4] = CR /\ w2[m + 5] = LF /\ \A j \in 1..m : w2[3 + j] = v[j]
  BY <1>4 DEF IsHeaderText
<1>8. HeaderWrite(fields) = t
  <2>1. FlattenSeq(<<w1, w2>>) = w1 \o w2
    <3> HIDE DEF B
    <3>1. w1 \in Seq(B) /\ w2 \in Seq(B)
      BY <1>6, <1>7
    <3>2. QED BY <3>1, FlattenTwo
  <2>2. QED BY <1>2, <1>3, <2>1
<1>9. IsJoin(B, w1, w2, t)
  BY <1>6, <1>7, Joined
<1> HIDE DEF t, B
<1>10. /\ t \in Seq(B) /\ Len(t) = (m + 5) + (m + 5) /\ \A i \in 1..(m + 5) : t[i] = w1[i]
       /\ \A i \in 1..(m + 5) : t[(m + 5) + i] = w2[i]
  BY <1>6, <1>7, <1>9 DEF IsJoin
<1>11. /\ l1 \in Seq(B) /\ Len(l1) = m + 4 /\ l1[1] = 97 /\ l1[2] = Colon /\ l1[3] = SP
       /\ l1[m + 4] = CR /\ \A j \in 1..m : l1[3 + j] = v[j]
  BY <1>5 DEF IsHeaderLine
<1>12. /\ l2 \in Seq(B) /\ Len(l2) = m + 4 /\ l2[1] = 98 /\ l2[2] = Colon /\ l2[3] = SP
       /\ l2[m + 4] = CR /\ \A j \in 1..m : l2[3 + j] = v[j]
  BY <1>5 DEF IsHeaderLine
<1> HIDE DEF m
<1>13. \A j \in 1..(m + 4) : j \in 1..3 \/ j = m + 4 \/ (j - 3 \in 1..m /\ 3 + (j - 3) = j)
  BY <1>1
<1>14. \A j \in 1..m : v[j] # LF
  BY DEF m
<1>15. HoldsLine(t, LF, 0, l1)
  <2>1. ASSUME NEW j \in 1..(m + 4) PROVE w1[j] = l1[j] /\ l1[j] # LF /\ t[j] = w1[j]
    <3>1. t[j] = w1[j]
      BY <1>1, <1>10
    <3>2. CASE j \in 1..3
      <4>1. j = 1 \/ j = 2 \/ j = 3
        BY <3>2
      <4>2. QED BY <1>1, <1>6, <1>11, <3>1, <4>1
    <3>3. CASE j = m + 4
      BY <1>1, <1>6, <1>11, <3>1, <3>3
    <3>4. CASE j - 3 \in 1..m /\ 3 + (j - 3) = j
      BY <1>6, <1>11, <1>14, <3>1, <3>4
    <3>5. QED BY <1>13, <3>2, <3>3, <3>4
  <2>2. t[m + 5] = LF
    BY <1>1, <1>6, <1>10
  <2>3. 0 + Len(l1) + 1 = m + 5 /\ m + 5 <= Len(t) /\ \A j \in 1..Len(l1) : 0 + j = j
    BY <1>1, <1>10, <1>11
  <2>4. QED BY <1>11, <2>1, <2>2, <2>3 DEF HoldsLine
<1>16. HoldsLine(t, LF, Len(l1) + 1, l2)
  <2>1. ASSUME NEW j \in 1..(m + 4) PROVE w2[j] = l2[j] /\ l2[j] # LF /\ t[(m + 5) + j] = w2[j]
    <3>1. t[(m + 5) + j] = w2[j]
      BY <1>1, <1>10
    <3>2. CASE j \in 1..3
      <4>1. j = 1 \/ j = 2 \/ j = 3
        BY <3>2
      <4>2. QED BY <1>1, <1>7, <1>12, <3>1, <4>1
    <3>3. CASE j = m + 4
      BY <1>1, <1>7, <1>12, <3>1, <3>3
    <3>4. CASE j - 3 \in 1..m /\ 3 + (j - 3) = j
      BY <1>7, <1>12, <1>14, <3>1, <3>4
    <3>5. QED BY <1>13, <3>2, <3>3, <3>4
  <2>2. t[(m + 5) + (m + 5)] = LF
    BY <1>1, <1>7, <1>10
  <2>3. /\ Len(l1) + 1 = m + 5 /\ (m + 5) + Len(l2) + 1 = (m + 5) + (m + 5) /\ m + 5 \in Nat
        /\ (m + 5) + (m + 5) <= Len(t)
    BY <1>1, <1>10, <1>11, <1>12
  <2>4. QED BY <1>12, <2>1, <2>2, <2>3 DEF HoldsLine
<1>17. Pieces(t, LF) = <<l1, l2>>
  <2>1. Len(t) = Len(l1) + Len(l2) + 2
    BY <1>1, <1>10, <1>11, <1>12
  <2>2. QED BY <1>10, <1>11, <1>12, <1>15, <1>16, <2>1, TwoLines
<1>18. /\ Colon \in ToSet(l1) /\ HeaderParsed(l1) = <<Field(<<97>>, v)>>
       /\ Colon \in ToSet(l2) /\ HeaderParsed(l2) = <<Field(<<98>>, v)>>
  <2>1. v \in Seq(B) /\ CR \in B /\ 97 \in B /\ 98 \in B
    BY <1>1 DEF B
  <2>2. QED BY <1>1, <1>5, <2>1, HeaderLineRead
<1> DEFINE lines == Pieces(t, LF)
           ends == SelectInSeq(lines, LAMBDA l : Colon \notin ToSet(l))
           kept == IF ends = 0 THEN lines ELSE SubSeq(lines, 1, ends - 1)
           P == [i \in DOMAIN kept |-> HeaderParsed(kept[i])]
<1>19. HeaderParse(t) = FlattenSeq(P)
  BY DEF HeaderParse, HeaderParsed
<1>20. lines = <<l1, l2>> /\ DOMAIN lines = 1..2 /\ lines[1] = l1 /\ lines[2] = l2
  BY <1>17
<1>21. ends = 0
  BY <1>18, <1>20 DEF SelectInSeq, SelectInSubSeq
<1>22. FlattenSeq(P) = fields
  <2> DEFINE a == Field(<<97>>, v)
             b == Field(<<98>>, v)
             C == {a, b}
  <2>1. kept = lines
    BY <1>21
  <2>2. fields = <<a, b>>
    BY DEF AName, BName
  <2> HIDE DEF a, b, kept, lines
  <2>3. P = <<<<a>>, <<b>>>>
    BY <1>18, <1>20, <2>1 DEF a, b
  <2>4. a \in C /\ b \in C /\ <<a>> \in Seq(C) /\ <<b>> \in Seq(C)
    OBVIOUS
  <2> HIDE DEF C, P
  <2>5. FlattenSeq(<<<<a>>, <<b>>>>) = <<a>> \o <<b>>
    BY <2>4, FlattenTwo
  <2>6. <<a>> \o <<b>> = <<a, b>>
    BY <2>4, PairIs
  <2>7. QED BY <2>2, <2>3, <2>5, <2>6
<1>23. QED BY <1>8, <1>19, <1>22

-----------------------------------------------------------------------------
(* attributes *)

\* AttributesParse's state, its steps and its end.
AttributesStart == [result |-> <<>>, name |-> 0, eq |-> 0, value |-> 0]
AttributesStep(v, at, c) ==
  CASE at.name = 0 -> IF v[c] \in {SP, Semicolon} THEN at ELSE [at EXCEPT !.name = c]
    [] at.name # 0 /\ at.eq = 0 ->
         IF v[c] = Semicolon
         THEN [AttributesStart EXCEPT !.result = Append(at.result, Field(SubSeq(v, at.name, c - 1), <<>>))]
         ELSE IF v[c] = Equals THEN [at EXCEPT !.eq = c] ELSE at
    [] at.eq # 0 /\ at.value = 0 ->
         [at EXCEPT !.value = IF v[c] = Quote /\ c < Len(v) THEN c + 1 ELSE c]
    [] OTHER ->
         IF v[c] \in {Quote, Semicolon}
         THEN [AttributesStart EXCEPT !.result =
                 Append(at.result, Field(SubSeq(v, at.name, at.eq - 1), Decode(SubSeq(v, at.value, c - 1))))]
         ELSE at
AttributesClosed(v, last) ==
  CASE last.name = 0 \/ (last.eq # 0 /\ last.value = 0) -> last.result
    [] last.name # 0 /\ last.eq = 0 -> Append(last.result, Field(Rest(v, last.name), <<>>))
    [] OTHER -> Append(last.result, Field(SubSeq(v, last.name, last.eq - 1), Decode(Rest(v, last.value))))

\* What it reads, character by character.
AttributesRead(v, h) ==
  /\ h[0] = AttributesStart /\ \A c \in 1..Len(v) : h[c] = AttributesStep(v, h[c - 1], c)
  /\ AttributesParse(v) = AttributesClosed(v, h[Len(v)])

\* AttributesParse's fold over a value has a value.
LEMMA AttributesRun == ASSUME NEW A, NEW v \in Seq(A) PROVE \E h : AttributesRead(v, h)
<1> DEFINE n == Len(v)
           t == [c \in DOMAIN v |-> c]
           eq(it) == it = [s \in SUBSET DOMAIN t |->
                             IF s = {} THEN AttributesStart
                             ELSE AttributesStep(v, it[s \ {Max(s)}], t[Max(s)])]
           read == CHOOSE it : eq(it)
           W == {<<>>} \cup {Decode(SubSeq(v, p[1], p[2])) : p \in Int \X Int}
           R == {Field(SubSeq(v, p[1], p[2]), p[3]) : p \in Int \X Int \X W}
           U == [result : Seq(R), name : Nat, eq : Nat, value : Nat]
           V == {at \in U : at.name = 0 => at.eq = 0}
           base == AttributesStart
           F == [c \in 1..n |-> [at \in V |-> AttributesStep(v, at, c)]]
           h == [k \in 0..n |-> read[1..k]]
<1>1. n \in Nat /\ DOMAIN t = 1..n /\ \A c \in 1..n : t[c] = c
  OBVIOUS
<1>2. AttributesParse(v) = AttributesClosed(v, read[DOMAIN t])
  BY DEF AttributesParse, AttributesStart, AttributesClosed, AttributesStep, FoldLeft, MapThenFoldSet
<1>3. \A at \in V : \A c \in 1..n : AttributesStep(v, at, c) \in V
  <2>1. \A x, y \in Int : \A w \in W : Field(SubSeq(v, x, y), w) \in R
    <3>1. ASSUME NEW x \in Int, NEW y \in Int, NEW w \in W
          PROVE  Field(SubSeq(v, x, y), w) \in R
      <4> HIDE DEF W
      <4>1. <<x, y, w>> \in Int \X Int \X W
        OBVIOUS
      <4>2. QED BY <4>1
    <3>2. QED BY <3>1
  <2>2. \A x, y \in Int : Decode(SubSeq(v, x, y)) \in W
    <3>1. ASSUME NEW x \in Int, NEW y \in Int PROVE Decode(SubSeq(v, x, y)) \in W
      <4>1. <<x, y>> \in Int \X Int
        OBVIOUS
      <4>2. QED BY <4>1
    <3>2. QED BY <3>1
  <2>3. <<>> \in W
    OBVIOUS
  <2> HIDE DEF R, W
  <2>4. ASSUME NEW r \in Seq(R), NEW f \in R
        PROVE  [AttributesStart EXCEPT !.result = Append(r, f)] \in V
    <3>1. Append(r, f) \in Seq(R)
      BY AppendProperties
    <3> DEFINE a == Append(r, f)
    <3>2. [AttributesStart EXCEPT !.result = a] = [result |-> a, name |-> 0, eq |-> 0, value |-> 0]
      BY DEF AttributesStart
    <3> HIDE DEF a
    <3>3. [result |-> a, name |-> 0, eq |-> 0, value |-> 0] \in V
      BY <3>1 DEF a
    <3>4. QED BY <3>2, <3>3 DEF a
  <2>5. ASSUME NEW at \in V, NEW c \in 1..n PROVE AttributesStep(v, at, c) \in V
    <3>1. /\ c \in Nat /\ c + 1 \in Nat /\ c - 1 \in Int /\ at.result \in Seq(R) /\ at.name \in Nat
          /\ at.eq \in Nat /\ at.eq - 1 \in Int /\ at.value \in Nat
      BY <1>1
    <3>2. /\ at.name = 0 => at.eq = 0
          /\ [at EXCEPT !.name = c] \in V
          /\ at.name # 0 => [at EXCEPT !.eq = c] \in V
      BY <3>1
    <3>3. [at EXCEPT !.value = IF v[c] = Quote /\ c < Len(v) THEN c + 1 ELSE c] \in V
      BY <3>1
    <3> DEFINE f == Field(SubSeq(v, at.name, c - 1), <<>>)
               g == Field(SubSeq(v, at.name, at.eq - 1), Decode(SubSeq(v, at.value, c - 1)))
    <3>4. f \in R
      BY <2>1, <2>3, <3>1
    <3>5. g \in R
      BY <2>1, <2>2, <3>1
    <3>6. AttributesStep(v, at, c) =
            CASE at.name = 0 -> IF v[c] \in {SP, Semicolon} THEN at ELSE [at EXCEPT !.name = c]
              [] at.name # 0 /\ at.eq = 0 ->
                   IF v[c] = Semicolon
                   THEN [AttributesStart EXCEPT !.result = Append(at.result, f)]
                   ELSE IF v[c] = Equals THEN [at EXCEPT !.eq = c] ELSE at
              [] at.eq # 0 /\ at.value = 0 ->
                   [at EXCEPT !.value = IF v[c] = Quote /\ c < Len(v) THEN c + 1 ELSE c]
              [] OTHER -> IF v[c] \in {Quote, Semicolon}
                          THEN [AttributesStart EXCEPT !.result = Append(at.result, g)]
                          ELSE at
      BY DEF AttributesStep
    <3> HIDE DEF f, g
    <3>7. /\ [AttributesStart EXCEPT !.result = Append(at.result, f)] \in V
          /\ [AttributesStart EXCEPT !.result = Append(at.result, g)] \in V
      BY <2>4, <3>1, <3>4, <3>5
    <3> HIDE DEF V
    <3>8. CASE at.name = 0
      <4>1. AttributesStep(v, at, c) = IF v[c] \in {SP, Semicolon} THEN at ELSE [at EXCEPT !.name = c]
        BY <3>2, <3>8 DEF AttributesStep
      <4> DEFINE b == [at EXCEPT !.name = c]
      <4>2. b \in V /\ at \in V /\ AttributesStep(v, at, c) = IF v[c] \in {SP, Semicolon} THEN at ELSE b
        BY <3>2, <4>1
      <4> HIDE DEF b
      <4>3. QED BY <4>2
    <3>9. CASE at.name # 0 /\ at.eq = 0
      BY <3>2, <3>6, <3>7, <3>9
    <3>10. CASE at.name # 0 /\ at.eq # 0 /\ at.value = 0
      BY <3>3, <3>6, <3>10
    <3>11. CASE at.name # 0 /\ at.eq # 0 /\ at.value # 0
      BY <3>6, <3>7, <3>11
    <3>12. QED BY <3>8, <3>9, <3>10, <3>11
  <2>6. QED BY <2>5
<1>4. base \in V
  <2>1. <<>> \in Seq(R)
    OBVIOUS
  <2> HIDE DEF R
  <2>2. QED BY <2>1 DEF AttributesStart
<1>5. F \in Movings(V, n)
  <2> HIDE DEF V
  <2>1. QED BY <1>3 DEF Movings
<1>6. \A c \in 1..n : \A at \in V : F[c][at] = AttributesStep(v, at, c)
  OBVIOUS
<1>7. \E g : eq(g)
  <2> HIDE DEF V, F, base, n
  <2>1. PICK g : IsSetRun(V, base, n, F, g)
    BY <1>1, <1>4, <1>5, SetRun
  <2>2. g \in [SUBSET (1..n) -> V] /\ \A s \in SUBSET (1..n) :
          g[s] = IF s = {} THEN base ELSE F[Max(s)][g[s \ {Max(s)}]]
    BY <2>1 DEF IsSetRun
  <2>3. ASSUME NEW s \in SUBSET (1..n)
        PROVE  g[s] = IF s = {} THEN base ELSE AttributesStep(v, g[s \ {Max(s)}], t[Max(s)])
    <3>1. CASE s = {}
      BY <2>2, <3>1
    <3>2. CASE s # {}
      <4>1. Max(s) \in 1..n /\ s \ {Max(s)} \in SUBSET (1..n)
        BY <1>1, <3>2, LastFacts
      <4> HIDE DEF t
      <4>2. t[Max(s)] = Max(s) /\ g[s \ {Max(s)}] \in V
        BY <1>1, <2>2, <4>1
      <4>3. QED BY <1>6, <2>2, <3>2, <4>1, <4>2
    <3>3. QED BY <3>1, <3>2
  <2> HIDE DEF t
  <2>4. eq(g)
    BY <1>1, <2>2, <2>3 DEF base
  <2>5. QED BY <2>4
<1> HIDE DEF eq, F, V, base
<1>8. eq(read)
  BY <1>7
<1> HIDE DEF read, t, n
<1>9. \A s \in SUBSET (1..n) :
        read[s] = IF s = {} THEN AttributesStart
                  ELSE AttributesStep(v, read[s \ {Max(s)}], t[Max(s)])
  BY <1>1, <1>8 DEF eq
<1>10. h[0] = AttributesStart
  <2>1. 1..0 = {} /\ 0 \in 0..n /\ 1..0 \in SUBSET (1..n)
    BY <1>1
  <2>2. QED BY <1>9, <2>1
<1>11. ASSUME NEW k \in 1..n PROVE h[k] = AttributesStep(v, h[k - 1], k)
  <2>1. /\ k \in 0..n /\ k - 1 \in 0..n /\ 1..k # {} /\ (1..k) \ {k} = 1..(k - 1)
        /\ 1..k \in SUBSET (1..n)
    BY <1>1
  <2>2. Max(1..k) = k
    <3>1. 1..k \in SUBSET Nat /\ k \in 1..k /\ \A i \in 1..k : i <= k
      BY <1>1
    <3>2. QED BY <3>1, MaxIs
  <2>3. read[1..k] = AttributesStep(v, read[1..(k - 1)], k)
    BY <1>1, <1>9, <2>1, <2>2
  <2>4. QED BY <2>1, <2>3
<1>12. AttributesParse(v) = AttributesClosed(v, h[n])
  <2>1. n \in 0..n /\ h[n] = read[1..n]
    BY <1>1
  <2>2. QED BY <1>1, <1>2, <2>1
<1> HIDE DEF h
<1>13. AttributesRead(v, h)
  BY <1>10, <1>11, <1>12 DEF AttributesRead, n
<1>14. QED BY <1>13

\* What AttributesParse knows of the attribute it reads, and its steps within the value.
Reading(r, x, y, z) == [result |-> r, name |-> x, eq |-> y, value |-> z]

\* Within the value of an attribute a character is passed over, or ends it.
LEMMA AttributesSteps ==
  ASSUME NEW v, NEW c, NEW r, NEW x, NEW y, NEW z, x # 0, y # 0, z # 0
  PROVE  /\ v[c] \notin {Quote, Semicolon} => AttributesStep(v, Reading(r, x, y, z), c) = Reading(r, x, y, z)
         /\ v[c] \in {Quote, Semicolon} =>
              AttributesStep(v, Reading(r, x, y, z), c) =
                Reading(Append(r, Field(SubSeq(v, x, y - 1), Decode(SubSeq(v, z, c - 1)))), 0, 0, 0)
<1>1. ASSUME NEW at, at = Reading(r, x, y, z), v[c] \notin {Quote, Semicolon}
      PROVE  AttributesStep(v, at, c) = at
  BY <1>1 DEF AttributesStep, Reading
<1>2. ASSUME NEW at, at = Reading(r, x, y, z), v[c] \in {Quote, Semicolon}
      PROVE  AttributesStep(v, at, c) =
               [AttributesStart EXCEPT !.result =
                  Append(r, Field(SubSeq(v, x, y - 1), Decode(SubSeq(v, z, c - 1))))]
  BY <1>2 DEF AttributesStep, Reading
<1>3. \A q : [AttributesStart EXCEPT !.result = q] = Reading(q, 0, 0, 0)
  BY DEF Reading, AttributesStart
<1>4. v[c] \notin {Quote, Semicolon} => AttributesStep(v, Reading(r, x, y, z), c) = Reading(r, x, y, z)
  BY <1>1
<1>5. v[c] \in {Quote, Semicolon} =>
         AttributesStep(v, Reading(r, x, y, z), c) =
           Reading(Append(r, Field(SubSeq(v, x, y - 1), Decode(SubSeq(v, z, c - 1)))), 0, 0, 0)
  BY <1>2, <1>3
<1>6. QED BY <1>4, <1>5

\* A text put behind another, and what both hold.
IsPutBehind(B, x, n, y, m, z) ==
  /\ n \in Nat /\ m \in Nat /\ z \in Seq(B) /\ Len(z) = n + m
  /\ \A i \in 1..n : z[i] = x[i]
  /\ \A i \in 1..m : z[n + i] = y[i]

\* What stands where when one text is put behind another.
LEMMA PutBehind ==
  ASSUME NEW B, NEW x \in Seq(B), NEW y \in Seq(B), NEW z, z = x \o y,
         NEW n, Len(x) = n, NEW m, Len(y) = m
  PROVE  IsPutBehind(B, x, n, y, m, z)
<1>1. IsJoin(B, x, y, z)
  BY Joined
<1>2. QED BY <1>1 DEF IsJoin, IsPutBehind

\* A cookie with one plain attribute and one quoted.
CookieOf(v) == AName \o <<Equals>> \o v \o <<Semicolon, SP>> \o BName
               \o <<Equals, Quote>> \o Encode(v) \o <<Quote>>

IsCookie(B, a, v, e) ==
  LET m == Len(v)
      k == Len(e)
  IN /\ a \in Seq(B) /\ Len(a) = m + k + 8 /\ a[1] = 97 /\ a[2] = Equals
     /\ \A j \in 1..m : a[2 + j] = v[j]
     /\ a[m + 3] = Semicolon /\ a[m + 4] = SP /\ a[m + 5] = 98 /\ a[m + 6] = Equals
     /\ a[m + 7] = Quote /\ \A j \in 1..k : a[m + 7 + j] = e[j]
     /\ a[m + k + 8] = Quote

\* The text of the two attributes, place by place.
LEMMA CookieIs ==
  ASSUME NEW B, Octets \subseteq B, NEW v \in Seq(B), Encode(v) \in Seq(B)
  PROVE  IsCookie(B, CookieOf(v), v, Encode(v))
<1> DEFINE e == Encode(v)
           m == Len(v)
           k == Len(e)
           t2 == <<97, Equals>>
           t3 == <<Semicolon, SP>>
           t4 == <<98>>
           t5 == <<Equals, Quote>>
           t7 == <<Quote>>
           s2 == t2 \o v
           s3 == s2 \o t3
           s4 == s3 \o t4
           s5 == s4 \o t5
           s6 == s5 \o e
           s7 == s6 \o t7
<1>1. 97 \in B /\ 98 \in B /\ Equals \in B /\ Semicolon \in B /\ SP \in B /\ Quote \in B
  BY DEF Octets, Equals, Semicolon, SP, Quote
<1>2. CookieOf(v) = s7
  <2>1. AName \o <<Equals>> = t2
    BY <1>1, PairIs DEF AName
  <2>2. QED BY <2>1 DEF CookieOf, BName
<1>3. /\ t2 \in Seq(B) /\ Len(t2) = 2 /\ t2[1] = 97 /\ t2[2] = Equals
      /\ t3 \in Seq(B) /\ Len(t3) = 2 /\ t3[1] = Semicolon /\ t3[2] = SP
      /\ t4 \in Seq(B) /\ Len(t4) = 1 /\ t4[1] = 98
      /\ t5 \in Seq(B) /\ Len(t5) = 2 /\ t5[1] = Equals /\ t5[2] = Quote
      /\ t7 \in Seq(B) /\ Len(t7) = 1 /\ t7[1] = Quote
  BY <1>1
<1>4. m \in Nat /\ k \in Nat /\ e \in Seq(B) /\ Len(e) = k /\ Len(v) = m
  <2> HIDE DEF e
  <2>1. e \in Seq(B)
    BY DEF e
  <2>2. QED BY <2>1
<1>0. /\ s2 = t2 \o v /\ s3 = s2 \o t3 /\ s4 = s3 \o t4 /\ s5 = s4 \o t5
      /\ s6 = s5 \o e /\ s7 = s6 \o t7
  OBVIOUS
<1> HIDE DEF e, m, k, t2, t3, t4, t5, t7, s2, s3, s4, s5, s6, s7
<1>5. /\ s2 \in Seq(B) /\ Len(s2) = m + 2 /\ \A i \in 1..2 : s2[i] = t2[i]
      /\ \A j \in 1..m : s2[2 + j] = v[j]
  <2> DEFINE n == 2
  <2>1. Len(t2) = n /\ n + m = m + 2
    BY <1>3, <1>4
  <2> HIDE DEF n
  <2>2. IsPutBehind(B, t2, n, v, m, s2)
    BY <1>0, <1>3, <1>4, <2>1, PutBehind
  <2>3. QED BY <2>1, <2>2 DEF IsPutBehind, n
<1>6. /\ s3 \in Seq(B) /\ Len(s3) = m + 4 /\ \A i \in 1..(m + 2) : s3[i] = s2[i]
      /\ s3[m + 3] = Semicolon /\ s3[m + 4] = SP
  <2> DEFINE n == m + 2
  <2>1. n \in Nat /\ Len(s2) = n /\ n + 2 = m + 4 /\ n + 1 = m + 3
    BY <1>4, <1>5
  <2> HIDE DEF n
  <2> DEFINE d == 2
  <2>4. Len(t3) = d
    BY <1>3, <1>4
  <2> HIDE DEF d
  <2>5. IsPutBehind(B, s2, n, t3, d, s3)
    BY <1>0, <1>3, <1>4, <1>5, <2>1, <2>4, PutBehind
  <2>2. /\ s3 \in Seq(B) /\ Len(s3) = n + 2 /\ \A i \in 1..n : s3[i] = s2[i]
        /\ \A i \in 1..2 : s3[n + i] = t3[i]
    BY <2>5 DEF IsPutBehind, d
  <2>3. QED BY <1>3, <2>1, <2>2 DEF n
<1>7. /\ s4 \in Seq(B) /\ Len(s4) = m + 5 /\ \A i \in 1..(m + 4) : s4[i] = s3[i]
      /\ s4[m + 5] = 98
  <2> DEFINE n == m + 4
  <2>1. n \in Nat /\ Len(s3) = n /\ n + 1 = m + 5
    BY <1>4, <1>6
  <2> HIDE DEF n
  <2> DEFINE d == 1
  <2>4. Len(t4) = d
    BY <1>3, <1>4
  <2> HIDE DEF d
  <2>5. IsPutBehind(B, s3, n, t4, d, s4)
    BY <1>0, <1>3, <1>4, <1>6, <2>1, <2>4, PutBehind
  <2>2. /\ s4 \in Seq(B) /\ Len(s4) = n + 1 /\ \A i \in 1..n : s4[i] = s3[i]
        /\ \A i \in 1..1 : s4[n + i] = t4[i]
    BY <2>5 DEF IsPutBehind, d
  <2>3. QED BY <1>3, <2>1, <2>2 DEF n
<1>8. /\ s5 \in Seq(B) /\ Len(s5) = m + 7 /\ \A i \in 1..(m + 5) : s5[i] = s4[i]
      /\ s5[m + 6] = Equals /\ s5[m + 7] = Quote
  <2> DEFINE n == m + 5
  <2>1. n \in Nat /\ Len(s4) = n /\ n + 2 = m + 7 /\ n + 1 = m + 6
    BY <1>4, <1>7
  <2> HIDE DEF n
  <2> DEFINE d == 2
  <2>4. Len(t5) = d
    BY <1>3, <1>4
  <2> HIDE DEF d
  <2>5. IsPutBehind(B, s4, n, t5, d, s5)
    BY <1>0, <1>3, <1>4, <1>7, <2>1, <2>4, PutBehind
  <2>2. /\ s5 \in Seq(B) /\ Len(s5) = n + 2 /\ \A i \in 1..n : s5[i] = s4[i]
        /\ \A i \in 1..2 : s5[n + i] = t5[i]
    BY <2>5 DEF IsPutBehind, d
  <2>3. QED BY <1>3, <2>1, <2>2 DEF n
<1>9. /\ s6 \in Seq(B) /\ Len(s6) = m + 7 + k /\ \A i \in 1..(m + 7) : s6[i] = s5[i]
      /\ \A j \in 1..k : s6[m + 7 + j] = e[j]
  <2> DEFINE n == m + 7
  <2>1. n \in Nat /\ Len(s5) = n
    BY <1>4, <1>8
  <2> HIDE DEF n
  <2> DEFINE d == k
  <2>4. Len(e) = d
    BY <1>3, <1>4
  <2> HIDE DEF d
  <2>5. IsPutBehind(B, s5, n, e, d, s6)
    BY <1>0, <1>3, <1>4, <1>8, <2>1, <2>4, PutBehind
  <2>2. /\ s6 \in Seq(B) /\ Len(s6) = n + k /\ \A i \in 1..n : s6[i] = s5[i]
        /\ \A i \in 1..k : s6[n + i] = e[i]
    BY <2>5 DEF IsPutBehind, d
  <2>3. QED BY <2>2 DEF n
<1>10. /\ s7 \in Seq(B) /\ Len(s7) = m + k + 8 /\ \A i \in 1..(m + 7 + k) : s7[i] = s6[i]
       /\ s7[m + k + 8] = Quote
  <2> DEFINE n == m + 7 + k
  <2>1. n \in Nat /\ Len(s6) = n /\ n + 1 = m + k + 8
    BY <1>4, <1>9
  <2> HIDE DEF n
  <2> DEFINE d == 1
  <2>4. Len(t7) = d
    BY <1>3, <1>4
  <2> HIDE DEF d
  <2>5. IsPutBehind(B, s6, n, t7, d, s7)
    BY <1>0, <1>3, <1>4, <1>9, <2>1, <2>4, PutBehind
  <2>2. /\ s7 \in Seq(B) /\ Len(s7) = n + 1 /\ \A i \in 1..n : s7[i] = s6[i]
        /\ \A i \in 1..1 : s7[n + i] = t7[i]
    BY <2>5 DEF IsPutBehind, d
  <2>3. QED BY <1>3, <2>1, <2>2 DEF n
<1>11. \A i \in 1..(m + 7) : s7[i] = s5[i]
  <2>1. \A i \in 1..(m + 7) : i \in 1..(m + 7 + k)
    BY <1>4
  <2>2. QED BY <1>9, <1>10, <2>1
<1>12. \A i \in 1..(m + 5) : s7[i] = s4[i]
  <2>1. \A i \in 1..(m + 5) : i \in 1..(m + 7)
    BY <1>4
  <2>2. QED BY <1>8, <1>11, <2>1
<1>13. \A i \in 1..(m + 4) : s7[i] = s3[i]
  <2>1. \A i \in 1..(m + 4) : i \in 1..(m + 5)
    BY <1>4
  <2>2. QED BY <1>7, <1>12, <2>1
<1>14. \A i \in 1..(m + 2) : s7[i] = s2[i]
  <2>1. \A i \in 1..(m + 2) : i \in 1..(m + 4)
    BY <1>4
  <2>2. QED BY <1>6, <1>13, <2>1
<1>15. s7[1] = 97 /\ s7[2] = Equals /\ \A j \in 1..m : s7[2 + j] = v[j]
  <2>1. 1 \in 1..(m + 2) /\ 2 \in 1..(m + 2) /\ \A j \in 1..m : 2 + j \in 1..(m + 2)
    BY <1>4
  <2>2. QED BY <1>3, <1>5, <1>14, <2>1
<1>16. s7[m + 3] = Semicolon /\ s7[m + 4] = SP /\ s7[m + 5] = 98
  <2>1. m + 3 \in 1..(m + 4) /\ m + 4 \in 1..(m + 4) /\ m + 5 \in 1..(m + 5)
    BY <1>4
  <2>2. QED BY <1>6, <1>7, <1>12, <1>13, <2>1
<1>17. s7[m + 6] = Equals /\ s7[m + 7] = Quote
  <2>1. m + 6 \in 1..(m + 7) /\ m + 7 \in 1..(m + 7)
    BY <1>4
  <2>2. QED BY <1>8, <1>11, <2>1
<1>18. \A j \in 1..k : s7[m + 7 + j] = e[j]
  <2>1. \A j \in 1..k : m + 7 + j \in 1..(m + 7 + k)
    BY <1>4
  <2>2. QED BY <1>9, <1>10, <2>1
<1>19. IsCookie(B, s7, v, e)
  BY <1>10, <1>15, <1>16, <1>17, <1>18 DEF IsCookie, m, k
<1>20. QED BY <1>2, <1>19 DEF e

\* The first two stages of an attribute, each without the positions it does not know yet.
LEMMA NameSteps ==
  ASSUME NEW v, NEW c, NEW r
  PROVE  /\ v[c] \in {SP, Semicolon} => AttributesStep(v, Reading(r, 0, 0, 0), c) = Reading(r, 0, 0, 0)
         /\ v[c] \notin {SP, Semicolon} => AttributesStep(v, Reading(r, 0, 0, 0), c) = Reading(r, c, 0, 0)
<1>1. ASSUME NEW at, at = Reading(r, 0, 0, 0)
      PROVE  AttributesStep(v, at, c) = IF v[c] \in {SP, Semicolon} THEN at ELSE [at EXCEPT !.name = c]
  BY <1>1 DEF AttributesStep, Reading
<1>2. [Reading(r, 0, 0, 0) EXCEPT !.name = c] = Reading(r, c, 0, 0)
  BY DEF Reading
<1>3. QED BY <1>1, <1>2

\* The sign after the name.
LEMMA EqualsStep ==
  ASSUME NEW v, NEW c, NEW r, NEW x, x # 0, v[c] = Equals
  PROVE  AttributesStep(v, Reading(r, x, 0, 0), c) = Reading(r, x, c, 0)
<1>1. ASSUME NEW at, at = Reading(r, x, 0, 0)
      PROVE  AttributesStep(v, at, c) = [at EXCEPT !.eq = c]
  BY <1>1 DEF AttributesStep, Reading, Equals, Semicolon
<1>2. [Reading(r, x, 0, 0) EXCEPT !.eq = c] = Reading(r, x, c, 0)
  BY DEF Reading
<1>3. QED BY <1>1, <1>2

\* The first character of the value, or the quote before it.
LEMMA ValueSteps ==
  ASSUME NEW v, NEW c, NEW r, NEW x, NEW y, x # 0, y # 0
  PROVE  /\ v[c] # Quote => AttributesStep(v, Reading(r, x, y, 0), c) = Reading(r, x, y, c)
         /\ v[c] = Quote /\ c < Len(v) => AttributesStep(v, Reading(r, x, y, 0), c) = Reading(r, x, y, c + 1)
<1>1. ASSUME NEW at, at = Reading(r, x, y, 0)
      PROVE  AttributesStep(v, at, c) =
               [at EXCEPT !.value = IF v[c] = Quote /\ c < Len(v) THEN c + 1 ELSE c]
  BY <1>1 DEF AttributesStep, Reading
<1>2. /\ [Reading(r, x, y, 0) EXCEPT !.value = c] = Reading(r, x, y, c)
      /\ [Reading(r, x, y, 0) EXCEPT !.value = c + 1] = Reading(r, x, y, c + 1)
  BY DEF Reading
<1>3. QED BY <1>1, <1>2

\* Two attributes come back, the plain one decoded and the quoted one whole,
\* unless the plain one is empty or holds what ends it.
LEMMA AttributesComeBack ==
  ASSUME NEW v \in Seq(Octets), v # <<>>, \A j \in 1..Len(v) : v[j] \notin {Quote, Semicolon}
  PROVE  AttributesParse(CookieOf(v)) = <<Field(AName, Decode(v)), Field(BName, v)>>
<1> DEFINE B == Octets \cup Safe
           e == Encode(v)
           m == Len(v)
           k == Len(e)
           a == CookieOf(v)
           n == Len(a)
           f == Field(<<97>>, Decode(v))
           g == Field(<<98>>, v)
           r0 == <<>>
           r1 == <<f>>
           r2 == <<f, g>>
<1>1. e \in Seq(Safe) /\ Decode(e) = v
  BY EncodedComesBack
<1>2. m \in Nat /\ m # 0
  OBVIOUS
<1> HIDE DEF e
<1>3. k \in Nat /\ \A j \in 1..k : e[j] \in Safe
  BY <1>1
<1>4. v \in Seq(B) /\ e \in Seq(B) /\ Octets \subseteq B
  <2>1. Octets \subseteq B /\ Safe \subseteq B
    OBVIOUS
  <2> HIDE DEF B
  <2>2. QED BY <1>1, <2>1, SeqMonotonic
<1> HIDE DEF B
<1>5. IsCookie(B, a, v, e)
  BY <1>4, CookieIs DEF e
<1>6. /\ a \in Seq(B) /\ n = m + k + 8 /\ a[1] = 97 /\ a[2] = Equals
      /\ \A j \in 1..m : a[2 + j] = v[j]
      /\ a[m + 3] = Semicolon /\ a[m + 4] = SP /\ a[m + 5] = 98 /\ a[m + 6] = Equals
      /\ a[m + 7] = Quote /\ \A j \in 1..k : a[m + 7 + j] = e[j]
      /\ a[m + k + 8] = Quote
  BY <1>5 DEF IsCookie
<1>7. PICK h : AttributesRead(a, h)
  BY <1>6, AttributesRun
<1>8. /\ h[0] = AttributesStart /\ \A c \in 1..n : h[c] = AttributesStep(a, h[c - 1], c)
      /\ AttributesParse(a) = AttributesClosed(a, h[n])
  BY <1>7 DEF AttributesRead
<1>9. \A j \in 1..k : e[j] \notin {Quote, Semicolon}
  <2>1. Quote \notin Safe /\ Semicolon \notin Safe
    BY DEF Safe, Unreserved, Digits, Quote, Semicolon, PercentSign, Minus
  <2>2. QED BY <1>3, <2>1
<1>10. \A j \in 1..m : v[j] \notin {Quote, Semicolon}
  OBVIOUS
<1> HIDE DEF a, m, k, n, r0, r1, r2, f, g
<1>11. /\ 97 \notin {SP, Semicolon} /\ 98 \notin {SP, Semicolon} /\ Equals # Quote
       /\ SP \in {SP, Semicolon} /\ Semicolon \in {Quote, Semicolon} /\ Quote \in {Quote, Semicolon}
  BY DEF SP, Semicolon, Equals, Quote
<1>12. h[1] = Reading(r0, 1, 0, 0)
  <2>1. 1 \in 1..n /\ 1 - 1 = 0
    BY <1>2, <1>3, <1>6
  <2>2. AttributesStart = Reading(r0, 0, 0, 0)
    BY DEF AttributesStart, Reading, r0
  <2> DEFINE c == 1
  <2>3. h[c] = AttributesStep(a, Reading(r0, 0, 0, 0), c) /\ a[c] \notin {SP, Semicolon} /\ c # 0
    BY <1>6, <1>8, <1>11, <2>1, <2>2
  <2> HIDE DEF c
  <2>4. h[c] = Reading(r0, c, 0, 0)
    BY <2>3, NameSteps
  <2>5. QED BY <2>4 DEF c
<1>13. h[2] = Reading(r0, 1, 2, 0)
  <2> DEFINE c == 2
             x == 1
  <2>1. c \in 1..n /\ c - 1 = x /\ x # 0 /\ c # 0 /\ a[c] = Equals
    BY <1>2, <1>3, <1>6
  <2>2. h[c] = AttributesStep(a, Reading(r0, x, 0, 0), c)
    BY <1>8, <1>12, <2>1
  <2> HIDE DEF c, x
  <2>3. h[c] = Reading(r0, x, c, 0)
    BY <2>1, <2>2, EqualsStep
  <2>4. QED BY <2>3 DEF c, x
<1>14. h[3] = Reading(r0, 1, 2, 3)
  <2> DEFINE c == 3
             x == 1
             y == 2
  <2>1. c \in 1..n /\ c - 1 = y /\ x # 0 /\ y # 0 /\ c # 0
    BY <1>2, <1>3, <1>6
  <2>2. a[c] # Quote
    <3>1. 1 \in 1..m /\ 2 + 1 = 3
      BY <1>2
    <3>2. a[3] = v[1]
      BY <1>6, <3>1
    <3>3. QED BY <1>10, <3>1, <3>2
  <2>3. h[c] = AttributesStep(a, Reading(r0, x, y, 0), c)
    BY <1>8, <1>13, <2>1
  <2> HIDE DEF c, x, y
  <2>4. h[c] = Reading(r0, x, y, c)
    BY <2>1, <2>2, <2>3, ValueSteps
  <2>5. QED BY <2>4 DEF c, x, y
<1>15. h[m + 2] = Reading(r0, 1, 2, 3)
  <2> DEFINE S == {j \in 0..m : j # 0 => h[2 + j] = Reading(r0, 1, 2, 3)}
             x == 1
             y == 2
             z == 3
  <2>1. 0 \in S
    BY <1>2
  <2>2. ASSUME NEW j \in 1..m, j - 1 \in S PROVE j \in S
    <3> DEFINE c == 2 + j
    <3>1. c \in 1..n /\ c - 1 = 2 + (j - 1) /\ j \in 0..m /\ x # 0 /\ y # 0 /\ z # 0
      BY <1>2, <1>3, <1>6
    <3>2. CASE j = 1
      BY <1>14, <3>1, <3>2
    <3>3. CASE j # 1
      <4>1. h[c - 1] = Reading(r0, x, y, z)
        BY <2>2, <3>1, <3>3
      <4>2. a[c] = v[j] /\ v[j] \notin {Quote, Semicolon}
        BY <1>6, <1>10
      <4> HIDE DEF c, x, y, z, S
      <4>3. h[c] = AttributesStep(a, Reading(r0, x, y, z), c)
        BY <1>8, <3>1, <4>1
      <4>4. h[c] = Reading(r0, x, y, z)
        BY <3>1, <4>2, <4>3, AttributesSteps
      <4>5. QED BY <3>1, <4>4 DEF c, x, y, z, S
    <3>4. QED BY <3>2, <3>3
  <2> HIDE DEF S
  <2>3. \A j \in 0..m : j \in S
    BY <1>2, <2>1, <2>2, UpTo
  <2>4. m \in 0..m /\ 2 + m = m + 2
    BY <1>2
  <2>5. QED BY <1>2, <2>3, <2>4 DEF S
<1>16. h[m + 3] = Reading(r1, 0, 0, 0)
  <2> DEFINE c == m + 3
             x == 1
             y == 2
             z == 3
  <2>1. /\ c \in 1..n /\ c - 1 = m + 2 /\ y - 1 = 1 /\ x # 0 /\ y # 0 /\ z # 0
        /\ a[c] \in {Quote, Semicolon}
    BY <1>2, <1>3, <1>6, <1>11
  <2>2. h[c] = AttributesStep(a, Reading(r0, x, y, z), c)
    BY <1>8, <1>15, <2>1
  <2>3. SubSeq(a, x, y - 1) = <<97>>
    <3> DEFINE s == <<97>>
    <3>1. s \in Seq(B) /\ Len(s) = 1 /\ s[1] = 97
      BY <1>4 DEF Octets
    <3>2. x \in 1..(Len(a) + 1) /\ x + Len(s) - 1 <= Len(a) /\ \A i \in 1..Len(s) : s[i] = a[x + i - 1]
      BY <1>2, <1>3, <1>6, <3>1 DEF n
    <3>3. x + Len(s) - 1 = y - 1
      BY <3>1
    <3> HIDE DEF s, x
    <3>4. SubSeq(a, x, x + Len(s) - 1) = s
      BY <1>6, <3>1, <3>2, PieceIs, SMTT(60)
    <3>5. QED BY <3>3, <3>4 DEF s
  <2>4. SubSeq(a, z, c - 1) = v
    <3>1. z \in 1..(Len(a) + 1) /\ z + Len(v) - 1 <= Len(a)
      BY <1>2, <1>3, <1>6 DEF n, m
    <3>2. ASSUME NEW i \in 1..Len(v) PROVE v[i] = a[z + i - 1]
      <4>1. i \in 1..m /\ 3 + i - 1 = 2 + i
        BY <1>2 DEF m
      <4>2. QED BY <1>6, <4>1
    <3>3. z + Len(v) - 1 = c - 1
      BY <1>2 DEF m
    <3> HIDE DEF z
    <3>4. SubSeq(a, z, z + Len(v) - 1) = v
      BY <1>4, <1>6, <3>1, <3>2, PieceIs
    <3>5. QED BY <3>3, <3>4
  <2>5. Append(r0, f) = r1
    BY DEF r0, r1
  <2> HIDE DEF c, x, y, z
  <2>6. h[c] = Reading(Append(r0, Field(SubSeq(a, x, y - 1), Decode(SubSeq(a, z, c - 1)))), 0, 0, 0)
    BY <2>1, <2>2, AttributesSteps
  <2>7. QED BY <2>3, <2>4, <2>5, <2>6 DEF c, f
<1>17. h[m + 4] = Reading(r1, 0, 0, 0)
  <2> DEFINE c == m + 4
             x == 1
  <2>1. c \in 1..n /\ c - 1 = m + 3 /\ x # 0 /\ a[c] \in {SP, Semicolon}
    BY <1>2, <1>3, <1>6, <1>11
  <2>2. h[c] = AttributesStep(a, Reading(r1, 0, 0, 0), c)
    BY <1>8, <1>16, <2>1
  <2> HIDE DEF c, x
  <2>3. h[c] = Reading(r1, 0, 0, 0)
    BY <2>1, <2>2, NameSteps
  <2>4. QED BY <2>3 DEF c
<1>18. h[m + 5] = Reading(r1, m + 5, 0, 0)
  <2> DEFINE c == m + 5
             x == 1
  <2>1. c \in 1..n /\ c - 1 = m + 4 /\ x # 0 /\ a[c] \notin {SP, Semicolon}
    BY <1>2, <1>3, <1>6, <1>11
  <2>2. h[c] = AttributesStep(a, Reading(r1, 0, 0, 0), c)
    BY <1>8, <1>17, <2>1
  <2> HIDE DEF c, x
  <2>3. h[c] = Reading(r1, c, 0, 0)
    BY <2>1, <2>2, NameSteps
  <2>4. QED BY <2>3 DEF c
<1>19. h[m + 6] = Reading(r1, m + 5, m + 6, 0)
  <2> DEFINE c == m + 6
             x == m + 5
  <2>1. c \in 1..n /\ c - 1 = x /\ x # 0 /\ a[c] = Equals
    BY <1>2, <1>3, <1>6
  <2>2. h[c] = AttributesStep(a, Reading(r1, x, 0, 0), c)
    BY <1>8, <1>18, <2>1
  <2> HIDE DEF c, x
  <2>3. h[c] = Reading(r1, x, c, 0)
    BY <2>1, <2>2, EqualsStep
  <2>4. QED BY <2>3 DEF c, x
<1>20. h[m + 7] = Reading(r1, m + 5, m + 6, m + 8)
  <2> DEFINE c == m + 7
             x == m + 5
             y == m + 6
  <2>1. c \in 1..n /\ c - 1 = y /\ x # 0 /\ y # 0 /\ a[c] = Quote /\ c < Len(a) /\ c + 1 = m + 8
    BY <1>2, <1>3, <1>6 DEF n
  <2>2. h[c] = AttributesStep(a, Reading(r1, x, y, 0), c)
    BY <1>8, <1>19, <2>1
  <2> HIDE DEF c, x, y
  <2>3. h[c] = Reading(r1, x, y, c + 1)
    BY <2>1, <2>2, ValueSteps
  <2>4. QED BY <2>1, <2>3 DEF c, x, y
<1>21. h[m + 7 + k] = Reading(r1, m + 5, m + 6, m + 8)
  <2> DEFINE x == m + 5
             y == m + 6
             z == m + 8
             S == {j \in 0..k : h[m + 7 + j] = Reading(r1, x, y, z)}
  <2>1. 0 \in S
    <3>1. 0 \in 0..k /\ m + 7 + 0 = m + 7
      BY <1>2, <1>3
    <3>2. QED BY <1>20, <3>1
  <2>2. ASSUME NEW j \in 1..k, j - 1 \in S PROVE j \in S
    <3> DEFINE c == m + 7 + j
    <3>1. c \in 1..n /\ c - 1 = m + 7 + (j - 1) /\ j \in 0..k /\ x # 0 /\ y # 0 /\ z # 0
      BY <1>2, <1>3, <1>6
    <3>2. h[c - 1] = Reading(r1, x, y, z)
      BY <2>2, <3>1
    <3>3. a[c] \notin {Quote, Semicolon}
      BY <1>6, <1>9
    <3> HIDE DEF c, x, y, z, S
    <3>4. h[c] = AttributesStep(a, Reading(r1, x, y, z), c)
      BY <1>8, <3>1, <3>2
    <3>5. h[c] = Reading(r1, x, y, z)
      BY <3>1, <3>3, <3>4, AttributesSteps
    <3>6. QED BY <3>1, <3>5 DEF c, S
  <2> HIDE DEF S
  <2>3. \A j \in 0..k : j \in S
    BY <1>3, <2>1, <2>2, UpTo
  <2>4. k \in 0..k
    BY <1>3
  <2>5. QED BY <2>3, <2>4 DEF S
<1>22. h[n] = Reading(r2, 0, 0, 0)
  <2> DEFINE x == m + 5
             y == m + 6
             z == m + 8
             b == <<98>>
  <2>1. /\ n \in 1..n /\ n - 1 = m + 7 + k /\ y - 1 = m + 5 /\ x # 0 /\ y # 0 /\ z # 0
        /\ a[n] \in {Quote, Semicolon}
    BY <1>2, <1>3, <1>6, <1>11
  <2>2. h[n] = AttributesStep(a, Reading(r1, x, y, z), n)
    BY <1>8, <1>21, <2>1
  <2>3. SubSeq(a, x, y - 1) = b
    <3>1. b \in Seq(B) /\ Len(b) = 1 /\ b[1] = 98
      BY <1>4 DEF Octets
    <3>2. x \in 1..(Len(a) + 1) /\ x + Len(b) - 1 = y - 1 /\ y - 1 <= Len(a) /\ a[x] = 98 /\ x + 1 - 1 = x
      BY <1>2, <1>3, <1>6, <3>1 DEF n
    <3> HIDE DEF b, x, y
    <3>3. x + Len(b) - 1 <= Len(a) /\ \A i \in 1..Len(b) : b[i] = a[x + i - 1]
      BY <3>1, <3>2
    <3>4. SubSeq(a, x, x + Len(b) - 1) = b
      BY <1>6, <3>1, <3>2, <3>3, PieceIs
    <3>5. QED BY <3>2, <3>4
  <2>4. SubSeq(a, z, n - 1) = e
    <3>1. z \in 1..(Len(a) + 1) /\ z + Len(e) - 1 = n - 1 /\ n - 1 <= Len(a)
      BY <1>2, <1>3, <1>6 DEF n, k
    <3>2. ASSUME NEW i \in 1..Len(e) PROVE e[i] = a[z + i - 1]
      <4>1. i \in 1..k /\ z + i - 1 = m + 7 + i
        BY <1>2 DEF k
      <4>2. QED BY <1>6, <4>1
    <3> HIDE DEF z
    <3>4. SubSeq(a, z, z + Len(e) - 1) = e
      BY <1>4, <1>6, <3>1, <3>2, PieceIs
    <3>5. QED BY <3>1, <3>4
  <2>5. Append(r1, g) = r2
    <3> DEFINE C == {f, g}
    <3>1. f \in C /\ g \in C /\ <<f>> \in Seq(C)
      OBVIOUS
    <3> HIDE DEF C
    <3>2. Append(<<f>>, g) = <<f>> \o <<g>> /\ <<f>> \o <<g>> = <<f, g>>
      BY <3>1, AppendIsConcat, PairIs
    <3>3. QED BY <3>2 DEF r1, r2
  <2> HIDE DEF x, y, z
  <2>6. h[n] = Reading(Append(r1, Field(SubSeq(a, x, y - 1), Decode(SubSeq(a, z, n - 1)))), 0, 0, 0)
    BY <2>1, <2>2, AttributesSteps
  <2>7. QED BY <1>1, <2>3, <2>4, <2>5, <2>6 DEF g
<1>23. AttributesClosed(a, Reading(r2, 0, 0, 0)) = r2
  BY DEF AttributesClosed, Reading
<1>24. r2 = <<Field(AName, Decode(v)), Field(BName, v)>>
  BY DEF r2, f, g, AName, BName
<1>25. QED BY <1>8, <1>22, <1>23, <1>24 DEF a

\* Nothing a text holds is lost on its way through a query string, a header or a cookie.
LEMMA FieldsRead == ASSUME text \in Seq(Octets) PROVE FieldsComeBack
<1> DEFINE fields == <<Field(AName, text), Field(BName, text)>>
           plain == text # <<>> /\ ~Has(Semicolon) /\ ~Has(Quote)
<1>1. \A c : Has(c) <=> \E j \in 1..Len(text) : text[j] = c
  BY DEF Has, ToSet
<1>2. QueryParse(QueryCreate(fields)) = fields
  BY QueryComesBack
<1>3. ASSUME ~Has(LF), text # <<>> => Head(text) # SP
      PROVE  HeaderParse(HeaderWrite(fields)) = fields
  <2>1. \A j \in 1..Len(text) : text[j] # LF
    BY <1>1, <1>3
  <2> DEFINE gs == fields
  <2>2. gs = <<Field(AName, text), Field(BName, text)>>
    OBVIOUS
  <2> HIDE DEF gs
  <2>3. HeaderParse(HeaderWrite(gs)) = gs
    BY <1>3, <2>1, <2>2, HeaderComesBack
  <2>4. QED BY <2>3 DEF gs
<1>4. ASSUME plain
      PROVE  AttributesParse(CookieOf(text)) = <<Field(AName, Decode(text)), Field(BName, text)>>
  <2>1. \A j \in 1..Len(text) : text[j] \notin {Quote, Semicolon}
    BY <1>1, <1>4
  <2>2. QED BY <1>4, <2>1, AttributesComeBack
<1> HIDE DEF fields, plain
<1>5. QED BY <1>2, <1>3, <1>4 DEF FieldsComeBack, fields, plain, CookieOf

\* A piece of a text, k characters behind the first o.
IsCut(A, t, o, k, z) == z \in Seq(A) /\ Len(z) = k /\ \A i \in 1..k : z[i] = t[o + i]

\* SubSeq cuts it out.
LEMMA SubSeqIsCut ==
  ASSUME NEW A, NEW t \in Seq(A), NEW o \in Nat, NEW k \in Nat, o + k <= Len(t),
         NEW from, from = o + 1, NEW to, to = o + k, NEW z, z = SubSeq(t, from, to)
  PROVE  IsCut(A, t, o, k, z)
<1>1. from \in Int /\ to \in Int /\ \A i \in from..to : t[i] \in A
  <2>1. \A i \in from..to : i \in 1..Len(t)
    OBVIOUS
  <2>2. QED BY <2>1
<1>2. /\ z \in Seq(A) /\ Len(z) = IF from <= to THEN (to - from) + 1 ELSE 0
      /\ \A i \in 1..((to - from) + 1) : z[i] = t[(from + i) - 1]
  BY <1>1, SubSeqProperties
<1>3. (IF from <= to THEN (to - from) + 1 ELSE 0) = k /\ (to - from) + 1 = k
  OBVIOUS
<1>4. \A i \in 1..k : (from + i) - 1 = o + i
  OBVIOUS
<1>5. QED BY <1>2, <1>3, <1>4 DEF IsCut

\* A text whose characters are those of a piece is that piece.
LEMMA CutIs ==
  ASSUME NEW A, NEW t \in Seq(A), NEW o \in Nat, NEW k \in Nat, o + k <= Len(t),
         NEW from, from = o + 1, NEW to, to = o + k,
         NEW s \in Seq(A), Len(s) = k, \A i \in 1..k : s[i] = t[o + i]
  PROVE  SubSeq(t, from, to) = s
<1> DEFINE z == SubSeq(t, from, to)
<1>1. z = SubSeq(t, from, to)
  OBVIOUS
<1> HIDE DEF z
<1>2. IsCut(A, t, o, k, z)
  BY <1>1, SubSeqIsCut
<1>3. z \in Seq(A) /\ Len(z) = Len(s) /\ \A i \in 1..Len(s) : z[i] = s[i]
  BY <1>2 DEF IsCut
<1>4. z = s
  BY <1>3, SeqEqual
<1>5. QED BY <1>1, <1>4

\* What First finds: a position of the character, and none before it.
LEMMA FirstFound ==
  ASSUME NEW A, NEW t \in Seq(A), NEW from \in Nat \ {0}, NEW c,
         NEW j \in from..Len(t), t[j] = c
  PROVE  LET i == First(t, from, c)
         IN i \in from..Len(t) /\ i <= j /\ t[i] = c /\ \A k \in from..(i - 1) : t[k] # c
<1> DEFINE S == {i \in from..Len(t) : t[i] = c}
<1>1. j \in S /\ S \subseteq Nat
  OBVIOUS
<1>2. First(t, from, c) = Min(S)
  <2>1. S # {}
    BY <1>1
  <2>2. QED BY <2>1 DEF First, SelectInSubSeq
<1>3. PICK i \in S : \A k \in S : i <= k
  BY <1>1, LeastNumber
<1>4. Min(S) = i
  BY <1>1, <1>3 DEF Min
<1>5. i \in from..Len(t) /\ t[i] = c /\ i <= j
  BY <1>1, <1>3
<1>6. \A k \in from..(i - 1) : t[k] # c
  <2>1. ASSUME NEW k \in from..(i - 1), t[k] = c PROVE FALSE
    <3>1. k \in S /\ ~(i <= k)
      BY <1>5, <2>1
    <3>2. QED BY <1>3, <3>1
  <2>2. QED BY <2>1
<1>7. QED BY <1>2, <1>4, <1>5, <1>6

\* A target that holds a space makes a request exactly when what follows the
\* first one reads as a version.
LEMMA TargetWithSpaceRead == ASSUME NEW A, text \in Seq(A), Has(SP) PROVE TargetsComeBack
<1> DEFINE B == A \cup Nat
           n == Len(text)
           line == <<71, SP>> \o text \o <<SP>> \o HTTP \o <<Slash, 49, CR>>
           p == First(text, 1, SP)
           next == Rest(text, p + 1)
           version == HTTP \o <<Slash>>
           end == First(line, p + 3, Slash)
<1>1. text \in Seq(B) /\ n \in Nat /\ HTTP \in Seq(B)
  BY DEF HTTP
<1>2. IsTargetLine(B, line)
  BY TargetLine
<1>3. p \in 1..n /\ text[p] = 32 /\ \A k \in 1..(p - 1) : text[k] # 32
  <2>1. PICK j \in 1..n : text[j] = SP
    BY <1>1 DEF Has, ToSet
  <2> DEFINE one == 1
  <2>2. one \in Nat \ {0} /\ j \in one..n
    OBVIOUS
  <2> HIDE DEF one
  <2>3. /\ First(text, one, SP) \in one..n /\ text[First(text, one, SP)] = SP
        /\ \A k \in one..(First(text, one, SP) - 1) : text[k] # SP
    BY <1>1, <2>1, <2>2, FirstFound
  <2>4. QED BY <2>3 DEF one, SP
<1>4. version \in Seq(B) /\ Len(version) = 5 /\ version[5] = 47 /\ \A i \in 1..4 : version[i] = HTTP[i]
  <2> DEFINE s == <<Slash>>
  <2>1. s \in Seq(B) /\ Len(s) = 1 /\ s[1] = 47 /\ Len(HTTP) = 4
    BY DEF Slash, HTTP
  <2> HIDE DEF s
  <2>2. /\ HTTP \o s \in Seq(B) /\ Len(HTTP \o s) = 5
        /\ (HTTP \o s)[4 + 1] = s[1] /\ \A i \in 1..4 : (HTTP \o s)[i] = HTTP[i]
    <3> DEFINE z == HTTP \o s
    <3>1. z = HTTP \o s
      OBVIOUS
    <3> HIDE DEF z
    <3>2. IsJoin(B, HTTP, s, z)
      BY <1>1, <2>1, <3>1, Joined
    <3>3. z \in Seq(B) /\ Len(z) = 5 /\ z[4 + 1] = s[1] /\ \A i \in 1..4 : z[i] = HTTP[i]
      BY <2>1, <3>2 DEF IsJoin
    <3>4. QED BY <3>3 DEF z
  <2>3. QED BY <2>1, <2>2 DEF s
<1>5. \A i \in 1..4 : HTTP[i] # 47 /\ HTTP[i] # 32
  BY DEF HTTP
<1> HIDE DEF B, line, p, version
<1>6. /\ line \in Seq(B) /\ Len(line) = n + 10 /\ line[1] = 71 /\ line[2] = 32
      /\ \A i \in 1..n : line[2 + i] = text[i]
      /\ line[n + 3] = 32 /\ line[n + 8] = 47
      /\ \A i \in 1..4 : line[n + 3 + i] = HTTP[i]
  BY <1>2 DEF IsTargetLine
<1>7. next \in Seq(B) /\ Len(next) = n - p /\ \A i \in 1..(n - p) : next[i] = text[p + i]
  <2> DEFINE k == n - p
             from == p + 1
  <2>1. p \in Nat /\ k \in Nat /\ p + k = n
    BY <1>1, <1>3
  <2>2. next = SubSeq(text, from, n) /\ from = p + 1 /\ n = p + k /\ n <= Len(text)
    BY <2>1 DEF Rest
  <2> HIDE DEF next, k, from, n
  <2>3. IsCut(B, text, p, k, next)
    BY <1>1, <2>1, <2>2, SubSeqIsCut
  <2>4. QED BY <2>3 DEF IsCut, k
<1> HIDE DEF n
<1>8. First(line, 1, SP) = 2
  <2>1. 2 \in 1..Len(line) /\ line[2] = SP /\ \A j \in 1..(2 - 1) : line[j] # SP
    BY <1>1, <1>6 DEF SP
  <2>2. 1 \in Nat \ {0} /\ line \in Seq(B)
    BY <1>6
  <2>3. QED BY <2>1, <2>2, FirstIs
<1>9. First(line, 3, SP) = p + 2
  <2> DEFINE i == p + 2
             from == 3
  <2>1. i \in from..Len(line) /\ line[i] = SP /\ from \in Nat \ {0}
    <3>1. 2 + p = i
      BY <1>1, <1>3
    <3>2. QED BY <1>1, <1>3, <1>6, <3>1 DEF SP
  <2>2. \A j \in from..(i - 1) : line[j] # SP
    <3>1. ASSUME NEW j \in from..(i - 1) PROVE line[j] # SP
      <4>1. j - 2 \in 1..(p - 1) /\ j - 2 \in 1..n /\ 2 + (j - 2) = j
        BY <1>1, <1>3
      <4>2. QED BY <1>3, <1>6, <4>1 DEF SP
    <3>2. QED BY <3>1
  <2> HIDE DEF i, from
  <2>3. First(line, from, SP) = i
    BY <1>6, <2>1, <2>2, FirstIs, SMTT(40)
  <2>4. QED BY <2>3 DEF i, from
<1>10. /\ end \in (p + 3)..(n + 8) /\ line[end] = 47
       /\ \A k \in (p + 3)..(end - 1) : line[k] # 47
  <2> DEFINE from == p + 3
             j == n + 8
  <2>1. from \in Nat \ {0} /\ j \in from..Len(line) /\ line[j] = Slash /\ line \in Seq(B)
    BY <1>1, <1>3, <1>6 DEF Slash
  <2> HIDE DEF from, j
  <2>2. /\ First(line, from, Slash) \in from..Len(line) /\ First(line, from, Slash) <= j
        /\ line[First(line, from, Slash)] = Slash
        /\ \A k \in from..(First(line, from, Slash) - 1) : line[k] # Slash
    BY <2>1, FirstFound
  <2> DEFINE i == First(line, from, Slash)
  <2>3. i \in from..Len(line) /\ i <= j /\ line[i] = Slash /\ \A k \in from..(i - 1) : line[k] # Slash
    BY <2>2
  <2>4. end = i
    BY DEF from
  <2> HIDE DEF i, end
  <2>5. QED BY <1>1, <1>3, <1>6, <2>3, <2>4 DEF from, j, Slash
<1> HIDE DEF end, next
<1> DEFINE found == SubSeq(line, p + 3, end - 1)
<1>11. found = HTTP => IsPrefix(version, next)
  <2>1. SUFFICES ASSUME found = HTTP PROVE IsPrefix(version, next)
    OBVIOUS
  <2>2. end = p + 7 /\ \A i \in 1..4 : line[p + 2 + i] = HTTP[i]
    <3> DEFINE from == p + 3
               to == end - 1
    <3>1. from \in 1..(n + 10) /\ to \in (from - 1)..(n + 10) /\ to - from + 1 = end - from /\ end - from \in Nat
      BY <1>1, <1>3, <1>10
    <3>2. found = SubSeq(line, from, to)
      OBVIOUS
    <3> HIDE DEF found, from, to
    <3>3. Len(found) = (IF from <= to THEN to - from + 1 ELSE 0)
          /\ \A i \in 1..((to - from) + 1) : found[i] = line[(from + i) - 1]
      BY <1>6, <3>1, <3>2, SubSeqProperties
    <3>4. Len(HTTP) = 4
      BY DEF HTTP
    <3>5. (IF from <= to THEN to - from + 1 ELSE 0) = end - from
      BY <3>1 DEF from, to
    <3>6. end - from = 4
      BY <2>1, <3>3, <3>4, <3>5
    <3>7. end = p + 7
      BY <1>1, <1>3, <1>10, <3>6 DEF from
    <3>8. (to - from) + 1 = 4 /\ \A i \in 1..4 : (from + i) - 1 = p + 2 + i
      BY <1>1, <1>3, <3>7 DEF from, to
    <3>9. QED BY <2>1, <3>3, <3>7, <3>8
  <2>3. p + 7 <= n + 2
    <3>1. SUFFICES ASSUME p + 7 >= n + 3 PROVE FALSE
      BY <1>1, <1>3
    <3>2. CASE n + 3 = p + 7
      BY <1>6, <1>10, <2>2, <3>2
    <3>3. CASE n + 3 # p + 7
      <4> DEFINE i == (n + 3) - (p + 2)
      <4>1. i \in 1..4 /\ p + 2 + i = n + 3
        BY <1>1, <1>3, <3>1, <3>3
      <4> HIDE DEF i
      <4>2. line[p + 2 + i] = HTTP[i]
        BY <2>2, <4>1
      <4>3. QED BY <1>5, <1>6, <4>1, <4>2
    <3>4. QED BY <3>2, <3>3
  <2>4. \A i \in 1..4 : next[i] = HTTP[i]
    <3>1. ASSUME NEW i \in 1..4 PROVE next[i] = HTTP[i]
      <4>1. i \in 1..(n - p) /\ p + i \in 1..n /\ 2 + (p + i) = p + 2 + i
        BY <1>1, <1>3, <2>3
      <4>2. next[i] = text[p + i] /\ line[p + 2 + i] = text[p + i]
        BY <1>6, <1>7, <4>1
      <4>3. QED BY <2>2, <4>2
    <3>2. QED BY <3>1
  <2>5. next[5] = 47
    <3>1. 5 \in 1..(n - p) /\ p + 5 \in 1..n /\ 2 + (p + 5) = p + 7
      BY <1>1, <1>3, <2>3
    <3>2. QED BY <1>6, <1>7, <1>10, <2>2, <3>1, SMTT(40)
  <2>6. Len(version) <= Len(next)
    BY <1>1, <1>3, <1>4, <1>7, <2>3
  <2>7. SubSeq(next, 1, Len(version)) = version
    <3> DEFINE one == 1
    <3>1. \A i \in 1..5 : version[i] = next[i]
      BY <1>4, <2>4, <2>5
    <3>2. one \in 1..(Len(next) + 1) /\ (one + Len(version)) - 1 = Len(version)
          /\ \A i \in 1..5 : (one + i) - 1 = i
      BY <1>1, <1>3, <1>4, <1>7
    <3> HIDE DEF one
    <3>3. \A i \in 1..Len(version) : version[i] = next[(one + i) - 1]
      BY <1>4, <3>1, <3>2
    <3>4. SubSeq(next, one, (one + Len(version)) - 1) = version
      BY <1>4, <1>7, <2>6, <3>2, <3>3, PieceIs
    <3>5. QED BY <3>2, <3>4 DEF one
  <2>8. SubSeq(version, 1, Len(version)) = version
    BY <1>4, SubSeqFull
  <2>9. QED BY <2>6, <2>7, <2>8 DEF IsPrefix
<1>12. IsPrefix(version, next) => found = HTTP
  <2>1. SUFFICES ASSUME IsPrefix(version, next) PROVE found = HTTP
    OBVIOUS
  <2>2. n - p >= 5 /\ SubSeq(version, 1, 5) = SubSeq(next, 1, 5)
    BY <1>1, <1>3, <1>4, <1>7, <2>1 DEF IsPrefix
  <2>3. \A i \in 1..5 : version[i] = next[i]
    <3> DEFINE s == SubSeq(version, 1, 5)
               t == SubSeq(next, 1, 5)
               one == 1
               five == 5
    <3>1. one \in 1..(Len(version) + 1) /\ five \in (one - 1)..Len(version)
          /\ five \in (one - 1)..Len(next) /\ one \in 1..(Len(next) + 1)
          /\ (five - one) + 1 = 5 /\ \A i \in 1..5 : (one + i) - 1 = i
      BY <1>1, <1>3, <1>4, <1>7, <2>2
    <3>2. s = SubSeq(version, one, five) /\ t = SubSeq(next, one, five)
      OBVIOUS
    <3> HIDE DEF s, t, one, five
    <3>3. \A i \in 1..((five - one) + 1) : s[i] = version[(one + i) - 1]
      BY <1>4, <3>1, <3>2, SubSeqProperties
    <3>4. \A i \in 1..((five - one) + 1) : t[i] = next[(one + i) - 1]
      BY <1>7, <3>1, <3>2, SubSeqProperties
    <3>5. s = t
      BY <2>2 DEF s, t
    <3>6. QED BY <3>1, <3>3, <3>4, <3>5
  <2>4. \A i \in 1..5 : line[p + 2 + i] = version[i]
    <3>1. ASSUME NEW i \in 1..5 PROVE line[p + 2 + i] = version[i]
      <4>1. i \in 1..(n - p) /\ p + i \in 1..n /\ 2 + (p + i) = p + 2 + i
        BY <1>1, <1>3, <2>2
      <4>2. QED BY <1>6, <1>7, <2>3, <4>1, SMTT(40)
    <3>2. QED BY <3>1
  <2>5. end = p + 7
    <3>1. line[p + 7] = 47
      <4>1. 5 \in 1..5 /\ p + 2 + 5 = p + 7
        BY <1>3
      <4>2. QED BY <1>4, <2>4, <4>1
    <3>2. \A k \in (p + 3)..(p + 6) : line[k] # 47
      <4>1. ASSUME NEW k \in (p + 3)..(p + 6) PROVE line[k] # 47
        <5> DEFINE i == k - (p + 2)
        <5>1. i \in 1..4 /\ i \in 1..5 /\ p + 2 + i = k
          BY <1>1, <1>3
        <5> HIDE DEF i
        <5>2. line[k] = HTTP[i]
          BY <1>4, <2>4, <5>1
        <5>3. QED BY <1>5, <5>1, <5>2
      <4>2. QED BY <4>1
    <3>3. ~(end < p + 7)
      BY <1>1, <1>3, <1>10, <3>2
    <3>4. ~(end > p + 7)
      BY <1>1, <1>3, <1>10, <3>1
    <3>5. QED BY <1>1, <1>3, <1>10, <3>3, <3>4
  <2>6. SubSeq(line, p + 3, end - 1) = HTTP
    <3> DEFINE from == p + 3
               to == end - 1
               o == p + 2
               k == 4
    <3>1. Len(HTTP) = k /\ k \in Nat
      BY DEF HTTP
    <3>2. /\ o \in Nat /\ from = o + 1 /\ to = o + k /\ o + k <= Len(line)
          /\ \A i \in 1..4 : i \in 1..5
      BY <1>1, <1>3, <1>6, <2>2, <2>5
    <3>3. \A i \in 1..k : HTTP[i] = line[o + i]
      BY <1>4, <2>4, <3>2
    <3> HIDE DEF from, to, o, k
    <3>4. SubSeq(line, from, to) = HTTP
      BY <1>1, <1>6, <3>1, <3>2, <3>3, CutIs
    <3>5. QED BY <3>4 DEF from, to
  <2>7. QED BY <2>6
<1>13. RequestParse(line).ok = (found = HTTP)
  <2> DEFINE method_end == First(line, 1, SP)
             path_end == First(line, method_end + 1, SP)
             quest == SelectLastInSubSeq(line, method_end + 1, path_end - 1, LAMBDA c : c = Question)
             protocol_end == First(line, path_end + 1, Slash)
             good == [ok |-> TRUE, method |-> SubSeq(line, 1, method_end - 1),
                      path |-> SubSeq(line, method_end + 1, (IF quest = 0 THEN path_end ELSE quest) - 1),
                      query |-> IF quest = 0 THEN <<>> ELSE SubSeq(line, quest + 1, path_end - 1),
                      version |-> SubSeq(line, protocol_end + 1, Len(line) - 1)]
  <2>1. 2 + 1 = 3 /\ (p + 2) + 1 = p + 3 /\ p + 2 # 0 /\ end # 0
    BY <1>3, <1>10
  <2>2. method_end = 2 /\ path_end = p + 2 /\ protocol_end = end
    BY <1>8, <1>9, <2>1 DEF end
  <2>3. RequestParse(line) =
          IF \/ method_end = 0 \/ path_end = 0 \/ protocol_end = 0
             \/ SubSeq(line, path_end + 1, protocol_end - 1) # HTTP
          THEN Wrong ELSE good
    BY DEF RequestParse
  <2>4. good.ok = TRUE /\ Wrong.ok = FALSE
    BY DEF Wrong
  <2>5. SubSeq(line, path_end + 1, protocol_end - 1) = found
    BY <2>1, <2>2
  <2> HIDE DEF method_end, path_end, protocol_end, good, found
  <2>6. RequestParse(line) = IF found # HTTP THEN Wrong ELSE good
    <3>1. method_end # 0 /\ path_end # 0 /\ protocol_end # 0
      BY <2>1, <2>2
    <3>2. QED BY <2>3, <2>5, <3>1
  <2>7. CASE found = HTTP
    BY <2>4, <2>6, <2>7
  <2>8. CASE found # HTTP
    BY <2>4, <2>6, <2>8
  <2>9. QED BY <2>7, <2>8
<1> HIDE DEF found
<1>14. RequestParse(line).ok = (Has(SP) => IsPrefix(version, next))
  BY <1>11, <1>12, <1>13
<1>15. QED BY <1>14 DEF TargetsComeBack, line, version, next, p

-----------------------------------------------------------------------------
(* lists of a playlist *)

\* A line begins behind the pieces ps; the text ends with one more piece.
BeginsLine(A, h, p, ps) == ps \in Seq(Seq(A)) /\ h[p] = Append(ps, <<>>)
HoldsRest(t, sep, u, s) ==
  /\ u \in Nat /\ s # <<>> /\ Len(t) = u + Len(s)
  /\ \A j \in 1..Len(s) : t[u + j] = s[j] /\ s[j] # sep

\* LineTaken, and where the next line begins.
LEMMA LineOn ==
  ASSUME NEW A, NEW t \in Seq(A), NEW sep, NEW h, PiecesRead(A, t, sep, h),
         NEW ps, NEW p, BeginsLine(A, h, p, ps), NEW s \in Seq(A), HoldsLine(t, sep, p, s),
         NEW q, q = p + Len(s) + 1, NEW qs, qs = Append(ps, s)
  PROVE  BeginsLine(A, h, q, qs)
<1> DEFINE B == Seq(A)
<1>1. ps \in Seq(B) /\ s \in B /\ h[p] = Append(ps, <<>>)
  BY DEF BeginsLine
<1>2. h[p + Len(s) + 1] = Append(Append(ps, s), <<>>)
  BY <1>1, LineTaken
<1> HIDE DEF B
<1>3. qs \in Seq(B)
  BY <1>1, AppendProperties
<1>4. QED BY <1>2, <1>3 DEF BeginsLine, B

\* The last piece, which no separator ends.
LEMMA RestOn ==
  ASSUME NEW A, NEW t \in Seq(A), NEW sep, NEW h, PiecesRead(A, t, sep, h),
         NEW ps, NEW p, BeginsLine(A, h, p, ps), NEW s \in Seq(A), HoldsRest(t, sep, p, s)
  PROVE  Pieces(t, sep) = Append(ps, s)
<1> DEFINE B == Seq(A)
<1>1. ps \in Seq(B) /\ s \in B /\ h[p] = Append(ps, <<>>)
  BY DEF BeginsLine
<1>2. /\ p \in Nat /\ p + Len(s) <= Len(t) /\ p + Len(s) = Len(t) /\ s # <<>>
      /\ \A j \in 1..Len(s) : t[p + j] = s[j] /\ s[j] # sep
  BY DEF HoldsRest
<1>3. h[p + Len(s)] = Append(ps, s)
  <2>1. HoldsPiece(t, sep, p, s)
    BY <1>2 DEF HoldsPiece
  <2>2. h[p] = Append(ps, <<>>) /\ ps \in Seq(Seq(A))
    BY <1>1
  <2>3. QED BY <2>1, <2>2, PieceTaken
<1>4. h[Len(t)] = Append(ps, s)
  BY <1>2, <1>3
<1> HIDE DEF B
<1>5. Last(Append(ps, s)) = s
  BY <1>1, LastAppended
<1>6. QED BY <1>2, <1>4, <1>5 DEF PiecesRead

\* BuildListOf on one line: without its leading blanks, and whether it is kept.
Trimmed(l) == LET b == SelectInSeq(l, LAMBDA c : c \notin Blank)
              IN IF b = 0 THEN <<>> ELSE Rest(l, b)
KeptOf(l) == IF l # <<>> /\ Head(l) # Sharp THEN <<l>> ELSE <<>>

\* A line begins at its first character that is no blank.
LEMMA TrimmedAt ==
  ASSUME NEW A, NEW l \in Seq(A), NEW b \in 1..Len(l), l[b] \notin Blank,
         \A j \in 1..(b - 1) : l[j] \in Blank
  PROVE  Trimmed(l) = SubSeq(l, b, Len(l))
<1> DEFINE S == {i \in 1..Len(l) : l[i] \notin Blank}
           first == SelectInSeq(l, LAMBDA c : c \notin Blank)
<1>1. b \in S /\ \A j \in S : b <= j
  OBVIOUS
<1>2. \A x \in S : (\A y \in S : x <= y) => x = b
  BY <1>1
<1>3. Min(S) = b
  BY <1>1, <1>2 DEF Min
<1>4. first = IF S # {} THEN Min(S) ELSE 0
  BY DEF SelectInSeq
<1>5. Trimmed(l) = IF first = 0 THEN <<>> ELSE SubSeq(l, first, Len(l))
  BY DEF Trimmed, Rest
<1> HIDE DEF S, first
<1>6. first = b /\ b # 0
  BY <1>1, <1>3, <1>4
<1>7. QED BY <1>5, <1>6

\* A list of a comment, an empty line and two items, the first behind a blank.
IsListText(B, t, v) ==
  LET m == Len(v)
  IN /\ t \in Seq(B) /\ Len(t) = m + m + 5
     /\ t[1] = Sharp /\ t[2] = LF /\ t[3] = LF /\ t[4] = SP
     /\ \A j \in 1..m : t[4 + j] = v[j]
     /\ t[m + 5] = LF /\ \A j \in 1..m : t[m + 5 + j] = v[j]

\* Its characters, place by place.
LEMMA ListTextIs ==
  ASSUME NEW B, Octets \subseteq B, NEW v \in Seq(B)
  PROVE  IsListText(B, <<Sharp, LF, LF, SP>> \o v \o <<LF>> \o v, v)
<1> DEFINE m == Len(v)
           x == <<Sharp, LF, LF, SP>>
           y == <<LF>>
           s1 == x \o v
           s2 == s1 \o y
           s3 == s2 \o v
           four == 4
           one == 1
           d == m + 4
           e == m + 5
<1>1. Sharp \in B /\ LF \in B /\ SP \in B
  BY DEF Octets, Sharp, LF, SP
<1>2. /\ x \in Seq(B) /\ Len(x) = four /\ x[1] = Sharp /\ x[2] = LF /\ x[3] = LF /\ x[4] = SP
      /\ y \in Seq(B) /\ Len(y) = one /\ y[1] = LF
  BY <1>1
<1>3. /\ m \in Nat /\ Len(v) = m /\ four + m = d /\ d + one = e /\ d \in Nat /\ e \in Nat
      /\ s1 = x \o v /\ s2 = s1 \o y /\ s3 = s2 \o v
  OBVIOUS
<1> HIDE DEF m, x, y, s1, s2, s3, four, one, d, e
<1>4. IsPutBehind(B, x, four, v, m, s1)
  BY <1>2, <1>3, PutBehind
<1>5. s1 \in Seq(B) /\ Len(s1) = d
  BY <1>3, <1>4 DEF IsPutBehind
<1>6. IsPutBehind(B, s1, d, y, one, s2)
  BY <1>2, <1>3, <1>5, PutBehind
<1>7. s2 \in Seq(B) /\ Len(s2) = e
  BY <1>3, <1>6 DEF IsPutBehind
<1>8. IsPutBehind(B, s2, e, v, m, s3)
  BY <1>3, <1>7, PutBehind
<1>9. s3 \in Seq(B) /\ Len(s3) = m + m + 5 /\ \A j \in 1..m : s3[m + 5 + j] = v[j]
  BY <1>3, <1>8 DEF IsPutBehind, e
<1>10. s3[m + 5] = LF
  <2>1. s3[e] = s2[e]
    BY <1>3, <1>8 DEF IsPutBehind, e
  <2>2. s2[d + 1] = y[1]
    <3>1. \A i \in 1..one : s2[d + i] = y[i]
      BY <1>6 DEF IsPutBehind
    <3>2. 1 \in 1..one
      BY DEF one
    <3>3. QED BY <3>1, <3>2
  <2>3. d + 1 = e
    BY <1>3 DEF one
  <2>4. QED BY <1>2, <2>1, <2>2, <2>3 DEF e
<1>11. \A i \in 1..d : s3[i] = s1[i]
  <2>1. \A i \in 1..d : i \in 1..e
    BY <1>3 DEF d, e
  <2>2. \A i \in 1..e : s3[i] = s2[i]
    BY <1>8 DEF IsPutBehind
  <2>3. \A i \in 1..d : s2[i] = s1[i]
    BY <1>6 DEF IsPutBehind
  <2>4. QED BY <2>1, <2>2, <2>3
<1>12. s3[1] = Sharp /\ s3[2] = LF /\ s3[3] = LF /\ s3[4] = SP
  <2>1. 1 \in 1..d /\ 2 \in 1..d /\ 3 \in 1..d /\ 4 \in 1..d
    BY <1>3 DEF d
  <2>2. \A i \in 1..4 : s1[i] = x[i]
    BY <1>4 DEF IsPutBehind, four
  <2>3. QED BY <1>2, <1>11, <2>1, <2>2
<1>13. \A j \in 1..m : s3[4 + j] = v[j]
  <2>1. \A j \in 1..m : 4 + j \in 1..d
    BY <1>3 DEF d
  <2>2. \A j \in 1..m : s1[4 + j] = v[j]
    BY <1>4 DEF IsPutBehind, four
  <2>3. QED BY <1>11, <2>1, <2>2
<1>14. IsListText(B, s3, v)
  BY <1>9, <1>10, <1>12, <1>13 DEF IsListText, m
<1>15. QED BY <1>14 DEF s3, s2, s1, x, y

\* A comment and an empty line are skipped, and an item comes back with or
\* without a blank in front of it.
LEMMA ListComesBack ==
  ASSUME NEW v \in Seq(Octets), v # <<>>, \A j \in 1..Len(v) : v[j] # LF,
         Head(v) \notin Blank \cup {Sharp}
  PROVE  BuildListOf(<<Sharp, LF, LF, SP>> \o v \o <<LF>> \o v) = <<v, v>>
<1> DEFINE B == Octets
           S == Seq(B)
           t == <<Sharp, LF, LF, SP>> \o v \o <<LF>> \o v
           m == Len(v)
           l1 == <<Sharp>>
           l2 == <<>>
           b == <<SP>>
           l3 == b \o v
           q == 0 + Len(l1) + 1
           r == q + Len(l2) + 1
           u == r + Len(l3) + 1
<1>1. IsListText(B, t, v)
  BY ListTextIs
<1>2. /\ t \in Seq(B) /\ Len(t) = m + m + 5
      /\ t[1] = Sharp /\ t[2] = LF /\ t[3] = LF /\ t[4] = SP
      /\ \A j \in 1..m : t[4 + j] = v[j]
      /\ t[m + 5] = LF /\ \A j \in 1..m : t[m + 5 + j] = v[j]
  BY <1>1 DEF IsListText
<1>3. m \in Nat /\ m # 0 /\ v[1] \notin Blank /\ v[1] # Sharp /\ \A j \in 1..m : v[j] # LF
  OBVIOUS
<1>4. SP \in Blank /\ Sharp \notin Blank /\ Sharp # LF /\ SP # LF /\ Sharp \in B /\ SP \in B
  BY DEF SP, Sharp, LF, Blank, Octets
<1>5. /\ l1 \in Seq(B) /\ Len(l1) = 1 /\ l1[1] = Sharp /\ l2 \in Seq(B) /\ Len(l2) = 0
      /\ b \in Seq(B) /\ Len(b) = 1 /\ b[1] = SP
  BY <1>4
<1> HIDE DEF t, b, m
<1>6. l3 \in Seq(B) /\ Len(l3) = m + 1 /\ l3[1] = SP /\ \A j \in 1..m : l3[1 + j] = v[j]
  <2> DEFINE z == l3
  <2>1. z = b \o v
    OBVIOUS
  <2> HIDE DEF z
  <2>2. IsJoin(B, b, v, z)
    BY <1>5, <2>1, Joined
  <2>3. QED BY <1>5, <2>1, <2>2 DEF IsJoin, m
<1>7. v \in Seq(B) /\ Len(v) = m
  BY DEF m
<1> HIDE DEF B, l1, l2, l3
<1>8. q = 2 /\ r = 3 /\ u = m + 5
  BY <1>3, <1>5, <1>6
<1> HIDE DEF q, r, u
<1>9. HoldsLine(t, LF, 0, l1)
  BY <1>2, <1>3, <1>4, <1>5 DEF HoldsLine
<1>10. HoldsLine(t, LF, q, l2)
  BY <1>2, <1>3, <1>5, <1>8 DEF HoldsLine
<1>11. HoldsLine(t, LF, r, l3)
  <2>1. r \in Nat /\ r + Len(l3) + 1 = m + 5 /\ m + 5 <= Len(t)
    BY <1>2, <1>3, <1>6, <1>8
  <2>2. ASSUME NEW j \in 1..Len(l3) PROVE t[r + j] = l3[j] /\ l3[j] # LF
    <3>1. CASE j = 1
      <4>1. r + j = 4
        BY <1>8, <3>1
      <4>2. QED BY <1>2, <1>4, <1>6, <3>1, <4>1
    <3>2. CASE j # 1
      <4> DEFINE i == j - 1
      <4>1. i \in 1..m /\ 1 + i = j /\ r + j = 4 + i
        BY <1>3, <1>6, <1>8, <3>2
      <4> HIDE DEF i
      <4>2. QED BY <1>2, <1>3, <1>6, <4>1
    <3>3. QED BY <3>1, <3>2
  <2>3. QED BY <1>2, <2>1, <2>2 DEF HoldsLine
<1>12. HoldsRest(t, LF, u, v)
  BY <1>2, <1>3, <1>7, <1>8 DEF HoldsRest
<1> DEFINE ps == Append(Append(Append(Append(<<>>, l1), l2), l3), v)
<1>13. Pieces(t, LF) = ps
  <2> DEFINE ps0 == <<>>
             ps1 == Append(ps0, l1)
             ps2 == Append(ps1, l2)
             ps3 == Append(ps2, l3)
             p == 0
  <2>1. PICK h : PiecesRead(B, t, LF, h)
    BY <1>2, PiecesRun
  <2>2. /\ BeginsLine(B, h, p, ps0) /\ HoldsLine(t, LF, p, l1)
        /\ q = p + Len(l1) + 1 /\ r = q + Len(l2) + 1 /\ u = r + Len(l3) + 1
    BY <1>9, <2>1 DEF BeginsLine, PiecesRead, q, r, u
  <2>3. ps1 = Append(ps0, l1) /\ ps2 = Append(ps1, l2) /\ ps3 = Append(ps2, l3)
    OBVIOUS
  <2>4. t \in Seq(B) /\ l1 \in Seq(B) /\ l2 \in Seq(B) /\ l3 \in Seq(B) /\ v \in Seq(B)
    BY <1>2, <1>5, <1>6, <1>7
  <2> HIDE DEF p, ps0, ps1, ps2, ps3
  <2>5. BeginsLine(B, h, q, ps1)
    BY <2>1, <2>2, <2>3, <2>4, LineOn
  <2>6. BeginsLine(B, h, r, ps2)
    BY <1>10, <2>1, <2>2, <2>3, <2>4, <2>5, LineOn
  <2>7. BeginsLine(B, h, u, ps3)
    BY <1>11, <2>1, <2>2, <2>3, <2>4, <2>6, LineOn
  <2>8. Pieces(t, LF) = Append(ps3, v)
    BY <1>12, <2>1, <2>4, <2>7, RestOn
  <2>9. QED BY <2>8 DEF ps0, ps1, ps2, ps3
<1>14. /\ Len(ps) = 4 /\ ps[1] = l1 /\ ps[2] = l2 /\ ps[3] = l3 /\ ps[4] = v /\ DOMAIN ps = 1..4
  OBVIOUS
<1> HIDE DEF ps
<1>15. Trimmed(l1) = l1 /\ Trimmed(l2) = <<>> /\ Trimmed(l3) = v /\ Trimmed(v) = v
  <2>1. Trimmed(l1) = l1
    <3> DEFINE k == 1
    <3>1. k \in 1..Len(l1) /\ l1[k] \notin Blank /\ \A j \in 1..(k - 1) : l1[j] \in Blank
      BY <1>4, <1>5
    <3> HIDE DEF k
    <3>2. Trimmed(l1) = SubSeq(l1, k, Len(l1))
      BY <1>5, <3>1, TrimmedAt
    <3>3. QED BY <1>5, <3>2, SubSeqFull DEF k
  <2>2. Trimmed(l2) = <<>>
    BY <1>5 DEF Trimmed, SelectInSeq
  <2>3. Trimmed(l3) = v
    <3> DEFINE k == 2
               one == 1
    <3>1. 1 + 1 = 2 /\ 1 \in 1..m /\ l3[2] = v[1]
      <4>1. 1 + 1 = 2 /\ 1 \in 1..m
        BY <1>3
      <4>2. QED BY <1>6, <4>1
    <3>2. k \in 1..Len(l3) /\ l3[k] \notin Blank /\ \A j \in 1..(k - 1) : l3[j] \in Blank
      BY <1>3, <1>4, <1>6, <3>1
    <3>3. one \in Nat /\ one + m <= Len(l3) /\ k = one + 1 /\ Len(l3) = one + m
          /\ \A j \in 1..m : v[j] = l3[one + j]
      BY <1>3, <1>6
    <3> HIDE DEF k, one
    <3>4. Trimmed(l3) = SubSeq(l3, k, Len(l3))
      BY <1>6, <3>2, TrimmedAt
    <3>5. SubSeq(l3, k, Len(l3)) = v
      BY <1>3, <1>6, <1>7, <3>3, CutIs
    <3>6. QED BY <3>4, <3>5
  <2>4. Trimmed(v) = v
    <3> DEFINE k == 1
    <3>1. k \in 1..Len(v) /\ v[k] \notin Blank /\ \A j \in 1..(k - 1) : v[j] \in Blank
      BY <1>3, <1>7
    <3> HIDE DEF k
    <3>2. Trimmed(v) = SubSeq(v, k, Len(v))
      BY <1>7, <3>1, TrimmedAt
    <3>3. QED BY <1>7, <3>2, SubSeqFull DEF k
  <2>5. QED BY <2>1, <2>2, <2>3, <2>4
<1>16. KeptOf(l1) = <<>> /\ KeptOf(<<>>) = <<>> /\ KeptOf(v) = <<v>>
  <2>1. Head(l1) = Sharp
    BY DEF l1
  <2>2. QED BY <2>1 DEF KeptOf
<1> DEFINE ss == [i \in DOMAIN ps |-> KeptOf(Trimmed(ps[i]))]
           w == <<v>>
           none == <<>>
<1>17. BuildListOf(t) = FlattenSeq(ss)
  BY <1>13 DEF BuildListOf, KeptOf, Trimmed
<1>18. ss = [i \in 1..4 |-> IF i <= 2 THEN none ELSE w]
  <2>1. ASSUME NEW i \in 1..4 PROVE KeptOf(Trimmed(ps[i])) = IF i <= 2 THEN none ELSE w
    <3>1. i = 1 \/ i = 2 \/ i = 3 \/ i = 4
      OBVIOUS
    <3>2. QED BY <1>14, <1>15, <1>16, <3>1
  <2>2. QED BY <1>14, <2>1
<1> HIDE DEF ss
<1>19. w \in Seq(S) /\ none \in Seq(S)
  BY <1>7
<1> HIDE DEF w, none, S
<1>20. ss \in Seq(Seq(S)) /\ Len(ss) = 4 /\ ss[1] = none /\ ss[2] = none /\ ss[3] = w /\ ss[4] = w
  <2> DEFINE W == Seq(S)
  <2>1. w \in W /\ none \in W
    BY <1>19
  <2> HIDE DEF W
  <2>2. \A i \in 1..4 : (IF i <= 2 THEN none ELSE w) \in W
    BY <2>1
  <2>3. ss \in [1..4 -> W] /\ ss[1] = none /\ ss[2] = none /\ ss[3] = w /\ ss[4] = w
    BY <1>18, <2>2
  <2>4. ss \in Seq(W) /\ Len(ss) = 4
    BY <2>3
  <2>5. QED BY <2>3, <2>4 DEF W
<1>21. PICK g : IsConcat(S, ss, g) /\ FlattenSeq(ss) = g[Len(ss)]
  <2>1. PICK g \in [0..Len(ss) -> Seq(S)] :
          /\ g[0] = <<>> /\ \A k \in 1..Len(ss) : g[k] = g[k - 1] \o ss[k]
          /\ FlattenSeq(ss) = g[Len(ss)]
    BY <1>20, Flattened
  <2>2. QED BY <2>1 DEF IsConcat
<1>22. g[0] = none /\ g[1] = g[0] \o none /\ g[2] = g[1] \o none /\ g[3] = g[2] \o w /\ g[4] = g[3] \o w
  <2>1. \A k \in 1..4 : g[k] = g[k - 1] \o ss[k]
    BY <1>20, <1>21 DEF IsConcat
  <2>2. 1 - 1 = 0 /\ 2 - 1 = 1 /\ 3 - 1 = 2 /\ 4 - 1 = 3 /\ 1 \in 1..4 /\ 2 \in 1..4 /\ 3 \in 1..4 /\ 4 \in 1..4
    OBVIOUS
  <2>3. g[0] = none
    BY <1>21 DEF IsConcat, none
  <2>4. QED BY <1>20, <2>1, <2>2, <2>3
<1>23. none \o none = none /\ none \o w = w
  BY <1>19, ConcatEmptySeq DEF none
<1>24. g[4] = w \o w
  BY <1>22, <1>23
<1>25. w \o w = <<v, v>>
  BY <1>7, PairIs DEF w
<1>26. QED BY <1>17, <1>20, <1>21, <1>24, <1>25 DEF t

-----------------------------------------------------------------------------
(* parts of a URL *)

\* What the last of some pieces holds after one character more.
LEMMA LastSplit ==
  ASSUME NEW A, NEW ps \in Seq(Seq(A)) \ {<<>>}, NEW c \in A, NEW sep
  PROVE  /\ Last(ps) \in Seq(A)
         /\ c = sep => Last(Splits(ps, c, sep)) = <<>>
         /\ c # sep => Last(Splits(ps, c, sep)) = Append(Last(ps), c)
<1> DEFINE B == Seq(A)
           n == Len(ps)
           x == ps[n]
           y == Append(x, c)
           z == [ps EXCEPT ![n] = y]
           none == <<>>
<1>1. ps \in Seq(B) /\ n \in Nat /\ n \in 1..n /\ x \in B /\ Last(ps) = x /\ none \in B
  <2>1. ps # <<>> /\ ps \in Seq(B)
    OBVIOUS
  <2>2. n \in Nat /\ n # 0
    BY <2>1, EmptySeq
  <2>3. QED BY <2>1, <2>2 DEF Last
<1>2. y \in B
  BY <1>1, AppendProperties
<1>3. c = sep => Last(Splits(ps, c, sep)) = <<>>
  <2> HIDE DEF B, none
  <2>1. Last(Append(ps, none)) = none
    BY <1>1, LastAppended
  <2>2. QED BY <2>1 DEF Splits, none
<1>4. c # sep => Last(Splits(ps, c, sep)) = y
  <2>1. c # sep => Splits(ps, c, sep) = z
    BY DEF Splits
  <2> HIDE DEF n, x, y, B
  <2>2. z \in Seq(B) /\ Len(z) = Len(ps) /\ z[n] = y
    BY <1>1, <1>2, ExceptSeq DEF n
  <2>3. Last(z) = y
    BY <2>2 DEF Last, n
  <2> HIDE DEF z
  <2>4. QED BY <2>1, <2>3
<1>5. QED BY <1>1, <1>3, <1>4

\* The last piece of a text that ends with no separator is an end of the text.
LEMMA LastPiece ==
  ASSUME NEW A, NEW t \in Seq(A), NEW sep, t # <<>>, Last(t) # sep
  PROVE  \E o \in Nat : o < Len(t) /\ IsCut(A, t, o, Len(t) - o, Last(Pieces(t, sep)))
<1> DEFINE n == Len(t)
           Ends(k, o) == /\ o <= k /\ (k # 0 /\ t[k] # sep => o < k)
           B == Seq(A)
<1>1. n \in Nat /\ n # 0 /\ n \in 1..n /\ t[n] # sep /\ \A k \in 1..n : t[k] \in A
  BY DEF Last
<1>2. PICK h : PiecesRead(A, t, sep, h)
  BY PiecesRun
<1>3. /\ h \in [0..n -> Seq(B) \ {<<>>}] /\ h[0] = <<<<>>>>
      /\ \A k \in 1..n : h[k] = Splits(h[k - 1], t[k], sep)
      /\ Pieces(t, sep) = IF Last(h[n]) = <<>> THEN Front(h[n]) ELSE h[n]
  BY <1>2 DEF PiecesRead
<1> DEFINE last == [k \in 0..n |-> Last(h[k])]
           S == {k \in 0..n : \E o \in Nat : Ends(k, o) /\ IsCut(A, t, o, k - o, last[k])}
<1>4. 0 \in S
  <2> DEFINE o == 0
             x == <<>>
  <2>1. last[0] = x
    BY <1>1, <1>3 DEF Last
  <2>2. IsCut(A, t, o, 0 - o, x)
    BY DEF IsCut
  <2>3. o \in Nat /\ Ends(0, o)
    OBVIOUS
  <2> HIDE DEF o, x, last
  <2>4. QED BY <1>1, <2>1, <2>2, <2>3
<1>5. ASSUME NEW k \in 1..n, k - 1 \in S PROVE k \in S
  <2> DEFINE ps == h[k - 1]
             c == t[k]
  <2>1. ps \in Seq(B) \ {<<>>} /\ c \in A /\ h[k] = Splits(ps, c, sep) /\ k - 1 \in 0..n /\ k \in 0..n
    BY <1>1, <1>3
  <2>2. PICK o \in Nat : o <= k - 1 /\ IsCut(A, t, o, (k - 1) - o, last[k - 1])
    BY <1>5
  <2>3. last[k - 1] = Last(ps) /\ last[k] = Last(Splits(ps, c, sep))
    BY <2>1
  <2> HIDE DEF last, ps
  <2>4. CASE c = sep
    <3> DEFINE x == <<>>
    <3>1. last[k] = x
      BY <2>1, <2>3, <2>4, LastSplit
    <3>2. IsCut(A, t, k, k - k, x)
      BY DEF IsCut
    <3>3. k \in Nat /\ Ends(k, k)
      BY <2>4
    <3> HIDE DEF x
    <3>4. QED BY <2>1, <3>1, <3>2, <3>3
  <2>5. CASE c # sep
    <3> DEFINE x == Last(ps)
               y == Append(x, c)
               m == (k - 1) - o
    <3>1. last[k] = y /\ x \in Seq(A)
      BY <2>1, <2>3, <2>5, LastSplit
    <3>2. Len(x) = m /\ \A i \in 1..m : x[i] = t[o + i]
      BY <2>2, <2>3 DEF IsCut
    <3>3. m \in Nat /\ o + (m + 1) = k /\ k - o = m + 1
      BY <2>2
    <3> HIDE DEF x, m
    <3>4. y \in Seq(A) /\ Len(y) = m + 1 /\ y[m + 1] = c /\ \A i \in 1..m : y[i] = x[i]
      BY <2>1, <3>1, <3>2, AppendProperties
    <3>5. \A i \in 1..(m + 1) : y[i] = t[o + i]
      <4>1. \A i \in 1..(m + 1) : i = m + 1 \/ i \in 1..m
        BY <3>3
      <4> HIDE DEF y
      <4>2. t[o + (m + 1)] = c
        BY <3>3
      <4>3. QED BY <3>2, <3>4, <4>1, <4>2
    <3> HIDE DEF y
    <3>6. IsCut(A, t, o, k - o, y)
      BY <3>3, <3>4, <3>5 DEF IsCut
    <3>7. Ends(k, o)
      BY <2>2
    <3> HIDE DEF Ends
    <3>8. QED BY <2>1, <2>2, <3>1, <3>6, <3>7
  <2>6. QED BY <2>4, <2>5
<1>6. n \in S
  <2> HIDE DEF S
  <2>1. \A k \in 0..n : k \in S
    BY <1>1, <1>4, <1>5, UpTo
  <2>2. QED BY <1>1, <2>1
<1>7. PICK o \in Nat : Ends(n, o) /\ IsCut(A, t, o, n - o, last[n])
  BY <1>6
<1>8. o < n
  BY <1>1, <1>7
<1>9. last[n] # <<>>
  <2>1. Len(last[n]) = n - o /\ n - o # 0
    BY <1>1, <1>7, <1>8 DEF IsCut
  <2>2. QED BY <2>1
<1>10. Last(Pieces(t, sep)) = last[n]
  BY <1>1, <1>3, <1>9
<1> HIDE DEF last
<1>11. QED BY <1>7, <1>8, <1>10

\* Where CutOut finds the name.
FoundAt(url, main, i) == /\ i + Len(main) - 1 <= Len(url)
                         /\ \A j \in DOMAIN main : StandsFor(main[j], url[i + j - 1])

\* A name that ends the URL is taken out of it, when that is the one place it
\* is found at.
LEMMA NameCut ==
  ASSUME NEW A, NEW url \in Seq(A), NEW main \in Seq(A),
         NEW n \in Nat, n = Len(url), NEW m \in Nat \ {0}, m = Len(main),
         NEW q \in 1..n, q + m = n + 1, \A i \in 1..n : FoundAt(url, main, i) <=> i = q
  PROVE  CutOut(main, url) = SubSeq(url, 1, q - 1)
<1> DEFINE to == n + m + 1
           body(c, i) == IF i > n THEN <<>> ELSE IF i = q THEN c[i + m] ELSE <<url[i]>> \o c[i + 1]
           eq(c) == c = [i \in 1..to |-> IF i > Len(url) THEN <<>>
                                         ELSE IF main # <<>> /\ FoundAt(url, main, i) THEN c[i + Len(main)]
                                         ELSE <<url[i]>> \o c[i + 1]]
           cut == CHOOSE c : eq(c)
           none == <<>>
           g == [i \in 1..to |-> IF i < q THEN SubSeq(url, i, q - 1)
                                 ELSE IF i = q THEN none ELSE SubSeq(url, i, n)]
<1>0. CutOut(main, url) = cut[1]
  <2>1. to = Len(url) + Len(main) + 1
    OBVIOUS
  <2>2. QED BY <2>1 DEF CutOut, FoundAt
<1>1. n \in Nat /\ m \in Nat /\ q \in Nat /\ 1 <= q /\ q <= n /\ to \in Nat /\ n < to /\ main # <<>>
  OBVIOUS
<1>2. ASSUME NEW c, NEW i \in 1..to
      PROVE  (IF i > Len(url) THEN <<>>
              ELSE IF main # <<>> /\ FoundAt(url, main, i) THEN c[i + Len(main)] ELSE <<url[i]>> \o c[i + 1])
               = body(c, i)
  <2>1. ~(i > n) => (FoundAt(url, main, i) <=> i = q)
    BY <1>1
  <2>2. QED BY <1>1, <2>1
<1>3. \A i \in 1..n : g[i] = body(g, i)
  <2>1. ASSUME NEW i \in 1..n, i # q PROVE g[i] = <<url[i]>> \o g[i + 1]
    <3>1. i \in 1..to /\ i + 1 \in 1..to /\ i \in 1..Len(url)
      BY <1>1
    <3>2. CASE i < q
      <4> DEFINE e == q - 1
      <4>1. e \in i..Len(url) /\ e \in Int /\ i + 1 <= q
        BY <1>1, <3>2
      <4>2. SubSeq(url, i, e) = <<url[i]>> \o SubSeq(url, i + 1, e)
        BY <3>1, <4>1, SubSeqRecursiveFirst
      <4>3. g[i] = SubSeq(url, i, e)
        BY <3>1, <3>2
      <4>4. CASE i + 1 < q
        BY <3>1, <4>2, <4>3, <4>4
      <4>5. CASE i + 1 = q
        <5>1. SubSeq(url, i + 1, e) = none
          BY <4>1, <4>5, SubSeqEmpty
        <5>2. g[i + 1] = none
          BY <3>1, <4>5
        <5>3. QED BY <4>2, <4>3, <5>1, <5>2
      <4>6. QED BY <1>1, <4>1, <4>4, <4>5
    <3>3. CASE i > q
      <4>1. n \in i..Len(url) /\ ~(i < q) /\ ~(i + 1 < q) /\ i + 1 # q
        BY <1>1, <3>3
      <4>2. SubSeq(url, i, n) = <<url[i]>> \o SubSeq(url, i + 1, n)
        BY <3>1, <4>1, SubSeqRecursiveFirst
      <4>3. g[i] = SubSeq(url, i, n) /\ g[i + 1] = SubSeq(url, i + 1, n)
        BY <2>1, <3>1, <4>1
      <4>4. QED BY <4>2, <4>3
    <3>4. QED BY <1>1, <2>1, <3>2, <3>3
  <2>2. g[q] = none /\ g[q + m] = none
    <3>1. q \in 1..to /\ q + m \in 1..to /\ q + m > n /\ ~(q + m < q) /\ q + m # q
      BY <1>1
    <3>2. SubSeq(url, q + m, n) = none
      BY <1>1, <3>1, SubSeqEmpty
    <3>3. QED BY <3>1, <3>2
  <2> HIDE DEF g
  <2>3. \A i \in 1..n : ~(i > n)
    BY <1>1
  <2>4. QED BY <2>1, <2>2, <2>3
<1>4. \A i \in 1..to : g[i] = body(g, i)
  <2>1. ASSUME NEW i \in 1..to, i > n PROVE g[i] = none
    <3>1. SubSeq(url, i, n) = none
      BY <1>1, <2>1, SubSeqEmpty
    <3>2. QED BY <1>1, <2>1, <3>1
  <2>2. \A i \in 1..to : i > n \/ i \in 1..n
    BY <1>1
  <2> HIDE DEF g
  <2>3. QED BY <1>3, <2>1, <2>2
<1>5. eq(g)
  <2>1. g = [i \in 1..to |-> g[i]]
    OBVIOUS
  <2> HIDE DEF g, to
  <2>2. \A i \in 1..to : g[i] = IF i > Len(url) THEN <<>>
                                ELSE IF main # <<>> /\ FoundAt(url, main, i) THEN g[i + Len(main)]
                                ELSE <<url[i]>> \o g[i + 1]
    BY <1>2, <1>4
  <2>3. QED BY <2>1, <2>2
<1>6. eq(cut)
  <2> HIDE DEF eq, g
  <2>1. QED BY <1>5
<1> HIDE DEF g
<1>7. \A i \in 1..to : cut[i] = body(cut, i)
  <2>1. cut = [i \in 1..to |-> IF i > Len(url) THEN <<>>
                              ELSE IF main # <<>> /\ FoundAt(url, main, i) THEN cut[i + Len(main)]
                              ELSE <<url[i]>> \o cut[i + 1]]
    BY <1>6
  <2> HIDE DEF cut, to
  <2>2. \A i \in 1..to : cut[i] = IF i > Len(url) THEN <<>>
                                  ELSE IF main # <<>> /\ FoundAt(url, main, i) THEN cut[i + Len(main)]
                                  ELSE <<url[i]>> \o cut[i + 1]
    BY <2>1
  <2>3. QED BY <1>2, <2>2
<1> HIDE DEF eq, cut
<1>8. cut[q] = none
  <2>1. q \in 1..to /\ q + m \in 1..to /\ q + m > n /\ ~(q > n)
    BY <1>1
  <2>2. QED BY <1>7, <2>1
<1> DEFINE S == {k \in 0..(q - 1) : cut[q - k] = SubSeq(url, q - k, q - 1)}
<1>9. 0 \in S
  <2>1. SubSeq(url, q, q - 1) = none
    BY <1>1, SubSeqEmpty
  <2>2. q - 0 = q /\ 0 \in 0..(q - 1)
    BY <1>1
  <2>3. QED BY <1>8, <2>1, <2>2
<1>10. ASSUME NEW k \in 1..(q - 1), k - 1 \in S PROVE k \in S
  <2> DEFINE i == q - k
             e == q - 1
  <2>1. i \in 1..to /\ i + 1 = q - (k - 1) /\ i # q /\ ~(i > n) /\ i \in 1..Len(url) /\ e \in i..Len(url)
        /\ k \in 0..(q - 1)
    BY <1>1
  <2>2. cut[i] = <<url[i]>> \o cut[i + 1]
    BY <1>7, <2>1
  <2>3. cut[i + 1] = SubSeq(url, i + 1, e)
    BY <1>10, <2>1
  <2>4. SubSeq(url, i, e) = <<url[i]>> \o SubSeq(url, i + 1, e)
    BY <2>1, SubSeqRecursiveFirst
  <2>5. QED BY <2>1, <2>2, <2>3, <2>4
<1>11. \A k \in 0..(q - 1) : k \in S
  <2> DEFINE e == q - 1
  <2>1. e \in Nat
    BY <1>1
  <2> HIDE DEF S
  <2>2. \A k \in 1..e : k - 1 \in S => k \in S
    BY <1>10
  <2> HIDE DEF e
  <2>3. \A k \in 0..e : k \in S
    BY <1>9, <2>1, <2>2, UpTo
  <2>4. QED BY <2>3 DEF e
<1>12. q - 1 \in 0..(q - 1) /\ q - (q - 1) = 1
  BY <1>1
<1>13. QED BY <1>0, <1>11, <1>12

\* The places a name is found at in a URL.
PlacesOf(url, main) == {i \in 1..(Len(url) + 1 - Len(main)) :
                          \A j \in DOMAIN main : StandsFor(main[j], url[i + j - 1])}

\* The last part of a URL is what is cut off, when it is found once only.
LEMMA NameCutOff ==
  ASSUME NEW A, NEW url \in Seq(A), url # <<>>, Last(url) # Slash,
         NEW main, main = Last(Pieces(url, Slash)), Cardinality(PlacesOf(url, main)) = 1
  PROVE  CutOut(main, url) \o main = url
<1> DEFINE n == Len(url)
           m == Len(main)
           places == PlacesOf(url, main)
           base == CutOut(main, url)
<1>1. n \in Nat
  OBVIOUS
<1>2. PICK o \in Nat : o < n /\ IsCut(A, url, o, n - o, main)
  BY LastPiece
<1> DEFINE q == o + 1
<1>3. main \in Seq(A) /\ m = n - o /\ \A j \in 1..m : main[j] = url[o + j]
  BY <1>2 DEF IsCut
<1> HIDE DEF n
<1>4. m \in Nat \ {0} /\ q \in 1..n /\ q + m = n + 1 /\ DOMAIN main = 1..m
  BY <1>1, <1>2, <1>3
<1> HIDE DEF m
<1>5. places = {i \in 1..(n + 1 - m) : \A j \in 1..m : StandsFor(main[j], url[i + j - 1])}
  BY <1>4 DEF n, m, PlacesOf
<1> HIDE DEF places
<1>6. \A i \in 1..(n + 1 - m) : i \in places <=> \A j \in 1..m : StandsFor(main[j], url[i + j - 1])
  BY <1>5
<1>7. q \in places
  <2>1. q \in 1..(n + 1 - m)
    BY <1>1, <1>4
  <2>2. ASSUME NEW j \in 1..m PROVE StandsFor(main[j], url[q + j - 1])
    <3>1. q + j - 1 = o + j
      BY <1>2, <1>4
    <3>2. main[j] = url[q + j - 1]
      BY <1>3, <3>1
    <3> HIDE DEF q
    <3>3. QED BY <3>2 DEF StandsFor
  <2> HIDE DEF q
  <2>3. QED BY <1>6, <2>1, <2>2
<1>8. places = {q}
  <2> DEFINE k == n + 1 - m
  <2>1. places \subseteq 1..k
    BY <1>5
  <2>2. k \in Int
    BY <1>1, <1>4
  <2> HIDE DEF k
  <2>3. IsFiniteSet(1..k)
    <3> DEFINE one == 1
    <3>1. one \in Int
      OBVIOUS
    <3> HIDE DEF one
    <3>2. IsFiniteSet(one..k)
      BY <2>2, <3>1, FS_Interval
    <3>3. QED BY <3>2 DEF one
  <2>4. IsFiniteSet(places)
    BY <2>1, <2>3, FS_Subset
  <2>5. Cardinality(places) = 1
    BY DEF places
  <2>6. PICK y : places = {y}
    BY <2>4, <2>5, FS_Singleton
  <2> HIDE DEF q
  <2>7. QED BY <1>7, <2>6
<1> HIDE DEF q
<1>9. ASSUME NEW i \in 1..n PROVE FoundAt(url, main, i) <=> i = q
  <2>1. (i + m - 1 <= n) <=> i \in 1..(n + 1 - m)
    BY <1>1, <1>4
  <2>2. FoundAt(url, main, i) <=> /\ i + m - 1 <= n
                                  /\ \A j \in 1..m : StandsFor(main[j], url[i + j - 1])
    BY <1>4 DEF FoundAt, m, n
  <2>3. FoundAt(url, main, i) <=> i \in places
    BY <1>5, <2>1, <2>2
  <2>4. QED BY <1>8, <2>3
<1>10. base = SubSeq(url, 1, q - 1)
  <2>1. n = Len(url) /\ m = Len(main)
    BY DEF n, m
  <2>2. \A i \in 1..n : FoundAt(url, main, i) <=> i = q
    BY <1>9
  <2>3. n \in Nat /\ m \in Nat \ {0} /\ q \in 1..n /\ q + m = n + 1 /\ main \in Seq(A)
    BY <1>1, <1>3, <1>4
  <2> HIDE DEF base
  <2>4. CutOut(main, url) = SubSeq(url, 1, q - 1)
    BY <2>1, <2>2, <2>3, NameCut
  <2>5. QED BY <2>4 DEF base
<1>11. main = SubSeq(url, q, n)
  <2> DEFINE to == n
  <2>1. o \in Nat /\ m \in Nat /\ o + m <= Len(url) /\ q = o + 1 /\ to = o + m
    BY <1>1, <1>2, <1>3, <1>4 DEF n, q
  <2> HIDE DEF to
  <2>2. main \in Seq(A) /\ Len(main) = m /\ \A j \in 1..m : main[j] = url[o + j]
    BY <1>3 DEF m
  <2>3. SubSeq(url, q, to) = main
    BY <2>1, <2>2, CutIs
  <2>4. QED BY <2>3 DEF to
<1>12. SubSeq(url, 1, q - 1) \o SubSeq(url, q, n) = url
  <2> DEFINE one == 1
             k == q - 1
  <2>1. one \in 1..(Len(url) + 1) /\ k \in (one - 1)..Len(url) /\ n \in k..Len(url) /\ k + 1 = q
    BY <1>1, <1>4 DEF n
  <2> HIDE DEF one, k
  <2>2. SubSeq(url, one, k) \o SubSeq(url, k + 1, n) = SubSeq(url, one, n)
    BY <1>1, <2>1, ConcatAdjacentSubSeq
  <2>3. SubSeq(url, one, n) = url
    BY SubSeqFull DEF one, n
  <2>4. QED BY <2>1, <2>2, <2>3 DEF one, k
<1> HIDE DEF base
<1>13. base \o main = url
  BY <1>10, <1>11, <1>12
<1>14. QED BY <1>13 DEF base

\* A URL is its base and its name, when the name has no character special to
\* a regular expression but dots and is found in the URL once only.
LEMMA UrlComesBack ==
  ASSUME NEW v \in Seq(Octets), NEW url, url = <<104, Colon, Slash, Slash>> \o v,
         Last(url) # Slash, ToSet(Last(Pieces(url, Slash))) \cap Special = {},
         NEW info \in PlaylistInfo(url), info.ok, Cardinality(PlacesOf(url, info.main)) = 1
  PROVE  info.base \o info.main = url
<1> DEFINE A == Octets
           x == <<104, Colon, Slash, Slash>>
           items == Pieces(url, Slash)
           main == Last(items)
           root == items[Len(items) - 1]
           base == CutOut(main, url)
<1>1. url \in Seq(A) /\ url # <<>>
  <2>1. x \in Seq(A) /\ Len(x) = 4
    BY DEF Octets, Colon, Slash
  <2>2. url = x \o v /\ v \in Seq(A)
    OBVIOUS
  <2> HIDE DEF x, A
  <2>3. IsJoin(A, x, v, url)
    BY <2>1, <2>2, Joined
  <2>4. url \in Seq(A) /\ Len(url) = 4 + Len(v) /\ Len(v) \in Nat
    BY <2>1, <2>3 DEF IsJoin
  <2>5. QED BY <2>4
<1>2. info.main = main /\ info.base = base
  <2>1. ToSet(main) \cap Special = {}
    OBVIOUS
  <2>2. info \in IF Len(items) < 4 THEN {Wrong}
                 ELSE {[ok |-> TRUE, main |-> main, root |-> root, base |-> base]}
    BY <2>1 DEF PlaylistInfo
  <2> HIDE DEF main, root, base, items
  <2>3. Wrong.ok = FALSE /\ info.ok
    BY DEF Wrong
  <2>4. info = [ok |-> TRUE, main |-> main, root |-> root, base |-> base]
    BY <2>2, <2>3
  <2>5. QED BY <2>4
<1> HIDE DEF A
<1>3. main = Last(Pieces(url, Slash)) /\ Cardinality(PlacesOf(url, main)) = 1
  BY <1>2
<1> HIDE DEF main, items
<1>4. base \o main = url
  BY <1>1, <1>3, NameCutOff
<1>5. QED BY <1>2, <1>4

\* A playlist's URL and the items of a list come back.
LEMMA PlaylistPartsRead == ASSUME text \in Seq(Octets) PROVE PlaylistPartsComeBack
<1> DEFINE url == <<104, Colon, Slash, Slash>> \o text
           list == <<Sharp, LF, LF, SP>> \o text \o <<LF>> \o text
           named == Last(url) # Slash /\ ToSet(Last(Pieces(url, Slash))) \cap Special = {}
           places(main) == {i \in 1..(Len(url) + 1 - Len(main)) :
                              \A j \in DOMAIN main : StandsFor(main[j], url[i + j - 1])}
           item == text # <<>> /\ ~Has(LF) /\ Head(text) \notin Blank \cup {Sharp}
<1>1. ASSUME named, NEW info \in PlaylistInfo(url), info.ok, Cardinality(places(info.main)) = 1
      PROVE  info.base \o info.main = url
  <2> DEFINE z == url
  <2>1. z = <<104, Colon, Slash, Slash>> \o text
    OBVIOUS
  <2>2. /\ Last(z) # Slash /\ ToSet(Last(Pieces(z, Slash))) \cap Special = {}
        /\ info \in PlaylistInfo(z) /\ info.ok /\ Cardinality(PlacesOf(z, info.main)) = 1
    BY <1>1 DEF PlacesOf
  <2> HIDE DEF z
  <2>3. info.base \o info.main = z
    BY <2>1, <2>2, UrlComesBack
  <2>4. QED BY <2>3 DEF z
<1>2. ASSUME item PROVE BuildListOf(list) = <<text, text>>
  <2>1. \A j \in 1..Len(text) : text[j] # LF
    BY <1>2 DEF Has, ToSet
  <2>2. QED BY <1>2, <2>1, ListComesBack
<1>3. PlaylistPartsComeBack <=>
        /\ named => \A info \in PlaylistInfo(url) :
                      info.ok /\ Cardinality(places(info.main)) = 1 => info.base \o info.main = url
        /\ item => BuildListOf(list) = <<text, text>>
  BY DEF PlaylistPartsComeBack
<1> HIDE DEF named, places, item, url, list
<1>4. QED BY <1>1, <1>2, <1>3

-----------------------------------------------------------------------------
(* all of them *)

\* Every conversion is the inverse of the one that made its text.
LEMMA EveryTextComesBack ==
  ASSUME text \in Seq(Octets)
  PROVE  /\ Decode(Encode(text)) = text
         /\ FieldsComeBack /\ TargetsComeBack /\ StatusComesBack /\ PlaylistPartsComeBack
<1>1. Decode(Encode(text)) = text
  BY EncodedComesBack
<1>2. TargetsComeBack
  BY TargetRead, TargetWithSpaceRead
<1>3. QED BY <1>1, <1>2, FieldsRead, StatusRead, PlaylistPartsRead

=============================================================================
