---------------------------- MODULE TextParsers ----------------------------
(***************************************************************************)
(* The conversions: percent encoding, query strings, header fields and     *)
(* their attributes, first lines of messages, the end of a header as the   *)
(* client finds it, parts of a URL, lines of a playlist and the merging of *)
(* two lists.  Each is translated as it is written and compared with what  *)
(* it is the inverse of, or with what its text is split at.                *)
(***************************************************************************)
EXTENDS Integers, Sequences, SequencesExt

CONSTANTS Alphabets,   \* sets of characters the texts are made of
          MaxText      \* bound: characters of a text

ASSUME CharactersAreBytes == \A a \in Alphabets : a \subseteq 0..255

\* Characters are their codes.
LF == 10  CR == 13  SP == 32  Quote == 34  Sharp == 35  PercentSign == 37
Amp == 38 Plus == 43  Minus == 45 Slash == 47  Colon == 58  Semicolon == 59
Equals == 61  Question == 63

Digits == 48..57
Unreserved == Digits \cup 65..90 \cup 97..122 \cup {Minus, 46, 95, 126}
Blank == 9..13 \cup {SP}

VARIABLES alphabet, text,  \* what is typed so far, of which characters
          crlfcrlf, lflf, matched   \* HeaderEndMatch on it

textVars == <<alphabet, text, crlfcrlf, lflf, matched>>

-----------------------------------------------------------------------------
(* pieces of texts *)

First(t, from, c) == SelectInSubSeq(t, from, Len(t), LAMBDA x : x = c)
Rest(t, from) == SubSeq(t, from, Len(t))
Field(n, v) == [name |-> n, value |-> v]

\* std::getline over a stream: nothing after the last separator is no piece.
Pieces(t, sep) ==
  LET all == FoldLeft(LAMBDA ps, c : IF c = sep THEN Append(ps, <<>>)
                                     ELSE [ps EXCEPT ![Len(ps)] = Append(@, c)], <<<<>>>>, t)
  IN IF Last(all) = <<>> THEN Front(all) ELSE all

WithoutCR(t) == IF t # <<>> /\ Last(t) = CR THEN Front(t) ELSE t

-----------------------------------------------------------------------------
(* percent encoding *)

HexChar(d) == IF d < 10 THEN 48 + d ELSE 55 + d

Encode(v) ==
  FlattenSeq([i \in DOMAIN v |-> IF v[i] \in Unreserved THEN <<v[i]>>
                                 ELSE <<PercentSign, HexChar(v[i] \div 16), HexChar(v[i] % 16)>>])

HexValue(c) == IF c \in Digits THEN c - 48
               ELSE IF c \in 65..70 THEN c - 55 ELSE IF c \in 97..102 THEN c - 87 ELSE -1

\* strtol of two characters: blanks and a sign are taken, and what is no
\* digit ends the number.
Strtol(c, d) ==
  LET low == IF HexValue(d) < 0 THEN 0 ELSE HexValue(d)
  IN IF HexValue(c) >= 0 THEN IF HexValue(d) < 0 THEN HexValue(c) ELSE 16 * HexValue(c) + low
     ELSE IF c \in Blank \cup {Plus} THEN low
     ELSE IF c = Minus THEN (256 - low) % 256 ELSE 0

\* Slip: a code that ends the text is left as it is.
DecodeShort(v) ==
  LET from[i \in 1..(Len(v) + 1)] ==
        IF i > Len(v) THEN <<>>
        ELSE IF v[i] = PercentSign /\ i + 2 < Len(v)
             THEN <<Strtol(v[i + 1], v[i + 2])>> \o from[i + 3]
             ELSE <<IF v[i] = Plus THEN SP ELSE v[i]>> \o from[i + 1]
  IN from[1]

Decode(v) ==
  LET from[i \in 1..(Len(v) + 1)] ==
        IF i > Len(v) THEN <<>>
        ELSE IF v[i] = PercentSign /\ i + 2 <= Len(v)
             THEN <<Strtol(v[i + 1], v[i + 2])>> \o from[i + 3]
             ELSE <<IF v[i] = Plus THEN SP ELSE v[i]>> \o from[i + 1]
  IN from[1]

-----------------------------------------------------------------------------
(* query strings *)

\* Values are encoded, names are not.
QueryCreate(fields) ==
  LET one(f) == f.name \o <<Equals>> \o Encode(f.value)
  IN FlattenSeq([i \in DOMAIN fields |-> (IF i = 1 THEN <<>> ELSE <<Amp>>) \o one(fields[i])])

\* A name reaches to the last '=' of its field.
QueryParse(q) ==
  LET Closed(at, end) ==
        LET name == SubSeq(q, at.name_pos, (IF at.eq = 0 THEN end ELSE at.eq) - 1)
            value == IF at.eq = 0 THEN <<>> ELSE Decode(SubSeq(q, at.eq + 1, end - 1))
        IN IF name = <<>> THEN at.result ELSE Append(at.result, Field(name, value))
      Step(at, c) ==
        CASE q[c] = Amp -> [result |-> Closed(at, c), name_pos |-> c + 1, eq |-> 0]
          [] q[c] = Equals -> [at EXCEPT !.eq = c]
          [] OTHER -> at
      last == FoldLeft(Step, [result |-> <<>>, name_pos |-> 1, eq |-> 0], [c \in DOMAIN q |-> c])
  IN Closed(last, Len(q) + 1)

-----------------------------------------------------------------------------
(* header fields *)

\* Leading spaces of a value are dropped, but never its last character; a
\* field with nothing behind the colon is dropped, and a line without ends it.
HeaderParse(t) ==
  LET lines == Pieces(t, LF)
      ends == SelectInSeq(lines, LAMBDA l : Colon \notin ToSet(l))
      Parsed(l) ==
        LET colon == First(l, 1, Colon)
            start == CHOOSE s \in (colon + 1)..(Len(l) + 1) :
                       /\ \A i \in (colon + 1)..(s - 1) : l[i] = SP /\ i < Len(l)
                       /\ s >= Len(l) \/ l[s] # SP
        IN IF start > Len(l) THEN <<>>
           ELSE <<Field(SubSeq(l, 1, colon - 1), WithoutCR(Rest(l, start)))>>
      kept == IF ends = 0 THEN lines ELSE SubSeq(lines, 1, ends - 1)
  IN FlattenSeq([i \in DOMAIN kept |-> Parsed(kept[i])])

HeaderWrite(fields) ==
  FlattenSeq([i \in DOMAIN fields |-> fields[i].name \o <<Colon, SP>> \o fields[i].value \o <<CR, LF>>])

\* The attributes of Set-Cookie or Content-Disposition.  The character after
\* '=' begins the value, a separator too; at names what position is known.
AttributesParse(v) ==
  LET Start == [result |-> <<>>, name |-> 0, eq |-> 0, value |-> 0]
      Name(at) == SubSeq(v, at.name, at.eq - 1)
      Step(at, c) ==
        CASE at.name = 0 -> IF v[c] \in {SP, Semicolon} THEN at ELSE [at EXCEPT !.name = c]
          [] at.name # 0 /\ at.eq = 0 ->
               IF v[c] = Semicolon
               THEN [Start EXCEPT !.result = Append(at.result, Field(SubSeq(v, at.name, c - 1), <<>>))]
               ELSE IF v[c] = Equals THEN [at EXCEPT !.eq = c] ELSE at
          [] at.eq # 0 /\ at.value = 0 ->
               [at EXCEPT !.value = IF v[c] = Quote /\ c < Len(v) THEN c + 1 ELSE c]
          [] OTHER ->
               IF v[c] \in {Quote, Semicolon}
               THEN [Start EXCEPT !.result =
                       Append(at.result, Field(Name(at), Decode(SubSeq(v, at.value, c - 1))))]
               ELSE at
      last == FoldLeft(Step, Start, [c \in DOMAIN v |-> c])
  IN CASE last.name = 0 \/ (last.eq # 0 /\ last.value = 0) -> last.result
       [] last.name # 0 /\ last.eq = 0 -> Append(last.result, Field(Rest(v, last.name), <<>>))
       [] OTHER -> Append(last.result, Field(Name(last), Decode(Rest(v, last.value))))

-----------------------------------------------------------------------------
(* first lines *)

HTTP == <<72, 84, 84, 80>>
Wrong == [ok |-> FALSE]
Throws == [ok |-> FALSE, error |-> "regex_error"]

\* RequestMessage::parse on the first line: the query begins at the last '?'
\* that is not the end of the line, and a version loses its last character.
RequestParse(line) ==
  LET method_end == First(line, 1, SP)
      path_end == First(line, method_end + 1, SP)
      query == SelectLastInSubSeq(line, method_end + 1, path_end - 1, LAMBDA c : c = Question)
      protocol_end == First(line, path_end + 1, Slash)
  IN IF \/ method_end = 0 \/ path_end = 0 \/ protocol_end = 0
        \/ SubSeq(line, path_end + 1, protocol_end - 1) # HTTP
     THEN Wrong
     ELSE [ok |-> TRUE, method |-> SubSeq(line, 1, method_end - 1),
           path |-> SubSeq(line, method_end + 1, (IF query = 0 THEN path_end ELSE query) - 1),
           query |-> IF query = 0 THEN <<>> ELSE SubSeq(line, query + 1, path_end - 1),
           version |-> SubSeq(line, protocol_end + 1, Len(line) - 1)]

\* ResponseMessage::parse on it: what stands before the version is skipped.
ResponseParse(line) ==
  LET version_end == First(line, 1, SP)
  IN IF version_end = 0 \/ Len(line) <= 5 \/ version_end = Len(line) THEN Wrong
     ELSE [ok |-> TRUE,
           version |-> SubSeq(line, 6, IF version_end < 6 THEN Len(line) ELSE version_end - 1),
           status_code |-> WithoutCR(Rest(line, version_end + 1))]

-----------------------------------------------------------------------------
(* playlists and their URLs *)

\* buildList, and buildListFromStream: leading blanks are dropped, empty lines
\* and comments skipped, and a carriage return at the end stays.
BuildListOf(t) ==
  LET Trim(l) == LET b == SelectInSeq(l, LAMBDA c : c \notin Blank)
                 IN IF b = 0 THEN <<>> ELSE Rest(l, b)
      Kept(l) == IF l # <<>> /\ Head(l) # Sharp THEN <<l>> ELSE <<>>
  IN FlattenSeq([i \in DOMAIN Pieces(t, LF) |-> Kept(Trim(Pieces(t, LF)[i]))])

\* What a regular expression takes for more than the character it is, but the
\* dot, which stands for any character within a line.
Special == {36, 40, 41, 42, Plus, Question, 91, 92, 93, 94, 123, 124, 125}
StandsFor(c, d) == c = d \/ (c = 46 /\ d \notin {LF, CR})

\* The URL without what a name of such characters finds, from the left.
CutOut(main, url) ==
  LET Found(i) == /\ i + Len(main) - 1 <= Len(url)
                  /\ \A j \in DOMAIN main : StandsFor(main[j], url[i + j - 1])
      cut[i \in 1..(Len(url) + Len(main) + 1)] ==
        IF i > Len(url) THEN <<>>
        ELSE IF main # <<>> /\ Found(i) THEN cut[i + Len(main)] ELSE <<url[i]>> \o cut[i + 1]
  IN cut[1]

\* extractPlaylistInfo: the base is the URL with every match of the playlist's
\* name removed, taken for a regular expression.  With a special character in
\* the name, a '?' before a query say, it is left open what matches, and
\* whether the expression is one at all.
PlaylistInfo(url) ==
  LET items == Pieces(url, Slash)
      main == Last(items)
      Info(base) == [ok |-> TRUE, main |-> main, root |-> items[Len(items) - 1], base |-> base]
      Without(gone) == FlattenSeq([i \in DOMAIN url |-> IF i \in gone THEN <<>> ELSE <<url[i]>>])
  IN IF Len(items) < 4 THEN {Wrong}
     ELSE IF ToSet(main) \cap Special = {} THEN {Info(CutOut(main, url))}
     ELSE {Info(Without(gone)) : gone \in SUBSET DOMAIN url} \cup {Throws}

-----------------------------------------------------------------------------
(* merging two lists *)

\* quick_match: what is left of the old list, from the first of the new one
\* on, is overlaid with the new list.  When that list is longer the iterator
\* still names the old end: the next entry overwrites the one just appended,
\* if the vector had room, or is lost with the memory it is written to.
QuickMatch(old, new) ==
  LET found == IF new = <<>> THEN 0 ELSE First(old, 1, Head(new))
      kept == Rest(old, found)
      more == Rest(new, Len(kept) + 1)
      overlaid == [i \in DOMAIN kept |-> IF i <= Len(new) THEN new[i] ELSE kept[i]]
      Overwritten == SelectSeq([i \in DOMAIN more |-> <<i, more[i]>>],
                               LAMBDA e : e[1] % 2 = 0 \/ e[1] = Len(more))
  IN IF old = <<>> THEN {[latest |-> new, removed |-> <<>>]}
     ELSE IF new = <<>> THEN {[latest |-> old, removed |-> <<>>]}
     ELSE IF found = 0 THEN {[latest |-> new, removed |-> old]}
     ELSE LET Result(tail) == [latest |-> overlaid \o tail, removed |-> SubSeq(old, 1, found - 1)]
          IN IF Len(more) < 2 THEN {Result(more)}
             ELSE {Result(<<more[1]>>), Result([i \in DOMAIN Overwritten |-> Overwritten[i][2]])}

-----------------------------------------------------------------------------
(* the end of a header, character by character *)

TextInit ==
  /\ alphabet \in Alphabets /\ text = <<>>
  /\ crlfcrlf = 0 /\ lflf = 0 /\ matched = FALSE

\* HeaderEndMatch: a second carriage return in a row is forgotten like any
\* other character, so that one before the end of a header hides the end.
Type(c) ==
  /\ Len(text) < MaxText /\ ~matched
  /\ text' = Append(text, c)
  /\ crlfcrlf' = CASE c = LF -> IF crlfcrlf = 1 THEN 2 ELSE IF crlfcrlf = 2 THEN 0 ELSE crlfcrlf
                   [] c = CR -> IF crlfcrlf \in {0, 2} THEN crlfcrlf + 1 ELSE 0
                   [] OTHER -> 0
  /\ lflf' = IF c = LF THEN 1 ELSE 0
  /\ matched' = (c = LF /\ (crlfcrlf = 3 \/ lflf = 1))
  /\ UNCHANGED alphabet

TextNext == \E c \in alphabet : Type(c)

-----------------------------------------------------------------------------
(* Properties *)

Has(c) == c \in ToSet(text)
AName == <<97>>
BName == <<98>>

\* Nothing a value holds is lost or taken for a separator on the way through a
\* query string, a header or a cookie.
FieldsComeBack ==
  LET fields == <<Field(AName, text), Field(BName, text)>>
      plain == text # <<>> /\ ~Has(Semicolon) /\ ~Has(Quote)
  IN /\ QueryParse(QueryCreate(fields)) = fields
     /\ ~Has(LF) /\ (text # <<>> => Head(text) # SP) => HeaderParse(HeaderWrite(fields)) = fields
     /\ plain => AttributesParse(AName \o <<Equals>> \o text \o <<Semicolon, SP>> \o BName
                                 \o <<Equals, Quote>> \o Encode(text) \o <<Quote>>)
                   = <<Field(AName, Decode(text)), Field(BName, text)>>

\* Whatever the target of a request, it is told from its query and from the
\* version; a target that holds a space makes no request, unless what follows
\* the space reads as a version.
TargetsComeBack ==
  LET r == RequestParse(<<71, SP>> \o text \o <<SP>> \o HTTP \o <<Slash, 49, CR>>)
      next == Rest(text, First(text, 1, SP) + 1)
  IN ~Has(LF) =>
       /\ r.ok = (Has(SP) => IsPrefix(HTTP \o <<Slash>>, next))
       /\ ~Has(SP) => /\ r.method = <<71>> /\ r.version = <<49>>
                      /\ text = r.path \o (IF Has(Question) THEN <<Question>> \o r.query ELSE <<>>)
                      /\ Question \notin ToSet(r.query)

\* A status comes back whole, whatever follows the code.
StatusComesBack ==
  ~Has(LF) => LET r == ResponseParse(HTTP \o <<Slash, 49, SP>> \o text \o <<CR>>)
              IN r.ok /\ r.version = <<49>> /\ r.status_code = text

\* The client finds the end of a header where a blank line ends it, by lines
\* of either kind, unless a line has a carriage return too many.
HeaderEndFound ==
  (~\E i \in 1..(Len(text) - 1) : text[i] = CR /\ text[i + 1] = CR) =>
    (matched <=> IsSuffix(<<LF, LF>>, text) \/ IsSuffix(<<CR, LF, CR, LF>>, text))

\* A playlist's URL is its base and its name, when the name has no character
\* special to a regular expression but dots and is found in it once only; an
\* item of the list comes back unless a line says otherwise.
PlaylistPartsComeBack ==
  LET url == <<104, Colon, Slash, Slash>> \o text
      Places(main) == {i \in 1..(Len(url) + 1 - Len(main)) :
                         \A j \in DOMAIN main : StandsFor(main[j], url[i + j - 1])}
      item == text # <<>> /\ ~Has(LF) /\ Head(text) \notin Blank \cup {Sharp}
      named == Last(url) # Slash /\ ToSet(Last(Pieces(url, Slash))) \cap Special = {}
  IN /\ named => \A info \in PlaylistInfo(url) :
                   info.ok /\ Cardinality(Places(info.main)) = 1 => info.base \o info.main = url
     /\ item => BuildListOf(<<Sharp, LF, LF, SP>> \o text \o <<LF>> \o text) = <<text, text>>

\* Merging a window with one that slid on by any number of entries gives the
\* new window and what left the old one, as long as one entry came at most.
Window(a, b) == [i \in 1..(b - a) |-> a + i]
WindowMerges(from, size, gone, came) ==
  QuickMatch(Window(from, from + size), Window(from + gone, from + size + came)) =
    {[latest |-> Window(from + gone, from + size + came), removed |-> Window(from, from + gone)]}
WindowsMerge == \A from, size, gone \in 0..4, came \in 0..1 :
                  gone < size => WindowMerges(from, size, gone, came)

\* Every conversion is the inverse of the one that made its text, or splits it
\* where it should, for every text over the alphabets.
ParsersAgree ==
  /\ Decode(Encode(text)) = text
  /\ FieldsComeBack /\ TargetsComeBack /\ StatusComesBack
  /\ HeaderEndFound /\ PlaylistPartsComeBack /\ WindowsMerge

=============================================================================
