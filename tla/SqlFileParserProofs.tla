------------------------ MODULE SqlFileParserProofs ------------------------
(***************************************************************************)
(* Proofs about SqlFileParser, for every text over any alphabets: the scan  *)
(* stays inside the text and moves forward with each step, so it ends; no   *)
(* query of the list is empty; and the list is that of the statements of    *)
(* the script.                                                              *)
(***************************************************************************)
EXTENDS SqlFileParser, DataInduction, SequenceTheorems

-----------------------------------------------------------------------------
(* Positions and parts of a text                                           *)

\* What Trim leaves begins and ends with no blank.
Trimmed(s) == s # <<>> => s[1] \notin Blanks /\ s[Len(s)] \notin Blanks

LEMMA TrimType ==
  ASSUME NEW s \in Seq(Symbols)
  PROVE  Trim(s) \in Seq(Symbols) /\ Trimmed(Trim(s))
<1> DEFINE kept == {k \in 1..Len(s) : s[k] \notin Blanks}
<1>1. CASE kept = {}
  BY <1>1 DEF Trim, Trimmed
<1>2. CASE kept # {}
  <2> DEFINE first == Min(kept)
             last == Max(kept)
             t == SubSeq(s, first, last)
  <2>1. kept \in SUBSET (1..Len(s)) /\ kept \in SUBSET (0..Len(s)) /\ kept \in SUBSET Nat /\ Len(s) \in Nat
    OBVIOUS
  <2>2. \A k \in kept : s[k] \notin Blanks
    OBVIOUS
  <2>3. Trim(s) = t
    BY <1>2 DEF Trim
  <2> HIDE DEF kept
  <2>4. first \in kept /\ last \in kept /\ \A k \in kept : first <= k
    BY <1>2, <2>1, MinIs, MaxIs
  <2>5. first \in 1..Len(s) /\ last \in 1..Len(s) /\ first <= last
    BY <2>1, <2>4
  <2> HIDE DEF first, last
  <2>6. /\ t \in Seq(Symbols)
        /\ Len(t) = last - first + 1
        /\ \A i \in 1..(last - first + 1) : t[i] = s[first + i - 1]
    BY <2>5, SubSeqProperties, ElementOfSeq
  <2>7. t[1] = s[first] /\ t[Len(t)] = s[last]
    <3> HIDE DEF t
    <3> QED
      BY <2>5, <2>6
  <2> QED
    BY <2>2, <2>3, <2>4, <2>6, <2>7 DEF Trimmed
<1> QED
  BY <1>1, <1>2

\* Part of a text.
LEMMA PartType ==
  ASSUME NEW s \in Seq(Symbols), NEW a \in 1..Len(s), NEW b \in a..Len(s)
  PROVE  SubSeq(s, a, b) \in Seq(Symbols) /\ Len(SubSeq(s, a, b)) = b - a + 1
<1>1. \A i \in a..b : s[i] \in Symbols
  BY ElementOfSeq
<1> QED
  BY <1>1, SubSeqProperties

-----------------------------------------------------------------------------
(* The tokens of a text                                                    *)

\* A text every line of which has its newline.
IsText(t) == t \in Seq(Symbols) /\ (t # <<>> => t[Len(t)] = Newline)

LEMMA LineEndIs ==
  ASSUME NEW t, IsText(t), NEW p \in 1..Len(t)
  PROVE  /\ LineEnd(t, p) \in p..Len(t)
         /\ t[LineEnd(t, p)] = Newline
         /\ \A e \in p..Len(t) : t[e] = Newline => LineEnd(t, p) <= e
<1> DEFINE ends == {e \in p..Len(t) : t[e] = Newline}
<1>1. Len(t) \in Nat /\ t # <<>>
  BY EmptySeq DEF IsText
<1>2. Len(t) \in ends /\ ends \in SUBSET Nat /\ ends \subseteq p..Len(t)
  BY <1>1 DEF IsText
<1>3. LineEnd(t, p) = Min(ends)
  BY DEF LineEnd
<1>4. \A e \in ends : t[e] = Newline
  OBVIOUS
<1>5. \A e \in p..Len(t) : t[e] = Newline => e \in ends
  OBVIOUS
<1> HIDE DEF ends
<1>6. Min(ends) \in ends /\ \A e \in ends : Min(ends) <= e
  BY <1>2, MinIs
<1> QED
  BY <1>2, <1>3, <1>4, <1>5, <1>6

LEMMA CommandType ==
  ASSUME NEW t, IsText(t), NEW p \in 1..Len(t)
  PROVE  Command(t, p) \in Seq(Symbols)
<1> DEFINE line == Trim(Line(t, p))
<1>1. Line(t, p) \in Seq(Symbols)
  BY LineEndIs, PartType DEF Line, IsText
<1>2. line \in Seq(Symbols)
  BY <1>1, TrimType
<1> HIDE DEF line
<1>3. line # <<>> => Trim(Tail(line)) \in Seq(Symbols)
  BY <1>2, HeadTailProperties, TrimType
<1> QED
  BY <1>3 DEF Command, line

\* A token that may not be closed ends in the text.
LEMMA UntilIs ==
  ASSUME NEW t \in Seq(Symbols), NEW p \in 1..Len(t), NEW S \in SUBSET (p..Len(t))
  PROVE  /\ Until(t, S) \in p..Len(t)
         /\ S # {} => Until(t, S) \in S /\ \A e \in S : Until(t, S) <= e
<1>1. Len(t) \in p..Len(t) /\ S \in SUBSET Nat
  OBVIOUS
<1> QED
  BY <1>1, MinIs DEF Until

\* A token is not empty.
LEMMA TokenIs ==
  ASSUME NEW t, IsText(t), NEW p \in 1..Len(t),
         NEW d \in Seq(Symbols) \ {<<>>}, NEW dq
  PROVE  /\ Token(t, p, d, dq).last \in p..Len(t)
         /\ Token(t, p, d, dq).kind = "command" => Command(t, p) # <<>>
<1>1. LineEnd(t, p) \in p..Len(t) /\ Len(t) \in Nat /\ p \in Nat
  BY LineEndIs DEF IsText
<1>2. Occurs(d, t, p) => p + Len(d) - 1 \in p..Len(t)
  BY <1>1, EmptySeq DEF Occurs
<1>3. /\ StringEnds(t, p) \in SUBSET (p..Len(t)) /\ NameEnds(t, p) \in SUBSET (p..Len(t))
      /\ BlockCommentEnds(t, p) \in SUBSET (p..Len(t))
  BY <1>1 DEF StringEnds, NameEnds, BlockCommentEnds
<1>4. ASSUME NEW tag \in DollarTags(t, p)
      PROVE  DollarEnds(t, p, tag) \in SUBSET (p..Len(t))
  <2>1. PICK e \in (p + 1)..Len(t) : tag = SubSeq(t, p, e)
    BY DEF DollarTags
  <2>2. Len(tag) \in Nat /\ Len(tag) >= 1
    BY <1>1, <2>1, PartType DEF IsText
  <2> QED
    BY <1>1, <2>2 DEF DollarEnds
<1>5. \A S \in SUBSET (p..Len(t)) : Until(t, S) \in p..Len(t)
  BY UntilIs DEF IsText
<1>6. DollarTags(t, p) # {} => (CHOOSE s \in DollarTags(t, p) : TRUE) \in DollarTags(t, p)
  OBVIOUS
<1> DEFINE tag == CHOOSE s \in DollarTags(t, p) : TRUE
<1>7. DollarTags(t, p) # {} => Until(t, DollarEnds(t, p, tag)) \in p..Len(t)
  BY <1>4, <1>5, <1>6
<1>8. /\ Until(t, StringEnds(t, p)) \in p..Len(t)
      /\ Until(t, NameEnds(t, p)) \in p..Len(t)
      /\ Until(t, BlockCommentEnds(t, p)) \in p..Len(t)
  BY <1>3, <1>5
<1>9. p \in p..Len(t)
  BY <1>1
<1> QED
  BY <1>1, <1>2, <1>7, <1>8, <1>9 DEF Token

-----------------------------------------------------------------------------
(* The statements of a text, as a function of the place                    *)

\* What Statements does at a place, with f for the places after it.
From(f, t, dq, at) ==
  LET token == Token(t, at[1], at[2], dq)
      after == token.last + 1
  IN  IF at[1] > Len(t) THEN Kept(at[3])
      ELSE IF token.kind = "command" THEN f[<<after, Command(t, at[1]), at[3]>>]
      ELSE IF token.kind = "delimiter"
      THEN Kept(at[3]) \o f[<<after, at[2], <<>>>>]
      ELSE IF token.kind = "comment" THEN f[<<after, at[2], at[3]>>]
      ELSE f[<<after, at[2], at[3] \o SubSeq(t, at[1], token.last)>>]

\* What a text makes from a place on.
Script(t, dq) == CHOOSE f : f = [at \in Places |-> From(f, t, dq, at)]

LEMMA StatementsAreOfScript ==
  ASSUME NEW t, NEW dq
  PROVE  Statements(t, dq) = Script(t, dq)[<<1, <<";">>, <<>>>>]
BY DEF Statements, Script, From

\* The places a token leads to.
LEMMA NextPlaces ==
  ASSUME NEW t, IsText(t), NEW dq, NEW at \in Places, at[1] <= Len(t)
  PROVE  LET token == Token(t, at[1], at[2], dq)
             after == token.last + 1
         IN  /\ after \in Nat /\ after > at[1]
             /\ token.kind = "command" => <<after, Command(t, at[1]), at[3]>> \in Places
             /\ <<after, at[2], <<>>>> \in Places
             /\ <<after, at[2], at[3]>> \in Places
             /\ <<after, at[2], at[3] \o SubSeq(t, at[1], token.last)>> \in Places
<1> DEFINE token == Token(t, at[1], at[2], dq)
<1>1. /\ at[1] \in Nat \ {0} /\ at[2] \in Seq(Symbols) \ {<<>>} /\ at[3] \in Seq(Symbols)
      /\ t \in Seq(Symbols) /\ Len(t) \in Nat
  BY DEF Places, IsText
<1>2. at[1] \in 1..Len(t)
  BY <1>1
<1>3. /\ token.last \in at[1]..Len(t)
      /\ token.kind = "command" => Command(t, at[1]) # <<>>
  BY <1>1, <1>2, TokenIs
<1> HIDE DEF token
<1>4. token.last + 1 \in Nat \ {0} /\ token.last + 1 > at[1]
  BY <1>1, <1>3
<1>5. at[3] \o SubSeq(t, at[1], token.last) \in Seq(Symbols)
  BY <1>1, <1>2, <1>3, PartType, ConcatProperties
<1>6. Command(t, at[1]) \in Seq(Symbols)
  BY <1>2, CommandType
<1>7. \A n \in Nat \ {0}, d \in Seq(Symbols) \ {<<>>}, b \in Seq(Symbols) :
        <<n, d, b>> \in Places
  BY DEF Places
<1>8. <<>> \in Seq(Symbols)
  OBVIOUS
<1> QED
  BY <1>1, <1>3, <1>4, <1>5, <1>6, <1>7, <1>8 DEF token

\* What is done at a place depends on later places only.
LEMMA FromLater ==
  ASSUME NEW t, IsText(t), NEW dq, NEW at \in Places, NEW f, NEW g,
         \A b \in Places : b[1] > at[1] => f[b] = g[b]
  PROVE  From(f, t, dq, at) = From(g, t, dq, at)
<1>1. CASE at[1] > Len(t)
  BY <1>1 DEF From
<1>2. CASE at[1] <= Len(t)
  <2> DEFINE token == Token(t, at[1], at[2], dq)
             after == token.last + 1
  <2>1. /\ after > at[1]
        /\ token.kind = "command" => <<after, Command(t, at[1]), at[3]>> \in Places
        /\ <<after, at[2], <<>>>> \in Places
        /\ <<after, at[2], at[3]>> \in Places
        /\ <<after, at[2], at[3] \o SubSeq(t, at[1], token.last)>> \in Places
    BY <1>2, NextPlaces
  <2> DEFINE a1 == <<after, Command(t, at[1]), at[3]>>
             a2 == <<after, at[2], <<>>>>
             a3 == <<after, at[2], at[3]>>
             a4 == <<after, at[2], at[3] \o SubSeq(t, at[1], token.last)>>
  <2>2. a1[1] = after /\ a2[1] = after /\ a3[1] = after /\ a4[1] = after
    OBVIOUS
  <2> HIDE DEF a1, a2, a3, a4
  <2>3. /\ token.kind = "command" => f[a1] = g[a1]
        /\ f[a2] = g[a2] /\ f[a3] = g[a3] /\ f[a4] = g[a4]
    BY <2>1, <2>2 DEF a1, a2, a3, a4
  <2> QED
    BY <2>3 DEF From, a1, a2, a3, a4
<1>3. Len(t) \in Nat /\ at[1] \in Nat
  BY DEF IsText, Places
<1> QED
  BY <1>1, <1>2, <1>3

\* There is such a function: it is made for one position more at a time, from
\* the end of the text.
LEMMA ScriptIs ==
  ASSUME NEW t, IsText(t), NEW dq
  PROVE  \A at \in Places : Script(t, dq)[at] = From(Script(t, dq), t, dq, at)
<1> DEFINE On(f, n) == \A at \in Places : at[1] + n > Len(t) => f[at] = From(f, t, dq, at)
           P == {n \in Nat : \E f : On(f, n)}
<1>1. Len(t) \in Nat /\ \A at \in Places : at[1] \in Nat /\ at[1] >= 1
  BY DEF IsText, Places
<1>2. \A n \in Nat : n \in P <=> \E f : On(f, n)
  OBVIOUS
<1> HIDE DEF P
<1>3. 0 \in P
  <2> DEFINE h == [at \in Places |-> Kept(at[3])]
  <2>1. ASSUME NEW at \in Places, at[1] + 0 > Len(t) PROVE h[at] = From(h, t, dq, at)
    <3>1. at[1] > Len(t)
      BY <1>1, <2>1
    <3> QED
      BY <3>1 DEF From
  <2> HIDE DEF h
  <2>2. On(h, 0)
    BY <2>1
  <2> QED
    BY <1>2, <2>2
<1>4. ASSUME NEW n \in Nat, n \in P PROVE n + 1 \in P
  <2>1. PICK f : On(f, n)
    BY <1>2, <1>4
  <2> DEFINE h == [at \in Places |-> From(f, t, dq, at)]
  <2>2. ASSUME NEW at \in Places, at[1] + n > Len(t) PROVE h[at] = f[at]
    BY <2>1, <2>2
  <2>3. ASSUME NEW at \in Places, at[1] + (n + 1) > Len(t) PROVE h[at] = From(h, t, dq, at)
    <3>1. \A b \in Places : b[1] > at[1] => f[b] = h[b]
      <4>1. SUFFICES ASSUME NEW b \in Places, b[1] > at[1] PROVE b[1] + n > Len(t)
        BY <2>2
      <4> QED
        BY <1>1, <2>3, <4>1
    <3>2. h[at] = From(f, t, dq, at)
      OBVIOUS
    <3> HIDE DEF h
    <3>3. From(f, t, dq, at) = From(h, t, dq, at)
      BY <3>1, FromLater
    <3> QED
      BY <3>2, <3>3
  <2> HIDE DEF h
  <2>4. On(h, n + 1)
    BY <2>3
  <2>5. \E k : On(k, n + 1)
    BY <2>4
  <2> HIDE DEF On
  <2> QED
    BY <1>2, <2>5
<1>5. Len(t) \in P
  BY <1>1, <1>3, <1>4, NatSetInduction
<1>6. PICK f : On(f, Len(t))
  BY <1>1, <1>2, <1>5
<1> DEFINE h == [at \in Places |-> From(f, t, dq, at)]
<1>7. h = [at \in Places |-> From(h, t, dq, at)]
  <2>1. ASSUME NEW at \in Places PROVE h[at] = f[at]
    <3>1. at[1] + Len(t) > Len(t)
      BY <1>1
    <3> QED
      BY <1>6, <3>1
  <2>2. ASSUME NEW at \in Places PROVE From(f, t, dq, at) = From(h, t, dq, at)
    <3> HIDE DEF h
    <3> QED
      BY <2>1, FromLater
  <2> QED
    BY <2>2
<1> HIDE DEF h
<1>8. \E g : g = [at \in Places |-> From(g, t, dq, at)]
  BY <1>7
<1>9. Script(t, dq) = [at \in Places |-> From(Script(t, dq), t, dq, at)]
  BY <1>8 DEF Script
<1> DEFINE s == Script(t, dq)
<1>10. s = [at \in Places |-> From(s, t, dq, at)]
  BY <1>9
<1> HIDE DEF s
<1>11. \A at \in Places : s[at] = From(s, t, dq, at)
  BY <1>10
<1> QED
  BY <1>11 DEF s

\* What it makes are statements.
LEMMA ScriptType ==
  ASSUME NEW t, IsText(t), NEW dq, NEW at \in Places
  PROVE  Script(t, dq)[at] \in Seq(Seq(Symbols))
<1> DEFINE f == Script(t, dq)
           Typed(a) == f[a] \in Seq(Seq(Symbols))
           P == {n \in Nat : \A a \in Places : a[1] + n > Len(t) => Typed(a)}
<1>1. Len(t) \in Nat /\ \A a \in Places : a[1] \in Nat /\ a[1] >= 1
  BY DEF IsText, Places
<1>2. \A a \in Places : f[a] = From(f, t, dq, a)
  BY ScriptIs
<1> HIDE DEF f
<1>3. ASSUME NEW s \in Seq(Symbols) PROVE Kept(s) \in Seq(Seq(Symbols))
  BY TrimType DEF Kept
<1>4. ASSUME NEW a \in Places, a[1] > Len(t) PROVE Typed(a)
  <2>1. a[3] \in Seq(Symbols)
    BY DEF Places
  <2> QED
    BY <1>2, <1>3, <1>4, <2>1 DEF From
<1>5. 0 \in P
  BY <1>1, <1>4
<1>6. ASSUME NEW n \in Nat, n \in P PROVE n + 1 \in P
  <2>1. ASSUME NEW a \in Places, a[1] + (n + 1) > Len(t), a[1] <= Len(t)
        PROVE  Typed(a)
    <3> DEFINE token == Token(t, a[1], a[2], dq)
               after == token.last + 1
    <3>1. /\ after \in Nat /\ after > a[1]
          /\ token.kind = "command" => <<after, Command(t, a[1]), a[3]>> \in Places
          /\ <<after, a[2], <<>>>> \in Places
          /\ <<after, a[2], a[3]>> \in Places
          /\ <<after, a[2], a[3] \o SubSeq(t, a[1], token.last)>> \in Places
      BY <2>1, NextPlaces
    <3>2. after + n > Len(t)
      <4> HIDE DEF after
      <4> QED
        BY <1>1, <2>1, <3>1
    <3>3. \A b \in Places : b[1] = after => Typed(b)
      BY <1>6, <3>2
    <3> DEFINE a1 == <<after, Command(t, a[1]), a[3]>>
               a2 == <<after, a[2], <<>>>>
               a3 == <<after, a[2], a[3]>>
               a4 == <<after, a[2], a[3] \o SubSeq(t, a[1], token.last)>>
    <3>4. a1[1] = after /\ a2[1] = after /\ a3[1] = after /\ a4[1] = after
      OBVIOUS
    <3> HIDE DEF a1, a2, a3, a4, Typed
    <3>5. /\ token.kind = "command" => Typed(a1)
          /\ Typed(a2) /\ Typed(a3) /\ Typed(a4)
      BY <3>1, <3>3, <3>4 DEF a1, a2, a3, a4
    <3>6. Kept(a[3]) \in Seq(Seq(Symbols))
      BY <1>3 DEF Places
    <3>7. Kept(a[3]) \o f[a2] \in Seq(Seq(Symbols))
      BY <3>5, <3>6, ConcatProperties DEF Typed
    <3>8. From(f, t, dq, a) =
            IF token.kind = "command" THEN f[a1]
            ELSE IF token.kind = "delimiter" THEN Kept(a[3]) \o f[a2]
            ELSE IF token.kind = "comment" THEN f[a3] ELSE f[a4]
      <4>1. ~(a[1] > Len(t))
        BY <1>1, <2>1
      <4> QED
        BY <4>1, Zenon DEF From, a1, a2, a3, a4
    <3> HIDE DEF token
    <3> QED
      BY <1>2, <3>5, <3>7, <3>8 DEF Typed
  <2> QED
    BY <1>1, <1>4, <2>1
<1>7. Len(t) \in P
  BY <1>1, <1>5, <1>6, NatSetInduction
<1>8. at[1] + Len(t) > Len(t)
  BY <1>1
<1> QED
  BY <1>7, <1>8 DEF f

Delimiters == Seq(Symbols) \ {<<>>}

\* The statements text makes from position p on, with the delimiter d and the
\* statement b begun.
StatementsFrom(t, dq, p, d, b) == Script(t, dq)[<<p, d, b>>]

\* The statement b before those of the rest.
Before(b, rest) == Kept(b) \o rest

CommentStates == {"LineComment", "BlockComment"}

\* The statement b with what the text from p to q adds to it.
With(t, s, b, p, q) == IF s \in CommentStates THEN b ELSE b \o SubSeq(t, p, q)

LEMMA PlaceType ==
  ASSUME NEW p \in Nat \ {0}, NEW d \in Delimiters, NEW b \in Seq(Symbols)
  PROVE  <<p, d, b>> \in Places
BY DEF Places, Delimiters

\* What there is at a place.
LEMMA PlaceIs ==
  ASSUME NEW t, IsText(t), NEW dq, NEW p \in Nat \ {0}, NEW d \in Delimiters,
         NEW b \in Seq(Symbols)
  PROVE  StatementsFrom(t, dq, p, d, b) = From(Script(t, dq), t, dq, <<p, d, b>>)
<1>1. <<p, d, b>> \in Places
  BY PlaceType
<1> QED
  BY <1>1, ScriptIs DEF StatementsFrom

\* A command is read.
LEMMA CommandReads ==
  ASSUME NEW t, IsText(t), NEW dq, NEW p \in 1..Len(t), NEW d \in Delimiters,
         NEW b \in Seq(Symbols), NEW last \in p..Len(t),
         Token(t, p, d, dq) = [kind |-> "command", last |-> last]
  PROVE  StatementsFrom(t, dq, p, d, b) = StatementsFrom(t, dq, last + 1, Command(t, p), b)
<1>1. p \in Nat \ {0} /\ ~(p > Len(t))
  BY DEF IsText
<1>2. StatementsFrom(t, dq, p, d, b) = From(Script(t, dq), t, dq, <<p, d, b>>)
  BY <1>1, PlaceIs
<1>3. Token(t, p, d, dq).kind = "command" /\ Token(t, p, d, dq).last = last
  OBVIOUS
<1> QED
  BY <1>1, <1>2, <1>3 DEF From, StatementsFrom

\* A delimiter is read.
LEMMA DelimiterReads ==
  ASSUME NEW t, IsText(t), NEW dq, NEW p \in 1..Len(t), NEW d \in Delimiters,
         NEW b \in Seq(Symbols), NEW last \in p..Len(t),
         Token(t, p, d, dq) = [kind |-> "delimiter", last |-> last]
  PROVE  StatementsFrom(t, dq, p, d, b) = Before(b, StatementsFrom(t, dq, last + 1, d, <<>>))
<1>1. p \in Nat \ {0} /\ ~(p > Len(t))
  BY DEF IsText
<1>2. StatementsFrom(t, dq, p, d, b) = From(Script(t, dq), t, dq, <<p, d, b>>)
  BY <1>1, PlaceIs
<1>3. Token(t, p, d, dq).kind = "delimiter" /\ Token(t, p, d, dq).last = last
  OBVIOUS
<1> QED
  BY <1>1, <1>2, <1>3 DEF From, StatementsFrom, Before

\* A token that is part of a statement or a comment is read.
LEMMA PartReads ==
  ASSUME NEW t, IsText(t), NEW dq, NEW p \in 1..Len(t), NEW d \in Delimiters,
         NEW b \in Seq(Symbols), NEW last \in p..Len(t), NEW s,
         Token(t, p, d, dq).kind = IF s \in CommentStates THEN "comment" ELSE "text",
         Token(t, p, d, dq).last = last
  PROVE  StatementsFrom(t, dq, p, d, b) = StatementsFrom(t, dq, last + 1, d, With(t, s, b, p, last))
<1>1. p \in Nat \ {0} /\ ~(p > Len(t))
  BY DEF IsText
<1>2. StatementsFrom(t, dq, p, d, b) = From(Script(t, dq), t, dq, <<p, d, b>>)
  BY <1>1, PlaceIs
<1>3. Token(t, p, d, dq).kind = (IF s \in CommentStates THEN "comment" ELSE "text") /\ Token(t, p, d, dq).last = last
  OBVIOUS
<1> QED
  BY <1>1, <1>2, <1>3 DEF From, StatementsFrom, With

\* Behind the text there is only the statement begun.
LEMMA ScriptEnds ==
  ASSUME NEW t, IsText(t), NEW dq, NEW p \in Nat, p > Len(t), NEW d \in Delimiters,
         NEW b \in Seq(Symbols)
  PROVE  StatementsFrom(t, dq, p, d, b) = Kept(b)
<1>1. p \in Nat \ {0}
  BY DEF IsText
<1>2. StatementsFrom(t, dq, p, d, b) = From(Script(t, dq), t, dq, <<p, d, b>>)
  BY <1>1, PlaceIs
<1> QED
  BY <1>2 DEF From

-----------------------------------------------------------------------------
(* What the scanner has still to give                                      *)

\* A string open at p closes at e: its quote comes after an even number of
\* backslashes.
ClosesString(t, p, quote, e) ==
  /\ t[e] = quote
  /\ \E b \in (p - 1)..(e - 1) : /\ b >= p => t[b] # Backslash
                                 /\ \A k \in (b + 1)..(e - 1) : t[k] = Backslash
                                 /\ (e - 1 - b) % 2 = 0

\* What is open in state s at p can close with its last symbol at e.
Closes(t, s, p, tag, e) ==
  \/ s = "SingleQuote" /\ ClosesString(t, p, SingleQuote, e)
  \/ s = "DoubleQuote" /\ ClosesString(t, p, DoubleQuote, e)
  \/ s = "Backtick" /\ t[e] = Backtick
  \/ s = "LineComment" /\ t[e] = Newline
  \/ s = "BlockComment" /\ e > p /\ t[e - 1] = "*" /\ t[e] = "/"
  \/ /\ s = "DollarQuote"
     /\ e >= p + Len(tag) - 1
     /\ Occurs(tag, t, e - Len(tag) + 1)

Ends(t, s, p, tag) == {e \in p..Len(t) : Closes(t, s, p, tag, e)}

\* The statements that are left, for a scanner at p in state s, with the
\* delimiter d, the statement b begun and the tag open.
Rest(t, dq, s, p, d, b, tag) ==
  IF s = "Normal" THEN StatementsFrom(t, dq, p, d, b)
  ELSE LET last == Until(t, Ends(t, s, p, tag))
       IN  StatementsFrom(t, dq, last + 1, d, With(t, s, b, p, last))

LEMMA TextsJoin ==
  ASSUME NEW b \in Seq(Symbols), NEW u \in Seq(Symbols), NEW v \in Seq(Symbols)
  PROVE  (b \o u) \o v = b \o (u \o v)
BY ConcatAssociative

LEMMA WithJoins ==
  ASSUME NEW t \in Seq(Symbols), NEW s, NEW p \in 1..Len(t), NEW q \in p..Len(t),
         NEW last \in q..Len(t), NEW b \in Seq(Symbols)
  PROVE  /\ With(t, s, With(t, s, b, p, q), q + 1, last) = With(t, s, b, p, last)
         /\ With(t, s, b, p, q) \in Seq(Symbols)
<1>1. CASE s \in CommentStates
  BY <1>1 DEF With
<1>2. CASE s \notin CommentStates
  <2>1. p \in 1..(Len(t) + 1) /\ q \in (p - 1)..Len(t) /\ Len(t) \in Nat
    OBVIOUS
  <2>2. SubSeq(t, p, q) \o SubSeq(t, q + 1, last) = SubSeq(t, p, last)
    BY <2>1, ConcatAdjacentSubSeq
  <2>3. SubSeq(t, p, q) \in Seq(Symbols)
    BY PartType
  <2>4. SubSeq(t, q + 1, last) \in Seq(Symbols)
    <3>1. \A i \in (q + 1)..last : t[i] \in Symbols
      BY ElementOfSeq
    <3> QED
      BY <3>1, SubSeqProperties
  <2>5. b \o SubSeq(t, p, q) \in Seq(Symbols)
    BY <2>3, ConcatProperties
  <2> DEFINE u == SubSeq(t, p, q)
             v == SubSeq(t, q + 1, last)
  <2> HIDE DEF u, v
  <2>6. u \in Seq(Symbols) /\ v \in Seq(Symbols)
    BY <2>3, <2>4 DEF u, v
  <2>7. (b \o u) \o v = b \o (u \o v)
    BY <2>6, TextsJoin
  <2> QED
    BY <1>2, <2>2, <2>5, <2>7 DEF With, u, v
<1> QED
  BY <1>1, <1>2

LEMMA EndsWithin ==
  ASSUME NEW t \in Seq(Symbols), NEW s, NEW tag, NEW q \in 0..Len(t)
  PROVE  /\ Ends(t, s, q + 1, tag) \in SUBSET Nat
         /\ Until(t, Ends(t, s, q + 1, tag)) \in q..Len(t)
         /\ Ends(t, s, q + 1, tag) # {} =>
              /\ Until(t, Ends(t, s, q + 1, tag)) \in Ends(t, s, q + 1, tag)
              /\ \A e \in Ends(t, s, q + 1, tag) : Until(t, Ends(t, s, q + 1, tag)) <= e
<1> DEFINE E == Ends(t, s, q + 1, tag)
<1>1. E \in SUBSET Nat /\ E \in SUBSET (q..Len(t))
  BY DEF Ends
<1>2. Len(t) \in q..Len(t)
  OBVIOUS
<1> HIDE DEF E
<1>3. E # {} => Min(E) \in E /\ \A e \in E : Min(E) <= e
  BY <1>1, MinIs
<1> QED
  BY <1>1, <1>2, <1>3 DEF Until, E

\* The rest from q + 1 on, when what is open is read from p to q.
LEMMA RestBehind ==
  ASSUME NEW t, IsText(t), NEW dq, NEW s, s # "Normal", NEW tag, NEW d,
         NEW b \in Seq(Symbols), NEW p \in 1..Len(t), NEW q \in p..Len(t),
         NEW last \in q..Len(t), last = Until(t, Ends(t, s, q + 1, tag))
  PROVE  Rest(t, dq, s, q + 1, d, With(t, s, b, p, q), tag)
           = StatementsFrom(t, dq, last + 1, d, With(t, s, b, p, last))
<1>1. t \in Seq(Symbols)
  BY DEF IsText
<1>2. With(t, s, With(t, s, b, p, q), q + 1, last) = With(t, s, b, p, last)
  BY <1>1, WithJoins
<1> QED
  BY <1>2 DEF Rest

\* The scanner goes on from p to q, where nothing closes.
LEMMA RestMoves ==
  ASSUME NEW t, IsText(t), NEW dq, NEW s, s # "Normal", NEW tag, NEW d,
         NEW b \in Seq(Symbols), NEW p \in 1..Len(t), NEW q \in p..Len(t),
         \A e \in p..q : ~Closes(t, s, p, tag, e),
         \A e \in (q + 1)..Len(t) : Closes(t, s, p, tag, e) <=> Closes(t, s, q + 1, tag, e)
  PROVE  Rest(t, dq, s, q + 1, d, With(t, s, b, p, q), tag) = Rest(t, dq, s, p, d, b, tag)
<1>1. t \in Seq(Symbols) /\ Len(t) \in Nat /\ p \in Nat /\ q \in Nat /\ q \in 0..Len(t)
  BY DEF IsText
<1>2. Ends(t, s, p, tag) = Ends(t, s, q + 1, tag)
  BY <1>1 DEF Ends
<1> DEFINE last == Until(t, Ends(t, s, q + 1, tag))
<1>3. last \in q..Len(t)
  BY <1>1, EndsWithin
<1>4. Rest(t, dq, s, p, d, b, tag) = StatementsFrom(t, dq, last + 1, d, With(t, s, b, p, last))
  BY <1>2 DEF Rest
<1>5. last = Until(t, Ends(t, s, q + 1, tag))
  OBVIOUS
<1> HIDE DEF last
<1>6. Rest(t, dq, s, q + 1, d, With(t, s, b, p, q), tag)
        = StatementsFrom(t, dq, last + 1, d, With(t, s, b, p, last))
  BY <1>3, <1>5, RestBehind
<1> QED
  BY <1>4, <1>6

\* What is open closes with the symbol at z.
LEMMA RestCloses ==
  ASSUME NEW t, IsText(t), NEW dq, NEW s, s # "Normal", NEW tag, NEW d, NEW any,
         NEW b \in Seq(Symbols), NEW p \in 1..Len(t), NEW z \in p..Len(t),
         Closes(t, s, p, tag, z), \A e \in p..(z - 1) : ~Closes(t, s, p, tag, e)
  PROVE  Rest(t, dq, "Normal", z + 1, d, With(t, s, b, p, z), any)
           = Rest(t, dq, s, p, d, b, tag)
<1>1. t \in Seq(Symbols) /\ Len(t) \in Nat /\ p \in Nat /\ p - 1 \in 0..Len(t)
  BY DEF IsText
<1>2. z \in Ends(t, s, p, tag) /\ p = (p - 1) + 1
  BY <1>1 DEF Ends
<1> DEFINE last == Until(t, Ends(t, s, p, tag))
<1>3. last \in Ends(t, s, p, tag) /\ last <= z
  BY <1>1, <1>2, EndsWithin
<1>4. last = z
  BY <1>1, <1>3 DEF Ends
<1> QED
  BY <1>4 DEF Rest

\* A token of comment or text opens at p, and the scanner goes on to q.
LEMMA RestOpens ==
  ASSUME NEW t, IsText(t), NEW dq, NEW s, s # "Normal", NEW tag, NEW any,
         NEW d \in Delimiters, NEW b \in Seq(Symbols), NEW p \in 1..Len(t), NEW q \in p..Len(t),
         Token(t, p, d, dq).kind = IF s \in CommentStates THEN "comment" ELSE "text",
         Token(t, p, d, dq).last = Until(t, Ends(t, s, q + 1, tag))
  PROVE  Rest(t, dq, s, q + 1, d, With(t, s, b, p, q), tag)
           = Rest(t, dq, "Normal", p, d, b, any)
<1>1. t \in Seq(Symbols) /\ Len(t) \in Nat /\ q \in 0..Len(t)
  BY DEF IsText
<1> DEFINE last == Until(t, Ends(t, s, q + 1, tag))
<1>2. last \in q..Len(t) /\ last \in p..Len(t)
  BY <1>1, EndsWithin
<1>3. last = Until(t, Ends(t, s, q + 1, tag)) /\ Token(t, p, d, dq).last = last
  OBVIOUS
<1> HIDE DEF last
<1>4. Rest(t, dq, s, q + 1, d, With(t, s, b, p, q), tag)
        = StatementsFrom(t, dq, last + 1, d, With(t, s, b, p, last))
  BY <1>2, <1>3, RestBehind
<1>5. StatementsFrom(t, dq, p, d, b)
        = StatementsFrom(t, dq, last + 1, d, With(t, s, b, p, last))
  BY <1>2, <1>3, PartReads
<1> QED
  BY <1>4, <1>5 DEF Rest

\* Nothing is left behind the text but the statement begun.
LEMMA RestAtEnd ==
  ASSUME NEW t, IsText(t), NEW dq, NEW s, NEW tag, NEW d \in Delimiters,
         NEW b \in Seq(Symbols)
  PROVE  Rest(t, dq, s, Len(t) + 1, d, b, tag) = Kept(b)
<1>1. t \in Seq(Symbols) /\ Len(t) \in Nat
  BY DEF IsText
<1>2. Ends(t, s, Len(t) + 1, tag) = {}
  BY <1>1 DEF Ends
<1>3. With(t, s, b, Len(t) + 1, Len(t)) = b
  BY <1>1, SubSeqEmpty, ConcatEmptySeq DEF With
<1>4. Rest(t, dq, s, Len(t) + 1, d, b, tag) = StatementsFrom(t, dq, Len(t) + 1, d, b)
  BY <1>2, <1>3 DEF Rest, Until
<1>5. Len(t) + 1 \in Nat /\ Len(t) + 1 > Len(t)
  BY <1>1
<1> QED
  BY <1>4, <1>5, ScriptEnds

-----------------------------------------------------------------------------
(* What closes what is open                                                *)

LEMMA Parity ==
  /\ 0 % 2 = 0 /\ 1 % 2 = 1
  /\ \A n \in Nat : (n + 2) % 2 = n % 2
OBVIOUS

\* A symbol of a string that is neither its quote nor a backslash.
LEMMA PlainInString ==
  ASSUME NEW t \in Seq(Symbols), NEW quote \in {SingleQuote, DoubleQuote},
         NEW p \in 1..Len(t), t[p] # quote, t[p] # Backslash
  PROVE  /\ ~ClosesString(t, p, quote, p)
         /\ \A e \in (p + 1)..Len(t) :
              ClosesString(t, p, quote, e) <=> ClosesString(t, p + 1, quote, e)
<1>1. ~ClosesString(t, p, quote, p)
  BY DEF ClosesString
<1>2. ASSUME NEW e \in (p + 1)..Len(t), ClosesString(t, p, quote, e)
      PROVE  ClosesString(t, p + 1, quote, e)
  <2>1. PICK b \in (p - 1)..(e - 1) :
          /\ b >= p => t[b] # Backslash
          /\ \A k \in (b + 1)..(e - 1) : t[k] = Backslash
          /\ (e - 1 - b) % 2 = 0
    BY <1>2 DEF ClosesString
  <2>2. b # p - 1
    <3>1. SUFFICES ASSUME b = p - 1 PROVE FALSE
      OBVIOUS
    <3>2. p \in (b + 1)..(e - 1)
      BY <3>1
    <3> QED
      BY <2>1, <3>2
  <2>3. b \in ((p + 1) - 1)..(e - 1) /\ (b >= p + 1 => t[b] # Backslash)
    BY <2>1, <2>2
  <2> QED
    BY <1>2, <2>1, <2>3 DEF ClosesString
<1>3. ASSUME NEW e \in (p + 1)..Len(t), ClosesString(t, p + 1, quote, e)
      PROVE  ClosesString(t, p, quote, e)
  <2>1. PICK b \in ((p + 1) - 1)..(e - 1) :
          /\ b >= p + 1 => t[b] # Backslash
          /\ \A k \in (b + 1)..(e - 1) : t[k] = Backslash
          /\ (e - 1 - b) % 2 = 0
    BY <1>3 DEF ClosesString
  <2>2. b \in (p - 1)..(e - 1) /\ (b >= p => t[b] # Backslash)
    BY <2>1
  <2> QED
    BY <1>3, <2>1, <2>2 DEF ClosesString
<1> QED
  BY <1>1, <1>2, <1>3

\* The quote of a string.
LEMMA QuoteInString ==
  ASSUME NEW t \in Seq(Symbols), NEW quote, NEW p \in 1..Len(t), t[p] = quote
  PROVE  ClosesString(t, p, quote, p)
<1>1. /\ p - 1 \in (p - 1)..(p - 1) /\ ~(p - 1 >= p) /\ (p - 1) - (p - 1) = 0
      /\ \A k \in ((p - 1) + 1)..(p - 1) : FALSE
  OBVIOUS
<1>2. (p - 1 - (p - 1)) % 2 = 0
  BY <1>1, Parity
<1> QED
  BY <1>1, <1>2 DEF ClosesString

\* A backslash of a string, with the symbol it takes.
LEMMA EscapeInString ==
  ASSUME NEW t \in Seq(Symbols), NEW quote \in {SingleQuote, DoubleQuote},
         NEW p \in 1..Len(t), t[p] = Backslash, p < Len(t)
  PROVE  /\ ~ClosesString(t, p, quote, p)
         /\ ~ClosesString(t, p, quote, p + 1)
         /\ \A e \in (p + 2)..Len(t) :
              ClosesString(t, p, quote, e) <=> ClosesString(t, p + 2, quote, e)
<1>1. Backslash # quote
  BY DEF Backslash, SingleQuote, DoubleQuote
<1>2. ~ClosesString(t, p, quote, p)
  BY <1>1 DEF ClosesString
<1>3. ~ClosesString(t, p, quote, p + 1)
  <2>1. SUFFICES ASSUME NEW b \in (p - 1)..((p + 1) - 1),
                        b >= p => t[b] # Backslash, ((p + 1) - 1 - b) % 2 = 0
                 PROVE  FALSE
    BY DEF ClosesString
  <2>2. b = p - 1
    BY <2>1
  <2>3. (p + 1) - 1 - b = 1
    BY <2>2
  <2> QED
    BY <2>1, <2>3, Parity
<1>4. ASSUME NEW e \in (p + 2)..Len(t), ClosesString(t, p, quote, e)
      PROVE  ClosesString(t, p + 2, quote, e)
  <2>1. PICK b \in (p - 1)..(e - 1) :
          /\ b >= p => t[b] # Backslash
          /\ \A k \in (b + 1)..(e - 1) : t[k] = Backslash
          /\ (e - 1 - b) % 2 = 0
    BY <1>4 DEF ClosesString
  <2>2. CASE b = p - 1
    <3>1. (e - 1 - (p + 1)) \in Nat /\ e - 1 - b = (e - 1 - (p + 1)) + 2
      BY <2>2
    <3>2. (e - 1 - (p + 1)) % 2 = 0
      BY <2>1, <3>1, Parity
    <3>3. /\ p + 1 \in ((p + 2) - 1)..(e - 1) /\ ~(p + 1 >= p + 2)
          /\ \A k \in ((p + 1) + 1)..(e - 1) : t[k] = Backslash
      BY <2>1, <2>2
    <3> QED
      BY <1>4, <3>2, <3>3 DEF ClosesString
  <2>3. CASE b # p - 1
    <3>1. b \in ((p + 2) - 1)..(e - 1) /\ (b >= p + 2 => t[b] # Backslash)
      BY <2>1, <2>3
    <3> QED
      BY <1>4, <2>1, <3>1 DEF ClosesString
  <2> QED
    BY <2>2, <2>3
<1>5. ASSUME NEW e \in (p + 2)..Len(t), ClosesString(t, p + 2, quote, e)
      PROVE  ClosesString(t, p, quote, e)
  <2>1. PICK b \in ((p + 2) - 1)..(e - 1) :
          /\ b >= p + 2 => t[b] # Backslash
          /\ \A k \in (b + 1)..(e - 1) : t[k] = Backslash
          /\ (e - 1 - b) % 2 = 0
    BY <1>5 DEF ClosesString
  <2>2. CASE b = p + 1 /\ t[b] = Backslash
    <3>1. (e - 1 - b) \in Nat /\ e - 1 - (p - 1) = (e - 1 - b) + 2
      BY <2>2
    <3>2. (e - 1 - (p - 1)) % 2 = 0
      BY <2>1, <3>1, Parity
    <3>3. p - 1 \in (p - 1)..(e - 1) /\ ~(p - 1 >= p)
      OBVIOUS
    <3>4. ASSUME NEW k \in ((p - 1) + 1)..(e - 1) PROVE t[k] = Backslash
      <4>1. k = p \/ k = b \/ k \in (b + 1)..(e - 1)
        BY <2>2
      <4> QED
        BY <2>1, <2>2, <4>1
    <3> QED
      BY <1>5, <3>2, <3>3, <3>4 DEF ClosesString
  <2>3. CASE ~(b = p + 1 /\ t[b] = Backslash)
    <3>1. b \in (p - 1)..(e - 1) /\ (b >= p => t[b] # Backslash)
      BY <2>1, <2>3
    <3> QED
      BY <1>5, <2>1, <3>1 DEF ClosesString
  <2> QED
    BY <2>2, <2>3
<1> QED
  BY <1>2, <1>3, <1>4, <1>5

\* A string is open behind its first quote.
LEMMA StringOpens ==
  ASSUME NEW t \in Seq(Symbols), NEW quote \in {SingleQuote, DoubleQuote},
         NEW p \in 1..Len(t), t[p] = quote
  PROVE  StringEnds(t, p) = {e \in (p + 1)..Len(t) : ClosesString(t, p + 1, quote, e)}
<1>1. Backslash # quote
  BY DEF Backslash, SingleQuote, DoubleQuote
<1>2. ASSUME NEW e \in (p + 1)..Len(t)
      PROVE  (\E b \in p..(e - 1) : /\ t[b] # Backslash
                                    /\ \A k \in (b + 1)..(e - 1) : t[k] = Backslash
                                    /\ (e - 1 - b) % 2 = 0)
               <=> (\E b \in ((p + 1) - 1)..(e - 1) :
                                    /\ b >= p + 1 => t[b] # Backslash
                                    /\ \A k \in (b + 1)..(e - 1) : t[k] = Backslash
                                    /\ (e - 1 - b) % 2 = 0)
  <2>1. (p + 1) - 1 = p
    OBVIOUS
  <2>2. \A b \in p..(e - 1) : t[b] # Backslash <=> (b >= p + 1 => t[b] # Backslash)
    BY <1>1
  <2> QED
    BY <2>1, <2>2, Zenon
<1> QED
  BY <1>2 DEF StringEnds, ClosesString

-----------------------------------------------------------------------------
(* Short texts at a position                                               *)

LEMMA OccursOne ==
  ASSUME NEW t \in Seq(Symbols), NEW p \in Nat \ {0}, NEW c
  PROVE  Occurs(<<c>>, t, p) <=> p <= Len(t) /\ t[p] = c
<1>1. Len(<<c>>) = 1 /\ p + 1 - 1 = p /\ Len(t) \in Nat
  OBVIOUS
<1>2. CASE p <= Len(t)
  <2>1. SubSeq(t, p, p) = <<t[p]>>
    <3>1. p \in 1..Len(t) /\ p \in p..Len(t)
      BY <1>2
    <3>2. SubSeq(t, p, p) = <<t[p]>> \o SubSeq(t, p + 1, p)
      BY <3>1, SubSeqRecursiveFirst
    <3>3. SubSeq(t, p + 1, p) = <<>>
      BY SubSeqEmpty
    <3>4. <<t[p]>> \in Seq(Symbols)
      BY <3>1, ElementOfSeq
    <3> QED
      BY <3>2, <3>3, <3>4, ConcatEmptySeq
  <2> QED
    BY <1>1, <1>2, <2>1 DEF Occurs
<1>3. CASE ~(p <= Len(t))
  BY <1>1, <1>3 DEF Occurs
<1> QED
  BY <1>2, <1>3

\* Text that begins with one symbol.
LEMMA OccursMore ==
  ASSUME NEW t \in Seq(Symbols), NEW p \in Nat \ {0}, NEW s \in Seq(Symbols), s # <<>>,
         NEW r \in Seq(Symbols), r # <<>>,
         Len(s) = Len(r) + 1, \A i \in 1..Len(r) : s[i + 1] = r[i]
  PROVE  Occurs(s, t, p) <=> p <= Len(t) /\ t[p] = s[1] /\ Occurs(r, t, p + 1)
<1>1. /\ Len(s) \in Nat \ {0} /\ Len(r) \in Nat \ {0} /\ Len(t) \in Nat
      /\ p + Len(s) - 1 = (p + 1) + Len(r) - 1
  BY EmptySeq
<1>2. CASE p + Len(s) - 1 <= Len(t)
  <2> DEFINE u == SubSeq(t, p, p + Len(s) - 1)
             v == SubSeq(t, p + 1, (p + 1) + Len(r) - 1)
  <2>1. /\ u \in Seq(Symbols) /\ Len(u) = Len(s)
        /\ \A i \in 1..Len(s) : u[i] = t[p + i - 1]
    <3>1. \A i \in p..(p + Len(s) - 1) : t[i] \in Symbols
      BY <1>1, <1>2, ElementOfSeq
    <3>2. p + Len(s) - 1 \in Int /\ p <= p + Len(s) - 1 /\ (p + Len(s) - 1) - p + 1 = Len(s)
      BY <1>1
    <3> QED
      BY <1>1, <3>1, <3>2, SubSeqProperties
  <2>2. /\ v \in Seq(Symbols) /\ Len(v) = Len(r)
        /\ \A i \in 1..Len(r) : v[i] = t[p + 1 + i - 1]
    <3>1. \A i \in (p + 1)..((p + 1) + Len(r) - 1) : t[i] \in Symbols
      BY <1>1, <1>2, ElementOfSeq
    <3>2. /\ (p + 1) + Len(r) - 1 \in Int /\ p + 1 <= (p + 1) + Len(r) - 1
          /\ ((p + 1) + Len(r) - 1) - (p + 1) + 1 = Len(r)
      BY <1>1
    <3> QED
      BY <1>1, <3>1, <3>2, SubSeqProperties
  <2>3. Occurs(s, t, p) <=> u = s
    BY <1>2 DEF Occurs
  <2>4. Occurs(r, t, p + 1) <=> v = r
    BY <1>1, <1>2 DEF Occurs
  <2>5. p <= Len(t)
    BY <1>1, <1>2
  <2> HIDE DEF u, v
  <2>6. ASSUME u = s PROVE t[p] = s[1] /\ v = r
    <3>1. t[p] = s[1]
      BY <1>1, <2>1, <2>6
    <3>2. ASSUME NEW i \in 1..Len(r) PROVE v[i] = r[i]
      <4>1. i + 1 \in 1..Len(s) /\ p + (i + 1) - 1 = p + 1 + i - 1
        BY <1>1
      <4>2. u[i + 1] = t[p + 1 + i - 1]
        BY <2>1, <4>1
      <4> QED
        BY <2>2, <2>6, <4>2
    <3> QED
      BY <2>2, <3>1, <3>2, SeqEqual
  <2>7. ASSUME t[p] = s[1], v = r PROVE u = s
    <3>1. ASSUME NEW i \in 1..Len(s) PROVE u[i] = s[i]
      <4>1. CASE i = 1
        BY <1>1, <2>1, <2>7, <4>1
      <4>2. CASE i # 1
        <5>1. i - 1 \in 1..Len(r) /\ (i - 1) + 1 = i /\ p + 1 + (i - 1) - 1 = p + i - 1
          BY <1>1, <4>2
        <5>2. v[i - 1] = t[p + i - 1] /\ s[i] = r[i - 1]
          BY <2>2, <5>1
        <5> QED
          BY <2>1, <2>7, <5>2
      <4> QED
        BY <4>1, <4>2
    <3> QED
      BY <2>1, <3>1, SeqEqual
  <2> QED
    BY <2>3, <2>4, <2>5, <2>6, <2>7
<1>3. CASE ~(p + Len(s) - 1 <= Len(t))
  BY <1>1, <1>3 DEF Occurs
<1> QED
  BY <1>2, <1>3

LEMMA OccursTwo ==
  ASSUME NEW t \in Seq(Symbols), NEW p \in Nat \ {0}, NEW c \in Symbols, NEW d \in Symbols
  PROVE  Occurs(<<c, d>>, t, p) <=>
           p <= Len(t) /\ t[p] = c /\ p + 1 <= Len(t) /\ t[p + 1] = d
<1> DEFINE s == <<c, d>>
           r == <<d>>
<1>1. /\ s \in Seq(Symbols) /\ s # <<>> /\ r \in Seq(Symbols) /\ r # <<>>
      /\ Len(s) = Len(r) + 1 /\ \A i \in 1..Len(r) : s[i + 1] = r[i]
      /\ s[1] = c
  OBVIOUS
<1> HIDE DEF s, r
<1>2. Occurs(s, t, p) <=> p <= Len(t) /\ t[p] = c /\ Occurs(r, t, p + 1)
  BY <1>1, OccursMore
<1> QED
  BY <1>2, OccursOne DEF s, r

LEMMA OccursThree ==
  ASSUME NEW t \in Seq(Symbols), NEW p \in Nat \ {0}, NEW c \in Symbols, NEW d \in Symbols,
         NEW e \in Symbols
  PROVE  Occurs(<<c, d, e>>, t, p) <=>
           /\ p <= Len(t) /\ t[p] = c /\ p + 1 <= Len(t) /\ t[p + 1] = d
           /\ p + 2 <= Len(t) /\ t[p + 2] = e
<1> DEFINE s == <<c, d, e>>
           r == <<d, e>>
<1>1. /\ s \in Seq(Symbols) /\ s # <<>> /\ r \in Seq(Symbols) /\ r # <<>>
      /\ Len(s) = Len(r) + 1 /\ \A i \in 1..Len(r) : s[i + 1] = r[i]
      /\ s[1] = c
  OBVIOUS
<1> HIDE DEF s, r
<1>2. Occurs(s, t, p) <=> p <= Len(t) /\ t[p] = c /\ Occurs(r, t, p + 1)
  BY <1>1, OccursMore
<1>3. (p + 1) + 1 = p + 2
  OBVIOUS
<1> QED
  BY <1>2, <1>3, OccursTwo DEF s, r

-----------------------------------------------------------------------------
(* The inductive invariant                                                 *)

\* Every line has its newline.
TextInv == text # <<>> => text[Len(text)] = Newline

\* The tag that closes a dollar quote is known while one is open.
TagInv == state = "DollarQuote" => dollarTag # <<>>

\* No query of the list is empty, or begins or ends with a blank.
QueriesAreTrimmed ==
  \A i \in DOMAIN queryList : queryList[i] # <<>> /\ Trimmed(queryList[i])

Inv == TypeOK /\ TextInv /\ TagInv /\ QueriesAreTrimmed

LEMMA LineEnds ==
  ASSUME Inv, Scanning
  PROVE  /\ pos \in 1..Len(text)
         /\ LineEnd(text, pos) \in pos..Len(text)
<1>1. pos \in 1..Len(text)
  BY DEF Inv, TypeOK, Scanning
<1>2. IsText(text)
  BY DEF IsText, Inv, TypeOK, TextInv
<1> QED
  BY <1>1, <1>2, LineEndIs

LEMMA DelimiterType ==
  ASSUME Inv, Scanning
  PROVE  DelimiterCommand(pos) \in Seq(Symbols)
<1> DEFINE line == Trim(Line(text, pos))
<1>1. text \in Seq(Symbols)
  BY DEF Inv, TypeOK
<1>2. Line(text, pos) \in Seq(Symbols)
  BY <1>1, LineEnds, PartType DEF Line
<1>3. line \in Seq(Symbols)
  BY <1>2, TrimType
<1> HIDE DEF line
<1>4. Len(line) > 1 => Tail(line) \in Seq(Symbols)
  BY <1>3, HeadTailProperties, EmptySeq
<1>5. Len(line) > 1 => Trim(Tail(line)) \in Seq(Symbols)
  BY <1>4, TrimType
<1> QED
  BY <1>5 DEF DelimiterCommand, line

\* The $tag$ at a position lies within the text.
LEMMA TagFits ==
  ASSUME Inv, Scanning, DollarQuoteOpenLength(pos) > 0
  PROVE  /\ DollarQuoteOpenLength(pos) \in Nat
         /\ DollarQuoteOpenLength(pos) >= 2
         /\ pos + DollarQuoteOpenLength(pos) - 1 <= Len(text)
<1> DEFINE within == {k \in 1..(Len(text) - pos) :
                       \A j \in 1..k : text[pos + j] \in Letters \cup Digits}
<1> DEFINE n == Cardinality(within)
<1>1. pos \in 1..Len(text) /\ Len(text) \in Nat
  BY LineEnds DEF Inv, TypeOK
<1>2. n \in Nat
  <2>1. IsFiniteSet(1..(Len(text) - pos))
    BY <1>1, FS_Interval
  <2>2. within \in SUBSET (1..(Len(text) - pos))
    OBVIOUS
  <2> HIDE DEF within
  <2> QED
    BY <2>1, <2>2, FS_Subset, FS_CardinalityType
<1>3. DollarQuoteOpenLength(pos) =
        IF ~Is(pos, "$") THEN 0
        ELSE IF Is(pos + 1, "$") THEN 2
        ELSE IF pos = Len(text) \/ text[pos + 1] \notin Letters THEN 0
        ELSE IF Is(pos + n + 1, "$") THEN n + 2 ELSE 0
  BY DEF DollarQuoteOpenLength
<1> HIDE DEF n
<1> QED
  BY <1>1, <1>2, <1>3 DEF Is

LEMMA PushedType ==
  ASSUME Inv
  PROVE  LET list == Pushed(queryList, statement)
         IN  /\ list \in Seq(Seq(Symbols))
             /\ \A i \in DOMAIN list : list[i] # <<>> /\ Trimmed(list[i])
<1> DEFINE t == Trim(statement)
<1>1. t \in Seq(Symbols) /\ Trimmed(t)
  BY TrimType DEF Inv, TypeOK
<1>2. queryList \in Seq(Seq(Symbols))
  BY DEF Inv, TypeOK
<1>3. Pushed(queryList, statement) = IF t = <<>> THEN queryList ELSE Append(queryList, t)
  BY DEF Pushed
<1> HIDE DEF t
<1>4. CASE t = <<>>
  BY <1>2, <1>3, <1>4 DEF Inv, QueriesAreTrimmed
<1>5. CASE t # <<>>
  <2>1. /\ Append(queryList, t) \in Seq(Seq(Symbols))
        /\ Len(Append(queryList, t)) = Len(queryList) + 1
        /\ \A i \in 1..Len(queryList) : Append(queryList, t)[i] = queryList[i]
        /\ Append(queryList, t)[Len(queryList) + 1] = t
    BY <1>1, <1>2, AppendProperties
  <2>2. DOMAIN queryList = 1..Len(queryList) /\ Len(queryList) \in Nat
    BY <1>2, LenProperties
  <2>3. DOMAIN Append(queryList, t) = 1..(Len(queryList) + 1)
    BY <2>1, <2>2, LenProperties
  <2> QED
    BY <1>1, <1>3, <1>5, <2>1, <2>2, <2>3 DEF Inv, QueriesAreTrimmed
<1> QED
  BY <1>4, <1>5

-----------------------------------------------------------------------------
(* Its steps                                                               *)

\* What each step has to show.
Good == Inv' /\ (Scanning => pos' > pos)

\* What there is at the position of the scanner.
LEMMA HereType ==
  ASSUME Inv, Scanning
  PROVE  /\ pos \in 1..Len(text) /\ Len(text) \in Nat
         /\ pos + 1 \in (pos + 1)..(Len(text) + 1)
         /\ statement \o <<Here>> \in Seq(Symbols)
         /\ statement \o <<>> \in Seq(Symbols)
<1>1. /\ pos \in 1..Len(text) /\ Len(text) \in Nat
      /\ text \in Seq(Symbols) /\ statement \in Seq(Symbols)
  BY LineEnds DEF Inv, TypeOK
<1>2. <<Here>> \in Seq(Symbols)
  BY <1>1, ElementOfSeq DEF Here
<1> QED
  BY <1>1, <1>2, ConcatProperties

\* A step that moves forward and leaves the list and the delimiter alone.
LEMMA PlainStep ==
  ASSUME Inv, Scanning,
         pos' \in (pos + 1)..(Len(text) + 1), statement' \in Seq(Symbols),
         state' \in ScanStates, dollarTag' \in Seq(Symbols),
         state' = "DollarQuote" => dollarTag' # <<>>,
         UNCHANGED <<inputVars, phase, delimiter, queryList>>
  PROVE  Good
<1>1. pos \in 1..Len(text) /\ Len(text) \in Nat
  BY HereType
<1>2. pos' > pos /\ pos' \in 1..(Len(text) + 1)
  BY <1>1
<1> QED
  BY <1>2 DEF Good, Inv, TypeOK, TextInv, TagInv, QueriesAreTrimmed, inputVars

\* The tag and the state, where a step leaves them.
LEMMA KeptType ==
  ASSUME Inv
  PROVE  /\ dollarTag \in Seq(Symbols)
         /\ state = "DollarQuote" => dollarTag # <<>>
         /\ <<>> \in Seq(Symbols)
BY DEF Inv, TypeOK, TagInv

LEMMA OpenFileStep ==
  ASSUME Inv, OpenFile
  PROVE  Good
BY DEF Good, Inv, TypeOK, TextInv, TagInv, QueriesAreTrimmed, OpenFile, inputVars, Scanning

LEMMA ReadDelimiterCommandStep ==
  ASSUME Inv, ReadDelimiterCommand
  PROVE  Good
<1>1. Scanning
  BY DEF ReadDelimiterCommand
<1>2. DelimiterCommand(pos) \in Seq(Symbols)
  BY <1>1, DelimiterType
<1>3. pos \in 1..Len(text) /\ LineEnd(text, pos) \in pos..Len(text)
  BY <1>1, LineEnds
<1>4. Len(text) \in Nat
  BY DEF Inv, TypeOK
<1>5. pos' > pos /\ pos' \in 1..(Len(text) + 1)
  BY <1>3, <1>4 DEF ReadDelimiterCommand
<1> QED
  BY <1>2, <1>5 DEF ReadDelimiterCommand, Good, Inv, TypeOK, TextInv, TagInv,
                    QueriesAreTrimmed, inputVars

LEMMA MeetDelimiterStep ==
  ASSUME Inv, MeetDelimiter
  PROVE  Good
<1>1. Scanning /\ state = "Normal"
  BY DEF MeetDelimiter, Reading
<1>2. pos \in 1..Len(text) /\ Len(text) \in Nat
  BY <1>1, HereType
<1>3. Len(delimiter) \in Nat \ {0} /\ pos + Len(delimiter) - 1 <= Len(text)
  BY EmptySeq DEF MeetDelimiter, StartsWithDelimiter, Occurs, Inv, TypeOK
<1>4. pos' > pos /\ pos' \in 1..(Len(text) + 1)
  BY <1>2, <1>3 DEF MeetDelimiter
<1>5. /\ queryList' \in Seq(Seq(Symbols))
      /\ \A i \in DOMAIN queryList' : queryList'[i] # <<>> /\ Trimmed(queryList'[i])
  BY PushedType DEF MeetDelimiter
<1> QED
  BY <1>4, <1>5 DEF MeetDelimiter, Good, Inv, TypeOK, TextInv, TagInv,
                    QueriesAreTrimmed, inputVars

LEMMA MeetLineCommentStep ==
  ASSUME Inv, MeetLineComment
  PROVE  Good
<1>1. Scanning /\ state' = "LineComment"
  BY DEF MeetLineComment, Reading
<1>2. pos' \in (pos + 1)..(Len(text) + 1) /\ statement' = statement \o <<>>
  BY <1>1, HereType DEF MeetLineComment, StartsLineComment, Is, Here, Consume
<1> QED
  BY <1>1, <1>2, HereType, KeptType, PlainStep DEF MeetLineComment, ScanStates

LEMMA MeetBlockCommentStep ==
  ASSUME Inv, MeetBlockComment
  PROVE  Good
<1>1. Scanning /\ state' = "BlockComment"
  BY DEF MeetBlockComment, Reading
<1>2. pos' \in (pos + 1)..(Len(text) + 1) /\ statement' = statement \o <<>>
  BY <1>1, HereType DEF MeetBlockComment, StartsBlockComment, Is, Consume
<1> QED
  BY <1>1, <1>2, HereType, KeptType, PlainStep DEF MeetBlockComment, ScanStates

LEMMA MeetDollarQuoteStep ==
  ASSUME Inv, MeetDollarQuote
  PROVE  Good
<1> DEFINE n == DollarQuoteOpenLength(pos)
           tag == SubSeq(text, pos, pos + n - 1)
<1>1. Scanning
  BY DEF MeetDollarQuote, InStatement, Reading
<1>2. pos \in 1..Len(text) /\ Len(text) \in Nat
  BY <1>1, HereType
<1>3. n \in Nat /\ n >= 2 /\ pos + n - 1 <= Len(text)
  BY <1>1, TagFits DEF MeetDollarQuote, DollarQuoteHere
<1>4. dollarTag' = tag /\ Consume(Len(tag), tag) /\ state' = "DollarQuote"
  BY DEF MeetDollarQuote
<1> HIDE DEF n
<1>5. tag \in Seq(Symbols) /\ Len(tag) = n
  BY <1>2, <1>3, PartType DEF Inv, TypeOK
<1> HIDE DEF tag
<1>6. tag # <<>>
  BY <1>3, <1>5
<1>7. pos' \in (pos + 1)..(Len(text) + 1) /\ statement' \in Seq(Symbols)
  BY <1>2, <1>3, <1>4, <1>5, ConcatProperties DEF Consume, Inv, TypeOK
<1> QED
  BY <1>1, <1>4, <1>5, <1>6, <1>7, PlainStep DEF MeetDollarQuote, ScanStates

LEMMA MeetQuoteStep ==
  ASSUME Inv, MeetQuote
  PROVE  Good
<1>1. Scanning
  BY DEF MeetQuote, InStatement, Reading
<1>2. state' \in ScanStates /\ state' # "DollarQuote"
  BY DEF MeetQuote, QuoteState, ScanStates
<1>3. pos' = pos + 1 /\ statement' = statement \o <<Here>>
  BY DEF MeetQuote, Consume
<1> QED
  BY <1>1, <1>2, <1>3, HereType, KeptType, PlainStep DEF MeetQuote

LEMMA MeetPlainCharStep ==
  ASSUME Inv, MeetPlainChar
  PROVE  Good
<1>1. Scanning /\ state' = "Normal"
  BY DEF MeetPlainChar, InStatement, Reading
<1>2. pos' = pos + 1 /\ statement' = statement \o <<Here>>
  BY DEF MeetPlainChar, Consume
<1> QED
  BY <1>1, <1>2, HereType, KeptType, PlainStep DEF MeetPlainChar, ScanStates

LEMMA ConsumeQuotedCharStep ==
  ASSUME Inv, NEW s \in ScanStates \ {"DollarQuote"}, NEW quote,
         ConsumeQuotedChar(s, quote)
  PROVE  Good
<1>1. Scanning /\ state = s
  BY DEF ConsumeQuotedChar, Reading
<1>2. pos \in 1..Len(text) /\ Len(text) \in Nat
  BY <1>1, HereType
<1>3. state' \in ScanStates /\ state' # "DollarQuote"
  BY <1>1 DEF ConsumeQuotedChar, ScanStates
<1>4. CASE Here = Backslash /\ pos < Len(text)
  <2>1. pos' = pos + 2 /\ statement' = statement \o SubSeq(text, pos, pos + 1)
    BY <1>4 DEF ConsumeQuotedChar, Consume
  <2>2. pos + 1 \in pos..Len(text)
    BY <1>2, <1>4
  <2>3. SubSeq(text, pos, pos + 1) \in Seq(Symbols)
    BY <1>2, <2>2, PartType DEF Inv, TypeOK
  <2>4. statement' \in Seq(Symbols)
    BY <2>1, <2>3, ConcatProperties DEF Inv, TypeOK
  <2>5. pos' \in (pos + 1)..(Len(text) + 1)
    BY <1>2, <1>4, <2>1
  <2> QED
    BY <1>1, <1>3, <2>4, <2>5, KeptType, PlainStep DEF ConsumeQuotedChar
<1>5. CASE ~(Here = Backslash /\ pos < Len(text))
  <2>1. pos' = pos + 1 /\ statement' = statement \o <<Here>>
    BY <1>5 DEF ConsumeQuotedChar, Consume
  <2> QED
    BY <1>1, <1>3, <2>1, HereType, KeptType, PlainStep DEF ConsumeQuotedChar
<1> QED
  BY <1>4, <1>5

LEMMA ConsumeBacktickCharStep ==
  ASSUME Inv, ConsumeBacktickChar
  PROVE  Good
<1>1. Scanning /\ state' \in ScanStates /\ state' # "DollarQuote"
  BY DEF ConsumeBacktickChar, Reading, ScanStates
<1>2. pos' = pos + 1 /\ statement' = statement \o <<Here>>
  BY DEF ConsumeBacktickChar, Consume
<1> QED
  BY <1>1, <1>2, HereType, KeptType, PlainStep DEF ConsumeBacktickChar

LEMMA ConsumeLineCommentCharStep ==
  ASSUME Inv, ConsumeLineCommentChar
  PROVE  Good
<1>1. Scanning /\ state' \in ScanStates /\ state' # "DollarQuote"
  BY DEF ConsumeLineCommentChar, Reading, ScanStates
<1>2. pos' = pos + 1 /\ statement' = statement \o <<>>
  BY DEF ConsumeLineCommentChar, Consume
<1> QED
  BY <1>1, <1>2, HereType, KeptType, PlainStep DEF ConsumeLineCommentChar

LEMMA ConsumeBlockCommentCharStep ==
  ASSUME Inv, ConsumeBlockCommentChar
  PROVE  Good
<1>1. Scanning /\ state' \in ScanStates /\ state' # "DollarQuote"
  BY DEF ConsumeBlockCommentChar, Reading, ScanStates
<1>2. pos' \in (pos + 1)..(Len(text) + 1) /\ statement' = statement \o <<>>
  BY <1>1, HereType DEF ConsumeBlockCommentChar, Is, Consume
<1> QED
  BY <1>1, <1>2, HereType, KeptType, PlainStep DEF ConsumeBlockCommentChar

\* Here the tag must be known, or the scanner would stand still.
LEMMA ConsumeDollarQuoteCharStep ==
  ASSUME Inv, ConsumeDollarQuoteChar
  PROVE  Good
<1>1. Scanning /\ state = "DollarQuote"
  BY DEF ConsumeDollarQuoteChar, Reading
<1>2. CASE ClosesDollarQuote
  <2>1. dollarTag \in Seq(Symbols) /\ Len(dollarTag) \in Nat \ {0}
    BY <1>1, EmptySeq DEF Inv, TypeOK, TagInv
  <2>2. pos + Len(dollarTag) <= Len(text) + 1
    BY <1>1, <1>2, <2>1, HereType DEF ClosesDollarQuote, Occurs
  <2>3. /\ pos' = pos + Len(dollarTag) /\ statement' = statement \o dollarTag
        /\ dollarTag' = <<>> /\ state' = "Normal"
    BY <1>2 DEF ConsumeDollarQuoteChar, Consume
  <2>4. statement' \in Seq(Symbols)
    BY <2>1, <2>3, ConcatProperties DEF Inv, TypeOK
  <2>5. pos' \in (pos + 1)..(Len(text) + 1)
    BY <1>1, <2>1, <2>2, <2>3, HereType
  <2> QED
    BY <1>1, <2>3, <2>4, <2>5, KeptType, PlainStep DEF ConsumeDollarQuoteChar, ScanStates
<1>3. CASE ~ClosesDollarQuote
  <2>1. /\ pos' = pos + 1 /\ statement' = statement \o <<Here>>
        /\ UNCHANGED <<dollarTag, state>>
    BY <1>3 DEF ConsumeDollarQuoteChar, Consume
  <2> QED
    BY <1>1, <2>1, HereType, KeptType, PlainStep DEF ConsumeDollarQuoteChar, ScanStates
<1> QED
  BY <1>2, <1>3

LEMMA EndOfFileStep ==
  ASSUME Inv, EndOfFile
  PROVE  Good
<1>1. ~Scanning
  BY DEF EndOfFile, Scanning, Inv, TypeOK
<1>2. /\ queryList' \in Seq(Seq(Symbols))
      /\ \A i \in DOMAIN queryList' : queryList'[i] # <<>> /\ Trimmed(queryList'[i])
  BY PushedType DEF EndOfFile
<1> QED
  BY <1>1, <1>2 DEF EndOfFile, Good, Inv, TypeOK, TextInv, TagInv,
                    QueriesAreTrimmed, inputVars

-----------------------------------------------------------------------------
(* The scanner sees the tokens of the script                               *)

LEMMA TextIs ==
  ASSUME Inv, Scanning
  PROVE  /\ IsText(text) /\ text \in Seq(Symbols)
         /\ pos \in 1..Len(text) /\ pos \in Nat \ {0} /\ Len(text) \in Nat
BY LineEnds DEF IsText, Inv, TypeOK, TextInv

LEMMA LineCommentIsSeen ==
  ASSUME Inv, Scanning
  PROVE  LineCommentAt(text, pos) <=> StartsLineComment(pos)
<1>1. /\ text \in Seq(Symbols) /\ pos \in Nat \ {0}
      /\ {"#", "/", "-"} \subseteq Symbols /\ Blanks \subseteq Symbols
  BY TextIs DEF Symbols
<1>2. Occurs(<<"#">>, text, pos) <=> Is(pos, "#")
  BY <1>1, OccursOne DEF Is
<1>3. Occurs(<<"/", "/">>, text, pos) <=> Is(pos, "/") /\ Is(pos + 1, "/")
  BY <1>1, OccursTwo DEF Is
<1>4. ASSUME NEW b \in Blanks
      PROVE  Occurs(<<"-", "-", b>>, text, pos)
               <=> Is(pos, "-") /\ Is(pos + 1, "-") /\ Is(pos + 2, b)
  BY <1>1, OccursThree DEF Is
<1>5. LineCommentAt(text, pos) <=>
        \/ Occurs(<<"#">>, text, pos) \/ Occurs(<<"/", "/">>, text, pos)
        \/ \E b \in Blanks : Occurs(<<"-", "-", b>>, text, pos)
  BY Zenon DEF LineCommentAt
<1> QED
  BY <1>2, <1>3, <1>4, <1>5, Zenon DEF StartsLineComment

LEMMA BlockCommentIsSeen ==
  ASSUME Inv, Scanning
  PROVE  Occurs(<<"/", "*">>, text, pos) <=> StartsBlockComment(pos)
<1>1. text \in Seq(Symbols) /\ pos \in Nat \ {0} /\ {"*", "/"} \subseteq Symbols
  BY TextIs DEF Symbols
<1> QED
  BY <1>1, OccursTwo DEF Is, StartsBlockComment

LEMMA CommandIsSeen ==
  ASSUME Inv, Scanning
  PROVE  Command(text, pos) = IF LineStart(text, pos) THEN DelimiterCommand(pos) ELSE <<>>
<1> DEFINE line == Trim(Line(text, pos))
<1>1. Line(text, pos) \in Seq(Symbols)
  BY TextIs, LineEnds, PartType DEF Line
<1>2. line \in Seq(Symbols)
  BY <1>1, TrimType
<1>3. Command(text, pos) = IF LineStart(text, pos) /\ line # <<>> /\ Head(line) = "D"
                           THEN Trim(Tail(line)) ELSE <<>>
  BY DEF Command
<1>4. DelimiterCommand(pos) = IF Len(line) > 1 /\ line[1] = "D" THEN Trim(Tail(line)) ELSE <<>>
  BY DEF DelimiterCommand
<1> HIDE DEF line
<1>5. CASE line = <<>>
  <2>1. ~(Len(line) > 1)
    BY <1>5
  <2> QED
    BY <1>3, <1>4, <1>5, <2>1
<1>6. CASE line # <<>>
  <2>1. Len(line) \in Nat \ {0} /\ Head(line) = line[1]
    BY <1>2, <1>6, EmptySeq
  <2>2. CASE Len(line) > 1
    BY <1>3, <1>4, <1>6, <2>1, <2>2
  <2>3. CASE ~(Len(line) > 1)
    <3>1. Tail(line) \in Seq(Symbols) /\ Len(Tail(line)) = Len(line) - 1
      BY <1>2, <1>6, HeadTailProperties
    <3> DEFINE rest == Tail(line)
    <3> HIDE DEF rest
    <3>4. rest \in Seq(Symbols) /\ Len(rest) = 0
      BY <2>1, <2>3, <3>1 DEF rest
    <3>2. Tail(line) = <<>>
      BY <3>4, EmptySeq DEF rest
    <3>3. Trim(<<>>) = <<>>
      BY DEF Trim
    <3> QED
      BY <1>3, <1>4, <2>3, <3>2, <3>3
  <2> QED
    BY <2>2, <2>3
<1> QED
  BY <1>5, <1>6

\* How far the symbols behind p are of C, up to n of them.
Span(t, p, n, C) == {k \in 1..n : \A j \in 1..k : t[p + j] \in C}

LEMMA WordLength ==
  ASSUME NEW t, NEW p \in Nat, NEW n \in Nat, NEW C, NEW m,
         m = Cardinality(Span(t, p, n, C))
  PROVE  /\ m \in 0..n
         /\ \A j \in 1..m : t[p + j] \in C
         /\ m < n => t[p + m + 1] \notin C
<1> DEFINE within == {k \in 1..n : \A j \in 1..k : t[p + j] \in C}
           outside == {k \in 0..n : k = n \/ t[p + k + 1] \notin C}
<1>1. n \in outside /\ outside \in SUBSET Nat
  OBVIOUS
<1>2. PICK w \in outside : \A k \in outside : w <= k
  BY <1>1, LeastElement
<1>3. \A j \in 1..w : t[p + j] \in C
  <2>1. SUFFICES ASSUME NEW j \in 1..w, t[p + j] \notin C PROVE FALSE
    OBVIOUS
  <2>2. j - 1 \in outside
    <3>1. j - 1 \in 0..n /\ p + (j - 1) + 1 = p + j
      OBVIOUS
    <3> QED
      BY <2>1, <3>1
  <2> HIDE DEF outside
  <2>3. w <= j - 1
    BY <1>2, <2>2
  <2>4. w \in Nat /\ j \in Nat /\ j <= w
    BY <1>1, <1>2
  <2> QED
    BY <2>3, <2>4
<1>4. within = 1..w
  <2>1. ASSUME NEW k \in 1..w PROVE k \in within
    BY <1>3
  <2>2. ASSUME NEW k \in within PROVE k \in 1..w
    <3>1. SUFFICES ASSUME k > w PROVE FALSE
      OBVIOUS
    <3>2. w + 1 \in 1..k /\ w # n /\ p + (w + 1) = p + w + 1
      BY <3>1
    <3>3. t[p + (w + 1)] \in C
      BY <3>2
    <3> QED
      BY <3>2, <3>3
  <2> QED
    BY <2>1, <2>2
<1> HIDE DEF within
<1>5. Cardinality(within) = w
  BY <1>4, FS_Interval
<1>6. m = w
  BY <1>5 DEF within, Span
<1>7. w \in 0..n /\ (w = n \/ t[p + w + 1] \notin C)
  BY <1>2
<1> HIDE DEF outside
<1>8. w < n => t[p + w + 1] \notin C
  BY <1>7
<1> QED
  BY <1>3, <1>6, <1>7, <1>8, Zenon

\* The dollar quote that opens here is the one of the script.
LEMMA DollarQuoteIsSeen ==
  ASSUME Inv, Scanning
  PROVE  LET n == DollarQuoteOpenLength(pos)
         IN  DollarTags(text, pos) = IF n > 0 THEN {SubSeq(text, pos, pos + n - 1)} ELSE {}
<1> DEFINE Word == Letters \cup Digits
           within == {k \in 1..(Len(text) - pos) : \A j \in 1..k : text[pos + j] \in Word}
           m == Cardinality(within)
           closing == {e \in (pos + 1)..Len(text) :
                        /\ text[pos] = "$" /\ text[e] = "$"
                        /\ text[pos + 1] \notin Digits
                        /\ \A k \in (pos + 1)..(e - 1) : text[k] \in Word}
           n == DollarQuoteOpenLength(pos)
<1>1. /\ pos \in 1..Len(text) /\ Len(text) \in Nat /\ pos \in Nat
      /\ Len(text) - pos \in Nat
  BY TextIs
<1> HIDE DEF Word
<1>9. m = Cardinality(Span(text, pos, Len(text) - pos, Word))
  BY DEF Span
<1> HIDE DEF m
<1>2. /\ m \in 0..(Len(text) - pos)
      /\ \A j \in 1..m : text[pos + j] \in Word
      /\ m < Len(text) - pos => text[pos + m + 1] \notin Word
  BY <1>1, <1>9, WordLength
<1>3. n = IF ~Is(pos, "$") THEN 0
          ELSE IF Is(pos + 1, "$") THEN 2
          ELSE IF pos = Len(text) \/ text[pos + 1] \notin Letters THEN 0
          ELSE IF Is(pos + m + 1, "$") THEN m + 2 ELSE 0
  BY <1>9 DEF DollarQuoteOpenLength, Word, Span
<1>4. DollarTags(text, pos) = {SubSeq(text, pos, e) : e \in closing}
  BY DEF DollarTags, Word
<1>5. "$" \notin Word /\ (\A c \in Word : c \in Letters \/ c \in Digits)
      /\ (\A c \in Letters : c \notin Digits /\ c \in Word)
  BY DEF Letters, Digits, Word
<1>6. \A e \in closing :
        /\ e \in (pos + 1)..Len(text) /\ text[pos] = "$" /\ text[e] = "$"
        /\ text[pos + 1] \notin Digits
        /\ \A k \in (pos + 1)..(e - 1) : text[k] \in Word
  OBVIOUS
<1>7. ASSUME NEW e \in (pos + 1)..Len(text), text[pos] = "$", text[e] = "$",
             text[pos + 1] \notin Digits,
             \A k \in (pos + 1)..(e - 1) : text[k] \in Word
      PROVE  e \in closing
  BY <1>7
<1> HIDE DEF n, closing
<1>8. closing = IF n > 0 THEN {pos + n - 1} ELSE {}
  <2>1. CASE ~Is(pos, "$")
    BY <1>1, <1>3, <1>6, <2>1 DEF Is
  <2>2. CASE Is(pos, "$") /\ Is(pos + 1, "$")
    <3>1. n = 2 /\ pos + n - 1 = pos + 1 /\ n > 0
      BY <1>1, <1>3, <2>2
    <3>2. pos + 1 \in closing
      <4>1. /\ pos + 1 \in (pos + 1)..Len(text) /\ text[pos] = "$" /\ text[pos + 1] = "$"
            /\ \A k \in (pos + 1)..((pos + 1) - 1) : text[k] \in Word
        BY <1>1, <2>2 DEF Is
      <4>2. text[pos + 1] \notin Digits
        BY <4>1 DEF Digits
      <4> QED
        BY <1>7, <4>1, <4>2
    <3>3. ASSUME NEW e \in closing PROVE e = pos + 1
      <4>1. SUFFICES ASSUME e # pos + 1 PROVE FALSE
        OBVIOUS
      <4>2. pos + 1 \in (pos + 1)..(e - 1)
        BY <1>1, <1>6, <4>1
      <4> QED
        BY <1>5, <1>6, <2>2, <4>2 DEF Is
    <3> QED
      BY <3>1, <3>2, <3>3
  <2>3. CASE Is(pos, "$") /\ ~Is(pos + 1, "$") /\ (pos = Len(text) \/ text[pos + 1] \notin Letters)
    <3>1. n = 0
      BY <1>3, <2>3
    <3>2. ASSUME NEW e \in closing PROVE FALSE
      <4>1. pos # Len(text) /\ e # pos + 1 /\ text[pos + 1] \notin Letters
        BY <1>1, <1>6, <2>3 DEF Is
      <4>2. pos + 1 \in (pos + 1)..(e - 1)
        BY <1>1, <1>6, <4>1
      <4> QED
        BY <1>5, <1>6, <4>1, <4>2
    <3> QED
      BY <3>1, <3>2
  <2>4. CASE Is(pos, "$") /\ ~Is(pos + 1, "$") /\ ~(pos = Len(text) \/ text[pos + 1] \notin Letters)
    <3>1. /\ n = IF Is(pos + m + 1, "$") THEN m + 2 ELSE 0
          /\ text[pos] = "$" /\ text[pos + 1] \in Letters
      BY <1>3, <2>4 DEF Is
    <3>2. \A k \in (pos + 1)..(pos + m) : text[k] \in Word
      <4>1. SUFFICES ASSUME NEW k \in (pos + 1)..(pos + m) PROVE text[k] \in Word
        OBVIOUS
      <4>2. k - pos \in 1..m /\ pos + (k - pos) = k
        BY <1>1, <1>2
      <4> QED
        BY <1>2, <4>2
    <3>3. ASSUME NEW e \in closing PROVE e = pos + m + 1
      <4>1. CASE e <= pos + m
        BY <1>1, <1>2, <1>5, <1>6, <3>2, <4>1
      <4>2. CASE e > pos + m + 1
        <5>1. /\ pos + m + 1 \in (pos + 1)..(e - 1) /\ m < Len(text) - pos
          BY <1>1, <1>2, <1>6, <4>2
        <5> QED
          BY <1>2, <1>6, <5>1
      <4> QED
        BY <1>1, <1>2, <1>6, <4>1, <4>2
    <3>4. CASE Is(pos + m + 1, "$")
      <4>1. /\ pos + m + 1 \in (pos + 1)..Len(text) /\ text[pos + m + 1] = "$"
            /\ (pos + m + 1) - 1 = pos + m
        BY <1>1, <1>2, <3>4 DEF Is
      <4>2. pos + m + 1 \in closing
        BY <1>5, <1>7, <3>1, <3>2, <4>1
      <4>3. n = m + 2 /\ n > 0 /\ pos + n - 1 = pos + m + 1
        BY <1>1, <1>2, <3>1, <3>4
      <4> QED
        BY <3>3, <4>2, <4>3
    <3>5. CASE ~Is(pos + m + 1, "$")
      <4>1. closing = {}
        BY <1>6, <3>3, <3>5 DEF Is
      <4> QED
        BY <3>1, <3>5, <4>1
    <3> QED
      BY <3>4, <3>5
  <2> QED
    BY <2>1, <2>2, <2>3, <2>4
<1> QED
  BY <1>4, <1>8 DEF n

\* The token at the position of the scanner while nothing is open.
LEMMA TokenIsSeen ==
  ASSUME Inv, Scanning, state = "Normal", delimiter # <<>>
  PROVE  LET token(kind, last) == [kind |-> kind, last |-> last]
             tag == SubSeq(text, pos, pos + DollarQuoteOpenLength(pos) - 1)
         IN  Token(text, pos, delimiter, dollarQuoting) =
               IF IsDelimiterCommand THEN token("command", LineEnd(text, pos))
               ELSE IF StartsWithDelimiter(pos)
               THEN token("delimiter", pos + Len(delimiter) - 1)
               ELSE IF StartsLineComment(pos) THEN token("comment", LineEnd(text, pos))
               ELSE IF StartsBlockComment(pos)
               THEN token("comment", Until(text, BlockCommentEnds(text, pos)))
               ELSE IF DollarQuoteHere THEN token("text", Until(text, DollarEnds(text, pos, tag)))
               ELSE IF Here \in {SingleQuote, DoubleQuote}
               THEN token("text", Until(text, StringEnds(text, pos)))
               ELSE IF Here = Backtick THEN token("text", Until(text, NameEnds(text, pos)))
               ELSE token("text", pos)
<1> DEFINE n == DollarQuoteOpenLength(pos)
           tag == SubSeq(text, pos, pos + n - 1)
<1>1. Command(text, pos) # <<>> <=> IsDelimiterCommand
  BY CommandIsSeen DEF IsDelimiterCommand, NewLineRead
<1>2. Occurs(delimiter, text, pos) <=> StartsWithDelimiter(pos)
  BY DEF StartsWithDelimiter
<1>3. /\ LineCommentAt(text, pos) <=> StartsLineComment(pos)
      /\ Occurs(<<"/", "*">>, text, pos) <=> StartsBlockComment(pos)
  BY LineCommentIsSeen, BlockCommentIsSeen
<1>4. DollarTags(text, pos) = IF n > 0 THEN {tag} ELSE {}
  BY DollarQuoteIsSeen
<1>5. dollarQuoting /\ DollarTags(text, pos) # {} <=> DollarQuoteHere
  BY <1>4 DEF DollarQuoteHere
<1>6. ASSUME DollarQuoteHere PROVE (CHOOSE s \in DollarTags(text, pos) : TRUE) = tag
  <2>1. DollarTags(text, pos) = {tag}
    BY <1>4, <1>6 DEF DollarQuoteHere
  <2> HIDE DEF n, tag
  <2>2. \E s \in DollarTags(text, pos) : TRUE
    BY <2>1
  <2>3. (CHOOSE s \in DollarTags(text, pos) : TRUE) \in DollarTags(text, pos)
    BY <2>2
  <2> QED
    BY <2>1, <2>3
<1>7. text[pos] = Here
  BY DEF Here
<1> HIDE DEF n, tag
<1> DEFINE chosen == CHOOSE s \in DollarTags(text, pos) : TRUE
<1> HIDE DEF chosen
<1>8. Token(text, pos, delimiter, dollarQuoting) =
        IF Command(text, pos) # <<>> THEN [kind |-> "command", last |-> LineEnd(text, pos)]
        ELSE IF Occurs(delimiter, text, pos)
        THEN [kind |-> "delimiter", last |-> pos + Len(delimiter) - 1]
        ELSE IF LineCommentAt(text, pos) THEN [kind |-> "comment", last |-> LineEnd(text, pos)]
        ELSE IF Occurs(<<"/", "*">>, text, pos)
        THEN [kind |-> "comment", last |-> Until(text, BlockCommentEnds(text, pos))]
        ELSE IF dollarQuoting /\ DollarTags(text, pos) # {}
        THEN [kind |-> "text", last |-> Until(text, DollarEnds(text, pos, chosen))]
        ELSE IF text[pos] \in {SingleQuote, DoubleQuote}
        THEN [kind |-> "text", last |-> Until(text, StringEnds(text, pos))]
        ELSE IF text[pos] = Backtick
        THEN [kind |-> "text", last |-> Until(text, NameEnds(text, pos))]
        ELSE [kind |-> "text", last |-> pos]
  BY Zenon DEF Token, chosen
<1>9. DollarQuoteHere => chosen = tag
  BY <1>6 DEF chosen
<1> QED
  BY <1>1, <1>2, <1>3, <1>5, <1>7, <1>8, <1>9, Zenon DEF tag, n

-----------------------------------------------------------------------------
(* The list and the rest are the statements                                *)

\* At each moment of the scan the queries loaded so far and the statements of
\* the rest of the text are those of the script.
ReadInv ==
  /\ delimiter # <<>>
  /\ state = "DollarQuote" => dollarTag[1] = "$"
  /\ phase = "open" =>
       /\ pos = 1 /\ state = "Normal" /\ delimiter = <<";">>
       /\ statement = <<>> /\ queryList = <<>>
  /\ phase = "scan" =>
       Statements(text, dollarQuoting) =
         queryList \o Rest(text, dollarQuoting, state, pos, delimiter, statement, dollarTag)
  /\ LoadsTheStatements

\* A step that adds nothing to the list and leaves the same statements to read.
LEMMA ReadStep ==
  ASSUME Inv, ReadInv, Scanning, UNCHANGED <<inputVars, phase, queryList>>,
         delimiter' # <<>>, state' = "DollarQuote" => dollarTag'[1] = "$",
         Rest(text, dollarQuoting, state', pos', delimiter', statement', dollarTag')
           = Rest(text, dollarQuoting, state, pos, delimiter, statement, dollarTag)
  PROVE  ReadInv'
<1>1. phase = "scan" /\ phase' = "scan" /\ text' = text /\ dollarQuoting' = dollarQuoting
      /\ queryList' = queryList
  BY DEF Scanning, inputVars
<1>2. Statements(text, dollarQuoting) =
        queryList \o Rest(text, dollarQuoting, state', pos', delimiter', statement', dollarTag')
  BY <1>1 DEF ReadInv
<1> QED
  BY <1>1, <1>2 DEF ReadInv, LoadsTheStatements

\* What there is while the scanner reads.
LEMMA Parts ==
  ASSUME Inv, ReadInv, Scanning
  PROVE  /\ IsText(text) /\ text \in Seq(Symbols) /\ pos \in 1..Len(text) /\ Len(text) \in Nat
         /\ statement \in Seq(Symbols) /\ delimiter \in Delimiters /\ dollarTag \in Seq(Symbols)
BY TextIs DEF Inv, TypeOK, ReadInv, Delimiters

LEMMA StatementsType ==
  ASSUME NEW t, IsText(t), NEW dq
  PROVE  Statements(t, dq) \in Seq(Seq(Symbols))
<1> DEFINE at == <<1, <<";">>, <<>>>>
<1>1. ";" \in Symbols
  BY DEF Symbols
<1>2. \A c \in Symbols : <<c>> \in Delimiters
  BY DEF Delimiters
<1>3. <<";">> \in Delimiters
  BY <1>1, <1>2
<1>4. <<>> \in Seq(Symbols) /\ 1 \in Nat \ {0}
  OBVIOUS
<1>5. at \in Places
  BY <1>3, <1>4, PlaceType
<1> HIDE DEF at
<1>6. Script(t, dq)[at] \in Seq(Seq(Symbols))
  BY <1>5, ScriptType
<1> QED
  BY <1>6, StatementsAreOfScript DEF at

LEMMA OpenFileReads ==
  ASSUME Inv, ReadInv, OpenFile
  PROVE  ReadInv'
<1>1. /\ pos = 1 /\ state = "Normal" /\ delimiter = <<";">> /\ statement = <<>>
      /\ queryList = <<>>
  BY DEF OpenFile, ReadInv
<1>2. Rest(text, dollarQuoting, state, pos, delimiter, statement, dollarTag)
        = Statements(text, dollarQuoting)
  BY <1>1, StatementsAreOfScript DEF Rest, StatementsFrom
<1>3. Statements(text, dollarQuoting) \in Seq(Seq(Symbols))
  BY StatementsType DEF IsText, Inv, TypeOK, TextInv
<1>4. <<>> \o Statements(text, dollarQuoting) = Statements(text, dollarQuoting)
  BY <1>3, ConcatEmptySeq
<1>5. /\ phase' \in {"scan", "failed"}
      /\ text' = text /\ dollarQuoting' = dollarQuoting /\ pos' = pos /\ state' = state
      /\ statement' = statement /\ delimiter' = delimiter /\ dollarTag' = dollarTag
      /\ queryList' = queryList
  BY DEF OpenFile, inputVars
<1>6. queryList \o Rest(text, dollarQuoting, state, pos, delimiter, statement, dollarTag)
        = Statements(text, dollarQuoting)
  BY <1>1, <1>2, <1>4
<1> QED
  BY <1>1, <1>5, <1>6 DEF ReadInv, LoadsTheStatements

LEMMA ReadDelimiterCommandReads ==
  ASSUME Inv, ReadInv, ReadDelimiterCommand
  PROVE  ReadInv'
<1>1. /\ Scanning /\ IsDelimiterCommand /\ state = "Normal" /\ LineStart(text, pos)
      /\ DelimiterCommand(pos) # <<>>
  BY DEF ReadDelimiterCommand, IsDelimiterCommand, NewLineRead
<1>2. LineEnd(text, pos) \in pos..Len(text)
  BY <1>1, LineEnds
<1>3. Token(text, pos, delimiter, dollarQuoting)
        = [kind |-> "command", last |-> LineEnd(text, pos)]
  BY <1>1, TokenIsSeen, Zenon DEF ReadInv
<1>4. Command(text, pos) = DelimiterCommand(pos)
  BY <1>1, CommandIsSeen
<1>5. StatementsFrom(text, dollarQuoting, pos, delimiter, statement)
        = StatementsFrom(text, dollarQuoting, LineEnd(text, pos) + 1, DelimiterCommand(pos), statement)
  <2>1. /\ IsText(text) /\ pos \in 1..Len(text) /\ statement \in Seq(Symbols)
        /\ delimiter \in Delimiters
    BY <1>1, Parts
  <2>2. StatementsFrom(text, dollarQuoting, pos, delimiter, statement)
          = StatementsFrom(text, dollarQuoting, LineEnd(text, pos) + 1, Command(text, pos), statement)
    BY <1>2, <1>3, <2>1, CommandReads
  <2> QED
    BY <1>4, <2>2
<1>6. /\ pos' = LineEnd(text, pos) + 1 /\ delimiter' = DelimiterCommand(pos)
      /\ state' = "Normal" /\ statement' = statement
      /\ UNCHANGED <<inputVars, phase, queryList>>
  BY <1>1 DEF ReadDelimiterCommand
<1>7. Rest(text, dollarQuoting, state', pos', delimiter', statement', dollarTag')
        = Rest(text, dollarQuoting, state, pos, delimiter, statement, dollarTag)
  BY <1>1, <1>5, <1>6 DEF Rest
<1> QED
  BY <1>1, <1>6, <1>7, ReadStep

LEMMA PushedIs ==
  ASSUME NEW list \in Seq(Seq(Symbols)), NEW s \in Seq(Symbols)
  PROVE  /\ Pushed(list, s) = list \o Kept(s)
         /\ Kept(s) \in Seq(Seq(Symbols))
<1> DEFINE u == Trim(s)
<1>1. u \in Seq(Symbols)
  BY TrimType
<1>2. Pushed(list, s) = (IF u = <<>> THEN list ELSE Append(list, u))
      /\ Kept(s) = (IF u = <<>> THEN <<>> ELSE <<u>>)
  BY DEF Pushed, Kept
<1> HIDE DEF u
<1>3. list \o <<>> = list /\ Append(list, u) = list \o <<u>>
  BY <1>1, ConcatEmptySeq, AppendIsConcat
<1>4. <<u>> \in Seq(Seq(Symbols)) /\ <<>> \in Seq(Seq(Symbols))
  BY <1>1
<1> QED
  BY <1>2, <1>3, <1>4

LEMMA ListsJoin ==
  ASSUME NEW a \in Seq(Seq(Symbols)), NEW b \in Seq(Seq(Symbols)), NEW c \in Seq(Seq(Symbols))
  PROVE  (a \o b) \o c = a \o (b \o c)
BY ConcatAssociative

LEMMA MeetDelimiterReads ==
  ASSUME Inv, ReadInv, MeetDelimiter
  PROVE  ReadInv'
<1>1. /\ Scanning /\ state = "Normal" /\ ~IsDelimiterCommand /\ StartsWithDelimiter(pos)
      /\ phase = "scan"
  BY DEF MeetDelimiter, Reading, Scanning
<1>2. /\ IsText(text) /\ pos \in 1..Len(text) /\ statement \in Seq(Symbols)
      /\ delimiter \in Delimiters /\ Len(text) \in Nat
  BY <1>1, Parts
<1> DEFINE last == pos + Len(delimiter) - 1
           rest == StatementsFrom(text, dollarQuoting, last + 1, delimiter, <<>>)
<1>3. Token(text, pos, delimiter, dollarQuoting) = [kind |-> "delimiter", last |-> last]
  BY <1>1, TokenIsSeen, Zenon DEF ReadInv
<1>4. Len(delimiter) \in Nat \ {0} /\ last \in pos..Len(text) /\ last + 1 = pos + Len(delimiter)
  <2>1. Len(delimiter) \in Nat \ {0}
    BY <1>2, EmptySeq DEF Delimiters
  <2>2. last <= Len(text)
    BY <1>1 DEF StartsWithDelimiter, Occurs
  <2> QED
    BY <1>2, <2>1, <2>2
<1> HIDE DEF last
<1>5. StatementsFrom(text, dollarQuoting, pos, delimiter, statement) = Before(statement, rest)
  BY <1>2, <1>3, <1>4, DelimiterReads
<1>6. rest \in Seq(Seq(Symbols))
  <2>1. last + 1 \in Nat \ {0}
    BY <1>2, <1>4
  <2>3. <<>> \in Seq(Symbols)
    OBVIOUS
  <2>2. <<last + 1, delimiter, <<>>>> \in Places
    BY <1>2, <2>1, <2>3, PlaceType
  <2> QED
    BY <1>2, <2>2, ScriptType DEF StatementsFrom
<1>7. /\ queryList \in Seq(Seq(Symbols))
      /\ Pushed(queryList, statement) = queryList \o Kept(statement)
      /\ Kept(statement) \in Seq(Seq(Symbols))
  BY <1>2, PushedIs DEF Inv, TypeOK
<1> HIDE DEF rest
<1>8. (queryList \o Kept(statement)) \o rest = queryList \o (Kept(statement) \o rest)
  BY <1>6, <1>7, ListsJoin
<1>9. /\ queryList' = queryList \o Kept(statement) /\ statement' = <<>> /\ pos' = last + 1
      /\ text' = text /\ dollarQuoting' = dollarQuoting /\ phase' = "scan"
      /\ state' = "Normal" /\ delimiter' = delimiter /\ dollarTag' = dollarTag
  BY <1>1, <1>4, <1>7 DEF MeetDelimiter, inputVars
<1>10. Rest(text, dollarQuoting, state', pos', delimiter', statement', dollarTag') = rest
  BY <1>9 DEF Rest, rest
<1>11. Rest(text, dollarQuoting, state, pos, delimiter, statement, dollarTag)
         = Kept(statement) \o rest
  BY <1>1, <1>5 DEF Rest, Before
<1>12. Statements(text, dollarQuoting) = queryList \o (Kept(statement) \o rest)
  BY <1>1, <1>11 DEF ReadInv
<1>13. Statements(text, dollarQuoting) =
         queryList' \o Rest(text, dollarQuoting, state', pos', delimiter', statement', dollarTag')
  BY <1>8, <1>9, <1>10, <1>12
<1> QED
  BY <1>1, <1>9, <1>13 DEF ReadInv, LoadsTheStatements

LEMMA EndOfFileReads ==
  ASSUME Inv, ReadInv, EndOfFile
  PROVE  ReadInv'
<1>1. /\ IsText(text) /\ Len(text) \in Nat /\ pos = Len(text) + 1
      /\ statement \in Seq(Symbols) /\ delimiter \in Delimiters
      /\ queryList \in Seq(Seq(Symbols)) /\ phase = "scan"
  BY DEF EndOfFile, Inv, TypeOK, ReadInv, IsText, TextInv, Delimiters
<1>2. Rest(text, dollarQuoting, state, pos, delimiter, statement, dollarTag) = Kept(statement)
  BY <1>1, RestAtEnd
<1>3. queryList' = queryList \o Kept(statement)
  BY <1>1, PushedIs DEF EndOfFile
<1>4. Statements(text, dollarQuoting) = queryList'
  BY <1>1, <1>2, <1>3 DEF ReadInv
<1>5. /\ text' = text /\ dollarQuoting' = dollarQuoting /\ phase' = "loaded"
      /\ state' = state /\ delimiter' = delimiter /\ dollarTag' = dollarTag
  BY DEF EndOfFile, inputVars
<1> QED
  BY <1>4, <1>5 DEF ReadInv, LoadsTheStatements

\* One symbol of a text, and what it adds to the statement.
LEMMA OneSymbol ==
  ASSUME NEW t \in Seq(Symbols), NEW p \in 1..Len(t)
  PROVE  SubSeq(t, p, p) = <<t[p]>>
<1>1. SubSeq(t, p, p) = <<t[p]>> \o SubSeq(t, p + 1, p)
  BY SubSeqRecursiveFirst
<1>2. SubSeq(t, p + 1, p) = <<>> /\ <<t[p]>> \in Seq(Symbols)
  BY SubSeqEmpty, ElementOfSeq
<1> QED
  BY <1>1, <1>2, ConcatEmptySeq

LEMMA KeptSymbol ==
  ASSUME Inv, Scanning, NEW s, s \notin CommentStates
  PROVE  statement \o <<Here>> = With(text, s, statement, pos, pos)
BY TextIs, OneSymbol DEF With, Here

LEMMA NothingKept ==
  ASSUME Inv, Scanning, NEW s \in CommentStates, NEW q
  PROVE  statement \o <<>> = With(text, s, statement, pos, q)
BY ConcatEmptySeq DEF With, Inv, TypeOK

\* A token opens at the position of the scanner.
LEMMA OpenStep ==
  ASSUME Inv, ReadInv, Scanning, state = "Normal",
         UNCHANGED <<inputVars, phase, delimiter, queryList>>,
         NEW q \in pos..Len(text),
         state' # "Normal", pos' = q + 1,
         statement' = With(text, state', statement, pos, q),
         state' = "DollarQuote" => dollarTag'[1] = "$",
         Token(text, pos, delimiter, dollarQuoting) =
           [kind |-> IF state' \in CommentStates THEN "comment" ELSE "text",
            last |-> Until(text, Ends(text, state', q + 1, dollarTag'))]
  PROVE  ReadInv'
<1> DEFINE s == state'
           tag == dollarTag'
           token == Token(text, pos, delimiter, dollarQuoting)
<1>1. /\ IsText(text) /\ pos \in 1..Len(text) /\ statement \in Seq(Symbols)
      /\ delimiter \in Delimiters /\ q \in pos..Len(text)
  BY Parts
<1>2. /\ token.kind = IF s \in CommentStates THEN "comment" ELSE "text"
      /\ token.last = Until(text, Ends(text, s, q + 1, tag))
      /\ s # "Normal"
  OBVIOUS
<1>3. Rest(text, dollarQuoting, s, q + 1, delimiter, With(text, s, statement, pos, q), tag)
        = Rest(text, dollarQuoting, "Normal", pos, delimiter, statement, dollarTag)
  <2> HIDE DEF s, tag
  <2> QED
    BY <1>1, <1>2, RestOpens
<1>4. delimiter' # <<>>
  BY DEF ReadInv
<1>5. Rest(text, dollarQuoting, state', pos', delimiter', statement', dollarTag')
        = Rest(text, dollarQuoting, state, pos, delimiter, statement, dollarTag)
  BY <1>3
<1> QED
  BY <1>4, <1>5, ReadStep

\* What is open is read on to q and stays open.
LEMMA MoveStep ==
  ASSUME Inv, ReadInv, Scanning, state # "Normal",
         UNCHANGED <<inputVars, phase, delimiter, queryList, state, dollarTag>>,
         NEW q \in pos..Len(text), pos' = q + 1,
         statement' = With(text, state, statement, pos, q),
         \A e \in pos..q : ~Closes(text, state, pos, dollarTag, e),
         \A e \in (q + 1)..Len(text) :
           Closes(text, state, pos, dollarTag, e) <=> Closes(text, state, q + 1, dollarTag, e)
  PROVE  ReadInv'
<1>1. IsText(text) /\ pos \in 1..Len(text) /\ statement \in Seq(Symbols)
  BY Parts
<1>2. Rest(text, dollarQuoting, state, q + 1, delimiter,
           With(text, state, statement, pos, q), dollarTag)
        = Rest(text, dollarQuoting, state, pos, delimiter, statement, dollarTag)
  BY <1>1, RestMoves
<1>3. delimiter' # <<>> /\ (state' = "DollarQuote" => dollarTag'[1] = "$")
  BY DEF ReadInv
<1>4. Rest(text, dollarQuoting, state', pos', delimiter', statement', dollarTag')
        = Rest(text, dollarQuoting, state, pos, delimiter, statement, dollarTag)
  BY <1>2
<1> QED
  BY <1>3, <1>4, ReadStep

\* What is open is read to its last symbol z.
LEMMA CloseStep ==
  ASSUME Inv, ReadInv, Scanning, state # "Normal", state' = "Normal",
         UNCHANGED <<inputVars, phase, delimiter, queryList>>,
         NEW z \in pos..Len(text), pos' = z + 1,
         statement' = With(text, state, statement, pos, z),
         Closes(text, state, pos, dollarTag, z),
         \A e \in pos..(z - 1) : ~Closes(text, state, pos, dollarTag, e)
  PROVE  ReadInv'
<1>1. IsText(text) /\ pos \in 1..Len(text) /\ statement \in Seq(Symbols)
  BY Parts
<1>2. Rest(text, dollarQuoting, "Normal", z + 1, delimiter,
           With(text, state, statement, pos, z), dollarTag')
        = Rest(text, dollarQuoting, state, pos, delimiter, statement, dollarTag)
  BY <1>1, RestCloses
<1>3. delimiter' # <<>>
  BY DEF ReadInv
<1>4. Rest(text, dollarQuoting, state', pos', delimiter', statement', dollarTag')
        = Rest(text, dollarQuoting, state, pos, delimiter, statement, dollarTag)
  BY <1>2
<1> QED
  BY <1>3, <1>4, ReadStep

-----------------------------------------------------------------------------
(* The steps that open something                                           *)

\* The rest of the line is the comment.
LEMMA LineCommentOpens ==
  ASSUME NEW t, IsText(t), NEW p \in 1..Len(t), NEW q \in p..Len(t), NEW tag,
         \A e \in p..q : t[e] # Newline
  PROVE  LineEnd(t, p) = Until(t, Ends(t, "LineComment", q + 1, tag))
<1>1. Len(t) \in Nat /\ p \in Nat /\ q \in Nat
  BY DEF IsText
<1> DEFINE E == Ends(t, "LineComment", q + 1, tag)
<1>2. \A e : Closes(t, "LineComment", q + 1, tag, e) <=> t[e] = Newline
  BY DEF Closes
<1>3. E = {e \in p..Len(t) : t[e] = Newline}
  BY <1>1, <1>2 DEF Ends
<1>4. LineEnd(t, p) \in E
  BY <1>3, LineEndIs
<1> HIDE DEF E
<1>5. LineEnd(t, p) = Min(E)
  BY <1>3 DEF LineEnd
<1> QED
  BY <1>4, <1>5 DEF Until, E

LEMMA MeetLineCommentReads ==
  ASSUME Inv, ReadInv, MeetLineComment
  PROVE  ReadInv'
<1>1. /\ Scanning /\ state = "Normal" /\ ~IsDelimiterCommand /\ ~StartsWithDelimiter(pos)
      /\ StartsLineComment(pos) /\ state' = "LineComment"
      /\ UNCHANGED <<inputVars, phase, delimiter, dollarTag, queryList>>
  BY DEF MeetLineComment, Reading
<1>2. IsText(text) /\ pos \in 1..Len(text) /\ Len(text) \in Nat
  BY <1>1, Parts
<1> DEFINE q == IF Here \in {"/", "-"} THEN pos + 1 ELSE pos
<1>3. /\ q \in pos..Len(text) /\ pos' = q + 1 /\ statement' = statement \o <<>>
      /\ \A e \in pos..q : text[e] # Newline
  <2>1. /\ pos' = pos + (IF Here \in {"/", "-"} THEN 2 ELSE 1)
        /\ statement' = statement \o <<>>
    BY DEF MeetLineComment, Consume
  <2>2. CASE Here \in {"/", "-"}
    <3>1. pos + 1 <= Len(text) /\ text[pos + 1] \in {"/", "-"} /\ text[pos] \in {"/", "-"}
      BY <1>1, <2>2 DEF StartsLineComment, Is, Here
    <3>2. q = pos + 1
      BY <2>2
    <3>3. \A e \in pos..q : e = pos \/ e = pos + 1
      BY <1>2, <3>2
    <3> QED
      BY <1>2, <2>1, <2>2, <3>1, <3>2, <3>3 DEF Newline
  <2>3. CASE Here \notin {"/", "-"}
    <3>1. text[pos] = "#" /\ q = pos
      BY <1>1, <2>3 DEF StartsLineComment, Is, Here
    <3> QED
      BY <1>2, <2>1, <2>3, <3>1 DEF Newline
  <2> QED
    BY <2>2, <2>3
<1> HIDE DEF q
<1>4. "LineComment" \in CommentStates
  BY DEF CommentStates
<1>5. statement' = With(text, state', statement, pos, q)
  BY <1>1, <1>3, <1>4, NothingKept
<1>6. Token(text, pos, delimiter, dollarQuoting) =
        [kind |-> "comment", last |-> LineEnd(text, pos)]
  BY <1>1, TokenIsSeen, Zenon DEF ReadInv
<1>7. LineEnd(text, pos) = Until(text, Ends(text, "LineComment", q + 1, dollarTag'))
  BY <1>2, <1>3, LineCommentOpens
<1> QED
  BY <1>1, <1>3, <1>4, <1>5, <1>6, <1>7, OpenStep

LEMMA MeetBlockCommentReads ==
  ASSUME Inv, ReadInv, MeetBlockComment
  PROVE  ReadInv'
<1>1. /\ Scanning /\ state = "Normal" /\ ~IsDelimiterCommand /\ ~StartsWithDelimiter(pos)
      /\ ~StartsLineComment(pos) /\ StartsBlockComment(pos) /\ state' = "BlockComment"
      /\ UNCHANGED <<inputVars, phase, delimiter, dollarTag, queryList>>
  BY DEF MeetBlockComment, Reading
<1>2. IsText(text) /\ pos \in 1..Len(text) /\ Len(text) \in Nat
  BY <1>1, Parts
<1>3. pos' = (pos + 1) + 1 /\ statement' = statement \o <<>>
  BY <1>2 DEF MeetBlockComment, Consume
<1>4. pos + 1 \in pos..Len(text)
  BY <1>1, <1>2 DEF StartsBlockComment, Is
<1>5. "BlockComment" \in CommentStates
  BY DEF CommentStates
<1>6. statement' = With(text, state', statement, pos, pos + 1)
  BY <1>1, <1>3, <1>5, NothingKept
<1>7. Token(text, pos, delimiter, dollarQuoting) =
        [kind |-> "comment", last |-> Until(text, BlockCommentEnds(text, pos))]
  BY <1>1, TokenIsSeen, Zenon DEF ReadInv
<1>8. BlockCommentEnds(text, pos) = Ends(text, "BlockComment", (pos + 1) + 1, dollarTag')
  BY <1>2 DEF BlockCommentEnds, Ends, Closes
<1> QED
  BY <1>1, <1>3, <1>4, <1>5, <1>6, <1>7, <1>8, OpenStep

LEMMA MeetDollarQuoteReads ==
  ASSUME Inv, ReadInv, MeetDollarQuote
  PROVE  ReadInv'
<1> DEFINE n == DollarQuoteOpenLength(pos)
           tag == SubSeq(text, pos, pos + n - 1)
           q == pos + n - 1
<1>1. /\ Scanning /\ state = "Normal" /\ ~IsDelimiterCommand /\ ~StartsWithDelimiter(pos)
      /\ ~StartsLineComment(pos) /\ ~StartsBlockComment(pos) /\ DollarQuoteHere
      /\ state' = "DollarQuote" /\ dollarTag' = tag
      /\ UNCHANGED <<inputVars, phase, delimiter, queryList>>
  BY DEF MeetDollarQuote, InStatement, Reading
<1>2. IsText(text) /\ pos \in 1..Len(text) /\ Len(text) \in Nat /\ text \in Seq(Symbols)
  BY <1>1, Parts
<1>3. n \in Nat /\ n >= 2 /\ q <= Len(text) /\ text[pos] = "$"
  <2>1. n > 0
    BY <1>1 DEF DollarQuoteHere
  <2>2. text[pos] = "$"
    BY <2>1 DEF DollarQuoteOpenLength, Is
  <2> QED
    BY <1>1, <2>1, <2>2, TagFits
<1>4. Consume(Len(tag), tag)
  BY DEF MeetDollarQuote
<1>5. Token(text, pos, delimiter, dollarQuoting) =
        [kind |-> "text", last |-> Until(text, DollarEnds(text, pos, tag))]
  BY <1>1, TokenIsSeen, Zenon DEF ReadInv
<1> HIDE DEF n
<1>6. q \in pos..Len(text) /\ q = pos + n - 1
  BY <1>2, <1>3
<1> HIDE DEF q
<1>7. tag = SubSeq(text, pos, q)
  BY <1>6
<1> HIDE DEF tag
<1>8. /\ Len(tag) = n /\ tag[1] = "$"
  <2>1. Len(SubSeq(text, pos, q)) = q - pos + 1
    BY <1>2, <1>6, PartType
  <2>2. \A i \in pos..q : text[i] \in Symbols
    BY <1>2, <1>6, ElementOfSeq
  <2>3. SubSeq(text, pos, q)[1] = text[pos + 1 - 1]
    BY <1>2, <1>3, <1>6, <2>2, SubSeqProperties
  <2> QED
    BY <1>2, <1>3, <1>6, <1>7, <2>1, <2>3
<1>9. pos' = q + 1 /\ statement' = statement \o SubSeq(text, pos, q)
  BY <1>2, <1>3, <1>4, <1>6, <1>7, <1>8 DEF Consume
<1>10. "DollarQuote" \notin CommentStates
  BY DEF CommentStates
<1>11. statement' = With(text, state', statement, pos, q)
  BY <1>1, <1>9, <1>10 DEF With
<1>12. DollarEnds(text, pos, tag) = Ends(text, "DollarQuote", q + 1, tag)
  BY <1>2, <1>3, <1>6, <1>8 DEF DollarEnds, Ends, Closes
<1> QED
  BY <1>1, <1>5, <1>6, <1>8, <1>9, <1>10, <1>11, <1>12, OpenStep

LEMMA MeetQuoteReads ==
  ASSUME Inv, ReadInv, MeetQuote
  PROVE  ReadInv'
<1>1. /\ Scanning /\ state = "Normal" /\ ~IsDelimiterCommand /\ ~StartsWithDelimiter(pos)
      /\ ~StartsLineComment(pos) /\ ~StartsBlockComment(pos) /\ ~DollarQuoteHere
      /\ Here \in {SingleQuote, DoubleQuote, Backtick} /\ state' = QuoteState[Here]
      /\ pos' = pos + 1 /\ statement' = statement \o <<Here>>
      /\ UNCHANGED <<inputVars, phase, delimiter, dollarTag, queryList>>
  BY DEF MeetQuote, InStatement, Reading, Consume, QuoteState
<1>2. /\ IsText(text) /\ pos \in 1..Len(text) /\ Len(text) \in Nat /\ text \in Seq(Symbols)
      /\ pos \in pos..Len(text) /\ text[pos] = Here
  BY <1>1, Parts DEF Here
<1>3. SingleQuote # DoubleQuote /\ SingleQuote # Backtick /\ DoubleQuote # Backtick
  BY DEF SingleQuote, DoubleQuote, Backtick
<1>4. Token(text, pos, delimiter, dollarQuoting) =
        [kind |-> "text", last |-> Until(text, IF Here = Backtick THEN NameEnds(text, pos)
                                               ELSE StringEnds(text, pos))]
  BY <1>1, <1>3, TokenIsSeen, Zenon DEF ReadInv
<1>5. state' = IF Here = SingleQuote THEN "SingleQuote"
               ELSE IF Here = DoubleQuote THEN "DoubleQuote" ELSE "Backtick"
  BY <1>1 DEF QuoteState
<1>6. (IF Here = Backtick THEN NameEnds(text, pos) ELSE StringEnds(text, pos))
        = Ends(text, state', pos + 1, dollarTag')
  <2>1. CASE Here = Backtick
    BY <1>3, <1>5, <2>1 DEF NameEnds, Ends, Closes
  <2>2. CASE Here = SingleQuote
    <3>1. StringEnds(text, pos) = {e \in (pos + 1)..Len(text) : ClosesString(text, pos + 1, SingleQuote, e)}
      BY <1>2, <2>2, StringOpens
    <3> QED
      BY <1>3, <1>5, <2>2, <3>1 DEF Ends, Closes
  <2>3. CASE Here = DoubleQuote
    <3>1. StringEnds(text, pos) = {e \in (pos + 1)..Len(text) : ClosesString(text, pos + 1, DoubleQuote, e)}
      BY <1>2, <2>3, StringOpens
    <3> QED
      BY <1>3, <1>5, <2>3, <3>1 DEF Ends, Closes
  <2> QED
    BY <1>1, <2>1, <2>2, <2>3
<1>7. state' \notin CommentStates /\ state' # "Normal" /\ state' # "DollarQuote"
  BY <1>5 DEF CommentStates
<1>8. statement' = With(text, state', statement, pos, pos)
  BY <1>1, <1>7, KeptSymbol
<1> QED
  BY <1>1, <1>2, <1>4, <1>6, <1>7, <1>8, OpenStep

LEMMA MeetPlainCharReads ==
  ASSUME Inv, ReadInv, MeetPlainChar
  PROVE  ReadInv'
<1>1. /\ Scanning /\ state = "Normal" /\ ~IsDelimiterCommand /\ ~StartsWithDelimiter(pos)
      /\ ~StartsLineComment(pos) /\ ~StartsBlockComment(pos) /\ ~DollarQuoteHere
      /\ Here \notin {SingleQuote, DoubleQuote, Backtick} /\ state' = "Normal"
      /\ pos' = pos + 1 /\ statement' = statement \o <<Here>>
      /\ UNCHANGED <<inputVars, phase, delimiter, dollarTag, queryList>>
  BY DEF MeetPlainChar, InStatement, Reading, Consume, QuoteState
<1>2. /\ IsText(text) /\ pos \in 1..Len(text) /\ statement \in Seq(Symbols)
      /\ pos \in pos..Len(text) /\ delimiter \in Delimiters
  BY <1>1, Parts
<1>3. Token(text, pos, delimiter, dollarQuoting) = [kind |-> "text", last |-> pos]
  BY <1>1, TokenIsSeen, Zenon DEF ReadInv
<1>4. "Normal" \notin CommentStates
  BY DEF CommentStates
<1>5. StatementsFrom(text, dollarQuoting, pos, delimiter, statement)
        = StatementsFrom(text, dollarQuoting, pos + 1, delimiter,
                         With(text, "Normal", statement, pos, pos))
  <2>1. /\ Token(text, pos, delimiter, dollarQuoting).kind
             = IF "Normal" \in CommentStates THEN "comment" ELSE "text"
        /\ Token(text, pos, delimiter, dollarQuoting).last = pos
    BY <1>3, <1>4
  <2> QED
    BY <1>2, <2>1, PartReads
<1>6. statement' = With(text, "Normal", statement, pos, pos)
  BY <1>1, <1>4, KeptSymbol
<1>7. Rest(text, dollarQuoting, state', pos', delimiter', statement', dollarTag')
        = Rest(text, dollarQuoting, state, pos, delimiter, statement, dollarTag)
  BY <1>1, <1>5, <1>6 DEF Rest
<1> QED
  BY <1>1, <1>7, ReadStep DEF ReadInv

-----------------------------------------------------------------------------
(* The steps inside what is open                                           *)

LEMMA ConsumeQuotedCharReads ==
  ASSUME Inv, ReadInv, NEW s, NEW quote, ConsumeQuotedChar(s, quote),
         \/ s = "SingleQuote" /\ quote = SingleQuote
         \/ s = "DoubleQuote" /\ quote = DoubleQuote
  PROVE  ReadInv'
<1>1. /\ Scanning /\ state = s /\ state # "Normal" /\ state \notin CommentStates
      /\ UNCHANGED <<inputVars, phase, delimiter, dollarTag, queryList>>
      /\ quote \in {SingleQuote, DoubleQuote}
  BY DEF ConsumeQuotedChar, Reading, CommentStates
<1>2. /\ IsText(text) /\ text \in Seq(Symbols) /\ pos \in 1..Len(text) /\ Len(text) \in Nat
      /\ text[pos] = Here /\ pos \in pos..Len(text)
  BY <1>1, Parts DEF Here
<1>3. \A p, e : Closes(text, state, p, dollarTag, e) <=> ClosesString(text, p, quote, e)
  BY <1>1 DEF Closes
<1>4. CASE Here = Backslash
  <2>1. pos < Len(text)
    <3>1. text[Len(text)] = Newline
      BY <1>2, EmptySeq DEF IsText
    <3> QED
      BY <1>2, <1>4, <3>1 DEF Newline, Backslash
  <2>2. /\ pos' = (pos + 1) + 1 /\ state' = state
        /\ statement' = statement \o SubSeq(text, pos, pos + 1)
    BY <1>2, <1>4, <2>1 DEF ConsumeQuotedChar, Consume
  <2>3. statement' = With(text, state, statement, pos, pos + 1)
    BY <1>1, <2>2 DEF With
  <2>4. /\ ~ClosesString(text, pos, quote, pos) /\ ~ClosesString(text, pos, quote, pos + 1)
        /\ \A e \in (pos + 2)..Len(text) :
             ClosesString(text, pos, quote, e) <=> ClosesString(text, pos + 2, quote, e)
    BY <1>1, <1>2, <1>4, <2>1, EscapeInString
  <2>5. /\ pos + 1 \in pos..Len(text) /\ (pos + 1) + 1 = pos + 2
        /\ \A e \in pos..(pos + 1) : e = pos \/ e = pos + 1
    BY <1>2, <2>1
  <2>6. /\ \A e \in pos..(pos + 1) : ~Closes(text, state, pos, dollarTag, e)
        /\ \A e \in ((pos + 1) + 1)..Len(text) :
             Closes(text, state, pos, dollarTag, e)
               <=> Closes(text, state, (pos + 1) + 1, dollarTag, e)
    BY <1>3, <2>4, <2>5
  <2> QED
    BY <1>1, <2>2, <2>3, <2>5, <2>6, MoveStep
<1>5. CASE Here = quote
  <2>1. Here # Backslash
    BY <1>1, <1>5 DEF Backslash, SingleQuote, DoubleQuote
  <2>2. /\ pos' = pos + 1 /\ state' = "Normal" /\ statement' = statement \o <<Here>>
    BY <1>5, <2>1 DEF ConsumeQuotedChar, Consume
  <2>3. statement' = With(text, state, statement, pos, pos)
    BY <1>1, <2>2, KeptSymbol
  <2>4. Closes(text, state, pos, dollarTag, pos)
    BY <1>2, <1>3, <1>5, QuoteInString
  <2>5. \A e \in pos..(pos - 1) : ~Closes(text, state, pos, dollarTag, e)
    BY <1>2
  <2> QED
    BY <1>1, <1>2, <2>2, <2>3, <2>4, <2>5, CloseStep
<1>6. CASE Here # Backslash /\ Here # quote
  <2>1. /\ pos' = pos + 1 /\ state' = state /\ statement' = statement \o <<Here>>
    BY <1>6 DEF ConsumeQuotedChar, Consume
  <2>2. statement' = With(text, state, statement, pos, pos)
    BY <1>1, <2>1, KeptSymbol
  <2>3. /\ ~ClosesString(text, pos, quote, pos)
        /\ \A e \in (pos + 1)..Len(text) :
             ClosesString(text, pos, quote, e) <=> ClosesString(text, pos + 1, quote, e)
    BY <1>1, <1>2, <1>6, PlainInString
  <2>4. /\ \A e \in pos..pos : ~Closes(text, state, pos, dollarTag, e)
        /\ \A e \in (pos + 1)..Len(text) :
             Closes(text, state, pos, dollarTag, e)
               <=> Closes(text, state, pos + 1, dollarTag, e)
    BY <1>2, <1>3, <2>3
  <2> QED
    BY <1>1, <1>2, <2>1, <2>2, <2>4, MoveStep
<1> QED
  BY <1>4, <1>5, <1>6

\* Where one symbol closes, whatever stands before it.
LEMMA OneSymbolReads ==
  ASSUME Inv, ReadInv, Scanning, state # "Normal", NEW closing,
         \A p, e : Closes(text, state, p, dollarTag, e) <=> text[e] = closing,
         pos' = pos + 1, statement' = With(text, state, statement, pos, pos),
         state' = IF Here = closing THEN "Normal" ELSE state,
         UNCHANGED <<inputVars, phase, delimiter, dollarTag, queryList>>
  PROVE  ReadInv'
<1>1. pos \in 1..Len(text) /\ Len(text) \in Nat /\ text[pos] = Here /\ pos \in pos..Len(text)
  BY Parts DEF Here
<1>2. CASE Here = closing
  <2>1. \A e \in pos..(pos - 1) : ~Closes(text, state, pos, dollarTag, e)
    BY <1>1
  <2>2. Closes(text, state, pos, dollarTag, pos) /\ state' = "Normal"
    BY <1>1, <1>2
  <2> QED
    BY <1>1, <2>1, <2>2, CloseStep
<1>3. CASE Here # closing
  <2>1. \A e \in pos..pos : ~Closes(text, state, pos, dollarTag, e)
    BY <1>1, <1>3
  <2>2. /\ state' = state
        /\ \A e \in (pos + 1)..Len(text) :
             Closes(text, state, pos, dollarTag, e)
               <=> Closes(text, state, pos + 1, dollarTag, e)
    BY <1>3
  <2> QED
    BY <1>1, <2>1, <2>2, MoveStep
<1> QED
  BY <1>2, <1>3

LEMMA ConsumeBacktickCharReads ==
  ASSUME Inv, ReadInv, ConsumeBacktickChar
  PROVE  ReadInv'
<1>1. /\ Scanning /\ state = "Backtick" /\ state # "Normal"
      /\ pos' = pos + 1 /\ statement' = statement \o <<Here>>
      /\ state' = IF Here = Backtick THEN "Normal" ELSE state
      /\ UNCHANGED <<inputVars, phase, delimiter, dollarTag, queryList>>
  BY DEF ConsumeBacktickChar, Reading, Consume
<1>2. \A p, e : Closes(text, state, p, dollarTag, e) <=> text[e] = Backtick
  BY <1>1 DEF Closes
<1>3. statement' = With(text, state, statement, pos, pos)
  BY <1>1, KeptSymbol DEF CommentStates
<1> QED
  BY <1>1, <1>2, <1>3, OneSymbolReads

LEMMA ConsumeLineCommentCharReads ==
  ASSUME Inv, ReadInv, ConsumeLineCommentChar
  PROVE  ReadInv'
<1>1. /\ Scanning /\ state = "LineComment" /\ state # "Normal"
      /\ pos' = pos + 1 /\ statement' = statement \o <<>>
      /\ state' = IF Here = Newline THEN "Normal" ELSE state
      /\ UNCHANGED <<inputVars, phase, delimiter, dollarTag, queryList>>
  BY DEF ConsumeLineCommentChar, Reading, Consume
<1>2. \A p, e : Closes(text, state, p, dollarTag, e) <=> text[e] = Newline
  BY <1>1 DEF Closes
<1>3. statement' = With(text, state, statement, pos, pos)
  BY <1>1, NothingKept DEF CommentStates
<1> QED
  BY <1>1, <1>2, <1>3, OneSymbolReads

LEMMA ConsumeBlockCommentCharReads ==
  ASSUME Inv, ReadInv, ConsumeBlockCommentChar
  PROVE  ReadInv'
<1>1. /\ Scanning /\ state = "BlockComment" /\ state # "Normal" /\ state \in CommentStates
      /\ UNCHANGED <<inputVars, phase, delimiter, dollarTag, queryList>>
  BY DEF ConsumeBlockCommentChar, Reading, CommentStates
<1>2. pos \in 1..Len(text) /\ Len(text) \in Nat /\ text[pos] = Here /\ pos \in pos..Len(text)
  BY <1>1, Parts DEF Here
<1>3. \A p, e : Closes(text, state, p, dollarTag, e)
                  <=> e > p /\ text[e - 1] = "*" /\ text[e] = "/"
  BY <1>1 DEF Closes
<1>4. CASE Here = "*" /\ Is(pos + 1, "/")
  <2>1. pos' = (pos + 1) + 1 /\ state' = "Normal" /\ statement' = statement \o <<>>
    BY <1>2, <1>4 DEF ConsumeBlockCommentChar, Consume
  <2>2. pos + 1 \in pos..Len(text) /\ (pos + 1) - 1 = pos
    BY <1>2, <1>4 DEF Is
  <2>3. statement' = With(text, state, statement, pos, pos + 1)
    BY <1>1, <2>1, NothingKept
  <2>4. Closes(text, state, pos, dollarTag, pos + 1)
    BY <1>2, <1>3, <1>4, <2>2 DEF Is
  <2>5. \A e \in pos..((pos + 1) - 1) : ~Closes(text, state, pos, dollarTag, e)
    BY <1>2, <1>3
  <2> QED
    BY <1>1, <2>1, <2>2, <2>3, <2>4, <2>5, CloseStep
<1>5. CASE ~(Here = "*" /\ Is(pos + 1, "/"))
  <2>1. pos' = pos + 1 /\ state' = state /\ statement' = statement \o <<>>
    BY <1>5 DEF ConsumeBlockCommentChar, Consume
  <2>2. statement' = With(text, state, statement, pos, pos)
    BY <1>1, <2>1, NothingKept
  <2>3. \A e \in pos..pos : ~Closes(text, state, pos, dollarTag, e)
    BY <1>2, <1>3
  <2>4. ASSUME NEW e \in (pos + 1)..Len(text)
        PROVE  Closes(text, state, pos, dollarTag, e)
                 <=> Closes(text, state, pos + 1, dollarTag, e)
    <3>1. e > pos /\ (e > pos + 1 \/ e = pos + 1)
      BY <1>2
    <3>2. e = pos + 1 => ~(text[e - 1] = "*" /\ text[e] = "/")
      <4>1. (pos + 1) - 1 = pos
        BY <1>2
      <4> QED
        BY <1>2, <1>5, <4>1 DEF Is
    <3> QED
      BY <1>2, <1>3, <3>1, <3>2
  <2> QED
    BY <1>1, <1>2, <2>1, <2>2, <2>3, <2>4, MoveStep
<1> QED
  BY <1>4, <1>5

LEMMA ConsumeDollarQuoteCharReads ==
  ASSUME Inv, ReadInv, ConsumeDollarQuoteChar
  PROVE  ReadInv'
<1>1. /\ Scanning /\ state = "DollarQuote" /\ state # "Normal" /\ state \notin CommentStates
      /\ UNCHANGED <<inputVars, phase, delimiter, queryList>>
  BY DEF ConsumeDollarQuoteChar, Reading, CommentStates
<1>2. /\ pos \in 1..Len(text) /\ Len(text) \in Nat /\ text \in Seq(Symbols)
      /\ text[pos] = Here /\ pos \in pos..Len(text)
  BY <1>1, Parts DEF Here
<1>3. dollarTag \in Seq(Symbols) /\ Len(dollarTag) \in Nat \ {0} /\ dollarTag[1] = "$"
  BY <1>1, EmptySeq DEF Inv, TypeOK, TagInv, ReadInv
<1> DEFINE n == Len(dollarTag)
           z == pos + n - 1
<1>4. \A p, e : Closes(text, state, p, dollarTag, e)
                  <=> e >= p + n - 1 /\ Occurs(dollarTag, text, e - n + 1)
  BY <1>1 DEF Closes
<1>5. n \in Nat \ {0} /\ z >= pos /\ z - n + 1 = pos /\ z \in Nat
  BY <1>2, <1>3
<1>6. Occurs(dollarTag, text, pos) => Here = "$" /\ z <= Len(text)
  <2>1. SUFFICES ASSUME Occurs(dollarTag, text, pos) PROVE Here = "$" /\ z <= Len(text)
    OBVIOUS
  <2>2. z <= Len(text) /\ SubSeq(text, pos, z) = dollarTag
    BY <2>1 DEF Occurs
  <2>3. \A i \in pos..z : text[i] \in Symbols
    BY <1>2, <1>5, <2>2, ElementOfSeq
  <2>4. SubSeq(text, pos, z)[1] = text[pos + 1 - 1]
    <3> HIDE DEF z
    <3> QED
      BY <1>2, <1>5, <2>3, SubSeqProperties
  <2> QED
    BY <1>2, <1>3, <2>2, <2>4
<1>7. ClosesDollarQuote <=> Occurs(dollarTag, text, pos)
  BY <1>6 DEF ClosesDollarQuote
<1> HIDE DEF n, z
<1>8. CASE ClosesDollarQuote
  <2>1. /\ Occurs(dollarTag, text, pos) /\ z \in pos..Len(text) /\ pos + n = z + 1
    BY <1>2, <1>5, <1>6, <1>7, <1>8
  <2>2. /\ pos' = z + 1 /\ state' = "Normal" /\ statement' = statement \o dollarTag
    BY <1>8, <2>1 DEF ConsumeDollarQuoteChar, Consume, n
  <2>3. SubSeq(text, pos, z) = dollarTag
    BY <2>1 DEF Occurs, n, z
  <2>4. statement' = With(text, state, statement, pos, z)
    BY <1>1, <2>2, <2>3 DEF With
  <2>5. Closes(text, state, pos, dollarTag, z)
    BY <1>4, <1>5, <2>1 DEF z
  <2>6. \A e \in pos..(z - 1) : ~Closes(text, state, pos, dollarTag, e)
    BY <1>2, <1>4, <1>5 DEF z
  <2> QED
    BY <1>1, <2>1, <2>2, <2>4, <2>5, <2>6, CloseStep
<1>9. CASE ~ClosesDollarQuote
  <2>1. pos' = pos + 1 /\ state' = state /\ dollarTag' = dollarTag /\ statement' = statement \o <<Here>>
    BY <1>9 DEF ConsumeDollarQuoteChar, Consume
  <2>2. statement' = With(text, state, statement, pos, pos)
    BY <1>1, <2>1, KeptSymbol
  <2>3. ASSUME NEW e \in pos..Len(text), e <= z
        PROVE  ~Closes(text, state, pos, dollarTag, e)
    <3>1. e = z \/ ~(e >= pos + n - 1)
      BY <1>2, <1>5, <2>3 DEF z
    <3>2. e = z => e - n + 1 = pos
      BY <1>5
    <3> QED
      BY <1>4, <1>7, <1>9, <3>1, <3>2
  <2>4. \A e \in pos..pos : ~Closes(text, state, pos, dollarTag, e)
    BY <1>2, <1>5, <2>3
  <2>5. ASSUME NEW e \in (pos + 1)..Len(text)
        PROVE  Closes(text, state, pos, dollarTag, e)
                 <=> Closes(text, state, pos + 1, dollarTag, e)
    <3>1. CASE e <= z
      <4>1. ~Closes(text, state, pos, dollarTag, e)
        BY <1>2, <2>3, <3>1
      <4>2. ~(e >= (pos + 1) + n - 1)
        BY <1>2, <1>5, <3>1 DEF z
      <4> QED
        BY <1>4, <4>1, <4>2
    <3>2. CASE e > z
      <4>1. e >= pos + n - 1 /\ e >= (pos + 1) + n - 1
        BY <1>2, <1>5, <3>2 DEF z
      <4> QED
        BY <1>4, <4>1
    <3> QED
      BY <1>2, <1>5, <3>1, <3>2
  <2> QED
    BY <1>1, <1>2, <2>1, <2>2, <2>4, <2>5, MoveStep
<1> QED
  BY <1>8, <1>9

-----------------------------------------------------------------------------
(* The theorems                                                            *)

\* The first state.
LEMMA Initially == Init => Inv
<1> SUFFICES ASSUME Init PROVE Inv
  OBVIOUS
<1>1. text \in Seq(Symbols) /\ TextInv
  <2>1. CASE text = <<>>
    BY <2>1 DEF TextInv
  <2>2. ASSUME NEW alphabet \in Alphabets, NEW s \in BoundedSeq(alphabet, MaxLength),
               text = Append(s, Newline)
        PROVE  text \in Seq(Symbols) /\ TextInv
    <3>1. PICK n \in 0..MaxLength : s \in [1..n -> alphabet]
      BY DEF BoundedSeq, SeqOf
    <3>2. alphabet \subseteq Symbols /\ n \in Nat
      BY TextAssumption
    <3>3. s \in [1..n -> Symbols]
      BY <3>1, <3>2
    <3>4. s \in Seq(Symbols)
      BY <3>2, <3>3
    <3>5. Newline \in Symbols
      BY DEF Symbols, Blanks
    <3> QED
      BY <2>2, <3>4, <3>5, AppendProperties DEF TextInv
  <2> QED
    BY <2>1, <2>2 DEF Init
<1>2. dollarQuoting \in BOOLEAN
  BY TextAssumption DEF Init
<1>3. pos \in 1..(Len(text) + 1)
  <2>1. Len(text) \in Nat
    BY <1>1
  <2>2. pos = 1
    BY DEF Init
  <2> QED
    BY <2>1, <2>2
<1>4. delimiter \in Seq(Symbols)
  <2>1. ";" \in Symbols
    BY DEF Symbols
  <2>2. \A c \in Symbols : <<c>> \in Seq(Symbols)
    OBVIOUS
  <2>3. delimiter = <<";">>
    BY DEF Init
  <2>4. <<";">> \in Seq(Symbols)
    BY <2>1, <2>2
  <2> QED
    BY <2>3, <2>4
<1>5. state \in ScanStates /\ TagInv
  BY DEF Init, ScanStates, TagInv
<1>6. queryList \in Seq(Seq(Symbols)) /\ QueriesAreTrimmed
  <2>1. queryList = <<>>
    BY DEF Init
  <2> QED
    BY <2>1 DEF QueriesAreTrimmed
<1>7. statement \in Seq(Symbols) /\ dollarTag \in Seq(Symbols)
  <2>1. statement = <<>> /\ dollarTag = <<>>
    BY DEF Init
  <2> QED
    BY <2>1
<1>8. phase \in {"open", "scan", "loaded", "failed"}
  BY DEF Init
<1> QED
  BY <1>1, <1>2, <1>3, <1>4, <1>5, <1>6, <1>7, <1>8 DEF Inv, TypeOK

\* Every step keeps the invariant and moves forward.
LEMMA EveryStep == Inv /\ Next => Good
<1> SUFFICES ASSUME Inv, Next PROVE Good
  OBVIOUS
<1>1. CASE OpenFile
  BY <1>1, OpenFileStep
<1>2. CASE ReadDelimiterCommand
  BY <1>2, ReadDelimiterCommandStep
<1>3. CASE ConsumeNormalChar
  BY <1>3, MeetDelimiterStep, MeetLineCommentStep, MeetBlockCommentStep,
     MeetDollarQuoteStep, MeetQuoteStep, MeetPlainCharStep DEF ConsumeNormalChar
<1>4. CASE ConsumeQuotedChar("SingleQuote", SingleQuote)
  BY <1>4, ConsumeQuotedCharStep DEF ScanStates
<1>5. CASE ConsumeQuotedChar("DoubleQuote", DoubleQuote)
  BY <1>5, ConsumeQuotedCharStep DEF ScanStates
<1>6. CASE ConsumeBacktickChar
  BY <1>6, ConsumeBacktickCharStep
<1>7. CASE ConsumeLineCommentChar
  BY <1>7, ConsumeLineCommentCharStep
<1>8. CASE ConsumeBlockCommentChar
  BY <1>8, ConsumeBlockCommentCharStep
<1>9. CASE ConsumeDollarQuoteChar
  BY <1>9, ConsumeDollarQuoteCharStep
<1>10. CASE EndOfFile
  BY <1>10, EndOfFileStep
<1> QED
  BY <1>1, <1>2, <1>3, <1>4, <1>5, <1>6, <1>7, <1>8, <1>9, <1>10 DEF Next

LEMMA Stutters == Inv /\ UNCHANGED vars => Inv'
BY DEF Inv, TypeOK, TextInv, TagInv, QueriesAreTrimmed, vars, inputVars

\* Every step keeps the list and the rest in step with the script.
LEMMA EveryStepReads == Inv /\ ReadInv /\ Next => ReadInv'
<1> SUFFICES ASSUME Inv, ReadInv, Next PROVE ReadInv'
  OBVIOUS
<1>1. CASE OpenFile
  BY <1>1, OpenFileReads
<1>2. CASE ReadDelimiterCommand
  BY <1>2, ReadDelimiterCommandReads
<1>3. CASE ConsumeNormalChar
  BY <1>3, MeetDelimiterReads, MeetLineCommentReads, MeetBlockCommentReads,
     MeetDollarQuoteReads, MeetQuoteReads, MeetPlainCharReads DEF ConsumeNormalChar
<1>4. CASE ConsumeQuotedChar("SingleQuote", SingleQuote)
  BY <1>4, ConsumeQuotedCharReads
<1>5. CASE ConsumeQuotedChar("DoubleQuote", DoubleQuote)
  BY <1>5, ConsumeQuotedCharReads
<1>6. CASE ConsumeBacktickChar
  BY <1>6, ConsumeBacktickCharReads
<1>7. CASE ConsumeLineCommentChar
  BY <1>7, ConsumeLineCommentCharReads
<1>8. CASE ConsumeBlockCommentChar
  BY <1>8, ConsumeBlockCommentCharReads
<1>9. CASE ConsumeDollarQuoteChar
  BY <1>9, ConsumeDollarQuoteCharReads
<1>10. CASE EndOfFile
  BY <1>10, EndOfFileReads
<1> QED
  BY <1>1, <1>2, <1>3, <1>4, <1>5, <1>6, <1>7, <1>8, <1>9, <1>10 DEF Next

LEMMA StuttersRead == ReadInv /\ UNCHANGED vars => ReadInv'
BY DEF ReadInv, LoadsTheStatements, vars, inputVars

LEMMA InitiallyReads == Init => ReadInv
<1>1. <<";">> # <<>>
  OBVIOUS
<1> QED
  BY <1>1 DEF Init, ReadInv, LoadsTheStatements

\* The inductive invariant holds always.
THEOREM Invariance == Spec => []Inv
<1>1. Inv /\ [Next]_vars => Inv'
  BY EveryStep, Stutters DEF Good
<1> QED
  BY Initially, <1>1, PTL DEF Spec

\* The position of the scanner never leaves the text, whatever the text.
\* (cSqlFileParser.cpp:268-294)
THEOREM TypeCorrect == Spec => []TypeOK
<1>1. Inv => TypeOK
  BY DEF Inv
<1> QED
  BY Invariance, <1>1, PTL

\* Every step of the scan moves forward, so that with TypeCorrect the scan of
\* every text ends.  (cSqlFileParser.cpp:148, 244)
THEOREM ScanEnds == Spec => ScanAdvances
<1>1. Inv /\ [Next]_vars => [Scanning => pos' > pos]_vars
  BY EveryStep DEF Good
<1> QED
  BY Invariance, <1>1, PTL DEF Spec, ScanAdvances

\* What is sent to the server is never an empty statement, nor one with blanks
\* at its ends.  (cSqlFileParser.cpp:40-48)
THEOREM QueriesTrimmed == Spec => []QueriesAreTrimmed
<1>1. Inv => QueriesAreTrimmed
  BY DEF Inv
<1> QED
  BY Invariance, <1>1, PTL

\* Whatever the text, and in both dialects, what is loaded are the statements of
\* the script: quotes, comments, dollar quotes and DELIMITER commands end where
\* they end for the grammar.  (cSqlFileParser.cpp:40-294)
THEOREM StatementsLoaded == Spec => []LoadsTheStatements
<1>1. Inv /\ ReadInv /\ [Next]_vars => ReadInv'
  BY EveryStepReads, StuttersRead
<1>2. ReadInv => LoadsTheStatements
  BY DEF ReadInv
<1> QED
  BY Invariance, InitiallyReads, <1>1, <1>2, PTL DEF Spec
=============================================================================
