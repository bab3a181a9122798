-------------------------- MODULE IniReaderProofs --------------------------
(***************************************************************************)
(* Theorems about IniReader, for every file: the scanner takes each line    *)
(* for what the grammar says it is, and after the last line the reader holds *)
(* what the file says.                                                      *)
(***************************************************************************)
EXTENDS IniReader, DataInduction, SequenceTheorems

-----------------------------------------------------------------------------
(* Parts of a line                                                         *)

LEMMA TextIs ==
  ASSUME NEW text, IsText(text)
  PROVE  Len(text) \in Nat /\ DOMAIN text = 1..Len(text)
  BY DEF IsText

LEMMA Part ==
  ASSUME NEW line, IsText(line), NEW m \in Nat \ {0}, NEW n \in 0..Len(line),
         m <= n
  PROVE  /\ SubSeq(line, m, n) # <<>>
         /\ Len(SubSeq(line, m, n)) = n - m + 1
         /\ DOMAIN SubSeq(line, m, n) = 1..(n - m + 1)
         /\ \A k \in 1..(n - m + 1) : SubSeq(line, m, n)[k] = line[m + k - 1]
         /\ \A i \in m..n : SubSeq(line, m, n)[i - m + 1] = line[i]
<1> DEFINE part == SubSeq(line, m, n)
<1>1. Len(line) \in Nat /\ DOMAIN line = 1..Len(line)
  BY TextIs
<1>2. \A i \in m..n : line[i] \in Range(line)
  BY <1>1 DEF Range
<1>3. /\ part \in Seq(Range(line))
      /\ Len(part) = n - m + 1
      /\ \A k \in 1..(n - m + 1) : part[k] = line[m + k - 1]
  BY <1>1, <1>2, SubSeqProperties
<1> HIDE DEF part
<1>4. DOMAIN part = 1..(n - m + 1) /\ part # <<>>
  BY <1>1, <1>3
<1>5. ASSUME NEW i \in m..n PROVE part[i - m + 1] = line[i]
  <2>1. i - m + 1 \in 1..(n - m + 1) /\ m + (i - m + 1) - 1 = i
    BY <1>1
  <2>2. part[i - m + 1] = line[m + (i - m + 1) - 1]
    BY <1>3, <2>1
  <2> QED
    BY <2>1, <2>2
<1> QED
  BY <1>3, <1>4, <1>5 DEF part

\* A part that would end before it starts is empty.
LEMMA NoPart ==
  ASSUME NEW line, NEW m \in Nat, NEW n \in Nat, n < m
  PROVE  SubSeq(line, m, n) = <<>> /\ Range(<<>>) = {}
<1>1. SubSeq(line, m, n) = <<>>
  BY SubSeqEmpty
<1>2. Range(<<>>) = {}
  BY DEF Range
<1> QED
  BY <1>1, <1>2

LEMMA PartIsBlank ==
  ASSUME NEW line, IsText(line), NEW m \in Nat \ {0}, NEW n \in 0..Len(line)
  PROVE  IsBlankText(SubSeq(line, m, n)) <=> \A i \in m..n : line[i] \in Blanks
<1>1. CASE m <= n
  <2> DEFINE part == SubSeq(line, m, n)
  <2>1. /\ DOMAIN part = 1..(n - m + 1)
        /\ \A k \in 1..(n - m + 1) : part[k] = line[m + k - 1]
        /\ \A i \in m..n : part[i - m + 1] = line[i]
    BY <1>1, Part
  <2> HIDE DEF part
  <2>2. n \in Nat
    BY TextIs
  <2>3. ASSUME Range(part) \subseteq Blanks, NEW i \in m..n
        PROVE  line[i] \in Blanks
    <3>1. i - m + 1 \in DOMAIN part
      BY <2>1, <2>2
    <3> QED
      BY <2>1, <2>3, <3>1 DEF Range
  <2>4. ASSUME \A i \in m..n : line[i] \in Blanks, NEW k \in DOMAIN part
        PROVE  part[k] \in Blanks
    <3>1. m + k - 1 \in m..n
      BY <2>1, <2>2
    <3> QED
      BY <2>1, <2>4, <3>1
  <2> QED
    BY <2>3, <2>4 DEF IsBlankText, Range, part
<1>2. CASE ~(m <= n)
  <2>1. n \in Nat
    BY TextIs
  <2>2. n < m
    BY <1>2, <2>1
  <2>3. Range(SubSeq(line, m, n)) = {}
    BY <2>1, <2>2, NoPart
  <2>4. \A i \in m..n : FALSE
    BY <2>1, <2>2
  <2> QED
    BY <2>3, <2>4 DEF IsBlankText
<1> QED
  BY <1>1, <1>2

LEMMA PartIsKey ==
  ASSUME NEW line, IsText(line), NEW m \in Nat \ {0}, NEW n \in 0..Len(line)
  PROVE  IsKey(SubSeq(line, m, n)) <=>
           /\ m <= n
           /\ line[m] \notin Blanks
           /\ \A i \in (m + 1)..n : line[i] \notin KeyEnds
<1>0. n \in Nat
  BY TextIs
<1>1. CASE m <= n
  <2> DEFINE part == SubSeq(line, m, n)
  <2>1. /\ part # <<>> /\ Len(part) = n - m + 1
        /\ \A k \in 1..(n - m + 1) : part[k] = line[m + k - 1]
        /\ \A i \in m..n : part[i - m + 1] = line[i]
    BY <1>1, Part
  <2> HIDE DEF part
  <2>2. part[1] = line[m]
    BY <1>0, <1>1, <2>1
  <2>3. ASSUME \A k \in 2..Len(part) : part[k] \notin KeyEnds,
               NEW i \in (m + 1)..n
        PROVE  line[i] \notin KeyEnds
    <3>1. i \in m..n /\ i - m + 1 \in 2..Len(part)
      BY <1>0, <1>1, <2>1
    <3> QED
      BY <2>1, <2>3, <3>1
  <2>4. ASSUME \A i \in (m + 1)..n : line[i] \notin KeyEnds,
               NEW k \in 2..Len(part)
        PROVE  part[k] \notin KeyEnds
    <3>1. k \in 1..(n - m + 1) /\ m + k - 1 \in (m + 1)..n
      BY <1>0, <1>1, <2>1
    <3> QED
      BY <2>1, <2>4, <3>1
  <2> QED
    BY <1>1, <2>1, <2>2, <2>3, <2>4 DEF IsKey, part
<1>2. CASE ~(m <= n)
  BY <1>0, <1>2, NoPart DEF IsKey
<1> QED
  BY <1>1, <1>2

LEMMA PartIsGap ==
  ASSUME NEW line, IsText(line), NEW m \in Nat \ {0}, NEW n \in 0..Len(line)
  PROVE  IsGap(SubSeq(line, m, n)) <=>
           /\ \A i \in m..n : line[i] \in Blanks
           /\ m <= n => line[m] \in KeyEnds
<1>0. n \in Nat
  BY TextIs
<1>1. CASE m <= n
  <2>1. SubSeq(line, m, n) # <<>> /\ SubSeq(line, m, n)[1] = line[m]
    <3>1. SubSeq(line, m, n)[m - m + 1] = line[m] /\ m - m + 1 = 1
      BY <1>0, <1>1, Part
    <3> QED
      BY <1>1, <3>1, Part
  <2> QED
    BY <1>1, <2>1, PartIsBlank DEF IsGap
<1>2. CASE ~(m <= n)
  BY <1>0, <1>2, NoPart, PartIsBlank DEF IsGap
<1> QED
  BY <1>1, <1>2

LEMMA PartIsValue ==
  ASSUME NEW line, IsText(line), NEW m \in Nat \ {0}, NEW n \in 0..Len(line)
  PROVE  IsValue(SubSeq(line, m, n)) <=>
           /\ m <= n
           /\ line[m] \notin Blanks /\ line[n] \notin Blanks
           /\ \A i \in m..(n - 1) : line[i] \in Blanks => line[i + 1] \notin Blanks
<1>0. n \in Nat
  BY TextIs
<1>1. CASE m <= n
  <2> DEFINE part == SubSeq(line, m, n)
  <2>1. /\ part # <<>> /\ Len(part) = n - m + 1
        /\ \A k \in 1..(n - m + 1) : part[k] = line[m + k - 1]
        /\ \A i \in m..n : part[i - m + 1] = line[i]
    BY <1>1, Part
  <2> HIDE DEF part
  <2>2. part[1] = line[m] /\ part[Len(part)] = line[n]
    <3>1. part[m - m + 1] = line[m] /\ part[n - m + 1] = line[n]
      BY <1>0, <1>1, <2>1
    <3> QED
      BY <2>1, <3>1
  <2>3. ASSUME \A k \in 1..(Len(part) - 1) : ~({part[k], part[k + 1]} \subseteq Blanks),
               NEW i \in m..(n - 1), line[i] \in Blanks
        PROVE  line[i + 1] \notin Blanks
    <3> DEFINE k == i - m + 1
    <3>1. k \in 1..(Len(part) - 1) /\ i \in m..n /\ i + 1 \in m..n
      BY <1>0, <1>1, <2>1
    <3>2. part[k] = line[i] /\ part[k + 1] = line[i + 1]
      <4>1. (i + 1) - m + 1 = k + 1
        BY <3>1
      <4> QED
        BY <2>1, <3>1, <4>1
    <3> QED
      BY <2>3, <3>1, <3>2
  <2>4. ASSUME \A i \in m..(n - 1) : line[i] \in Blanks => line[i + 1] \notin Blanks,
               NEW k \in 1..(Len(part) - 1)
        PROVE  ~({part[k], part[k + 1]} \subseteq Blanks)
    <3> DEFINE i == m + k - 1
    <3>1. i \in m..(n - 1) /\ k \in 1..(n - m + 1) /\ k + 1 \in 1..(n - m + 1)
      BY <1>0, <1>1, <2>1
    <3>2. part[k] = line[i] /\ part[k + 1] = line[i + 1]
      <4>1. m + (k + 1) - 1 = i + 1
        BY <3>1
      <4> QED
        BY <2>1, <3>1, <4>1
    <3> QED
      BY <2>4, <3>1, <3>2
  <2> QED
    BY <1>1, <2>1, <2>2, <2>3, <2>4 DEF IsValue, part
<1>2. CASE ~(m <= n)
  BY <1>0, <1>2, NoPart DEF IsValue
<1> QED
  BY <1>1, <1>2

-----------------------------------------------------------------------------
(* Where the scanner stops                                                 *)

LEMMA FindIs ==
  ASSUME NEW line, IsText(line), NEW pos \in 1..(Len(line) + 1), NEW symbols
  PROVE  LET p == Find(line, pos, symbols)
         IN  /\ p \in pos..(Len(line) + 1)
             /\ \A i \in pos..(p - 1) : line[i] \notin symbols
             /\ p <= Len(line) => line[p] \in symbols
<1> DEFINE S == {i \in pos..Len(line) : line[i] \in symbols} \cup {Len(line) + 1}
<1>1. Len(line) \in Nat
  BY TextIs
<1>2. S \in SUBSET Nat /\ S # {} /\ S \subseteq pos..(Len(line) + 1)
  BY <1>1
<1>3. Find(line, pos, symbols) = Min(S)
  BY DEF Find
<1>4. \A i \in pos..Len(line) : line[i] \in symbols => i \in S
  OBVIOUS
<1>5. \A i \in S : i <= Len(line) => line[i] \in symbols
  BY <1>1
<1> HIDE DEF S
<1>6. Min(S) \in S /\ \A y \in S : Min(S) <= y
  BY <1>2, MinIs
<1>7. Min(S) \in pos..(Len(line) + 1)
  BY <1>2, <1>6
<1>8. ASSUME NEW i \in pos..(Min(S) - 1) PROVE line[i] \notin symbols
  <2>1. i \in pos..Len(line) /\ ~(Min(S) <= i)
    BY <1>1, <1>7
  <2> QED
    BY <1>4, <1>6, <2>1
<1> QED
  BY <1>3, <1>5, <1>6, <1>7, <1>8

\* There is one place only where it can stop.
LEMMA FindIsThere ==
  ASSUME NEW line, IsText(line), NEW pos \in 1..(Len(line) + 1), NEW symbols,
         NEW q \in pos..(Len(line) + 1),
         \A i \in pos..(q - 1) : line[i] \notin symbols,
         q <= Len(line) => line[q] \in symbols
  PROVE  Find(line, pos, symbols) = q
<1> DEFINE p == Find(line, pos, symbols)
<1>1. /\ p \in pos..(Len(line) + 1)
      /\ \A i \in pos..(p - 1) : line[i] \notin symbols
      /\ p <= Len(line) => line[p] \in symbols
  BY FindIs
<1>2. Len(line) \in Nat
  BY TextIs
<1> HIDE DEF p
<1>3. ~(p < q)
  <2> SUFFICES ASSUME p < q PROVE FALSE
    OBVIOUS
  <2>1. p \in pos..(q - 1) /\ p <= Len(line)
    BY <1>1, <1>2
  <2> QED
    BY <1>1, <2>1
<1>4. ~(q < p)
  <2> SUFFICES ASSUME q < p PROVE FALSE
    OBVIOUS
  <2>1. q \in pos..(p - 1) /\ q <= Len(line)
    BY <1>1, <1>2
  <2> QED
    BY <1>1, <2>1
<1>5. p = q
  BY <1>1, <1>2, <1>3, <1>4
<1> QED
  BY <1>5 DEF p

LEMMA SkipWsIs ==
  ASSUME NEW line, IsText(line), NEW pos \in 1..(Len(line) + 1)
  PROVE  LET p == SkipWs(line, pos)
         IN  /\ p \in pos..(Len(line) + 1)
             /\ \A i \in pos..(p - 1) : line[i] \in Blanks
             /\ p <= Len(line) => line[p] \notin Blanks
<1> DEFINE ink == Range(line) \ Blanks
<1>1. \A i \in pos..Len(line) : line[i] \in ink <=> line[i] \notin Blanks
  BY TextIs DEF Range
<1> HIDE DEF ink
<1>2. {i \in pos..Len(line) : line[i] \notin Blanks} =
      {i \in pos..Len(line) : line[i] \in ink}
  BY <1>1
<1>3. SkipWs(line, pos) = Find(line, pos, ink)
  BY <1>2 DEF SkipWs, Find
<1> DEFINE p == SkipWs(line, pos)
<1>4. /\ p \in pos..(Len(line) + 1)
      /\ \A i \in pos..(p - 1) : line[i] \notin ink
      /\ p <= Len(line) => line[p] \in ink
  BY <1>3, FindIs
<1> HIDE DEF p
<1>5. \A i \in pos..(p - 1) : line[i] \in Blanks
  <2> TAKE i \in pos..(p - 1)
  <2>1. i \in pos..Len(line)
    BY <1>4, TextIs
  <2> QED
    BY <1>1, <1>4, <2>1
<1>6. p <= Len(line) => line[p] \notin Blanks
  <2> HAVE p <= Len(line)
  <2>1. p \in pos..Len(line)
    BY <1>4, TextIs
  <2> QED
    BY <1>1, <1>4, <2>1
<1> QED
  BY <1>4, <1>5, <1>6 DEF p

LEMMA SkipWsIsThere ==
  ASSUME NEW line, IsText(line), NEW pos \in 1..(Len(line) + 1),
         NEW q \in pos..(Len(line) + 1),
         \A i \in pos..(q - 1) : line[i] \in Blanks,
         q <= Len(line) => line[q] \notin Blanks
  PROVE  SkipWs(line, pos) = q
<1> DEFINE p == SkipWs(line, pos)
<1>1. /\ p \in pos..(Len(line) + 1)
      /\ \A i \in pos..(p - 1) : line[i] \in Blanks
      /\ p <= Len(line) => line[p] \notin Blanks
  BY SkipWsIs
<1>2. Len(line) \in Nat
  BY TextIs
<1> HIDE DEF p
<1>3. ~(p < q)
  <2> SUFFICES ASSUME p < q PROVE FALSE
    OBVIOUS
  <2>1. p \in pos..(q - 1) /\ p <= Len(line)
    BY <1>1, <1>2
  <2> QED
    BY <1>1, <2>1
<1>4. ~(q < p)
  <2> SUFFICES ASSUME q < p PROVE FALSE
    OBVIOUS
  <2>1. q \in pos..(p - 1) /\ q <= Len(line)
    BY <1>1, <1>2
  <2> QED
    BY <1>1, <2>1
<1>5. p = q
  BY <1>1, <1>2, <1>3, <1>4
<1> QED
  BY <1>5 DEF p
-----------------------------------------------------------------------------
(* What the scanner takes a line for                                       *)

\* The first symbol of a line that is no blank.
Start(line) == SkipWs(line, 1)

LEMMA StartIs ==
  ASSUME NEW line, IsText(line)
  PROVE  /\ Len(line) \in Nat
         /\ Start(line) \in 1..(Len(line) + 1)
         /\ \A i \in 1..(Start(line) - 1) : line[i] \in Blanks
         /\ Start(line) <= Len(line) => line[Start(line)] \notin Blanks
<1>1. Len(line) \in Nat /\ 1 \in 1..(Len(line) + 1)
  BY TextIs
<1> QED
  BY <1>1, SkipWsIs DEF Start

\* What stands after blanks only stands at the start.
LEMMA IndentedIsStart ==
  ASSUME NEW line, IsText(line), NEW i \in 1..Len(line), line[i] \notin Blanks
  PROVE  IsIndented(line, i) <=> i = Start(line)
<1>1. Len(line) \in Nat /\ i - 1 \in 0..Len(line) /\ 1 \in 1..(Len(line) + 1)
  BY TextIs
<1>2. IsIndented(line, i) <=> \A j \in 1..(i - 1) : line[j] \in Blanks
  BY <1>1, PartIsBlank DEF IsIndented
<1>3. ASSUME \A j \in 1..(i - 1) : line[j] \in Blanks PROVE i = Start(line)
  BY <1>1, <1>3, SkipWsIsThere DEF Start
<1> QED
  BY <1>2, <1>3, StartIs

\* The lines that are passed over are those that say nothing.
LEMMA ScannerSkips ==
  ASSUME NEW line, IsText(line)
  PROVE  IsBlank(line) \/ IsComment(line) <=> Ignored(line)
<1> DEFINE s == Start(line)
           Mark(i) == \/ line[i] \in {";", "#"}
                      \/ i < Len(line) /\ line[i] = "-" /\ line[i + 1] = "-"
<1>1. /\ Len(line) \in Nat /\ DOMAIN line = 1..Len(line)
      /\ s \in 1..(Len(line) + 1)
      /\ \A i \in 1..(s - 1) : line[i] \in Blanks
      /\ s <= Len(line) => line[s] \notin Blanks
  BY TextIs, StartIs
<1>2. IsBlank(line) <=> s = Len(line) + 1
  BY DEF IsBlank, Start
<1>3. IsComment(line) <=> s <= Len(line) /\ Mark(s)
  BY DEF IsComment, Start
<1>4. IsBlankText(line) <=> \A i \in 1..Len(line) : line[i] \in Blanks
  BY <1>1 DEF IsBlankText, Range
<1>5. \A i \in 1..Len(line) : Mark(i) => line[i] \notin Blanks
  BY DEF Blanks
<1>6. Ignored(line) <=> \/ IsBlankText(line)
                        \/ \E i \in 1..Len(line) : IsIndented(line, i) /\ Mark(i)
  BY <1>1 DEF Ignored
<1> HIDE DEF s, Mark
<1>7. IsBlankText(line) <=> s = Len(line) + 1
  BY <1>1, <1>4
<1>8. (\E i \in 1..Len(line) : IsIndented(line, i) /\ Mark(i))
        <=> s <= Len(line) /\ Mark(s)
  <2>1. ASSUME NEW i \in 1..Len(line), IsIndented(line, i), Mark(i)
        PROVE  s <= Len(line) /\ Mark(s)
    <3>1. i = s
      BY <1>5, <2>1, IndentedIsStart DEF s
    <3> QED
      BY <1>1, <2>1, <3>1
  <2>2. ASSUME s <= Len(line), Mark(s)
        PROVE  \E i \in 1..Len(line) : IsIndented(line, i) /\ Mark(i)
    <3>1. s \in 1..Len(line)
      BY <1>1, <2>2
    <3>2. IsIndented(line, s)
      BY <1>1, <2>2, <3>1, IndentedIsStart DEF s
    <3> QED
      BY <2>2, <3>1, <3>2
  <2> QED
    BY <2>1, <2>2
<1> QED
  BY <1>2, <1>3, <1>6, <1>7, <1>8

\* A line is taken for a header exactly when it is one, and the name is the
\* one in it.
LEMMA ScannerReadsHeaders ==
  ASSUME NEW line, IsText(line)
  PROVE  /\ IsSection(line) <=> Headers(line) # {}
         /\ IsSection(line) => Headers(line) = {SectionName(line)}
<1> DEFINE s == Start(line)
           n == Len(line)
           I == {j \in 1..(n - 2) : /\ IsIndented(line, j)
                                    /\ line[j] = "["
                                    /\ line[n] = "]"
                                    /\ \A k \in 1..(n - 1) : line[k] # "]"}
<1>1. /\ n \in Nat /\ s \in 1..(n + 1)
      /\ \A i \in 1..(s - 1) : line[i] \in Blanks
      /\ s <= n => line[s] \notin Blanks
  BY StartIs
<1>2. "[" \notin Blanks /\ "]" \notin Blanks /\ "[" # "]"
  BY DEF Blanks
<1>3. Headers(line) = {SubSeq(line, i + 1, n - 1) : i \in I}
  BY DEF Headers
<1>4. IsSection(line) <=> /\ s <= n /\ line[s] = "["
                          /\ CloseOf(line) = n /\ CloseOf(line) # s + 1
  BY DEF IsSection, Start
<1>5. CloseOf(line) = Find(line, s + 1, {"]"})
  BY DEF CloseOf, Start
<1>6. SectionName(line) = SubSeq(line, s + 1, CloseOf(line) - 1)
  BY DEF SectionName, Start
<1>7. ASSUME NEW i \in I
      PROVE  i = s /\ IsSection(line)
  <2>1. /\ i \in 1..n /\ IsIndented(line, i) /\ line[i] = "["
        /\ line[n] = "]" /\ \A k \in 1..(n - 1) : line[k] # "]"
        /\ i <= n - 2
    BY <1>1, <1>7
  <2>2. i = s
    BY <1>2, <2>1, IndentedIsStart
  <2>3. /\ s + 1 \in 1..(n + 1) /\ n \in (s + 1)..(n + 1)
        /\ \A k \in (s + 1)..(n - 1) : line[k] \notin {"]"}
        /\ line[n] \in {"]"}
    BY <1>1, <2>1, <2>2
  <2>4. Find(line, s + 1, {"]"}) = n
    BY <2>3, FindIsThere
  <2> QED
    BY <1>1, <1>4, <1>5, <2>1, <2>2, <2>4
<1>8. ASSUME IsSection(line) PROVE s \in I
  <2>1. s <= n /\ line[s] = "[" /\ s + 1 \in 1..(n + 1)
    BY <1>1, <1>4, <1>8
  <2>2. CloseOf(line) = n /\ n # s + 1
    BY <1>4, <1>8
  <2>3. /\ n \in (s + 1)..(n + 1)
        /\ \A k \in (s + 1)..(n - 1) : line[k] \notin {"]"}
        /\ line[n] \in {"]"}
    <3> DEFINE p == Find(line, s + 1, {"]"})
    <3>1. /\ p \in (s + 1)..(n + 1)
          /\ \A i \in (s + 1)..(p - 1) : line[i] \notin {"]"}
          /\ p <= n => line[p] \in {"]"}
      BY <2>1, FindIs
    <3>2. p = n
      BY <1>5, <2>2
    <3> HIDE DEF p
    <3> QED
      BY <1>1, <3>1, <3>2
  <2>4. s \in 1..(n - 2) /\ s \in 1..n
    BY <1>1, <2>1, <2>2, <2>3
  <2>5. IsIndented(line, s)
    BY <1>1, <2>1, <2>4, IndentedIsStart
  <2>6. \A k \in 1..(n - 1) : line[k] # "]"
    <3> TAKE k \in 1..(n - 1)
    <3>1. k \in 1..(s - 1) \/ k = s \/ k \in (s + 1)..(n - 1)
      BY <1>1
    <3> QED
      BY <1>1, <1>2, <2>1, <2>3, <3>1
  <2> QED
    BY <2>1, <2>3, <2>4, <2>5, <2>6
<1> HIDE DEF s, n, I
<1>9. IsSection(line) => Headers(line) = {SectionName(line)}
  BY <1>3, <1>4, <1>6, <1>7, <1>8
<1>10. Headers(line) # {} => IsSection(line)
  BY <1>3, <1>7
<1> QED
  BY <1>9, <1>10

\* The last symbol of a line that is no blank.
LEMMA ValueEndIs ==
  ASSUME NEW line, IsText(line), NEW i \in 1..Len(line), line[i] \notin Blanks
  PROVE  /\ ValueEnd(line) \in i..Len(line)
         /\ line[ValueEnd(line)] \notin Blanks
         /\ \A j \in (ValueEnd(line) + 1)..Len(line) : line[j] \in Blanks
<1> DEFINE S == {j \in DOMAIN line : line[j] \notin Blanks}
<1>1. Len(line) \in Nat /\ DOMAIN line = 1..Len(line)
  BY TextIs
<1>2. /\ S \in SUBSET (0..Len(line)) /\ i \in S
      /\ \A j \in S : j \in 1..Len(line) /\ line[j] \notin Blanks
      /\ \A j \in 1..Len(line) : line[j] \notin Blanks => j \in S
  BY <1>1
<1>3. ValueEnd(line) = Max(S)
  BY DEF ValueEnd
<1> HIDE DEF S
<1>4. Max(S) \in S /\ \A j \in S : Max(S) >= j
  BY <1>1, <1>2, MaxIs
<1> DEFINE w == Max(S)
<1>5. /\ w \in 1..Len(line) /\ line[w] \notin Blanks /\ w >= i
      /\ \A j \in 1..Len(line) : line[j] \notin Blanks => w >= j
  BY <1>2, <1>4
<1>6. ValueEnd(line) = w
  BY <1>3
<1> HIDE DEF w
<1>7. ASSUME NEW j \in (w + 1)..Len(line) PROVE line[j] \in Blanks
  <2>1. j \in 1..Len(line) /\ ~(w >= j)
    BY <1>1, <1>5
  <2> QED
    BY <1>5, <2>1
<1>8. w \in i..Len(line)
  BY <1>1, <1>5
<1> QED
  BY <1>5, <1>6, <1>7, <1>8

\* A line is split at the '=' at e into the key from a to b and the value
\* from c to d.
IsSplit(line, e, a, b, c, d) ==
  /\ e \in 1..Len(line) /\ line[e] = "="
  /\ a \in 1..(e - 1) /\ b \in 1..(e - 1)
  /\ c \in (e + 1)..Len(line) /\ d \in (e + 1)..Len(line)
  /\ IsIndented(line, a)
  /\ IsKey(SubSeq(line, a, b))
  /\ IsGap(SubSeq(line, b + 1, e - 1))
  /\ IsBlankText(SubSeq(line, e + 1, c - 1))
  /\ IsValue(SubSeq(line, c, d))
  /\ IsBlankText(SubSeq(line, d + 1, Len(line)))

LEMMA KeyValuesAreSplits ==
  ASSUME NEW line, IsText(line), NEW kv
  PROVE  kv \in KeyValues(line) <=>
           \E e, a, b, c, d : /\ IsSplit(line, e, a, b, c, d)
                              /\ kv = <<SubSeq(line, a, b), SubSeq(line, c, d)>>
<1>1. DOMAIN line = 1..Len(line)
  BY TextIs
<1>2. kv \in KeyValues(line) <=>
        \E e \in 1..Len(line) : line[e] = "=" /\ kv \in KeyValuesAt(line, e)
  BY <1>1 DEF KeyValues
<1>3. ASSUME NEW e \in 1..Len(line), line[e] = "=", kv \in KeyValuesAt(line, e)
      PROVE  \E a, b, c, d : /\ IsSplit(line, e, a, b, c, d)
                             /\ kv = <<SubSeq(line, a, b), SubSeq(line, c, d)>>
  <2>1. PICK q \in (1..(e - 1)) \X (1..(e - 1)) \X ((e + 1)..Len(line))
                                \X ((e + 1)..Len(line)) :
          /\ kv = <<SubSeq(line, q[1], q[2]), SubSeq(line, q[3], q[4])>>
          /\ IsIndented(line, q[1])
          /\ IsKey(SubSeq(line, q[1], q[2]))
          /\ IsGap(SubSeq(line, q[2] + 1, e - 1))
          /\ IsBlankText(SubSeq(line, e + 1, q[3] - 1))
          /\ IsValue(SubSeq(line, q[3], q[4]))
          /\ IsBlankText(SubSeq(line, q[4] + 1, Len(line)))
    BY <1>3 DEF KeyValuesAt
  <2>2. /\ q[1] \in 1..(e - 1) /\ q[2] \in 1..(e - 1)
        /\ q[3] \in (e + 1)..Len(line) /\ q[4] \in (e + 1)..Len(line)
    OBVIOUS
  <2>3. IsSplit(line, e, q[1], q[2], q[3], q[4])
    BY <1>3, <2>1, <2>2 DEF IsSplit
  <2> QED
    BY <2>1, <2>3
<1>4. ASSUME NEW e, NEW a, NEW b, NEW c, NEW d, IsSplit(line, e, a, b, c, d),
             kv = <<SubSeq(line, a, b), SubSeq(line, c, d)>>
      PROVE  kv \in KeyValuesAt(line, e)
  <2> DEFINE q == <<a, b, c, d>>
  <2>1. q \in (1..(e - 1)) \X (1..(e - 1)) \X ((e + 1)..Len(line))
                           \X ((e + 1)..Len(line))
    BY <1>4 DEF IsSplit
  <2>2. q[1] = a /\ q[2] = b /\ q[3] = c /\ q[4] = d
    OBVIOUS
  <2> HIDE DEF q
  <2>3. /\ kv = <<SubSeq(line, q[1], q[2]), SubSeq(line, q[3], q[4])>>
        /\ IsIndented(line, q[1])
        /\ IsKey(SubSeq(line, q[1], q[2]))
        /\ IsGap(SubSeq(line, q[2] + 1, e - 1))
        /\ IsBlankText(SubSeq(line, e + 1, q[3] - 1))
        /\ IsValue(SubSeq(line, q[3], q[4]))
        /\ IsBlankText(SubSeq(line, q[4] + 1, Len(line)))
    BY <1>4, <2>2 DEF IsSplit
  <2> QED
    BY <2>1, <2>3 DEF KeyValuesAt
<1>5. ASSUME NEW e, NEW a, NEW b, NEW c, NEW d, IsSplit(line, e, a, b, c, d),
             kv = <<SubSeq(line, a, b), SubSeq(line, c, d)>>
      PROVE  kv \in KeyValues(line)
  <2>1. e \in 1..Len(line) /\ line[e] = "="
    BY <1>5 DEF IsSplit
  <2>2. kv \in KeyValuesAt(line, e)
    BY <1>4, <1>5
  <2> QED
    BY <1>2, <2>1, <2>2
<1>6. ASSUME kv \in KeyValues(line)
      PROVE  \E e, a, b, c, d : /\ IsSplit(line, e, a, b, c, d)
                                /\ kv = <<SubSeq(line, a, b), SubSeq(line, c, d)>>
  <2>1. PICK e \in 1..Len(line) : line[e] = "=" /\ kv \in KeyValuesAt(line, e)
    BY <1>2, <1>6
  <2>2. PICK a, b, c, d : /\ IsSplit(line, e, a, b, c, d)
                          /\ kv = <<SubSeq(line, a, b), SubSeq(line, c, d)>>
    BY <1>3, <2>1
  <2> QED
    BY <2>2
<1> QED
  BY <1>5, <1>6

\* There is one way at most to split a line, and it is the one the scanner
\* finds.
LEMMA SplitIsScanned ==
  ASSUME NEW line, IsText(line), NEW e, NEW a, NEW b, NEW c, NEW d,
         IsSplit(line, e, a, b, c, d)
  PROVE  /\ a = Start(line) /\ b = KeyEnd(line) - 1
         /\ c = ValueStart(line) /\ d = ValueEnd(line)
         /\ IsKeyValue(line)
<1> DEFINE n == Len(line)
<1>1. /\ n \in Nat
      /\ e \in 1..n /\ line[e] = "=" /\ a \in 1..(e - 1) /\ b \in 1..(e - 1)
      /\ c \in (e + 1)..n /\ d \in (e + 1)..n
  BY TextIs DEF IsSplit
<1>2. "=" \notin Blanks /\ "=" \in KeyEnds
  BY DEF Blanks, KeyEnds
<1>3. /\ a <= b /\ line[a] \notin Blanks
      /\ \A i \in (a + 1)..b : line[i] \notin KeyEnds
  BY <1>1, PartIsKey DEF IsSplit
<1>4. /\ \A i \in (b + 1)..(e - 1) : line[i] \in Blanks
      /\ b + 1 <= e - 1 => line[b + 1] \in KeyEnds
  <2>1. b + 1 \in Nat \ {0} /\ e - 1 \in 0..n
    BY <1>1
  <2> QED
    BY <2>1, PartIsGap DEF IsSplit
<1>5. \A i \in (e + 1)..(c - 1) : line[i] \in Blanks
  <2>1. e + 1 \in Nat \ {0} /\ c - 1 \in 0..n
    BY <1>1
  <2> QED
    BY <2>1, PartIsBlank DEF IsSplit
<1>6. /\ c <= d /\ line[c] \notin Blanks /\ line[d] \notin Blanks
      /\ \A i \in c..(d - 1) : line[i] \in Blanks => line[i + 1] \notin Blanks
  BY <1>1, PartIsValue DEF IsSplit
<1>7. \A i \in (d + 1)..n : line[i] \in Blanks
  <2>1. d + 1 \in Nat \ {0} /\ n \in 0..n
    BY <1>1
  <2> QED
    BY <2>1, PartIsBlank DEF IsSplit
<1>8. a = Start(line) /\ a \in 1..n
  <2>1. a \in 1..n
    BY <1>1
  <2> QED
    BY <1>3, <2>1, IndentedIsStart DEF IsSplit
<1>9. KeyEnd(line) = b + 1
  <2>1. /\ a + 1 \in 1..(n + 1) /\ b + 1 \in (a + 1)..(n + 1)
        /\ \A i \in (a + 1)..((b + 1) - 1) : line[i] \notin KeyEnds
        /\ line[b + 1] \in KeyEnds
    BY <1>1, <1>2, <1>3, <1>4
  <2> QED
    BY <1>8, <2>1, FindIsThere DEF KeyEnd, Start
<1>10. EqualSign(line) = e
  <2>1. b + 1 \in 1..(n + 1) /\ e \in (b + 1)..(n + 1) /\ line[e] \notin Blanks
    BY <1>1, <1>2
  <2> QED
    BY <1>4, <1>9, <2>1, SkipWsIsThere DEF EqualSign
<1>11. ValueStart(line) = c
  <2>1. e + 1 \in 1..(n + 1) /\ c \in (e + 1)..(n + 1)
    BY <1>1
  <2> QED
    BY <1>5, <1>6, <1>10, <2>1, SkipWsIsThere DEF ValueStart
<1>12. ValueEnd(line) = d
  <2>1. d \in 1..n
    BY <1>1
  <2>2. /\ ValueEnd(line) \in d..n /\ line[ValueEnd(line)] \notin Blanks
    BY <1>6, <2>1, ValueEndIs
  <2>3. ~(ValueEnd(line) \in (d + 1)..n)
    BY <1>7, <2>2
  <2> QED
    BY <1>1, <2>2, <2>3
<1>13. ~IsBlank(line)
  BY <1>1, <1>8 DEF IsBlank, Start
<1>14. IsKeyValue(line)
  BY <1>1, <1>6, <1>10, <1>11, <1>12, <1>13 DEF IsKeyValue
<1>15. b = KeyEnd(line) - 1
  BY <1>1, <1>9
<1> QED
  BY <1>8, <1>11, <1>12, <1>14, <1>15

\* What the scanner takes for a key and a value splits the line.
LEMMA ScannedIsSplit ==
  ASSUME NEW line, IsText(line), IsKeyValue(line)
  PROVE  IsSplit(line, EqualSign(line), Start(line), KeyEnd(line) - 1,
                 ValueStart(line), ValueEnd(line))
<1> DEFINE n == Len(line)
           a == Start(line)
           k == KeyEnd(line)
           e == EqualSign(line)
           c == ValueStart(line)
           d == ValueEnd(line)
<1>1. /\ ~IsBlank(line)
      /\ e <= n /\ line[e] = "=" /\ c <= n
      /\ \A i \in c..(d - 1) : line[i] \in Blanks => line[i + 1] \notin Blanks
  BY DEF IsKeyValue
<1>2. /\ n \in Nat /\ a \in 1..n /\ line[a] \notin Blanks
  <2>1. /\ n \in Nat /\ a \in 1..(n + 1) /\ (a <= n => line[a] \notin Blanks)
    BY StartIs
  <2>2. a # n + 1
    BY <1>1 DEF IsBlank, Start
  <2> QED
    BY <2>1, <2>2
<1>3. /\ k \in (a + 1)..(n + 1)
      /\ \A i \in (a + 1)..(k - 1) : line[i] \notin KeyEnds
      /\ k <= n => line[k] \in KeyEnds
  <2>1. a + 1 \in 1..(n + 1)
    BY <1>2
  <2> HIDE DEF a
  <2>2. k = Find(line, a + 1, KeyEnds)
    BY DEF KeyEnd, Start, a
  <2> HIDE DEF k
  <2> QED
    BY <2>1, <2>2, FindIs
<1>4. e \in k..n /\ \A i \in k..(e - 1) : line[i] \in Blanks
  <2>1. k \in 1..(n + 1) /\ e = SkipWs(line, k)
    BY <1>2, <1>3 DEF EqualSign
  <2> HIDE DEF k
  <2>2. /\ e \in k..(n + 1) /\ \A i \in k..(e - 1) : line[i] \in Blanks
    BY <2>1, SkipWsIs
  <2> QED
    BY <1>1, <1>2, <2>1, <2>2
<1>5. /\ c \in (e + 1)..n /\ line[c] \notin Blanks
      /\ \A i \in (e + 1)..(c - 1) : line[i] \in Blanks
  <2>1. e + 1 \in 1..(n + 1) /\ c = SkipWs(line, e + 1)
    BY <1>2, <1>3, <1>4 DEF ValueStart
  <2> HIDE DEF e
  <2>2. /\ c \in (e + 1)..(n + 1) /\ \A i \in (e + 1)..(c - 1) : line[i] \in Blanks
        /\ c <= n => line[c] \notin Blanks
    BY <2>1, SkipWsIs
  <2> QED
    BY <1>1, <1>2, <2>1, <2>2
<1>6. /\ d \in c..n /\ line[d] \notin Blanks
      /\ \A j \in (d + 1)..n : line[j] \in Blanks
  <2>1. c \in 1..n
    BY <1>2, <1>3, <1>4, <1>5
  <2> HIDE DEF c
  <2> QED
    BY <1>5, <2>1, ValueEndIs
<1> HIDE DEF n, a, k, e, c, d
<1>7. IsIndented(line, a)
  BY <1>2, IndentedIsStart DEF a, n
<1>8. IsKey(SubSeq(line, a, k - 1))
  <2>1. a \in Nat \ {0} /\ k - 1 \in 0..Len(line) /\ a <= k - 1
    BY <1>2, <1>3 DEF n
  <2> QED
    BY <1>2, <1>3, <2>1, PartIsKey
<1>9. IsGap(SubSeq(line, (k - 1) + 1, e - 1))
  <2>1. k \in Nat \ {0} /\ e - 1 \in 0..Len(line) /\ (k - 1) + 1 = k
    BY <1>2, <1>3, <1>4 DEF n
  <2>2. k <= e - 1 => line[k] \in KeyEnds
    BY <1>2, <1>3, <1>4
  <2> QED
    BY <1>4, <2>1, <2>2, PartIsGap
<1>10. IsBlankText(SubSeq(line, e + 1, c - 1))
  <2>1. e + 1 \in Nat \ {0} /\ c - 1 \in 0..Len(line)
    BY <1>2, <1>3, <1>4, <1>5 DEF n
  <2> QED
    BY <1>5, <2>1, PartIsBlank
<1>11. IsValue(SubSeq(line, c, d))
  <2>1. c \in Nat \ {0} /\ d \in 0..Len(line) /\ c <= d
    BY <1>2, <1>3, <1>4, <1>5, <1>6 DEF n
  <2> QED
    BY <1>1, <1>5, <1>6, <2>1, PartIsValue DEF c, d
<1>12. IsBlankText(SubSeq(line, d + 1, Len(line)))
  <2>1. d + 1 \in Nat \ {0} /\ Len(line) \in 0..Len(line)
    BY <1>2, <1>3, <1>4, <1>5, <1>6 DEF n
  <2> QED
    BY <1>6, <2>1, PartIsBlank DEF n
<1>13. /\ e \in 1..Len(line) /\ line[e] = "="
       /\ a \in 1..(e - 1) /\ k - 1 \in 1..(e - 1)
       /\ c \in (e + 1)..Len(line) /\ d \in (e + 1)..Len(line)
  BY <1>1, <1>2, <1>3, <1>4, <1>5, <1>6 DEF n, e
<1>14. IsSplit(line, e, a, k - 1, c, d)
  BY <1>7, <1>8, <1>9, <1>10, <1>11, <1>12, <1>13 DEF IsSplit
<1> QED
  BY <1>14 DEF a, k, e, c, d

\* A line is taken for a setting exactly when it is one, with the key and the
\* value it has.
LEMMA ScannerReadsKeyValues ==
  ASSUME NEW line, IsText(line)
  PROVE  /\ IsKeyValue(line) <=> KeyValues(line) # {}
         /\ IsKeyValue(line) => /\ KeyValues(line) = {<<Key(line), Value(line)>>}
                                /\ IsKey(Key(line)) /\ IsValue(Value(line))
<1>1. /\ Key(line) = SubSeq(line, Start(line), KeyEnd(line) - 1)
      /\ Value(line) = SubSeq(line, ValueStart(line), ValueEnd(line))
  BY DEF Key, Value, Start
<1>2. ASSUME NEW kv \in KeyValues(line)
      PROVE  IsKeyValue(line) /\ kv = <<Key(line), Value(line)>>
  <2>1. PICK e, a, b, c, d : /\ IsSplit(line, e, a, b, c, d)
                             /\ kv = <<SubSeq(line, a, b), SubSeq(line, c, d)>>
    BY KeyValuesAreSplits
  <2> QED
    BY <1>1, <2>1, SplitIsScanned
<1>3. ASSUME IsKeyValue(line)
      PROVE  /\ <<Key(line), Value(line)>> \in KeyValues(line)
             /\ IsKey(Key(line)) /\ IsValue(Value(line))
  <2>1. IsSplit(line, EqualSign(line), Start(line), KeyEnd(line) - 1,
                ValueStart(line), ValueEnd(line))
    BY <1>3, ScannedIsSplit
  <2>2. <<Key(line), Value(line)>> \in KeyValues(line)
    BY <1>1, <2>1, KeyValuesAreSplits
  <2> QED
    BY <1>1, <2>1, <2>2 DEF IsSplit
<1> QED
  BY <1>2, <1>3

\* For every line: the constructor takes it for blank or a comment, for a
\* header, for a setting or for malformed exactly when the grammar says that it
\* is.  (cIniReader.cpp:13-100, 124-144)
THEOREM LineKinds ==
  ASSUME NEW line, IsText(line)
  PROVE  /\ Ignored(line) <=> IsBlank(line) \/ IsComment(line)
         /\ IsHeaderLine(line) <=>
              ~IsBlank(line) /\ ~IsComment(line) /\ IsSection(line)
         /\ IsSettingLine(line) <=>
              /\ ~IsBlank(line) /\ ~IsComment(line)
              /\ ~IsSection(line) /\ IsKeyValue(line)
         /\ IsBadLine(line) <=>
              /\ ~IsBlank(line) /\ ~IsComment(line)
              /\ ~IsSection(line) /\ ~IsKeyValue(line)
<1>1. /\ Ignored(line) <=> IsBlank(line) \/ IsComment(line)
      /\ Headers(line) # {} <=> IsSection(line)
      /\ KeyValues(line) # {} <=> IsKeyValue(line)
  BY ScannerSkips, ScannerReadsHeaders, ScannerReadsKeyValues
<1> QED
  BY <1>1 DEF IsHeaderLine, IsSettingLine, IsBadLine

\* For every line: the name that is cut out of a header, and the key and the
\* value that are cut out of a setting, are those the grammar gives.
\* (cIniReader.cpp:37-100)
THEOREM LineContents ==
  ASSUME NEW line, IsText(line)
  PROVE  /\ IsSection(line) => HeaderName(line) = SectionName(line)
         /\ IsKeyValue(line) => /\ SettingOf(line) = <<Key(line), Value(line)>>
                                /\ IsKey(Key(line)) /\ IsValue(Value(line))
<1>1. ASSUME IsSection(line) PROVE HeaderName(line) = SectionName(line)
  <2>1. Headers(line) = {SectionName(line)}
    BY <1>1, ScannerReadsHeaders
  <2> QED
    BY <2>1 DEF HeaderName
<1>2. ASSUME IsKeyValue(line) PROVE SettingOf(line) = <<Key(line), Value(line)>>
  <2>1. KeyValues(line) = {<<Key(line), Value(line)>>}
    BY <1>2, ScannerReadsKeyValues
  <2> QED
    BY <2>1 DEF SettingOf
<1> QED
  BY <1>1, <1>2, ScannerReadsKeyValues

-----------------------------------------------------------------------------
(* Picking elements in their order                                         *)

Ranked(I, n) == {i \in I : Cardinality({j \in I : j <= i}) = n}

LEMMA NthIsRanked ==
  ASSUME NEW I, NEW n PROVE Nth(I, n) = CHOOSE i : i \in Ranked(I, n)
BY DEF Nth, Ranked

LEMMA SameRankSameNth ==
  ASSUME NEW I, NEW J, NEW n, Ranked(I, n) = Ranked(J, n)
  PROVE  Nth(I, n) = Nth(J, n)
BY NthIsRanked

\* With a greater index more, the others keep their ranks and it comes last.
LEMMA RankOneMore ==
  ASSUME NEW n \in Nat, NEW I \in SUBSET (1..n)
  PROVE  LET J == I \cup {n + 1}
             c == Cardinality(I)
         IN /\ IsFiniteSet(I) /\ c \in Nat /\ Cardinality(J) = c + 1
            /\ \A k \in 1..c : Nth(J, k) = Nth(I, k)
            /\ Nth(J, c + 1) = n + 1
<1> DEFINE J == I \cup {n + 1}
           c == Cardinality(I)
           Below(K, i) == {j \in K : j <= i}
<1>1. IsFiniteSet(1..n)
  BY FS_Interval
<1>2. IsFiniteSet(I) /\ c \in Nat /\ n + 1 \notin I
  <2>1. n + 1 \notin I
    OBVIOUS
  <2>2. IsFiniteSet(I)
    BY <1>1, FS_Subset
  <2> QED
    BY <2>1, <2>2, FS_CardinalityType
<1>3. Cardinality(J) = c + 1
  BY <1>2, FS_AddElement
<1>4. \A i \in I : Below(J, i) = Below(I, i)
  OBVIOUS
<1>5. Below(J, n + 1) = J
  <2>1. \A j \in J : j <= n + 1
    OBVIOUS
  <2> QED
    BY <2>1
<1>6. \A i \in I : Cardinality(Below(I, i)) \in 0..c
  <2> TAKE i \in I
  <2>1. Below(I, i) \in SUBSET I
    OBVIOUS
  <2>2. /\ IsFiniteSet(Below(I, i))
        /\ Cardinality(Below(I, i)) <= Cardinality(I)
    BY <1>2, <2>1, FS_Subset
  <2>3. Cardinality(Below(I, i)) \in Nat
    BY <2>2, FS_CardinalityType
  <2> QED
    BY <1>2, <2>2, <2>3
<1>7. ASSUME NEW k \in 1..c PROVE Nth(J, k) = Nth(I, k)
  <2>1. Ranked(J, k) = Ranked(I, k)
    <3>1. n + 1 \notin Ranked(J, k)
      BY <1>2, <1>3, <1>5 DEF Ranked
    <3>2. \A i \in I : i \in Ranked(J, k) <=> i \in Ranked(I, k)
      BY <1>4 DEF Ranked
    <3> QED
      BY <1>2, <3>1, <3>2 DEF Ranked
  <2> QED
    BY <2>1, SameRankSameNth
<1>8. Nth(J, c + 1) = n + 1
  <2>1. n + 1 \in Ranked(J, c + 1)
    BY <1>3, <1>5 DEF Ranked
  <2>2. \A i \in I : i \notin Ranked(J, c + 1)
    <3> TAKE i \in I
    <3>1. Cardinality(Below(J, i)) # c + 1
      BY <1>2, <1>4, <1>6
    <3> QED
      BY <3>1 DEF Ranked
  <2>3. Ranked(J, c + 1) = {n + 1}
    BY <2>1, <2>2 DEF Ranked
  <2> QED
    BY <2>3, NthIsRanked
<1> QED
  BY <1>2, <1>3, <1>7, <1>8

\* There is an index of every rank.
LEMMA NthIsThere ==
  ASSUME NEW n \in Nat, NEW I \in SUBSET (1..n), NEW k \in 1..Cardinality(I)
  PROVE  Nth(I, k) \in I
<1> DEFINE P == {m \in Nat : \A J \in SUBSET (1..m) :
                               \A r \in 1..Cardinality(J) : Nth(J, r) \in J}
<1>1. 0 \in P
  <2>1. \A J \in SUBSET (1..0) : J = {}
    OBVIOUS
  <2>2. \A r \in 1..Cardinality({}) : FALSE
    BY FS_EmptySet
  <2> QED
    BY <2>1, <2>2
<1>2. ASSUME NEW m \in Nat, m \in P PROVE m + 1 \in P
  <2> SUFFICES ASSUME NEW J \in SUBSET (1..(m + 1)), NEW r \in 1..Cardinality(J)
               PROVE  Nth(J, r) \in J
    OBVIOUS
  <2>1. CASE m + 1 \notin J
    <3>1. J \in SUBSET (1..m)
      BY <2>1
    <3> QED
      BY <1>2, <3>1
  <2>2. CASE m + 1 \in J
    <3> DEFINE K == J \ {m + 1}
    <3>1. K \in SUBSET (1..m) /\ J = K \cup {m + 1}
      BY <2>2
    <3> HIDE DEF K
    <3>2. /\ Cardinality(K) \in Nat /\ Cardinality(J) = Cardinality(K) + 1
          /\ \A q \in 1..Cardinality(K) : Nth(J, q) = Nth(K, q)
          /\ Nth(J, Cardinality(K) + 1) = m + 1
      BY <3>1, RankOneMore
    <3>3. r \in 1..Cardinality(K) \/ r = Cardinality(K) + 1
      BY <3>2
    <3>4. \A q \in 1..Cardinality(K) : Nth(K, q) \in K
      BY <1>2, <3>1
    <3> QED
      BY <3>1, <3>2, <3>3, <3>4
  <2> QED
    BY <2>1, <2>2
<1> HIDE DEF P
<1>3. n \in P
  BY <1>1, <1>2, NatSetInduction
<1> QED
  BY <1>3 DEF P

LEMMA PickedNone ==
  ASSUME NEW elements PROVE Picked(elements, {}) = <<>>
<1>1. Cardinality({}) = 0 /\ 1..0 = {}
  BY FS_EmptySet
<1> QED
  BY <1>1 DEF Picked

LEMMA PickedIsSequence ==
  ASSUME NEW elements, NEW I, IsFiniteSet(I)
  PROVE  /\ Picked(elements, I) \in Seq(Range(Picked(elements, I)))
         /\ Len(Picked(elements, I)) = Cardinality(I)
<1> DEFINE c == Cardinality(I)
           q == Picked(elements, I)
<1>1. c \in Nat
  BY FS_CardinalityType
<1>2. q = [k \in 1..c |-> elements[Nth(I, k)]]
  BY DEF Picked
<1> HIDE DEF c, q
<1>3. DOMAIN q = 1..c /\ q = [k \in 1..c |-> q[k]]
  BY <1>2
<1>4. q \in [1..c -> Range(q)]
  BY <1>3 DEF Range
<1>5. q \in Seq(Range(q)) /\ Len(q) = c
  BY <1>1, <1>4
<1> QED
  BY <1>5 DEF c, q

\* To pick one index more is to append its element.
LEMMA PickedOneMore ==
  ASSUME NEW n \in Nat, NEW I \in SUBSET (1..n), NEW elements
  PROVE  Picked(elements, I \cup {n + 1}) =
           Append(Picked(elements, I), elements[n + 1])
<1> DEFINE J == I \cup {n + 1}
           c == Cardinality(I)
           p == Picked(elements, I)
           q == Picked(elements, J)
           e == elements[n + 1]
           r == Append(p, e)
<1>1. /\ IsFiniteSet(I) /\ c \in Nat /\ Cardinality(J) = c + 1
      /\ \A k \in 1..c : Nth(J, k) = Nth(I, k)
      /\ Nth(J, c + 1) = n + 1
  BY RankOneMore
<1>2. p = [k \in 1..c |-> elements[Nth(I, k)]]
  BY DEF Picked
<1>3. q = [k \in 1..(c + 1) |-> elements[Nth(J, k)]]
  BY <1>1 DEF Picked
<1>4. p \in Seq(Range(p)) /\ Len(p) = c
  BY <1>1, PickedIsSequence
<1> HIDE DEF J, c, p, q
<1>5. p \in Seq(Range(p) \cup {e}) /\ e \in Range(p) \cup {e}
  BY <1>4
<1>6. /\ r \in Seq(Range(p) \cup {e}) /\ Len(r) = c + 1
      /\ \A k \in 1..c : r[k] = p[k]
      /\ r[c + 1] = e
  BY <1>1, <1>4, <1>5, AppendProperties
<1>7. DOMAIN r = 1..(c + 1) /\ r = [k \in 1..(c + 1) |-> r[k]]
  BY <1>1, <1>6
<1>8. \A k \in 1..(c + 1) : r[k] = elements[Nth(J, k)]
  <2> TAKE k \in 1..(c + 1)
  <2>1. k \in 1..c \/ k = c + 1
    BY <1>1
  <2> QED
    BY <1>1, <1>2, <1>6, <2>1
<1>9. r = q
  BY <1>3, <1>7, <1>8
<1> QED
  BY <1>9 DEF p, q, J

-----------------------------------------------------------------------------
(* What the reader holds after each line                                   *)

FileIsText == IsText(file) /\ \A i \in DOMAIN file : IsText(file[i])

HeadersTo(lines, n) == {i \in 1..n : IsHeaderLine(lines[i])}
SettingsTo(lines, n) == {i \in 1..n : IsSettingLine(lines[i])}
BadTo(lines, n) == {i \in 1..n : IsBadLine(lines[i])}

Names(lines) == [i \in DOMAIN lines |-> HeaderName(lines[i])]

\* No later setting up to line n is about the same key of the same section.
IsLastTo(lines, n, i) ==
  \A k \in SettingsTo(lines, n) : k > i => Subject(lines, k) # Subject(lines, i)

\* The reader has the sections and the settings of the lines it has read.
LinesAreHeld ==
  /\ lineNo \in 0..Len(file)
  /\ currentSection = SectionOf(file, lineNo)
  /\ sections = Picked(Names(file), HeadersTo(file, lineNo))
  /\ DOMAIN map = {Subject(file, i) : i \in SettingsTo(file, lineNo)}
  /\ \A i \in SettingsTo(file, lineNo) :
        IsLastTo(file, lineNo, i) =>
          map[Subject(file, i)] = SettingOf(file[i])[2]

FirstErrorIsHeld ==
  error = IF BadTo(file, lineNo) = {} THEN 0 ELSE Min(BadTo(file, lineNo))

\* The section changes at a header and nowhere else.
LEMMA SectionOfNextLine ==
  ASSUME NEW lines, NEW n \in Nat
  PROVE  SectionOf(lines, n + 1) = IF IsHeaderLine(lines[n + 1])
                                   THEN HeaderName(lines[n + 1])
                                   ELSE SectionOf(lines, n)
<1>1. CASE IsHeaderLine(lines[n + 1])
  <2>1. LastHeaders(lines, n + 1) = {n + 1}
    <3>1. n + 1 \in LastHeaders(lines, n + 1)
      <4>1. \A j \in ((n + 1) + 1)..(n + 1) : FALSE
        OBVIOUS
      <4>2. n + 1 \in 1..(n + 1)
        OBVIOUS
      <4> QED
        BY <1>1, <4>1, <4>2 DEF LastHeaders
    <3>2. ASSUME NEW h \in LastHeaders(lines, n + 1), h # n + 1 PROVE FALSE
      <4>1. h \in 1..n /\ \A j \in (h + 1)..(n + 1) : ~IsHeaderLine(lines[j])
        BY <3>2 DEF LastHeaders
      <4>2. n + 1 \in (h + 1)..(n + 1)
        BY <4>1
      <4> QED
        BY <1>1, <4>1, <4>2
    <3> QED
      BY <3>1, <3>2
  <2>2. Max({n + 1}) = n + 1
    <3>1. {n + 1} \in SUBSET (0..(n + 1)) /\ {n + 1} # {} /\ n + 1 \in Nat
      OBVIOUS
    <3>2. Max({n + 1}) \in {n + 1}
      BY <3>1, MaxIs
    <3> QED
      BY <3>2
  <2> QED
    BY <1>1, <2>1, <2>2 DEF SectionOf
<1>2. CASE ~IsHeaderLine(lines[n + 1])
  <2>1. LastHeaders(lines, n + 1) = LastHeaders(lines, n)
    <3>1. ASSUME NEW h \in LastHeaders(lines, n + 1)
          PROVE  h \in LastHeaders(lines, n)
      <4>1. /\ h \in 1..(n + 1) /\ IsHeaderLine(lines[h])
            /\ \A j \in (h + 1)..(n + 1) : ~IsHeaderLine(lines[j])
        BY DEF LastHeaders
      <4>2. h \in 1..n
        BY <1>2, <4>1
      <4>3. \A j \in (h + 1)..n : j \in (h + 1)..(n + 1)
        BY <4>2
      <4> QED
        BY <4>1, <4>2, <4>3 DEF LastHeaders
    <3>2. ASSUME NEW h \in LastHeaders(lines, n)
          PROVE  h \in LastHeaders(lines, n + 1)
      <4>1. /\ h \in 1..n /\ IsHeaderLine(lines[h])
            /\ \A j \in (h + 1)..n : ~IsHeaderLine(lines[j])
        BY DEF LastHeaders
      <4>2. \A j \in (h + 1)..(n + 1) : j \in (h + 1)..n \/ j = n + 1
        BY <4>1
      <4>3. h \in 1..(n + 1)
        BY <4>1
      <4> QED
        BY <1>2, <4>1, <4>2, <4>3 DEF LastHeaders
    <3> QED
      BY <3>1, <3>2
  <2> QED
    BY <1>2, <2>1 DEF SectionOf
<1> QED
  BY <1>1, <1>2

LEMMA SectionOfNoLine ==
  ASSUME NEW lines PROVE SectionOf(lines, 0) = <<>>
<1>1. LastHeaders(lines, 0) = {}
  BY DEF LastHeaders
<1> QED
  BY <1>1 DEF SectionOf

\* One line more is a header, a setting, a bad line or none of these.
LEMMA OneLineMore ==
  ASSUME NEW lines, NEW n \in Nat
  PROVE  LET line == lines[n + 1]
         IN /\ HeadersTo(lines, n + 1) =
                 IF IsHeaderLine(line) THEN HeadersTo(lines, n) \cup {n + 1}
                                       ELSE HeadersTo(lines, n)
            /\ SettingsTo(lines, n + 1) =
                 IF IsSettingLine(line) THEN SettingsTo(lines, n) \cup {n + 1}
                                        ELSE SettingsTo(lines, n)
            /\ BadTo(lines, n + 1) =
                 IF IsBadLine(line) THEN BadTo(lines, n) \cup {n + 1}
                                    ELSE BadTo(lines, n)
<1>1. \A i : i \in 1..(n + 1) <=> i \in 1..n \/ i = n + 1
  OBVIOUS
<1>2. HeadersTo(lines, n + 1) =
        IF IsHeaderLine(lines[n + 1]) THEN HeadersTo(lines, n) \cup {n + 1}
                                      ELSE HeadersTo(lines, n)
  BY <1>1 DEF HeadersTo
<1>3. SettingsTo(lines, n + 1) =
        IF IsSettingLine(lines[n + 1]) THEN SettingsTo(lines, n) \cup {n + 1}
                                       ELSE SettingsTo(lines, n)
  BY <1>1 DEF SettingsTo
<1>4. BadTo(lines, n + 1) =
        IF IsBadLine(lines[n + 1]) THEN BadTo(lines, n) \cup {n + 1}
                                   ELSE BadTo(lines, n)
  BY <1>1 DEF BadTo
<1> QED
  BY <1>2, <1>3, <1>4

\* Before the first line nothing is held, which is what no line says.
LEMMA NothingIsHeld ==
  ASSUME FileIsText, ReaderInit
  PROVE  LinesAreHeld /\ FirstErrorIsHeld
<1>1. /\ lineNo = 0 /\ currentSection = <<>> /\ sections = <<>>
      /\ DOMAIN map = {} /\ error = 0
  BY DEF ReaderInit
<1>2. /\ HeadersTo(file, 0) = {} /\ SettingsTo(file, 0) = {}
      /\ BadTo(file, 0) = {}
  BY DEF HeadersTo, SettingsTo, BadTo
<1>3. Len(file) \in Nat
  BY TextIs DEF FileIsText
<1>4. SectionOf(file, 0) = <<>> /\ Picked(Names(file), {}) = <<>>
  BY SectionOfNoLine, PickedNone
<1>5. LinesAreHeld
  <2>1. {Subject(file, i) : i \in {}} = {}
    OBVIOUS
  <2>2. lineNo \in 0..Len(file)
    BY <1>1, <1>3
  <2>3. DOMAIN map = {Subject(file, i) : i \in SettingsTo(file, lineNo)}
    BY <1>1, <1>2, <2>1
  <2>4. \A i \in SettingsTo(file, lineNo) : FALSE
    BY <1>1, <1>2
  <2> QED
    BY <1>1, <1>2, <1>4, <2>2, <2>3, <2>4 DEF LinesAreHeld
<1>6. FirstErrorIsHeld
  BY <1>1, <1>2 DEF FirstErrorIsHeld
<1> QED
  BY <1>5, <1>6

\* Each step of the constructor reads the next line, for what it is.
LEMMA NextLineIs ==
  ASSUME FileIsText, LinesAreHeld, ReadLine
  PROVE  /\ lineNo \in Nat /\ lineNo' = lineNo + 1 /\ file' = file
         /\ lineNo + 1 \in 1..Len(file) /\ DOMAIN file = 1..Len(file)
         /\ Line = file[lineNo + 1] /\ IsText(Line)
<1>1. lineNo < Len(file) /\ lineNo' = lineNo + 1 /\ file' = file
  BY DEF ReadLine, SkipLine, ReadSection, ReadKeyValue, ReadMalformed, NextLine
<1>2. Len(file) \in Nat /\ DOMAIN file = 1..Len(file)
  BY TextIs DEF FileIsText
<1>3. lineNo \in Nat /\ lineNo + 1 \in DOMAIN file
  BY <1>1, <1>2 DEF LinesAreHeld
<1>4. Line = file[lineNo + 1] /\ IsText(Line)
  BY <1>3 DEF Line, FileIsText
<1> QED
  BY <1>1, <1>2, <1>3, <1>4

LEMMA ReadLineKeepsFirstError ==
  ASSUME FileIsText, LinesAreHeld, FirstErrorIsHeld, ReadLine
  PROVE  FirstErrorIsHeld'
<1> DEFINE n == lineNo
           old == BadTo(file, n)
           new == BadTo(file, n + 1)
<1>1. /\ n \in Nat /\ lineNo' = n + 1 /\ file' = file
      /\ Line = file[n + 1] /\ IsText(Line)
  BY NextLineIs
<1>2. new = IF IsBadLine(Line) THEN old \cup {n + 1} ELSE old
  BY <1>1, OneLineMore
<1>3. /\ old \in SUBSET Nat /\ \A i \in old : i <= n /\ i > 0
      /\ new \in SUBSET Nat
  BY <1>1 DEF BadTo
<1>4. IsBadLine(Line) <=>
        ~IsBlank(Line) /\ ~IsComment(Line) /\ ~IsSection(Line) /\ ~IsKeyValue(Line)
  BY <1>1, LineKinds
<1>5. error = IF old = {} THEN 0 ELSE Min(old)
  BY DEF FirstErrorIsHeld
<1>6. FirstErrorIsHeld' <=> error' = IF new = {} THEN 0 ELSE Min(new)
  BY <1>1 DEF FirstErrorIsHeld
<1> HIDE DEF n, old, new
<1>7. CASE IsBadLine(Line)
  <2>1. error' = IF error = 0 THEN n + 1 ELSE error
    BY <1>4, <1>7 DEF ReadLine, SkipLine, ReadSection, ReadKeyValue,
       ReadMalformed, FirstError, n
  <2>2. new = old \cup {n + 1} /\ new # {}
    BY <1>2, <1>7
  <2>3. Min(new) \in new /\ \A y \in new : Min(new) <= y
    BY <1>3, <2>2, MinIs
  <2>4. CASE old = {}
    BY <1>1, <1>5, <1>6, <2>1, <2>2, <2>3, <2>4
  <2>5. CASE old # {}
    <3>1. Min(old) \in old /\ \A y \in old : Min(old) <= y
      BY <1>3, <2>5, MinIs
    <3> DEFINE a == Min(old)
               b == Min(new)
    <3>2. /\ a \in old /\ \A y \in old : a <= y
          /\ b \in new /\ \A y \in new : b <= y
      BY <2>3, <3>1
    <3>3. error = a
      BY <1>5, <2>5
    <3>4. FirstErrorIsHeld' <=> error' = b
      BY <1>6, <2>2
    <3> HIDE DEF a, b
    <3>5. a \in Nat /\ b \in Nat /\ b <= a /\ a <= n /\ a > 0
      BY <1>3, <2>2, <3>2
    <3>6. b \in old
      BY <1>1, <2>2, <3>2, <3>5
    <3>7. a = b
      BY <3>2, <3>5, <3>6
    <3> QED
      BY <2>1, <3>3, <3>4, <3>5, <3>7
  <2> QED
    BY <2>4, <2>5
<1>8. CASE ~IsBadLine(Line)
  <2>1. error' = error
    BY <1>4, <1>8 DEF ReadLine, SkipLine, ReadSection, ReadKeyValue, ReadMalformed
  <2>2. new = old
    BY <1>2, <1>8
  <2> QED
    BY <1>5, <1>6, <2>1, <2>2
<1> QED
  BY <1>7, <1>8

\* A line that is no setting leaves the settings as they were.
LEMMA SameSettings ==
  ASSUME NEW lines, NEW n \in Nat, ~IsSettingLine(lines[n + 1])
  PROVE  /\ SettingsTo(lines, n + 1) = SettingsTo(lines, n)
         /\ \A i : IsLastTo(lines, n + 1, i) <=> IsLastTo(lines, n, i)
<1>1. SettingsTo(lines, n + 1) = SettingsTo(lines, n)
  BY OneLineMore
<1> QED
  BY <1>1 DEF IsLastTo

LEMMA ReadLineKeepsSections ==
  ASSUME FileIsText, LinesAreHeld, ReadLine
  PROVE  /\ currentSection' = SectionOf(file, lineNo + 1)
         /\ sections' = Picked(Names(file), HeadersTo(file, lineNo + 1))
<1> DEFINE n == lineNo
           I == HeadersTo(file, n)
<1>1. /\ n \in Nat /\ n + 1 \in DOMAIN file
      /\ Line = file[n + 1] /\ IsText(Line)
  BY NextLineIs
<1>2. /\ currentSection = SectionOf(file, n)
      /\ sections = Picked(Names(file), I)
  BY DEF LinesAreHeld
<1>3. IsHeaderLine(Line) <=>
        ~IsBlank(Line) /\ ~IsComment(Line) /\ IsSection(Line)
  BY <1>1, LineKinds
<1>4. CASE IsHeaderLine(Line)
  <2>1. /\ currentSection' = SectionName(Line)
        /\ sections' = Append(sections, SectionName(Line))
    BY <1>3, <1>4 DEF ReadLine, SkipLine, ReadSection, ReadKeyValue, ReadMalformed
  <2>2. HeaderName(Line) = SectionName(Line)
    BY <1>1, <1>3, <1>4, LineContents
  <2>3. SectionOf(file, n + 1) = SectionName(Line)
    BY <1>1, <1>4, <2>2, SectionOfNextLine
  <2>4. HeadersTo(file, n + 1) = I \cup {n + 1}
    BY <1>1, <1>4, OneLineMore
  <2>5. I \in SUBSET (1..n)
    BY DEF HeadersTo
  <2>6. Names(file)[n + 1] = SectionName(Line)
    BY <1>1, <2>2 DEF Names
  <2> HIDE DEF I
  <2>7. Picked(Names(file), I \cup {n + 1}) =
          Append(Picked(Names(file), I), Names(file)[n + 1])
    BY <1>1, <2>5, PickedOneMore
  <2> QED
    BY <1>2, <2>1, <2>3, <2>4, <2>6, <2>7
<1>5. CASE ~IsHeaderLine(Line)
  <2>1. currentSection' = currentSection /\ sections' = sections
    BY <1>3, <1>5 DEF ReadLine, SkipLine, ReadSection, ReadKeyValue, ReadMalformed
  <2>2. SectionOf(file, n + 1) = SectionOf(file, n)
    BY <1>1, <1>5, SectionOfNextLine
  <2>3. HeadersTo(file, n + 1) = I
    BY <1>1, <1>5, OneLineMore
  <2> QED
    BY <1>2, <2>1, <2>2, <2>3
<1> QED
  BY <1>4, <1>5

LEMMA ReadLineKeepsMap ==
  ASSUME FileIsText, LinesAreHeld, ReadLine
  PROVE  LET m == lineNo + 1
         IN /\ DOMAIN map' = {Subject(file, i) : i \in SettingsTo(file, m)}
            /\ \A i \in SettingsTo(file, m) :
                  IsLastTo(file, m, i) =>
                    map'[Subject(file, i)] = SettingOf(file[i])[2]
<1> DEFINE n == lineNo
           S == SettingsTo(file, n)
           x == Subject(file, n + 1)
<1>1. /\ n \in Nat /\ Line = file[n + 1] /\ IsText(Line)
  BY NextLineIs
<1>2. /\ currentSection = SectionOf(file, n)
      /\ DOMAIN map = {Subject(file, i) : i \in S}
      /\ \A i \in S : IsLastTo(file, n, i) =>
            map[Subject(file, i)] = SettingOf(file[i])[2]
  BY DEF LinesAreHeld
<1>3. /\ IsSettingLine(Line) <=> /\ ~IsBlank(Line) /\ ~IsComment(Line)
                                 /\ ~IsSection(Line) /\ IsKeyValue(Line)
      /\ IsHeaderLine(Line) <=>
           ~IsBlank(Line) /\ ~IsComment(Line) /\ IsSection(Line)
  BY <1>1, LineKinds
<1>4. CASE IsSettingLine(Line)
  <2>1. map' = [y \in DOMAIN map \cup {<<currentSection, Key(Line)>>} |->
                  IF y = <<currentSection, Key(Line)>> THEN Value(Line)
                  ELSE map[y]]
    BY <1>3, <1>4 DEF ReadLine, SkipLine, ReadSection, ReadKeyValue, ReadMalformed
  <2>2. SettingOf(Line) = <<Key(Line), Value(Line)>>
    BY <1>1, <1>3, <1>4, LineContents
  <2>3. SectionOf(file, n + 1) = currentSection
    BY <1>1, <1>2, <1>3, <1>4, SectionOfNextLine
  <2>4. x = <<currentSection, Key(Line)>>
    BY <1>1, <2>2, <2>3 DEF Subject
  <2>5. /\ DOMAIN map' = DOMAIN map \cup {x}
        /\ map'[x] = Value(Line)
        /\ \A y \in DOMAIN map : y # x => map'[y] = map[y]
    BY <2>1, <2>4
  <2>6. SettingsTo(file, n + 1) = S \cup {n + 1}
    BY <1>1, <1>4, OneLineMore
  <2>7. SettingOf(file[n + 1])[2] = Value(Line)
    BY <1>1, <2>2
  <2> HIDE DEF x
  <2>8. ASSUME NEW i \in S, IsLastTo(file, n + 1, i)
        PROVE  map'[Subject(file, i)] = SettingOf(file[i])[2]
    <3>1. \A k \in S \cup {n + 1} : k > i => Subject(file, k) # Subject(file, i)
      BY <2>6, <2>8 DEF IsLastTo
    <3>2. IsLastTo(file, n, i)
      BY <3>1 DEF IsLastTo
    <3>3. n + 1 > i
      BY <1>1 DEF SettingsTo
    <3>4. Subject(file, i) # x
      BY <3>1, <3>3 DEF x
    <3>5. Subject(file, i) \in DOMAIN map
      BY <1>2
    <3> QED
      BY <1>2, <2>5, <3>2, <3>4, <3>5
  <2>9. DOMAIN map' = {Subject(file, i) : i \in S \cup {n + 1}}
    BY <1>2, <2>5 DEF x
  <2>10. map'[Subject(file, n + 1)] = SettingOf(file[n + 1])[2]
    BY <2>5, <2>7 DEF x
  <2> HIDE DEF S
  <2> QED
    BY <2>6, <2>8, <2>9, <2>10
<1>5. CASE ~IsSettingLine(Line)
  <2>1. map' = map
    BY <1>3, <1>5 DEF ReadLine, SkipLine, ReadSection, ReadKeyValue, ReadMalformed
  <2>2. /\ SettingsTo(file, n + 1) = S
        /\ \A i : IsLastTo(file, n + 1, i) <=> IsLastTo(file, n, i)
    BY <1>1, <1>5, SameSettings
  <2> HIDE DEF S
  <2> QED
    BY <1>2, <2>1, <2>2
<1> QED
  BY <1>4, <1>5

\* What the reader holds after a line is what the lines so far say.
LEMMA ReadLineKeepsLines ==
  ASSUME FileIsText, LinesAreHeld, ReadLine
  PROVE  LinesAreHeld'
<1>1. /\ lineNo \in Nat /\ lineNo' = lineNo + 1 /\ file' = file
      /\ lineNo + 1 \in 1..Len(file)
  BY NextLineIs
<1>2. lineNo' \in 0..Len(file')
  BY <1>1
<1>3. (currentSection = SectionOf(file, lineNo))'
  BY <1>1, ReadLineKeepsSections
<1>4. (sections = Picked(Names(file), HeadersTo(file, lineNo)))'
  BY <1>1, ReadLineKeepsSections
<1>5. (DOMAIN map = {Subject(file, i) : i \in SettingsTo(file, lineNo)})'
  BY <1>1, ReadLineKeepsMap
<1>6. (\A i \in SettingsTo(file, lineNo) :
         IsLastTo(file, lineNo, i) =>
           map[Subject(file, i)] = SettingOf(file[i])[2])'
  BY <1>1, ReadLineKeepsMap
<1> QED
  BY <1>2, <1>3, <1>4, <1>5, <1>6 DEF LinesAreHeld

-----------------------------------------------------------------------------
(* After the last line                                                     *)

\* Among the settings of a subject one is the last.
LEMMA LastSetting ==
  ASSUME NEW lines, NEW n \in Nat, NEW i \in SettingsTo(lines, n)
  PROVE  \E k \in SettingsTo(lines, n) :
            Subject(lines, k) = Subject(lines, i) /\ IsLastTo(lines, n, k)
<1> DEFINE S == {k \in SettingsTo(lines, n) : Subject(lines, k) = Subject(lines, i)}
<1>1. S \in SUBSET (0..n) /\ S # {}
  BY DEF SettingsTo
<1>2. PICK k \in S : \A j \in S : k >= j
  <2> HIDE DEF S
  <2> QED
    BY <1>1, GreatestElement
<1>3. IsLastTo(lines, n, k)
  <2> SUFFICES ASSUME NEW j \in SettingsTo(lines, n), j > k,
                      Subject(lines, j) = Subject(lines, k)
               PROVE  FALSE
    BY DEF IsLastTo
  <2>1. j \in S
    OBVIOUS
  <2>2. k >= j /\ k \in 0..n /\ j \in 0..n
    BY <1>1, <1>2, <2>1
  <2> QED
    BY <2>2
<1> QED
  BY <1>3

\* A key that is held has the value of the last of its settings.
LEMMA HeldIsLastSetting ==
  ASSUME LinesAreHeld, FileIsText, NEW x \in DOMAIN map
  PROVE  \E i \in SettingsTo(file, lineNo) :
            /\ IsLastTo(file, lineNo, i)
            /\ x = Subject(file, i) /\ map[x] = SettingOf(file[i])[2]
<1>1. lineNo \in Nat
  BY TextIs DEF FileIsText, LinesAreHeld
<1>2. PICK j \in SettingsTo(file, lineNo) : x = Subject(file, j)
  BY DEF LinesAreHeld
<1>3. PICK i \in SettingsTo(file, lineNo) :
        Subject(file, i) = x /\ IsLastTo(file, lineNo, i)
  BY <1>1, <1>2, LastSetting
<1> QED
  BY <1>3 DEF LinesAreHeld

\* A value is a text.
LEMMA ValueIsText ==
  ASSUME NEW line, IsText(line), IsKeyValue(line)
  PROVE  IsText(Value(line))
<1> DEFINE c == ValueStart(line)
           d == ValueEnd(line)
           value == SubSeq(line, c, d)
<1>1. c \in 1..Len(line) /\ d \in 1..Len(line)
  BY ScannedIsSplit, TextIs DEF IsSplit
<1>2. \A i \in c..d : line[i] \in Range(line)
  BY <1>1, TextIs DEF Range
<1> HIDE DEF c, d
<1>3. value \in Seq(Range(line))
  BY <1>1, <1>2, SubSeqProperties
<1> HIDE DEF value
<1>4. value \in [1..Len(value) -> Range(value)] /\ Len(value) \in Nat
  BY <1>3 DEF Range
<1>5. IsText(value)
  BY <1>4 DEF IsText
<1> QED
  BY <1>5 DEF value, c, d, Value

\* What the reader holds is well formed.
LEMMA HeldIsWellFormed ==
  ASSUME LinesAreHeld, FileIsText, NEW x \in DOMAIN map
  PROVE  /\ x = <<x[1], x[2]>> /\ IsKey(x[2])
         /\ IsValue(map[x]) /\ IsText(map[x])
<1>1. PICK i \in SettingsTo(file, lineNo) :
        x = Subject(file, i) /\ map[x] = SettingOf(file[i])[2]
  BY HeldIsLastSetting
<1>2. i \in DOMAIN file /\ IsText(file[i]) /\ IsSettingLine(file[i])
  BY TextIs DEF FileIsText, LinesAreHeld, SettingsTo
<1>3. IsKeyValue(file[i])
  BY <1>2, LineKinds
<1>4. /\ IsKey(SettingOf(file[i])[1]) /\ IsValue(SettingOf(file[i])[2])
      /\ IsText(SettingOf(file[i])[2])
  BY <1>2, <1>3, LineContents, ValueIsText
<1> QED
  BY <1>1, <1>4 DEF Subject

\* At the end of the file the reader holds what the file says.
LEMMA AllIsHeld ==
  ASSUME FileIsText, LinesAreHeld, lineNo = Len(file)
  PROVE  /\ sections = SectionList(file)
         /\ {<<x[1], x[2], map[x]>> : x \in DOMAIN map} = Says(file)
         /\ BadTo(file, lineNo) = BadLines(file)
<1> DEFINE n == Len(file)
           settings == {i \in DOMAIN file : IsSettingLine(file[i])}
           Triple(i) == <<Subject(file, i)[1], Subject(file, i)[2],
                          SettingOf(file[i])[2]>>
           Final == {j \in settings : \A k \in settings :
                      k > j => Subject(file, k) # Subject(file, j)}
           Held == {<<x[1], x[2], map[x]>> : x \in DOMAIN map}
<1>1. DOMAIN file = 1..n
  BY TextIs DEF FileIsText
<1>2. sections = SectionList(file)
  BY <1>1 DEF LinesAreHeld, SectionList, HeadersTo, Names
<1>3. settings = SettingsTo(file, n)
  BY <1>1 DEF SettingsTo
<1>4. \A i \in settings : i \in Final <=> IsLastTo(file, n, i)
  BY <1>3 DEF IsLastTo
<1>5. Says(file) = {Triple(i) : i \in Final}
  BY DEF Says
<1>6. Final \subseteq settings
  OBVIOUS
<1> HIDE DEF settings, Final
<1>7. ASSUME NEW x \in DOMAIN map
      PROVE  \E i \in Final : <<x[1], x[2], map[x]>> = Triple(i)
  <2>1. PICK i \in SettingsTo(file, n) :
          /\ IsLastTo(file, n, i)
          /\ x = Subject(file, i) /\ map[x] = SettingOf(file[i])[2]
    BY HeldIsLastSetting
  <2> QED
    BY <1>3, <1>4, <2>1
<1>8. ASSUME NEW i \in Final
      PROVE  \E x \in DOMAIN map : <<x[1], x[2], map[x]>> = Triple(i)
  <2>1. /\ Subject(file, i) \in DOMAIN map
        /\ map[Subject(file, i)] = SettingOf(file[i])[2]
    BY <1>3, <1>4, <1>6 DEF LinesAreHeld
  <2> QED
    BY <2>1
<1>9. Held = Says(file)
  BY <1>5, <1>7, <1>8
<1>10. BadTo(file, lineNo) = BadLines(file)
  BY <1>1 DEF BadTo, BadLines
<1> QED
  BY <1>2, <1>9, <1>10
=============================================================================
