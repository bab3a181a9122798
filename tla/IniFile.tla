------------------------------ MODULE IniFile ------------------------------
(***************************************************************************)
(* What a configuration file says: the grammar of its lines and the meaning *)
(* of a whole file, with which INIReader is compared.  A line is a sequence *)
(* of symbols; a symbol is a blank, a punctuation mark or a word without    *)
(* blanks.                                                                  *)
(***************************************************************************)
EXTENDS Integers, SequencesExt

Blanks == {" ", "\t", "\r"}     \* the members of std::isspace that occur
KeyEnds == {" ", "\t", "="}

\* A sequence, of whatever it consists.
IsText(text) == text \in Seq(Range(text))

IsBlankText(text) == Range(text) \subseteq Blanks
IsIndented(line, i) == IsBlankText(SubSeq(line, 1, i - 1))

IsKey(key) ==
  /\ key # <<>>
  /\ key[1] \notin Blanks
  /\ \A i \in 2..Len(key) : key[i] \notin KeyEnds

\* Words with one blank between them.
IsValue(value) ==
  /\ value # <<>>
  /\ value[1] \notin Blanks /\ value[Len(value)] \notin Blanks
  /\ \A i \in 1..(Len(value) - 1) : ~({value[i], value[i + 1]} \subseteq Blanks)

IsGap(text) == IsBlankText(text) /\ (text = <<>> \/ text[1] \in KeyEnds)

\* Lines that say nothing.
Ignored(line) ==
  \/ IsBlankText(line)
  \/ \E i \in DOMAIN line :
        /\ IsIndented(line, i)
        /\ \/ line[i] \in {";", "#"}
           \/ i < Len(line) /\ line[i] = "-" /\ line[i + 1] = "-"

\* The name in a line  [name] , with nothing after the bracket.
Headers(line) ==
  {SubSeq(line, i + 1, Len(line) - 1) :
     i \in {j \in 1..(Len(line) - 2) :
              /\ IsIndented(line, j)
              /\ line[j] = "["
              /\ line[Len(line)] = "]"
              /\ \A k \in 1..(Len(line) - 1) : line[k] # "]"}}

\* The key and the value in a line  key = value , split at the '=' at e.
KeyValuesAt(line, e) ==
  {<<SubSeq(line, p[1], p[2]), SubSeq(line, p[3], p[4])>> :
     p \in {q \in (1..(e - 1)) \X (1..(e - 1)) \X ((e + 1)..Len(line))
                                             \X ((e + 1)..Len(line)) :
              /\ IsIndented(line, q[1])
              /\ IsKey(SubSeq(line, q[1], q[2]))
              /\ IsGap(SubSeq(line, q[2] + 1, e - 1))
              /\ IsBlankText(SubSeq(line, e + 1, q[3] - 1))
              /\ IsValue(SubSeq(line, q[3], q[4]))
              /\ IsBlankText(SubSeq(line, q[4] + 1, Len(line)))}}

KeyValues(line) ==
  UNION {KeyValuesAt(line, e) : e \in {i \in DOMAIN line : line[i] = "="}}

-----------------------------------------------------------------------------
(* The meaning of a file                                                   *)

IsHeaderLine(line) == ~Ignored(line) /\ Headers(line) # {}
IsSettingLine(line) ==
  ~Ignored(line) /\ ~IsHeaderLine(line) /\ KeyValues(line) # {}
IsBadLine(line) ==
  ~Ignored(line) /\ ~IsHeaderLine(line) /\ ~IsSettingLine(line)

BadLines(lines) == {i \in DOMAIN lines : IsBadLine(lines[i])}

\* The elements at the indexes in I, in their order.
Nth(I, n) == CHOOSE i \in I : Cardinality({j \in I : j <= i}) = n
Picked(elements, I) == [n \in 1..Cardinality(I) |-> elements[Nth(I, n)]]

\* The names in the headers, repeated as often as they are.
HeaderName(line) == CHOOSE name \in Headers(line) : TRUE
SectionList(lines) ==
  Picked([i \in DOMAIN lines |-> HeaderName(lines[i])],
         {i \in DOMAIN lines : IsHeaderLine(lines[i])})

\* The lines of a section: those after its headers, up to the next header;
\* the section of the lines before the first header has the empty name.
LastHeaders(lines, i) ==
  {h \in 1..i : /\ IsHeaderLine(lines[h])
                /\ \A j \in (h + 1)..i : ~IsHeaderLine(lines[j])}
SectionOf(lines, i) ==
  LET h == LastHeaders(lines, i)
  IN IF h = {} THEN <<>> ELSE HeaderName(lines[Max(h)])

\* What a line sets, and of which section.
SettingOf(line) == CHOOSE kv \in KeyValues(line) : TRUE
Subject(lines, i) == <<SectionOf(lines, i), SettingOf(lines[i])[1]>>

\* What the file says, as triples of section, key and value: the last of the
\* settings of a key in a section counts.
Says(lines) ==
  LET settings == {i \in DOMAIN lines : IsSettingLine(lines[i])}
  IN {<<Subject(lines, i)[1], Subject(lines, i)[2], SettingOf(lines[i])[2]>> :
        i \in {j \in settings : \A k \in settings :
                  k > j => Subject(lines, k) # Subject(lines, j)}}
=============================================================================
