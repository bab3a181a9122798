----------------------------- MODULE IniReader -----------------------------
(***************************************************************************)
(* INIReader (src/src/cIniReader.cpp): the constructor reads the file line  *)
(* by line, the getters look a key up and convert its value.  A getter that *)
(* throws is a set of results that is empty.                                *)
(***************************************************************************)
EXTENDS IniFile

CONSTANTS
  Digits,      \* the words that are numbers, with the number each stands for
  Kilo,        \* 1024
  MaxInt       \* 2^63 - 1, the largest int64_t

ASSUME NumberAssumption == Kilo \in Nat \ {0} /\ MaxInt \in Nat

ASSUME DigitsAssumption == \A word \in DOMAIN Digits : Digits[word] \in Nat

VARIABLES
  file,            \* the lines of the file
  lineNo,          \* line_no
  currentSection,  \* current_section
  sections,        \* _sections
  map,             \* map, a function of section and key
  error            \* _error

readerVars == <<file, lineNo, currentSection, sections, map, error>>

ReaderTypeOK ==
  /\ lineNo \in 0..Len(file)
  /\ \A x \in DOMAIN map : IsKey(x[2]) /\ IsValue(map[x])
  /\ error \in -1..lineNo

ReaderInit ==
  /\ lineNo = 0
  /\ currentSection = <<>>
  /\ sections = <<>>
  /\ map = <<>>
  /\ error = 0

-----------------------------------------------------------------------------
(* The lines                                                               *)

\* The first position from pos on that holds one of the symbols, or the end.
Find(line, pos, symbols) ==
  Min({i \in pos..Len(line) : line[i] \in symbols} \cup {Len(line) + 1})

SkipWs(line, pos) ==
  Min({i \in pos..Len(line) : line[i] \notin Blanks} \cup {Len(line) + 1})

IsBlank(line) == SkipWs(line, 1) = Len(line) + 1

IsComment(line) ==
  LET i == SkipWs(line, 1)
  IN /\ i <= Len(line)
     /\ \/ line[i] \in {";", "#"}
        \/ i < Len(line) /\ line[i] = "-" /\ line[i + 1] = "-"

CloseOf(line) == Find(line, SkipWs(line, 1) + 1, {"]"})

IsSection(line) ==
  LET i == SkipWs(line, 1)
  IN /\ i <= Len(line) /\ line[i] = "["
     /\ CloseOf(line) = Len(line)
     /\ CloseOf(line) # i + 1

SectionName(line) == SubSeq(line, SkipWs(line, 1) + 1, CloseOf(line) - 1)

\* The positions of tryParseKeyValue, each found from the one before: the key
\* starts with any symbol that is no blank and goes on to a blank or a '='.
KeyEnd(line) == Find(line, SkipWs(line, 1) + 1, KeyEnds)
EqualSign(line) == SkipWs(line, KeyEnd(line))
ValueStart(line) == SkipWs(line, EqualSign(line) + 1)

\* Trailing blanks belong to the value.
ValueEndAtEnd(line) == Len(line)

ValueEnd(line) == Max({i \in DOMAIN line : line[i] \notin Blanks})

IsKeyValue(line) ==
  /\ ~IsBlank(line)
  /\ EqualSign(line) <= Len(line) /\ line[EqualSign(line)] = "="
  /\ ValueStart(line) <= Len(line)
  /\ \A i \in ValueStart(line)..(ValueEnd(line) - 1) :
        line[i] \in Blanks => line[i + 1] \notin Blanks

Key(line) == SubSeq(line, SkipWs(line, 1), KeyEnd(line) - 1)
Value(line) == SubSeq(line, ValueStart(line), ValueEnd(line))

-----------------------------------------------------------------------------
(* The constructor                                                         *)

Line == file[lineNo + 1]

NextLine == lineNo < Len(file) /\ lineNo' = lineNo + 1 /\ UNCHANGED file

SkipLine ==
  /\ NextLine
  /\ IsBlank(Line) \/ IsComment(Line)
  /\ UNCHANGED <<currentSection, sections, map, error>>

ReadSection ==
  /\ NextLine
  /\ ~IsBlank(Line) /\ ~IsComment(Line) /\ IsSection(Line)
  /\ currentSection' = SectionName(Line)
  /\ sections' = Append(sections, SectionName(Line))
  /\ UNCHANGED <<map, error>>

ReadKeyValue ==
  /\ NextLine
  /\ ~IsBlank(Line) /\ ~IsComment(Line) /\ ~IsSection(Line) /\ IsKeyValue(Line)
  /\ LET x == <<currentSection, Key(Line)>>
     IN map' = [y \in DOMAIN map \cup {x} |->
                  IF y = x THEN Value(Line) ELSE map[y]]
  /\ UNCHANGED <<currentSection, sections, error>>

\* Each malformed line overwrites the one before.
LastError(line) == line

\* Only the first malformed line is kept, and reading goes on.
FirstError(line) == IF error = 0 THEN line ELSE error

ReadMalformed ==
  /\ NextLine
  /\ ~IsBlank(Line) /\ ~IsComment(Line) /\ ~IsSection(Line) /\ ~IsKeyValue(Line)
  /\ error' = FirstError(lineNo + 1)
  /\ UNCHANGED <<currentSection, sections, map>>

ReadLine == SkipLine \/ ReadSection \/ ReadKeyValue \/ ReadMalformed

-----------------------------------------------------------------------------
(* The getters                                                             *)

Get(section, key, default) ==
  IF <<section, <<key>>>> \in DOMAIN map
  THEN map[<<section, <<key>>>>] ELSE default

\* std::tolower, on the words that may have capitals.
Lowered == [Yes |-> "yes", ON |-> "on", Master |-> "master",
            MySQL |-> "mysql", PostgreSQL |-> "postgresql", SQL |-> "sql",
            GENLOG |-> "genlog"]
Lower(text) ==
  [i \in DOMAIN text |-> IF text[i] \in DOMAIN Lowered
                         THEN Lowered[text[i]] ELSE text[i]]

GetInfileType(section) ==
  LET value == Lower(Get(section, "infiletype", <<"sql">>))
  IN CASE value = <<"sql">> -> "eSQL"
       [] value = <<"genlog">> -> "eGENLOG"
       [] value = <<"binlog">> -> "eBINLOG"
       [] OTHER -> "eUNKNOWN"

GetDbType(section) ==
  LET value == Lower(Get(section, "dbtype", <<"mysql">>))
  IN CASE value \in {<<"mysql">>, <<"mariadb">>} -> "eMYSQL"
       [] value \in {<<"pgsql">>, <<"postgres">>, <<"postgresql">>} -> "ePGSQL"
       [] OTHER -> "eNONE"

GetBoolean(section, key, default) ==
  LET value == Lower(Get(section, key, <<>>))
  IN \/ value \in {<<"true">>, <<"yes">>, <<"on">>, <<"1">>}
     \/ default /\ value \notin {<<"false">>, <<"no">>, <<"off">>, <<"0">>}

\* vss >> ipart: a sign and digits, or nothing if there are none.
NumberAt(value) == IF value[1] \in {"-", "+"} THEN 2 ELSE 1
Numerals(value) ==
  LET i == NumberAt(value)
  IN IF i > Len(value) \/ value[i] \notin DOMAIN Digits THEN {}
     ELSE {IF value[1] = "-" THEN -Digits[value[i]] ELSE Digits[value[i]]}

\* vss >> cpart: the first symbol after the digits, which is all that counts.
Multipliers(value) ==
  LET i == SkipWs(value, NumberAt(value) + 1)
  IN CASE i > Len(value) -> {1}
       [] i <= Len(value) /\ value[i] \in {"k", "K"} -> {Kilo}
       [] i <= Len(value) /\ value[i] \in {"m", "M"} -> {Kilo * Kilo}
       [] i <= Len(value) /\ value[i] \in {"g", "G"} -> {Kilo * Kilo * Kilo}
       [] i <= Len(value) /\ value[i] \in {"t", "T"} -> {Kilo * Kilo * Kilo * Kilo}
       [] OTHER -> {}

MinInt == -(MaxInt + 1)
IsInt(n) == MinInt <= n /\ n <= MaxInt

\* Division of C++, which rounds towards zero.
Quotient(n, m) == IF n < 0 THEN -((-n) \div m) ELSE n \div m

\* Only the number before the multiplier is looked at.
OutOfRangeBefore(ipart, multiplier) == ipart > MaxInt

\* The guard against overflow.
OutOfRange(ipart, multiplier) ==
  /\ ipart # 0
  /\ \/ ipart > Quotient(MaxInt, multiplier)
     \/ ipart < Quotient(MinInt, multiplier)

\* The product of two int64_t, were it not guarded.
Product(a, b) == ((a * b - MinInt) % (2 * (MaxInt + 1))) + MinInt

GetInteger(section, key, default) ==
  LET value == Get(section, key, <<>>)
  IN IF value = <<>> THEN {default}
     ELSE {Product(x[1], x[2]) :
             x \in {y \in Numerals(value) \X Multipliers(value) :
                      IsInt(y[1]) /\ ~OutOfRange(y[1], y[2])}}
=============================================================================
