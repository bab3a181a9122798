--------------------------- MODULE SqlFileParser ---------------------------
(***************************************************************************)
(* SqlFileParser::loadQueriesFromFile (src/src/cSqlFileParser.cpp): a       *)
(* scanner that reads the infile once, symbol by symbol, and fills the list *)
(* of queries.  There is one action for each way one of its consume...      *)
(* functions can go.                                                        *)
(*                                                                         *)
(* The scanner works line by line, but all it looks for lies within a line: *)
(* so the text is one sequence, and a line matters at its start only.  A    *)
(* last line without a newline is given one by the code.                    *)
(***************************************************************************)
EXTENDS SqlScript, SequencesExt

CONSTANTS
  Alphabets,       \* bound: each text is made of the symbols of one of these
  MaxLength,       \* bound: symbols of a text, without its last newline
  DollarQuotings   \* mDollarQuoting: TRUE for PostgreSQL

ASSUME TextAssumption ==
  /\ \A alphabet \in Alphabets : alphabet \subseteq Symbols
  /\ MaxLength \in Nat
  /\ DollarQuotings \subseteq BOOLEAN

VARIABLES
  text,            \* the infile
  dollarQuoting,   \* mDollarQuoting
  phase,           \* of loadQueriesFromFile
  pos,             \* the next symbol to look at
  state,           \* the ScanState
  statement,       \* what there is of the present statement
  delimiter,       \* the present delimiter
  dollarTag,       \* the tag that closes the present dollar quote
  queryList        \* the result

inputVars == <<text, dollarQuoting>>
vars == <<inputVars, phase, pos, state, statement, delimiter, dollarTag,
          queryList>>

ScanStates == {"Normal", "SingleQuote", "DoubleQuote", "Backtick",
               "LineComment", "BlockComment", "DollarQuote"}

TypeOK ==
  /\ text \in Seq(Symbols)
  /\ dollarQuoting \in BOOLEAN
  /\ phase \in {"open", "scan", "loaded", "failed"}
  /\ pos \in 1..(Len(text) + 1)
  /\ state \in ScanStates
  /\ statement \in Seq(Symbols)
  /\ delimiter \in Seq(Symbols)
  /\ dollarTag \in Seq(Symbols)
  /\ queryList \in Seq(Seq(Symbols))

Init ==
  /\ \/ text = <<>>
     \/ \E alphabet \in Alphabets :
          \E s \in BoundedSeq(alphabet, MaxLength) : text = Append(s, Newline)
  /\ dollarQuoting \in DollarQuotings
  /\ phase = "open"
  /\ pos = 1
  /\ state = "Normal"
  /\ statement = <<>>
  /\ delimiter = <<";">>
  /\ dollarTag = <<>>
  /\ queryList = <<>>

-----------------------------------------------------------------------------
(* The small functions                                                     *)

\* pushStatement's effect on the list.
Pushed(list, s) == IF Trim(s) = <<>> THEN list ELSE Append(list, Trim(s))

\* text[p] is c, if there is such a position.
Is(p, c) == p <= Len(text) /\ text[p] = c

StartsLineComment(p) ==
  \/ Is(p, "#")
  \/ Is(p, "/") /\ Is(p + 1, "/")
  \/ Is(p, "-") /\ Is(p + 1, "-") /\ \E b \in Blanks : Is(p + 2, b)

StartsBlockComment(p) == Is(p, "/") /\ Is(p + 1, "*")

\* newDelimiter, or nothing if the line at p is no DELIMITER command.
DelimiterCommand(p) ==
  LET line == Trim(Line(text, p))
  IN  IF Len(line) > 1 /\ line[1] = "D" THEN Trim(Tail(line)) ELSE <<>>

\* The line is read while nothing is open.
NewLineRead == LineStart(text, pos) /\ state = "Normal"

\* A command is one inside quotes and comments, too.
IsDelimiterCommandAnywhere ==
  LineStart(text, pos) /\ DelimiterCommand(pos) # <<>>

IsDelimiterCommand == NewLineRead /\ DelimiterCommand(pos) # <<>>

StartsWithDelimiter(p) == delimiter # <<>> /\ Occurs(delimiter, text, p)

\* The length of the $tag$ at p, 0 if there is none.
DollarQuoteOpenLength(p) ==
  LET tagLength == Cardinality({k \in 1..(Len(text) - p) :
        \A j \in 1..k : text[p + j] \in Letters \cup Digits})
  IN  IF ~Is(p, "$") THEN 0
      ELSE IF Is(p + 1, "$") THEN 2
      ELSE IF p = Len(text) \/ text[p + 1] \notin Letters THEN 0
      ELSE IF Is(p + tagLength + 1, "$") THEN tagLength + 2 ELSE 0

-----------------------------------------------------------------------------
(* splitStatements                                                         *)

\* `count' symbols are dealt with, and `kept' is what they add.
Consume(count, kept) ==
  /\ pos' = pos + count
  /\ statement' = statement \o kept

Here == text[pos]

Scanning == phase = "scan" /\ pos <= Len(text)

Reading(s) == Scanning /\ state = s /\ ~IsDelimiterCommand

OpenFile ==
  /\ phase = "open"
  /\ phase' \in {"scan", "failed"}
  /\ UNCHANGED <<inputVars, pos, state, statement, delimiter, dollarTag,
                 queryList>>

\* A DELIMITER line does not end the statement it stands in.
ReadDelimiterCommand ==
  /\ Scanning
  /\ IsDelimiterCommand
  /\ delimiter' = DelimiterCommand(pos)
  /\ pos' = LineEnd(text, pos) + 1
  /\ UNCHANGED <<inputVars, phase, state, statement, dollarTag, queryList>>

MeetDelimiter ==
  /\ Reading("Normal")
  /\ StartsWithDelimiter(pos)
  /\ queryList' = Pushed(queryList, statement)
  /\ statement' = <<>>
  /\ pos' = pos + Len(delimiter)
  /\ UNCHANGED <<inputVars, phase, state, delimiter, dollarTag>>

MeetLineComment ==
  /\ Reading("Normal")
  /\ ~StartsWithDelimiter(pos)
  /\ StartsLineComment(pos)
  /\ state' = "LineComment"
  /\ Consume(IF Here \in {"/", "-"} THEN 2 ELSE 1, <<>>)
  /\ UNCHANGED <<inputVars, phase, delimiter, dollarTag, queryList>>

MeetBlockComment ==
  /\ Reading("Normal")
  /\ ~StartsWithDelimiter(pos)
  /\ ~StartsLineComment(pos)
  /\ StartsBlockComment(pos)
  /\ state' = "BlockComment"
  /\ Consume(2, <<>>)
  /\ UNCHANGED <<inputVars, phase, delimiter, dollarTag, queryList>>

InStatement ==
  /\ Reading("Normal")
  /\ ~StartsWithDelimiter(pos)
  /\ ~StartsLineComment(pos)
  /\ ~StartsBlockComment(pos)

DollarQuoteHere == dollarQuoting /\ DollarQuoteOpenLength(pos) > 0

\* The tag that opens the quote is not remembered.
MeetDollarQuoteNoTag ==
  /\ InStatement
  /\ DollarQuoteHere
  /\ LET tag == SubSeq(text, pos, pos + DollarQuoteOpenLength(pos) - 1)
     IN  Consume(Len(tag), tag)
  /\ state' = "DollarQuote"
  /\ UNCHANGED <<inputVars, phase, delimiter, dollarTag, queryList>>

MeetDollarQuote ==
  /\ InStatement
  /\ DollarQuoteHere
  /\ LET tag == SubSeq(text, pos, pos + DollarQuoteOpenLength(pos) - 1)
     IN  dollarTag' = tag /\ Consume(Len(tag), tag)
  /\ state' = "DollarQuote"
  /\ UNCHANGED <<inputVars, phase, delimiter, queryList>>

QuoteState == [c \in {SingleQuote, DoubleQuote, Backtick} |->
                 IF c = SingleQuote THEN "SingleQuote"
                 ELSE IF c = DoubleQuote THEN "DoubleQuote" ELSE "Backtick"]

MeetQuote ==
  /\ InStatement
  /\ ~DollarQuoteHere
  /\ Here \in DOMAIN QuoteState
  /\ state' = QuoteState[Here]
  /\ Consume(1, <<Here>>)
  /\ UNCHANGED <<inputVars, phase, delimiter, dollarTag, queryList>>

MeetPlainChar ==
  /\ InStatement
  /\ ~DollarQuoteHere
  /\ Here \notin DOMAIN QuoteState
  /\ Consume(1, <<Here>>)
  /\ UNCHANGED <<inputVars, phase, state, delimiter, dollarTag, queryList>>

\* Inside '...' or "...": a backslash takes the next symbol with it.
ConsumeQuotedChar(s, quote) ==
  /\ Reading(s)
  /\ IF Here = Backslash /\ pos < Len(text)
     THEN Consume(2, SubSeq(text, pos, pos + 1)) /\ UNCHANGED state
     ELSE /\ Consume(1, <<Here>>)
          /\ state' = IF Here = quote THEN "Normal" ELSE state
  /\ UNCHANGED <<inputVars, phase, delimiter, dollarTag, queryList>>

\* Inside `...`: there is no escape.
ConsumeBacktickChar ==
  /\ Reading("Backtick")
  /\ Consume(1, <<Here>>)
  /\ state' = IF Here = Backtick THEN "Normal" ELSE state
  /\ UNCHANGED <<inputVars, phase, delimiter, dollarTag, queryList>>

ConsumeLineCommentChar ==
  /\ Reading("LineComment")
  /\ Consume(1, <<>>)
  /\ state' = IF Here = Newline THEN "Normal" ELSE state
  /\ UNCHANGED <<inputVars, phase, delimiter, dollarTag, queryList>>

ConsumeBlockCommentChar ==
  /\ Reading("BlockComment")
  /\ IF Here = "*" /\ Is(pos + 1, "/")
     THEN Consume(2, <<>>) /\ state' = "Normal"
     ELSE Consume(1, <<>>) /\ UNCHANGED state
  /\ UNCHANGED <<inputVars, phase, delimiter, dollarTag, queryList>>

\* Any dollar sign closes a dollar quote.
ClosesDollarQuoteLoosely == Here = "$"

ClosesDollarQuote == Here = "$" /\ Occurs(dollarTag, text, pos)

\* Inside $tag$: nothing but the tag counts.
ConsumeDollarQuoteChar ==
  /\ Reading("DollarQuote")
  /\ IF ClosesDollarQuote
     THEN /\ Consume(Len(dollarTag), dollarTag)
          /\ dollarTag' = <<>>
          /\ state' = "Normal"
     ELSE /\ Consume(1, <<Here>>)
          /\ UNCHANGED <<dollarTag, state>>
  /\ UNCHANGED <<inputVars, phase, delimiter, queryList>>

\* The end of the file ends the last statement.
EndOfFile ==
  /\ phase = "scan"
  /\ pos > Len(text)
  /\ phase' = "loaded"
  /\ queryList' = Pushed(queryList, statement)
  /\ statement' = <<>>
  /\ UNCHANGED <<inputVars, pos, state, delimiter, dollarTag>>

ConsumeNormalChar ==
  \/ MeetDelimiter \/ MeetLineComment \/ MeetBlockComment
  \/ MeetDollarQuote \/ MeetQuote \/ MeetPlainChar

Next ==
  \/ OpenFile
  \/ ReadDelimiterCommand
  \/ ConsumeNormalChar
  \/ ConsumeQuotedChar("SingleQuote", SingleQuote)
  \/ ConsumeQuotedChar("DoubleQuote", DoubleQuote)
  \/ ConsumeBacktickChar
  \/ ConsumeLineCommentChar
  \/ ConsumeBlockCommentChar
  \/ ConsumeDollarQuoteChar
  \/ EndOfFile

Spec == Init /\ [][Next]_vars

-----------------------------------------------------------------------------
(* Properties                                                              *)

\* The queries loaded are the statements of the script: none is split inside
\* a quote, a comment or a dollar quote, none is glued to the next, no comment
\* gets into one.
LoadsTheStatements ==
  phase = "loaded" => queryList = Statements(text, dollarQuoting)

\* While there is text left every step moves forward in it, so the scan ends:
\* the tag of the open dollar quote and the delimiter, by whose lengths the
\* scanner moves on, are never empty.  (cSqlFileParser.cpp:148, 244)
ScanAdvances == [][Scanning => pos' > pos]_vars

\* A file of comment lines, as pquery-pgsql.sql:4 describes them, has no
\* queries.
CommentLinesAreIgnored ==
  LET commentLine(p) == \E s \in {<<"#">>, <<";">>, <<"/", "/">>} : Occurs(s, text, p)
  IN  (\A p \in 1..Len(text) : LineStart(text, p) => commentLine(p))
        => queryList = <<>>
=============================================================================
