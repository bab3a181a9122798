----------------------------- MODULE SqlScript -----------------------------
(***************************************************************************)
(* What a SQL file means to pquery, in the words of src/src/pquery.cfg:4-20 *)
(* and of the tests of the parser (src/tests/test_sqlfileparser.cpp): how a *)
(* text is cut into tokens, and which statements the tokens make.           *)
(*                                                                         *)
(* A text is a sequence of symbols that ends with a newline.  A symbol      *)
(* stands for a class of characters: " " for any blank, "a" for a letter or *)
(* underscore, "1" for a digit, "D" for the word DELIMITER and the space    *)
(* after it; the symbols of SQL's syntax stand for themselves.              *)
(***************************************************************************)
EXTENDS Integers, Sequences, FiniteSetsExt

Newline == "newline"
SingleQuote == "quote"
DoubleQuote == "dquote"
Backtick == "backtick"
Backslash == "backslash"
Blanks == {" ", Newline}
Letters == {"a"}
Digits == {"1"}
Symbols == Blanks \cup Letters \cup Digits \cup
           {"D", ";", SingleQuote, DoubleQuote, Backtick, Backslash, "/", "*", "-", "#", "$"}

\* s stands at position p of t.
Occurs(s, t, p) ==
  /\ p + Len(s) - 1 <= Len(t)
  /\ SubSeq(t, p, p + Len(s) - 1) = s

\* s without the blanks at its ends.
Trim(s) ==
  LET kept == {k \in 1..Len(s) : s[k] \notin Blanks}
  IN  IF kept = {} THEN <<>> ELSE SubSeq(s, Min(kept), Max(kept))

LineStart(t, p) == p > 1 => t[p - 1] = Newline

\* The last symbol of the line p is in.
LineEnd(t, p) == Min({e \in p..Len(t) : t[e] = Newline})

Line(t, p) == SubSeq(t, p, LineEnd(t, p))

-----------------------------------------------------------------------------
(* Tokens.  Each is given by the position of its last symbol; what is never *)
(* closed lasts to the end of the text.                                     *)

Until(t, ends) == IF ends = {} THEN Len(t) ELSE Min(ends)

\* A quote closes a string if the backslashes before it pair off.
StringEnds(t, p) ==
  {e \in (p + 1)..Len(t) :
     /\ t[e] = t[p]
     /\ \E b \in p..(e - 1) : /\ t[b] # Backslash
                              /\ \A k \in (b + 1)..(e - 1) : t[k] = Backslash
                              /\ (e - 1 - b) % 2 = 0}

NameEnds(t, p) == {e \in (p + 1)..Len(t) : t[e] = Backtick}

BlockCommentEnds(t, p) ==
  {e \in (p + 3)..Len(t) : t[e - 1] = "*" /\ t[e] = "/"}

LineCommentAt(t, p) ==
  \E s \in {<<"#">>, <<"/", "/">>} \cup {<<"-", "-", b>> : b \in Blanks} :
    Occurs(s, t, p)

\* The dollar quote that opens at p, $$ or $tag$, as a set of at most one.
DollarTags(t, p) ==
  {SubSeq(t, p, e) : e \in
     {e \in (p + 1)..Len(t) :
        /\ t[p] = "$" /\ t[e] = "$"
        /\ t[p + 1] \notin Digits
        /\ \A k \in (p + 1)..(e - 1) : t[k] \in Letters \cup Digits}}

DollarEnds(t, p, tag) ==
  {e \in (p + 2 * Len(tag) - 1)..Len(t) : Occurs(tag, t, e - Len(tag) + 1)}

\* The delimiter the line at p chooses: what stands after DELIMITER.
Command(t, p) ==
  LET line == Trim(Line(t, p))
  IN  IF LineStart(t, p) /\ line # <<>> /\ Head(line) = "D"
      THEN Trim(Tail(line)) ELSE <<>>

Token(t, p, delimiter, dollarQuoting) ==
  LET token(kind, last) == [kind |-> kind, last |-> last]
  IN  IF Command(t, p) # <<>> THEN token("command", LineEnd(t, p))
      ELSE IF Occurs(delimiter, t, p)
      THEN token("delimiter", p + Len(delimiter) - 1)
      ELSE IF LineCommentAt(t, p) THEN token("comment", LineEnd(t, p))
      ELSE IF Occurs(<<"/", "*">>, t, p)
      THEN token("comment", Until(t, BlockCommentEnds(t, p)))
      ELSE IF dollarQuoting /\ DollarTags(t, p) # {}
      THEN LET tag == CHOOSE s \in DollarTags(t, p) : TRUE
           IN  token("text", Until(t, DollarEnds(t, p, tag)))
      ELSE IF t[p] \in {SingleQuote, DoubleQuote} THEN token("text", Until(t, StringEnds(t, p)))
      ELSE IF t[p] = Backtick THEN token("text", Until(t, NameEnds(t, p)))
      ELSE token("text", p)

-----------------------------------------------------------------------------
(* Statements                                                              *)

\* A statement of nothing but blanks is none.
Kept(statement) ==
  IF Trim(statement) = <<>> THEN <<>> ELSE <<Trim(statement)>>

\* How far a text is read: a position, the delimiter there, and what there is
\* of the statement that is begun.
Places == (Nat \ {0}) \X (Seq(Symbols) \ {<<>>}) \X Seq(Symbols)

\* The statements of t: what stands between delimiters, without comments.
Statements(t, dollarQuoting) ==
  LET from[at \in Places] ==
        LET p         == at[1]
            delimiter == at[2]
            begun     == at[3]
            token     == Token(t, p, delimiter, dollarQuoting)
            after     == token.last + 1
        IN  IF p > Len(t) THEN Kept(begun)
            ELSE IF token.kind = "command" THEN from[<<after, Command(t, p), begun>>]
            ELSE IF token.kind = "delimiter"
            THEN Kept(begun) \o from[<<after, delimiter, <<>>>>]
            ELSE IF token.kind = "comment" THEN from[<<after, delimiter, begun>>]
            ELSE from[<<after, delimiter, begun \o SubSeq(t, p, token.last)>>]
  IN  from[<<1, <<";">>, <<>>>>]
=============================================================================
