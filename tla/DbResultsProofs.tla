-------------------------- MODULE DbResultsProofs --------------------------
(***************************************************************************)
(* Theorems about DbResults, for any number of statements and of replies to *)
(* each of them.                                                            *)
(***************************************************************************)
EXTENDS DbResults, TLAPS

\* A statement has been sent where the thread works on one, and no reply has
\* more to be read than there is.
SentInv ==
  /\ pc \notin {"connect", "query", "close", "destroy", "done"} =>
       sent # 0 /\ answer # <<>>
  /\ pc = "connect" => conn = "null"
  /\ copyThrew => pc \in {"close", "destroy", "done"}
  /\ pc \in {"destroy", "done"} => conn # "open"

\* MySQL: a result is in memory only while its rows are copied or it is about
\* to be freed, unless an exception came between the two; and the replies are
\* read one after the other.
MysqlInv ==
  driver = "mysql" =>
    /\ member = PgEmpty /\ temp = PgEmpty
    /\ pc \notin {"assign", "drop"}
    /\ pc \notin {"fetch", "free", "drainFree"} =>
         live = IF copyThrew THEN {sent} ELSE {}
    /\ pc \in {"fetch", "free", "drainFree"} => live = {sent} /\ result = sent
    /\ pc \in {"connect", "query", "logOutput", "cleanup"} => InSync
    /\ pc \in {"fetch", "free", "next", "drain", "drainFree"} => stored

\* PostgreSQL: what is in memory is what the two objects point to, and no two
\* of them point to the same.
PgInv ==
  driver = "pgsql" =>
    /\ pc \notin {"store", "fetch", "free", "next", "drain", "drainStore",
                  "drainFree"}
    /\ InSync
    /\ live = {member.res, temp.res} \ {Null}
    /\ pc \in {"connect", "query", "assign", "done"} => member = PgEmpty
    /\ pc # "assign" => temp = PgEmpty

\* How far the answer has been read.  What has not been read is its end, and
\* only its last reply can be an error.
Position == Len(answer) - Len(unread)

AnswerInv ==
  /\ \A i \in 1..(Len(answer) - 1) : answer[i] # "error"
  /\ \A k \in 1..Len(unread) : unread[k] = answer[Position + k]

\* The output is at all times what could be read of the part of the answer
\* that has been read; after a result set that broke off nothing more can.
MysqlOutputInv ==
  driver = "mysql" =>
    /\ pc \in {"log", "output"} => Position = 1
    /\ pc \in {"log", "output", "store", "fetch", "free", "next"} =>
         Position \in 1..Len(answer)
    /\ pc \in {"log", "output", "store"} =>
         /\ fields <=> Current \in {"rows", "torn"}
         /\ stored <=> ~fields
    /\ pc \in {"store", "fetch"} =>
         /\ Lists(queryResult, sent, ReadableUpTo(Position - 1))
         /\ \A j \in 1..(Position - 1) : answer[j] # "torn"
    /\ pc = "fetch" => Current = "rows" /\ result = sent
    /\ pc \in {"free", "next"} =>
         /\ Lists(queryResult, sent, ReadableUpTo(Position))
         /\ \A j \in 1..Position : answer[j] # "torn"
    /\ pc \in {"drain", "drainStore", "drainFree"} =>
         Lists(queryResult, sent, ReadableUpTo(Len(answer)))

\* Until the output is made there is none; no result means no rows.
PgOutputInv ==
  driver = "pgsql" =>
    /\ pc \in {"assign", "drop", "log", "output"} =>
         Len(answer) = 1 /\ queryResult = <<>>
    /\ pc = "assign" /\ temp = PgEmpty => answer[1] # "rows"
    /\ pc \in {"drop", "log", "output"} /\ member = PgEmpty =>
         answer[1] # "rows"

OutputInv ==
  AnswerInv /\ MysqlOutputInv /\ PgOutputInv /\ OutputIsOfThisQuery

IInv == /\ TypeOK /\ SentInv /\ MysqlInv /\ PgInv
        /\ LibraryIsUsedRight /\ StatusMatchesResult

LEMMA SequenceParts ==
  ASSUME NEW S, NEW q \in Seq(S), q # <<>>
  PROVE  /\ Head(q) \in S
         /\ Tail(q) \in Seq(S) /\ Len(Tail(q)) <= Len(q)
  OBVIOUS

LEMMA AppendStays ==
  ASSUME NEW S, NEW q \in Seq(S), NEW e \in S PROVE Append(q, e) \in Seq(S)
  OBVIOUS

LEMMA Singletons ==
  ASSUME NEW S, NEW e \in S PROVE <<e>> \in Seq(S) /\ <<e>> # <<>>
  OBVIOUS

LEMMA Lengths ==
  ASSUME NEW S, NEW q \in Seq(S), NEW r \in Seq(S), Len(q) <= Len(r)
  PROVE  /\ Len(r) - Len(q) \in Nat
         /\ \A t \in Seq(S) : Len(t) <= Len(q) => Len(t) <= Len(r)
  OBVIOUS

LEMMA EmptyStays == ASSUME NEW S PROVE <<>> \in Seq(S)
  OBVIOUS

\* Statements are counted up to the quota; 0 names none of them.
LEMMA StatementNumbers ==
  /\ 0 \in 0..Quota
  /\ \A i \in 0..Quota : i # 0 => i \in 1..Quota
  /\ \A i \in 0..Quota : i < Quota => i + 1 \in 1..Quota
  /\ \A i \in 1..Quota : i \in 0..Quota /\ i # 0
  BY CountAssumption

LEMMA NoPointers == {PgEmpty.res, PgEmpty.res} \ {Null} = {}
  BY DEF PgEmpty, Null

\* An answer has at least one reply.
LEMMA AnswersAreSequences ==
  ASSUME NEW a \in Answers PROVE a \in Seq(Kinds) /\ a # <<>>
<1>1. CASE driver = "pgsql"
  <2>1. a \in {<<"ok">>, <<"rows">>, <<"error">>, <<"null">>}
    BY <1>1 DEF Answers
  <2>2. /\ "ok" \in Kinds /\ "rows" \in Kinds
        /\ "error" \in Kinds /\ "null" \in Kinds
    BY DEF Kinds
  <2>3. PICK k \in Kinds : a = <<k>>
    BY <2>1, <2>2
  <2> QED
    BY <2>3, Singletons
<1>2. CASE driver # "pgsql"
  <2>1. PICK n \in 1..MaxReplies : a \in [1..n -> Kinds]
    BY <1>2 DEF Answers
  <2>2. n \in Nat /\ Len(a) = n
    BY <2>1, CountAssumption
  <2> QED
    BY <2>1, <2>2, CountAssumption
<1> QED
  BY <1>1, <1>2

\* What beginning with the next reply leaves to be read.
LEMMA BeginShortens ==
  ASSUME NEW q \in Seq(Kinds), q # <<>>, Begin(q)
  PROVE  /\ unread' \in Seq(Kinds) /\ Len(unread') <= Len(q)
         /\ fields' \in BOOLEAN /\ stored' \in BOOLEAN
<1>1. Tail(q) \in Seq(Kinds) /\ Len(Tail(q)) <= Len(q)
  BY SequenceParts
<1>2. <<>> \in Seq(Kinds) /\ Len(<<>>) <= Len(q)
  OBVIOUS
<1>3. unread' = <<>> \/ unread' = Tail(q)
  BY DEF Begin
<1>4. fields' \in BOOLEAN /\ stored' \in BOOLEAN
  BY DEF Begin
<1> QED
  BY <1>1, <1>2, <1>3, <1>4

LEMMA ConnectKeeps == IInv /\ Connect => IInv'
<1> SUFFICES ASSUME IInv, Connect PROVE IInv'
  OBVIOUS
<1> USE DEF IInv, Connect, GoTo, InSync, Null, PgEmpty, libraryVars, pgVars
<1>1. TypeOK'
  BY CountAssumption DEF TypeOK, Kinds, MysqlInv, PgInv, SentInv
<1>2. SentInv'
  BY DEF TypeOK, SentInv
<1>3. MysqlInv'
  BY DEF TypeOK, SentInv, MysqlInv, PgInv
<1>4. PgInv'
  BY DEF TypeOK, SentInv, MysqlInv, PgInv, StatusMatchesResult
<1>5. LibraryIsUsedRight'
  BY DEF TypeOK, LibraryIsUsedRight, MysqlInv, PgInv
<1>6. StatusMatchesResult'
  BY DEF TypeOK, StatusMatchesResult, MysqlInv, PgInv
<1> QED
  BY <1>1, <1>2, <1>3, <1>4, <1>5, <1>6

LEMMA LogQueryKeeps == IInv /\ LogQuery => IInv'
<1> SUFFICES ASSUME IInv, LogQuery PROVE IInv'
  OBVIOUS
<1> USE DEF IInv, LogQuery, GoTo, InSync, Null, PgEmpty, libraryVars, pgVars
<1>1. TypeOK'
  BY CountAssumption DEF TypeOK, Kinds, MysqlInv, PgInv, SentInv
<1>2. SentInv'
  BY DEF TypeOK, SentInv
<1>3. MysqlInv'
  BY DEF TypeOK, SentInv, MysqlInv, PgInv
<1>4. PgInv'
  BY DEF TypeOK, SentInv, MysqlInv, PgInv, StatusMatchesResult
<1>5. LibraryIsUsedRight'
  BY DEF TypeOK, LibraryIsUsedRight, MysqlInv, PgInv
<1>6. StatusMatchesResult'
  BY DEF TypeOK, StatusMatchesResult, MysqlInv, PgInv
<1> QED
  BY <1>1, <1>2, <1>3, <1>4, <1>5, <1>6

LEMMA LogOutputKeeps == IInv /\ LogOutput => IInv'
<1> SUFFICES ASSUME IInv, LogOutput PROVE IInv'
  OBVIOUS
<1> USE DEF IInv, LogOutput, GoTo, InSync, Null, PgEmpty, libraryVars, pgVars
<1>1. TypeOK'
  BY CountAssumption DEF TypeOK, Kinds, MysqlInv, PgInv, SentInv
<1>2. SentInv'
  BY DEF TypeOK, SentInv
<1>3. MysqlInv'
  BY DEF TypeOK, SentInv, MysqlInv, PgInv
<1>4. PgInv'
  BY DEF TypeOK, SentInv, MysqlInv, PgInv, StatusMatchesResult
<1>5. LibraryIsUsedRight'
  BY DEF TypeOK, LibraryIsUsedRight, MysqlInv, PgInv
<1>6. StatusMatchesResult'
  BY DEF TypeOK, StatusMatchesResult, MysqlInv, PgInv
<1> QED
  BY <1>1, <1>2, <1>3, <1>4, <1>5, <1>6

LEMMA QuotaReachedKeeps == IInv /\ QuotaReached => IInv'
<1> SUFFICES ASSUME IInv, QuotaReached PROVE IInv'
  OBVIOUS
<1> USE DEF IInv, QuotaReached, QueriesLeft, GoTo, InSync, Null, PgEmpty, libraryVars, pgVars
<1>1. TypeOK'
  BY CountAssumption DEF TypeOK, Kinds, MysqlInv, PgInv, SentInv
<1>2. SentInv'
  BY DEF TypeOK, SentInv
<1>3. MysqlInv'
  BY DEF TypeOK, SentInv, MysqlInv, PgInv
<1>4. PgInv'
  BY DEF TypeOK, SentInv, MysqlInv, PgInv, StatusMatchesResult
<1>5. LibraryIsUsedRight'
  BY DEF TypeOK, LibraryIsUsedRight, MysqlInv, PgInv
<1>6. StatusMatchesResult'
  BY DEF TypeOK, StatusMatchesResult, MysqlInv, PgInv
<1> QED
  BY <1>1, <1>2, <1>3, <1>4, <1>5, <1>6

LEMMA CloseKeeps == IInv /\ Close => IInv'
<1> SUFFICES ASSUME IInv, Close PROVE IInv'
  OBVIOUS
<1> USE DEF IInv, Close, GoTo, InSync, Null, PgEmpty, libraryVars, pgVars
<1>1. TypeOK'
  BY CountAssumption DEF TypeOK, Kinds, MysqlInv, PgInv, SentInv
<1>2. SentInv'
  BY DEF TypeOK, SentInv
<1>3. MysqlInv'
  BY DEF TypeOK, SentInv, MysqlInv, PgInv
<1>4. PgInv'
  BY DEF TypeOK, SentInv, MysqlInv, PgInv, StatusMatchesResult
<1>5. LibraryIsUsedRight'
  BY DEF TypeOK, LibraryIsUsedRight, MysqlInv, PgInv
<1>6. StatusMatchesResult'
  BY DEF TypeOK, StatusMatchesResult, MysqlInv, PgInv
<1> QED
  BY <1>1, <1>2, <1>3, <1>4, <1>5, <1>6

LEMMA MysqlQueryKeeps == IInv /\ MysqlQuery => IInv'
<1> SUFFICES ASSUME IInv, MysqlQuery PROVE IInv'
  OBVIOUS
<1> USE DEF IInv, MysqlQuery, PerformQuery, ClearResult, QueriesLeft, GoTo, InSync, Null, PgEmpty, libraryVars, pgVars
<1>1. TypeOK'
  <2>1. answer' \in Seq(Kinds) /\ answer' # <<>>
    BY AnswersAreSequences
  <2>2. Begin(answer')
    BY DEF TypeOK, MysqlInv
  <2>3. /\ unread' \in Seq(Kinds) /\ Len(unread') <= Len(answer')
        /\ fields' \in BOOLEAN /\ stored' \in BOOLEAN
    BY <2>1, <2>2, BeginShortens
  <2>4. sent \in 0..Quota /\ sent < Quota /\ sent' = sent + 1
    BY DEF TypeOK
  <2>5. sent' \in 0..Quota
    BY <2>4, StatementNumbers, Zenon
  <2>6. success' \in BOOLEAN
    BY DEF TypeOK, MysqlInv
  <2>7. queryResult' \in Seq((1..Quota) \X Nat)
    BY EmptyStays, Zenon
  <2> QED
    BY <2>1, <2>3, <2>5, <2>6, <2>7 DEF TypeOK, MysqlInv
<1>2. SentInv'
  <2>1. answer' # <<>>
    BY AnswersAreSequences
  <2>2. sent' # 0
    BY StatementNumbers, Zenon DEF TypeOK
  <2> QED
    BY <2>1, <2>2 DEF TypeOK, SentInv
<1>3. MysqlInv'
  BY DEF TypeOK, SentInv, MysqlInv, PgInv
<1>4. PgInv'
  BY DEF TypeOK, SentInv, MysqlInv, PgInv, StatusMatchesResult
<1>5. LibraryIsUsedRight'
  BY DEF TypeOK, LibraryIsUsedRight, MysqlInv
<1>6. StatusMatchesResult'
  BY DEF TypeOK, StatusMatchesResult, MysqlInv, PgInv
<1> QED
  BY <1>1, <1>2, <1>3, <1>4, <1>5, <1>6

LEMMA PgQueryKeeps == IInv /\ PgQuery => IInv'
<1> SUFFICES ASSUME IInv, PgQuery PROVE IInv'
  OBVIOUS
<1> USE DEF IInv, PgQuery, PerformQuery, ClearResult, QueriesLeft, GoTo, InSync, Null, PgEmpty, libraryVars, pgVars
<1>1. TypeOK'
  <2>1. answer' \in Seq(Kinds) /\ answer' # <<>>
    BY AnswersAreSequences
  <2>2. Head(answer') \in Kinds /\ "null" \in Kinds
    BY <2>1, SequenceParts DEF Kinds
  <2>3. sent' \in 1..Quota /\ 0 \in 0..Quota
    BY CountAssumption DEF TypeOK
  <2>4. temp' \in [res : 0..Quota, status : Kinds]
    BY <2>2, <2>3
  <2>5. live' \subseteq 1..Quota
    BY <2>3 DEF TypeOK
  <2>6. unread' = <<>> /\ Len(unread') <= Len(answer')
    BY <2>1 DEF PgInv
  <2>7. queryResult' \in Seq((1..Quota) \X Nat)
    OBVIOUS
  <2> QED
    BY <2>1, <2>3, <2>4, <2>5, <2>6, <2>7 DEF TypeOK
<1>2. SentInv'
  <2>1. answer' # <<>>
    BY AnswersAreSequences
  <2>2. sent' # 0
    BY StatementNumbers, Zenon DEF TypeOK
  <2> QED
    BY <2>1, <2>2 DEF TypeOK, SentInv
<1>3. MysqlInv'
  BY DEF TypeOK, SentInv, MysqlInv, PgInv
<1>4. PgInv'
  BY DEF TypeOK, SentInv, MysqlInv, PgInv, StatusMatchesResult
<1>5. LibraryIsUsedRight'
  BY DEF TypeOK, LibraryIsUsedRight, MysqlInv, PgInv
<1>6. StatusMatchesResult'
  BY DEF TypeOK, StatusMatchesResult, MysqlInv, PgInv
<1> QED
  BY <1>1, <1>2, <1>3, <1>4, <1>5, <1>6

LEMMA PgAssignKeeps == IInv /\ PgAssign => IInv'
<1> SUFFICES ASSUME IInv, PgAssign PROVE IInv'
  OBVIOUS
<1> USE DEF IInv, PgAssign, Cleared, Free, Untouched, MovedFrom, GoTo, InSync, Null, PgEmpty, libraryVars, pgVars
<1>1. TypeOK'
  BY CountAssumption DEF TypeOK, Kinds, MysqlInv, PgInv, SentInv
<1>2. SentInv'
  BY DEF TypeOK, SentInv
<1>3. MysqlInv'
  BY DEF TypeOK, SentInv, MysqlInv, PgInv
<1>4. PgInv'
  BY DEF TypeOK, SentInv, MysqlInv, PgInv, StatusMatchesResult
<1>5. LibraryIsUsedRight'
  BY DEF TypeOK, LibraryIsUsedRight, MysqlInv, PgInv
<1>6. StatusMatchesResult'
  BY DEF TypeOK, StatusMatchesResult, MysqlInv, PgInv
<1> QED
  BY <1>1, <1>2, <1>3, <1>4, <1>5, <1>6

LEMMA PgDropKeeps == IInv /\ PgDrop => IInv'
<1> SUFFICES ASSUME IInv, PgDrop PROVE IInv'
  OBVIOUS
<1> USE DEF IInv, PgDrop, Cleared, Free, Untouched, Reset, GoTo, InSync, Null, PgEmpty, libraryVars, pgVars
<1>1. TypeOK'
  <2>1. driver = "pgsql"
    BY DEF TypeOK, MysqlInv
  <2>2. temp = PgEmpty
    BY <2>1 DEF PgInv
  <2>3. temp.res = Null
    BY <2>2
  <2>4. live' = live /\ temp' = temp
    BY <2>2, <2>3, Zenon
  <2> QED
    BY <2>4 DEF TypeOK
<1>2. SentInv'
  BY DEF TypeOK, SentInv
<1>3. MysqlInv'
  BY DEF TypeOK, SentInv, MysqlInv, PgInv
<1>4. PgInv'
  BY DEF TypeOK, SentInv, MysqlInv, PgInv, StatusMatchesResult
<1>5. LibraryIsUsedRight'
  BY DEF TypeOK, LibraryIsUsedRight, MysqlInv, PgInv
<1>6. StatusMatchesResult'
  BY DEF TypeOK, StatusMatchesResult, MysqlInv, PgInv
<1> QED
  BY <1>1, <1>2, <1>3, <1>4, <1>5, <1>6

LEMMA CleanupResultKeeps == IInv /\ CleanupResult => IInv'
<1> SUFFICES ASSUME IInv, CleanupResult PROVE IInv'
  OBVIOUS
<1> USE DEF IInv, CleanupResult, Cleared, Free, Untouched, Reset, GoTo, InSync, Null, PgEmpty, libraryVars, pgVars
<1>1. TypeOK'
  BY CountAssumption DEF TypeOK, Kinds, MysqlInv, PgInv, SentInv
<1>2. SentInv'
  BY DEF TypeOK, SentInv
<1>3. MysqlInv'
  BY DEF TypeOK, SentInv, MysqlInv, PgInv
<1>4. PgInv'
  <2> SUFFICES ASSUME driver = "pgsql" PROVE PgInv'
    BY DEF PgInv
  <2>1. temp = PgEmpty /\ live = {member.res, temp.res} \ {Null}
    BY DEF PgInv
  <2>2. temp.res = Null
    BY <2>1
  <2>3. live \subseteq {member.res} /\ (member.res = Null => live = {})
    BY <2>1, <2>2
  <2>4. live' = {} /\ member' = PgEmpty /\ temp' = PgEmpty
    BY <2>1, <2>3
  <2>5. {member'.res, temp'.res} \ {Null} = {}
    BY <2>4, NoPointers, Zenon
  <2> QED
    BY <2>4, <2>5 DEF PgInv
<1>5. LibraryIsUsedRight'
  BY DEF TypeOK, LibraryIsUsedRight, MysqlInv, PgInv
<1>6. StatusMatchesResult'
  BY DEF TypeOK, StatusMatchesResult, MysqlInv, PgInv
<1> QED
  BY <1>1, <1>2, <1>3, <1>4, <1>5, <1>6

LEMMA DestroyKeeps == IInv /\ Destroy => IInv'
<1> SUFFICES ASSUME IInv, Destroy PROVE IInv'
  OBVIOUS
<1> USE DEF IInv, Destroy, Cleared, Free, Untouched, Reset, GoTo, InSync, Null, PgEmpty, libraryVars, pgVars
<1>1. TypeOK'
  BY CountAssumption DEF TypeOK, Kinds, MysqlInv, PgInv, SentInv
<1>2. SentInv'
  BY DEF TypeOK, SentInv
<1>3. MysqlInv'
  <2> SUFFICES ASSUME driver = "mysql" PROVE MysqlInv'
    BY DEF MysqlInv
  <2>1. member = PgEmpty /\ member.res = Null
    BY DEF MysqlInv
  <2>2. live' = live /\ member' = PgEmpty
    BY <2>1
  <2> QED
    BY <2>1, <2>2 DEF MysqlInv
<1>4. PgInv'
  <2> SUFFICES ASSUME driver = "pgsql" PROVE PgInv'
    BY DEF PgInv
  <2>1. temp = PgEmpty /\ live = {member.res, temp.res} \ {Null}
    BY DEF PgInv
  <2>2. temp.res = Null
    BY <2>1
  <2>3. live \subseteq {member.res} /\ (member.res = Null => live = {})
    BY <2>1, <2>2
  <2>4. live' = {} /\ member' = PgEmpty /\ temp' = PgEmpty
    BY <2>1, <2>3
  <2>5. {member'.res, temp'.res} \ {Null} = {}
    BY <2>4, NoPointers, Zenon
  <2> QED
    BY <2>4, <2>5 DEF PgInv
<1>5. LibraryIsUsedRight'
  <2>1. CASE driver = "mysql"
    BY <2>1 DEF MysqlInv, LibraryIsUsedRight
  <2>2. CASE driver = "pgsql"
    <3>1. live = {member.res, temp.res} \ {Null}
      BY <2>2 DEF PgInv
    <3>2. member.res = Null \/ member.res \in live
      BY <3>1
    <3> QED
      BY <3>2 DEF LibraryIsUsedRight
  <2> QED
    BY <2>1, <2>2 DEF TypeOK
<1>6. StatusMatchesResult'
  BY DEF TypeOK, StatusMatchesResult, MysqlInv, PgInv
<1> QED
  BY <1>1, <1>2, <1>3, <1>4, <1>5, <1>6

LEMMA PgOutputKeeps == IInv /\ PgOutput => IInv'
<1> SUFFICES ASSUME IInv, PgOutput PROVE IInv'
  OBVIOUS
<1> USE DEF IInv, PgOutput, GoTo, InSync, Null, PgEmpty, libraryVars, pgVars
<1>1. TypeOK'
  <2>1. member.res \in 0..Quota
    BY DEF TypeOK
  <2>2. member.res # Null => <<member.res, 1>> \in (1..Quota) \X Nat
    BY <2>1, StatementNumbers, Zenon
  <2>3. member.res # Null =>
          <<<<member.res, 1>>>> \in Seq((1..Quota) \X Nat)
    BY <2>2, Singletons
  <2>4. <<>> \in Seq((1..Quota) \X Nat)
    BY EmptyStays, Zenon
  <2>5. queryResult' \in Seq((1..Quota) \X Nat)
    BY <2>3, <2>4 DEF TypeOK
  <2> QED
    BY <2>5 DEF TypeOK
<1>2. SentInv'
  BY DEF TypeOK, SentInv
<1>3. MysqlInv'
  BY DEF TypeOK, SentInv, MysqlInv, PgInv
<1>4. PgInv'
  BY DEF TypeOK, SentInv, MysqlInv, PgInv, StatusMatchesResult
<1>5. LibraryIsUsedRight'
  BY DEF TypeOK, LibraryIsUsedRight, MysqlInv, PgInv
<1>6. StatusMatchesResult'
  BY DEF TypeOK, StatusMatchesResult, MysqlInv, PgInv
<1> QED
  BY <1>1, <1>2, <1>3, <1>4, <1>5, <1>6

LEMMA MysqlOutputKeeps == IInv /\ MysqlOutput => IInv'
<1> SUFFICES ASSUME IInv, MysqlOutput PROVE IInv'
  OBVIOUS
<1> USE DEF IInv, MysqlOutput, GoTo, InSync, Null, PgEmpty, libraryVars, pgVars
<1>1. TypeOK'
  BY CountAssumption DEF TypeOK, Kinds, MysqlInv, PgInv, SentInv
<1>2. SentInv'
  BY DEF TypeOK, SentInv
<1>3. MysqlInv'
  BY DEF TypeOK, SentInv, MysqlInv, PgInv
<1>4. PgInv'
  BY DEF TypeOK, SentInv, MysqlInv, PgInv, StatusMatchesResult
<1>5. LibraryIsUsedRight'
  BY DEF TypeOK, LibraryIsUsedRight, MysqlInv, PgInv
<1>6. StatusMatchesResult'
  BY DEF TypeOK, StatusMatchesResult, MysqlInv, PgInv
<1> QED
  BY <1>1, <1>2, <1>3, <1>4, <1>5, <1>6

LEMMA StoreKeeps == IInv /\ Store => IInv'
<1> SUFFICES ASSUME IInv, Store PROVE IInv'
  OBVIOUS
<1> USE DEF IInv, Store, StoreResult, Allocate, Untouched, Continue, DrainRest, GoTo, InSync, Null, PgEmpty, libraryVars, pgVars
<1>1. TypeOK'
  <2>1. sent \in 1..Quota
    BY DEF TypeOK, SentInv
  <2>2. result' = 0 \/ result' = sent
    OBVIOUS
  <2>3. live' \subseteq live \cup {sent}
    OBVIOUS
  <2>4. result' \in 0..Quota /\ live' \subseteq 1..Quota
    BY <2>1, <2>2, <2>3, StatementNumbers, Zenon DEF TypeOK
  <2>5. pc' \in {"fetch", "next", "drain", "drainFree"}
    OBVIOUS
  <2> QED
    BY <2>4, <2>5 DEF TypeOK
<1>2. SentInv'
  BY DEF TypeOK, SentInv
<1>3. MysqlInv'
  BY DEF TypeOK, SentInv, MysqlInv, PgInv
<1>4. PgInv'
  BY DEF TypeOK, SentInv, MysqlInv, PgInv, StatusMatchesResult
<1>5. LibraryIsUsedRight'
  BY DEF TypeOK, LibraryIsUsedRight, MysqlInv, PgInv
<1>6. StatusMatchesResult'
  BY DEF TypeOK, StatusMatchesResult, MysqlInv, PgInv
<1> QED
  BY <1>1, <1>2, <1>3, <1>4, <1>5, <1>6

LEMMA DrainStoreKeeps == IInv /\ DrainStore => IInv'
<1> SUFFICES ASSUME IInv, DrainStore PROVE IInv'
  OBVIOUS
<1> USE DEF IInv, DrainStore, StoreResult, Allocate, Untouched, GoTo, InSync, Null, PgEmpty, libraryVars, pgVars
<1>1. TypeOK'
  <2>1. sent \in 1..Quota
    BY DEF TypeOK, SentInv
  <2>2. result' = 0 \/ result' = sent
    OBVIOUS
  <2>3. live' \subseteq live \cup {sent}
    OBVIOUS
  <2>4. result' \in 0..Quota /\ live' \subseteq 1..Quota
    BY <2>1, <2>2, <2>3, StatementNumbers, Zenon DEF TypeOK
  <2>5. pc' \in {"fetch", "next", "drain", "drainFree"}
    OBVIOUS
  <2> QED
    BY <2>4, <2>5 DEF TypeOK
<1>2. SentInv'
  BY DEF TypeOK, SentInv
<1>3. MysqlInv'
  BY DEF TypeOK, SentInv, MysqlInv, PgInv
<1>4. PgInv'
  BY DEF TypeOK, SentInv, MysqlInv, PgInv, StatusMatchesResult
<1>5. LibraryIsUsedRight'
  BY DEF TypeOK, LibraryIsUsedRight, MysqlInv, PgInv
<1>6. StatusMatchesResult'
  BY DEF TypeOK, StatusMatchesResult, MysqlInv, PgInv
<1> QED
  BY <1>1, <1>2, <1>3, <1>4, <1>5, <1>6

LEMMA FetchRowsKeeps == IInv /\ FetchRows => IInv'
<1> SUFFICES ASSUME IInv, FetchRows PROVE IInv'
  OBVIOUS
<1> USE DEF IInv, FetchRows, GoTo, InSync, Null, PgEmpty, libraryVars, pgVars
<1>1. TypeOK'
  <2>1. result \in 1..Quota
    BY CountAssumption DEF TypeOK, MysqlInv, PgInv
  <2>2. /\ answer \in Seq(Kinds) /\ unread \in Seq(Kinds)
        /\ Len(unread) <= Len(answer)
    BY DEF TypeOK
  <2>3. Len(answer) - Len(unread) \in Nat
    BY <2>2, Lengths, Zenon
  <2>4. <<result, Len(answer) - Len(unread)>> \in (1..Quota) \X Nat
    BY <2>1, <2>3
  <2>5. queryResult \in Seq((1..Quota) \X Nat)
    BY DEF TypeOK
  <2>6. queryResult' \in Seq((1..Quota) \X Nat)
    BY <2>4, <2>5, AppendStays
  <2> QED
    BY <2>6 DEF TypeOK
<1>2. SentInv'
  BY DEF TypeOK, SentInv
<1>3. MysqlInv'
  BY DEF TypeOK, SentInv, MysqlInv, PgInv
<1>4. PgInv'
  BY DEF TypeOK, SentInv, MysqlInv, PgInv, StatusMatchesResult
<1>5. LibraryIsUsedRight'
  BY DEF TypeOK, LibraryIsUsedRight, MysqlInv, PgInv
<1>6. StatusMatchesResult'
  BY DEF TypeOK, StatusMatchesResult, MysqlInv, PgInv
<1> QED
  BY <1>1, <1>2, <1>3, <1>4, <1>5, <1>6

LEMMA CopyThrowsKeeps == IInv /\ CopyThrows => IInv'
<1> SUFFICES ASSUME IInv, CopyThrows PROVE IInv'
  OBVIOUS
<1> USE DEF IInv, CopyThrows, InSync, Null, PgEmpty, libraryVars, pgVars
<1>1. TypeOK'
  BY CountAssumption DEF TypeOK, Kinds, MysqlInv, PgInv, SentInv
<1>2. SentInv'
  BY DEF TypeOK, SentInv
<1>3. MysqlInv'
  BY DEF TypeOK, SentInv, MysqlInv, PgInv
<1>4. PgInv'
  BY DEF TypeOK, SentInv, MysqlInv, PgInv, StatusMatchesResult
<1>5. LibraryIsUsedRight'
  BY DEF TypeOK, LibraryIsUsedRight, MysqlInv, PgInv
<1>6. StatusMatchesResult'
  BY DEF TypeOK, StatusMatchesResult, MysqlInv, PgInv
<1> QED
  BY <1>1, <1>2, <1>3, <1>4, <1>5, <1>6

LEMMA FreeResultKeeps == IInv /\ FreeResult => IInv'
<1> SUFFICES ASSUME IInv, FreeResult PROVE IInv'
  OBVIOUS
<1> USE DEF IInv, FreeResult, Free, GoTo, InSync, Null, PgEmpty, libraryVars, pgVars
<1>1. TypeOK'
  BY CountAssumption DEF TypeOK, Kinds, MysqlInv, PgInv, SentInv
<1>2. SentInv'
  BY DEF TypeOK, SentInv
<1>3. MysqlInv'
  BY DEF TypeOK, SentInv, MysqlInv, PgInv
<1>4. PgInv'
  BY DEF TypeOK, SentInv, MysqlInv, PgInv, StatusMatchesResult
<1>5. LibraryIsUsedRight'
  BY DEF TypeOK, LibraryIsUsedRight, MysqlInv, PgInv
<1>6. StatusMatchesResult'
  BY DEF TypeOK, StatusMatchesResult, MysqlInv, PgInv
<1> QED
  BY <1>1, <1>2, <1>3, <1>4, <1>5, <1>6

LEMMA DrainFreeKeeps == IInv /\ DrainFree => IInv'
<1> SUFFICES ASSUME IInv, DrainFree PROVE IInv'
  OBVIOUS
<1> USE DEF IInv, DrainFree, Free, GoTo, InSync, Null, PgEmpty, libraryVars, pgVars
<1>1. TypeOK'
  BY CountAssumption DEF TypeOK, Kinds, MysqlInv, PgInv, SentInv
<1>2. SentInv'
  BY DEF TypeOK, SentInv
<1>3. MysqlInv'
  BY DEF TypeOK, SentInv, MysqlInv, PgInv
<1>4. PgInv'
  BY DEF TypeOK, SentInv, MysqlInv, PgInv, StatusMatchesResult
<1>5. LibraryIsUsedRight'
  BY DEF TypeOK, LibraryIsUsedRight, MysqlInv, PgInv
<1>6. StatusMatchesResult'
  BY DEF TypeOK, StatusMatchesResult, MysqlInv, PgInv
<1> QED
  BY <1>1, <1>2, <1>3, <1>4, <1>5, <1>6

LEMMA LoopConditionKeeps == IInv /\ LoopCondition => IInv'
<1> SUFFICES ASSUME IInv, LoopCondition PROVE IInv'
  OBVIOUS
<1> USE DEF IInv, LoopCondition, NextResult, More, GoTo, InSync, Null, PgEmpty, libraryVars, pgVars
<1>1. TypeOK'
  <2>1. CASE stored /\ unread # <<>>
    <3>1. /\ Begin(unread) /\ answer' = answer
          /\ unread \in Seq(Kinds) /\ answer \in Seq(Kinds)
          /\ Len(unread) <= Len(answer)
      BY <2>1 DEF TypeOK
    <3>2. /\ unread' \in Seq(Kinds) /\ Len(unread') <= Len(unread)
          /\ fields' \in BOOLEAN /\ stored' \in BOOLEAN
      BY <2>1, <3>1, BeginShortens
    <3>3. Len(unread') <= Len(answer')
      BY <3>1, <3>2, Lengths, Zenon DEF TypeOK
    <3> QED
      BY <3>2, <3>3 DEF TypeOK
  <2>2. CASE ~(stored /\ unread # <<>>)
    BY <2>2 DEF TypeOK
  <2> QED
    BY <2>1, <2>2
<1>2. SentInv'
  BY DEF TypeOK, SentInv
<1>3. MysqlInv'
  BY DEF Begin, TypeOK, SentInv, MysqlInv, PgInv
<1>4. PgInv'
  BY DEF Begin, TypeOK, SentInv, MysqlInv, PgInv, StatusMatchesResult
<1>5. LibraryIsUsedRight'
  BY DEF TypeOK, LibraryIsUsedRight, MysqlInv, PgInv
<1>6. StatusMatchesResult'
  BY DEF TypeOK, StatusMatchesResult, MysqlInv, PgInv
<1> QED
  BY <1>1, <1>2, <1>3, <1>4, <1>5, <1>6

LEMMA DrainConditionKeeps == IInv /\ DrainCondition => IInv'
<1> SUFFICES ASSUME IInv, DrainCondition PROVE IInv'
  OBVIOUS
<1> USE DEF IInv, DrainCondition, NextResult, More, GoTo, InSync, Null, PgEmpty, libraryVars, pgVars
<1>1. TypeOK'
  <2>1. CASE stored /\ unread # <<>>
    <3>1. /\ Begin(unread) /\ answer' = answer
          /\ unread \in Seq(Kinds) /\ answer \in Seq(Kinds)
          /\ Len(unread) <= Len(answer)
      BY <2>1 DEF TypeOK
    <3>2. /\ unread' \in Seq(Kinds) /\ Len(unread') <= Len(unread)
          /\ fields' \in BOOLEAN /\ stored' \in BOOLEAN
      BY <2>1, <3>1, BeginShortens
    <3>3. Len(unread') <= Len(answer')
      BY <3>1, <3>2, Lengths, Zenon DEF TypeOK
    <3> QED
      BY <3>2, <3>3 DEF TypeOK
  <2>2. CASE ~(stored /\ unread # <<>>)
    BY <2>2 DEF TypeOK
  <2> QED
    BY <2>1, <2>2
<1>2. SentInv'
  BY DEF TypeOK, SentInv
<1>3. MysqlInv'
  BY DEF Begin, TypeOK, SentInv, MysqlInv, PgInv
<1>4. PgInv'
  BY DEF Begin, TypeOK, SentInv, MysqlInv, PgInv, StatusMatchesResult
<1>5. LibraryIsUsedRight'
  BY DEF TypeOK, LibraryIsUsedRight, MysqlInv, PgInv
<1>6. StatusMatchesResult'
  BY DEF TypeOK, StatusMatchesResult, MysqlInv, PgInv
<1> QED
  BY <1>1, <1>2, <1>3, <1>4, <1>5, <1>6

LEMMA InitHolds == Init => IInv
<1> SUFFICES ASSUME Init PROVE IInv
  OBVIOUS
<1> USE DEF Init, InSync, Null, PgEmpty
<1>1. TypeOK
  <2>1. <<>> \in Seq((1..Quota) \X Nat) /\ <<>> \in Seq(Kinds)
    BY EmptyStays, Zenon
  <2>2. 0 \in 0..Quota /\ "null" \in Kinds /\ Len(<<>>) <= Len(<<>>)
    BY StatementNumbers DEF Kinds
  <2>3. [res |-> 0, status |-> "null"] \in [res : 0..Quota, status : Kinds]
    BY <2>2
  <2> QED
    BY <2>1, <2>2, <2>3 DEF TypeOK
<1>2. SentInv /\ MysqlInv /\ PgInv
  BY DEF SentInv, MysqlInv, PgInv
<1>3. LibraryIsUsedRight /\ StatusMatchesResult
  BY DEF LibraryIsUsedRight, StatusMatchesResult
<1> QED
  BY <1>1, <1>2, <1>3 DEF IInv

LEMMA NextKeeps == IInv /\ [Next]_vars => IInv'
<1> SUFFICES ASSUME IInv, [Next]_vars PROVE IInv'
  OBVIOUS
<1>1. CASE UNCHANGED vars
  BY <1>1 DEF vars, libraryVars, pgVars, IInv, TypeOK, SentInv, MysqlInv, PgInv,
              LibraryIsUsedRight, StatusMatchesResult, InSync, PgEmpty, Null
<1>2. CASE Next
  BY <1>2, Zenon, ConnectKeeps, MysqlQueryKeeps, PgQueryKeeps, PgAssignKeeps,
     PgDropKeeps, LogQueryKeeps, LogOutputKeeps, CleanupResultKeeps,
     QuotaReachedKeeps, CloseKeeps, DestroyKeeps, PgOutputKeeps,
     MysqlOutputKeeps, StoreKeeps, FetchRowsKeeps, CopyThrowsKeeps,
     FreeResultKeeps, LoopConditionKeeps, DrainConditionKeeps, DrainStoreKeeps, DrainFreeKeeps
     DEF Next
<1> QED
  BY <1>1, <1>2

-----------------------------------------------------------------------------
(* What the output is made of                                              *)

\* What is left of a sequence without its head.
LEMMA TailElements ==
  ASSUME NEW S, NEW q \in Seq(S), q # <<>>
  PROVE  /\ Len(q) \in Nat \ {0} /\ Head(q) = q[1]
         /\ Tail(q) \in Seq(S) /\ Len(Tail(q)) = Len(q) - 1
         /\ \A k \in 1..(Len(q) - 1) : Tail(q)[k] = q[k + 1]
  OBVIOUS

\* An answer to PQexec is one reply, and an error is the last reply.
LEMMA AnswersEnd ==
  ASSUME NEW a \in Answers
  PROVE  /\ \A i \in 1..(Len(a) - 1) : a[i] # "error"
         /\ driver = "pgsql" => Len(a) = 1
<1>1. CASE driver = "pgsql"
  <2>1. PICK k : a = <<k>>
    BY <1>1 DEF Answers
  <2>2. Len(a) = 1
    BY <2>1
  <2> QED
    BY <2>2
<1>2. CASE driver # "pgsql"
  BY <1>2 DEF Answers
<1> QED
  BY <1>1, <1>2

\* Beginning with the next reply of an answer moves on by one, and says
\* whether that reply is a result set.
LEMMA BeginReads ==
  ASSUME NEW a \in Seq(Kinds), NEW q \in Seq(Kinds), q # <<>>,
         Len(q) <= Len(a), Begin(q),
         \A i \in 1..(Len(a) - 1) : a[i] # "error",
         \A k \in 1..Len(q) : q[k] = a[Len(a) - Len(q) + k]
  PROVE  LET p == Len(a) - Len(q) + 1
         IN  /\ p \in 1..Len(a) /\ Len(a) - Len(unread') = p
             /\ \A k \in 1..Len(unread') : unread'[k] = a[p + k]
             /\ fields' <=> a[p] \in {"rows", "torn"}
             /\ stored' <=> ~fields'
<1> DEFINE p == Len(a) - Len(q) + 1
<1>1. /\ Len(q) \in Nat \ {0} /\ Len(a) \in Nat /\ Head(q) = q[1]
      /\ Tail(q) \in Seq(Kinds) /\ Len(Tail(q)) = Len(q) - 1
      /\ \A k \in 1..(Len(q) - 1) : Tail(q)[k] = q[k + 1]
  BY TailElements
<1>2. p \in 1..Len(a) /\ Head(q) = a[p]
  BY <1>1
<1>3. /\ fields' <=> a[p] \in {"rows", "torn"}
      /\ stored' <=> ~fields'
  BY <1>2 DEF Begin
<1>4. CASE Head(q) = "error"
  <2>1. unread' = <<>> /\ Len(unread') = 0
    BY <1>4 DEF Begin
  <2>2. p = Len(a)
    BY <1>1, <1>2, <1>4
  <2>3. Len(a) - Len(unread') = p
    BY <1>1, <2>1, <2>2
  <2>4. \A k \in 1..Len(unread') : unread'[k] = a[p + k]
    BY <2>1
  <2> QED
    BY <1>2, <1>3, <2>3, <2>4
<1>5. CASE Head(q) # "error"
  <2>1. unread' = Tail(q)
    BY <1>5 DEF Begin
  <2>2. Len(a) - Len(unread') = p
    BY <1>1, <2>1
  <2>3. ASSUME NEW k \in 1..Len(unread') PROVE unread'[k] = a[p + k]
    <3>1. k \in 1..(Len(q) - 1) /\ k + 1 \in 1..Len(q)
      BY <1>1, <2>1
    <3>2. unread'[k] = q[k + 1]
      BY <1>1, <2>1, <3>1
    <3>3. q[k + 1] = a[Len(a) - Len(q) + (k + 1)]
      BY <3>1
    <3>4. Len(a) - Len(q) + (k + 1) = p + k
      BY <1>1, <3>1
    <3> QED
      BY <3>2, <3>3, <3>4
  <2> QED
    BY <1>2, <1>3, <2>2, <2>3
<1> QED
  BY <1>4, <1>5

\* No output lists no reply.
LEMMA ListsNone ==
  ASSUME NEW statement PROVE Lists(<<>>, statement, {})
  BY DEF Lists

\* Appending a later reply adds it to the list.
LEMMA ListsOneMore ==
  ASSUME NEW S, NEW T, NEW q \in Seq(S \X T), NEW statement, NEW n \in Nat,
         NEW I \in SUBSET (1..(n - 1)), Lists(q, statement, I)
  PROVE  Lists(Append(q, <<statement, n>>), statement, I \cup {n})
<1> DEFINE e == <<statement, n>>
           r == Append(q, e)
<1>1. /\ Len(q) \in Nat /\ DOMAIN q = 1..Len(q)
      /\ DOMAIN r = 1..(Len(q) + 1)
      /\ \A k \in 1..Len(q) : r[k] = q[k]
      /\ r[Len(q) + 1] = e
  OBVIOUS
<1> HIDE DEF r
<1>2. \A k \in 1..Len(q) : \E i \in I : q[k] = <<statement, i>>
  BY <1>1 DEF Lists
<1>3. {r[k] : k \in DOMAIN r} = {q[k] : k \in DOMAIN q} \cup {e}
  <2>1. ASSUME NEW k \in DOMAIN r
        PROVE  r[k] \in {q[j] : j \in DOMAIN q} \cup {e}
    <3>1. k \in 1..Len(q) \/ k = Len(q) + 1
      BY <1>1
    <3> QED
      BY <1>1, <3>1
  <2>2. ASSUME NEW k \in DOMAIN q PROVE q[k] \in {r[j] : j \in DOMAIN r}
    <3>1. k \in DOMAIN r /\ r[k] = q[k]
      BY <1>1
    <3> QED
      BY <3>1
  <2>3. e \in {r[j] : j \in DOMAIN r}
    <3>1. Len(q) + 1 \in DOMAIN r
      BY <1>1
    <3> QED
      BY <1>1, <3>1
  <2> QED
    BY <2>1, <2>2, <2>3
<1>4. {r[k] : k \in DOMAIN r} = {<<statement, i>> : i \in I \cup {n}}
  BY <1>3 DEF Lists
<1>5. ASSUME NEW j \in DOMAIN r, NEW k \in DOMAIN r, j < k
      PROVE  r[j][2] < r[k][2]
  <2>1. j \in 1..Len(q) /\ r[j] = q[j]
    BY <1>1, <1>5
  <2>2. CASE k \in 1..Len(q)
    BY <1>1, <1>5, <2>1, <2>2 DEF Lists
  <2>3. CASE k = Len(q) + 1
    <3>1. PICK i \in I : q[j] = <<statement, i>>
      BY <1>2, <2>1
    <3>2. r[j][2] = i /\ r[k][2] = n
      BY <1>1, <2>1, <2>3, <3>1
    <3> QED
      BY <3>1, <3>2
  <2> QED
    BY <1>1, <2>2, <2>3
<1> QED
  BY <1>4, <1>5 DEF Lists, r

\* Where nothing has broken off, one more reply adds itself if it is a result
\* set, and nothing otherwise.
LEMMA ReadableGrows ==
  ASSUME TypeOK, NEW n \in 1..Len(answer),
         \A j \in 1..(n - 1) : answer[j] # "torn"
  PROVE  /\ answer[n] = "rows" =>
              ReadableUpTo(n) = ReadableUpTo(n - 1) \cup {n}
         /\ answer[n] # "rows" => ReadableUpTo(n) = ReadableUpTo(n - 1)
<1>1. Len(answer) \in Nat
  BY DEF TypeOK
<1>2. ReadableUpTo(n) \ {n} = ReadableUpTo(n - 1) \ {n}
  BY <1>1 DEF ReadableUpTo
<1>3. n \notin ReadableUpTo(n - 1)
  BY <1>1 DEF ReadableUpTo
<1>4. answer[n] = "rows" => n \in ReadableUpTo(n)
  BY <1>1 DEF ReadableUpTo, Readable
<1>5. answer[n] # "rows" => n \notin ReadableUpTo(n)
  BY <1>1 DEF ReadableUpTo, Readable
<1> QED
  BY <1>2, <1>3, <1>4, <1>5

\* Nothing is readable from a result set that breaks off, from an error, or
\* from where the answer ends.
LEMMA ReadableEnds ==
  ASSUME TypeOK, AnswerInv, NEW n \in 1..Len(answer)
  PROVE  /\ answer[n] = "torn" =>
              ReadableUpTo(Len(answer)) = ReadableUpTo(n - 1)
         /\ n = Len(answer) \/ answer[n + 1] = "error" =>
              ReadableUpTo(Len(answer)) = ReadableUpTo(n)
<1>1. Len(answer) \in Nat
  BY DEF TypeOK
<1>2. ASSUME answer[n] = "torn"
      PROVE  ReadableUpTo(Len(answer)) = ReadableUpTo(n - 1)
  <2>1. \A i \in n..Len(answer) : ~Readable(i)
    BY <1>1, <1>2 DEF Readable
  <2> QED
    BY <1>1, <2>1 DEF ReadableUpTo
<1>3. ASSUME n # Len(answer), answer[n + 1] = "error"
      PROVE  ReadableUpTo(Len(answer)) = ReadableUpTo(n)
  <2>1. Len(answer) = n + 1
    BY <1>1, <1>3 DEF AnswerInv
  <2>2. ~Readable(n + 1)
    BY <1>3 DEF Readable
  <2> QED
    BY <1>1, <2>1, <2>2 DEF ReadableUpTo
<1> QED
  BY <1>2, <1>3

\* The steps that neither read nor write an answer or an output, and leave
\* the thread where neither is looked at.
LEMMA AsideKeepsOutput ==
  ASSUME IInv, OutputInv, UNCHANGED <<driver, answer, unread>>,
         pc' \in {"query", "cleanup", "close", "destroy", "done"}
  PROVE  OutputInv'
BY DEF OutputInv, AnswerInv, MysqlOutputInv, PgOutputInv, OutputIsOfThisQuery,
       Position

LEMMA MysqlQueryKeepsOutput ==
  ASSUME IInv, OutputInv, MysqlQuery
  PROVE  OutputInv'
<1>1. /\ driver' = driver /\ driver = "mysql" /\ pc' = "log"
      /\ answer' \in Answers
  BY DEF MysqlQuery, PerformQuery, GoTo
<1>2. Begin(answer')
  BY <1>1 DEF MysqlQuery, PerformQuery, IInv, MysqlInv
<1>3. answer' \in Seq(Kinds) /\ answer' # <<>> /\ Len(answer') \in Nat
  BY <1>1, AnswersAreSequences
<1>4. \A i \in 1..(Len(answer') - 1) : answer'[i] # "error"
  BY <1>1, AnswersEnd
<1>5. \A k \in 1..Len(answer') :
        answer'[k] = answer'[Len(answer') - Len(answer') + k]
  BY <1>3
<1>6. Position' = 1 /\ 1 \in 1..Len(answer')
      /\ (\A k \in 1..Len(unread') : unread'[k] = answer'[1 + k])
      /\ (fields' <=> answer'[1] \in {"rows", "torn"})
      /\ (stored' <=> ~fields')
  <2> DEFINE p == Len(answer') - Len(answer') + 1
  <2>1. p = 1
    BY <1>3
  <2>2. /\ p \in 1..Len(answer') /\ Len(answer') - Len(unread') = p
        /\ \A k \in 1..Len(unread') : unread'[k] = answer'[p + k]
        /\ fields' <=> answer'[p] \in {"rows", "torn"}
        /\ stored' <=> ~fields'
    BY <1>2, <1>3, <1>4, <1>5, BeginReads
  <2> HIDE DEF p
  <2> QED
    BY <2>1, <2>2 DEF Position
<1>7. AnswerInv'
  BY <1>4, <1>6 DEF AnswerInv
<1>8. Current' = answer'[1]
  BY <1>6 DEF Current, Position
<1> QED
  BY <1>1, <1>6, <1>7, <1>8
  DEF OutputInv, MysqlOutputInv, PgOutputInv, OutputIsOfThisQuery

LEMMA PgQueryKeepsOutput ==
  ASSUME IInv, OutputInv, PgQuery
  PROVE  OutputInv'
<1>1. /\ driver' = driver /\ driver = "pgsql" /\ pc' = "assign"
      /\ answer' \in Answers /\ queryResult' = <<>>
      /\ unread' = unread
  BY DEF PgQuery, PerformQuery, GoTo, ClearResult
<1>2. Len(answer') = 1 /\ \A i \in 1..(Len(answer') - 1) : answer'[i] # "error"
  BY <1>1, AnswersEnd
<1>3. unread = <<>> /\ Len(unread) = 0
  BY <1>1 DEF IInv, PgInv, InSync
<1>4. AnswerInv'
  BY <1>1, <1>2, <1>3 DEF AnswerInv
<1>5. temp' = PgEmpty => answer'[1] # "rows"
  <2>1. sent' # 0
    BY StatementNumbers, Zenon
    DEF PgQuery, PerformQuery, QueriesLeft, IInv, TypeOK
  <2>2. answer' # <<"null">> => temp'.res # 0
    BY <2>1 DEF PgQuery
  <2>3. PgEmpty.res = 0
    BY DEF PgEmpty, Null
  <2>4. answer' = <<"null">> => answer'[1] = "null"
    OBVIOUS
  <2> QED
    BY <2>2, <2>3, <2>4
<1> QED
  BY <1>1, <1>2, <1>4, <1>5
  DEF OutputInv, MysqlOutputInv, PgOutputInv, OutputIsOfThisQuery

LEMMA PgStepsKeepOutput ==
  ASSUME IInv, OutputInv, PgAssign \/ PgDrop
  PROVE  OutputInv'
<1>1. driver = "pgsql"
  BY DEF IInv, TypeOK, MysqlInv, PgAssign, PgDrop
<1>2. UNCHANGED <<driver, answer, unread, queryResult>>
  BY DEF PgAssign, PgDrop, libraryVars
<1>3. \/ pc = "assign" /\ pc' = "drop" /\ member' = temp
      \/ pc = "drop" /\ pc' = "log" /\ member' = member
  BY DEF PgAssign, PgDrop, GoTo
<1>4. AnswerInv'
  BY <1>2 DEF OutputInv, AnswerInv, Position
<1> QED
  BY <1>1, <1>2, <1>3, <1>4
  DEF OutputInv, MysqlOutputInv, PgOutputInv, OutputIsOfThisQuery

LEMMA LogQueryKeepsOutput ==
  ASSUME IInv, OutputInv, LogQuery
  PROVE  OutputInv'
<1>1. /\ UNCHANGED <<driver, sent, answer, unread, fields, stored, queryResult,
                     member, temp>>
      /\ pc = "log" /\ pc' \in {"output", "close"}
  BY DEF LogQuery, GoTo, libraryVars, pgVars
<1>2. CASE pc' = "close"
  BY <1>1, <1>2, AsideKeepsOutput
<1>3. CASE pc' = "output"
  BY <1>1, <1>3
  DEF OutputInv, AnswerInv, MysqlOutputInv, PgOutputInv, OutputIsOfThisQuery,
      Position, Current
<1> QED
  BY <1>1, <1>2, <1>3

LEMMA PgOutputKeepsOutput ==
  ASSUME IInv, OutputInv, PgOutput
  PROVE  OutputInv'
<1>1. /\ driver = "pgsql" /\ pc = "output" /\ pc' = "logOutput"
      /\ UNCHANGED <<driver, sent, answer, unread>>
      /\ queryResult' = IF member.res = Null THEN queryResult
                        ELSE IF member.status = "rows" THEN <<<<member.res, 1>>>>
                        ELSE <<>>
  BY DEF PgOutput, GoTo, libraryVars
<1>2. AnswerInv' /\ MysqlOutputInv' /\ PgOutputInv'
  BY <1>1 DEF OutputInv, AnswerInv, Position, MysqlOutputInv, PgOutputInv
<1>3. /\ Len(answer) = 1 /\ queryResult = <<>>
      /\ member = PgEmpty => answer[1] # "rows"
  BY <1>1 DEF OutputInv, PgOutputInv
<1>4. /\ answer[1] = "rows" => ReadableUpTo(1) = {1}
      /\ answer[1] # "rows" => ReadableUpTo(1) = {}
  BY DEF ReadableUpTo, Readable
<1>5. Head(answer) = answer[1]
  BY TailElements DEF IInv, TypeOK, SentInv
<1>6. Lists(queryResult', sent, ReadableUpTo(1))
  <2>1. CASE member = PgEmpty
    <3>1. queryResult' = <<>>
      BY <1>1, <1>3, <2>1 DEF PgEmpty
    <3> QED
      BY <1>3, <1>4, <2>1, <3>1, ListsNone
  <2>2. CASE member # PgEmpty
    <3>1. member = [res |-> sent, status |-> answer[1]]
      BY <1>5, <2>2 DEF IInv, StatusMatchesResult
    <3>2. sent # Null
      BY <1>1 DEF IInv, SentInv, Null
    <3>3. CASE answer[1] = "rows"
      <4>1. queryResult' = <<<<sent, 1>>>>
        BY <1>1, <3>1, <3>2, <3>3
      <4> QED
        BY <1>4, <3>3, <4>1 DEF Lists
    <3>4. CASE answer[1] # "rows"
      <4>1. queryResult' = <<>>
        BY <1>1, <3>1, <3>2, <3>4
      <4> QED
        BY <1>4, <3>4, <4>1, ListsNone
    <3> QED
      BY <3>3, <3>4
  <2> QED
    BY <2>1, <2>2
<1>7. ReadableUpTo(Len(answer))' = ReadableUpTo(1)
  BY <1>1, <1>3 DEF ReadableUpTo, Readable
<1> QED
  BY <1>1, <1>2, <1>6, <1>7 DEF OutputInv, OutputIsOfThisQuery

LEMMA MysqlOutputKeepsOutput ==
  ASSUME IInv, OutputInv, MysqlOutput
  PROVE  OutputInv'
<1>1. /\ driver = "mysql" /\ pc = "output" /\ pc' = "store"
      /\ queryResult' = <<>>
      /\ UNCHANGED <<driver, sent, answer, unread, fields, stored>>
  BY DEF MysqlOutput, GoTo, libraryVars
<1>2. Position = 1 /\ Position' = 1 /\ Current' = Current
  BY <1>1 DEF OutputInv, MysqlOutputInv, Position, Current
<1>3. ReadableUpTo(1 - 1)' = {}
  BY DEF ReadableUpTo
<1>4. Lists(queryResult, sent, ReadableUpTo(Position - 1))'
  BY <1>1, <1>2, <1>3, ListsNone
<1>5. AnswerInv'
  BY <1>1 DEF OutputInv, AnswerInv, Position
<1>6. Position' \in 1..Len(answer')
      /\ (fields' <=> Current' \in {"rows", "torn"}) /\ (stored' <=> ~fields')
      /\ \A j \in 1..(Position' - 1) : answer'[j] # "torn"
  BY <1>1, <1>2 DEF OutputInv, MysqlOutputInv
<1> QED
  BY <1>1, <1>4, <1>5, <1>6
  DEF OutputInv, MysqlOutputInv, PgOutputInv, OutputIsOfThisQuery

LEMMA StoreKeepsOutput ==
  ASSUME IInv, OutputInv, Store
  PROVE  OutputInv'
<1>1. /\ driver = "mysql" /\ pc = "store"
      /\ UNCHANGED <<driver, sent, answer, unread, fields, queryResult>>
  BY DEF Store, StoreResult, IInv, TypeOK, PgInv
<1>2. /\ Position' = Position /\ Current' = Current
      /\ \A n : ReadableUpTo(n)' = ReadableUpTo(n)
  BY <1>1 DEF Position, Current, ReadableUpTo, Readable
<1>3. /\ Position \in 1..Len(answer) /\ Current = answer[Position]
      /\ fields <=> Current \in {"rows", "torn"}
      /\ stored <=> ~fields
      /\ Lists(queryResult, sent, ReadableUpTo(Position - 1))
      /\ \A j \in 1..(Position - 1) : answer[j] # "torn"
  BY <1>1 DEF OutputInv, MysqlOutputInv, Current, Position
<1>4. AnswerInv'
  BY <1>1 DEF OutputInv, AnswerInv, Position
<1>5. sent # Null
  BY <1>1 DEF IInv, SentInv, Null
<1>6. CASE Current = "rows"
  <2>1. pc' = "fetch" /\ result' = sent
    BY <1>1, <1>3, <1>5, <1>6 DEF Store, StoreResult, GoTo
  <2> QED
    BY <1>1, <1>2, <1>3, <1>4, <1>6, <2>1
    DEF OutputInv, MysqlOutputInv, PgOutputInv, OutputIsOfThisQuery
<1>7. CASE Current = "torn"
  <2>1. pc' = "drain"
    BY <1>1, <1>3, <1>7 DEF Store, StoreResult, GoTo, DrainRest
  <2>2. ReadableUpTo(Len(answer)) = ReadableUpTo(Position - 1)
    BY <1>3, <1>7, ReadableEnds DEF IInv, OutputInv
  <2> QED
    BY <1>1, <1>2, <1>3, <1>4, <2>1, <2>2
    DEF OutputInv, MysqlOutputInv, PgOutputInv, OutputIsOfThisQuery
<1>8. CASE Current \notin {"rows", "torn"}
  <2>1. pc' = "next"
    BY <1>1, <1>3, <1>8 DEF Store, StoreResult, GoTo, Continue
  <2>2. ReadableUpTo(Position) = ReadableUpTo(Position - 1)
    BY <1>3, <1>8, ReadableGrows DEF IInv
  <2>3. \A j \in 1..Position : answer[j] # "torn"
    BY <1>3, <1>8
  <2> QED
    BY <1>1, <1>2, <1>3, <1>4, <2>1, <2>2, <2>3
    DEF OutputInv, MysqlOutputInv, PgOutputInv, OutputIsOfThisQuery
<1> QED
  BY <1>6, <1>7, <1>8

LEMMA FetchRowsKeepsOutput ==
  ASSUME IInv, OutputInv, FetchRows
  PROVE  OutputInv'
<1>1. /\ driver = "mysql" /\ pc = "fetch" /\ pc' = "free"
      /\ UNCHANGED <<driver, sent, answer, unread>>
      /\ queryResult' = Append(queryResult, <<result, Position>>)
  BY DEF FetchRows, GoTo, libraryVars, Position, IInv, TypeOK, PgInv
<1>2. /\ Position' = Position
      /\ \A n : ReadableUpTo(n)' = ReadableUpTo(n)
  BY <1>1 DEF Position, ReadableUpTo, Readable
<1>3. /\ Position \in 1..Len(answer) /\ answer[Position] = "rows"
      /\ result = sent
      /\ Lists(queryResult, sent, ReadableUpTo(Position - 1))
      /\ \A j \in 1..(Position - 1) : answer[j] # "torn"
  BY <1>1 DEF OutputInv, MysqlOutputInv, Current, Position
<1>4. AnswerInv'
  BY <1>1 DEF OutputInv, AnswerInv, Position
<1>5. ReadableUpTo(Position) = ReadableUpTo(Position - 1) \cup {Position}
  BY <1>3, ReadableGrows DEF IInv
<1>6. \A j \in 1..Position : answer[j] # "torn"
  BY <1>3
<1>7. Lists(queryResult', sent, ReadableUpTo(Position))
  <2>1. /\ queryResult \in Seq((1..Quota) \X Nat)
        /\ Position \in Nat
        /\ ReadableUpTo(Position - 1) \in SUBSET (1..(Position - 1))
    BY <1>3 DEF IInv, TypeOK, ReadableUpTo
  <2>2. Lists(Append(queryResult, <<sent, Position>>), sent,
              ReadableUpTo(Position - 1) \cup {Position})
    BY <1>3, <2>1, ListsOneMore
  <2> QED
    BY <1>1, <1>3, <1>5, <2>2
<1> QED
  BY <1>1, <1>2, <1>3, <1>4, <1>6, <1>7
  DEF OutputInv, MysqlOutputInv, PgOutputInv, OutputIsOfThisQuery

LEMMA FreeingKeepsOutput ==
  ASSUME IInv, OutputInv, FreeResult \/ DrainFree
  PROVE  OutputInv'
<1>1. /\ driver = "mysql"
      /\ \/ pc = "free" /\ pc' = "next"
         \/ pc = "drainFree" /\ pc' = "drain"
      /\ UNCHANGED <<driver, sent, answer, unread, queryResult>>
  BY DEF FreeResult, DrainFree, GoTo, libraryVars, IInv, TypeOK, PgInv
<1>2. /\ Position' = Position
      /\ \A n : ReadableUpTo(n)' = ReadableUpTo(n)
  BY <1>1 DEF Position, ReadableUpTo, Readable
<1>3. AnswerInv'
  BY <1>1 DEF OutputInv, AnswerInv, Position
<1> QED
  BY <1>1, <1>2, <1>3
  DEF OutputInv, MysqlOutputInv, PgOutputInv, OutputIsOfThisQuery

LEMMA DrainStoreKeepsOutput ==
  ASSUME IInv, OutputInv, DrainStore
  PROVE  OutputInv'
<1>1. /\ driver = "mysql" /\ pc = "drainStore" /\ pc' \in {"drain", "drainFree"}
      /\ UNCHANGED <<driver, sent, answer, unread, queryResult>>
  BY DEF DrainStore, StoreResult, GoTo, IInv, TypeOK, PgInv
<1>2. \A n : ReadableUpTo(n)' = ReadableUpTo(n)
  BY <1>1 DEF ReadableUpTo, Readable
<1>3. AnswerInv'
  BY <1>1 DEF OutputInv, AnswerInv, Position
<1> QED
  BY <1>1, <1>2, <1>3
  DEF OutputInv, MysqlOutputInv, PgOutputInv, OutputIsOfThisQuery

\* What mysql_next_result returns and where it leaves the answer.
LEMMA NextResultReads ==
  ASSUME IInv, OutputInv, NextResult, driver = "mysql", stored
  PROVE  /\ AnswerInv' /\ answer' = answer
         /\ More => /\ Position' = Position + 1 /\ Position' \in 1..Len(answer)
                    /\ Current' = answer[Position']
                    /\ fields' <=> Current' \in {"rows", "torn"}
                    /\ stored' <=> ~fields'
         /\ ~More => Position = Len(answer) \/ answer[Position + 1] = "error"
<1>1. /\ answer' = answer /\ answer \in Seq(Kinds) /\ unread \in Seq(Kinds)
      /\ Len(unread) <= Len(answer)
      /\ Len(unread) \in Nat /\ Len(answer) \in Nat
  BY DEF NextResult, IInv, TypeOK
<1>2. /\ \A i \in 1..(Len(answer) - 1) : answer[i] # "error"
      /\ \A k \in 1..Len(unread) : unread[k] = answer[Len(answer) - Len(unread) + k]
  BY DEF OutputInv, AnswerInv, Position
<1>3. CASE unread # <<>>
  <2> DEFINE p == Len(answer) - Len(unread) + 1
  <2>1. Begin(unread)
    BY <1>3 DEF NextResult
  <2>2. /\ p \in 1..Len(answer) /\ Len(answer) - Len(unread') = p
        /\ \A k \in 1..Len(unread') : unread'[k] = answer[p + k]
        /\ fields' <=> answer[p] \in {"rows", "torn"}
        /\ stored' <=> ~fields'
    BY <1>1, <1>2, <1>3, <2>1, BeginReads
  <2>3. Position + 1 = p
    BY DEF Position
  <2> HIDE DEF p
  <2>4. Position' = p /\ Current' = answer[p]
    BY <1>1, <2>2 DEF Position, Current
  <2>5. AnswerInv'
    BY <1>1, <1>2, <2>2, <2>4 DEF AnswerInv
  <2>6. ~More => answer[Position + 1] = "error"
    <3>1. Head(unread) = unread[1] /\ 1 \in 1..Len(unread)
      BY <1>1, <1>3, TailElements
    <3>2. unread[1] = answer[Position + 1]
      BY <3>1 DEF OutputInv, AnswerInv
    <3> QED
      BY <1>3, <3>1, <3>2 DEF More
  <2> QED
    BY <1>1, <2>2, <2>3, <2>4, <2>5, <2>6
<1>4. CASE unread = <<>>
  <2>1. ~More /\ unread' = unread /\ Position = Len(answer)
    BY <1>1, <1>4 DEF More, NextResult, Position
  <2>2. AnswerInv'
    BY <1>1, <2>1 DEF OutputInv, AnswerInv, Position
  <2> QED
    BY <1>1, <2>1, <2>2
<1> QED
  BY <1>3, <1>4

LEMMA LoopConditionKeepsOutput ==
  ASSUME IInv, OutputInv, LoopCondition
  PROVE  OutputInv'
<1>1. /\ driver = "mysql" /\ pc = "next" /\ stored /\ NextResult
      /\ pc' = IF More THEN "store" ELSE "logOutput"
      /\ UNCHANGED <<driver, sent, queryResult>>
  BY DEF LoopCondition, GoTo, IInv, TypeOK, PgInv, MysqlInv
<1>2. /\ Position \in 1..Len(answer)
      /\ Lists(queryResult, sent, ReadableUpTo(Position))
      /\ \A j \in 1..Position : answer[j] # "torn"
  BY <1>1 DEF OutputInv, MysqlOutputInv
<1>3. /\ AnswerInv' /\ answer' = answer
      /\ More => /\ Position' = Position + 1 /\ Position' \in 1..Len(answer)
                 /\ fields' <=> Current' \in {"rows", "torn"}
                 /\ stored' <=> ~fields'
      /\ ~More => Position = Len(answer) \/ answer[Position + 1] = "error"
  BY <1>1, NextResultReads
<1>4. \A n : ReadableUpTo(n)' = ReadableUpTo(n)
  BY <1>3 DEF ReadableUpTo, Readable
<1>5. CASE More
  <2>1. Position' - 1 = Position
    BY <1>2, <1>3, <1>5
  <2> QED
    BY <1>1, <1>2, <1>3, <1>4, <1>5, <2>1
    DEF OutputInv, MysqlOutputInv, PgOutputInv, OutputIsOfThisQuery
<1>6. CASE ~More
  <2>1. ReadableUpTo(Len(answer)) = ReadableUpTo(Position)
    BY <1>2, <1>3, <1>6, ReadableEnds DEF IInv, OutputInv
  <2> QED
    BY <1>1, <1>2, <1>3, <1>4, <1>6, <2>1
    DEF OutputInv, MysqlOutputInv, PgOutputInv, OutputIsOfThisQuery
<1> QED
  BY <1>5, <1>6

LEMMA DrainConditionKeepsOutput ==
  ASSUME IInv, OutputInv, DrainCondition
  PROVE  OutputInv'
<1>1. /\ driver = "mysql" /\ pc = "drain" /\ stored /\ NextResult
      /\ pc' \in {"drainStore", "logOutput"}
      /\ UNCHANGED <<driver, sent, queryResult>>
  BY DEF DrainCondition, GoTo, IInv, TypeOK, PgInv, MysqlInv
<1>2. AnswerInv' /\ answer' = answer
  BY <1>1, NextResultReads
<1>3. \A n : ReadableUpTo(n)' = ReadableUpTo(n)
  BY <1>2 DEF ReadableUpTo, Readable
<1> QED
  BY <1>1, <1>2, <1>3
  DEF OutputInv, MysqlOutputInv, PgOutputInv, OutputIsOfThisQuery

LEMMA NextKeepsOutput ==
  ASSUME IInv, OutputInv, [Next]_vars
  PROVE  OutputInv'
<1>1. CASE Connect \/ LogOutput \/ CleanupResult \/ QuotaReached \/ Close
           \/ Destroy \/ CopyThrows
  <2>1. UNCHANGED <<driver, answer, unread>>
    BY <1>1 DEF Connect, LogOutput, CleanupResult, QuotaReached, Close, Destroy,
                CopyThrows, libraryVars
  <2>2. pc' \in {"query", "cleanup", "close", "destroy", "done"}
    BY <1>1 DEF Connect, LogOutput, CleanupResult, QuotaReached, Close, Destroy,
                CopyThrows, GoTo
  <2> QED
    BY <2>1, <2>2, AsideKeepsOutput
<1>2. CASE UNCHANGED vars
  BY <1>2 DEF vars, libraryVars, pgVars, OutputInv, AnswerInv, MysqlOutputInv,
              PgOutputInv, OutputIsOfThisQuery, Position, Current, ReadableUpTo,
              Readable
<1> QED
  BY <1>1, <1>2, MysqlQueryKeepsOutput, PgQueryKeepsOutput, PgStepsKeepOutput,
     LogQueryKeepsOutput, PgOutputKeepsOutput, MysqlOutputKeepsOutput,
     StoreKeepsOutput, FetchRowsKeepsOutput, FreeingKeepsOutput,
     DrainStoreKeepsOutput, LoopConditionKeepsOutput, DrainConditionKeepsOutput
  DEF Next

-----------------------------------------------------------------------------
(* The theorems                                                            *)

\* The invariant from which the theorems below follow.
THEOREM Invariance == Spec => []IInv
<1>1. Init => IInv
  BY InitHolds
<1>2. IInv /\ [Next]_vars => IInv'
  BY NextKeeps
<1> QED
  BY <1>1, <1>2, PTL DEF Spec

\* Every variable has its type.
THEOREM TypeCorrect == Spec => []TypeOK
<1>1. IInv => TypeOK
  BY DEF IInv
<1> QED
  BY <1>1, Invariance, PTL

\* However many replies a statement has and wherever reading them breaks off,
\* no result is freed twice or used after it was freed, and no command is sent
\* while a reply waits.  (cMysqlDatabase.cpp:81-124, cPgsqlDatabase.hpp:17-32)
THEOREM LibraryUsedRight == Spec => []LibraryIsUsedRight
<1>1. IInv => LibraryIsUsedRight
  BY DEF IInv
<1> QED
  BY <1>1, Invariance, PTL

\* The pointer of a PgResult and its status never drift apart.
\* (cPgsqlDatabase.hpp:7-41)
THEOREM StatusNeverDrifts == Spec => []StatusMatchesResult
<1>1. IInv => StatusMatchesResult
  BY DEF IInv
<1> QED
  BY <1>1, Invariance, PTL

\* Where reading breaks off, and whether by an error, by a result set that ends
\* early or by the end of the answer: what is logged with a statement is what
\* could be read of its own answer, every result set of it once and in order.
\* (cMysqlDatabase.cpp:78-125, cPgsqlDatabase.cpp:21-41)
THEOREM OutputIsItsOwn == Spec => []OutputIsOfThisQuery
<1>1. Init => OutputInv
  <2>1. Init => Len(answer) = 0 /\ Len(unread) = 0
    BY DEF Init
  <2> QED
    BY <2>1 DEF Init, OutputInv, AnswerInv, MysqlOutputInv, PgOutputInv,
                OutputIsOfThisQuery
<1>2. IInv /\ OutputInv /\ [Next]_vars => OutputInv'
  BY NextKeepsOutput
<1>3. OutputInv => OutputIsOfThisQuery
  BY DEF OutputInv
<1> QED
  BY <1>1, <1>2, <1>3, Invariance, PTL DEF Spec

\* Nothing of an answer is left when the next statement is sent; when the
\* thread has left, on whatever way, the connection is closed and all memory is
\* freed, but for the result of libmysqlclient that an exception found in hand.
\* (cMysqlDatabase.cpp:87-97, 100-123, cPgsqlDatabase.cpp:115,
\* cDbWorker.cpp:200-205)
THEOREM NothingStays == Spec => []NothingLeftBehind
<1>1. IInv => NothingLeftBehind
  <2> SUFFICES ASSUME IInv, pc \in {"query", "done"} PROVE NothingLeftBehind
    BY DEF NothingLeftBehind
  <2>1. CASE driver = "mysql"
    BY <2>1 DEF IInv, MysqlInv, SentInv, NothingLeftBehind
  <2>2. CASE driver = "pgsql"
    <3>1. member = PgEmpty /\ temp = PgEmpty
      BY <2>2 DEF IInv, PgInv
    <3>2. {member.res, temp.res} \ {Null} = {}
      BY <3>1, NoPointers, Zenon
    <3> QED
      BY <2>2, <3>2 DEF IInv, PgInv, SentInv, NothingLeftBehind
  <2> QED
    BY <2>1, <2>2 DEF IInv, TypeOK
<1> QED
  BY <1>1, Invariance, PTL
=============================================================================
