----------------------------- MODULE DbResults -----------------------------
(***************************************************************************)
(* One connection of a worker's thread and the results it obtains: what     *)
(* DbWorker::workerThread calls of MysqlDatabase (src/src/cMysqlDatabase.cpp)*)
(* or PgsqlDatabase (src/src/cPgsqlDatabase.cpp), and what these call of the *)
(* client library.  The library is external; when the code does not comply  *)
(* with what it requires of its caller, the variable misuse says so.        *)
(*                                                                         *)
(* The answer to a statement is a sequence of replies: "ok", a result set   *)
(* that can be read ("rows") or breaks off while it is read ("torn"), or an *)
(* error, which is the last.  PQexec returns one reply, or a null pointer.  *)
(***************************************************************************)
EXTENDS Integers, Sequences

CONSTANTS Quota,        \* queries_per_thread
          MaxReplies    \* bound: the replies to one statement

ASSUME CountAssumption == Quota \in Nat /\ MaxReplies \in Nat \ {0}

VARIABLES
  driver,       \* the class of the Database
  pc,           \* where the thread is
  sent,         \* the statements sent so far
  success,      \* what performRealQuery returned
  queryResult,  \* queryResult: the result sets in it
  conn,         \* the connection handle
  \* the client library
  answer,       \* the answer to the last statement
  unread,       \* the replies in it whose beginning has not been read
  fields,       \* mysql_field_count is not 0
  stored,       \* the current reply has been read to its end
  live,         \* the statements that have results in memory
  misuse,       \* what the library was called for against its rules
  \* MysqlDatabase::processQueryOutput
  result,       \* result, or the `pending' of the drain loop
  \* PgsqlDatabase
  member,       \* result_
  temp,         \* the PgResult made from what PQexec returned
  \* history, for the properties only
  copyThrew     \* an exception cut the copying of the rows short

libraryVars == <<answer, unread, fields, stored>>
pgVars == <<member, temp>>
vars == <<driver, pc, sent, success, queryResult, conn, libraryVars, live,
          misuse, result, pgVars, copyThrew>>

Kinds == {"ok", "rows", "torn", "error", "null"}
Null == 0     \* a null pointer; other results are named by their statement

Answers ==
  IF driver = "pgsql" THEN {<<"ok">>, <<"rows">>, <<"error">>, <<"null">>}
  ELSE {a \in UNION {[1..n -> Kinds \ {"null"}] : n \in 1..MaxReplies} :
          \A i \in 1..(Len(a) - 1) : a[i] # "error"}

PgEmpty == [res |-> Null, status |-> "null"]   \* PGRES_EMPTY_QUERY

TypeOK ==
  /\ driver \in {"mysql", "pgsql"}
  /\ pc \in {"connect", "query", "assign", "drop", "log", "output", "store",
             "fetch", "free", "next", "drain", "drainStore", "drainFree",
             "logOutput", "cleanup", "close", "destroy", "done"}
  /\ sent \in 0..Quota
  /\ success \in BOOLEAN
  /\ queryResult \in Seq((1..Quota) \X Nat)
  /\ conn \in {"null", "open", "closed"}
  /\ answer \in Seq(Kinds) /\ unread \in Seq(Kinds)
  /\ Len(unread) <= Len(answer)
  /\ fields \in BOOLEAN /\ stored \in BOOLEAN
  /\ live \subseteq 1..Quota
  /\ result \in 0..Quota
  /\ member \in [res : 0..Quota, status : Kinds]
  /\ temp \in [res : 0..Quota, status : Kinds]
  /\ copyThrew \in BOOLEAN

Init ==
  /\ driver \in {"mysql", "pgsql"}
  /\ pc = "connect"
  /\ sent = 0
  /\ success = TRUE
  /\ queryResult = <<>>
  /\ conn = "null"
  /\ answer = <<>> /\ unread = <<>>
  /\ fields = FALSE /\ stored = TRUE
  /\ live = {}
  /\ misuse = {}
  /\ result = Null
  /\ member = PgEmpty /\ temp = PgEmpty
  /\ copyThrew = FALSE

GoTo(there) == pc' = there /\ UNCHANGED copyThrew

-----------------------------------------------------------------------------
(* The client libraries                                                    *)

\* A result is allocated, or freed.
Allocate == live' = live \cup {sent} /\ UNCHANGED misuse
Free(r) ==
  /\ live' = live \ {r}
  /\ misuse' = IF r \in live THEN misuse ELSE misuse \cup {"double free"}
Untouched == UNCHANGED <<live, misuse>>

\* No part of an answer is left on the connection.
InSync == stored /\ unread = <<>>

\* The beginning of the next reply is read.
Begin(replies) ==
  /\ unread' = IF Head(replies) = "error" THEN <<>> ELSE Tail(replies)
  /\ fields' = (Head(replies) \in {"rows", "torn"})
  /\ stored' = (Head(replies) \notin {"rows", "torn"})

Current == answer[Len(answer) - Len(unread)]

\* mysql_store_result: a result, or NULL; the reply is read either way.
StoreResult ==
  /\ IF stored \/ Current = "torn" THEN result' = Null /\ Untouched
                                   ELSE result' = sent /\ Allocate
  /\ stored' = TRUE
  /\ UNCHANGED <<answer, unread, fields>>

\* mysql_next_result returns 0, -1 for no more results, or an error.
More == stored /\ unread # <<>> /\ Head(unread) # "error"
NextResult ==
  /\ IF stored /\ unread # <<>> THEN Begin(unread)
                                ELSE UNCHANGED <<unread, fields, stored>>
  /\ misuse' = IF stored THEN misuse ELSE misuse \cup {"out of sync"}
  /\ UNCHANGED <<answer, live>>

-----------------------------------------------------------------------------
(* connect and performQuery                                                *)

\* The handle may exist though the connection failed.
Connect ==
  /\ pc = "connect"
  /\ \/ conn' = "open" /\ GoTo("query")
     \/ conn' \in {"null", "open"} /\ GoTo("close")
  /\ UNCHANGED <<driver, sent, success, queryResult, libraryVars, live, misuse,
                 result, pgVars>>

\* One statement more than was asked for.
QueriesLeftInclusive == sent <= Quota

QueriesLeft == sent < Quota

\* The last output stays until the next is read.
ClearedByOutput == UNCHANGED queryResult

ClearResult == queryResult' = <<>>

PerformQuery ==
  /\ pc = "query"
  /\ QueriesLeft
  /\ sent' = sent + 1
  /\ ClearResult
  /\ \E a \in Answers : answer' = a
  /\ UNCHANGED <<driver, conn, result, member>>

MysqlQuery ==
  /\ driver = "mysql"
  /\ PerformQuery
  /\ IF InSync THEN /\ Begin(answer')
                    /\ success' = (Head(answer') # "error")
                    /\ UNCHANGED misuse
               ELSE /\ success' = FALSE
                    /\ misuse' = misuse \cup {"out of sync"}
                    /\ UNCHANGED <<unread, fields, stored>>
  /\ GoTo("log")
  /\ UNCHANGED <<live, temp>>

\* result_ = PgResult(PQexec(...)): the temporary is made,
PgQuery ==
  /\ driver = "pgsql"
  /\ PerformQuery
  /\ temp' = IF answer' = <<"null">> THEN PgEmpty
             ELSE [res |-> sent', status |-> Head(answer')]
  /\ live' = IF answer' = <<"null">> THEN live ELSE live \cup {sent'}
  /\ GoTo("assign")
  /\ UNCHANGED <<success, unread, fields, stored, misuse>>

\* The status is left as it was.
ResetPointer(object) == [object EXCEPT !.res = Null]

\* PgResult::reset.
Reset(object) == PgEmpty
Cleared(object) == IF object.res = Null THEN Untouched ELSE Free(object.res)

\* The object moved from still points to the result.
MovedCopy(object) == object

\* What operator= leaves in the object moved from.
MovedFrom(object) == PgEmpty

\* operator= frees what it had and takes over what the temporary has,
PgAssign ==
  /\ pc = "assign"
  /\ Cleared(member)
  /\ member' = temp
  /\ temp' = MovedFrom(temp)
  /\ GoTo("drop")
  /\ UNCHANGED <<driver, sent, success, queryResult, conn, libraryVars, result>>

\* the destructor of the temporary runs, and the status decides.
PgDrop ==
  /\ pc = "drop"
  /\ Cleared(temp)
  /\ temp' = Reset(temp)
  /\ success' = (member.status \in {"rows", "ok"})
  /\ GoTo("log")
  /\ UNCHANGED <<driver, sent, queryResult, conn, libraryVars, result, member>>

-----------------------------------------------------------------------------
(* workerThread between the queries                                        *)

\* After too many failures the thread leaves, and after a log write that
\* throws; otherwise the query is logged.
LogQuery ==
  /\ pc = "log"
  /\ GoTo("output") \/ GoTo("close")
  /\ UNCHANGED <<driver, sent, success, queryResult, conn, libraryVars, live,
                 misuse, result, pgVars>>

LogOutput ==
  /\ pc = "logOutput"
  /\ GoTo("cleanup") \/ GoTo("close")
  /\ UNCHANGED <<driver, sent, success, queryResult, conn, libraryVars, live,
                 misuse, result, pgVars>>

\* cleanupResult does nothing for MySQL.
CleanupResult ==
  /\ pc = "cleanup"
  /\ IF driver = "pgsql" THEN Cleared(member) /\ member' = Reset(member)
                         ELSE Untouched /\ UNCHANGED member
  /\ GoTo("query")
  /\ UNCHANGED <<driver, sent, success, queryResult, conn, libraryVars, result,
                 temp>>

QuotaReached ==
  /\ pc = "query" /\ ~QueriesLeft
  /\ GoTo("close")
  /\ UNCHANGED <<driver, sent, success, queryResult, conn, libraryVars, live,
                 misuse, result, pgVars>>

\* The destructor closes the handle, and then the members are destroyed.
Close ==
  /\ pc = "close"
  /\ conn' = IF conn = "null" THEN "null" ELSE "closed"
  /\ GoTo("destroy")
  /\ UNCHANGED <<driver, sent, success, queryResult, libraryVars, live, misuse,
                 result, pgVars>>

Destroy ==
  /\ pc = "destroy"
  /\ Cleared(member)
  /\ member' = Reset(member)
  /\ GoTo("done")
  /\ UNCHANGED <<driver, sent, success, queryResult, conn, libraryVars, result,
                 temp>>

-----------------------------------------------------------------------------
(* processQueryOutput                                                      *)

PgOutput ==
  /\ pc = "output" /\ driver = "pgsql"
  /\ queryResult' = IF member.res = Null THEN queryResult
                    ELSE IF member.status = "rows" THEN <<<<member.res, 1>>>>
                    ELSE <<>>
  /\ misuse' = IF member.res \in live \cup {Null} THEN misuse
               ELSE misuse \cup {"use after free"}
  /\ GoTo("logOutput")
  /\ UNCHANGED <<driver, sent, success, conn, libraryVars, live, result, pgVars>>

MysqlOutput ==
  /\ pc = "output" /\ driver = "mysql"
  /\ queryResult' = <<>>
  /\ GoTo("store")
  /\ UNCHANGED <<driver, sent, success, conn, libraryVars, live, misuse, result,
                 pgVars>>

\* It would start the next round at once.
ContinueAtTop == "store"

\* `continue' in a do loop evaluates the condition.
Continue == "next"

\* What is left of the answer stays on the connection.
LeaveRest == "logOutput"

\* After a result set that breaks off the rest is read and dropped.
DrainRest == "drain"

Store ==
  /\ pc = "store"
  /\ StoreResult
  /\ GoTo(IF result' # Null THEN "fetch"
          ELSE IF ~fields THEN Continue ELSE DrainRest)
  /\ UNCHANGED <<driver, sent, success, queryResult, conn, pgVars>>

FetchRows ==
  /\ pc = "fetch"
  /\ queryResult' = Append(queryResult, <<result, Len(answer) - Len(unread)>>)
  /\ misuse' = IF result \in live THEN misuse ELSE misuse \cup {"use after free"}
  /\ GoTo("free")
  /\ UNCHANGED <<driver, sent, success, conn, libraryVars, live, result, pgVars>>

\* A string cannot grow while the rows are copied into it: the exception leaves
\* workerThread.  A PGresult has an owner, a MYSQL_RES has none.
CopyThrows ==
  /\ \/ pc = "fetch"
     \/ pc = "output" /\ driver = "pgsql" /\ member.status = "rows"
  /\ pc' = "close"
  /\ copyThrew' = TRUE
  /\ UNCHANGED <<driver, sent, success, queryResult, conn, libraryVars, live,
                 misuse, result, pgVars>>

FreeResult ==
  /\ pc = "free"
  /\ Free(result)
  /\ GoTo("next")
  /\ UNCHANGED <<driver, sent, success, queryResult, conn, libraryVars, result,
                 pgVars>>

LoopCondition ==
  /\ pc = "next"
  /\ GoTo(IF More THEN "store" ELSE "logOutput")
  /\ NextResult
  /\ UNCHANGED <<driver, sent, success, queryResult, conn, result, pgVars>>

DrainCondition ==
  /\ pc = "drain"
  /\ GoTo(IF More THEN "drainStore" ELSE "logOutput")
  /\ NextResult
  /\ UNCHANGED <<driver, sent, success, queryResult, conn, result, pgVars>>

DrainStore ==
  /\ pc = "drainStore"
  /\ StoreResult
  /\ GoTo(IF result' # Null THEN "drainFree" ELSE "drain")
  /\ UNCHANGED <<driver, sent, success, queryResult, conn, pgVars>>

DrainFree ==
  /\ pc = "drainFree"
  /\ Free(result)
  /\ GoTo("drain")
  /\ UNCHANGED <<driver, sent, success, queryResult, conn, libraryVars, result,
                 pgVars>>

-----------------------------------------------------------------------------
Next ==
  \/ Connect \/ MysqlQuery \/ PgQuery \/ PgAssign \/ PgDrop
  \/ LogQuery \/ LogOutput \/ CleanupResult \/ QuotaReached \/ Close \/ Destroy
  \/ PgOutput \/ MysqlOutput \/ Store \/ FetchRows \/ CopyThrows
  \/ FreeResult \/ LoopCondition \/ DrainCondition \/ DrainStore \/ DrainFree

Spec == Init /\ [][Next]_vars

\* Every call of the library returns: the server answers, or the connection is
\* lost, which is an error.
FairSpec == Spec /\ WF_vars(Next)

-----------------------------------------------------------------------------
(* Properties                                                              *)

\* No result is freed twice or used when it has been freed, and no command is
\* sent while a result waits on the connection.  (cMysqlDatabase.cpp:81-124,
\* cPgsqlDatabase.hpp:17-32)
LibraryIsUsedRight == misuse = {}

\* When a statement is about to be sent, nothing of the answers before it is
\* left, neither on the connection nor in memory.  When the thread has left, on
\* whatever way, the connection is closed, and no result is left in memory but
\* one of libmysqlclient whose rows were being copied when an exception came:
\* mysql_free_result is then passed over.  (cMysqlDatabase.cpp:87-97, 100-123,
\* cPgsqlDatabase.cpp:28-40, 115, cDbWorker.cpp:200-205)
NothingLeftBehind ==
  /\ pc = "query" => live = {} /\ InSync
  /\ pc = "done" =>
       /\ conn # "open"
       /\ live = IF driver = "mysql" /\ copyThrew THEN {sent} ELSE {}

\* The output that is logged with a statement is all that could be read of its
\* own answer, in order: the result sets up to one that breaks off.
\* (cMysqlDatabase.cpp:78-125, cPgsqlDatabase.cpp:21-41)
Readable(i) == answer[i] = "rows" /\ \A j \in 1..i : answer[j] # "torn"
ReadableUpTo(n) == {i \in 1..n : Readable(i)}
Lists(output, statement, replies) ==
  /\ {output[k] : k \in DOMAIN output} = {<<statement, i>> : i \in replies}
  /\ \A j, k \in DOMAIN output : j < k => output[j][2] < output[k][2]
OutputIsOfThisQuery ==
  pc = "logOutput" => Lists(queryResult, sent, ReadableUpTo(Len(answer)))

\* A PgResult holds the result of the last statement with the status of that
\* result, or nothing: "the pointer and its status can never drift apart".
\* (cPgsqlDatabase.hpp:7-41)
StatusMatchesResult ==
  \A object \in {member, temp} :
    object = PgEmpty \/ object = [res |-> sent, status |-> Head(answer)]

\* Every thread leaves: the loops over the replies come to their end.
\* (cMysqlDatabase.cpp:81-124)
ThreadLeaves == <>(pc = "done")
=============================================================================
