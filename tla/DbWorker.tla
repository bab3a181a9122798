------------------------------ MODULE DbWorker ------------------------------
(***************************************************************************)
(* One worker process: DbWorker::executeTests (src/src/cDbWorker.cpp:224)   *)
(* tests the connection, loads the query list, starts the threads, joins    *)
(* them and reports; each thread connects and sends its queries through     *)
(* Database::performQuery (src/src/cDatabase.cpp:23).  Threads share the    *)
(* query list, which nobody writes any more, three atomic totals, the flag  *)
(* thread_failed and the log of the worker.                                 *)
(*                                                                         *)
(* A statement is the index of its place in the query list, and the server  *)
(* answers each one with success or failure as it likes.                    *)
(***************************************************************************)
EXTENDS Integers, FiniteSets, Functions

CONSTANTS
  MaxThreads,        \* bound: the largest value of the `threads' key
  ListSizes,         \* how many statements the infile can hold
  QueryCounts,       \* the values of the `queries-per-thread' key
  Shuffles,          \* the values of the `shuffle' key
  Modulus,           \* 2^32, the range of the loop counter
  MaxConFailures,    \* MAX_CON_FAILURES
  LogFails,          \* TRUE: a log write (or the driver) may throw
  SpawnFails         \* TRUE: the constructor of std::thread may throw

Threads == 0..(MaxThreads - 1)

ASSUME SizeAssumption ==
  /\ MaxThreads \in Nat \ {0}
  /\ ListSizes \subseteq Nat
  /\ QueryCounts \subseteq Nat
  /\ Shuffles \subseteq BOOLEAN
  /\ Modulus \in Nat \ {0}
  /\ MaxConFailures \in Nat \ {0}

ASSUME FaultAssumption == LogFails \in BOOLEAN /\ SpawnFails \in BOOLEAN

VARIABLES
  \* mParams and the infile
  threads,             \* mParams.threads
  queriesPerThread,    \* mParams.queries_per_thread
  shuffle,             \* mParams.shuffle
  logFailed,           \* mParams.log_failed_queries
  listSize,            \* queryList->size()
  \* the thread that runs executeTests
  main,                \* where it is
  next,                \* the loop variable of spawnWorkerThreads
  status,              \* how the process ended
  \* the shared members of DbWorker
  performedTotal,      \* performed_queries_total
  failedTotal,         \* failed_queries_total
  connectionsTotal,    \* failed_connections_total
  threadFailed,        \* thread_failed
  \* the locals of workerThread and its Database
  pc,                  \* where each thread is
  i,                   \* the loop counter, a uint32_t
  queryNumber,         \* query_number
  success,             \* what the last performQuery returned
  performed,           \* performed_queries
  failed,              \* failed_queries
  consecutive,         \* consecutive_failures
  \* history, for the properties only
  ending,              \* how each thread left workerThread
  loggedFailures,      \* failed queries written to the thread's log
  lastGood             \* the number of its last query that succeeded, or 0

paramVars == <<threads, queriesPerThread, shuffle, logFailed, listSize>>
mainVars == <<main, next, status>>
totalVars == <<performedTotal, failedTotal, connectionsTotal, threadFailed>>
databaseVars == <<performed, failed, consecutive>>
threadVars == <<pc, i, queryNumber, success, databaseVars, ending,
                loggedFailures, lastGood>>
vars == <<paramVars, mainVars, totalVars, threadVars>>

MainPoints == {"testConnection", "loadQueryList", "adjust", "spawn", "join",
               "report", "returned"}
ThreadPoints == {"unborn", "begin", "query", "output", "accountPerformed",
                 "accountFailed", "done"}
EndKinds == {"none", "empty", "unconnected", "aborted", "clean", "exception"}

ParamTypeOK ==
  /\ threads \in 1..MaxThreads
  /\ queriesPerThread \in Nat
  /\ shuffle \in BOOLEAN
  /\ logFailed \in BOOLEAN
  /\ listSize \in ListSizes

MainTypeOK ==
  /\ main \in MainPoints
  /\ next \in 0..MaxThreads
  /\ status \in {"running", "exit0", "exit1", "signal"}

TotalTypeOK ==
  /\ performedTotal \in Nat
  /\ failedTotal \in Nat
  /\ connectionsTotal \in Nat
  /\ threadFailed \in BOOLEAN

ThreadTypeOK ==
  /\ pc \in [Threads -> ThreadPoints]
  /\ i \in [Threads -> 0..(Modulus - 1)]
  /\ queryNumber \in [Threads -> Nat]
  /\ success \in [Threads -> BOOLEAN]
  /\ performed \in [Threads -> Nat]
  /\ failed \in [Threads -> Nat]
  /\ consecutive \in [Threads -> 0..MaxConFailures]
  /\ ending \in [Threads -> EndKinds]
  /\ loggedFailures \in [Threads -> Nat]
  /\ lastGood \in [Threads -> Nat]

TypeOK == ParamTypeOK /\ MainTypeOK /\ TotalTypeOK /\ ThreadTypeOK

Init ==
  /\ threads \in 1..MaxThreads
  /\ queriesPerThread \in QueryCounts
  /\ shuffle \in Shuffles
  /\ logFailed \in BOOLEAN
  /\ listSize \in ListSizes
  /\ main = "testConnection"
  /\ next = 0
  /\ status = "running"
  /\ performedTotal = 0
  /\ failedTotal = 0
  /\ connectionsTotal = 0
  /\ threadFailed = FALSE
  /\ pc = [t \in Threads |-> "unborn"]
  /\ i = [t \in Threads |-> 0]
  /\ queryNumber = [t \in Threads |-> 0]
  /\ success = [t \in Threads |-> TRUE]
  /\ performed = [t \in Threads |-> 0]
  /\ failed = [t \in Threads |-> 0]
  /\ consecutive = [t \in Threads |-> 0]
  /\ ending = [t \in Threads |-> "none"]
  /\ loggedFailures = [t \in Threads |-> 0]
  /\ lastGood = [t \in Threads |-> 0]

-----------------------------------------------------------------------------
(* executeTests                                                            *)

\* The process is over, and with it the threads that are still running.
Exit(how) ==
  /\ main' = "returned"
  /\ status' = how

\* testConnection: no thread is started if the server cannot be reached.
TestConnection ==
  /\ main = "testConnection"
  /\ \/ main' = "loadQueryList" /\ UNCHANGED status
     \/ Exit("exit1")
  /\ UNCHANGED <<paramVars, next, totalVars, threadVars>>

\* loadQueryList fails, or fills the query list.
LoadQueryList ==
  /\ main = "loadQueryList"
  /\ \/ main' = "adjust" /\ UNCHANGED status
     \/ Exit("exit1")
  /\ UNCHANGED <<paramVars, next, totalVars, threadVars>>

\* A replay by all the configured threads, each sending the whole list.
AdjustQueriesOnly ==
  /\ main = "adjust"
  /\ main' = "spawn"
  /\ queriesPerThread' = IF shuffle THEN queriesPerThread ELSE listSize
  /\ UNCHANGED <<threads, shuffle, logFailed, listSize, next, status,
                 totalVars, threadVars>>

\* adjustRuntimeParams: a replay is one thread sending the list once.
AdjustRuntimeParams ==
  /\ main = "adjust"
  /\ main' = "spawn"
  /\ threads' = IF shuffle THEN threads ELSE 1
  /\ queriesPerThread' = IF shuffle THEN queriesPerThread ELSE listSize
  /\ UNCHANGED <<shuffle, logFailed, listSize, next, status, totalVars,
                 threadVars>>

\* The first loop of spawnWorkerThreads.
SpawnThread ==
  /\ main = "spawn"
  /\ next < threads
  /\ pc' = [pc EXCEPT ![next] = "begin"]
  /\ next' = next + 1
  /\ UNCHANGED <<paramVars, main, status, totalVars, i, queryNumber, success,
                 databaseVars, ending, loggedFailures, lastGood>>

AllSpawned ==
  /\ main = "spawn"
  /\ next = threads
  /\ main' = "join"
  /\ next' = 0
  /\ UNCHANGED <<paramVars, status, totalVars, threadVars>>

\* std::thread cannot be constructed.  The exception destroys `workers' on
\* its way to main: with a thread in it that has not been joined, that ends
\* the process by std::terminate.
SpawnThrows ==
  /\ SpawnFails
  /\ main = "spawn"
  /\ next < threads
  /\ Exit(IF next = 0 THEN "exit1" ELSE "signal")
  /\ UNCHANGED <<paramVars, next, totalVars, threadVars>>

\* The threads are detached: the loop does not wait for them.
DetachThread ==
  /\ main = "join"
  /\ next < threads
  /\ next' = next + 1
  /\ UNCHANGED <<paramVars, main, status, totalVars, threadVars>>

\* The second loop of spawnWorkerThreads waits for each thread in turn.
JoinThread ==
  /\ main = "join"
  /\ next < threads
  /\ pc[next] = "done"
  /\ next' = next + 1
  /\ UNCHANGED <<paramVars, main, status, totalVars, threadVars>>

\* The loop waits for one thread too many.
AllJoinedTooLate ==
  /\ main = "join"
  /\ next = threads + 1
  /\ main' = "report"
  /\ UNCHANGED <<paramVars, next, status, totalVars, threadVars>>

AllJoined ==
  /\ main = "join"
  /\ next = threads
  /\ main' = "report"
  /\ UNCHANGED <<paramVars, next, status, totalVars, threadVars>>

\* writeFinalReport, and the value executeTests returns.
Report ==
  /\ main = "report"
  /\ Exit(IF threadFailed THEN "exit1" ELSE "exit0")
  /\ UNCHANGED <<paramVars, next, totalVars, threadVars>>

\* The log of the worker cannot be written outside workerThread.
MainThrows ==
  /\ LogFails
  /\ \/ main = "adjust" /\ ~shuffle
     \/ main = "report"
  /\ Exit("exit1")
  /\ UNCHANGED <<paramVars, next, totalVars, threadVars>>

-----------------------------------------------------------------------------
(* workerThread                                                            *)

\* Threads run until the process ends.
Running(t) == status = "running" /\ pc[t] \notin {"unborn", "done"}

Leave(t, how) ==
  /\ pc' = [pc EXCEPT ![t] = "done"]
  /\ ending' = [ending EXCEPT ![t] = how]

\* A thread does not look at the size of the query list.
HasQueriesUnchecked == TRUE

HasQueries == listSize > 0

\* From the head of workerThread to the first test of its loop.
BeginThread(t) ==
  /\ Running(t)
  /\ pc[t] = "begin"
  /\ IF ~HasQueries
     THEN Leave(t, "empty") /\ UNCHANGED connectionsTotal
     ELSE \/ /\ pc' = [pc EXCEPT ![t] = "query"]
             /\ UNCHANGED <<connectionsTotal, ending>>
          \/ /\ Leave(t, "unconnected")
             /\ connectionsTotal' = connectionsTotal + 1
  /\ UNCHANGED <<paramVars, mainVars, performedTotal, failedTotal,
                 threadFailed, i, queryNumber, success, databaseVars,
                 loggedFailures, lastGood>>

\* One query too many.
MayGoOnInclusive(t) == i[t] <= queriesPerThread

MayGoOn(t) == i[t] < queriesPerThread

\* What is drawn from dis(0, listSize - 1), which is inclusive.  With an empty
\* list the upper bound is -1 and the draw undefined: any index.
Draws == IF listSize = 0 THEN 0..(Modulus - 1) ELSE 0..(listSize - 1)

\* The query a thread sends next.
StatementsToSend(t) == IF shuffle THEN Draws ELSE {i[t]}

\* Failures are counted over the whole run and not in a row.
ConsecutiveNeverReset(t, ok) ==
  IF ok THEN consecutive[t] ELSE consecutive[t] + 1

Consecutive(t, ok) == IF ok THEN 0 ELSE consecutive[t] + 1

\* Database::performQuery.
PerformQuery(t, ok) ==
  /\ success' = [success EXCEPT ![t] = ok]
  /\ performed' = [performed EXCEPT ![t] = @ + 1]
  /\ failed' = [failed EXCEPT ![t] = IF ok THEN @ ELSE @ + 1]
  /\ consecutive' = [consecutive EXCEPT ![t] = Consecutive(t, ok)]
  /\ lastGood' = [lastGood EXCEPT ![t] = IF ok THEN performed[t] + 1 ELSE @]

\* The limit itself is still tolerated.
TooManyFailuresAbove(n) == n > MaxConFailures

TooManyFailures(n) == n >= MaxConFailures

\* Send one query; give up after too many failures in a row.
SendQuery(t) ==
  /\ Running(t)
  /\ pc[t] = "query"
  /\ MayGoOn(t)
  /\ \E number \in StatementsToSend(t), ok \in BOOLEAN :
       /\ queryNumber' = [queryNumber EXCEPT ![t] = number]
       /\ PerformQuery(t, ok)
       /\ IF TooManyFailures(Consecutive(t, ok))
          THEN /\ pc' = [pc EXCEPT ![t] = "accountPerformed"]
               /\ ending' = [ending EXCEPT ![t] = "aborted"]
          ELSE /\ pc' = [pc EXCEPT ![t] = "output"]
               /\ UNCHANGED ending
  /\ UNCHANGED <<paramVars, mainVars, totalVars, i, loggedFailures>>

\* Only failures that follow another one are logged.
LogRepeatedFailure(t) ==
  IF logFailed /\ consecutive[t] > 1 THEN loggedFailures[t] + 1
  ELSE loggedFailures[t]

LogFailure(t) == IF logFailed /\ ~success[t] THEN loggedFailures[t] + 1
                 ELSE loggedFailures[t]

NextIndex(n) == (n + 1) % Modulus

\* The thread's log, the query's result, and i++.
LogAndFetch(t) ==
  /\ Running(t)
  /\ pc[t] = "output"
  /\ pc' = [pc EXCEPT ![t] = "query"]
  /\ loggedFailures' = [loggedFailures EXCEPT ![t] = LogFailure(t)]
  /\ i' = [i EXCEPT ![t] = NextIndex(i[t])]
  /\ UNCHANGED <<paramVars, mainVars, totalVars, queryNumber, success,
                 databaseVars, ending, lastGood>>

\* The loop has run its course.
LoopEnds(t) ==
  /\ Running(t)
  /\ pc[t] = "query"
  /\ ~MayGoOn(t)
  /\ pc' = [pc EXCEPT ![t] = "accountPerformed"]
  /\ ending' = [ending EXCEPT ![t] = "clean"]
  /\ UNCHANGED <<paramVars, mainVars, totalVars, i, queryNumber, success,
                 databaseVars, loggedFailures, lastGood>>

\* An aborted thread skips calculateQueries.
AccountPerformedCleanOnly(t) ==
  /\ Running(t)
  /\ pc[t] = "accountPerformed"
  /\ performedTotal' = performedTotal +
                         (IF ending[t] = "clean" THEN performed[t] ELSE 0)
  /\ pc' = [pc EXCEPT ![t] = "accountFailed"]
  /\ UNCHANGED <<paramVars, mainVars, failedTotal, connectionsTotal,
                 threadFailed, i, queryNumber, success, databaseVars, ending,
                 loggedFailures, lastGood>>

\* calculateQueries: two atomic additions, one after the other.
AccountPerformed(t) ==
  /\ Running(t)
  /\ pc[t] = "accountPerformed"
  /\ performedTotal' = performedTotal + performed[t]
  /\ pc' = [pc EXCEPT ![t] = "accountFailed"]
  /\ UNCHANGED <<paramVars, mainVars, failedTotal, connectionsTotal,
                 threadFailed, i, queryNumber, success, databaseVars, ending,
                 loggedFailures, lastGood>>

AccountFailed(t) ==
  /\ Running(t)
  /\ pc[t] = "accountFailed"
  /\ failedTotal' = failedTotal + failed[t]
  /\ pc' = [pc EXCEPT ![t] = "done"]
  /\ UNCHANGED <<paramVars, mainVars, performedTotal, connectionsTotal,
                 threadFailed, i, queryNumber, success, databaseVars, ending,
                 loggedFailures, lastGood>>

\* The handler only prints.
ThrowsSilently(t) ==
  /\ LogFails
  /\ Running(t)
  /\ pc[t] \in {"begin", "output"}
  /\ Leave(t, "exception")
  /\ UNCHANGED <<paramVars, mainVars, totalVars, i, queryNumber, success,
                 databaseVars, loggedFailures, lastGood>>

\* An exception in workerThread: what the thread counted is lost.
ThreadThrows(t) ==
  /\ LogFails
  /\ Running(t)
  /\ \/ pc[t] \in {"begin", "output"}
     \/ pc[t] = "accountPerformed" /\ ending[t] = "aborted"
  /\ Leave(t, "exception")
  /\ threadFailed' = TRUE
  /\ UNCHANGED <<paramVars, mainVars, performedTotal, failedTotal,
                 connectionsTotal, i, queryNumber, success, databaseVars,
                 loggedFailures, lastGood>>

-----------------------------------------------------------------------------
ExecuteTests ==
  \/ TestConnection \/ LoadQueryList \/ AdjustRuntimeParams
  \/ SpawnThread \/ AllSpawned \/ SpawnThrows
  \/ JoinThread \/ AllJoined \/ Report \/ MainThrows

WorkerThread(t) ==
  \/ BeginThread(t) \/ SendQuery(t) \/ LogAndFetch(t) \/ LoopEnds(t)
  \/ AccountPerformed(t) \/ AccountFailed(t) \/ ThreadThrows(t)

Next == ExecuteTests \/ \E t \in Threads : WorkerThread(t)

Spec == Init /\ [][Next]_vars

\* Every thread is scheduled, and the server answers every query.
Fairness ==
  /\ WF_vars(ExecuteTests)
  /\ \A t \in Threads : WF_vars(WorkerThread(t))

FairSpec == Spec /\ Fairness

-----------------------------------------------------------------------------
(* Safety                                                                  *)

Accounted == {t \in Threads : pc[t] = "done" /\ ending[t] \in {"aborted", "clean"}}

\* When the summary is written, its three numbers are exactly what the
\* threads that did not die of an exception have done: none is missing and
\* none still counts.
ReportIsComplete ==
  main = "report" =>
    /\ performedTotal = SumFunctionOnSet(performed, Accounted)
    /\ failedTotal = SumFunctionOnSet(failed, Accounted)
    /\ connectionsTotal =
         Cardinality({t \in Threads : ending[t] = "unconnected"})
    /\ \A t \in Threads : pc[t] \in {"unborn", "done"}

\* The worker succeeds only after every thread has been joined and none of
\* them has died of an exception.
SuccessMeansNoException ==
  status = "exit0" =>
    /\ \A t \in Threads : t < threads => pc[t] = "done"
    /\ \A t \in Threads : ending[t] # "exception"

\* (*queryList)[query_number] is never out of bounds.
IndexInBounds ==
  \A t \in Threads :
    pc[t] \in {"output", "accountPerformed"} /\ performed[t] > 0 =>
      queryNumber[t] < listSize

\* No thread sends more queries than asked for, and one that leaves its loop
\* by the loop's own condition has sent exactly as many.
QuotaKept ==
  \A t \in Threads :
    /\ performed[t] <= queriesPerThread
    /\ ending[t] = "clean" => performed[t] = queriesPerThread

\* A replay sends each statement of the file once, in the order of the file.
ReplayInOrder ==
  ~shuffle /\ main \notin {"testConnection", "loadQueryList", "adjust"} =>
    /\ \A t \in Threads \ {0} : pc[t] = "unborn"
    /\ pc[0] = "output" => queryNumber[0] = performed[0] - 1
    /\ ending[0] = "clean" => performed[0] = listSize

\* A thread gives up at once when MaxConFailures queries in a row have
\* failed, and for no other reason: a success starts the count anew.
AbortAtTheLimit ==
  \A t \in Threads :
    LET failuresInARow == performed[t] - lastGood[t]
    IN  /\ ending[t] = "aborted" => failuresInARow = MaxConFailures
        /\ pc[t] \in {"query", "output"} => failuresInARow < MaxConFailures

\* With log-failed-queries, a thread that ends well has logged each of its
\* failures, and one that gave up each of them but the last.
FailuresLogged ==
  \A t \in Threads :
    logFailed =>
      /\ ending[t] = "clean" => loggedFailures[t] = failed[t]
      /\ ending[t] = "aborted" => loggedFailures[t] = failed[t] - 1

-----------------------------------------------------------------------------
(* Liveness                                                                *)

\* The worker ends: no thread loops for ever, none is joined in vain.
WorkerEnds == <>(status # "running")
=============================================================================
