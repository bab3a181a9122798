--------------------------- MODULE DbWorkerProofs ---------------------------
(***************************************************************************)
(* Theorems about DbWorker, for any number of threads, any lists and        *)
(* quotas, any limit on failures and any exceptions.                        *)
(***************************************************************************)
EXTENDS DbWorker, DataInduction

\* What a thread knows of its own failures, and that it goes on only below
\* the limit.
LimitOf(t) ==
  /\ consecutive[t] = performed[t] - lastGood[t]
  /\ pc[t] \in {"unborn", "begin", "query", "output"} =>
       ending[t] = "none" /\ consecutive[t] < MaxConFailures
  /\ pc[t] \in {"accountPerformed", "accountFailed"} =>
       ending[t] \in {"aborted", "clean"}
  /\ ending[t] = "aborted" => consecutive[t] = MaxConFailures

LimitInv == \A t \in Threads : LimitOf(t)

\* The threads that exist are those the main thread has constructed, and are
\* over where it has joined them.
MainInv ==
  /\ status = "running" <=> main # "returned"
  /\ main \in {"testConnection", "loadQueryList", "adjust"} =>
       next = 0 /\ \A t \in Threads : pc[t] = "unborn"
  /\ main = "spawn" =>
       /\ next <= threads
       /\ \A t \in Threads : pc[t] # "unborn" <=> t < next
  /\ main \in {"join", "report", "returned"} =>
       \A t \in Threads : pc[t] # "unborn" => t < threads
  /\ main = "join" =>
       /\ next <= threads
       /\ \A t \in Threads : t < next => pc[t] = "done"
  /\ main = "report" \/ status = "exit0" =>
       \A t \in Threads : t < threads => pc[t] = "done"
  /\ status = "exit0" => ~threadFailed
  /\ \A t \in Threads : ending[t] = "exception" => threadFailed

\* Once threads exist or are being made, a replay is one thread with the
\* size of the list for its quota.
ReplayInv ==
  /\ ~shuffle
  /\ \/ main \in {"spawn", "join", "report"}
     \/ \E t \in Threads : pc[t] # "unborn"
  => threads = 1 /\ queriesPerThread = listSize

\* A thread that sends queries has a list to take them from, and took them
\* from inside it.
IndexOf(t) ==
  /\ pc[t] \in {"query", "output"} => listSize > 0
  /\ pc[t] \in {"unborn", "begin"} => performed[t] = 0
  /\ performed[t] > 0 => queryNumber[t] < listSize

IndexInv == \A t \in Threads : IndexOf(t)

\* The log of failed queries is complete up to the query being worked on.
LogOf(t) ==
  /\ pc[t] \in {"unborn", "begin"} => failed[t] = 0 /\ loggedFailures[t] = 0
  /\ logFailed /\ (pc[t] = "query" \/ ending[t] = "clean") =>
       loggedFailures[t] = failed[t]
  /\ logFailed /\ pc[t] = "output" =>
       loggedFailures[t] = failed[t] - (IF success[t] THEN 0 ELSE 1)
  /\ logFailed /\ ending[t] = "aborted" => loggedFailures[t] = failed[t] - 1

LogInv == \A t \in Threads : LogOf(t)

\* No quota and no list is beyond the range of the loop counter.
SmallQuotas == QueryCounts \cup ListSizes \subseteq 0..(Modulus - 1)

QuotaTypeOK ==
  queriesPerThread \in 0..(Modulus - 1) /\ listSize \in 0..(Modulus - 1)

\* The loop counter is the number of queries sent.
QuotaOf(t) ==
  /\ pc[t] \in {"unborn", "begin"} => i[t] = 0 /\ performed[t] = 0
  /\ pc[t] = "query" => i[t] = performed[t]
  /\ pc[t] = "output" => /\ performed[t] = i[t] + 1
                         /\ ~shuffle => queryNumber[t] = i[t]
  /\ performed[t] <= queriesPerThread
  /\ ending[t] = "clean" => performed[t] = queriesPerThread

QuotaInv == QuotaTypeOK /\ \A t \in Threads : QuotaOf(t)

\* The threads whose performed queries are in the total, and those that
\* never got a connection.  (Accounted: those whose failed queries are too.)
Performers ==
  {t \in Threads :
     pc[t] \in {"accountFailed", "done"} /\ ending[t] \in {"aborted", "clean"}}

Unconnected == {t \in Threads : ending[t] = "unconnected"}

\* Each total is at all times the sum over the threads that have added their
\* part to it.
CountInv ==
  /\ performedTotal = SumFunctionOnSet(performed, Performers)
  /\ failedTotal = SumFunctionOnSet(failed, Accounted)
  /\ connectionsTotal = Cardinality(Unconnected)

USE SizeAssumption, FaultAssumption DEF Threads

-----------------------------------------------------------------------------
(* Arithmetic                                                              *)

\* The counter stays in its range, and wraps only at its end.
LEMMA NextIndexRange ==
  ASSUME NEW n \in 0..(Modulus - 1)
  PROVE  /\ NextIndex(n) \in 0..(Modulus - 1)
         /\ n + 1 < Modulus => NextIndex(n) = n + 1
  BY DEF NextIndex

\* The thread the loops of spawnWorkerThreads are at is one of Threads.
LEMMA NextIsThread ==
  ASSUME TypeOK, next < threads
  PROVE  next \in Threads /\ next + 1 \in 0..MaxThreads
  BY DEF TypeOK, ParamTypeOK, MainTypeOK

\* What one thread holds, by its type.
LEMMA Values ==
  ASSUME TypeOK, NEW t \in Threads
  PROVE  /\ queriesPerThread \in Nat /\ shuffle \in BOOLEAN
         /\ logFailed \in BOOLEAN /\ listSize \in Nat
         /\ pc[t] \in ThreadPoints /\ ending[t] \in EndKinds
         /\ i[t] \in 0..(Modulus - 1) /\ queryNumber[t] \in Nat
         /\ success[t] \in BOOLEAN
         /\ performed[t] \in Nat /\ failed[t] \in Nat
         /\ consecutive[t] \in 0..MaxConFailures
         /\ loggedFailures[t] \in Nat /\ lastGood[t] \in Nat
  BY DEF TypeOK, ParamTypeOK, ThreadTypeOK

-----------------------------------------------------------------------------
(* What a step of a thread does                                            *)

\* Thread u keeps its locals, and its history.
Kept(u) ==
  /\ pc'[u] = pc[u]
  /\ i'[u] = i[u]
  /\ queryNumber'[u] = queryNumber[u]
  /\ success'[u] = success[u]
  /\ performed'[u] = performed[u]
  /\ failed'[u] = failed[u]
  /\ consecutive'[u] = consecutive[u]
  /\ ending'[u] = ending[u]
  /\ loggedFailures'[u] = loggedFailures[u]
  /\ lastGood'[u] = lastGood[u]

\* A thread writes none of the locals of another.
LEMMA OthersKeep ==
  ASSUME TypeOK, NEW t \in Threads, WorkerThread(t), NEW u \in Threads, u # t
  PROVE  Kept(u)
<1> USE DEF TypeOK, ThreadTypeOK, Kept, databaseVars, threadVars
<1>1. CASE BeginThread(t)
  BY <1>1 DEF BeginThread, Leave
<1>2. CASE SendQuery(t)
  <2>1. PICK number \in StatementsToSend(t), ok \in BOOLEAN :
            /\ queryNumber' = [queryNumber EXCEPT ![t] = number]
            /\ PerformQuery(t, ok)
            /\ IF TooManyFailures(Consecutive(t, ok))
               THEN /\ pc' = [pc EXCEPT ![t] = "accountPerformed"]
                    /\ ending' = [ending EXCEPT ![t] = "aborted"]
               ELSE /\ pc' = [pc EXCEPT ![t] = "output"]
                    /\ UNCHANGED ending
    BY <1>2 DEF SendQuery
  <2>2. UNCHANGED <<i, loggedFailures>>
    BY <1>2 DEF SendQuery
  <2>3. pc'[u] = pc[u] /\ ending'[u] = ending[u]
    BY <2>1
  <2> QED
    BY <2>1, <2>2, <2>3 DEF PerformQuery
<1>3. CASE LogAndFetch(t)
  BY <1>3 DEF LogAndFetch
<1>4. CASE LoopEnds(t)
  BY <1>4 DEF LoopEnds
<1>5. CASE AccountPerformed(t)
  BY <1>5 DEF AccountPerformed
<1>6. CASE AccountFailed(t)
  BY <1>6 DEF AccountFailed
<1>7. CASE ThreadThrows(t)
  BY <1>7 DEF ThreadThrows, Leave
<1> QED
  BY <1>1, <1>2, <1>3, <1>4, <1>5, <1>6, <1>7 DEF WorkerThread

\* The thread connects, or is over.
LEMMA BeginThreadEffect ==
  ASSUME TypeOK, NEW t \in Threads, BeginThread(t)
  PROVE  /\ pc[t] = "begin"
         /\ \/ pc'[t] = "query" /\ ending'[t] = ending[t] /\ listSize > 0
            \/ pc'[t] = "done" /\ ending'[t] \in {"empty", "unconnected"}
         /\ i'[t] = i[t] /\ queryNumber'[t] = queryNumber[t]
         /\ success'[t] = success[t] /\ performed'[t] = performed[t]
         /\ failed'[t] = failed[t] /\ consecutive'[t] = consecutive[t]
         /\ loggedFailures'[t] = loggedFailures[t] /\ lastGood'[t] = lastGood[t]
  BY
  DEF BeginThread, TypeOK, ThreadTypeOK, databaseVars, ParamTypeOK, Leave,
     HasQueries

\* One more query, from inside the list, counted as what it was.
LEMMA SendQueryEffect ==
  ASSUME TypeOK, NEW t \in Threads, SendQuery(t)
  PROVE  /\ pc[t] = "query" /\ i[t] < queriesPerThread
         /\ queryNumber'[t] \in Nat
         /\ ~shuffle => queryNumber'[t] = i[t]
         /\ shuffle /\ listSize > 0 => queryNumber'[t] < listSize
         /\ success'[t] \in BOOLEAN
         /\ performed'[t] = performed[t] + 1
         /\ failed'[t] = IF success'[t] THEN failed[t] ELSE failed[t] + 1
         /\ lastGood'[t] = IF success'[t] THEN performed[t] + 1 ELSE lastGood[t]
         /\ consecutive'[t] = IF success'[t] THEN 0 ELSE consecutive[t] + 1
         /\ \/ /\ consecutive'[t] >= MaxConFailures
               /\ pc'[t] = "accountPerformed" /\ ending'[t] = "aborted"
            \/ /\ consecutive'[t] < MaxConFailures
               /\ pc'[t] = "output" /\ ending'[t] = ending[t]
         /\ i'[t] = i[t] /\ loggedFailures'[t] = loggedFailures[t]
<1>1. PICK number \in StatementsToSend(t), ok \in BOOLEAN :
          /\ queryNumber' = [queryNumber EXCEPT ![t] = number]
          /\ PerformQuery(t, ok)
          /\ IF TooManyFailures(Consecutive(t, ok))
             THEN /\ pc' = [pc EXCEPT ![t] = "accountPerformed"]
                  /\ ending' = [ending EXCEPT ![t] = "aborted"]
             ELSE /\ pc' = [pc EXCEPT ![t] = "output"]
                  /\ UNCHANGED ending
  BY DEF SendQuery
<1>2. /\ pc[t] = "query" /\ i[t] < queriesPerThread
      /\ i'[t] = i[t] /\ loggedFailures'[t] = loggedFailures[t]
  BY DEF SendQuery, MayGoOn
<1>3. /\ number \in Nat
      /\ ~shuffle => number = i[t]
      /\ shuffle /\ listSize > 0 => number < listSize
  BY <1>1, Values DEF StatementsToSend, Draws
<1>4. queryNumber'[t] = number
  BY <1>1 DEF TypeOK, ThreadTypeOK
<1>5. /\ success'[t] = ok
      /\ performed'[t] = performed[t] + 1
      /\ failed'[t] = IF ok THEN failed[t] ELSE failed[t] + 1
      /\ lastGood'[t] = IF ok THEN performed[t] + 1 ELSE lastGood[t]
      /\ consecutive'[t] = Consecutive(t, ok)
  BY <1>1 DEF PerformQuery, TypeOK, ThreadTypeOK
<1>6. Consecutive(t, ok) \in Nat
  BY Values DEF Consecutive
<1>7. \/ /\ Consecutive(t, ok) >= MaxConFailures
         /\ pc'[t] = "accountPerformed" /\ ending'[t] = "aborted"
      \/ /\ Consecutive(t, ok) < MaxConFailures
         /\ pc'[t] = "output" /\ ending'[t] = ending[t]
  <2>1. CASE TooManyFailures(Consecutive(t, ok))
    BY <1>1, <1>6, <2>1 DEF TooManyFailures, TypeOK, ThreadTypeOK
  <2>2. CASE ~TooManyFailures(Consecutive(t, ok))
    <3>1. Consecutive(t, ok) < MaxConFailures
      BY <1>6, <2>2 DEF TooManyFailures
    <3> QED
      BY <1>1, <2>2, <3>1 DEF TypeOK, ThreadTypeOK
  <2> QED
    BY <2>1, <2>2
<1>8. consecutive'[t] = IF ok THEN 0 ELSE consecutive[t] + 1
  BY <1>5 DEF Consecutive
<1> QED
  BY <1>2, <1>3, <1>4, <1>5, <1>7, <1>8

\* A failure is logged, and the counter goes up.
LEMMA LogAndFetchEffect ==
  ASSUME TypeOK, NEW t \in Threads, LogAndFetch(t)
  PROVE  /\ pc[t] = "output"
         /\ pc'[t] = "query"
         /\ i'[t] = NextIndex(i[t])
         /\ loggedFailures'[t] = LogFailure(t)
         /\ queryNumber'[t] = queryNumber[t] /\ success'[t] = success[t]
         /\ performed'[t] = performed[t] /\ failed'[t] = failed[t]
         /\ consecutive'[t] = consecutive[t] /\ ending'[t] = ending[t]
         /\ lastGood'[t] = lastGood[t]
  BY DEF LogAndFetch, TypeOK, ThreadTypeOK, databaseVars

\* The thread leaves its loop when the counter has reached the quota.
LEMMA LoopEndsEffect ==
  ASSUME TypeOK, NEW t \in Threads, LoopEnds(t)
  PROVE  /\ pc[t] = "query"
         /\ pc'[t] = "accountPerformed" /\ ending'[t] = "clean"
         /\ queriesPerThread <= i[t]
         /\ i'[t] = i[t] /\ queryNumber'[t] = queryNumber[t]
         /\ success'[t] = success[t] /\ performed'[t] = performed[t]
         /\ failed'[t] = failed[t] /\ consecutive'[t] = consecutive[t]
         /\ loggedFailures'[t] = loggedFailures[t] /\ lastGood'[t] = lastGood[t]
<1>1. queriesPerThread <= i[t]
  BY Values DEF LoopEnds, MayGoOn
<1> QED
  BY <1>1 DEF LoopEnds, TypeOK, ThreadTypeOK, databaseVars

\* The first total is written.
LEMMA AccountPerformedEffect ==
  ASSUME TypeOK, NEW t \in Threads, AccountPerformed(t)
  PROVE  /\ pc[t] = "accountPerformed"
         /\ pc'[t] = "accountFailed"
         /\ i'[t] = i[t] /\ queryNumber'[t] = queryNumber[t]
         /\ success'[t] = success[t] /\ performed'[t] = performed[t]
         /\ failed'[t] = failed[t] /\ consecutive'[t] = consecutive[t]
         /\ ending'[t] = ending[t] /\ loggedFailures'[t] = loggedFailures[t]
         /\ lastGood'[t] = lastGood[t]
  BY DEF AccountPerformed, TypeOK, ThreadTypeOK, databaseVars

\* The second total is written, and the thread is over.
LEMMA AccountFailedEffect ==
  ASSUME TypeOK, NEW t \in Threads, AccountFailed(t)
  PROVE  /\ pc[t] = "accountFailed"
         /\ pc'[t] = "done"
         /\ i'[t] = i[t] /\ queryNumber'[t] = queryNumber[t]
         /\ success'[t] = success[t] /\ performed'[t] = performed[t]
         /\ failed'[t] = failed[t] /\ consecutive'[t] = consecutive[t]
         /\ ending'[t] = ending[t] /\ loggedFailures'[t] = loggedFailures[t]
         /\ lastGood'[t] = lastGood[t]
  BY DEF AccountFailed, TypeOK, ThreadTypeOK, databaseVars

\* The thread is over.
LEMMA ThreadThrowsEffect ==
  ASSUME TypeOK, NEW t \in Threads, ThreadThrows(t)
  PROVE  /\ pc[t] \notin {"unborn", "done"}
         /\ pc'[t] = "done" /\ ending'[t] = "exception"
         /\ i'[t] = i[t] /\ queryNumber'[t] = queryNumber[t]
         /\ success'[t] = success[t] /\ performed'[t] = performed[t]
         /\ failed'[t] = failed[t] /\ consecutive'[t] = consecutive[t]
         /\ loggedFailures'[t] = loggedFailures[t] /\ lastGood'[t] = lastGood[t]
  BY DEF ThreadThrows, TypeOK, ThreadTypeOK, databaseVars, Running, Leave

-----------------------------------------------------------------------------
(* What a step leaves alone                                                *)

\* A thread changes no parameter, and nothing of the main thread.
LEMMA ThreadFrame ==
  ASSUME NEW t \in Threads, WorkerThread(t)
  PROVE  UNCHANGED paramVars /\ UNCHANGED mainVars
BY DEF WorkerThread, BeginThread, SendQuery, LogAndFetch, LoopEnds,
       AccountPerformed, AccountFailed, ThreadThrows

\* The main thread touches a thread only to start it, and the parameters only
\* to adjust them.
LEMMA MainFrame ==
  ASSUME ExecuteTests
  PROVE  /\ UNCHANGED <<shuffle, logFailed, listSize>>
         /\ UNCHANGED totalVars
         /\ SpawnThread \/ UNCHANGED threadVars
         /\ AdjustRuntimeParams \/ UNCHANGED paramVars
BY DEF ExecuteTests, TestConnection, LoadQueryList, AdjustRuntimeParams,
       SpawnThread, AllSpawned, SpawnThrows, JoinThread, AllJoined, Report,
       MainThrows, paramVars

\* The thread that is started had not been before.
LEMMA SpawnEffect ==
  ASSUME TypeOK, MainInv, SpawnThread, NEW u \in Threads
  PROVE  /\ UNCHANGED paramVars
         /\ pc'[u] = IF u = next THEN "begin" ELSE pc[u]
         /\ u = next => pc[u] = "unborn"
         /\ i'[u] = i[u] /\ queryNumber'[u] = queryNumber[u]
         /\ success'[u] = success[u] /\ performed'[u] = performed[u]
         /\ failed'[u] = failed[u] /\ consecutive'[u] = consecutive[u]
         /\ ending'[u] = ending[u] /\ loggedFailures'[u] = loggedFailures[u]
         /\ lastGood'[u] = lastGood[u]
<1>1. u = next => pc[u] = "unborn"
  BY DEF SpawnThread, MainInv, TypeOK, MainTypeOK
<1>2. pc'[u] = IF u = next THEN "begin" ELSE pc[u]
  BY DEF SpawnThread, TypeOK, ThreadTypeOK
<1> QED
  BY <1>1, <1>2 DEF SpawnThread, databaseVars

-----------------------------------------------------------------------------
(* Each step preserves each part of the invariant                          *)

\* A thread counts its failures in a row.
LEMMA StepLimit ==
  ASSUME TypeOK, LimitInv, MainInv, [Next]_vars
  PROVE  LimitInv'
<1> SUFFICES ASSUME NEW u \in Threads PROVE LimitOf(u)'
  BY DEF LimitInv
<1>i. LimitOf(u)
  BY DEF LimitInv
<1>1. ASSUME NEW t \in Threads, WorkerThread(t)
      PROVE  LimitOf(u)'
  <2>f. UNCHANGED paramVars
    BY <1>1, ThreadFrame
  <2>1. CASE u # t
    BY <1>i, <1>1, <2>f, <2>1, OthersKeep DEF Kept, LimitOf, paramVars
  <2>2. CASE u = t
    <3>1. CASE BeginThread(u)
      BY <1>i, <2>f, <3>1, BeginThreadEffect, Values DEF LimitOf, paramVars
    <3>2. CASE SendQuery(u)
      BY <1>i, <2>f, <3>2, SendQueryEffect, Values DEF LimitOf, paramVars
    <3>3. CASE LogAndFetch(u)
      BY <1>i, <2>f, <3>3, LogAndFetchEffect, Values DEF LimitOf, paramVars
    <3>4. CASE LoopEnds(u)
      BY <1>i, <2>f, <3>4, LoopEndsEffect, Values DEF LimitOf, paramVars
    <3>5. CASE AccountPerformed(u)
      BY <1>i, <2>f, <3>5, AccountPerformedEffect, Values
      DEF LimitOf, paramVars
    <3>6. CASE AccountFailed(u)
      BY <1>i, <2>f, <3>6, AccountFailedEffect, Values DEF LimitOf, paramVars
    <3>7. CASE ThreadThrows(u)
      BY <1>i, <2>f, <3>7, ThreadThrowsEffect, Values DEF LimitOf, paramVars
    <3> QED
      BY <1>1, <2>2, <3>1, <3>2, <3>3, <3>4, <3>5, <3>6, <3>7 DEF WorkerThread
  <2> QED
    BY <2>1, <2>2
<1>2. CASE ExecuteTests
  <2>1. CASE SpawnThread
    BY <1>i, <1>2, <2>1, SpawnEffect, MainFrame, Values
    DEF LimitOf, Kept, SpawnThread, paramVars
  <2>2. CASE UNCHANGED threadVars
    BY <1>i, <1>2, <2>2, MainFrame DEF LimitOf, threadVars, databaseVars
  <2> QED
    BY <1>2, <2>1, <2>2, MainFrame
<1>3. CASE UNCHANGED vars
  BY <1>i, <1>3 DEF LimitOf, vars, paramVars, threadVars, databaseVars
<1> QED
  BY <1>1, <1>2, <1>3 DEF Next

\* The index stays inside the list.
LEMMA StepIndex ==
  ASSUME TypeOK, ReplayInv, IndexInv, MainInv, [Next]_vars
  PROVE  IndexInv'
<1> SUFFICES ASSUME NEW u \in Threads PROVE IndexOf(u)'
  BY DEF IndexInv
<1>i. IndexOf(u)
  BY DEF IndexInv
<1>1. ASSUME NEW t \in Threads, WorkerThread(t)
      PROVE  IndexOf(u)'
  <2>f. UNCHANGED paramVars
    BY <1>1, ThreadFrame
  <2>1. CASE u # t
    BY <1>i, <1>1, <2>f, <2>1, OthersKeep DEF Kept, IndexOf, paramVars
  <2>2. CASE u = t
    <3>1. CASE BeginThread(u)
      BY <1>i, <2>f, <3>1, BeginThreadEffect, Values DEF IndexOf, paramVars
    <3>2. CASE SendQuery(u)
      <4>1. ~shuffle => i[u] < listSize
        BY <3>2, SendQueryEffect, Values DEF ReplayInv
      <4>2. queryNumber'[u] < listSize
        BY <1>i, <3>2, <4>1, SendQueryEffect, Values DEF IndexOf
      <4> QED
        BY <1>i, <2>f, <3>2, <4>1, <4>2, SendQueryEffect, Values
        DEF IndexOf, paramVars
    <3>3. CASE LogAndFetch(u)
      BY <1>i, <2>f, <3>3, LogAndFetchEffect, Values DEF IndexOf, paramVars
    <3>4. CASE LoopEnds(u)
      BY <1>i, <2>f, <3>4, LoopEndsEffect, Values DEF IndexOf, paramVars
    <3>5. CASE AccountPerformed(u)
      BY <1>i, <2>f, <3>5, AccountPerformedEffect, Values
      DEF IndexOf, paramVars
    <3>6. CASE AccountFailed(u)
      BY <1>i, <2>f, <3>6, AccountFailedEffect, Values DEF IndexOf, paramVars
    <3>7. CASE ThreadThrows(u)
      BY <1>i, <2>f, <3>7, ThreadThrowsEffect, Values DEF IndexOf, paramVars
    <3> QED
      BY <1>1, <2>2, <3>1, <3>2, <3>3, <3>4, <3>5, <3>6, <3>7 DEF WorkerThread
  <2> QED
    BY <2>1, <2>2
<1>2. CASE ExecuteTests
  <2>1. CASE SpawnThread
    BY <1>i, <1>2, <2>1, SpawnEffect, MainFrame, Values
    DEF IndexOf, Kept, SpawnThread, paramVars
  <2>2. CASE UNCHANGED threadVars
    BY <1>i, <1>2, <2>2, MainFrame DEF IndexOf, threadVars, databaseVars
  <2> QED
    BY <1>2, <2>1, <2>2, MainFrame
<1>3. CASE UNCHANGED vars
  BY <1>i, <1>3 DEF IndexOf, vars, paramVars, threadVars, databaseVars
<1> QED
  BY <1>1, <1>2, <1>3 DEF Next

\* The log keeps up with the failures.
LEMMA StepLog ==
  ASSUME TypeOK, LimitInv, MainInv, LogInv, [Next]_vars
  PROVE  LogInv'
<1> SUFFICES ASSUME NEW u \in Threads PROVE LogOf(u)'
  BY DEF LogInv
<1>i. LogOf(u)
  BY DEF LogInv
<1>1. ASSUME NEW t \in Threads, WorkerThread(t)
      PROVE  LogOf(u)'
  <2>f. UNCHANGED paramVars
    BY <1>1, ThreadFrame
  <2>1. CASE u # t
    BY <1>i, <1>1, <2>f, <2>1, OthersKeep DEF Kept, LogOf, paramVars
  <2>2. CASE u = t
    <3>1. CASE BeginThread(u)
      BY <1>i, <2>f, <3>1, BeginThreadEffect, Values DEF LogOf, paramVars
    <3>2. CASE SendQuery(u)
      <4>1. ending[u] = "none" /\ (ending'[u] = "aborted" => ~success'[u])
        BY <3>2, SendQueryEffect DEF LimitInv, LimitOf
      <4> QED
        BY <1>i, <2>f, <3>2, <4>1, SendQueryEffect, Values
        DEF LogOf, paramVars
    <3>3. CASE LogAndFetch(u)
      <4>1. ending[u] = "none"
        BY <3>3, LogAndFetchEffect DEF LimitInv, LimitOf
      <4>2. logFailed => loggedFailures'[u] = failed[u]
        BY <1>i, <3>3, LogAndFetchEffect, Values DEF LogOf, LogFailure
      <4> QED
        BY <1>i, <2>f, <3>3, <4>1, <4>2, LogAndFetchEffect, Values
        DEF LogOf, paramVars
    <3>4. CASE LoopEnds(u)
      BY <1>i, <2>f, <3>4, LoopEndsEffect, Values
      DEF LogOf, paramVars, LimitInv, LimitOf
    <3>5. CASE AccountPerformed(u)
      BY <1>i, <2>f, <3>5, AccountPerformedEffect, Values DEF LogOf, paramVars
    <3>6. CASE AccountFailed(u)
      BY <1>i, <2>f, <3>6, AccountFailedEffect, Values DEF LogOf, paramVars
    <3>7. CASE ThreadThrows(u)
      BY <1>i, <2>f, <3>7, ThreadThrowsEffect, Values DEF LogOf, paramVars
    <3> QED
      BY <1>1, <2>2, <3>1, <3>2, <3>3, <3>4, <3>5, <3>6, <3>7 DEF WorkerThread
  <2> QED
    BY <2>1, <2>2
<1>2. CASE ExecuteTests
  <2>1. CASE SpawnThread
    BY <1>i, <1>2, <2>1, SpawnEffect, MainFrame, Values
    DEF LogOf, Kept, SpawnThread, paramVars
  <2>2. CASE UNCHANGED threadVars
    BY <1>i, <1>2, <2>2, MainFrame DEF LogOf, threadVars, databaseVars
  <2> QED
    BY <1>2, <2>1, <2>2, MainFrame
<1>3. CASE UNCHANGED vars
  BY <1>i, <1>3 DEF LogOf, vars, paramVars, threadVars, databaseVars
<1> QED
  BY <1>1, <1>2, <1>3 DEF Next

\* While no limit exceeds the counter, it counts the queries.
LEMMA StepQuota ==
  ASSUME TypeOK, LimitInv, MainInv, QuotaInv, [Next]_vars
  PROVE  QuotaInv'
<1>t. QuotaTypeOK'
  <2>1. CASE AdjustRuntimeParams
    BY <2>1 DEF AdjustRuntimeParams, QuotaInv, QuotaTypeOK
  <2>2. CASE UNCHANGED paramVars
    BY <2>2 DEF paramVars, QuotaInv, QuotaTypeOK
  <2> QED
    BY <2>1, <2>2, ThreadFrame, MainFrame DEF Next, vars
<1> SUFFICES ASSUME NEW u \in Threads PROVE QuotaOf(u)'
  BY <1>t DEF QuotaInv
<1>i. QuotaOf(u)
  BY DEF QuotaInv
<1>1. ASSUME NEW t \in Threads, WorkerThread(t)
      PROVE  QuotaOf(u)'
  <2>f. UNCHANGED paramVars
    BY <1>1, ThreadFrame
  <2>1. CASE u # t
    BY <1>i, <1>1, <2>f, <2>1, OthersKeep DEF Kept, QuotaOf, paramVars
  <2>2. CASE u = t
    <3>1. CASE BeginThread(u)
      BY <1>i, <2>f, <3>1, BeginThreadEffect, Values DEF QuotaOf, paramVars
    <3>2. CASE SendQuery(u)
      BY <1>i, <2>f, <3>2, SendQueryEffect, Values DEF QuotaOf, paramVars
    <3>3. CASE LogAndFetch(u)
      <4>1. NextIndex(i[u]) = i[u] + 1
        BY <1>i, <3>3, LogAndFetchEffect, NextIndexRange, Values
        DEF QuotaInv, QuotaTypeOK, QuotaOf
      <4> QED
        BY <1>i, <2>f, <3>3, <4>1, LogAndFetchEffect, Values
        DEF QuotaOf, paramVars
    <3>4. CASE LoopEnds(u)
      BY <1>i, <2>f, <3>4, LoopEndsEffect, Values DEF QuotaOf, paramVars
    <3>5. CASE AccountPerformed(u)
      BY <1>i, <2>f, <3>5, AccountPerformedEffect, Values
      DEF QuotaOf, paramVars
    <3>6. CASE AccountFailed(u)
      BY <1>i, <2>f, <3>6, AccountFailedEffect, Values DEF QuotaOf, paramVars
    <3>7. CASE ThreadThrows(u)
      BY <1>i, <2>f, <3>7, ThreadThrowsEffect, Values DEF QuotaOf, paramVars
    <3> QED
      BY <1>1, <2>2, <3>1, <3>2, <3>3, <3>4, <3>5, <3>6, <3>7 DEF WorkerThread
  <2> QED
    BY <2>1, <2>2
<1>2. CASE ExecuteTests
  <2>1. CASE SpawnThread
    BY <1>i, <1>2, <2>1, SpawnEffect, MainFrame, Values
    DEF QuotaOf, Kept, SpawnThread, paramVars
  <2>2. CASE UNCHANGED threadVars
    <3>1. CASE AdjustRuntimeParams
      <4>1. pc[u] = "unborn" /\ ending[u] = "none"
        BY <3>1 DEF AdjustRuntimeParams, MainInv, LimitInv, LimitOf
      <4>2. pc'[u] = "unborn" /\ ending'[u] = "none"
        BY <2>2, <4>1 DEF threadVars
      <4>3. i'[u] = 0 /\ performed'[u] = 0
        BY <1>i, <2>2, <4>1 DEF QuotaOf, threadVars, databaseVars
      <4> QED
        BY <1>t, <4>2, <4>3 DEF QuotaOf, QuotaTypeOK
    <3>2. CASE UNCHANGED paramVars
      BY <1>i, <2>2, <3>2 DEF QuotaOf, paramVars, threadVars, databaseVars
    <3> QED
      BY <1>2, <3>1, <3>2, MainFrame
  <2> QED
    BY <1>2, <2>1, <2>2, MainFrame
<1>3. CASE UNCHANGED vars
  BY <1>i, <1>3 DEF QuotaOf, vars, paramVars, threadVars, databaseVars
<1> QED
  BY <1>1, <1>2, <1>3 DEF Next

\* Every variable keeps its type.
LEMMA StepType ==
  ASSUME TypeOK, LimitInv, MainInv, [Next]_vars
  PROVE  TypeOK'
<1> USE DEF paramVars, mainVars, totalVars, databaseVars, threadVars
<1>1. ParamTypeOK'
  <2>1. CASE AdjustRuntimeParams
    <3>1. listSize \in Nat
      BY DEF TypeOK, ParamTypeOK
    <3> QED
      BY <2>1, <3>1 DEF AdjustRuntimeParams, TypeOK, ParamTypeOK
  <2>2. CASE UNCHANGED paramVars
    BY <2>2 DEF TypeOK, ParamTypeOK
  <2> QED
    BY <2>1, <2>2, ThreadFrame, MainFrame DEF Next, vars
<1>2. MainTypeOK'
  <2> USE DEF TypeOK, MainTypeOK, MainPoints
  <2>1. CASE TestConnection
    BY <2>1 DEF TestConnection, Exit
  <2>2. CASE LoadQueryList
    BY <2>2 DEF LoadQueryList, Exit
  <2>3. CASE AdjustRuntimeParams
    BY <2>3 DEF AdjustRuntimeParams
  <2>4. CASE SpawnThread
    BY <2>4, NextIsThread DEF SpawnThread
  <2>5. CASE AllSpawned
    BY <2>5 DEF AllSpawned
  <2>6. CASE SpawnThrows
    BY <2>6 DEF SpawnThrows, Exit
  <2>7. CASE JoinThread
    BY <2>7, NextIsThread DEF JoinThread
  <2>8. CASE AllJoined
    BY <2>8 DEF AllJoined
  <2>9. CASE Report
    BY <2>9 DEF Report, Exit
  <2>10. CASE MainThrows
    BY <2>10 DEF MainThrows, Exit
  <2>11. CASE UNCHANGED mainVars
    BY <2>11
  <2> QED
    BY <2>1, <2>2, <2>3, <2>4, <2>5, <2>6, <2>7, <2>8, <2>9, <2>10, <2>11,
       ThreadFrame
    DEF Next, ExecuteTests, vars
<1>3. TotalTypeOK'
  <2>1. ASSUME NEW t \in Threads, BeginThread(t) PROVE TotalTypeOK'
    BY <2>1 DEF BeginThread, Leave, TypeOK, TotalTypeOK
  <2>2. ASSUME NEW t \in Threads, AccountPerformed(t) PROVE TotalTypeOK'
    BY <2>2, Values DEF AccountPerformed, TypeOK, TotalTypeOK
  <2>3. ASSUME NEW t \in Threads, AccountFailed(t) PROVE TotalTypeOK'
    BY <2>3, Values DEF AccountFailed, TypeOK, TotalTypeOK
  <2>4. ASSUME NEW t \in Threads, ThreadThrows(t) PROVE TotalTypeOK'
    BY <2>4 DEF ThreadThrows, TypeOK, TotalTypeOK
  <2>5. CASE UNCHANGED totalVars
    BY <2>5 DEF TypeOK, TotalTypeOK
  <2>6. ASSUME NEW t \in Threads, SendQuery(t) \/ LogAndFetch(t) \/ LoopEnds(t)
        PROVE  UNCHANGED totalVars
    BY <2>6 DEF SendQuery, LogAndFetch, LoopEnds
  <2> QED
    BY <2>1, <2>2, <2>3, <2>4, <2>5, <2>6, MainFrame
    DEF Next, WorkerThread, vars
<1>4. ThreadTypeOK'
  <2> USE DEF ThreadPoints, EndKinds
  <2>1. ASSUME NEW t \in Threads, BeginThread(t) PROVE ThreadTypeOK'
    BY <2>1 DEF BeginThread, Leave, TypeOK, ThreadTypeOK
  <2>2. ASSUME NEW t \in Threads, SendQuery(t) PROVE ThreadTypeOK'
    <3>1. PICK number \in StatementsToSend(t), ok \in BOOLEAN :
            /\ queryNumber' = [queryNumber EXCEPT ![t] = number]
            /\ PerformQuery(t, ok)
            /\ IF TooManyFailures(Consecutive(t, ok))
               THEN /\ pc' = [pc EXCEPT ![t] = "accountPerformed"]
                    /\ ending' = [ending EXCEPT ![t] = "aborted"]
               ELSE /\ pc' = [pc EXCEPT ![t] = "output"]
                    /\ UNCHANGED ending
      BY <2>2 DEF SendQuery
    <3>2. UNCHANGED <<i, loggedFailures>>
      BY <2>2 DEF SendQuery
    <3>3. number \in Nat
      BY Values DEF StatementsToSend, Draws
    <3>4. Consecutive(t, ok) \in 0..MaxConFailures
      BY <2>2, SendQueryEffect, Values DEF Consecutive, LimitInv, LimitOf
    <3>5. /\ pc' \in [Threads -> ThreadPoints]
          /\ ending' \in [Threads -> EndKinds]
      BY <3>1 DEF TypeOK, ThreadTypeOK
    <3>6. success' \in [Threads -> BOOLEAN]
      BY <3>1 DEF PerformQuery, TypeOK, ThreadTypeOK
    <3>7. performed' \in [Threads -> Nat]
      <4>1. performed[t] + 1 \in Nat
        BY Values
      <4>2. performed' = [performed EXCEPT ![t] = performed[t] + 1]
        BY <3>1 DEF PerformQuery
      <4> QED
        BY <4>1, <4>2 DEF TypeOK, ThreadTypeOK
    <3>8. failed' \in [Threads -> Nat]
      <4>1. (IF ok THEN failed[t] ELSE failed[t] + 1) \in Nat
        BY Values
      <4>2. failed' = [failed EXCEPT ![t] = IF ok THEN failed[t] ELSE failed[t] + 1]
        BY <3>1 DEF PerformQuery
      <4> QED
        BY <4>1, <4>2 DEF TypeOK, ThreadTypeOK
    <3>9. lastGood' \in [Threads -> Nat]
      <4>1. (IF ok THEN performed[t] + 1 ELSE lastGood[t]) \in Nat
        BY Values
      <4>2. lastGood' = [lastGood EXCEPT ![t] =
                           IF ok THEN performed[t] + 1 ELSE lastGood[t]]
        BY <3>1 DEF PerformQuery
      <4> QED
        BY <4>1, <4>2 DEF TypeOK, ThreadTypeOK
    <3>10. consecutive' \in [Threads -> 0..MaxConFailures]
      BY <3>1, <3>4 DEF PerformQuery, TypeOK, ThreadTypeOK
    <3>11. queryNumber' \in [Threads -> Nat]
      BY <3>1, <3>3 DEF TypeOK, ThreadTypeOK
    <3> QED
      BY <3>2, <3>5, <3>6, <3>7, <3>8, <3>9, <3>10,
         <3>11 DEF TypeOK, ThreadTypeOK
  <2>3. ASSUME NEW t \in Threads, LogAndFetch(t) PROVE ThreadTypeOK'
    <3>1. NextIndex(i[t]) \in 0..(Modulus - 1) /\ LogFailure(t) \in Nat
      BY NextIndexRange, Values DEF LogFailure
    <3> QED
      BY <2>3, <3>1 DEF LogAndFetch, TypeOK, ThreadTypeOK
  <2>4. ASSUME NEW t \in Threads, LoopEnds(t) PROVE ThreadTypeOK'
    BY <2>4 DEF LoopEnds, TypeOK, ThreadTypeOK
  <2>5. ASSUME NEW t \in Threads, AccountPerformed(t) PROVE ThreadTypeOK'
    BY <2>5 DEF AccountPerformed, TypeOK, ThreadTypeOK
  <2>6. ASSUME NEW t \in Threads, AccountFailed(t) PROVE ThreadTypeOK'
    BY <2>6 DEF AccountFailed, TypeOK, ThreadTypeOK
  <2>7. ASSUME NEW t \in Threads, ThreadThrows(t) PROVE ThreadTypeOK'
    BY <2>7 DEF ThreadThrows, Leave, TypeOK, ThreadTypeOK
  <2>8. CASE SpawnThread
    BY <2>8 DEF SpawnThread, TypeOK, ThreadTypeOK
  <2>9. CASE UNCHANGED threadVars
    BY <2>9 DEF TypeOK, ThreadTypeOK
  <2> QED
    BY <2>1, <2>2, <2>3, <2>4, <2>5, <2>6, <2>7, <2>8, <2>9, MainFrame
    DEF Next, WorkerThread, vars
<1> QED
  BY <1>1, <1>2, <1>3, <1>4 DEF TypeOK

\* Threads exist only where the main thread has started them, and are over
\* once it has joined them.
LEMMA StepMain ==
  ASSUME TypeOK, LimitInv, MainInv, [Next]_vars
  PROVE  MainInv'
<1>1. ASSUME NEW t \in Threads, WorkerThread(t)
      PROVE  MainInv'
  <2>1. /\ UNCHANGED paramVars /\ UNCHANGED mainVars
        /\ status = "running"
        /\ pc[t] \notin {"unborn", "done"} /\ pc'[t] # "unborn"
    BY <1>1, ThreadFrame, BeginThreadEffect, SendQueryEffect,
       LogAndFetchEffect,
       LoopEndsEffect, AccountPerformedEffect, AccountFailedEffect,
       ThreadThrowsEffect
    DEF WorkerThread, BeginThread, SendQuery, LogAndFetch, LoopEnds,
        AccountPerformed, AccountFailed, ThreadThrows, Running
  <2>2. ASSUME NEW u \in Threads, u # t
        PROVE  pc'[u] = pc[u] /\ ending'[u] = ending[u]
    BY <1>1, <2>2, OthersKeep DEF Kept
  <2>3. threadFailed => threadFailed'
    BY <1>1 DEF WorkerThread, BeginThread, SendQuery, LogAndFetch, LoopEnds,
                AccountPerformed, AccountFailed, ThreadThrows, totalVars
  <2>4. ending'[t] = "exception" => threadFailed'
    <3>1. CASE ThreadThrows(t)
      BY <3>1 DEF ThreadThrows
    <3>2. CASE ~ThreadThrows(t)
      <4>1. ending'[t] \in {ending[t], "empty", "unconnected", "aborted", "clean"}
        BY <1>1, <3>2, BeginThreadEffect, SendQueryEffect, LogAndFetchEffect,
           LoopEndsEffect, AccountPerformedEffect, AccountFailedEffect
        DEF WorkerThread
      <4> QED
        BY <4>1, <2>3 DEF MainInv
    <3> QED
      BY <3>1, <3>2
  <2> QED
    BY <2>1, <2>2, <2>3, <2>4
    DEF MainInv, paramVars, mainVars, TypeOK, MainTypeOK
<1>2. CASE SpawnThread
  <2>1. /\ next \in Threads /\ next' = next + 1 /\ next + 1 <= threads
        /\ main = "spawn" /\ main' = main /\ status' = status
        /\ next \in Nat /\ threads \in Nat
    BY <1>2, NextIsThread DEF SpawnThread, TypeOK, MainTypeOK, ParamTypeOK
  <2>2. ASSUME NEW u \in Threads
        PROVE  /\ pc'[u] = IF u = next THEN "begin" ELSE pc[u]
               /\ ending'[u] = ending[u]
    BY <1>2, SpawnEffect
  <2>3. UNCHANGED threadFailed /\ UNCHANGED threads
    BY <1>2 DEF SpawnThread, totalVars, paramVars
  <2> QED
    BY <2>1, <2>2, <2>3 DEF MainInv
<1>3. CASE TestConnection
  BY <1>3 DEF TestConnection, Exit, MainInv, paramVars, totalVars,
     threadVars, TypeOK, MainTypeOK, ParamTypeOK
<1>4. CASE LoadQueryList
  BY <1>4 DEF LoadQueryList, Exit, MainInv, paramVars, totalVars,
     threadVars, TypeOK, MainTypeOK, ParamTypeOK
<1>5. CASE AdjustRuntimeParams
  BY <1>5 DEF AdjustRuntimeParams, MainInv, paramVars, totalVars,
     threadVars, TypeOK, MainTypeOK, ParamTypeOK
<1>6. CASE AllSpawned
  BY <1>6 DEF AllSpawned, MainInv, paramVars, totalVars,
     threadVars, TypeOK, MainTypeOK, ParamTypeOK
<1>7. CASE SpawnThrows
  BY <1>7 DEF SpawnThrows, Exit, MainInv, paramVars, totalVars,
     threadVars, TypeOK, MainTypeOK, ParamTypeOK
<1>8. CASE JoinThread
  BY <1>8, NextIsThread DEF JoinThread, MainInv, paramVars, totalVars,
     threadVars, TypeOK, MainTypeOK, ParamTypeOK
<1>9. CASE AllJoined
  BY <1>9 DEF AllJoined, MainInv, paramVars, totalVars,
     threadVars, TypeOK, MainTypeOK, ParamTypeOK
<1>10. CASE Report
  BY <1>10 DEF Report, Exit, MainInv, paramVars, totalVars,
     threadVars, TypeOK, MainTypeOK, ParamTypeOK
<1>11. CASE MainThrows
  BY <1>11 DEF MainThrows, Exit, MainInv, paramVars, totalVars,
     threadVars, TypeOK, MainTypeOK, ParamTypeOK
<1>12. CASE UNCHANGED vars
  BY <1>12 DEF MainInv, vars, paramVars, mainVars, totalVars, threadVars
<1> QED
  BY <1>1, <1>2, <1>3, <1>4, <1>5, <1>6, <1>7, <1>8, <1>9, <1>10, <1>11, <1>12
  DEF Next, ExecuteTests

\* A replay that has started is one thread, with the list for its quota.
LEMMA StepReplay ==
  ASSUME TypeOK, MainInv, ReplayInv, [Next]_vars
  PROVE  ReplayInv'
<1>1. ASSUME NEW t \in Threads, WorkerThread(t)
      PROVE  ReplayInv'
  <2>1. pc[t] # "unborn" /\ UNCHANGED paramVars
    BY <1>1, ThreadFrame
    DEF WorkerThread, BeginThread, SendQuery, LogAndFetch,
         LoopEnds, AccountPerformed, AccountFailed, ThreadThrows, Running
  <2> QED
    BY <2>1 DEF ReplayInv, paramVars
<1>2. CASE AdjustRuntimeParams
  BY <1>2 DEF AdjustRuntimeParams, ReplayInv
<1>3. CASE SpawnThread
  BY <1>3 DEF SpawnThread, ReplayInv, paramVars
<1>4. ASSUME UNCHANGED threadVars, UNCHANGED paramVars,
             main \in {"spawn", "join", "report"} \/
               main' \notin {"spawn", "join", "report"}
      PROVE  ReplayInv'
  BY <1>4 DEF ReplayInv, threadVars, paramVars
<1>5. CASE TestConnection \/ LoadQueryList \/ SpawnThrows \/ Report \/ MainThrows
  BY <1>4, <1>5 DEF TestConnection, LoadQueryList, SpawnThrows, Report,
     MainThrows, Exit
<1>6. CASE AllSpawned \/ JoinThread \/ AllJoined
  BY <1>4, <1>6 DEF AllSpawned, JoinThread, AllJoined
<1>7. CASE UNCHANGED vars
  BY <1>4, <1>7 DEF vars, mainVars
<1> QED
  BY <1>1, <1>2, <1>3, <1>5, <1>6, <1>7 DEF Next, ExecuteTests

\* The threads of the worker are finitely many.
LEMMA FiniteThreads ==
  \A s \in SUBSET Threads : IsFiniteSet(s)
<1>1. IsFiniteSet(Threads)
  BY FS_Interval
<1> QED
  BY <1>1, FS_Subset

\* A thread enters each of the totals once, with what it has counted itself,
\* and counts no more once it is in.
LEMMA StepCount ==
  ASSUME TypeOK, LimitInv, MainInv, CountInv, [Next]_vars
  PROVE  CountInv'
<1> DEFINE SamePerformed ==
             /\ Performers' = Performers
             /\ \A u \in Performers : performed'[u] = performed[u]
           SameFailed ==
             /\ Accounted' = Accounted
             /\ \A u \in Accounted : failed'[u] = failed[u]
<1>a. /\ Performers \in SUBSET Threads /\ IsFiniteSet(Performers)
      /\ Accounted \in SUBSET Threads /\ IsFiniteSet(Accounted)
      /\ Unconnected \in SUBSET Threads /\ IsFiniteSet(Unconnected)
  BY FiniteThreads DEF Performers, Accounted, Unconnected
<1>b. ASSUME SamePerformed, performedTotal' = performedTotal
      PROVE  performedTotal' = SumFunctionOnSet(performed', Performers')
  BY <1>a, <1>b, SumSame DEF CountInv
<1>c. ASSUME SameFailed, failedTotal' = failedTotal
      PROVE  failedTotal' = SumFunctionOnSet(failed', Accounted')
  BY <1>a, <1>c, SumSame DEF CountInv
<1>1. ASSUME NEW t \in Threads, WorkerThread(t)
      PROVE  CountInv'
  <2>1. \A u \in Threads \ {t} : Kept(u)
    BY <1>1, OthersKeep
  <2>2. CASE BeginThread(t)
    <3>1. SamePerformed /\ SameFailed
      BY <2>1, <2>2, BeginThreadEffect
      DEF Performers, Accounted, Kept, LimitInv, LimitOf
    <3>2. performedTotal' = performedTotal /\ failedTotal' = failedTotal
      BY <2>2 DEF BeginThread
    <3>3. ending[t] = "none"
      BY <2>2, BeginThreadEffect DEF LimitInv, LimitOf
    <3>4. connectionsTotal' = Cardinality(Unconnected')
      <4>1. CASE ending'[t] = "unconnected"
        <5>1. connectionsTotal' = connectionsTotal + 1
          BY <2>2, <3>3, <4>1
          DEF BeginThread, Leave, TypeOK, ThreadTypeOK
        <5>2. Unconnected' = Unconnected \cup {t} /\ t \notin Unconnected
          BY <2>1, <3>3, <4>1 DEF Unconnected, Kept
        <5>3. Cardinality(Unconnected \cup {t}) = Cardinality(Unconnected) + 1
          BY <1>a, <5>2, FS_AddElement
        <5> QED
          BY <5>1, <5>2, <5>3 DEF CountInv
      <4>2. CASE ending'[t] # "unconnected"
        <5>1. connectionsTotal' = connectionsTotal
          BY <2>2, <4>2 DEF BeginThread, Leave, TypeOK, ThreadTypeOK
        <5>2. Unconnected' = Unconnected
          BY <2>1, <3>3, <4>2 DEF Unconnected, Kept
        <5> QED
          BY <5>1, <5>2 DEF CountInv
      <4> QED
        BY <4>1, <4>2
    <3> QED
      BY <1>b, <1>c, <3>1, <3>2, <3>4 DEF CountInv
  <2>3. CASE AccountPerformed(t)
    <3>1. /\ Performers' = Performers \cup {t} /\ t \notin Performers
          /\ SameFailed /\ Unconnected' = Unconnected
      BY <2>1, <2>3, AccountPerformedEffect
      DEF Performers, Accounted, Unconnected, Kept, LimitInv, LimitOf
    <3>2. /\ performedTotal' = performedTotal + performed[t]
          /\ performed' = performed /\ failedTotal' = failedTotal
          /\ connectionsTotal' = connectionsTotal
      BY <2>3 DEF AccountPerformed, databaseVars
    <3>3. \A u \in Performers \cup {t} : performed[u] \in Nat
      BY <1>a, Values
    <3>4. SumFunctionOnSet(performed, Performers \cup {t})
            = performed[t] + SumFunctionOnSet(performed, Performers)
      BY <1>a, <3>1, <3>3, SumAdd
    <3>5. SumFunctionOnSet(performed, Performers) \in Nat
      BY <1>a, <3>3, SumIsNat
    <3>6. performedTotal' = SumFunctionOnSet(performed', Performers')
      BY <3>1, <3>2, <3>3, <3>4, <3>5 DEF CountInv
    <3> QED
      BY <1>c, <3>1, <3>2, <3>6 DEF CountInv
  <2>4. CASE AccountFailed(t)
    <3>1. /\ Accounted' = Accounted \cup {t} /\ t \notin Accounted
          /\ SamePerformed /\ Unconnected' = Unconnected
      BY <2>1, <2>4, AccountFailedEffect
      DEF Performers, Accounted, Unconnected, Kept, LimitInv, LimitOf
    <3>2. /\ failedTotal' = failedTotal + failed[t]
          /\ failed' = failed /\ performedTotal' = performedTotal
          /\ connectionsTotal' = connectionsTotal
      BY <2>4 DEF AccountFailed, databaseVars
    <3>3. \A u \in Accounted \cup {t} : failed[u] \in Nat
      BY <1>a, Values
    <3>4. SumFunctionOnSet(failed, Accounted \cup {t})
            = failed[t] + SumFunctionOnSet(failed, Accounted)
      BY <1>a, <3>1, <3>3, SumAdd
    <3>5. SumFunctionOnSet(failed, Accounted) \in Nat
      BY <1>a, <3>3, SumIsNat
    <3>6. failedTotal' = SumFunctionOnSet(failed', Accounted')
      BY <3>1, <3>2, <3>3, <3>4, <3>5 DEF CountInv
    <3> QED
      BY <1>b, <3>1, <3>2, <3>6 DEF CountInv
  <2>5. CASE \/ SendQuery(t) \/ LogAndFetch(t) \/ LoopEnds(t)
             \/ ThreadThrows(t)
    <3>1. /\ performedTotal' = performedTotal /\ failedTotal' = failedTotal
          /\ connectionsTotal' = connectionsTotal
      BY <2>5 DEF SendQuery, LogAndFetch, LoopEnds, ThreadThrows, totalVars
    <3>2. /\ pc[t] \in {"begin", "query", "output", "accountPerformed"}
          /\ ending[t] # "unconnected" /\ ending'[t] # "unconnected"
          /\ pc'[t] \in {"query", "output", "accountPerformed"}
               \/ ending'[t] = "exception"
      <4>1. CASE SendQuery(t)
        BY <4>1, SendQueryEffect DEF LimitInv, LimitOf
      <4>2. CASE LogAndFetch(t)
        BY <4>2, LogAndFetchEffect DEF LimitInv, LimitOf
      <4>3. CASE LoopEnds(t)
        BY <4>3, LoopEndsEffect DEF LimitInv, LimitOf
      <4>4. CASE ThreadThrows(t)
        BY <4>4, ThreadThrowsEffect DEF ThreadThrows, LimitInv, LimitOf
      <4> QED
        BY <2>5, <4>1, <4>2, <4>3, <4>4
    <3>3. SamePerformed /\ SameFailed /\ Unconnected' = Unconnected
      BY <2>1, <3>2 DEF Performers, Accounted, Unconnected, Kept
    <3> QED
      BY <1>b, <1>c, <3>1, <3>3 DEF CountInv
  <2> QED
    BY <1>1, <2>2, <2>3, <2>4, <2>5 DEF WorkerThread
<1>2. ASSUME UNCHANGED totalVars,
             \A u \in Threads :
               /\ ending'[u] = ending[u] /\ performed'[u] = performed[u]
               /\ failed'[u] = failed[u]
               /\ pc'[u] # pc[u] => /\ pc[u] \notin {"accountFailed", "done"}
                                   /\ pc'[u] \notin {"accountFailed", "done"}
      PROVE  CountInv'
  <2>1. SamePerformed /\ SameFailed /\ Unconnected' = Unconnected
    BY <1>2 DEF Performers, Accounted, Unconnected
  <2> QED
    BY <1>2, <1>b, <1>c, <2>1 DEF CountInv, totalVars
<1>3. CASE SpawnThread
  BY <1>2, <1>3, SpawnEffect, MainFrame DEF ExecuteTests
<1>4. CASE UNCHANGED totalVars /\ UNCHANGED threadVars
  BY <1>2, <1>4 DEF threadVars, databaseVars
<1> QED
  BY <1>1, <1>3, <1>4, MainFrame DEF Next, vars

-----------------------------------------------------------------------------
(* The inductive invariant                                                 *)

IInv == /\ TypeOK /\ LimitInv /\ MainInv /\ ReplayInv /\ IndexInv /\ LogInv
        /\ CountInv

\* It holds initially.
LEMMA InitIInv ==
  ASSUME Init
  PROVE  IInv
<1>1. ParamTypeOK
  BY DEF Init, ParamTypeOK
<1>2. MainTypeOK
  BY DEF Init, MainTypeOK, MainPoints
<1>6. TotalTypeOK
  BY DEF Init, TotalTypeOK
<1>3. ThreadTypeOK
  BY DEF Init, ThreadTypeOK, ThreadPoints, EndKinds
<1>4. LimitInv /\ MainInv
  BY DEF Init, LimitInv, LimitOf, MainInv
<1>5. ReplayInv /\ IndexInv /\ LogInv
  BY DEF Init, ReplayInv, IndexInv, IndexOf, LogInv, LogOf
<1>7. CountInv
  <2>1. Performers = {} /\ Accounted = {} /\ Unconnected = {}
    BY DEF Init, Performers, Accounted, Unconnected
  <2> QED
    BY <2>1, SumEmpty, FS_EmptySet DEF Init, CountInv
<1> QED
  BY <1>1, <1>2, <1>3, <1>4, <1>5, <1>6, <1>7 DEF IInv, TypeOK

\* Every step preserves it.
LEMMA StepIInv ==
  ASSUME IInv, [Next]_vars
  PROVE  IInv'
BY StepType, StepLimit, StepMain, StepReplay, StepIndex, StepLog, StepCount
DEF IInv

\* It holds in every reachable state.
LEMMA Invariance == Spec => []IInv
<1>1. Init => IInv
  BY InitIInv
<1>2. IInv /\ [Next]_vars => IInv'
  BY StepIInv
<1> QED
  BY <1>1, <1>2, PTL DEF Spec

\* While no limit exceeds the counter, so does its count of the queries.
LEMMA QuotaInvariance ==
  ASSUME SmallQuotas
  PROVE  Spec => []QuotaInv
<1>1. Init => QuotaInv
  <2> SUFFICES ASSUME Init PROVE QuotaInv
    OBVIOUS
  <2>1. queriesPerThread \in QueryCounts /\ listSize \in ListSizes
    BY DEF Init
  <2>2. QuotaTypeOK
    BY <2>1 DEF SmallQuotas, QuotaTypeOK
  <2> QED
    BY <2>2 DEF Init, QuotaInv, QuotaTypeOK, QuotaOf
<1>2. IInv /\ QuotaInv /\ [Next]_vars => QuotaInv'
  BY StepQuota DEF IInv
<1> QED
  BY <1>1, <1>2, Invariance, PTL DEF Spec

-----------------------------------------------------------------------------
(* The theorems                                                            *)

\* Every variable keeps its type: the counters never go below zero, and no
\* thread counts more failures in a row than MAX_CON_FAILURES.
THEOREM TypeCorrect == Spec => []TypeOK
<1>1. IInv => TypeOK
  BY DEF IInv
<1> QED
  BY <1>1, Invariance, PTL

\* The worker returns success only after every thread of the configuration
\* has been joined, and no thread died of an exception.
THEOREM NoSuccessAfterException == Spec => []SuccessMeansNoException
<1>1. IInv => SuccessMeansNoException
  BY DEF IInv, MainInv, SuccessMeansNoException
<1> QED
  BY <1>1, Invariance, PTL

\* When the summary is written, its three numbers are what the threads that
\* did not die of an exception have done, and no thread is still counting.
THEOREM ReportsAreComplete == Spec => []ReportIsComplete
<1>1. IInv => ReportIsComplete
  <2> SUFFICES ASSUME IInv, main = "report"
               PROVE  /\ performedTotal = SumFunctionOnSet(performed, Accounted)
                      /\ failedTotal = SumFunctionOnSet(failed, Accounted)
                      /\ connectionsTotal = Cardinality(Unconnected)
                      /\ \A t \in Threads : pc[t] \in {"unborn", "done"}
    BY DEF ReportIsComplete, Unconnected
  <2>1. \A t \in Threads : pc[t] \in {"unborn", "done"}
    BY DEF IInv, MainInv
  <2>2. Performers = Accounted
    BY <2>1 DEF Performers, Accounted
  <2> QED
    BY <2>1, <2>2 DEF IInv, CountInv
<1> QED
  BY <1>1, Invariance, PTL

\* (*queryList)[query_number] is inside the list, whatever the loop counter
\* does, shuffled or replayed.
THEOREM NoIndexOutOfBounds == Spec => []IndexInBounds
<1>1. IInv => IndexInBounds
  BY DEF IInv, IndexInv, IndexOf, IndexInBounds
<1> QED
  BY <1>1, Invariance, PTL

\* A thread gives up when MAX_CON_FAILURES queries in a row have failed and
\* for no other reason.
THEOREM AbortsAtTheLimit == Spec => []AbortAtTheLimit
<1>1. IInv => AbortAtTheLimit
  BY DEF IInv, LimitInv, LimitOf, AbortAtTheLimit
<1> QED
  BY <1>1, Invariance, PTL

\* No failed query is missing from the log of a thread that asked for it,
\* but the one that made it give up.
THEOREM LogIsComplete == Spec => []FailuresLogged
<1>1. IInv => FailuresLogged
  BY DEF IInv, LogInv, LogOf, FailuresLogged
<1> QED
  BY <1>1, Invariance, PTL

\* As long as neither a quota nor a list is beyond the range of the counter,
\* a thread sends what it was asked to send and no more.
THEOREM QuotaIsKept ==
  ASSUME SmallQuotas
  PROVE  Spec => []QuotaKept
<1>1. QuotaInv => QuotaKept
  BY DEF QuotaInv, QuotaOf, QuotaKept
<1> QED
  BY <1>1, QuotaInvariance, PTL

\* Under the same assumption a replay sends the statements one by one, in
\* the order of the file, from one thread.
THEOREM ReplayIsInOrder ==
  ASSUME SmallQuotas
  PROVE  Spec => []ReplayInOrder
<1>1. IInv /\ QuotaInv => ReplayInOrder
  <2> SUFFICES ASSUME IInv, QuotaInv, ~shuffle,
                      main \notin {"testConnection", "loadQueryList", "adjust"}
               PROVE  /\ \A t \in Threads \ {0} : pc[t] = "unborn"
                      /\ pc[0] = "output" => queryNumber[0] = performed[0] - 1
                      /\ ending[0] = "clean" => performed[0] = listSize
    BY DEF ReplayInOrder
  <2>1. /\ main \in {"spawn", "join", "report", "returned"}
        /\ next \in Nat /\ 0 \in Threads
    BY DEF IInv, TypeOK, MainTypeOK, MainPoints
  <2>2. ASSUME NEW t \in Threads, pc[t] # "unborn"
        PROVE  /\ threads = 1 /\ queriesPerThread = listSize
               /\ t < threads
    BY <2>1, <2>2 DEF IInv, MainInv, ReplayInv
  <2>3. \A t \in Threads \ {0} : pc[t] = "unborn"
    BY <2>2
  <2>4. pc[0] = "output" => queryNumber[0] = performed[0] - 1
    <3> SUFFICES ASSUME pc[0] = "output"
                 PROVE  queryNumber[0] = performed[0] - 1
      OBVIOUS
    <3>1. performed[0] = i[0] + 1 /\ queryNumber[0] = i[0]
      BY <2>1 DEF QuotaInv, QuotaOf
    <3> QED
      BY <2>1, <3>1, Values DEF IInv
  <2>5. ending[0] = "clean" => performed[0] = listSize
    BY <2>1, <2>2 DEF IInv, LimitInv, LimitOf, QuotaInv, QuotaOf
  <2> QED
    BY <2>3, <2>4, <2>5
<1> QED
  BY <1>1, Invariance, QuotaInvariance, PTL
=============================================================================
