# pquery in TLA+

pquery stress-tests a database server: a master process reads an INI file, forks
one worker process per section, and each worker runs threads that send SQL
statements to a MySQL or PostgreSQL server until their quota is done.  This
directory holds TLA+ modules translated from the C++ sources, TLC configurations
that check them on small instances, and proofs checked by TLAPS.  All line numbers
refer to `src/src/` of the repository.

## 1. Inventory

| Component | State it keeps | Operations | Hard behaviour | What makes it correct |
|---|---|---|---|---|
| **WorkerPool** (`cWorkerPool.cpp`) | `activeWorkers` (pid, deadline, `term_sent`, kill deadline), `retvalue` | `runAll`, `spawnWorker`, `waitForWorkers` | processes that end at any time, PIDs reused, timeouts racing exits, failing `fork()` and log writes, children it does not know | only its own unreaped children are signalled, and not too early; each worker is run once; the verdict tells the truth; nothing with a timeout runs for ever |
| **DbWorker** (`cDbWorker.cpp`) | query list, three atomic totals, `thread_failed`, threads | `executeTests`, `workerThread`, `spawnWorkerThreads`, `calculateQueries`, `writeFinalReport` | threads, exceptions in a thread, failing thread creation, a bounded loop counter | the report is complete, quotas and replay order hold, no index leaves the list, the verdict sees every exception, the process ends |
| **Database** (`cDatabase.cpp`) | performed, failed and consecutive failures of one connection | `performQuery` | the limit of failures in a row | the counters agree with each other and with what was sent |
| **MysqlDatabase, MysqlWorker** | a `MYSQL` connection and its pending results | `connect`, `performRealQuery`, `processQueryOutput` | several results per statement, one that breaks off, an error in the middle | no result left pending or allocated when the next query is sent, and the output logged is that of the statement |
| **PgsqlDatabase, PgsqlWorker** | a `PGconn`, one `PgResult` | the same, `cleanupResult` | ownership of a `PGresult` over moves, early exits of the thread | cleared once, never used after; pointer and status belong together |
| **Logger** (`cLogger.cpp`) | one `ofstream`, its mutex, a pending path | `initLogFile`, `addRecordToLog`, `<<`, `flushLog` | shared by threads, copied by `fork()`; every write may throw | the records of a process are in its file, in order and once; no process writes into another's |
| **SqlFileParser** (`cSqlFileParser.cpp`) | scan state, statement, delimiter, dollar tag | `splitStatements` and one `consume*` per state | quotes, comments and delimiters starting in one another | statements are split exactly at the delimiters outside quotes and comments |
| **GenLog, BinLog parsers** | none | stubs returning false | none | none |
| **INIReader** (`cIniReader.cpp`) | section list, map, error line | constructor, `Get*` | errors in the middle, overflow of multipliers, repeated sections | the map is what the file says, the first bad line is reported, no integer wraps |
| **WorkerConfig** (`cWorkerConfig.cpp`) | none | `buildAllWorkerParams` | one bad section among good ones | nothing starts unless all sections are good |
| **PQuery, main, Cli** | options, reader, logger | a straight sequence of calls | exceptions that reach `main` | exit status 0 exactly for a good run |

**Interactions.**  `main` → `PQuery::run` → `WorkerConfig::buildAllWorkerParams`
(reads the `INIReader`) → `WorkerPool::runAll`.  The pool forks; the child runs
`DbWorker::executeTests` and its boolean becomes, through `eCHILD` or `eERROR` and
`main`, the exit status the master gets from `waitpid`.  Inside a worker the threads
share the query list (read-only once they start), the atomic totals and the log.
Master and workers share nothing but exit status and signals; the log file object
is a copy on each side of `fork()`, over one open file until the child opens its own.

The hazards of the code, each at its line and with the properties that would catch
it going wrong, are listed in `PROJECT.json`.

## 2. Modules

### PoolContract — what `runAll` promises

Each worker has an outcome (`unstarted`, `running`, or how it ended), some are
`overdue` (told to stop), and the pool returns one `verdict`.  `Start`, `End` and
`Overrun` happen to a worker; `Decide` returns "success" exactly when every worker
ended by itself with status 0.  `Abort` exists only if the master may fail.

### WorkerPool — `cWorkerPool.cpp` 87–235

State: the machine's process table (`pc`, `at`, `sig`, `children`), the master's
memory (`active`, `pidOf`, `deadline`, `termSent`, `killDeadline`, `retvalue`, ...),
and three history variables for the properties (`outcome`, `age`, `sinceTerm`).

| Action | Code |
|---|---|
| `Announce` | the record before `spawnWorker`, and its `flushLog` (222–223, 91) |
| `Fork`, `ForkError` | `fork()` and its two results (93, 95–99 with 225) |
| `Register` | the `workerProc` entry and the next iteration (101–117) |
| `LoopDone` | `return waitForWorkers()` (234) |
| `ReapWorker`, `ReapStranger`, `WaitError`, `WaitNone` | the four outcomes of `waitpid(-1, &status, WNOHANG)` (169–190) |
| `ReadClock` | `now = steady_clock::now()` (193), apart from `waitpid`: a worker may end in between |
| `SendTerm`, `SendKill`, `LeaveAlone` | one iteration of the loop over `activeWorkers` (194–209) |
| `ScanDone` | the 500 ms sleep (211) |
| `AllReaped` | the end of the `while` loop and the return (167, 214) |
| `LogThrows` | `addRecordToLog` throws wherever the master is about to write; `main` catches it (cLogger.cpp 91–98) |
| `ChildReturns` | a worker process ends by itself, in any way (119–156) |

The rest is the operating system: `ChildDiesOf` (signals; workers have no handler),
`ForeignStarts` and `ForeignEnds` (other programs, which take freed PIDs, and
children the process inherited over `exec`), `Tick`.  `fork()` may return any free
PID.  With `SigchldIgnored` children leave no zombie.  `RunAll(p)` takes the process
as a parameter because `fork()` returns twice into the loop of `runAll`: that no
child goes on with that loop is a property (`OneProcessPerWorker`), not an assumption.

Time is relative.  A deadline is the number of ticks still to go, so no clock grows
without bound; `lag` counts the ticks since the scan read `now`, which the
comparisons of the code use instead of the present.

### DbWorker — `cDbWorker.cpp` 27–62, 78–246, 289–313, and `Database::performQuery`

State: the parameters, the place of the main thread (`main`, `next`), the shared
totals, and the locals of each thread.  `TestConnection`, `LoadQueryList`,
`AdjustRuntimeParams`, `SpawnThread`, `AllSpawned`, `JoinThread`, `AllJoined` and
`Report` are the steps of `executeTests`; `BeginThread`, `SendQuery`, `LogAndFetch`,
`LoopEnds`, `AccountPerformed` and `AccountFailed` those of `workerThread`.
`calculateQueries` is two steps, because it is two atomic additions.  `ThreadThrows`,
`MainThrows` and `SpawnThrows` are the exceptions: in a thread they are caught and set
`thread_failed`, in the main thread they end the process, and a `std::thread` that
cannot be constructed beside a joinable one is `std::terminate`.  The loop counter is
taken modulo `Modulus`, the model's 2^32, while `queriesPerThread` is not.  `Draws` is what
the distribution of a thread may return; over an empty list that is any index.

Statements are positions in the query list.  What the server does is free: any
connection and any query may succeed or fail.

### SqlScript and SqlFileParser — `cSqlFileParser.cpp` 19–319

`SqlScript` is the reference: the statements of a script, from the description in
pquery.cfg 4–20 and the parser's tests.  A text is cut into tokens, each given by the
set of positions where it may end (the first that ends it does): command lines,
delimiters, comments, dollar quotes, strings, quoted names, plain symbols; statements
are what stands between delimiters, without comments, trimmed, and not empty.  The reading is a
recursive function of a place: the position, the delimiter there and the statement begun.

`SqlFileParser` is the code: position, `ScanState`, the statement begun, the delimiter,
the dollar tag and the list.  There is one action per way a `consume*` function can go
(`MeetDelimiter`, `MeetLineComment`, `MeetBlockComment`, `MeetDollarQuote`, `MeetQuote`
and `MeetPlainChar` are the branches of `consumeNormalChar`, in that order of priority).
It shares with the reference only the names of the symbols, `Trim`, `Occurs` and the
lines.  A symbol is a class of characters: the code treats all letters and `_` alike, all
digits alike and all blanks alike; `D` is the word DELIMITER with the blank behind it.
The text ends with a newline since the code adds one to a last line that has none.

### IniFile, IniReader, WorkerConfig and PQuery — the configuration and the program

`IniFile` is the reference: what a configuration file says, as sets of positions and
tuples.  A line is a header or a setting if it can be cut into the parts of one
(existential quantifiers, no scanning); the file says, of each key of a section, the last
value given under any header of that name.

`IniReader` is `cIniReader.cpp`.  A line is a sequence of symbols, where a word is one
symbol; the positions `tryParseSection` and `tryParseKeyValue` look for are operators
(`CloseOf`, `KeyEnd`, `EqualSign`, `ValueStart`, `ValueEnd`), and the constructor has one
action per branch of its loop: `SkipLine`, `ReadSection`, `ReadKeyValue`,
`ReadMalformed`.  The getters are operators over the map; one that throws is an empty
set of results.  `GetInteger` has the guard against overflow (`OutOfRange`) and, behind
it, the product as the machine computes it (`Product`, modulo the width of the word), so
that a missing guard would wrap.

`WorkerConfig` is `cWorkerConfig.cpp`: all keys, defaults and ranges, the cast of each number
to the type of its parameter (`Narrowed`, modulo the width of that type), and
`buildAllWorkerParams` as `SkipSection`, `RejectSection` and `AcceptSection`.  `PQuery`
composes them with the rest of the master, from `ParseCliOptions` to the exit status of
`main`; of the pool it has what `PoolContract` promises (`StartWorker`, `WorkerEnds`,
`PoolReturns`), and `LogFails` is an exception that reaches `main` from any log record or
a `fork()` that fails.  `MCPQuery` has the files TLC reads.

### DbResults — `cMysqlDatabase.cpp` 12–125, `cPgsqlDatabase.cpp` 5–115, `cPgsqlDatabase.hpp` 7–41

One thread and its connection.  The client library is external and modelled by its rules:
an answer is a sequence of replies, `live` has the results allocated, `unread` and
`stored` say what waits on the connection, and `misuse` records a call the rules forbid
(a double free, a use after free, a command out of sync).  `MysqlQuery`,
`MysqlOutput`, `Store`, `FetchRows`, `FreeResult`, `LoopCondition` and the `Drain` actions
are the statements of `performRealQuery` and `processQueryOutput`; a `continue` inside
`do ... while` goes to the condition.  For PostgreSQL the temporary, the move assignment
(`PgAssign`) and the destructor of the temporary (`PgDrop`) are steps of their own.
`Close` and `Destroy` are the two parts of the destructor, whichever way the thread leaves.
`CopyThrows` is the exception of a string that cannot grow while the rows are copied; it
leaves `workerThread` before `mysql_free_result` (123), and `copyThrew` remembers it.

### LogFile — `cLogger.cpp`, with `cPQuery.cpp` 24–41 and `cWorkerPool.cpp` 29–35, 91–99

The master and its workers, each with a stream: its buffer, the file it writes to and the
offset in it.  `Fork` copies the buffer and the pending path and shares the open file;
`InitLogFile` closes the stream, which writes what is buffered, and opens another file.
`Spill` is a buffer that is full, `Exit` the destructor of `Logger`, `Killed` a signal.
Records are pairs of a process and a number; files are sequences of them, written at an
offset, over what is there.

## 3. Runs

| Run | Shows | Bounds |
|---|---|---|
| `PoolSafety` | all safety properties of the pool, with failing `fork()` and log writes: no false success, no stale PID, no early signal; the pool implements the contract that allows it to abort | 2 workers, `timeout` 0 or 1, grace 2, a scan of at most 1 tick, 3 PIDs of which 1 may be an inherited child; symmetric PIDs |
| `PoolLiveness` | without faults the pool implements `PoolContract` with an exact verdict; workers with a timeout end; the pool returns if all have one; ended workers are reaped beside one that never ends | 2 workers, PIDs for them only, no symmetry |
| `PoolSigchldIgnored` | with SIGCHLD ignored the pool returns all the same, once no inherited child is alive | 2 workers with a timeout of 1, no grace, 3 PIDs of which 1 may be an inherited child |
| `PoolForkFailure` | **expected violation**, see Findings | 2 workers with a timeout |
| `WorkerRuns` | all safety properties of a worker, with every exception, and that every worker ends | 1–2 threads, lists of 0, 1, 3 statements, quotas of 0, 1, 3 queries, limit of 2 failures |
| `WorkerCounterWraps` | **expected violation**, see Findings | 1 thread, `shuffle = Yes`, `Modulus` 2, 3 queries asked for |
| `SqlScripts` | the list of queries is the statements of the script; every step of the scan moves forward | all texts of up to 5 symbols, both dialects, over four alphabets: strings and quoted names (`; a ' " \` and backtick), comments (`; # - / * '` and blank), dollar quotes (`; $ a 1 '` and newline), commands (`; / D '`, blank and newline) |
| `SqlCommentLines` | **expected violation**, see Findings | up to 4 of `; a /` and newline |
| `Program` | the reader holds what the file says; numbers wrap neither in a product nor in a cast; one bad section keeps all workers from starting; the workers are the sections to be run, in order; status 0 means that all ran well | every line of up to 4 of 8 symbols; every file of up to 3 of 9 blocks of headers and settings; a section with up to 2 of 13 settings at limits; one driver or both; words of 19 bits and a Kilo of 8 |
| `ConfigKeys` | **expected violation**, see Findings | files of up to 2 blocks |
| `DbResults` | no result is freed twice, used after its end or left behind, except one case (section 4); the output logged is that of the statement; the thread leaves | 4 statements, up to 3 replies each, both drivers |
| `LogFile` | the master's log and the log of each worker whose path is its own have their process's records, in order and once | 2 workers, 3 records each, paths that may coincide, `-L` given or not |

Why the bounds suffice.  Two workers are the fewest for which the order of endings,
a hanging neighbour, a later `fork()` failing and an erase of the wrong entry exist;
the entries of the list do not otherwise interact.  A PID freed by one worker can be
taken by a foreign program or by the second worker, which is what PID reuse can do.
A timeout of one tick and a grace of one or two put states before, at and after each
deadline; a lag of one makes `now` differ from the present.  In the worker, two
threads are the fewest whose additions to the totals interleave; quotas and lists of 3
exceed the failure limit of 2 (250 in the code), so that a run can abort early, on its last
query, or recover; lists shorter and longer than the quota, and the empty list, are
included.  `Modulus` 8 exceeds every quota used, except in the run about wrapping.

Every construct of the scanner is at most three symbols wide with its opener (`$a$`, `-- `,
`/**/` is four), so texts of five symbols hold one inside another, one unclosed, and
one at the end of a line or of the file; a dollar quote with a tag, which needs six symbols
and more to be closed again, is left to the theorem `StatementsLoaded`.  The alphabets are split by topic; each has the
delimiter and most have a string to hide things in.

A line of four symbols holds every order of blank, key, `=` and value, and every broken
header; longer shapes (a repeated blank in a value, a multiplier behind a blank) are among the
settings.  Three blocks are the fewest that repeat a section around another, or put a bad
one first, in the middle or last.  The scaled word keeps the order
`MaxUint16 < MaxUint32 < MaxInt` and `Kilo^4` far below `MaxInt`, and the numbers used are
the limits of each range, the last that fits with a multiplier and the first that does not;
`GetIntegerIsExact` is proved for every width.  Three replies are the fewest with one before
and one after a reply that breaks off; four statements let each kind of answer follow each.
Two workers and three records are the fewest for a buffer that is copied, written by
one side and continued by the other, with a second worker that must not see it.

`CHECK_DEADLOCK FALSE` is set for the runs of `DbWorker`, `PQuery`, `DbResults` and `LogFile`,
whose processes end, and of `SqlFileParser`, whose file ends.  The pool's
model has other programs that go on after `runAll` has returned.

**Fairness.**  `WorkerPool!Fairness`: the master is scheduled and its calls return
(`waitpid` does not block, the sleep is bounded), time passes, and SIGKILL kills.
Nothing is assumed of the workers: they may hang for ever and survive SIGTERM, and
`fork()` is assumed not to fail only where the configuration says so.
`DbWorker!Fairness`: every thread is scheduled, and each query returns.  The code has
no timeout for a query, so a server that never answers hangs the thread; only the
pool's timeout ends such a worker, and that is `TimedWorkersEnd`.
`DbResults!FairSpec`: each call of the client library returns, the same assumption; the
loops over the replies then end because every answer is finite.

## 4. Findings

* `PoolForkFailure`: a failing `fork()` for a later worker makes `runAll` return at
  once (226).  The workers already started are neither waited for nor stopped, although
  README.md:188 describes `timeout` as the "Overall timeout in seconds for this worker".
* `WorkerCounterWraps`: the loop counter is 32 bits wide and `queries_per_thread` 64
  (cDbWorker.cpp:140).  With `shuffle = Yes`, where the key is not replaced by the size of the
  list, a value above 2^32 − 1 is never reached, against README.md:186,
  "The number of queries per thread".
* `SqlCommentLines`: a line that starts with `;` is not a comment for the parser
  (cSqlFileParser.cpp:51, 145): the rest of the line becomes a statement.
  pquery-pgsql.sql:4, the sample infile, says "valid comments must be prefixed with '#',
  ';' or '//'" and has such a line.

* `ConfigKeys`: the flag `log_succeeded_queries` is read from the key
  `log-succeded-queries`, with one 'e' (cWorkerConfig.cpp:157).  README.md:195, pquery.cfg:93
  and `pquery -h` (cCli.cpp:103) all give `log-succeeded-queries`, which has no effect.

Three things no document contradicts squarely, which the properties state as they are:

* `FailuresLogged`: the failure on which a thread gives up returns before it is logged
  (cDbWorker.cpp:159), so with `log-failed-queries` ("Log failed queries", README.md:196) all
  failures of that thread but the last are in its log.
* `NothingLeftBehind`: a `MYSQL_RES` has no owner, so an exception while its rows are appended
  to a string (cMysqlDatabase.cpp:100–121), which `workerThread` catches
  (cDbWorker.cpp:205), leaves it allocated until the process ends.  It is the only way a
  result is left; a `PGresult` has an owner and is cleared.
* `PoolReturns`: with SIGCHLD ignored and a child from before `exec` alive, `waitpid` neither
  returns a worker nor fails, and the pool waits for as long as that child lives, though its
  workers are gone (cWorkerPool.cpp:167–190).

## 5. Proofs

`WorkerPoolProofs` proves, for any number of workers, any set of PIDs, any timeouts,
grace period and scan length:

| Theorem | States | Assumes |
|---|---|---|
| `TypeCorrect` | `TypeOK` (and `PhaseInv`) always | nothing |
| `OneProcess` | `OneProcessPerWorker` always | nothing |
| `TermIsNotEarly` | `TermOnlyAfterTimeout` always | nothing |
| `KillsOnlyChildren` | `ActiveAreChildren` always | SIGCHLD is not ignored |
| `StrangersAreSafe` | `NoStraySignal` always | SIGCHLD is not ignored |
| `VerdictCorrect` | `VerdictIsTruthful` always | SIGCHLD is not ignored |
| `KillIsNotEarly` | `KillOnlyAfterGrace` always | SIGCHLD is not ignored |
| `PoolImplementsContract` | `Contract!Spec` | SIGCHLD is not ignored |

"Nothing" means the module's ASSUMEs about the constants only.  The assumption on
SIGCHLD is necessary: with SIGCHLD ignored, workers vanish without being reaped, their PIDs
are reused while the list still holds them, and a failed worker leaves no status.

The argument.  No property of the list is inductive by itself.  `PhaseInv` says where
each process can be: only the master is in the loop, so `fork()` is called once per
element.  `LaunchInv` says that the workers started are those the loop has passed and
that each living or dead child is the one process of its worker.  `ChildInv` says that
zombies are children and that each entry of the list, and the PID that is about to
become one, belongs to an unreaped child; only `waitpid` frees such a PID and the same
iteration erases the entry.  `VerdictInv` relates `retvalue` to the workers that are
started and no longer on the list: while it is true they all ended with status 0, and
it is false only for a reason.  `TimeInv` bounds each deadline from below by the age of
the worker or of its SIGTERM, and `SignalInv` follows from it and `ChildInv`.  Their
conjunction `IInv` is inductive (`Inductive`); the refinement is then proved step
by step, where reaping, scanning and the clock map to stuttering.

`DbWorkerProofs` proves, for any number of threads, any lists and quotas, any limit on
failures, any counter width, with and without exceptions:

| Theorem | States | Assumes |
|---|---|---|
| `TypeCorrect` | `TypeOK` always | nothing |
| `NoSuccessAfterException` | `SuccessMeansNoException` always | nothing |
| `NoIndexOutOfBounds` | `IndexInBounds` always | nothing |
| `AbortsAtTheLimit` | `AbortAtTheLimit` always | nothing |
| `LogIsComplete` | `FailuresLogged` always | nothing |
| `QuotaIsKept` | `QuotaKept` always | `SmallQuotas` |
| `ReplayIsInOrder` | `ReplayInOrder` always | `SmallQuotas` |
| `ReportsAreComplete` | `ReportIsComplete` always | nothing |

`SmallQuotas` says that no quota and no list is beyond the range of the 32-bit loop
counter; the run `WorkerCounterWraps` shows that `QuotaKept` fails without it.

The argument.  First a lemma per action (`SendQueryEffect`, ...) says what the step does
to the thread's own locals, and `OthersKeep` that it leaves every other thread's alone,
so that each invariant is proved for one thread at a time.  `MainInv` ties the threads
to the loops of `spawnWorkerThreads`: a thread that is spawned is unborn, a joined one
is done, so a success is seen only after all of them.  `LimitInv` equates
`consecutive_failures` with the queries since the last success and keeps it below the
limit wherever the thread goes on.  `ReplayInv` says that `adjustRuntimeParams` ran
before any thread exists; with it `IndexInv` bounds the index of a replay by the quota.
`LogInv` follows the log through the half-done iteration (one failure behind in
`output`), and `QuotaInv` equates the counter with the queries sent: it needs
`SmallQuotas` at the single place where `i++` could wrap.  `CountInv` says of the totals
that they are the sums over the threads that have passed their `fetch_add`, and of a thread
between its two additions that it is in one sum and not yet in the other; that a sum over
one thread more is the old sum and its share is `SumAdd` of `DataInduction`.

`DataInduction` has what these proofs need of induction.  The library's induction theorems
take an operator, which the installed provers cannot instantiate; stated with the set of the
numbers that have a property (`NatSetInduction`, `RangeInduction`), an induction goes
through, from the theorem that `<` is well-founded on the naturals.  On it rest what `Min`
and `Max` return (`MinIs`, `MaxIs`) and the laws of `SumFunctionOnSet` (`SumSame`,
`SumEmpty`, `SumAdd`, `SumIsNat`): the fold is a recursive function on the subsets, whose
existence is `AddsExists`.

`DbResultsProofs` proves, for any number of statements and of replies to each, both
drivers: `TypeCorrect` (`TypeOK`), `LibraryUsedRight` (`LibraryIsUsedRight`), `NothingStays`
(`NothingLeftBehind`), `StatusNeverDrifts` (`StatusMatchesResult`) and `OutputIsItsOwn`
(`OutputIsOfThisQuery`), from the module's ASSUME only.  The inductive invariant adds where
each kind of memory is: `MysqlInv` says that a result exists only between `Store` and
`FreeResult`, or after an exception between them, and that the reply before the current
one has been read whenever a command may be sent; `PgInv` says that the results in memory are exactly those the member and the
temporary point to.  For the output, `AnswerInv` says which reply the connection is at, and
`MysqlOutputInv` and `PgOutputInv` that what is logged so far lists the readable replies
before it, each once and in order.  There is one lemma per action.

`LogFileProofs` proves, for any number of workers and records and any paths: `TypeCorrect`
(`TypeOK`), `MasterLogWhole` (`MasterLogIsWhole`) and `WorkerLogsWhole`
(`WorkerLogsAreWhole`).  `BufferInv` says of a process that its buffer is the batch of
records between its offset and what it has added, and empty if it does not write;
`FileInv` that a file of its own has the records up to the offset.  `FlushedFiles` is the
heart: flushing extends the one and touches no other.  A fork keeps the invariant
because the buffer that is copied is empty, which is what `flushLog` before `fork()` is for.

`IniReaderProofs` compares the scanner of `IniReader` with the grammar of `IniFile` for
lines of every length over any symbols.  `LineKinds` says that a line is taken for blank or
comment, header, setting or malformed exactly when the grammar says so, `LineContents` that
the name, the key and the value cut out are the grammar's.  The scanner goes from left to
right and the grammar quantifies over all ways to split a line: `IsSplit` names the five
positions of a split, `ScannedIsSplit` shows that the scanner's positions make one, and
`SplitIsScanned` that there is no other.  For whole files `LinesAreHeld` says what the reader
has after each line: the section it is in, the headers so far in their order (`Picked`,
which `PickedOneMore` extends by one), and for each subject its last setting so far.  It
holds before the first line, each step of the constructor keeps it (`ReadLineKeepsLines`,
`ReadLineKeepsFirstError`), and at the last line it is what the file says (`AllIsHeld`).

`PQueryProofs` proves, for every set of files, every width and every set of drivers:

| Theorem | States |
|---|---|
| `TypesAreKept` | `TypeOK` always |
| `FileIsRead` | `ReadsTheFile` always |
| `AllOrNone` | `AllOrNothing` always |
| `WorkersOfTheFile` | `WorkersFollowTheFile` always |
| `NumbersOfTheFile` | `NumbersAreExact` always |
| `SuccessIsEarned` | `SuccessMeansAllRan` always |
| `GetIntegerIsExact` | what is returned is exactly the product of number and multiplier if it fits the word, or the default where there is no value: an equality of sets |

They assume of the files only what a file is: a sequence of lines that are sequences
(`FilesAssumption`).  The invariant has four parts.  `IInv`: as long as `configOk` holds each
section looked at is skipped or good (`CheckedInv`), and each phase begins when the one
before is complete (`PhaseInv`).  `FileInv`: the reader holds the lines read, unless the file
could not be opened.  `ParamsInv`: `validParams` are the parameters of the accepted sections
before `next`, picked in order.  `OutcomeInv`: workers are started only when the file was
read without error and all sections were checked, and the status is 0 only when each
parameter set had a worker that ended well.  `SaidIsGot` is the bridge between the getters
and the meaning of the file, `NumberIsGiven` that of `GetInteger`, which rests on
`GuardIsExact` (the bounds of a division that rounds towards zero) and `ProductIsExact`;
`NarrowedIsSame` says that a number that passed `CheckIntRange` is not changed by its cast.

`SqlFileParserProofs` proves, for texts of every length over any alphabets and both dialects:
`TypeCorrect` (`TypeOK`: the position stays within the text or one behind it), `ScanEnds`
(`ScanAdvances`) and `QueriesTrimmed` (`QueriesAreTrimmed`, defined there).  The first two
together say that the loop of `splitStatements` ends.  The invariant adds `TextInv`, that
every line has its newline, and `TagInv`, that the tag is known while a dollar quote is
open: without it the scanner could stand still at a `$`.  `MinIs` and `MaxIs` of
`DataInduction` are what `Trim` and `LineEnd` need.

`StatementsLoaded` (`LoadsTheStatements` always) then compares the scanner, which goes from
symbol to symbol and keeps a state, with the script of `SqlScript`, which is read token by
token.  `Script` is the reading as a function of the place in the text; `ScriptIs` shows that
there is one, by induction from the end of the text, since every token moves forward
(`TokenIs`).  `Rest` is what the reading makes of the text from where the scanner stands: in
a state other than `Normal` it first goes to the end of the token that is open, with what
the scanner has of it already (`Closes` and `Ends` name these ends, per state).  `ReadInv`
says that during the scan the statements of the text are those loaded so far followed by the
`Rest`; at the end of the text the `Rest` is the statement that is begun.  A token must be
opened where the script has one, and as the same kind: `LineCommentIsSeen`,
`CommandIsSeen`, `DollarQuoteIsSeen` and so on compare the tests of `consumeNormal` with the
grammar, in the order of the code.  Inside a token each step keeps the `Rest` (`RestMoves`)
or ends the token (`RestCloses`).  In a string the code takes two symbols for an escape,
while the script says which quotes close a string (`PlainInString`, `EscapeInString`).  There
is one lemma `...Reads` per action.

Model-checked only: the liveness properties, since fairness and ENABLED are beyond the proof
system.  All other properties of the passing runs have a theorem.

## 6. Not modelled

Text: log wording, report layout, help, version, conversion of enumerations, the options of
the command line (their outcome is `ParseCliOptions`, and the path of `-L` is `asked` in
`LogFile`).  The GenLog and BinLog parsers are stubs.  `query_list_maxsize` and the infile
checks are one nondeterministic failure of `LoadQueryList`; in `SqlFileParser` opening the
file may fail.  Which of the other log options are set changes only the content of log
records.  A record written with several `<<` calls is locked call by call, so records of
two threads may mix; nothing in the repository promises otherwise, and `LogFile` takes a
record as one write.  Write errors of the disk appear as the exceptions they raise
(`LogThrows`, `ThreadThrows`, `LogFails`), not in `LogFile`.  What `mysql_thread_end` frees,
before the connection is closed or not at all when the thread leaves early, is the
library's.  In `IniReader` the digits of a number are one symbol, and the
letters of a word are.  Build scripts and packaging are no part of the program.

## 7. Order of development and what is left

The modules were written in this order: `PoolContract`, `WorkerPool`, `MCWorkerPool`,
`WorkerPoolProofs`, `DbWorker`, `DbWorkerProofs`, `SqlScript`, `SqlFileParser`, `IniFile`,
`IniReader`, `WorkerConfig`, `PQuery`, `MCPQuery`, `PQueryProofs`, `DbResults`,
`DbResultsProofs`, `LogFile`, `LogFileProofs`, `SqlFileParserProofs`, `DataInduction`,
`IniReaderProofs`.

Left: a proof that `PQuery`'s steps for the pool are those of `PoolContract`, whose set of
workers is a constant while here it is read from the file.
