------------------------------ MODULE LogFile ------------------------------
(***************************************************************************)
(* The log files of the master and its workers: Logger (src/src/cLogger.cpp)*)
(* used by PQuery::initLogger, WorkerPool::spawnWorker and reinitChildLog.  *)
(* fork() gives the child a copy of the stream, with what is in its buffer, *)
(* and the same open file; reinitChildLog closes that copy and opens a file *)
(* of the worker's own.                                                     *)
(***************************************************************************)
EXTENDS Integers, Sequences

CONSTANTS
  Workers,        \* the workers, which are started in any order
  Master,         \* the master
  MasterPath,     \* logdir and logfile of the section [master]
  AskedPaths,     \* the paths that may be given with -L
  WorkerPaths,    \* the paths that logdir and the names of sections may give
  NoPath,         \* no path: the log is not open, or no -L was given
  Hole,           \* what a file has where nothing was written
  MaxRecords      \* bound: the records a process adds to its log

Processes == Workers \cup {Master}
Paths == {MasterPath} \cup AskedPaths \cup WorkerPaths

ASSUME PathAssumption == NoPath \notin Paths /\ Master \notin Workers

ASSUME BoundAssumption == MaxRecords \in Nat

VARIABLES
  pc,         \* where each process is
  asked,      \* the path given with -L
  workerPath, \* the path reinitChildLog makes for each worker
  pending,    \* pendingLogFilePath, in each process
  opened,     \* the path of the file each process has opened for its log
  stream,     \* the process that opened the file which the stream writes to
  buffer,     \* what the stream of each process has not written yet
  offset,     \* where the file that a process opened is written to next
  content,    \* the files
  added       \* how many records each process has added

vars == <<pc, asked, workerPath, pending, opened, stream, buffer, offset,
          content, added>>

Records == Processes \X Nat

TypeOK ==
  /\ pc \in [Processes -> {"unborn", "init", "forked", "running", "flushed",
                           "ending", "exited", "killed"}]
  /\ asked \in AskedPaths \cup {NoPath}
  /\ workerPath \in [Workers -> WorkerPaths]
  /\ pending \in [Processes -> AskedPaths \cup {NoPath}]
  /\ opened \in [Processes -> Paths \cup {NoPath}]
  /\ stream \in [Processes -> Processes]
  /\ buffer \in [Processes -> Seq(Records)]
  /\ offset \in [Processes -> Nat]
  /\ content \in [Paths -> Seq(Records \cup {Hole})]
  /\ added \in [Processes -> 0..MaxRecords]
  /\ \A p \in Processes : pc[p] \in {"running", "flushed", "ending"} =>
                              opened[p] # NoPath

\* PQuery::initLogger has handed the path given with -L to setLogFilePath.
Init ==
  /\ asked \in AskedPaths \cup {NoPath}
  /\ workerPath \in [Workers -> WorkerPaths]
  /\ pc = [p \in Processes |-> IF p = Master THEN "init" ELSE "unborn"]
  /\ pending = [p \in Processes |-> IF p = Master THEN asked ELSE NoPath]
  /\ opened = [p \in Processes |-> NoPath]
  /\ stream = [p \in Processes |-> p]
  /\ buffer = [p \in Processes |-> <<>>]
  /\ offset = [p \in Processes |-> 0]
  /\ content = [x \in Paths |-> <<>>]
  /\ added = [p \in Processes |-> 0]

GoTo(p, there) == pc' = [pc EXCEPT ![p] = there]

\* The records are written at an offset, over what is there.
Overwrite(file, from, records) ==
  [i \in 1..(IF Len(file) > from + Len(records) THEN Len(file)
             ELSE from + Len(records)) |->
     IF from < i /\ i <= from + Len(records) THEN records[i - from]
     ELSE IF i <= Len(file) THEN file[i] ELSE Hole]

\* What process p has buffered goes to the file its stream writes to.
Flushed(p) ==
  IF buffer[p] = <<>> THEN content
  ELSE [content EXCEPT ![opened[stream[p]]] =
          Overwrite(@, offset[stream[p]], buffer[p])]
Advanced(p) == [offset EXCEPT ![stream[p]] = @ + Len(buffer[p])]

Flush(p) ==
  /\ content' = Flushed(p)
  /\ offset' = Advanced(p)
  /\ buffer' = [buffer EXCEPT ![p] = <<>>]

\* The path given with -L stays in force.
PendingKept(p) == pending[p]

\* The path given with -L is used for one file only.
PendingAfter(p) == NoPath

\* The process goes on.
FailedOpenIgnored == "running"

\* The master returns; a worker throws when it writes its first record.
FailedOpen == "exited"

\* initLogFile: the stream is closed if it is open, and a file opened, which
\* makes it empty; that may fail.
InitLogFile(p, path) ==
  LET target == IF pending[p] # NoPath THEN pending[p] ELSE path
  IN /\ pending' = [pending EXCEPT ![p] = PendingAfter(p)]
     /\ buffer' = [buffer EXCEPT ![p] = <<>>]
     /\ stream' = [stream EXCEPT ![p] = p]
     /\ offset' = [Advanced(p) EXCEPT ![p] = 0]
     /\ \/ /\ opened' = [opened EXCEPT ![p] = target]
           /\ content' = [Flushed(p) EXCEPT ![target] = <<>>]
           /\ GoTo(p, "running")
        \/ /\ UNCHANGED opened
           /\ content' = Flushed(p)
           /\ GoTo(p, FailedOpen)

OpenMasterLog ==
  /\ pc[Master] = "init"
  /\ InitLogFile(Master, MasterPath)
  /\ UNCHANGED <<asked, workerPath, added>>

\* The process runs, and may write records or leave.
Writes(p) == pc[p] \in {"running", "ending"}

AddRecord(p) ==
  /\ Writes(p)
  /\ added[p] < MaxRecords
  /\ added' = [added EXCEPT ![p] = @ + 1]
  /\ buffer' = [buffer EXCEPT ![p] = Append(@, <<p, added[p] + 1>>)]
  /\ UNCHANGED <<pc, asked, workerPath, pending, opened, stream, offset, content>>

\* The buffer is full.
Spill(p) ==
  /\ Writes(p)
  /\ Flush(p)
  /\ UNCHANGED <<pc, asked, workerPath, pending, opened, stream, added>>

\* The master forks at once.
FlushNothing ==
  /\ pc[Master] = "running"
  /\ GoTo(Master, "flushed")
  /\ UNCHANGED <<asked, workerPath, pending, opened, stream, buffer, offset,
                 content, added>>

FlushLog ==
  /\ pc[Master] = "running"
  /\ Flush(Master)
  /\ GoTo(Master, "flushed")
  /\ UNCHANGED <<asked, workerPath, pending, opened, stream, added>>

Fork(w) ==
  /\ pc[Master] = "flushed"
  /\ pc[w] = "unborn"
  /\ pc' = [pc EXCEPT ![Master] = "running", ![w] = "forked"]
  /\ pending' = [pending EXCEPT ![w] = pending[Master]]
  /\ stream' = [stream EXCEPT ![w] = stream[Master]]
  /\ buffer' = [buffer EXCEPT ![w] = buffer[Master]]
  /\ UNCHANGED <<asked, workerPath, opened, offset, content, added>>

\* The pool starts no more workers.
ForkFails ==
  /\ pc[Master] = "flushed"
  /\ GoTo(Master, "ending")
  /\ UNCHANGED <<asked, workerPath, pending, opened, stream, buffer, offset,
                 content, added>>

ReinitChildLog(w) ==
  /\ pc[w] = "forked"
  /\ InitLogFile(w, workerPath[w])
  /\ UNCHANGED <<asked, workerPath, added>>

\* The destructor of Logger closes the file, also when main returns because
\* of an exception.
Exit(p) ==
  /\ Writes(p)
  /\ Flush(p)
  /\ GoTo(p, "exited")
  /\ UNCHANGED <<asked, workerPath, pending, opened, stream, added>>

\* A signal ends a process with no destructor run, and its buffer is lost.
Killed(p) ==
  /\ pc[p] \in {"forked", "running", "flushed", "ending"}
  /\ buffer' = [buffer EXCEPT ![p] = <<>>]
  /\ GoTo(p, "killed")
  /\ UNCHANGED <<asked, workerPath, pending, opened, stream, offset, content,
                 added>>

Next ==
  \/ OpenMasterLog \/ FlushLog \/ ForkFails
  \/ \E w \in Workers : Fork(w) \/ ReinitChildLog(w)
  \/ \E p \in Processes : AddRecord(p) \/ Spill(p) \/ Exit(p) \/ Killed(p)

Spec == Init /\ [][Next]_vars

-----------------------------------------------------------------------------
(* Properties                                                              *)

RecordsOf(p, n) == [i \in 1..n |-> <<p, i>>]

\* The path that the configuration and -L give a process.
PathFor(p) == IF p # Master THEN workerPath[p]
              ELSE IF asked # NoPath THEN asked ELSE MasterPath
HasOwnPath(p) == \A q \in Processes \ {p} : PathFor(q) # PathFor(p)

\* What p has added is in its file, in order and once, but for what p still
\* has in its buffer or had there when it was killed.
InFile(p) == Len(content[PathFor(p)])
LogIsWhole(p) ==
  /\ content[PathFor(p)] = RecordsOf(p, InFile(p))
  /\ pc[p] \in {"running", "flushed", "ending"} =>
        InFile(p) + Len(buffer[p]) = added[p]
  /\ pc[p] = "exited" => InFile(p) = added[p]

\* The master's log has the master's records and nothing else, whatever the
\* workers do: what was buffered at fork() is not written twice, and no child
\* opens the file again.  (cWorkerPool.cpp:91, cLogger.cpp:47-53)
MasterLogIsWhole == HasOwnPath(Master) => LogIsWhole(Master)

\* So it is with the log of a worker that shares its name with no other.
\* (cWorkerPool.cpp:29-35, cLogger.cpp:15-22)
WorkerLogsAreWhole == \A w \in Workers : HasOwnPath(w) => LogIsWhole(w)
=============================================================================
