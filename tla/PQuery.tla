------------------------------- MODULE PQuery -------------------------------
(***************************************************************************)
(* The program from main (src/src/main.cpp) to its exit status: the command *)
(* line, the configuration file, the log, the validation of the sections    *)
(* and the pool.  Of the pool and its workers only what PoolContract        *)
(* promises is here: a worker is started per parameter set, in order; it    *)
(* ends; the pool returns when all have ended, or gives up early.           *)
(***************************************************************************)
EXTENDS WorkerConfig

CONSTANTS
  Files,      \* the configuration files to read
  Builds      \* the sets of drivers pquery may be compiled with

ASSUME FilesAssumption ==
  \A lines \in Files : IsText(lines) /\ \A line \in Range(lines) : IsText(line)

VARIABLES
  pc,         \* where the master is
  status,     \* its exit status
  outcome     \* the workers started so far, and how each is doing

vars == <<readerVars, configVars, pc, status, outcome>>

Endings == {"exit0", "exit1", "signal"}

TypeOK ==
  /\ ReaderTypeOK
  /\ next \in 1..(Len(sections) + 1)
  /\ Len(validParams) < next
  /\ Len(outcome) <= Len(validParams)
  /\ outcome \in Seq({"running"} \cup Endings)
  /\ pc \in {"cli", "open", "read", "log", "check", "pool", "exited"}
  /\ status \in {"none", "success", "failure"}

Init ==
  /\ file \in Files
  /\ drivers \in Builds
  /\ ReaderInit
  /\ ConfigInit
  /\ pc = "cli"
  /\ status = "none"
  /\ outcome = <<>>

Exit(how) == pc' = "exited" /\ status' = how

GoTo(there) == pc' = there /\ UNCHANGED status

\* parseCliOptions returns false for -h and -v.
ParseCliOptions ==
  /\ pc = "cli"
  /\ GoTo("open") \/ Exit("failure")
  /\ UNCHANGED <<readerVars, configVars, outcome>>

\* The constructor of INIReader opens the file.
OpenConfig ==
  /\ pc = "open"
  /\ \/ GoTo("read") /\ UNCHANGED error
     \/ Exit("failure") /\ error' = -1
  /\ UNCHANGED <<file, lineNo, currentSection, sections, map, configVars, outcome>>

ReadConfig ==
  /\ pc = "read"
  /\ ReadLine
  /\ UNCHANGED <<configVars, pc, status, outcome>>

\* initConfig refuses a file with a malformed line.
InitConfig ==
  /\ pc = "read"
  /\ lineNo = Len(file)
  /\ IF error = 0 THEN GoTo("log") ELSE Exit("failure")
  /\ UNCHANGED <<readerVars, configVars, outcome>>

\* The master's log may not open; every record written to it may throw, and
\* main catches that.
InitLogger ==
  /\ pc = "log"
  /\ GoTo("check")
  /\ UNCHANGED <<readerVars, configVars, outcome>>

LogFails ==
  /\ pc \in {"log", "check", "pool"}
  /\ Exit("failure")
  /\ UNCHANGED <<readerVars, configVars, outcome>>

BuildAllWorkerParams ==
  /\ pc = "check"
  /\ CheckSection
  /\ UNCHANGED <<pc, status, outcome>>

\* The sections that are good are run all the same.
ConfigCheckedForAny ==
  /\ pc = "check"
  /\ next > Len(sections)
  /\ IF configOk \/ validParams # <<>> THEN GoTo("pool") ELSE Exit("failure")
  /\ UNCHANGED <<readerVars, configVars, outcome>>

ConfigChecked ==
  /\ pc = "check"
  /\ next > Len(sections)
  /\ IF configOk THEN GoTo("pool") ELSE Exit("failure")
  /\ UNCHANGED <<readerVars, configVars, outcome>>

\* runAll forks a worker for the next parameter set; LogFails has the case
\* that it cannot.
StartWorker ==
  /\ pc = "pool"
  /\ Len(outcome) < Len(validParams)
  /\ outcome' = Append(outcome, "running")
  /\ UNCHANGED <<readerVars, configVars, pc, status>>

\* The worker returns from runAll, and through run and main, with a status of
\* its own; it may also be killed.  It may outlive a master that gave up.
WorkerEnds(w) ==
  /\ outcome[w] = "running"
  /\ \E how \in Endings : outcome' = [outcome EXCEPT ![w] = how]
  /\ UNCHANGED <<readerVars, configVars, pc, status>>

AllWell == \A w \in DOMAIN outcome : outcome[w] = "exit0"

\* The pool returns when no worker is active, before all are started.
PoolReturnsEarly ==
  /\ pc = "pool"
  /\ \A w \in DOMAIN outcome : outcome[w] # "running"
  /\ IF AllWell THEN Exit("success") ELSE Exit("failure")
  /\ UNCHANGED <<readerVars, configVars, outcome>>

\* runAll returns.  A worker that ended well may still have been overdue.
PoolReturns ==
  /\ pc = "pool"
  /\ Len(outcome) = Len(validParams)
  /\ \A w \in DOMAIN outcome : outcome[w] # "running"
  /\ \/ AllWell /\ Exit("success")
     \/ outcome # <<>> /\ Exit("failure")
  /\ UNCHANGED <<readerVars, configVars, outcome>>

Next ==
  \/ ParseCliOptions \/ OpenConfig \/ ReadConfig \/ InitConfig \/ InitLogger
  \/ LogFails \/ BuildAllWorkerParams \/ ConfigChecked \/ StartWorker
  \/ \E w \in DOMAIN outcome : WorkerEnds(w)
  \/ PoolReturns

Spec == Init /\ [][Next]_vars

-----------------------------------------------------------------------------
(* Properties                                                              *)

\* Once the file is read, the reader holds what the file says: the first bad
\* line, the sections in order with their repetitions, and for each key of a
\* section the last value given anywhere under a header of that name.
\* (cIniReader.cpp:116-146)
ReadsTheFile ==
  pc = "read" /\ lineNo = Len(file) =>
    /\ error = IF BadLines(file) = {} THEN 0 ELSE Min(BadLines(file))
    /\ sections = SectionList(file)
    /\ {<<x[1], x[2], map[x]>> : x \in DOMAIN map} = Says(file)

\* What is said of a key in a section, or nothing.
Said(says, section, key) ==
  LET said == {s \in says : s[1] = section /\ s[2] = <<key>>}
  IN IF said = {} THEN <<>> ELSE (CHOOSE s \in said : TRUE)[3]

SaidYes(says, section, key) ==
  Lower(Said(says, section, key)) \in {<<"true">>, <<"yes">>, <<"on">>, <<"1">>}

\* A text that is exactly this number: a sign, digits and a multiplier.
IsNumeral(text, n) ==
  \E i \in DOMAIN text, sign \in {1, -1} :
     /\ i = IF text[1] \in {"-", "+"} THEN 2 ELSE 1
     /\ (sign = -1) = (text[1] = "-")
     /\ text[i] \in DOMAIN Digits
     /\ \E m \in Multipliers(text) : n = sign * Digits[text[i]] * m

\* Every number of a worker is the number the file says, multiplied out, or else
\* the default: it has wrapped around neither in the product nor when it was
\* narrowed to its type.  Ports and numbers of threads are not 0.
\* (cIniReader.cpp:217, cWorkerConfig.cpp:71-121)
NumbersAreExact ==
  validParams # <<>> =>
    LET says == Says(file)
    IN \A w \in DOMAIN validParams : \A key \in NumberKeys :
         LET worker == validParams[w]
             number == worker.number[key]
             text == Said(says, worker.myName, key)
         IN /\ IF text = <<>> THEN number = DefaultNumber(worker.dbtype, key)
                             ELSE IsNumeral(text, number)
            /\ key \in {"port", "threads"} => number # 0

\* The sections of the file that ask to be run, in their order.
RunSections ==
  LET says == Says(file)
      names == SectionList(file)
  IN Picked(names, {i \in DOMAIN names : /\ Lower(names[i]) # <<"master">>
                                         /\ SaidYes(says, names[i], "run")})

\* A worker is started only after the whole file was read without error and
\* every section to be run was found valid: one bad section keeps all the
\* others from running.  (cWorkerConfig.cpp:179-209, cPQuery.cpp:79-97)
AllOrNothing ==
  outcome # <<>> =>
    /\ lineNo = Len(file) /\ error = 0
    /\ \A i \in DOMAIN sections :
          IsSkipped(sections[i]) \/ ParamsAreValid(sections[i])

\* The workers are the sections that the file asks to run, one for each header
\* and in its order.  (cWorkerConfig.cpp:181-198)
WorkersFollowTheFile ==
  outcome # <<>> =>
    [w \in DOMAIN validParams |-> validParams[w].myName] = RunSections

\* Status 0 means that the file was good, that every section to be run had its
\* worker and that each worker ended with status 0.  (main.cpp:13-25)
SuccessMeansAllRan ==
  status = "success" =>
    /\ BadLines(file) = {}
    /\ Len(outcome) = Len(RunSections)
    /\ AllWell

\* A worker logs its succeeded queries if its section says so, with the key
\* the documentation gives.  (cWorkerConfig.cpp:156)
DocumentedKeyWorks ==
  \A w \in DOMAIN validParams :
    validParams[w].flag["log_succeeded_queries"] =
      SaidYes(Says(file), validParams[w].myName, "log-succeeded-queries")
=============================================================================
