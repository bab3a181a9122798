----------------------------- MODULE WorkerPool -----------------------------
(***************************************************************************)
(* The multi-process supervisor of pquery: WorkerPool::runAll,              *)
(* ::spawnWorker and ::waitForWorkers (src/src/cWorkerPool.cpp:87-235).     *)
(*                                                                         *)
(* The master process walks through the configured workers, forks one child *)
(* for each, then polls waitpid(-1, WNOHANG), erasing the children it has   *)
(* reaped, sending SIGTERM to those whose deadline has passed and SIGKILL   *)
(* to those that are still there after a grace period.                      *)
(*                                                                         *)
(* Around it the module models the part of the operating system the code    *)
(* relies on: the process table with the reuse of PIDs, zombies, the set of *)
(* children waitpid sees, signals, and a clock that advances between any    *)
(* two steps.  Time is relative: a deadline is the number of ticks that     *)
(* remain, and `lag' the number of ticks since the running scan read `now'. *)
(***************************************************************************)
EXTENDS Integers, FiniteSets

CONSTANTS
  Pids,            \* the process identifiers of the machine
  Master,          \* the PID of the process that runs main()
  NoPid,           \* what an unused pid field holds
  N,               \* how many workers the configuration asks for
  MaxTimeout,      \* bound: no timeout is longer
  Timeouts,        \* the values of the `timeout' key, 0 for "none"
  Grace,           \* SIGTERM_GRACE
  MaxLag,          \* bound: ticks one scan can last after it read the clock
  Inherited,       \* PIDs that may be children of the master from before exec
  ForkFails,       \* TRUE: fork() may return -1
  LogFails,        \* TRUE: a write to the master log may throw
  SigchldIgnored   \* TRUE: pquery was started with SIGCHLD ignored

Workers == 1..N

ASSUME PidAssumption ==
  /\ Master \in Pids
  /\ NoPid \notin Pids
  /\ Inherited \subseteq Pids \ {Master}

ASSUME CountAssumption == N \in Nat

ASSUME TimeAssumption ==
  /\ MaxTimeout \in Nat
  /\ Timeouts \subseteq 0..MaxTimeout
  /\ Grace \in Nat
  /\ MaxLag \in Nat \ {0}

ASSUME FaultAssumption ==
  /\ ForkFails \in BOOLEAN
  /\ LogFails \in BOOLEAN
  /\ SigchldIgnored \in BOOLEAN

VARIABLES
  \* the process table
  pc,            \* where each process is
  at,            \* the element of `params' each process is concerned with
  sig,           \* the signals each process has been sent
  children,      \* the processes whose parent is the master
  \* the memory of the master
  timeoutSecs,   \* params[w].timeout_secs
  childPID,      \* the local of spawnWorker
  active,        \* activeWorkers; always in the order of params
  pidOf,         \* workerProc::pid
  deadline,      \* workerProc::deadline, in ticks from the present
  termSent,      \* workerProc::term_sent
  killDeadline,  \* workerProc::kill_deadline, in ticks from the present
  retvalue,      \* the local of waitForWorkers
  todo,          \* what the for loop over activeWorkers has still to visit
  lag,           \* ticks since `now' was read
  verdict,       \* what runAll returned
  \* history: what really happened, for the properties only
  outcome,       \* how each worker is doing, or its wait status
  age,           \* ticks since the worker was forked
  sinceTerm      \* ticks since SIGTERM was sent to it, -1 if it never was

procVars == <<pc, at, sig, children>>
tableVars == <<active, pidOf, deadline, termSent, killDeadline>>
scanVars == <<todo, lag>>
historyVars == <<outcome, age, sinceTerm>>
vars == <<procVars, timeoutSecs, childPID, tableVars, retvalue, scanVars,
          verdict, historyVars>>

Endings == {"exit0", "exit1", "signal"}

\* Phases of a process in runAll, and the states of the others.
Phases == {"loop", "fork", "forked", "wait", "polled", "scan"}
States == Phases \cup {"none", "child", "foreign", "zombie", "exited"}

Expired == -(MaxLag + 1)   \* a deadline so old that it has no need to age

ProcTypeOK ==
  /\ pc \in [Pids -> States]
  /\ at \in [Pids -> 0..(N + 1)]
  /\ sig \in [Pids -> SUBSET {"SIGTERM", "SIGKILL"}]
  /\ children \subseteq Pids

TableTypeOK ==
  /\ timeoutSecs \in [Workers -> Timeouts]
  /\ childPID \in Pids \cup {NoPid}
  /\ active \subseteq Workers
  /\ pidOf \in [Workers -> Pids \cup {NoPid}]
  /\ deadline \in [Workers -> Expired..MaxTimeout]
  /\ termSent \in [Workers -> BOOLEAN]
  /\ killDeadline \in [Workers -> Expired..Grace]

ScanTypeOK ==
  /\ retvalue \in BOOLEAN
  /\ todo \subseteq active
  /\ lag \in 0..MaxLag
  /\ verdict \in {"none", "success", "failure"}

HistoryTypeOK ==
  /\ outcome \in [Workers -> {"unstarted", "running"} \cup Endings]
  /\ age \in [Workers -> 0..(MaxTimeout + 1)]
  /\ sinceTerm \in [Workers -> -1..(Grace + 1)]

TypeOK == ProcTypeOK /\ TableTypeOK /\ ScanTypeOK /\ HistoryTypeOK

\* The process that runs main() finds itself alone, except for children an
\* earlier program left it when it was exec'ed into pquery.
Init ==
  /\ \E inherited \in SUBSET Inherited :
       /\ children = inherited
       /\ pc = [p \in Pids |-> IF p = Master THEN "loop"
                               ELSE IF p \in inherited THEN "foreign"
                               ELSE "none"]
  /\ at = [p \in Pids |-> IF p = Master THEN 1 ELSE 0]
  /\ sig = [p \in Pids |-> {}]
  /\ timeoutSecs \in [Workers -> Timeouts]
  /\ childPID = NoPid
  /\ active = {}
  /\ pidOf = [w \in Workers |-> NoPid]
  /\ deadline = [w \in Workers |-> 0]
  /\ termSent = [w \in Workers |-> FALSE]
  /\ killDeadline = [w \in Workers |-> 0]
  /\ retvalue = TRUE
  /\ todo = {}
  /\ lag = 0
  /\ verdict = "none"
  /\ outcome = [w \in Workers |-> "unstarted"]
  /\ age = [w \in Workers |-> 0]
  /\ sinceTerm = [w \in Workers |-> -1]

-----------------------------------------------------------------------------
(* runAll and spawnWorker, which a child leaves at once but could re-enter. *)

\* "-> Running worker for ..." and spawnWorker's flushLog.
Announce(p) ==
  /\ pc[p] = "loop"
  /\ at[p] \in Workers
  /\ pc' = [pc EXCEPT ![p] = "fork"]
  /\ UNCHANGED <<at, sig, children, timeoutSecs, childPID, tableVars,
                 retvalue, scanVars, verdict, historyVars>>

\* fork() succeeds: the child starts on the parent's element of params.
Fork(p) ==
  /\ pc[p] = "fork"
  /\ \E c \in Pids :
       /\ pc[c] = "none"
       /\ pc' = [pc EXCEPT ![p] = "forked", ![c] = "child"]
       /\ at' = [at EXCEPT ![c] = at[p]]
       /\ sig' = [sig EXCEPT ![c] = {}]
       /\ children' = IF p = Master THEN children \cup {c} ELSE children
       /\ childPID' = IF p = Master THEN c ELSE childPID
  /\ outcome' = [outcome EXCEPT ![at[p]] = "running"]
  /\ age' = [age EXCEPT ![at[p]] = 0]
  /\ UNCHANGED <<timeoutSecs, tableVars, retvalue, scanVars, verdict,
                 sinceTerm>>

\* "-> Waiting for created worker ...", the workerProc entry, next iteration.
Register(p) ==
  /\ pc[p] = "forked"
  /\ pc' = [pc EXCEPT ![p] = "loop"]
  /\ at' = [at EXCEPT ![p] = at[p] + 1]
  /\ IF p = Master
     THEN /\ active' = active \cup {at[p]}
          /\ pidOf' = [pidOf EXCEPT ![at[p]] = childPID]
          /\ deadline' = [deadline EXCEPT ![at[p]] = timeoutSecs[at[p]]]
          /\ termSent' = [termSent EXCEPT ![at[p]] = FALSE]
          /\ childPID' = NoPid
     ELSE UNCHANGED <<active, pidOf, deadline, termSent, childPID>>
  /\ UNCHANGED <<sig, children, timeoutSecs, killDeadline, retvalue, scanVars,
                 verdict, historyVars>>

\* The loop over params ends and waitForWorkers begins.
LoopDone(p) ==
  /\ pc[p] = "loop"
  /\ at[p] \notin Workers
  /\ pc' = [pc EXCEPT ![p] = "wait"]
  /\ at' = [at EXCEPT ![p] = 0]
  /\ UNCHANGED <<sig, children, timeoutSecs, childPID, tableVars, retvalue,
                 scanVars, verdict, historyVars>>

\* The master returns from main: its zombies disappear, its other children
\* are adopted by init.
MasterReturns(result) ==
  /\ verdict' = result
  /\ pc' = [p \in Pids |->
              IF p = Master THEN "exited"
              ELSE IF pc[p] = "zombie" THEN "none" ELSE pc[p]]
  /\ at' = [p \in Pids |->
              IF p = Master \/ pc[p] = "zombie" THEN 0 ELSE at[p]]
  /\ children' = {}
  /\ todo' = {}
  /\ UNCHANGED <<sig, timeoutSecs, childPID, tableVars, retvalue, lag,
                 historyVars>>

\* A worker that cannot be forked is skipped, and the loop goes on.
ForkErrorSkipsWorker ==
  /\ ForkFails
  /\ pc[Master] = "fork"
  /\ pc' = [pc EXCEPT ![Master] = "loop"]
  /\ at' = [at EXCEPT ![Master] = @ + 1]
  /\ UNCHANGED <<sig, children, timeoutSecs, childPID, tableVars, retvalue,
                 scanVars, verdict, historyVars>>

\* fork() returns -1: eERROR, and runAll returns without waiting for anyone.
ForkError ==
  /\ ForkFails
  /\ pc[Master] = "fork"
  /\ MasterReturns("failure")

-----------------------------------------------------------------------------
(* waitForWorkers                                                          *)

Zombies == {c \in children : pc[c] = "zombie"}

\* The PID of a process that is gone for good is free again.
Vacate(c) ==
  /\ pc' = [pc EXCEPT ![c] = "none"]
  /\ at' = [at EXCEPT ![c] = 0]
  /\ sig' = [sig EXCEPT ![c] = {}]
  /\ children' = children \ {c}

\* Only the exit code is looked at: a worker killed by a signal has code 0.
FailedExitCodeOnly(status) == status = "exit1"

Failed(status) == status # "exit0"

\* The entry found by its PID is left in activeWorkers.
EraseNothing(w) == active

\* The first entry is erased instead of the one that was found.
EraseOldest(w) == {v \in active : \E u \in active : u < v}

Erase(w) == active \ {w}

\* Workers are waited for one after the other, in the order of the list.
ReapWorkerInOrder(w) ==
  /\ pc[Master] = "wait"
  /\ w \in active
  /\ \A v \in active : w <= v
  /\ pidOf[w] \in Zombies
  /\ retvalue' = (retvalue /\ ~Failed(outcome[at[pidOf[w]]]))
  /\ active' = Erase(w)
  /\ Vacate(pidOf[w])
  /\ UNCHANGED <<timeoutSecs, childPID, pidOf, deadline, termSent,
                 killDeadline, scanVars, verdict, historyVars>>

\* waitpid returns the PID of a worker.
ReapWorker(w) ==
  /\ pc[Master] = "wait"
  /\ w \in active
  /\ pidOf[w] \in Zombies
  /\ retvalue' = (retvalue /\ ~Failed(outcome[at[pidOf[w]]]))
  /\ active' = Erase(w)
  /\ Vacate(pidOf[w])
  /\ UNCHANGED <<timeoutSecs, childPID, pidOf, deadline, termSent,
                 killDeadline, scanVars, verdict, historyVars>>

\* waitpid returns a child that is in no entry: straight to the next waitpid.
ReapStranger(c) ==
  /\ pc[Master] = "wait"
  /\ active # {}
  /\ c \in Zombies
  /\ \A w \in active : pidOf[w] # c
  /\ Vacate(c)
  /\ UNCHANGED <<timeoutSecs, childPID, tableVars, retvalue, scanVars,
                 verdict, historyVars>>

\* `while (!activeWorkers.empty())' is left.
AllReaped ==
  /\ pc[Master] = "wait"
  /\ active = {}
  /\ MasterReturns(IF retvalue THEN "success" ELSE "failure")

\* Without the break, the loop polls on although no child is left.
WaitErrorIgnored ==
  /\ pc[Master] = "wait"
  /\ active # {}
  /\ children = {}
  /\ pc' = [pc EXCEPT ![Master] = "polled"]
  /\ UNCHANGED <<at, sig, children, timeoutSecs, childPID, tableVars,
                 retvalue, scanVars, verdict, historyVars>>

\* waitpid returns -1: no child is left.
WaitError ==
  /\ pc[Master] = "wait"
  /\ active # {}
  /\ children = {}
  /\ MasterReturns(IF retvalue THEN "success" ELSE "failure")

\* waitpid returns 0: children are left and none has ended yet.
WaitNone ==
  /\ pc[Master] = "wait"
  /\ active # {}
  /\ children # {}
  /\ Zombies = {}
  /\ pc' = [pc EXCEPT ![Master] = "polled"]
  /\ UNCHANGED <<at, sig, children, timeoutSecs, childPID, tableVars,
                 retvalue, scanVars, verdict, historyVars>>

\* The clock is read, once for the whole scan, and not at waitpid's instant.
ReadClock ==
  /\ pc[Master] = "polled"
  /\ pc' = [pc EXCEPT ![Master] = "scan"]
  /\ todo' = active
  /\ lag' = 0
  /\ UNCHANGED <<at, sig, children, timeoutSecs, childPID, tableVars,
                 retvalue, verdict, historyVars>>

\* The entry the for loop is at.
Visiting(w) ==
  /\ pc[Master] = "scan"
  /\ w \in todo
  /\ \A v \in todo : w <= v

\* The comparison is not strict.
PassedOrReached(d) == d + lag <= 0

\* now > d, where the clock is `lag' ticks past now.
Passed(d) == d + lag < 0

MustTerm(w) == timeoutSecs[w] > 0 /\ ~termSent[w] /\ Passed(deadline[w])

\* The flag is tested the wrong way round.
MustKillBeforeTerm(w) == ~termSent[w] /\ Passed(killDeadline[w])

MustKill(w) == termSent[w] /\ Passed(killDeadline[w])

\* kill(): a zombie or a free PID takes no notice.
Kill(p, s) ==
  sig' = IF pc[p] \in {"child", "foreign"}
         THEN [sig EXCEPT ![p] = @ \cup {s}] ELSE sig

\* The deadline is extended by the worker's own timeout.
KillDeadlineWithTimeout(w) == timeoutSecs[w] + Grace - lag

\* now + SIGTERM_GRACE
KillDeadline(w) == Grace - lag

\* A timeout is not held against the run.
VerdictAfterTermKept == retvalue

VerdictAfterTerm == FALSE

SendTerm(w) ==
  /\ Visiting(w)
  /\ MustTerm(w)
  /\ Kill(pidOf[w], "SIGTERM")
  /\ termSent' = [termSent EXCEPT ![w] = TRUE]
  /\ killDeadline' = [killDeadline EXCEPT ![w] = KillDeadline(w)]
  /\ retvalue' = VerdictAfterTerm
  /\ todo' = todo \ {w}
  /\ sinceTerm' = [sinceTerm EXCEPT ![w] = 0]
  /\ UNCHANGED <<pc, at, children, timeoutSecs, childPID, active, pidOf,
                 deadline, lag, verdict, outcome, age>>

SendKill(w) ==
  /\ Visiting(w)
  /\ ~MustTerm(w)
  /\ MustKill(w)
  /\ Kill(pidOf[w], "SIGKILL")
  /\ todo' = todo \ {w}
  /\ UNCHANGED <<pc, at, children, timeoutSecs, childPID, tableVars, retvalue,
                 lag, verdict, historyVars>>

LeaveAlone(w) ==
  /\ Visiting(w)
  /\ ~MustTerm(w)
  /\ ~MustKill(w)
  /\ todo' = todo \ {w}
  /\ UNCHANGED <<procVars, timeoutSecs, childPID, tableVars, retvalue, lag,
                 verdict, historyVars>>

\* sleep_for(500 ms) and back to the head of the while loop.
ScanDone ==
  /\ pc[Master] = "scan"
  /\ todo = {}
  /\ pc' = [pc EXCEPT ![Master] = "wait"]
  /\ lag' = 0
  /\ UNCHANGED <<at, sig, children, timeoutSecs, childPID, tableVars,
                 retvalue, todo, verdict, historyVars>>

\* addRecordToLog throws, wherever the master is about to write a record:
\* nothing catches it before main, which ends with EXIT_FAILURE.
LogThrows ==
  /\ LogFails
  /\ \/ pc[Master] = "loop" /\ at[Master] \in Workers
     \/ pc[Master] = "forked"
     \/ pc[Master] = "wait" /\ \E w \in active : pidOf[w] \in Zombies
     \/ \E w \in todo : Visiting(w) /\ (MustTerm(w) \/ MustKill(w))
  /\ MasterReturns("failure")

-----------------------------------------------------------------------------
(* The workers, the other processes and the clock                          *)

\* A process ends; its parent, if it wants to know, finds a zombie.
ProcessEnds(c) ==
  IF c \in children /\ ~SigchldIgnored
  THEN /\ pc' = [pc EXCEPT ![c] = "zombie"]
       /\ UNCHANGED <<at, sig, children>>
  ELSE Vacate(c)

\* The child goes on with the loop of runAll instead of returning.
ChildFallsThrough(c, status) ==
  /\ pc[c] = "child"
  /\ pc' = [pc EXCEPT ![c] = "loop"]
  /\ at' = [at EXCEPT ![c] = at[c] + 1]
  /\ UNCHANGED <<sig, children, timeoutSecs, childPID, tableVars, retvalue,
                 scanVars, verdict, historyVars>>

\* executeTests is over, or has crashed: runAll returns eCHILD or eERROR's
\* value in the child, and main exits with it.
ChildReturns(c, status) ==
  /\ pc[c] = "child"
  /\ outcome' = [outcome EXCEPT ![at[c]] = status]
  /\ ProcessEnds(c)
  /\ UNCHANGED <<timeoutSecs, childPID, tableVars, retvalue, scanVars,
                 verdict, age, sinceTerm>>

\* A worker has no handler: the signals sent to it end it.
ChildDiesOf(c, s) ==
  /\ pc[c] = "child"
  /\ s \in sig[c]
  /\ outcome' = [outcome EXCEPT ![at[c]] = "signal"]
  /\ ProcessEnds(c)
  /\ UNCHANGED <<timeoutSecs, childPID, tableVars, retvalue, scanVars,
                 verdict, age, sinceTerm>>

Free == {p \in Pids : pc[p] = "none"}
Unstarted == {w \in Workers : outcome[w] = "unstarted"}

\* Another process of the machine takes a free PID; the table does not fill up.
ForeignStarts(p) ==
  /\ p \in Free
  /\ Cardinality(Free) > Cardinality(Unstarted)
  /\ pc' = [pc EXCEPT ![p] = "foreign"]
  /\ sig' = [sig EXCEPT ![p] = {}]
  /\ UNCHANGED <<at, children, timeoutSecs, childPID, tableVars, retvalue,
                 scanVars, verdict, historyVars>>

ForeignEnds(p) ==
  /\ pc[p] = "foreign"
  /\ ProcessEnds(p)
  /\ UNCHANGED <<timeoutSecs, childPID, tableVars, retvalue, scanVars,
                 verdict, historyVars>>

CountDown(d) == IF d > Expired THEN d - 1 ELSE d

\* A second passes.  The clock stops once the master has returned.
Tick ==
  /\ pc[Master] # "exited"
  /\ IF pc[Master] = "scan"
     THEN lag < MaxLag /\ lag' = lag + 1
     ELSE UNCHANGED lag
  /\ deadline' = [w \in Workers |->
                    IF w \in active /\ timeoutSecs[w] > 0
                    THEN CountDown(deadline[w]) ELSE deadline[w]]
  /\ killDeadline' = [w \in Workers |->
                        IF w \in active /\ termSent[w]
                        THEN CountDown(killDeadline[w]) ELSE killDeadline[w]]
  /\ age' = [w \in Workers |->
               IF outcome[w] # "unstarted" /\ age[w] <= MaxTimeout
               THEN age[w] + 1 ELSE age[w]]
  /\ sinceTerm' = [w \in Workers |->
                     IF sinceTerm[w] \in 0..Grace
                     THEN sinceTerm[w] + 1 ELSE sinceTerm[w]]
  /\ UNCHANGED <<procVars, timeoutSecs, childPID, active, pidOf, termSent,
                 retvalue, todo, verdict, outcome>>

-----------------------------------------------------------------------------
RunAll(p) == Announce(p) \/ Fork(p) \/ Register(p) \/ LoopDone(p)

WaitForWorkers ==
  \/ \E w \in Workers : ReapWorker(w)
  \/ \E c \in Pids : ReapStranger(c)
  \/ AllReaped
  \/ WaitError
  \/ WaitNone
  \/ ReadClock
  \/ \E w \in Workers : SendTerm(w) \/ SendKill(w) \/ LeaveAlone(w)
  \/ ScanDone

Environment ==
  \/ \E c \in Pids, status \in Endings : ChildReturns(c, status)
  \/ \E c \in Pids, s \in {"SIGTERM", "SIGKILL"} : ChildDiesOf(c, s)
  \/ \E p \in Pids : ForeignStarts(p) \/ ForeignEnds(p)
  \/ Tick

Next ==
  \/ \E p \in Pids : RunAll(p)
  \/ ForkError
  \/ WaitForWorkers
  \/ LogThrows
  \/ Environment

Spec == Init /\ [][Next]_vars

\* The master is scheduled, time passes, and SIGKILL cannot be resisted.
\* Workers owe nothing: they may hang, and they may survive SIGTERM.
Fairness ==
  /\ WF_vars(RunAll(Master) \/ WaitForWorkers)
  /\ WF_vars(Tick)
  /\ \A c \in Pids : WF_vars(ChildDiesOf(c, "SIGKILL"))

FairSpec == Spec /\ Fairness

-----------------------------------------------------------------------------
(* Safety                                                                  *)

Abortable == ForkFails \/ LogFails

Overdue == {w \in Workers : sinceTerm[w] >= 0}

\* Each entry of activeWorkers is a child the master has not reaped, so the
\* PID it holds has not been given to another process: what kill() relies on.
ActiveAreChildren ==
  pc[Master] # "exited" =>
    \A w \in active : /\ pidOf[w] \in children
                      /\ pc[pidOf[w]] \in {"child", "zombie"}
                      /\ at[pidOf[w]] = w

\* No process but a worker is ever signalled, however PIDs are reused.
NoStraySignal == \A p \in Pids : pc[p] = "foreign" => sig[p] = {}

\* A worker is run by one process at a time: no child goes on with the
\* loop it inherited, and none is started twice.
OneProcessPerWorker ==
  \A p, q \in Pids :
    /\ pc[p] \in {"child", "zombie"}
    /\ pc[q] \in {"child", "zombie"}
    /\ at[p] = at[q]
    /\ at[p] # 0
    => p = q

\* "success" is returned only if every worker of the configuration was
\* started, ended by itself with status 0 and was not told to stop; and
\* "failure" only if one of them was not so well, or the master broke down.
VerdictIsTruthful ==
  LET allWell == Overdue = {} /\ \A w \in Workers : outcome[w] = "exit0"
  IN  /\ verdict = "success" => allWell
      /\ verdict = "failure" /\ ~Abortable => ~allWell

\* SIGTERM is for the workers that have a timeout, and comes only once more
\* than that time has passed since they were forked.
TermOnlyAfterTimeout ==
  \A w \in Overdue : timeoutSecs[w] > 0 /\ age[w] > timeoutSecs[w]

\* A worker gets SIGKILL only after a SIGTERM it was given the grace period
\* to obey, less the time the scan that sent it had already taken.
KillOnlyAfterGrace ==
  \A p \in Pids :
    pc[p] = "child" /\ "SIGKILL" \in sig[p] =>
      sinceTerm[at[p]] > Grace - MaxLag

-----------------------------------------------------------------------------
(* The contract                                                            *)

Contract == INSTANCE PoolContract WITH
  MayAbort <- Abortable,
  overdue  <- Overdue

\* The pool does what PoolContract says.
ImplementsContract == Contract!Spec

-----------------------------------------------------------------------------
(* Liveness                                                                *)

\* A worker with a timeout ends, whatever it does and ignores.
TimedWorkersEnd ==
  \A w \in Workers :
    outcome[w] = "running" /\ timeoutSecs[w] > 0 ~> outcome[w] # "running"

\* If every worker has a timeout, runAll returns; but with SIGCHLD ignored not
\* as long as a child from before exec lives, for waitpid then neither returns
\* a worker nor fails.
KeptByStranger ==
  SigchldIgnored /\ \E c \in children : pc[c] = "foreign"
PoolReturns ==
  (\A w \in Workers : timeoutSecs[w] > 0) /\ ~KeptByStranger
    ~> verdict # "none"

\* A worker that has ended is taken off the list, even while another one
\* keeps the pool running for ever.
EndedWorkersAreReaped ==
  \A w \in Workers : outcome[w] \in Endings ~> w \notin active
=============================================================================
