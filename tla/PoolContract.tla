---------------------------- MODULE PoolContract ----------------------------
(***************************************************************************)
(* What WorkerPool::runAll (src/src/cWorkerPool.cpp:217-235) promises to    *)
(* cPQuery.cpp and, through the exit status of pquery, to its user: every   *)
(* configured worker is run once, and the verdict says "success" exactly    *)
(* when every worker ended by itself with status 0 and none was stopped for *)
(* exceeding its timeout.  Nothing is said here of processes, of waitpid or *)
(* of clocks; WorkerPool implements this specification.                     *)
(***************************************************************************)
CONSTANTS Workers,   \* the sections of the configuration file to run
          MayAbort   \* TRUE when fork() or a log write may fail in the master

VARIABLES outcome,   \* how each worker is doing, or how it ended
          overdue,   \* the workers told to stop because of their timeout
          verdict    \* what the pool returned, or "none" while it runs

vars == <<outcome, overdue, verdict>>

Endings == {"exit0", "exit1", "signal"}

TypeOK ==
  /\ outcome \in [Workers -> {"unstarted", "running"} \cup Endings]
  /\ overdue \subseteq Workers
  /\ verdict \in {"none", "success", "failure"}

Init ==
  /\ outcome = [w \in Workers |-> "unstarted"]
  /\ overdue = {}
  /\ verdict = "none"

\* A worker is started, once.
Start(w) ==
  /\ verdict = "none"
  /\ outcome[w] = "unstarted"
  /\ outcome' = [outcome EXCEPT ![w] = "running"]
  /\ UNCHANGED <<overdue, verdict>>

\* A worker ends.  Only after an abort can this follow the verdict.
End(w) ==
  /\ outcome[w] = "running"
  /\ \E how \in Endings : outcome' = [outcome EXCEPT ![w] = how]
  /\ UNCHANGED <<overdue, verdict>>

\* A worker is told to stop.  It may just have ended by itself.
Overrun(w) ==
  /\ verdict = "none"
  /\ outcome[w] # "unstarted"
  /\ w \notin overdue
  /\ overdue' = overdue \cup {w}
  /\ UNCHANGED <<outcome, verdict>>

AllWell == overdue = {} /\ \A w \in Workers : outcome[w] = "exit0"

\* The pool returns once every worker has ended.
Decide ==
  /\ verdict = "none"
  /\ \A w \in Workers : outcome[w] \in Endings
  /\ verdict' = IF AllWell THEN "success" ELSE "failure"
  /\ UNCHANGED <<outcome, overdue>>

\* The master gives up early: it cannot fork or cannot write its log.
Abort ==
  /\ MayAbort
  /\ verdict = "none"
  /\ verdict' = "failure"
  /\ UNCHANGED <<outcome, overdue>>

Next ==
  \/ \E w \in Workers : Start(w) \/ End(w) \/ Overrun(w)
  \/ Decide
  \/ Abort

Spec == Init /\ [][Next]_vars
=============================================================================
