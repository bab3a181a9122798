--------------------------- MODULE WorkerPoolProofs ---------------------------
(***************************************************************************)
(* Theorems about WorkerPool, for any number of workers, any set of PIDs,   *)
(* any timeouts and any faults.                                             *)
(*                                                                         *)
(* PhaseInv says where each process can be; with it TypeOK is inductive.    *)
(* LaunchInv and ChildInv relate the processes to the loop of runAll and to *)
(* the entries of activeWorkers, and VerdictInv relates retvalue to what    *)
(* really happened to the workers the master has finished with.  TimeInv    *)
(* relates the deadlines to the time that has passed, and SignalInv the     *)
(* signals sent to both.                                                    *)
(***************************************************************************)
EXTENDS WorkerPool, TLAPS

\* Only the master is ever inside runAll, at an element that exists when it
\* forks, and its scan is over whenever it is not scanning.
PhaseInv ==
  /\ pc[Master] \in Phases \cup {"exited"}
  /\ \A p \in Pids \ {Master} : pc[p] \in {"none", "child", "foreign", "zombie"}
  /\ pc[Master] \in {"fork", "forked"} => at[Master] \in Workers
  /\ pc[Master] = "loop" => at[Master] \in 1..(N + 1)
  /\ pc[Master] \notin {"loop", "fork", "forked"} => at[Master] = 0
  /\ \A p \in Pids : pc[p] = "child" => at[p] \in Workers
  /\ \A p \in Pids : pc[p] \in {"none", "foreign"} => at[p] = 0
  /\ \A p \in Pids : pc[p] = "zombie" => at[p] \in Workers \cup {0}
  /\ pc[Master] # "scan" => todo = {}
  /\ verdict = "none" <=> pc[Master] # "exited"

\* A worker has been started exactly if the loop has passed it, and a process
\* runs it exactly while its outcome is open.
Started ==
  IF pc[Master] \in {"loop", "fork"} THEN {w \in Workers : w < at[Master]}
  ELSE IF pc[Master] = "forked" THEN {w \in Workers : w <= at[Master]}
  ELSE Workers

StartedInv ==
  /\ pc[Master] # "exited" =>
       \A w \in Workers : outcome[w] # "unstarted" <=> w \in Started
  /\ active \subseteq Started
  /\ pc[Master] = "forked" => at[Master] \notin active

OutcomeInv ==
  /\ \A p \in Pids : pc[p] = "child" => outcome[at[p]] = "running"
  /\ \A p \in Pids : pc[p] = "zombie" /\ at[p] # 0 => outcome[at[p]] \in Endings

LaunchInv == StartedInv /\ OutcomeInv /\ OneProcessPerWorker

\* The entries of activeWorkers, and the child about to become one, are
\* children of the master that nobody has reaped.
IsChildOf(p, w) ==
  /\ p \in children
  /\ pc[p] \in {"child", "zombie"}
  /\ at[p] = w

ParentInv ==
  /\ Master \notin children
  /\ pc[Master] = "exited" => children = {}
  /\ \A p \in Pids : pc[p] = "zombie" => p \in children

EntryInv ==
  /\ pc[Master] # "exited" => \A w \in active : IsChildOf(pidOf[w], w)
  /\ pc[Master] = "forked" => IsChildOf(childPID, at[Master])

ChildInv == ParentInv /\ EntryInv

\* What waitForWorkers knows in retvalue is true of the workers it has
\* finished with, and of the ones it told to stop.
Settled == {w \in Started : w \notin active
                           /\ ~(pc[Master] = "forked" /\ w = at[Master])}

Bad == {w \in Workers : outcome[w] \in {"exit1", "signal"}}

RetvalueInv ==
  pc[Master] # "exited" =>
    /\ \A w \in Settled : outcome[w] \in Endings
    /\ retvalue => Overdue = {} /\ \A w \in Settled : outcome[w] = "exit0"
    /\ ~retvalue => Overdue # {} \/ Bad # {}

TruthInv ==
  /\ verdict = "success" =>
       Overdue = {} /\ \A w \in Workers : outcome[w] = "exit0"
  /\ verdict = "failure" /\ ~Abortable => Overdue # {} \/ Bad # {}

VerdictInv == RetvalueInv /\ TruthInv

\* The ages of a worker and of its SIGTERM bound its deadlines from below.
EntryTimeInv ==
  pc[Master] # "exited" =>
    /\ Overdue \subseteq active \cup Settled
    /\ \A w \in active :
         /\ termSent[w] <=> w \in Overdue
         /\ age[w] > MaxTimeout \/ age[w] + deadline[w] >= timeoutSecs[w]
         /\ termSent[w] => \/ sinceTerm[w] > Grace
                           \/ sinceTerm[w] + killDeadline[w] >= Grace - MaxLag

TimeInv == EntryTimeInv /\ TermOnlyAfterTimeout

SignalInv == NoStraySignal /\ KillOnlyAfterGrace

-----------------------------------------------------------------------------
(* Type correctness and the phases of the processes                        *)

USE PidAssumption, CountAssumption, TimeAssumption DEF Workers

\* The typing and phase invariants hold initially.
LEMMA InitTypePhase == Init => TypeOK /\ PhaseInv
  BY DEF Init, TypeOK, ProcTypeOK, TableTypeOK, ScanTypeOK, HistoryTypeOK,
         PhaseInv, States, Phases, Endings, Expired

\* No step leaves the types or the phases.
LEMMA StepTypePhase ==
  ASSUME TypeOK, PhaseInv, [Next]_vars
  PROVE  (TypeOK /\ PhaseInv)'
<1> DEFINE Goal == TypeOK /\ PhaseInv
<1> ProcTypeOK /\ TableTypeOK /\ ScanTypeOK /\ HistoryTypeOK
  BY DEF TypeOK
<1> USE DEF States, Phases, Endings, Expired, tableVars, scanVars, historyVars, procVars
<1> HIDE DEF Goal
<1>1. ASSUME NEW p \in Pids, Announce(p)
      PROVE  Goal'
  <2>m. p = Master
    BY <1>1 DEF Announce, PhaseInv
  <2>1. ProcTypeOK'
    BY <1>1, <2>m DEF ProcTypeOK, Announce
  <2>2. TableTypeOK'
    BY <1>1, <2>m DEF TableTypeOK, Announce
  <2>3. ScanTypeOK'
    BY <1>1, <2>m DEF ScanTypeOK, Announce
  <2>4. HistoryTypeOK'
    BY <1>1, <2>m DEF HistoryTypeOK, Announce
  <2>5. PhaseInv'
    BY <1>1, <2>m DEF PhaseInv, ProcTypeOK, Announce
  <2> QED BY <2>1, <2>2, <2>3, <2>4, <2>5 DEF Goal, TypeOK
<1>2. ASSUME NEW p \in Pids, Fork(p)
      PROVE  Goal'
  <2>m. p = Master
    BY <1>2 DEF Fork, PhaseInv
  <2>1. ProcTypeOK'
    BY <1>2, <2>m DEF ProcTypeOK, Fork
  <2>2. TableTypeOK'
    BY <1>2, <2>m DEF TableTypeOK, Fork
  <2>3. ScanTypeOK'
    BY <1>2, <2>m DEF ScanTypeOK, Fork
  <2>4. HistoryTypeOK'
    BY <1>2, <2>m DEF HistoryTypeOK, PhaseInv, Fork
  <2>5. PhaseInv'
    BY <1>2, <2>m DEF PhaseInv, ProcTypeOK, Fork
  <2> QED BY <2>1, <2>2, <2>3, <2>4, <2>5 DEF Goal, TypeOK
<1>3. ASSUME NEW p \in Pids, Register(p)
      PROVE  Goal'
  <2>m. p = Master
    BY <1>3 DEF Register, PhaseInv
  <2>1. ProcTypeOK'
    BY <1>3, <2>m DEF ProcTypeOK, PhaseInv, Register
  <2>2. TableTypeOK'
    <3>1. at[p] \in Workers
      BY <1>3, <2>m DEF PhaseInv, Register
    <3>2. timeoutSecs[at[p]] \in 0..MaxTimeout
      BY <3>1 DEF TableTypeOK
    <3>3. 0..MaxTimeout \subseteq Expired..MaxTimeout
      OBVIOUS
    <3>4. (timeoutSecs \in [Workers -> Timeouts] /\ childPID \in Pids \cup {NoPid})'
      BY <1>3, <2>m DEF TableTypeOK, Register
    <3>a. /\ active' = active \cup {at[p]}
          /\ pidOf' = [pidOf EXCEPT ![at[p]] = childPID]
      BY <1>3, <2>m DEF Register
    <3>7. (active \subseteq Workers)'
      BY <3>1, <3>a DEF TableTypeOK
    <3>8. (pidOf \in [Workers -> Pids \cup {NoPid}])'
      BY <3>1, <3>a DEF TableTypeOK
    <3>5. (deadline \in [Workers -> Expired..MaxTimeout])'
      BY <1>3, <2>m, <3>1, <3>2, <3>3 DEF TableTypeOK, Register
    <3>6. /\ (termSent \in [Workers -> BOOLEAN])'
          /\ (killDeadline \in [Workers -> Expired..Grace])'
      BY <1>3, <2>m, <3>1 DEF TableTypeOK, Register
    <3> QED BY <3>4, <3>5, <3>6, <3>7, <3>8 DEF TableTypeOK
  <2>3. ScanTypeOK'
    BY <1>3, <2>m DEF ScanTypeOK, Register
  <2>4. HistoryTypeOK'
    BY <1>3, <2>m DEF HistoryTypeOK, Register
  <2>5. PhaseInv'
    BY <1>3, <2>m DEF PhaseInv, ProcTypeOK, Register
  <2> QED BY <2>1, <2>2, <2>3, <2>4, <2>5 DEF Goal, TypeOK
<1>4. ASSUME NEW p \in Pids, LoopDone(p)
      PROVE  Goal'
  <2>m. p = Master
    BY <1>4 DEF LoopDone, PhaseInv
  <2>1. ProcTypeOK'
    BY <1>4, <2>m DEF ProcTypeOK, LoopDone
  <2>2. TableTypeOK'
    BY <1>4, <2>m DEF TableTypeOK, LoopDone
  <2>3. ScanTypeOK'
    BY <1>4, <2>m DEF ScanTypeOK, LoopDone
  <2>4. HistoryTypeOK'
    BY <1>4, <2>m DEF HistoryTypeOK, LoopDone
  <2>5. PhaseInv'
    BY <1>4, <2>m DEF PhaseInv, ProcTypeOK, LoopDone
  <2> QED BY <2>1, <2>2, <2>3, <2>4, <2>5 DEF Goal, TypeOK
<1>5. ASSUME ForkError
      PROVE  Goal'
  <2>1. ProcTypeOK'
    BY <1>5 DEF ProcTypeOK, ForkError, MasterReturns
  <2>2. TableTypeOK'
    BY <1>5 DEF TableTypeOK, ForkError, MasterReturns
  <2>3. ScanTypeOK'
    BY <1>5 DEF ScanTypeOK, ForkError, MasterReturns
  <2>4. HistoryTypeOK'
    BY <1>5 DEF HistoryTypeOK, ForkError, MasterReturns
  <2>5. PhaseInv'
    BY <1>5 DEF PhaseInv, ProcTypeOK, ForkError, MasterReturns
  <2> QED BY <2>1, <2>2, <2>3, <2>4, <2>5 DEF Goal, TypeOK
<1>6. ASSUME NEW w \in Workers, ReapWorker(w)
      PROVE  Goal'
  <2>1. ProcTypeOK'
    BY <1>6 DEF ProcTypeOK, ReapWorker, Erase, Vacate, Zombies, Failed
  <2>2. TableTypeOK'
    BY <1>6 DEF TableTypeOK, ReapWorker, Erase, Vacate, Zombies, Failed
  <2>3. ScanTypeOK'
    BY <1>6 DEF ScanTypeOK, PhaseInv, ReapWorker, Erase, Vacate, Zombies, Failed
  <2>4. HistoryTypeOK'
    BY <1>6 DEF HistoryTypeOK, ReapWorker, Erase, Vacate, Zombies, Failed
  <2>5. PhaseInv'
    BY <1>6 DEF PhaseInv, ProcTypeOK, TableTypeOK, ReapWorker, Erase, Vacate, Zombies, Failed
  <2> QED BY <2>1, <2>2, <2>3, <2>4, <2>5 DEF Goal, TypeOK
<1>7. ASSUME NEW c \in Pids, ReapStranger(c)
      PROVE  Goal'
  <2>1. ProcTypeOK'
    BY <1>7 DEF ProcTypeOK, ReapStranger, Vacate, Zombies
  <2>2. TableTypeOK'
    BY <1>7 DEF TableTypeOK, ReapStranger, Vacate, Zombies
  <2>3. ScanTypeOK'
    BY <1>7 DEF ScanTypeOK, ReapStranger, Vacate, Zombies
  <2>4. HistoryTypeOK'
    BY <1>7 DEF HistoryTypeOK, ReapStranger, Vacate, Zombies
  <2>5. PhaseInv'
    BY <1>7 DEF PhaseInv, ProcTypeOK, ReapStranger, Vacate, Zombies
  <2> QED BY <2>1, <2>2, <2>3, <2>4, <2>5 DEF Goal, TypeOK
<1>8. ASSUME AllReaped
      PROVE  Goal'
  <2>1. ProcTypeOK'
    BY <1>8 DEF ProcTypeOK, AllReaped, MasterReturns
  <2>2. TableTypeOK'
    BY <1>8 DEF TableTypeOK, AllReaped, MasterReturns
  <2>3. ScanTypeOK'
    BY <1>8 DEF ScanTypeOK, AllReaped, MasterReturns
  <2>4. HistoryTypeOK'
    BY <1>8 DEF HistoryTypeOK, AllReaped, MasterReturns
  <2>5. PhaseInv'
    BY <1>8 DEF PhaseInv, ProcTypeOK, AllReaped, MasterReturns
  <2> QED BY <2>1, <2>2, <2>3, <2>4, <2>5 DEF Goal, TypeOK
<1>9. ASSUME WaitError
      PROVE  Goal'
  <2>1. ProcTypeOK'
    BY <1>9 DEF ProcTypeOK, WaitError, MasterReturns
  <2>2. TableTypeOK'
    BY <1>9 DEF TableTypeOK, WaitError, MasterReturns
  <2>3. ScanTypeOK'
    BY <1>9 DEF ScanTypeOK, WaitError, MasterReturns
  <2>4. HistoryTypeOK'
    BY <1>9 DEF HistoryTypeOK, WaitError, MasterReturns
  <2>5. PhaseInv'
    BY <1>9 DEF PhaseInv, ProcTypeOK, WaitError, MasterReturns
  <2> QED BY <2>1, <2>2, <2>3, <2>4, <2>5 DEF Goal, TypeOK
<1>10. ASSUME WaitNone
       PROVE  Goal'
  <2>1. ProcTypeOK'
    BY <1>10 DEF ProcTypeOK, WaitNone
  <2>2. TableTypeOK'
    BY <1>10 DEF TableTypeOK, WaitNone
  <2>3. ScanTypeOK'
    BY <1>10 DEF ScanTypeOK, WaitNone
  <2>4. HistoryTypeOK'
    BY <1>10 DEF HistoryTypeOK, WaitNone
  <2>5. PhaseInv'
    BY <1>10 DEF PhaseInv, ProcTypeOK, WaitNone
  <2> QED BY <2>1, <2>2, <2>3, <2>4, <2>5 DEF Goal, TypeOK
<1>11. ASSUME ReadClock
       PROVE  Goal'
  <2>1. ProcTypeOK'
    BY <1>11 DEF ProcTypeOK, ReadClock
  <2>2. TableTypeOK'
    BY <1>11 DEF TableTypeOK, ReadClock
  <2>3. ScanTypeOK'
    BY <1>11 DEF ScanTypeOK, ReadClock
  <2>4. HistoryTypeOK'
    BY <1>11 DEF HistoryTypeOK, ReadClock
  <2>5. PhaseInv'
    BY <1>11 DEF PhaseInv, ProcTypeOK, ReadClock
  <2> QED BY <2>1, <2>2, <2>3, <2>4, <2>5 DEF Goal, TypeOK
<1>12. ASSUME NEW w \in Workers, SendTerm(w)
       PROVE  Goal'
  <2>1. ProcTypeOK'
    BY <1>12 DEF ProcTypeOK, SendTerm, Visiting, Kill, KillDeadline, VerdictAfterTerm
  <2>2. TableTypeOK'
    BY <1>12 DEF TableTypeOK, ScanTypeOK, SendTerm, Visiting, Kill, KillDeadline, VerdictAfterTerm
  <2>3. ScanTypeOK'
    BY <1>12 DEF ScanTypeOK, SendTerm, Visiting, Kill, KillDeadline, VerdictAfterTerm
  <2>4. HistoryTypeOK'
    BY <1>12 DEF HistoryTypeOK, SendTerm, Visiting, Kill, KillDeadline, VerdictAfterTerm
  <2>5. PhaseInv'
    BY <1>12 DEF PhaseInv, ProcTypeOK, SendTerm, Visiting, Kill, KillDeadline, VerdictAfterTerm
  <2> QED BY <2>1, <2>2, <2>3, <2>4, <2>5 DEF Goal, TypeOK
<1>13. ASSUME NEW w \in Workers, SendKill(w)
       PROVE  Goal'
  <2>1. ProcTypeOK'
    BY <1>13 DEF ProcTypeOK, SendKill, Visiting, Kill
  <2>2. TableTypeOK'
    BY <1>13 DEF TableTypeOK, SendKill, Visiting, Kill
  <2>3. ScanTypeOK'
    BY <1>13 DEF ScanTypeOK, SendKill, Visiting, Kill
  <2>4. HistoryTypeOK'
    BY <1>13 DEF HistoryTypeOK, SendKill, Visiting, Kill
  <2>5. PhaseInv'
    BY <1>13 DEF PhaseInv, ProcTypeOK, SendKill, Visiting, Kill
  <2> QED BY <2>1, <2>2, <2>3, <2>4, <2>5 DEF Goal, TypeOK
<1>14. ASSUME NEW w \in Workers, LeaveAlone(w)
       PROVE  Goal'
  <2>1. ProcTypeOK'
    BY <1>14 DEF ProcTypeOK, LeaveAlone, Visiting
  <2>2. TableTypeOK'
    BY <1>14 DEF TableTypeOK, LeaveAlone, Visiting
  <2>3. ScanTypeOK'
    BY <1>14 DEF ScanTypeOK, LeaveAlone, Visiting
  <2>4. HistoryTypeOK'
    BY <1>14 DEF HistoryTypeOK, LeaveAlone, Visiting
  <2>5. PhaseInv'
    BY <1>14 DEF PhaseInv, ProcTypeOK, LeaveAlone, Visiting
  <2> QED BY <2>1, <2>2, <2>3, <2>4, <2>5 DEF Goal, TypeOK
<1>15. ASSUME ScanDone
       PROVE  Goal'
  <2>1. ProcTypeOK'
    BY <1>15 DEF ProcTypeOK, ScanDone
  <2>2. TableTypeOK'
    BY <1>15 DEF TableTypeOK, ScanDone
  <2>3. ScanTypeOK'
    BY <1>15 DEF ScanTypeOK, ScanDone
  <2>4. HistoryTypeOK'
    BY <1>15 DEF HistoryTypeOK, ScanDone
  <2>5. PhaseInv'
    BY <1>15 DEF PhaseInv, ProcTypeOK, ScanDone
  <2> QED BY <2>1, <2>2, <2>3, <2>4, <2>5 DEF Goal, TypeOK
<1>16. ASSUME LogThrows
       PROVE  Goal'
  <2>1. ProcTypeOK'
    BY <1>16 DEF ProcTypeOK, LogThrows, MasterReturns
  <2>2. TableTypeOK'
    BY <1>16 DEF TableTypeOK, LogThrows, MasterReturns
  <2>3. ScanTypeOK'
    BY <1>16 DEF ScanTypeOK, LogThrows, MasterReturns
  <2>4. HistoryTypeOK'
    BY <1>16 DEF HistoryTypeOK, LogThrows, MasterReturns
  <2>5. PhaseInv'
    BY <1>16 DEF PhaseInv, ProcTypeOK, LogThrows, MasterReturns
  <2> QED BY <2>1, <2>2, <2>3, <2>4, <2>5 DEF Goal, TypeOK
<1>17. ASSUME NEW c \in Pids, NEW status \in Endings, ChildReturns(c, status)
       PROVE  Goal'
  <2>1. ProcTypeOK'
    BY <1>17 DEF ProcTypeOK, ChildReturns, ProcessEnds, Vacate
  <2>2. TableTypeOK'
    BY <1>17 DEF TableTypeOK, ChildReturns, ProcessEnds, Vacate
  <2>3. ScanTypeOK'
    BY <1>17 DEF ScanTypeOK, ChildReturns, ProcessEnds, Vacate
  <2>4. HistoryTypeOK'
    BY <1>17 DEF HistoryTypeOK, ChildReturns, ProcessEnds, Vacate
  <2>5. PhaseInv'
    BY <1>17 DEF PhaseInv, ProcTypeOK, ChildReturns, ProcessEnds, Vacate
  <2> QED BY <2>1, <2>2, <2>3, <2>4, <2>5 DEF Goal, TypeOK
<1>18. ASSUME NEW c \in Pids, NEW s \in {"SIGTERM", "SIGKILL"}, ChildDiesOf(c, s)
       PROVE  Goal'
  <2>1. ProcTypeOK'
    BY <1>18 DEF ProcTypeOK, ChildDiesOf, ProcessEnds, Vacate
  <2>2. TableTypeOK'
    BY <1>18 DEF TableTypeOK, ChildDiesOf, ProcessEnds, Vacate
  <2>3. ScanTypeOK'
    BY <1>18 DEF ScanTypeOK, ChildDiesOf, ProcessEnds, Vacate
  <2>4. HistoryTypeOK'
    BY <1>18 DEF HistoryTypeOK, ChildDiesOf, ProcessEnds, Vacate
  <2>5. PhaseInv'
    BY <1>18 DEF PhaseInv, ProcTypeOK, ChildDiesOf, ProcessEnds, Vacate
  <2> QED BY <2>1, <2>2, <2>3, <2>4, <2>5 DEF Goal, TypeOK
<1>19. ASSUME NEW p \in Pids, ForeignStarts(p)
       PROVE  Goal'
  <2>1. ProcTypeOK'
    BY <1>19 DEF ProcTypeOK, ForeignStarts, Free
  <2>2. TableTypeOK'
    BY <1>19 DEF TableTypeOK, ForeignStarts, Free
  <2>3. ScanTypeOK'
    BY <1>19 DEF ScanTypeOK, ForeignStarts, Free
  <2>4. HistoryTypeOK'
    BY <1>19 DEF HistoryTypeOK, ForeignStarts, Free
  <2>5. PhaseInv'
    BY <1>19 DEF PhaseInv, ProcTypeOK, ForeignStarts, Free
  <2> QED BY <2>1, <2>2, <2>3, <2>4, <2>5 DEF Goal, TypeOK
<1>20. ASSUME NEW p \in Pids, ForeignEnds(p)
       PROVE  Goal'
  <2>1. ProcTypeOK'
    BY <1>20 DEF ProcTypeOK, ForeignEnds, ProcessEnds, Vacate
  <2>2. TableTypeOK'
    BY <1>20 DEF TableTypeOK, ForeignEnds, ProcessEnds, Vacate
  <2>3. ScanTypeOK'
    BY <1>20 DEF ScanTypeOK, ForeignEnds, ProcessEnds, Vacate
  <2>4. HistoryTypeOK'
    BY <1>20 DEF HistoryTypeOK, ForeignEnds, ProcessEnds, Vacate
  <2>5. PhaseInv'
    BY <1>20 DEF PhaseInv, ProcTypeOK, ForeignEnds, ProcessEnds, Vacate
  <2> QED BY <2>1, <2>2, <2>3, <2>4, <2>5 DEF Goal, TypeOK
<1>21. ASSUME Tick
       PROVE  Goal'
  <2>1. ProcTypeOK'
    BY <1>21 DEF ProcTypeOK, Tick, CountDown
  <2>2. TableTypeOK'
    BY <1>21 DEF TableTypeOK, Tick, CountDown
  <2>3. ScanTypeOK'
    BY <1>21 DEF ScanTypeOK, Tick, CountDown
  <2>4. HistoryTypeOK'
    BY <1>21 DEF HistoryTypeOK, Tick, CountDown
  <2>5. PhaseInv'
    BY <1>21 DEF PhaseInv, ProcTypeOK, Tick, CountDown
  <2> QED BY <2>1, <2>2, <2>3, <2>4, <2>5 DEF Goal, TypeOK
<1>22. ASSUME UNCHANGED vars
       PROVE  Goal'
  <2>1. ProcTypeOK'
    BY <1>22 DEF ProcTypeOK, vars
  <2>2. TableTypeOK'
    BY <1>22 DEF TableTypeOK, vars
  <2>3. ScanTypeOK'
    BY <1>22 DEF ScanTypeOK, vars
  <2>4. HistoryTypeOK'
    BY <1>22 DEF HistoryTypeOK, vars
  <2>5. PhaseInv'
    BY <1>22 DEF PhaseInv, ProcTypeOK, vars
  <2> QED BY <2>1, <2>2, <2>3, <2>4, <2>5 DEF Goal, TypeOK
<1>23. ASSUME NEW p \in Pids, RunAll(p)
       PROVE  Goal'
  BY <1>23, <1>1, <1>2, <1>3, <1>4 DEF RunAll
<1>24. ASSUME WaitForWorkers
       PROVE  Goal'
  BY <1>24, <1>6, <1>7, <1>8, <1>9, <1>10, <1>11, <1>12, <1>13, <1>14, <1>15 DEF WaitForWorkers
<1>25. ASSUME Environment
       PROVE  Goal'
  BY <1>25, <1>17, <1>18, <1>19, <1>20, <1>21 DEF Environment
<1> QED
  BY <1>5, <1>16, <1>22, <1>23, <1>24, <1>25 DEF Next, Goal

\* Every state is well typed.
THEOREM TypeCorrect == Spec => [](TypeOK /\ PhaseInv)
<1>1. TypeOK /\ PhaseInv /\ [Next]_vars => (TypeOK /\ PhaseInv)'
  BY StepTypePhase
<1> QED
  BY <1>1, InitTypePhase, PTL DEF Spec

-----------------------------------------------------------------------------
(* Workers and processes                                                   *)

\* A process that ends is not the master; it is a zombie or gone, and no
\* other process is touched.
LEMMA ProcessEndsEffect ==
  ASSUME TypeOK, PhaseInv,
         NEW c \in Pids, pc[c] \in {"child", "foreign"}, ProcessEnds(c)
  PROVE  /\ c # Master
         /\ \A p \in Pids \ {c} : /\ pc'[p] = pc[p]
                                  /\ at'[p] = at[p]
                                  /\ sig'[p] = sig[p]
         /\ \/ /\ c \in children /\ ~SigchldIgnored
               /\ pc'[c] = "zombie" /\ at'[c] = at[c] /\ children' = children
            \/ /\ c \notin children \/ SigchldIgnored
               /\ pc'[c] = "none" /\ at'[c] = 0 /\ children' = children \ {c}
  BY DEF TypeOK, ProcTypeOK, PhaseInv, Phases, ProcessEnds, Vacate

\* fork() makes a child of a free PID for the worker the master is at.
LEMMA ForkEffect ==
  ASSUME TypeOK, PhaseInv, Fork(Master)
  PROVE  /\ at[Master] \in Workers
         /\ \E c \in Pids \ {Master} :
              /\ pc[c] = "none"
              /\ pc' = [pc EXCEPT ![Master] = "forked", ![c] = "child"]
              /\ at' = [at EXCEPT ![c] = at[Master]]
              /\ sig' = [sig EXCEPT ![c] = {}]
              /\ children' = children \cup {c}
              /\ childPID' = c
  BY DEF TypeOK, ProcTypeOK, PhaseInv, Fork

\* Starting a worker, putting it on the list and leaving the loop do not
\* change the set of workers the master has finished with.
LEMMA ForkSettled ==
  ASSUME TypeOK, PhaseInv, Fork(Master)
  PROVE  Settled' = Settled /\ at[Master] \notin Settled \cup Started
<1> ProcTypeOK
  BY DEF TypeOK
<1>1. /\ pc[Master] = "fork" /\ pc'[Master] = "forked"
      /\ at'[Master] = at[Master] /\ at[Master] \in Workers
      /\ active' = active
  BY ForkEffect DEF ProcTypeOK, Fork, tableVars
<1>2. /\ Started = {w \in Workers : w < at[Master]}
      /\ Started' = {w \in Workers : w <= at[Master]}
  BY <1>1 DEF Started
<1>3. /\ Settled = {w \in Started : w \notin active}
      /\ Settled' = {w \in Started' : w \notin active /\ w # at[Master]}
  BY <1>1 DEF Settled
<1> QED
  BY <1>1, <1>2, <1>3

\* Register does not finish with a worker either.
LEMMA RegisterSettled ==
  ASSUME TypeOK, PhaseInv, Register(Master)
  PROVE  /\ Settled' = Settled /\ Started' = Started
         /\ at[Master] \in Started \ Settled
<1> ProcTypeOK
  BY DEF TypeOK
<1>1. /\ pc[Master] = "forked" /\ pc'[Master] = "loop"
      /\ at[Master] \in Workers /\ at'[Master] = at[Master] + 1
      /\ active' = active \cup {at[Master]}
  BY DEF Register, ProcTypeOK, PhaseInv
<1>2. /\ Started = {w \in Workers : w <= at[Master]}
      /\ Started' = {w \in Workers : w < at[Master] + 1}
  BY <1>1 DEF Started
<1>3. /\ Settled = {w \in Started : w \notin active /\ w # at[Master]}
      /\ Settled' = {w \in Started' : w \notin active'}
  BY <1>1 DEF Settled
<1>4. Started' = Started /\ at[Master] \in Started
  BY <1>1, <1>2
<1> QED
  BY <1>1, <1>3, <1>4

\* Nor does LoopDone.
LEMMA LoopDoneSettled ==
  ASSUME TypeOK, PhaseInv, LoopDone(Master)
  PROVE  Settled' = Settled
<1> ProcTypeOK
  BY DEF TypeOK
<1>1. /\ pc[Master] = "loop" /\ pc'[Master] = "wait" /\ at[Master] = N + 1
      /\ active' = active
  BY DEF LoopDone, ProcTypeOK, PhaseInv, tableVars
<1>2. Started = Workers /\ Started' = Workers
  BY <1>1 DEF Started
<1> QED
  BY <1>1, <1>2 DEF Settled

\* The loop, the outcomes and the processes of the workers stay in step.
LEMMA StepLaunch ==
  ASSUME TypeOK, PhaseInv, LaunchInv, [Next]_vars
  PROVE  LaunchInv'
<1> DEFINE Goal == LaunchInv
<1> ProcTypeOK /\ TableTypeOK /\ ScanTypeOK /\ HistoryTypeOK
  BY DEF TypeOK
<1> StartedInv /\ OutcomeInv /\ OneProcessPerWorker
  BY DEF LaunchInv
<1> USE DEF States, Phases, Endings, Expired, tableVars, scanVars, historyVars, procVars
<1> HIDE DEF Goal
<1>1. ASSUME NEW p \in Pids, Announce(p)
      PROVE  Goal'
  <2>m. p = Master
    BY <1>1 DEF Announce, PhaseInv
  <2>1. StartedInv'
    BY <1>1, <2>m DEF StartedInv, Started, PhaseInv, Announce
  <2>2. OutcomeInv'
    BY <1>1, <2>m DEF OutcomeInv, ProcTypeOK, HistoryTypeOK, Announce
  <2>3. OneProcessPerWorker'
    BY <1>1, <2>m DEF OneProcessPerWorker, ProcTypeOK, Announce
  <2> QED BY <2>1, <2>2, <2>3 DEF Goal, LaunchInv
<1>2. ASSUME NEW p \in Pids, Fork(p)
      PROVE  Goal'
  <2>m. p = Master
    BY <1>2 DEF Fork, PhaseInv
  <2>1. StartedInv'
    <3>1. pc'[Master] = "forked" /\ at'[Master] = at[Master]
      BY <1>2, <2>m, ForkEffect DEF ProcTypeOK
    <3>2. /\ pc[Master] = "fork" /\ at[Master] \in Workers
          /\ outcome' = [outcome EXCEPT ![at[Master]] = "running"]
          /\ active' = active
      BY <1>2, <2>m, ForkEffect DEF Fork
    <3>3. /\ Started = {w \in Workers : w < at[Master]}
          /\ Started' = {w \in Workers : w <= at[Master]}
      BY <3>1, <3>2 DEF Started
    <3>4. \A w \in Workers : w \in Started' <=> w \in Started \/ w = at[Master]
      BY <3>2, <3>3
    <3>5. \A w \in Workers : outcome'[w] # "unstarted" <=> w \in Started'
      BY <3>2, <3>4 DEF StartedInv, HistoryTypeOK
    <3>6. active \subseteq Started' /\ at[Master] \notin active
      BY <3>2, <3>3, <3>4 DEF StartedInv, TableTypeOK
    <3> QED BY <3>1, <3>2, <3>5, <3>6 DEF StartedInv
  <2>2. OutcomeInv'
    <3>1. outcome[at[Master]] = "unstarted" /\ at[Master] \in Workers
      BY <1>2, <2>m, ForkEffect DEF StartedInv, Started, Fork, PhaseInv
    <3>2. outcome' = [outcome EXCEPT ![at[Master]] = "running"]
      BY <1>2, <2>m DEF Fork
    <3>3. PICK c \in Pids \ {Master} :
            /\ pc[c] = "none"
            /\ pc' = [pc EXCEPT ![Master] = "forked", ![c] = "child"]
            /\ at' = [at EXCEPT ![c] = at[Master]]
      BY <1>2, <2>m, ForkEffect
    <3>4. ASSUME NEW q \in Pids, pc'[q] \in {"child", "zombie"}, at'[q] # 0, q # c
          PROVE  /\ pc[q] = pc'[q] /\ at[q] = at'[q]
                 /\ at[q] \in Workers
                 /\ outcome'[at[q]] = outcome[at[q]]
      <4>1. pc[q] = pc'[q] /\ at[q] = at'[q]
        BY <3>3, <3>4 DEF ProcTypeOK
      <4>2. at[q] \in Workers /\ outcome[at[q]] # "unstarted"
        BY <3>4, <4>1 DEF OutcomeInv, PhaseInv
      <4> QED BY <3>1, <3>2, <4>1, <4>2 DEF HistoryTypeOK
    <3>5. pc'[c] = "child" /\ at'[c] = at[Master] /\ outcome'[at[Master]] = "running"
      BY <3>1, <3>2, <3>3 DEF ProcTypeOK, HistoryTypeOK
    <3>6. \A q \in Pids : pc'[q] = "child" => at'[q] # 0
      BY <3>1, <3>3 DEF ProcTypeOK, PhaseInv
    <3> QED BY <3>4, <3>5, <3>6 DEF OutcomeInv
  <2>3. OneProcessPerWorker'
    <3>1. outcome[at[Master]] = "unstarted" /\ at[Master] \in Workers
      BY <1>2, <2>m, ForkEffect DEF StartedInv, Started, Fork, PhaseInv
    <3>2. \A q \in Pids : pc[q] \in {"child", "zombie"} => at[q] # at[Master]
      BY <3>1 DEF OutcomeInv
    <3> QED BY <1>2, <2>m, <3>2, ForkEffect DEF OneProcessPerWorker, ProcTypeOK, PhaseInv
  <2> QED BY <2>1, <2>2, <2>3 DEF Goal, LaunchInv
<1>3. ASSUME NEW p \in Pids, Register(p)
      PROVE  Goal'
  <2>m. p = Master
    BY <1>3 DEF Register, PhaseInv
  <2>1. StartedInv'
    <3>1. /\ pc[Master] = "forked" /\ pc'[Master] = "loop"
          /\ at[Master] \in Workers /\ at'[Master] = at[Master] + 1
          /\ active' = active \cup {at[Master]} /\ outcome' = outcome
      BY <1>3, <2>m DEF Register, ProcTypeOK, PhaseInv
    <3>2. /\ Started = {w \in Workers : w <= at[Master]}
          /\ Started' = {w \in Workers : w < at[Master] + 1}
      BY <3>1 DEF Started
    <3>3. Started' = Started /\ at[Master] \in Started
      BY <3>1, <3>2
    <3> QED BY <3>1, <3>3 DEF StartedInv
  <2>2. OutcomeInv'
    BY <1>3, <2>m DEF OutcomeInv, ProcTypeOK, HistoryTypeOK, Register
  <2>3. OneProcessPerWorker'
    BY <1>3, <2>m DEF OneProcessPerWorker, ProcTypeOK, Register
  <2> QED BY <2>1, <2>2, <2>3 DEF Goal, LaunchInv
<1>4. ASSUME NEW p \in Pids, LoopDone(p)
      PROVE  Goal'
  <2>m. p = Master
    BY <1>4 DEF LoopDone, PhaseInv
  <2>1. StartedInv'
    <3>1. /\ pc[Master] = "loop" /\ pc'[Master] = "wait"
          /\ at[Master] = N + 1
          /\ active' = active /\ outcome' = outcome
      BY <1>4, <2>m DEF LoopDone, ProcTypeOK, PhaseInv
    <3> QED BY <3>1 DEF StartedInv, Started, TableTypeOK
  <2>2. OutcomeInv'
    BY <1>4, <2>m DEF OutcomeInv, ProcTypeOK, HistoryTypeOK, LoopDone
  <2>3. OneProcessPerWorker'
    BY <1>4, <2>m DEF OneProcessPerWorker, ProcTypeOK, LoopDone
  <2> QED BY <2>1, <2>2, <2>3 DEF Goal, LaunchInv
<1>5. ASSUME ForkError
      PROVE  Goal'
  <2>1. StartedInv'
    BY <1>5 DEF StartedInv, Started, PhaseInv, ForkError, MasterReturns
  <2>2. OutcomeInv'
    BY <1>5 DEF OutcomeInv, ProcTypeOK, HistoryTypeOK, ForkError, MasterReturns
  <2>3. OneProcessPerWorker'
    BY <1>5 DEF OneProcessPerWorker, ProcTypeOK, ForkError, MasterReturns
  <2> QED BY <2>1, <2>2, <2>3 DEF Goal, LaunchInv
<1>6. ASSUME NEW w \in Workers, ReapWorker(w)
      PROVE  Goal'
  <2>1. StartedInv'
    BY <1>6 DEF StartedInv, Started, PhaseInv, ReapWorker, Erase, Vacate, Zombies, Failed
  <2>2. OutcomeInv'
    BY <1>6 DEF OutcomeInv, ProcTypeOK, HistoryTypeOK, ReapWorker, Erase, Vacate, Zombies, Failed
  <2>3. OneProcessPerWorker'
    BY <1>6 DEF OneProcessPerWorker, ProcTypeOK, ReapWorker, Erase, Vacate, Zombies, Failed
  <2> QED BY <2>1, <2>2, <2>3 DEF Goal, LaunchInv
<1>7. ASSUME NEW c \in Pids, ReapStranger(c)
      PROVE  Goal'
  <2>1. StartedInv'
    BY <1>7 DEF StartedInv, Started, PhaseInv, ReapStranger, Vacate, Zombies
  <2>2. OutcomeInv'
    BY <1>7 DEF OutcomeInv, ProcTypeOK, HistoryTypeOK, ReapStranger, Vacate, Zombies
  <2>3. OneProcessPerWorker'
    BY <1>7 DEF OneProcessPerWorker, ProcTypeOK, ReapStranger, Vacate, Zombies
  <2> QED BY <2>1, <2>2, <2>3 DEF Goal, LaunchInv
<1>8. ASSUME AllReaped
      PROVE  Goal'
  <2>1. StartedInv'
    BY <1>8 DEF StartedInv, Started, PhaseInv, AllReaped, MasterReturns
  <2>2. OutcomeInv'
    BY <1>8 DEF OutcomeInv, ProcTypeOK, HistoryTypeOK, AllReaped, MasterReturns
  <2>3. OneProcessPerWorker'
    BY <1>8 DEF OneProcessPerWorker, ProcTypeOK, AllReaped, MasterReturns
  <2> QED BY <2>1, <2>2, <2>3 DEF Goal, LaunchInv
<1>9. ASSUME WaitError
      PROVE  Goal'
  <2>1. StartedInv'
    BY <1>9 DEF StartedInv, Started, PhaseInv, WaitError, MasterReturns
  <2>2. OutcomeInv'
    BY <1>9 DEF OutcomeInv, ProcTypeOK, HistoryTypeOK, WaitError, MasterReturns
  <2>3. OneProcessPerWorker'
    BY <1>9 DEF OneProcessPerWorker, ProcTypeOK, WaitError, MasterReturns
  <2> QED BY <2>1, <2>2, <2>3 DEF Goal, LaunchInv
<1>10. ASSUME WaitNone
       PROVE  Goal'
  <2>1. StartedInv'
    BY <1>10 DEF StartedInv, Started, PhaseInv, WaitNone
  <2>2. OutcomeInv'
    BY <1>10 DEF OutcomeInv, ProcTypeOK, HistoryTypeOK, WaitNone
  <2>3. OneProcessPerWorker'
    BY <1>10 DEF OneProcessPerWorker, ProcTypeOK, WaitNone
  <2> QED BY <2>1, <2>2, <2>3 DEF Goal, LaunchInv
<1>11. ASSUME ReadClock
       PROVE  Goal'
  <2>1. StartedInv'
    BY <1>11 DEF StartedInv, Started, PhaseInv, ReadClock
  <2>2. OutcomeInv'
    BY <1>11 DEF OutcomeInv, ProcTypeOK, HistoryTypeOK, ReadClock
  <2>3. OneProcessPerWorker'
    BY <1>11 DEF OneProcessPerWorker, ProcTypeOK, ReadClock
  <2> QED BY <2>1, <2>2, <2>3 DEF Goal, LaunchInv
<1>12. ASSUME NEW w \in Workers, SendTerm(w)
       PROVE  Goal'
  <2>1. StartedInv'
    BY <1>12 DEF StartedInv, Started, PhaseInv, SendTerm, Visiting, Kill, KillDeadline, VerdictAfterTerm
  <2>2. OutcomeInv'
    BY <1>12 DEF OutcomeInv, ProcTypeOK, HistoryTypeOK, SendTerm, Visiting, Kill, KillDeadline, VerdictAfterTerm
  <2>3. OneProcessPerWorker'
    BY <1>12 DEF OneProcessPerWorker, ProcTypeOK, SendTerm, Visiting, Kill, KillDeadline, VerdictAfterTerm
  <2> QED BY <2>1, <2>2, <2>3 DEF Goal, LaunchInv
<1>13. ASSUME NEW w \in Workers, SendKill(w)
       PROVE  Goal'
  <2>1. StartedInv'
    BY <1>13 DEF StartedInv, Started, PhaseInv, SendKill, Visiting, Kill
  <2>2. OutcomeInv'
    BY <1>13 DEF OutcomeInv, ProcTypeOK, HistoryTypeOK, SendKill, Visiting, Kill
  <2>3. OneProcessPerWorker'
    BY <1>13 DEF OneProcessPerWorker, ProcTypeOK, SendKill, Visiting, Kill
  <2> QED BY <2>1, <2>2, <2>3 DEF Goal, LaunchInv
<1>14. ASSUME NEW w \in Workers, LeaveAlone(w)
       PROVE  Goal'
  <2>1. StartedInv'
    BY <1>14 DEF StartedInv, Started, PhaseInv, LeaveAlone, Visiting
  <2>2. OutcomeInv'
    BY <1>14 DEF OutcomeInv, ProcTypeOK, HistoryTypeOK, LeaveAlone, Visiting
  <2>3. OneProcessPerWorker'
    BY <1>14 DEF OneProcessPerWorker, ProcTypeOK, LeaveAlone, Visiting
  <2> QED BY <2>1, <2>2, <2>3 DEF Goal, LaunchInv
<1>15. ASSUME ScanDone
       PROVE  Goal'
  <2>1. StartedInv'
    BY <1>15 DEF StartedInv, Started, PhaseInv, ScanDone
  <2>2. OutcomeInv'
    BY <1>15 DEF OutcomeInv, ProcTypeOK, HistoryTypeOK, ScanDone
  <2>3. OneProcessPerWorker'
    BY <1>15 DEF OneProcessPerWorker, ProcTypeOK, ScanDone
  <2> QED BY <2>1, <2>2, <2>3 DEF Goal, LaunchInv
<1>16. ASSUME LogThrows
       PROVE  Goal'
  <2>1. StartedInv'
    BY <1>16 DEF StartedInv, Started, PhaseInv, LogThrows, MasterReturns
  <2>2. OutcomeInv'
    BY <1>16 DEF OutcomeInv, ProcTypeOK, HistoryTypeOK, LogThrows, MasterReturns
  <2>3. OneProcessPerWorker'
    BY <1>16 DEF OneProcessPerWorker, ProcTypeOK, LogThrows, MasterReturns
  <2> QED BY <2>1, <2>2, <2>3 DEF Goal, LaunchInv
<1>17. ASSUME NEW c \in Pids, NEW status \in Endings, ChildReturns(c, status)
       PROVE  Goal'
  <2>1. StartedInv'
    <3>1. /\ pc[c] = "child" /\ ProcessEnds(c) /\ at[c] \in Workers
          /\ outcome' = [outcome EXCEPT ![at[c]] = status] /\ active' = active
      BY <1>17 DEF ChildReturns, PhaseInv, tableVars
    <3>2. pc'[Master] = pc[Master] /\ at'[Master] = at[Master]
      BY <3>1, ProcessEndsEffect, PidAssumption
    <3>3. outcome[at[c]] = "running" /\ outcome'[at[c]] # "unstarted"
      BY <1>17, <3>1 DEF OutcomeInv, HistoryTypeOK, Endings
    <3>4. \A w \in Workers : outcome'[w] # "unstarted" <=> outcome[w] # "unstarted"
      BY <3>1, <3>3 DEF HistoryTypeOK
    <3> QED
      BY <3>1, <3>2, <3>4 DEF StartedInv, Started
  <2>2. OutcomeInv'
    <3>1. /\ pc[c] = "child" /\ ProcessEnds(c) /\ at[c] \in Workers
          /\ outcome' = [outcome EXCEPT ![at[c]] = status]
      BY <1>17 DEF ChildReturns, PhaseInv
    <3>2. ASSUME NEW q \in Pids, q # c, pc'[q] \in {"child", "zombie"}, at'[q] # 0
          PROVE  /\ pc[q] = pc'[q] /\ at[q] = at'[q]
                 /\ outcome'[at[q]] = outcome[at[q]]
      <4>1. pc[q] = pc'[q] /\ at[q] = at'[q]
        BY <3>1, <3>2, ProcessEndsEffect
      <4>2. at[q] \in Workers /\ at[q] # at[c]
        BY <3>1, <3>2, <4>1 DEF OneProcessPerWorker, PhaseInv
      <4> QED BY <3>1, <4>1, <4>2 DEF HistoryTypeOK
    <3>3. pc'[c] # "child" /\ (pc'[c] = "zombie" => at'[c] = at[c])
      BY <3>1, ProcessEndsEffect
    <3>4. outcome'[at[c]] \in Endings
      BY <3>1 DEF HistoryTypeOK
    <3>5. \A q \in Pids : pc'[q] = "child" => at'[q] # 0
      BY <3>1, <3>3, ProcessEndsEffect DEF PhaseInv
    <3> QED BY <3>2, <3>3, <3>4, <3>5 DEF OutcomeInv
  <2>3. OneProcessPerWorker'
    BY <1>17 DEF OneProcessPerWorker, ProcTypeOK, ChildReturns, ProcessEnds, Vacate
  <2> QED BY <2>1, <2>2, <2>3 DEF Goal, LaunchInv
<1>18. ASSUME NEW c \in Pids, NEW s \in {"SIGTERM", "SIGKILL"}, ChildDiesOf(c, s)
       PROVE  Goal'
  <2>1. StartedInv'
    <3>1. /\ pc[c] = "child" /\ ProcessEnds(c) /\ at[c] \in Workers
          /\ outcome' = [outcome EXCEPT ![at[c]] = "signal"] /\ active' = active
      BY <1>18 DEF ChildDiesOf, PhaseInv, tableVars
    <3>2. pc'[Master] = pc[Master] /\ at'[Master] = at[Master]
      BY <3>1, ProcessEndsEffect, PidAssumption
    <3>3. outcome[at[c]] = "running" /\ outcome'[at[c]] # "unstarted"
      BY <1>18, <3>1 DEF OutcomeInv, HistoryTypeOK, Endings
    <3>4. \A w \in Workers : outcome'[w] # "unstarted" <=> outcome[w] # "unstarted"
      BY <3>1, <3>3 DEF HistoryTypeOK
    <3> QED
      BY <3>1, <3>2, <3>4 DEF StartedInv, Started
  <2>2. OutcomeInv'
    <3>1. /\ pc[c] = "child" /\ ProcessEnds(c) /\ at[c] \in Workers
          /\ outcome' = [outcome EXCEPT ![at[c]] = "signal"]
      BY <1>18 DEF ChildDiesOf, PhaseInv
    <3>2. ASSUME NEW q \in Pids, q # c, pc'[q] \in {"child", "zombie"}, at'[q] # 0
          PROVE  /\ pc[q] = pc'[q] /\ at[q] = at'[q]
                 /\ outcome'[at[q]] = outcome[at[q]]
      <4>1. pc[q] = pc'[q] /\ at[q] = at'[q]
        BY <3>1, <3>2, ProcessEndsEffect
      <4>2. at[q] \in Workers /\ at[q] # at[c]
        BY <3>1, <3>2, <4>1 DEF OneProcessPerWorker, PhaseInv
      <4> QED BY <3>1, <4>1, <4>2 DEF HistoryTypeOK
    <3>3. pc'[c] # "child" /\ (pc'[c] = "zombie" => at'[c] = at[c])
      BY <3>1, ProcessEndsEffect
    <3>4. outcome'[at[c]] \in Endings
      BY <3>1 DEF HistoryTypeOK
    <3>5. \A q \in Pids : pc'[q] = "child" => at'[q] # 0
      BY <3>1, <3>3, ProcessEndsEffect DEF PhaseInv
    <3> QED BY <3>2, <3>3, <3>4, <3>5 DEF OutcomeInv
  <2>3. OneProcessPerWorker'
    BY <1>18 DEF OneProcessPerWorker, ProcTypeOK, ChildDiesOf, ProcessEnds, Vacate
  <2> QED BY <2>1, <2>2, <2>3 DEF Goal, LaunchInv
<1>19. ASSUME NEW p \in Pids, ForeignStarts(p)
       PROVE  Goal'
  <2>1. StartedInv'
    BY <1>19 DEF StartedInv, Started, PhaseInv, ForeignStarts, Free
  <2>2. OutcomeInv'
    BY <1>19 DEF OutcomeInv, ProcTypeOK, HistoryTypeOK, ForeignStarts, Free
  <2>3. OneProcessPerWorker'
    BY <1>19 DEF OneProcessPerWorker, ProcTypeOK, ForeignStarts, Free
  <2> QED BY <2>1, <2>2, <2>3 DEF Goal, LaunchInv
<1>20. ASSUME NEW p \in Pids, ForeignEnds(p)
       PROVE  Goal'
  <2>1. StartedInv'
    BY <1>20, ProcessEndsEffect DEF StartedInv, Started, ForeignEnds
  <2>2. OutcomeInv'
    BY <1>20, ProcessEndsEffect DEF OutcomeInv, PhaseInv, ForeignEnds
  <2>3. OneProcessPerWorker'
    BY <1>20, ProcessEndsEffect DEF OneProcessPerWorker, PhaseInv, ForeignEnds
  <2> QED BY <2>1, <2>2, <2>3 DEF Goal, LaunchInv
<1>21. ASSUME Tick
       PROVE  Goal'
  <2>1. StartedInv'
    BY <1>21 DEF StartedInv, Started, PhaseInv, Tick, CountDown
  <2>2. OutcomeInv'
    BY <1>21 DEF OutcomeInv, ProcTypeOK, HistoryTypeOK, Tick, CountDown
  <2>3. OneProcessPerWorker'
    BY <1>21 DEF OneProcessPerWorker, ProcTypeOK, Tick, CountDown
  <2> QED BY <2>1, <2>2, <2>3 DEF Goal, LaunchInv
<1>22. ASSUME UNCHANGED vars
       PROVE  Goal'
  <2>1. StartedInv'
    BY <1>22 DEF StartedInv, Started, PhaseInv, vars
  <2>2. OutcomeInv'
    BY <1>22 DEF OutcomeInv, ProcTypeOK, HistoryTypeOK, vars
  <2>3. OneProcessPerWorker'
    BY <1>22 DEF OneProcessPerWorker, ProcTypeOK, vars
  <2> QED BY <2>1, <2>2, <2>3 DEF Goal, LaunchInv
<1>23. ASSUME NEW p \in Pids, RunAll(p)
       PROVE  Goal'
  BY <1>23, <1>1, <1>2, <1>3, <1>4 DEF RunAll
<1>24. ASSUME WaitForWorkers
       PROVE  Goal'
  BY <1>24, <1>6, <1>7, <1>8, <1>9, <1>10, <1>11, <1>12, <1>13, <1>14, <1>15 DEF WaitForWorkers
<1>25. ASSUME Environment
       PROVE  Goal'
  BY <1>25, <1>17, <1>18, <1>19, <1>20, <1>21 DEF Environment
<1> QED
  BY <1>5, <1>16, <1>22, <1>23, <1>24, <1>25 DEF Next, Goal

\* While SIGCHLD is not ignored, what kill() is about to be given is a child
\* of the master.
LEMMA StepChild ==
  ASSUME ~SigchldIgnored, TypeOK, PhaseInv, ChildInv, [Next]_vars
  PROVE  ChildInv'
<1> DEFINE Goal == ChildInv
<1> ProcTypeOK /\ TableTypeOK /\ ScanTypeOK /\ HistoryTypeOK
  BY DEF TypeOK
<1> ParentInv /\ EntryInv
  BY DEF ChildInv
<1> USE DEF Phases, tableVars, scanVars, historyVars, procVars
<1> HIDE DEF Goal
<1>1. ASSUME NEW p \in Pids, Announce(p)
      PROVE  Goal'
  <2>m. p = Master
    BY <1>1 DEF Announce, PhaseInv
  <2>1. ParentInv'
    BY <1>1, <2>m DEF ParentInv, ProcTypeOK, PhaseInv, Announce
  <2>2. EntryInv'
    BY <1>1, <2>m DEF EntryInv, IsChildOf, ProcTypeOK, TableTypeOK, Announce
  <2> QED BY <2>1, <2>2 DEF Goal, ChildInv
<1>2. ASSUME NEW p \in Pids, Fork(p)
      PROVE  Goal'
  <2>m. p = Master
    BY <1>2 DEF Fork, PhaseInv
  <2>1. ParentInv'
    BY <1>2, <2>m DEF ParentInv, ProcTypeOK, PhaseInv, Fork
  <2>2. EntryInv'
    <3>1. PICK c \in Pids \ {Master} :
            /\ pc[c] = "none"
            /\ pc' = [pc EXCEPT ![Master] = "forked", ![c] = "child"]
            /\ at' = [at EXCEPT ![c] = at[Master]]
            /\ children' = children \cup {c}
            /\ childPID' = c
      BY <1>2, <2>m, ForkEffect
    <3>2. pc[Master] = "fork" /\ active' = active /\ pidOf' = pidOf
      BY <1>2, <2>m DEF Fork
    <3>3. ASSUME NEW q, NEW w, IsChildOf(q, w)
          PROVE  IsChildOf(q, w)'
      BY <3>1, <3>2, <3>3 DEF IsChildOf, ProcTypeOK
    <3>4. IsChildOf(childPID, at[Master])'
      BY <3>1 DEF IsChildOf, ProcTypeOK
    <3> QED BY <3>2, <3>3, <3>4 DEF EntryInv
  <2> QED BY <2>1, <2>2 DEF Goal, ChildInv
<1>3. ASSUME NEW p \in Pids, Register(p)
      PROVE  Goal'
  <2>m. p = Master
    BY <1>3 DEF Register, PhaseInv
  <2>1. ParentInv'
    BY <1>3, <2>m DEF ParentInv, ProcTypeOK, PhaseInv, Register
  <2>2. EntryInv'
    <3>1. /\ pc[Master] = "forked" /\ pc' = [pc EXCEPT ![Master] = "loop"]
          /\ at[Master] \in Workers
          /\ at' = [at EXCEPT ![Master] = at[Master] + 1]
          /\ active' = active \cup {at[Master]} /\ children' = children
          /\ pidOf' = [pidOf EXCEPT ![at[Master]] = childPID]
      BY <1>3, <2>m DEF Register, PhaseInv
    <3>2. ASSUME NEW q, NEW w, IsChildOf(q, w)
          PROVE  IsChildOf(q, w)'
      BY <3>1, <3>2 DEF IsChildOf, ProcTypeOK, ParentInv
    <3>3. IsChildOf(pidOf'[at[Master]], at[Master])
      BY <3>1 DEF EntryInv, TableTypeOK
    <3>4. \A w \in active : IsChildOf(pidOf'[w], w)
      BY <3>1, <3>3 DEF EntryInv, TableTypeOK
    <3>5. pc'[Master] = "loop"
      BY <3>1 DEF ProcTypeOK
    <3> QED BY <3>1, <3>2, <3>3, <3>4, <3>5 DEF EntryInv
  <2> QED BY <2>1, <2>2 DEF Goal, ChildInv
<1>4. ASSUME NEW p \in Pids, LoopDone(p)
      PROVE  Goal'
  <2>m. p = Master
    BY <1>4 DEF LoopDone, PhaseInv
  <2>1. ParentInv'
    BY <1>4, <2>m DEF ParentInv, ProcTypeOK, PhaseInv, LoopDone
  <2>2. EntryInv'
    BY <1>4, <2>m DEF EntryInv, IsChildOf, ProcTypeOK, TableTypeOK, LoopDone
  <2> QED BY <2>1, <2>2 DEF Goal, ChildInv
<1>5. ASSUME ForkError
      PROVE  Goal'
  <2>1. ParentInv'
    BY <1>5 DEF ParentInv, ProcTypeOK, PhaseInv, ForkError, MasterReturns
  <2>2. EntryInv'
    BY <1>5 DEF EntryInv, IsChildOf, ProcTypeOK, TableTypeOK, ForkError, MasterReturns
  <2> QED BY <2>1, <2>2 DEF Goal, ChildInv
<1>6. ASSUME NEW w \in Workers, ReapWorker(w)
      PROVE  Goal'
  <2>1. ParentInv'
    BY <1>6 DEF ParentInv, ProcTypeOK, PhaseInv, ReapWorker, Erase, Vacate, Zombies, Failed
  <2>2. EntryInv'
    BY <1>6 DEF EntryInv, IsChildOf, ProcTypeOK, TableTypeOK, ReapWorker, Erase, Vacate, Zombies, Failed
  <2> QED BY <2>1, <2>2 DEF Goal, ChildInv
<1>7. ASSUME NEW c \in Pids, ReapStranger(c)
      PROVE  Goal'
  <2>1. ParentInv'
    BY <1>7 DEF ParentInv, ProcTypeOK, PhaseInv, ReapStranger, Vacate, Zombies
  <2>2. EntryInv'
    BY <1>7 DEF EntryInv, IsChildOf, ProcTypeOK, TableTypeOK, ReapStranger, Vacate, Zombies
  <2> QED BY <2>1, <2>2 DEF Goal, ChildInv
<1>8. ASSUME AllReaped
      PROVE  Goal'
  <2>1. ParentInv'
    BY <1>8 DEF ParentInv, ProcTypeOK, PhaseInv, AllReaped, MasterReturns
  <2>2. EntryInv'
    BY <1>8 DEF EntryInv, IsChildOf, ProcTypeOK, TableTypeOK, AllReaped, MasterReturns
  <2> QED BY <2>1, <2>2 DEF Goal, ChildInv
<1>9. ASSUME WaitError
      PROVE  Goal'
  <2>1. ParentInv'
    BY <1>9 DEF ParentInv, ProcTypeOK, PhaseInv, WaitError, MasterReturns
  <2>2. EntryInv'
    BY <1>9 DEF EntryInv, IsChildOf, ProcTypeOK, TableTypeOK, WaitError, MasterReturns
  <2> QED BY <2>1, <2>2 DEF Goal, ChildInv
<1>10. ASSUME WaitNone
       PROVE  Goal'
  <2>1. ParentInv'
    BY <1>10 DEF ParentInv, ProcTypeOK, PhaseInv, WaitNone
  <2>2. EntryInv'
    BY <1>10 DEF EntryInv, IsChildOf, ProcTypeOK, TableTypeOK, WaitNone
  <2> QED BY <2>1, <2>2 DEF Goal, ChildInv
<1>11. ASSUME ReadClock
       PROVE  Goal'
  <2>1. ParentInv'
    BY <1>11 DEF ParentInv, ProcTypeOK, PhaseInv, ReadClock
  <2>2. EntryInv'
    BY <1>11 DEF EntryInv, IsChildOf, ProcTypeOK, TableTypeOK, ReadClock
  <2> QED BY <2>1, <2>2 DEF Goal, ChildInv
<1>12. ASSUME NEW w \in Workers, SendTerm(w)
       PROVE  Goal'
  <2>1. ParentInv'
    BY <1>12 DEF ParentInv, ProcTypeOK, PhaseInv, SendTerm, Visiting, Kill, KillDeadline, VerdictAfterTerm
  <2>2. EntryInv'
    BY <1>12 DEF EntryInv, IsChildOf, ProcTypeOK, TableTypeOK, SendTerm, Visiting, Kill, KillDeadline, VerdictAfterTerm
  <2> QED BY <2>1, <2>2 DEF Goal, ChildInv
<1>13. ASSUME NEW w \in Workers, SendKill(w)
       PROVE  Goal'
  <2>1. ParentInv'
    BY <1>13 DEF ParentInv, ProcTypeOK, PhaseInv, SendKill, Visiting, Kill
  <2>2. EntryInv'
    BY <1>13 DEF EntryInv, IsChildOf, ProcTypeOK, TableTypeOK, SendKill, Visiting, Kill
  <2> QED BY <2>1, <2>2 DEF Goal, ChildInv
<1>14. ASSUME NEW w \in Workers, LeaveAlone(w)
       PROVE  Goal'
  <2>1. ParentInv'
    BY <1>14 DEF ParentInv, ProcTypeOK, PhaseInv, LeaveAlone, Visiting
  <2>2. EntryInv'
    BY <1>14 DEF EntryInv, IsChildOf, ProcTypeOK, TableTypeOK, LeaveAlone, Visiting
  <2> QED BY <2>1, <2>2 DEF Goal, ChildInv
<1>15. ASSUME ScanDone
       PROVE  Goal'
  <2>1. ParentInv'
    BY <1>15 DEF ParentInv, ProcTypeOK, PhaseInv, ScanDone
  <2>2. EntryInv'
    BY <1>15 DEF EntryInv, IsChildOf, ProcTypeOK, TableTypeOK, ScanDone
  <2> QED BY <2>1, <2>2 DEF Goal, ChildInv
<1>16. ASSUME LogThrows
       PROVE  Goal'
  <2>1. ParentInv'
    BY <1>16 DEF ParentInv, ProcTypeOK, PhaseInv, LogThrows, MasterReturns
  <2>2. EntryInv'
    BY <1>16 DEF EntryInv, IsChildOf, ProcTypeOK, TableTypeOK, LogThrows, MasterReturns
  <2> QED BY <2>1, <2>2 DEF Goal, ChildInv
<1>17. ASSUME NEW c \in Pids, NEW status \in Endings, ChildReturns(c, status)
       PROVE  Goal'
  <2>1. ParentInv'
    BY <1>17, ProcessEndsEffect DEF ParentInv, ProcTypeOK, PhaseInv, ChildReturns
  <2>2. EntryInv'
    <3>1. /\ pc[c] \in {"child", "foreign"} /\ ProcessEnds(c)
          /\ active' = active /\ pidOf' = pidOf /\ childPID' = childPID
      BY <1>17 DEF ChildReturns
    <3>2. pc'[Master] = pc[Master] /\ at'[Master] = at[Master]
      BY <3>1, ProcessEndsEffect
    <3>3. ASSUME NEW q, NEW w, IsChildOf(q, w)
          PROVE  IsChildOf(q, w)'
      BY <3>1, <3>3, ProcessEndsEffect DEF IsChildOf, ProcTypeOK
    <3> QED BY <3>1, <3>2, <3>3 DEF EntryInv
  <2> QED BY <2>1, <2>2 DEF Goal, ChildInv
<1>18. ASSUME NEW c \in Pids, NEW s \in {"SIGTERM", "SIGKILL"}, ChildDiesOf(c, s)
       PROVE  Goal'
  <2>1. ParentInv'
    BY <1>18, ProcessEndsEffect DEF ParentInv, ProcTypeOK, PhaseInv, ChildDiesOf
  <2>2. EntryInv'
    <3>1. /\ pc[c] \in {"child", "foreign"} /\ ProcessEnds(c)
          /\ active' = active /\ pidOf' = pidOf /\ childPID' = childPID
      BY <1>18 DEF ChildDiesOf
    <3>2. pc'[Master] = pc[Master] /\ at'[Master] = at[Master]
      BY <3>1, ProcessEndsEffect
    <3>3. ASSUME NEW q, NEW w, IsChildOf(q, w)
          PROVE  IsChildOf(q, w)'
      BY <3>1, <3>3, ProcessEndsEffect DEF IsChildOf, ProcTypeOK
    <3> QED BY <3>1, <3>2, <3>3 DEF EntryInv
  <2> QED BY <2>1, <2>2 DEF Goal, ChildInv
<1>19. ASSUME NEW p \in Pids, ForeignStarts(p)
       PROVE  Goal'
  <2>1. ParentInv'
    BY <1>19 DEF ParentInv, ProcTypeOK, PhaseInv, ForeignStarts, Free
  <2>2. EntryInv'
    BY <1>19 DEF EntryInv, IsChildOf, ProcTypeOK, TableTypeOK, ForeignStarts, Free
  <2> QED BY <2>1, <2>2 DEF Goal, ChildInv
<1>20. ASSUME NEW p \in Pids, ForeignEnds(p)
       PROVE  Goal'
  <2>1. ParentInv'
    BY <1>20, ProcessEndsEffect DEF ParentInv, ProcTypeOK, PhaseInv, ForeignEnds
  <2>2. EntryInv'
    <3>1. /\ pc[p] \in {"child", "foreign"} /\ ProcessEnds(p)
          /\ active' = active /\ pidOf' = pidOf /\ childPID' = childPID
      BY <1>20 DEF ForeignEnds
    <3>2. pc'[Master] = pc[Master] /\ at'[Master] = at[Master]
      BY <3>1, ProcessEndsEffect
    <3>3. ASSUME NEW q, NEW w, IsChildOf(q, w)
          PROVE  IsChildOf(q, w)'
      BY <3>1, <3>3, ProcessEndsEffect DEF IsChildOf, ProcTypeOK
    <3> QED BY <3>1, <3>2, <3>3 DEF EntryInv
  <2> QED BY <2>1, <2>2 DEF Goal, ChildInv
<1>21. ASSUME Tick
       PROVE  Goal'
  <2>1. ParentInv'
    BY <1>21 DEF ParentInv, ProcTypeOK, PhaseInv, Tick, CountDown
  <2>2. EntryInv'
    BY <1>21 DEF EntryInv, IsChildOf, ProcTypeOK, TableTypeOK, Tick, CountDown
  <2> QED BY <2>1, <2>2 DEF Goal, ChildInv
<1>22. ASSUME UNCHANGED vars
       PROVE  Goal'
  <2>1. ParentInv'
    BY <1>22 DEF ParentInv, ProcTypeOK, PhaseInv, vars
  <2>2. EntryInv'
    BY <1>22 DEF EntryInv, IsChildOf, ProcTypeOK, TableTypeOK, vars
  <2> QED BY <2>1, <2>2 DEF Goal, ChildInv
<1>23. ASSUME NEW p \in Pids, RunAll(p)
       PROVE  Goal'
  BY <1>23, <1>1, <1>2, <1>3, <1>4 DEF RunAll
<1>24. ASSUME WaitForWorkers
       PROVE  Goal'
  BY <1>24, <1>6, <1>7, <1>8, <1>9, <1>10, <1>11, <1>12, <1>13, <1>14, <1>15 DEF WaitForWorkers
<1>25. ASSUME Environment
       PROVE  Goal'
  BY <1>25, <1>17, <1>18, <1>19, <1>20, <1>21 DEF Environment
<1> QED
  BY <1>5, <1>16, <1>22, <1>23, <1>24, <1>25 DEF Next, Goal

-----------------------------------------------------------------------------
(* The verdict                                                             *)

\* retvalue and the verdict tell the truth about the workers.
LEMMA StepVerdict ==
  ASSUME ~SigchldIgnored, TypeOK, PhaseInv, LaunchInv, ChildInv, VerdictInv,
         [Next]_vars
  PROVE  VerdictInv'
<1> DEFINE Goal == VerdictInv
<1> ProcTypeOK /\ TableTypeOK /\ ScanTypeOK /\ HistoryTypeOK
  BY DEF TypeOK
<1> StartedInv /\ OutcomeInv /\ OneProcessPerWorker
  BY DEF LaunchInv
<1> ParentInv /\ EntryInv
  BY DEF ChildInv
<1> RetvalueInv /\ TruthInv
  BY DEF VerdictInv
<1> USE DEF Phases, tableVars, scanVars, historyVars, procVars, Endings
<1> HIDE DEF Goal
<1>1. ASSUME NEW p \in Pids, Announce(p)
      PROVE  Goal'
  <2>m. p = Master
    BY <1>1 DEF Announce, PhaseInv
  <2>1. RetvalueInv'
    BY <1>1, <2>m DEF RetvalueInv, Settled, Started, Overdue, Bad, Announce
  <2>2. TruthInv'
    BY <1>1, <2>m DEF TruthInv, Overdue, Bad, Announce
  <2> QED BY <2>1, <2>2 DEF Goal, VerdictInv
<1>2. ASSUME NEW p \in Pids, Fork(p)
      PROVE  Goal'
  <2>m. p = Master
    BY <1>2 DEF Fork, PhaseInv
  <2>1. RetvalueInv'
    <3>1. /\ pc[Master] = "fork" /\ pc'[Master] = "forked" /\ at[Master] \in Workers
          /\ outcome' = [outcome EXCEPT ![at[Master]] = "running"]
          /\ retvalue' = retvalue /\ sinceTerm' = sinceTerm
      BY <1>2, <2>m, ForkEffect DEF Fork, ProcTypeOK
    <3>2. Settled' = Settled /\ at[Master] \notin Settled \cup Started
      BY <1>2, <2>m, ForkSettled
    <3>3. outcome[at[Master]] = "unstarted"
      BY <3>1, <3>2 DEF StartedInv, HistoryTypeOK
    <3>4. /\ Overdue' = Overdue
          /\ Bad # {} => Bad' # {}
          /\ \A w \in Settled : outcome'[w] = outcome[w]
      BY <3>1, <3>2, <3>3 DEF Overdue, Bad, HistoryTypeOK, Settled, Started
    <3> QED BY <3>1, <3>2, <3>4 DEF RetvalueInv
  <2>2. TruthInv'
    <3>1. verdict = "none" /\ verdict' = verdict
      BY <1>2, <2>m DEF Fork, PhaseInv
    <3> QED BY <3>1 DEF TruthInv
  <2> QED BY <2>1, <2>2 DEF Goal, VerdictInv
<1>3. ASSUME NEW p \in Pids, Register(p)
      PROVE  Goal'
  <2>m. p = Master
    BY <1>3 DEF Register, PhaseInv
  <2>1. RetvalueInv'
    <3>1. /\ pc[Master] = "forked"
          /\ outcome' = outcome /\ retvalue' = retvalue /\ sinceTerm' = sinceTerm
      BY <1>3, <2>m DEF Register
    <3>2. Settled' = Settled
      BY <1>3, <2>m, RegisterSettled
    <3>3. Overdue' = Overdue /\ Bad' = Bad
      BY <3>1 DEF Overdue, Bad
    <3> QED BY <3>1, <3>2, <3>3 DEF RetvalueInv
  <2>2. TruthInv'
    BY <1>3, <2>m DEF TruthInv, Overdue, Bad, Register
  <2> QED BY <2>1, <2>2 DEF Goal, VerdictInv
<1>4. ASSUME NEW p \in Pids, LoopDone(p)
      PROVE  Goal'
  <2>m. p = Master
    BY <1>4 DEF LoopDone, PhaseInv
  <2>1. RetvalueInv'
    <3>1. /\ pc[Master] = "loop"
          /\ outcome' = outcome /\ retvalue' = retvalue /\ sinceTerm' = sinceTerm
      BY <1>4, <2>m DEF LoopDone
    <3>2. Settled' = Settled
      BY <1>4, <2>m, LoopDoneSettled
    <3>3. Overdue' = Overdue /\ Bad' = Bad
      BY <3>1 DEF Overdue, Bad
    <3> QED BY <3>1, <3>2, <3>3 DEF RetvalueInv
  <2>2. TruthInv'
    BY <1>4, <2>m DEF TruthInv, Overdue, Bad, LoopDone
  <2> QED BY <2>1, <2>2 DEF Goal, VerdictInv
<1>5. ASSUME ForkError
      PROVE  Goal'
  <2>1. RetvalueInv'
    BY <1>5 DEF RetvalueInv, Settled, Started, Overdue, Bad, ForkError, MasterReturns
  <2>2. TruthInv'
    BY <1>5 DEF TruthInv, Abortable, ForkError, MasterReturns
  <2> QED BY <2>1, <2>2 DEF Goal, VerdictInv
<1>6. ASSUME NEW w \in Workers, ReapWorker(w)
      PROVE  Goal'
  <2>1. RetvalueInv'
    <3>1. /\ pc[Master] = "wait" /\ w \in active /\ pidOf[w] \in Zombies
          /\ retvalue' = (retvalue /\ outcome[at[pidOf[w]]] = "exit0")
          /\ active' = active \ {w}
          /\ outcome' = outcome /\ sinceTerm' = sinceTerm
      BY <1>6 DEF ReapWorker, Failed, Erase
    <3>2. at[pidOf[w]] = w /\ outcome[w] \in Endings
      <4>1. at[pidOf[w]] = w /\ pidOf[w] \in Pids /\ pc[pidOf[w]] = "zombie"
        BY <3>1 DEF EntryInv, IsChildOf, Zombies, ProcTypeOK
      <4>2. w # 0
        BY TableTypeOK, <3>1 DEF TableTypeOK
      <4> QED BY <4>1, <4>2 DEF OutcomeInv
    <3>3. Settled = Workers \ active /\ pc'[Master] = "wait"
      BY <1>6, <3>1 DEF Settled, Started, ReapWorker, Vacate, Zombies, ProcTypeOK
    <3>4. Settled' = Settled \cup {w}
      BY <3>1, <3>3 DEF Settled, Started
    <3>5. Overdue' = Overdue /\ Bad' = Bad
      BY <3>1 DEF Overdue, Bad
    <3>6. outcome[w] = "exit0" \/ w \in Bad
      BY <3>2 DEF Bad
    <3> QED BY <3>1, <3>2, <3>3, <3>4, <3>5, <3>6 DEF RetvalueInv
  <2>2. TruthInv'
    BY <1>6 DEF TruthInv, Overdue, Bad, ReapWorker, Erase, Vacate, Zombies, Failed
  <2> QED BY <2>1, <2>2 DEF Goal, VerdictInv
<1>7. ASSUME NEW c \in Pids, ReapStranger(c)
      PROVE  Goal'
  <2>1. RetvalueInv'
    BY <1>7 DEF RetvalueInv, Settled, Started, Overdue, Bad, ReapStranger, Vacate, Zombies
  <2>2. TruthInv'
    BY <1>7 DEF TruthInv, Overdue, Bad, ReapStranger, Vacate, Zombies
  <2> QED BY <2>1, <2>2 DEF Goal, VerdictInv
<1>8. ASSUME AllReaped
      PROVE  Goal'
  <2>1. RetvalueInv'
    BY <1>8 DEF RetvalueInv, Settled, Started, Overdue, Bad, AllReaped, MasterReturns
  <2>2. TruthInv'
    <3>1. /\ verdict' = IF retvalue THEN "success" ELSE "failure"
          /\ outcome' = outcome /\ sinceTerm' = sinceTerm
          /\ pc[Master] = "wait" /\ active = {}
      BY <1>8 DEF AllReaped, MasterReturns
    <3>2. Settled = Workers
      BY <3>1 DEF Settled, Started
    <3> QED BY <3>1, <3>2 DEF TruthInv, RetvalueInv, Overdue, Bad
  <2> QED BY <2>1, <2>2 DEF Goal, VerdictInv
<1>9. ASSUME WaitError
      PROVE  Goal'
  <2>1. RetvalueInv'
    BY <1>9 DEF RetvalueInv, Settled, Started, Overdue, Bad, WaitError, MasterReturns
  <2>2. TruthInv'
    BY <1>9 DEF WaitError, EntryInv, IsChildOf
  <2> QED BY <2>1, <2>2 DEF Goal, VerdictInv
<1>10. ASSUME WaitNone
       PROVE  Goal'
  <2>1. RetvalueInv'
    BY <1>10 DEF RetvalueInv, Settled, Started, Overdue, Bad, WaitNone
  <2>2. TruthInv'
    BY <1>10 DEF TruthInv, Overdue, Bad, WaitNone
  <2> QED BY <2>1, <2>2 DEF Goal, VerdictInv
<1>11. ASSUME ReadClock
       PROVE  Goal'
  <2>1. RetvalueInv'
    BY <1>11 DEF RetvalueInv, Settled, Started, Overdue, Bad, ReadClock
  <2>2. TruthInv'
    BY <1>11 DEF TruthInv, Overdue, Bad, ReadClock
  <2> QED BY <2>1, <2>2 DEF Goal, VerdictInv
<1>12. ASSUME NEW w \in Workers, SendTerm(w)
       PROVE  Goal'
  <2>1. RetvalueInv'
    <3>1. retvalue' = FALSE /\ sinceTerm'[w] = 0
      BY <1>12 DEF SendTerm, VerdictAfterTerm, HistoryTypeOK
    <3>2. /\ pc' = pc /\ at' = at /\ active' = active /\ outcome' = outcome
          /\ pc[Master] # "exited"
      BY <1>12 DEF SendTerm, Visiting
    <3>3. Settled' = Settled
      BY <3>2 DEF Settled, Started
    <3> QED BY <3>1, <3>2, <3>3 DEF RetvalueInv, Overdue
  <2>2. TruthInv'
    <3>1. verdict = "none" /\ verdict' = verdict
      BY <1>12 DEF SendTerm, Visiting, PhaseInv
    <3> QED BY <3>1 DEF TruthInv
  <2> QED BY <2>1, <2>2 DEF Goal, VerdictInv
<1>13. ASSUME NEW w \in Workers, SendKill(w)
       PROVE  Goal'
  <2>1. RetvalueInv'
    BY <1>13 DEF RetvalueInv, Settled, Started, Overdue, Bad, SendKill, Visiting, Kill
  <2>2. TruthInv'
    BY <1>13 DEF TruthInv, Overdue, Bad, SendKill, Visiting, Kill
  <2> QED BY <2>1, <2>2 DEF Goal, VerdictInv
<1>14. ASSUME NEW w \in Workers, LeaveAlone(w)
       PROVE  Goal'
  <2>1. RetvalueInv'
    BY <1>14 DEF RetvalueInv, Settled, Started, Overdue, Bad, LeaveAlone, Visiting
  <2>2. TruthInv'
    BY <1>14 DEF TruthInv, Overdue, Bad, LeaveAlone, Visiting
  <2> QED BY <2>1, <2>2 DEF Goal, VerdictInv
<1>15. ASSUME ScanDone
       PROVE  Goal'
  <2>1. RetvalueInv'
    BY <1>15 DEF RetvalueInv, Settled, Started, Overdue, Bad, ScanDone
  <2>2. TruthInv'
    BY <1>15 DEF TruthInv, Overdue, Bad, ScanDone
  <2> QED BY <2>1, <2>2 DEF Goal, VerdictInv
<1>16. ASSUME LogThrows
       PROVE  Goal'
  <2>1. RetvalueInv'
    BY <1>16 DEF RetvalueInv, Settled, Started, Overdue, Bad, LogThrows, MasterReturns
  <2>2. TruthInv'
    BY <1>16 DEF TruthInv, Abortable, LogThrows, MasterReturns
  <2> QED BY <2>1, <2>2 DEF Goal, VerdictInv
<1>17. ASSUME NEW c \in Pids, NEW status \in Endings, ChildReturns(c, status)
       PROVE  Goal'
  <2>1. RetvalueInv'
    <3>1. /\ pc[c] = "child" /\ ProcessEnds(c) /\ at[c] \in Workers
          /\ outcome' = [outcome EXCEPT ![at[c]] = status]
          /\ active' = active /\ retvalue' = retvalue /\ sinceTerm' = sinceTerm
      BY <1>17 DEF ChildReturns, PhaseInv
    <3>2. outcome[at[c]] = "running"
      BY <3>1 DEF OutcomeInv
    <3>3. pc'[Master] = pc[Master] /\ at'[Master] = at[Master]
      BY <3>1, ProcessEndsEffect
    <3>4. Started' = Started /\ Settled' = Settled
      BY <3>1, <3>3 DEF Settled, Started
    <3>5. Overdue' = Overdue /\ (Bad # {} => Bad' # {})
      BY <3>1, <3>2 DEF Overdue, Bad, HistoryTypeOK
    <3>6. ASSUME NEW w \in Settled, outcome[w] = "exit0"
          PROVE  outcome'[w] = "exit0"
      BY <3>1, <3>2, <3>6 DEF HistoryTypeOK, Settled, Started
    <3> QED BY <3>1, <3>3, <3>4, <3>5, <3>6 DEF RetvalueInv
  <2>2. TruthInv'
    <3>1. /\ pc[c] = "child" /\ at[c] \in Workers
          /\ outcome' = [outcome EXCEPT ![at[c]] = status]
          /\ verdict' = verdict /\ sinceTerm' = sinceTerm
      BY <1>17 DEF ChildReturns, PhaseInv
    <3>2. outcome[at[c]] = "running"
      BY <3>1 DEF OutcomeInv
    <3>3. Overdue' = Overdue /\ (Bad # {} => Bad' # {})
      BY <3>1, <3>2 DEF Overdue, Bad, HistoryTypeOK
    <3> QED BY <3>1, <3>2, <3>3 DEF TruthInv
  <2> QED BY <2>1, <2>2 DEF Goal, VerdictInv
<1>18. ASSUME NEW c \in Pids, NEW s \in {"SIGTERM", "SIGKILL"}, ChildDiesOf(c, s)
       PROVE  Goal'
  <2>1. RetvalueInv'
    <3>1. /\ pc[c] = "child" /\ ProcessEnds(c) /\ at[c] \in Workers
          /\ outcome' = [outcome EXCEPT ![at[c]] = "signal"]
          /\ active' = active /\ retvalue' = retvalue /\ sinceTerm' = sinceTerm
      BY <1>18 DEF ChildDiesOf, PhaseInv
    <3>2. outcome[at[c]] = "running"
      BY <3>1 DEF OutcomeInv
    <3>3. pc'[Master] = pc[Master] /\ at'[Master] = at[Master]
      BY <3>1, ProcessEndsEffect
    <3>4. Started' = Started /\ Settled' = Settled
      BY <3>1, <3>3 DEF Settled, Started
    <3>5. Overdue' = Overdue /\ (Bad # {} => Bad' # {})
      BY <3>1, <3>2 DEF Overdue, Bad, HistoryTypeOK
    <3>6. ASSUME NEW w \in Settled, outcome[w] = "exit0"
          PROVE  outcome'[w] = "exit0"
      BY <3>1, <3>2, <3>6 DEF HistoryTypeOK, Settled, Started
    <3> QED BY <3>1, <3>3, <3>4, <3>5, <3>6 DEF RetvalueInv
  <2>2. TruthInv'
    <3>1. /\ pc[c] = "child" /\ at[c] \in Workers
          /\ outcome' = [outcome EXCEPT ![at[c]] = "signal"]
          /\ verdict' = verdict /\ sinceTerm' = sinceTerm
      BY <1>18 DEF ChildDiesOf, PhaseInv
    <3>2. outcome[at[c]] = "running"
      BY <3>1 DEF OutcomeInv
    <3>3. Overdue' = Overdue /\ (Bad # {} => Bad' # {})
      BY <3>1, <3>2 DEF Overdue, Bad, HistoryTypeOK
    <3> QED BY <3>1, <3>2, <3>3 DEF TruthInv
  <2> QED BY <2>1, <2>2 DEF Goal, VerdictInv
<1>19. ASSUME NEW p \in Pids, ForeignStarts(p)
       PROVE  Goal'
  <2>1. RetvalueInv'
    BY <1>19 DEF RetvalueInv, Settled, Started, Overdue, Bad, ForeignStarts, Free
  <2>2. TruthInv'
    BY <1>19 DEF TruthInv, Overdue, Bad, ForeignStarts, Free
  <2> QED BY <2>1, <2>2 DEF Goal, VerdictInv
<1>20. ASSUME NEW p \in Pids, ForeignEnds(p)
       PROVE  Goal'
  <2>1. RetvalueInv'
    <3>1. /\ pc[p] = "foreign" /\ ProcessEnds(p)
          /\ outcome' = outcome /\ active' = active
          /\ retvalue' = retvalue /\ sinceTerm' = sinceTerm
      BY <1>20 DEF ForeignEnds
    <3>2. pc'[Master] = pc[Master] /\ at'[Master] = at[Master]
      BY <3>1, ProcessEndsEffect
    <3>3. Settled' = Settled /\ Overdue' = Overdue /\ Bad' = Bad
      BY <3>1, <3>2 DEF Settled, Started, Overdue, Bad
    <3> QED BY <3>1, <3>2, <3>3 DEF RetvalueInv
  <2>2. TruthInv'
    BY <1>20, ProcessEndsEffect DEF TruthInv, Overdue, Bad, HistoryTypeOK, OutcomeInv, PhaseInv, ForeignEnds
  <2> QED BY <2>1, <2>2 DEF Goal, VerdictInv
<1>21. ASSUME Tick
       PROVE  Goal'
  <2>1. RetvalueInv'
    BY <1>21 DEF RetvalueInv, Settled, Started, Overdue, Bad, Tick, CountDown
  <2>2. TruthInv'
    <3>1. verdict = "none" /\ verdict' = verdict
      BY <1>21 DEF Tick, PhaseInv
    <3> QED BY <3>1 DEF TruthInv
  <2> QED BY <2>1, <2>2 DEF Goal, VerdictInv
<1>22. ASSUME UNCHANGED vars
       PROVE  Goal'
  <2>1. RetvalueInv'
    BY <1>22 DEF RetvalueInv, Settled, Started, Overdue, Bad, vars
  <2>2. TruthInv'
    BY <1>22 DEF TruthInv, Overdue, Bad, vars
  <2> QED BY <2>1, <2>2 DEF Goal, VerdictInv
<1>23. ASSUME NEW p \in Pids, RunAll(p)
       PROVE  Goal'
  BY <1>23, <1>1, <1>2, <1>3, <1>4 DEF RunAll
<1>24. ASSUME WaitForWorkers
       PROVE  Goal'
  BY <1>24, <1>6, <1>7, <1>8, <1>9, <1>10, <1>11, <1>12, <1>13, <1>14, <1>15 DEF WaitForWorkers
<1>25. ASSUME Environment
       PROVE  Goal'
  BY <1>25, <1>17, <1>18, <1>19, <1>20, <1>21 DEF Environment
<1> QED
  BY <1>5, <1>16, <1>22, <1>23, <1>24, <1>25 DEF Next, Goal

-----------------------------------------------------------------------------
(* Time and signals                                                        *)

\* Timeouts, deadlines and ages are numbers.
LEMMA TimesAreNumbers ==
  ASSUME TableTypeOK, HistoryTypeOK, NEW w \in Workers
  PROVE  /\ timeoutSecs[w] \in 0..MaxTimeout
         /\ deadline[w] \in Int /\ killDeadline[w] \in Int
         /\ age[w] \in Nat /\ sinceTerm[w] \in Int
<1>1. timeoutSecs[w] \in Timeouts
  BY DEF TableTypeOK
<1>2. deadline[w] \in Expired..MaxTimeout /\ killDeadline[w] \in Expired..Grace
  BY DEF TableTypeOK
<1>3. age[w] \in 0..(MaxTimeout + 1) /\ sinceTerm[w] \in -1..(Grace + 1)
  BY DEF HistoryTypeOK
<1>4. timeoutSecs[w] \in 0..MaxTimeout
  BY <1>1
<1>5. deadline[w] \in Int /\ killDeadline[w] \in Int
  BY <1>2 DEF Expired
<1>6. age[w] \in Nat /\ sinceTerm[w] \in Int
  BY <1>3
<1> QED
  BY <1>4, <1>5, <1>6

\* Deadlines are not early.
LEMMA StepTime ==
  ASSUME TypeOK, PhaseInv, LaunchInv, TimeInv, [Next]_vars
  PROVE  TimeInv'
<1> DEFINE Goal == TimeInv
<1> ProcTypeOK /\ TableTypeOK /\ ScanTypeOK /\ HistoryTypeOK
  BY DEF TypeOK
<1> StartedInv
  BY DEF LaunchInv
<1> EntryTimeInv /\ TermOnlyAfterTimeout
  BY DEF TimeInv
<1> USE DEF Phases, tableVars, scanVars, historyVars, procVars, Endings
<1> HIDE DEF Goal
<1>1. ASSUME NEW p \in Pids, Announce(p)
      PROVE  Goal'
  <2>m. p = Master
    BY <1>1 DEF Announce, PhaseInv
  <2>1. EntryTimeInv'
    BY <1>1, <2>m DEF EntryTimeInv, Settled, Started, Overdue, Announce
  <2>2. TermOnlyAfterTimeout'
    BY <1>1, <2>m DEF TermOnlyAfterTimeout, Overdue, HistoryTypeOK, TableTypeOK, Announce
  <2> QED BY <2>1, <2>2 DEF Goal, TimeInv
<1>2. ASSUME NEW p \in Pids, Fork(p)
      PROVE  Goal'
  <2>m. p = Master
    BY <1>2 DEF Fork, PhaseInv
  <2>1. EntryTimeInv'
    <3>1. /\ pc[Master] = "fork" /\ at[Master] \in Workers
          /\ active' = active /\ sinceTerm' = sinceTerm
          /\ timeoutSecs' = timeoutSecs /\ deadline' = deadline
          /\ termSent' = termSent /\ killDeadline' = killDeadline
          /\ age' = [age EXCEPT ![at[Master]] = 0]
      BY <1>2, <2>m, ForkEffect DEF Fork
    <3>2. Settled' = Settled /\ at[Master] \notin Settled \cup active
      BY <1>2, <2>m, ForkSettled DEF StartedInv
    <3>3. Overdue' = Overdue /\ Overdue \subseteq active \cup Settled
      BY <3>1 DEF Overdue, EntryTimeInv
    <3>4. \A w \in active : age'[w] = age[w]
      BY <3>1, <3>2 DEF HistoryTypeOK, TableTypeOK
    <3> QED BY <3>1, <3>2, <3>3, <3>4 DEF EntryTimeInv
  <2>2. TermOnlyAfterTimeout'
    <3>1. /\ pc[Master] = "fork" /\ at[Master] \in Workers
          /\ active' = active /\ sinceTerm' = sinceTerm
          /\ timeoutSecs' = timeoutSecs /\ deadline' = deadline
          /\ termSent' = termSent /\ killDeadline' = killDeadline
          /\ age' = [age EXCEPT ![at[Master]] = 0]
      BY <1>2, <2>m, ForkEffect DEF Fork
    <3>2. Settled' = Settled /\ at[Master] \notin Settled \cup active
      BY <1>2, <2>m, ForkSettled DEF StartedInv
    <3>3. Overdue' = Overdue /\ Overdue \subseteq active \cup Settled
      BY <3>1 DEF Overdue, EntryTimeInv
    <3>4. \A w \in Overdue : age'[w] = age[w]
      BY <3>1, <3>2, <3>3 DEF HistoryTypeOK, Overdue
    <3> QED BY <3>1, <3>3, <3>4 DEF TermOnlyAfterTimeout
  <2> QED BY <2>1, <2>2 DEF Goal, TimeInv
<1>3. ASSUME NEW p \in Pids, Register(p)
      PROVE  Goal'
  <2>m. p = Master
    BY <1>3 DEF Register, PhaseInv
  <2>1. EntryTimeInv'
    <3>1. /\ pc[Master] = "forked" /\ at[Master] \in Workers
          /\ active' = active \cup {at[Master]}
          /\ sinceTerm' = sinceTerm /\ age' = age
          /\ timeoutSecs' = timeoutSecs /\ killDeadline' = killDeadline
          /\ deadline' = [deadline EXCEPT ![at[Master]] = timeoutSecs[at[Master]]]
          /\ termSent' = [termSent EXCEPT ![at[Master]] = FALSE]
      BY <1>3, <2>m DEF Register, PhaseInv
    <3>2. Settled' = Settled /\ at[Master] \notin Settled \cup active
      BY <1>3, <2>m, <3>1, RegisterSettled DEF StartedInv
    <3>3. /\ Overdue' = Overdue /\ Overdue \subseteq active \cup Settled
          /\ at[Master] \notin Overdue
      BY <3>1, <3>2 DEF Overdue, EntryTimeInv
    <3>4. \A w \in active : deadline'[w] = deadline[w] /\ termSent'[w] = termSent[w]
      BY <3>1, <3>2 DEF TableTypeOK
    <3>5. /\ deadline'[at[Master]] = timeoutSecs[at[Master]]
          /\ termSent'[at[Master]] = FALSE
      BY <3>1 DEF TableTypeOK
    <3>6. age[at[Master]] + timeoutSecs[at[Master]] >= timeoutSecs[at[Master]]
      <4>1. age[at[Master]] \in Nat /\ timeoutSecs[at[Master]] \in Nat
        BY <3>1, TimesAreNumbers
      <4> QED BY <4>1
    <3> QED BY <3>1, <3>2, <3>3, <3>4, <3>5, <3>6 DEF EntryTimeInv
  <2>2. TermOnlyAfterTimeout'
    BY <1>3, <2>m DEF TermOnlyAfterTimeout, Overdue, HistoryTypeOK, TableTypeOK, Register
  <2> QED BY <2>1, <2>2 DEF Goal, TimeInv
<1>4. ASSUME NEW p \in Pids, LoopDone(p)
      PROVE  Goal'
  <2>m. p = Master
    BY <1>4 DEF LoopDone, PhaseInv
  <2>1. EntryTimeInv'
    <3>1. /\ pc[Master] = "loop"
          /\ active' = active /\ sinceTerm' = sinceTerm /\ age' = age
          /\ timeoutSecs' = timeoutSecs /\ killDeadline' = killDeadline
          /\ deadline' = deadline /\ termSent' = termSent
      BY <1>4, <2>m DEF LoopDone
    <3>2. Settled' = Settled /\ Overdue' = Overdue
      BY <1>4, <2>m, <3>1, LoopDoneSettled DEF Overdue
    <3> QED BY <3>1, <3>2 DEF EntryTimeInv
  <2>2. TermOnlyAfterTimeout'
    BY <1>4, <2>m DEF TermOnlyAfterTimeout, Overdue, HistoryTypeOK, TableTypeOK, LoopDone
  <2> QED BY <2>1, <2>2 DEF Goal, TimeInv
<1>5. ASSUME ForkError
      PROVE  Goal'
  <2>1. EntryTimeInv'
    BY <1>5 DEF EntryTimeInv, Settled, Started, Overdue, ForkError, MasterReturns
  <2>2. TermOnlyAfterTimeout'
    BY <1>5 DEF TermOnlyAfterTimeout, Overdue, HistoryTypeOK, TableTypeOK, ForkError, MasterReturns
  <2> QED BY <2>1, <2>2 DEF Goal, TimeInv
<1>6. ASSUME NEW w \in Workers, ReapWorker(w)
      PROVE  Goal'
  <2>1. EntryTimeInv'
    BY <1>6 DEF EntryTimeInv, Settled, Started, Overdue, ReapWorker, Erase, Vacate, Zombies, Failed
  <2>2. TermOnlyAfterTimeout'
    BY <1>6 DEF TermOnlyAfterTimeout, Overdue, HistoryTypeOK, TableTypeOK, ReapWorker, Erase, Vacate, Zombies, Failed
  <2> QED BY <2>1, <2>2 DEF Goal, TimeInv
<1>7. ASSUME NEW c \in Pids, ReapStranger(c)
      PROVE  Goal'
  <2>1. EntryTimeInv'
    BY <1>7 DEF EntryTimeInv, Settled, Started, Overdue, ReapStranger, Vacate, Zombies
  <2>2. TermOnlyAfterTimeout'
    BY <1>7 DEF TermOnlyAfterTimeout, Overdue, HistoryTypeOK, TableTypeOK, ReapStranger, Vacate, Zombies
  <2> QED BY <2>1, <2>2 DEF Goal, TimeInv
<1>8. ASSUME AllReaped
      PROVE  Goal'
  <2>1. EntryTimeInv'
    BY <1>8 DEF EntryTimeInv, Settled, Started, Overdue, AllReaped, MasterReturns
  <2>2. TermOnlyAfterTimeout'
    BY <1>8 DEF TermOnlyAfterTimeout, Overdue, HistoryTypeOK, TableTypeOK, AllReaped, MasterReturns
  <2> QED BY <2>1, <2>2 DEF Goal, TimeInv
<1>9. ASSUME WaitError
      PROVE  Goal'
  <2>1. EntryTimeInv'
    BY <1>9 DEF EntryTimeInv, Settled, Started, Overdue, WaitError, MasterReturns
  <2>2. TermOnlyAfterTimeout'
    BY <1>9 DEF TermOnlyAfterTimeout, Overdue, HistoryTypeOK, TableTypeOK, WaitError, MasterReturns
  <2> QED BY <2>1, <2>2 DEF Goal, TimeInv
<1>10. ASSUME WaitNone
       PROVE  Goal'
  <2>1. EntryTimeInv'
    BY <1>10 DEF EntryTimeInv, Settled, Started, Overdue, WaitNone
  <2>2. TermOnlyAfterTimeout'
    BY <1>10 DEF TermOnlyAfterTimeout, Overdue, HistoryTypeOK, TableTypeOK, WaitNone
  <2> QED BY <2>1, <2>2 DEF Goal, TimeInv
<1>11. ASSUME ReadClock
       PROVE  Goal'
  <2>1. EntryTimeInv'
    BY <1>11 DEF EntryTimeInv, Settled, Started, Overdue, ReadClock
  <2>2. TermOnlyAfterTimeout'
    BY <1>11 DEF TermOnlyAfterTimeout, Overdue, HistoryTypeOK, TableTypeOK, ReadClock
  <2> QED BY <2>1, <2>2 DEF Goal, TimeInv
<1>12. ASSUME NEW w \in Workers, SendTerm(w)
       PROVE  Goal'
  <2>1. EntryTimeInv'
    <3>1. /\ pc[Master] = "scan" /\ w \in active /\ ~termSent[w]
          /\ timeoutSecs[w] > 0 /\ deadline[w] + lag < 0
          /\ pc' = pc /\ at' = at /\ active' = active /\ age' = age
          /\ timeoutSecs' = timeoutSecs /\ deadline' = deadline
          /\ termSent' = [termSent EXCEPT ![w] = TRUE]
          /\ killDeadline' = [killDeadline EXCEPT ![w] = Grace - lag]
          /\ sinceTerm' = [sinceTerm EXCEPT ![w] = 0]
      BY <1>12 DEF SendTerm, Visiting, MustTerm, Passed, KillDeadline, ScanTypeOK
    <3>2. Overdue' = Overdue \cup {w}
      BY <3>1 DEF Overdue, HistoryTypeOK
    <3>3. Settled' = Settled
      BY <3>1 DEF Settled, Started
    <3>4. \A v \in active \ {w} : /\ termSent'[v] = termSent[v]
                                  /\ killDeadline'[v] = killDeadline[v]
                                  /\ sinceTerm'[v] = sinceTerm[v]
      BY <3>1 DEF TableTypeOK, HistoryTypeOK
    <3>5. /\ termSent'[w] = TRUE
          /\ sinceTerm'[w] + killDeadline'[w] >= Grace - MaxLag
      BY <3>1 DEF TableTypeOK, HistoryTypeOK, ScanTypeOK
    <3> QED BY <3>1, <3>2, <3>3, <3>4, <3>5 DEF EntryTimeInv
  <2>2. TermOnlyAfterTimeout'
    <3>1. /\ pc[Master] = "scan" /\ w \in active /\ ~termSent[w]
          /\ timeoutSecs[w] > 0 /\ deadline[w] + lag < 0
          /\ pc' = pc /\ at' = at /\ active' = active /\ age' = age
          /\ timeoutSecs' = timeoutSecs /\ deadline' = deadline
          /\ termSent' = [termSent EXCEPT ![w] = TRUE]
          /\ killDeadline' = [killDeadline EXCEPT ![w] = Grace - lag]
          /\ sinceTerm' = [sinceTerm EXCEPT ![w] = 0]
      BY <1>12 DEF SendTerm, Visiting, MustTerm, Passed, KillDeadline, ScanTypeOK
    <3>2. Overdue' = Overdue \cup {w}
      BY <3>1 DEF Overdue, HistoryTypeOK
    <3>3. age[w] > MaxTimeout \/ age[w] + deadline[w] >= timeoutSecs[w]
      BY <3>1 DEF EntryTimeInv
    <3>4. /\ age[w] \in Int /\ deadline[w] \in Int /\ lag \in Nat
          /\ timeoutSecs[w] \in 0..MaxTimeout
      BY TimesAreNumbers DEF ScanTypeOK
    <3>5. age[w] > timeoutSecs[w]
      BY <3>1, <3>3, <3>4
    <3> QED BY <3>1, <3>2, <3>5 DEF TermOnlyAfterTimeout
  <2> QED BY <2>1, <2>2 DEF Goal, TimeInv
<1>13. ASSUME NEW w \in Workers, SendKill(w)
       PROVE  Goal'
  <2>1. EntryTimeInv'
    BY <1>13 DEF EntryTimeInv, Settled, Started, Overdue, SendKill, Visiting, Kill
  <2>2. TermOnlyAfterTimeout'
    BY <1>13 DEF TermOnlyAfterTimeout, Overdue, HistoryTypeOK, TableTypeOK, SendKill, Visiting, Kill
  <2> QED BY <2>1, <2>2 DEF Goal, TimeInv
<1>14. ASSUME NEW w \in Workers, LeaveAlone(w)
       PROVE  Goal'
  <2>1. EntryTimeInv'
    BY <1>14 DEF EntryTimeInv, Settled, Started, Overdue, LeaveAlone, Visiting
  <2>2. TermOnlyAfterTimeout'
    BY <1>14 DEF TermOnlyAfterTimeout, Overdue, HistoryTypeOK, TableTypeOK, LeaveAlone, Visiting
  <2> QED BY <2>1, <2>2 DEF Goal, TimeInv
<1>15. ASSUME ScanDone
       PROVE  Goal'
  <2>1. EntryTimeInv'
    BY <1>15 DEF EntryTimeInv, Settled, Started, Overdue, ScanDone
  <2>2. TermOnlyAfterTimeout'
    BY <1>15 DEF TermOnlyAfterTimeout, Overdue, HistoryTypeOK, TableTypeOK, ScanDone
  <2> QED BY <2>1, <2>2 DEF Goal, TimeInv
<1>16. ASSUME LogThrows
       PROVE  Goal'
  <2>1. EntryTimeInv'
    BY <1>16 DEF EntryTimeInv, Settled, Started, Overdue, LogThrows, MasterReturns
  <2>2. TermOnlyAfterTimeout'
    BY <1>16 DEF TermOnlyAfterTimeout, Overdue, HistoryTypeOK, TableTypeOK, LogThrows, MasterReturns
  <2> QED BY <2>1, <2>2 DEF Goal, TimeInv
<1>17. ASSUME NEW c \in Pids, NEW status \in Endings, ChildReturns(c, status)
       PROVE  Goal'
  <2>1. EntryTimeInv'
    BY <1>17, ProcessEndsEffect DEF EntryTimeInv, Settled, Started, Overdue, ChildReturns
  <2>2. TermOnlyAfterTimeout'
    BY <1>17, ProcessEndsEffect DEF TermOnlyAfterTimeout, Overdue, HistoryTypeOK, TableTypeOK, ChildReturns
  <2> QED BY <2>1, <2>2 DEF Goal, TimeInv
<1>18. ASSUME NEW c \in Pids, NEW s \in {"SIGTERM", "SIGKILL"}, ChildDiesOf(c, s)
       PROVE  Goal'
  <2>1. EntryTimeInv'
    BY <1>18, ProcessEndsEffect DEF EntryTimeInv, Settled, Started, Overdue, ChildDiesOf
  <2>2. TermOnlyAfterTimeout'
    BY <1>18, ProcessEndsEffect DEF TermOnlyAfterTimeout, Overdue, HistoryTypeOK, TableTypeOK, ChildDiesOf
  <2> QED BY <2>1, <2>2 DEF Goal, TimeInv
<1>19. ASSUME NEW p \in Pids, ForeignStarts(p)
       PROVE  Goal'
  <2>1. EntryTimeInv'
    BY <1>19 DEF EntryTimeInv, Settled, Started, Overdue, ForeignStarts, Free
  <2>2. TermOnlyAfterTimeout'
    BY <1>19 DEF TermOnlyAfterTimeout, Overdue, HistoryTypeOK, TableTypeOK, ForeignStarts, Free
  <2> QED BY <2>1, <2>2 DEF Goal, TimeInv
<1>20. ASSUME NEW p \in Pids, ForeignEnds(p)
       PROVE  Goal'
  <2>1. EntryTimeInv'
    BY <1>20, ProcessEndsEffect DEF EntryTimeInv, Settled, Started, Overdue, ForeignEnds
  <2>2. TermOnlyAfterTimeout'
    BY <1>20, ProcessEndsEffect DEF TermOnlyAfterTimeout, Overdue, HistoryTypeOK, TableTypeOK, ForeignEnds
  <2> QED BY <2>1, <2>2 DEF Goal, TimeInv
<1>21. ASSUME Tick
       PROVE  Goal'
  <2>1. EntryTimeInv'
    <3>1. /\ pc[Master] # "exited" /\ pc' = pc /\ at' = at
          /\ active' = active /\ timeoutSecs' = timeoutSecs
          /\ termSent' = termSent /\ outcome' = outcome
      BY <1>21 DEF Tick
    <3>2. ASSUME NEW w \in Workers
          PROVE  /\ sinceTerm'[w] >= sinceTerm[w] /\ sinceTerm'[w] \in Int
                 /\ sinceTerm[w] < 0 => sinceTerm'[w] < 0
                 /\ age'[w] >= age[w] /\ age'[w] \in Int
      BY <1>21 DEF Tick, HistoryTypeOK
    <3>3. Overdue' = Overdue
      BY <3>2 DEF Overdue, HistoryTypeOK
    <3>4. Settled' = Settled /\ Overdue \subseteq active \cup Settled
      BY <3>1 DEF Settled, Started, EntryTimeInv
    <3>5. ASSUME NEW w \in active, w \in Workers
          PROVE  age'[w] > MaxTimeout \/ age'[w] + deadline'[w] >= timeoutSecs[w]
      <4>1. outcome[w] # "unstarted"
        BY <3>1, <3>5 DEF StartedInv
      <4>2. age[w] > MaxTimeout \/ age[w] + deadline[w] >= timeoutSecs[w]
        BY <3>1, <3>5 DEF EntryTimeInv
      <4>4. age[w] \in Int /\ deadline[w] \in Int /\ timeoutSecs[w] \in 0..MaxTimeout
        BY <3>5, TimesAreNumbers
      <4>3. /\ age'[w] = IF age[w] <= MaxTimeout THEN age[w] + 1 ELSE age[w]
            /\ deadline'[w] \in {deadline[w], deadline[w] - 1}
        BY <1>21, <3>5, <4>1 DEF Tick, CountDown
      <4> QED BY <4>2, <4>3, <4>4
    <3>6. ASSUME NEW w \in active, w \in Workers, termSent[w]
          PROVE  \/ sinceTerm'[w] > Grace
                 \/ sinceTerm'[w] + killDeadline'[w] >= Grace - MaxLag
      <4>1. /\ sinceTerm[w] \in Int /\ killDeadline[w] \in Int /\ sinceTerm[w] >= 0
            /\ sinceTerm[w] > Grace \/ sinceTerm[w] + killDeadline[w] >= Grace - MaxLag
        BY <3>1, <3>6 DEF HistoryTypeOK, TableTypeOK, Expired, EntryTimeInv, Overdue
      <4>2. /\ sinceTerm'[w] = IF sinceTerm[w] \in 0..Grace THEN sinceTerm[w] + 1
                               ELSE sinceTerm[w]
            /\ killDeadline'[w] \in {killDeadline[w], killDeadline[w] - 1}
        BY <1>21, <3>6 DEF Tick, CountDown
      <4> QED BY <4>1, <4>2
    <3> QED BY <3>1, <3>3, <3>4, <3>5, <3>6 DEF EntryTimeInv, TableTypeOK
  <2>2. TermOnlyAfterTimeout'
    <3>1. /\ pc[Master] # "exited" /\ pc' = pc /\ at' = at
          /\ active' = active /\ timeoutSecs' = timeoutSecs
          /\ termSent' = termSent /\ outcome' = outcome
      BY <1>21 DEF Tick
    <3>2. ASSUME NEW w \in Workers
          PROVE  /\ sinceTerm'[w] >= sinceTerm[w] /\ sinceTerm'[w] \in Int
                 /\ sinceTerm[w] < 0 => sinceTerm'[w] < 0
                 /\ age'[w] >= age[w] /\ age'[w] \in Int
      BY <1>21 DEF Tick, HistoryTypeOK
    <3>3. Overdue' = Overdue
      BY <3>2 DEF Overdue, HistoryTypeOK
    <3>4. ASSUME NEW w \in Overdue, w \in Workers
          PROVE  timeoutSecs'[w] > 0 /\ age'[w] > timeoutSecs'[w]
      <4>1. /\ timeoutSecs[w] > 0 /\ age[w] > timeoutSecs[w]
            /\ age[w] \in Int /\ timeoutSecs[w] \in 0..MaxTimeout
        BY <3>4, TimesAreNumbers DEF TermOnlyAfterTimeout
      <4> QED BY <3>1, <3>2, <3>4, <4>1
    <3> QED BY <3>3, <3>4 DEF TermOnlyAfterTimeout, Overdue
  <2> QED BY <2>1, <2>2 DEF Goal, TimeInv
<1>22. ASSUME UNCHANGED vars
       PROVE  Goal'
  <2>1. EntryTimeInv'
    BY <1>22 DEF EntryTimeInv, Settled, Started, Overdue, vars
  <2>2. TermOnlyAfterTimeout'
    BY <1>22 DEF TermOnlyAfterTimeout, Overdue, HistoryTypeOK, TableTypeOK, vars
  <2> QED BY <2>1, <2>2 DEF Goal, TimeInv
<1>23. ASSUME NEW p \in Pids, RunAll(p)
       PROVE  Goal'
  BY <1>23, <1>1, <1>2, <1>3, <1>4 DEF RunAll
<1>24. ASSUME WaitForWorkers
       PROVE  Goal'
  BY <1>24, <1>6, <1>7, <1>8, <1>9, <1>10, <1>11, <1>12, <1>13, <1>14, <1>15 DEF WaitForWorkers
<1>25. ASSUME Environment
       PROVE  Goal'
  BY <1>25, <1>17, <1>18, <1>19, <1>20, <1>21 DEF Environment
<1> QED
  BY <1>5, <1>16, <1>22, <1>23, <1>24, <1>25 DEF Next, Goal


\* Signals reach the right processes, and SIGKILL not before its time.
LEMMA StepSignal ==
  ASSUME ~SigchldIgnored, TypeOK, PhaseInv, LaunchInv, ChildInv, TimeInv,
         SignalInv, [Next]_vars
  PROVE  SignalInv'
<1> DEFINE Goal == SignalInv
<1> ProcTypeOK /\ TableTypeOK /\ ScanTypeOK /\ HistoryTypeOK
  BY DEF TypeOK
<1> StartedInv /\ OutcomeInv /\ OneProcessPerWorker
  BY DEF LaunchInv
<1> ParentInv /\ EntryInv
  BY DEF ChildInv
<1> EntryTimeInv
  BY DEF TimeInv
<1> NoStraySignal /\ KillOnlyAfterGrace
  BY DEF SignalInv
<1> USE DEF Phases, tableVars, scanVars, historyVars, procVars, Endings
<1> HIDE DEF Goal
<1>1. ASSUME NEW p \in Pids, Announce(p)
      PROVE  Goal'
  <2>m. p = Master
    BY <1>1 DEF Announce, PhaseInv
  <2>1. NoStraySignal'
    BY <1>1, <2>m DEF NoStraySignal, ProcTypeOK, PhaseInv, Announce
  <2>2. KillOnlyAfterGrace'
    BY <1>1, <2>m DEF KillOnlyAfterGrace, ProcTypeOK, PhaseInv, HistoryTypeOK, Announce
  <2> QED BY <2>1, <2>2 DEF Goal, SignalInv
<1>2. ASSUME NEW p \in Pids, Fork(p)
      PROVE  Goal'
  <2>m. p = Master
    BY <1>2 DEF Fork, PhaseInv
  <2>1. NoStraySignal'
    BY <1>2, <2>m DEF NoStraySignal, ProcTypeOK, PhaseInv, Fork
  <2>2. KillOnlyAfterGrace'
    BY <1>2, <2>m DEF KillOnlyAfterGrace, ProcTypeOK, PhaseInv, HistoryTypeOK, Fork
  <2> QED BY <2>1, <2>2 DEF Goal, SignalInv
<1>3. ASSUME NEW p \in Pids, Register(p)
      PROVE  Goal'
  <2>m. p = Master
    BY <1>3 DEF Register, PhaseInv
  <2>1. NoStraySignal'
    BY <1>3, <2>m DEF NoStraySignal, ProcTypeOK, PhaseInv, Register
  <2>2. KillOnlyAfterGrace'
    BY <1>3, <2>m DEF KillOnlyAfterGrace, ProcTypeOK, PhaseInv, HistoryTypeOK, Register
  <2> QED BY <2>1, <2>2 DEF Goal, SignalInv
<1>4. ASSUME NEW p \in Pids, LoopDone(p)
      PROVE  Goal'
  <2>m. p = Master
    BY <1>4 DEF LoopDone, PhaseInv
  <2>1. NoStraySignal'
    BY <1>4, <2>m DEF NoStraySignal, ProcTypeOK, PhaseInv, LoopDone
  <2>2. KillOnlyAfterGrace'
    BY <1>4, <2>m DEF KillOnlyAfterGrace, ProcTypeOK, PhaseInv, HistoryTypeOK, LoopDone
  <2> QED BY <2>1, <2>2 DEF Goal, SignalInv
<1>5. ASSUME ForkError
      PROVE  Goal'
  <2>1. NoStraySignal'
    BY <1>5 DEF NoStraySignal, ProcTypeOK, PhaseInv, ForkError, MasterReturns
  <2>2. KillOnlyAfterGrace'
    BY <1>5 DEF KillOnlyAfterGrace, ProcTypeOK, PhaseInv, HistoryTypeOK, ForkError, MasterReturns
  <2> QED BY <2>1, <2>2 DEF Goal, SignalInv
<1>6. ASSUME NEW w \in Workers, ReapWorker(w)
      PROVE  Goal'
  <2>1. NoStraySignal'
    BY <1>6 DEF NoStraySignal, ProcTypeOK, PhaseInv, ReapWorker, Erase, Vacate, Zombies, Failed
  <2>2. KillOnlyAfterGrace'
    BY <1>6 DEF KillOnlyAfterGrace, ProcTypeOK, PhaseInv, HistoryTypeOK, ReapWorker, Erase, Vacate, Zombies, Failed
  <2> QED BY <2>1, <2>2 DEF Goal, SignalInv
<1>7. ASSUME NEW c \in Pids, ReapStranger(c)
      PROVE  Goal'
  <2>1. NoStraySignal'
    BY <1>7 DEF NoStraySignal, ProcTypeOK, PhaseInv, ReapStranger, Vacate, Zombies
  <2>2. KillOnlyAfterGrace'
    BY <1>7 DEF KillOnlyAfterGrace, ProcTypeOK, PhaseInv, HistoryTypeOK, ReapStranger, Vacate, Zombies
  <2> QED BY <2>1, <2>2 DEF Goal, SignalInv
<1>8. ASSUME AllReaped
      PROVE  Goal'
  <2>1. NoStraySignal'
    BY <1>8 DEF NoStraySignal, ProcTypeOK, PhaseInv, AllReaped, MasterReturns
  <2>2. KillOnlyAfterGrace'
    BY <1>8 DEF KillOnlyAfterGrace, ProcTypeOK, PhaseInv, HistoryTypeOK, AllReaped, MasterReturns
  <2> QED BY <2>1, <2>2 DEF Goal, SignalInv
<1>9. ASSUME WaitError
      PROVE  Goal'
  <2>1. NoStraySignal'
    BY <1>9 DEF NoStraySignal, ProcTypeOK, PhaseInv, WaitError, MasterReturns
  <2>2. KillOnlyAfterGrace'
    BY <1>9 DEF KillOnlyAfterGrace, ProcTypeOK, PhaseInv, HistoryTypeOK, WaitError, MasterReturns
  <2> QED BY <2>1, <2>2 DEF Goal, SignalInv
<1>10. ASSUME WaitNone
       PROVE  Goal'
  <2>1. NoStraySignal'
    BY <1>10 DEF NoStraySignal, ProcTypeOK, PhaseInv, WaitNone
  <2>2. KillOnlyAfterGrace'
    BY <1>10 DEF KillOnlyAfterGrace, ProcTypeOK, PhaseInv, HistoryTypeOK, WaitNone
  <2> QED BY <2>1, <2>2 DEF Goal, SignalInv
<1>11. ASSUME ReadClock
       PROVE  Goal'
  <2>1. NoStraySignal'
    BY <1>11 DEF NoStraySignal, ProcTypeOK, PhaseInv, ReadClock
  <2>2. KillOnlyAfterGrace'
    BY <1>11 DEF KillOnlyAfterGrace, ProcTypeOK, PhaseInv, HistoryTypeOK, ReadClock
  <2> QED BY <2>1, <2>2 DEF Goal, SignalInv
<1>12. ASSUME NEW w \in Workers, SendTerm(w)
       PROVE  Goal'
  <2>1. NoStraySignal'
    <3>1. /\ pc[Master] = "scan" /\ w \in active
          /\ pc' = pc /\ at' = at
          /\ sig' = IF pc[pidOf[w]] \in {"child", "foreign"}
                    THEN [sig EXCEPT ![pidOf[w]] = @ \cup {"SIGTERM"}] ELSE sig
      BY <1>12 DEF SendTerm, Visiting, Kill, ScanTypeOK
    <3>2. pidOf[w] \in Pids /\ pc[pidOf[w]] # "foreign" /\ at[pidOf[w]] = w
      BY <3>1 DEF EntryInv, IsChildOf, ProcTypeOK
    <3> QED BY <3>1, <3>2 DEF NoStraySignal, ProcTypeOK
  <2>2. KillOnlyAfterGrace'
    <3>1. /\ pc[Master] = "scan" /\ w \in active
          /\ pc' = pc /\ at' = at
          /\ sig' = IF pc[pidOf[w]] \in {"child", "foreign"}
                    THEN [sig EXCEPT ![pidOf[w]] = @ \cup {"SIGTERM"}] ELSE sig
      BY <1>12 DEF SendTerm, Visiting, Kill, ScanTypeOK
    <3>2. pidOf[w] \in Pids /\ pc[pidOf[w]] # "foreign" /\ at[pidOf[w]] = w
      BY <3>1 DEF EntryInv, IsChildOf, ProcTypeOK
    <3>3. /\ sinceTerm' = [sinceTerm EXCEPT ![w] = 0]
          /\ ~termSent[w]
      BY <1>12 DEF SendTerm, MustTerm
    <3>4. sinceTerm[w] < 0
      <4>1. w \notin Overdue
        BY <3>1, <3>3 DEF EntryTimeInv
      <4>2. sinceTerm[w] \in Int
        BY DEF HistoryTypeOK
      <4> QED BY <4>1, <4>2 DEF Overdue
    <3>5. ASSUME NEW p \in Pids, pc[p] = "child", "SIGKILL" \in sig'[p]
          PROVE  sinceTerm'[at[p]] > Grace - MaxLag
      <4>1. "SIGKILL" \in sig[p] /\ at[p] \in Workers
        BY <3>1, <3>2, <3>5 DEF ProcTypeOK, PhaseInv
      <4>2. sinceTerm[at[p]] > Grace - MaxLag /\ sinceTerm[at[p]] \in Int
        BY <3>5, <4>1 DEF KillOnlyAfterGrace, HistoryTypeOK
      <4>3. sinceTerm'[at[p]] = IF at[p] = w THEN 0 ELSE sinceTerm[at[p]]
        BY <3>3, <4>1 DEF HistoryTypeOK
      <4> QED BY <3>4, <4>2, <4>3
    <3> QED BY <3>1, <3>5 DEF KillOnlyAfterGrace
  <2> QED BY <2>1, <2>2 DEF Goal, SignalInv
<1>13. ASSUME NEW w \in Workers, SendKill(w)
       PROVE  Goal'
  <2>1. NoStraySignal'
    <3>1. /\ pc[Master] = "scan" /\ w \in active
          /\ pc' = pc /\ at' = at
          /\ sig' = IF pc[pidOf[w]] \in {"child", "foreign"}
                    THEN [sig EXCEPT ![pidOf[w]] = @ \cup {"SIGKILL"}] ELSE sig
      BY <1>13 DEF SendKill, Visiting, Kill, ScanTypeOK
    <3>2. pidOf[w] \in Pids /\ pc[pidOf[w]] # "foreign" /\ at[pidOf[w]] = w
      BY <3>1 DEF EntryInv, IsChildOf, ProcTypeOK
    <3> QED BY <3>1, <3>2 DEF NoStraySignal, ProcTypeOK
  <2>2. KillOnlyAfterGrace'
    <3>1. /\ pc[Master] = "scan" /\ w \in active
          /\ pc' = pc /\ at' = at
          /\ sig' = IF pc[pidOf[w]] \in {"child", "foreign"}
                    THEN [sig EXCEPT ![pidOf[w]] = @ \cup {"SIGKILL"}] ELSE sig
      BY <1>13 DEF SendKill, Visiting, Kill, ScanTypeOK
    <3>2. pidOf[w] \in Pids /\ pc[pidOf[w]] # "foreign" /\ at[pidOf[w]] = w
      BY <3>1 DEF EntryInv, IsChildOf, ProcTypeOK
    <3>3. /\ sinceTerm' = sinceTerm
          /\ termSent[w] /\ killDeadline[w] + lag < 0
      BY <1>13 DEF SendKill, MustKill, Passed
    <3>4. sinceTerm[w] > Grace - MaxLag
      <4>1. sinceTerm[w] > Grace \/ sinceTerm[w] + killDeadline[w] >= Grace - MaxLag
        BY <3>1, <3>3 DEF EntryTimeInv
      <4>2. sinceTerm[w] \in Int /\ killDeadline[w] \in Int /\ lag \in Nat
        BY DEF HistoryTypeOK, TableTypeOK, ScanTypeOK, Expired
      <4> QED BY <3>3, <4>1, <4>2
    <3>5. \A p \in Pids : "SIGKILL" \in sig'[p] => "SIGKILL" \in sig[p] \/ p = pidOf[w]
      BY <3>1, <3>2 DEF ProcTypeOK
    <3> QED BY <3>1, <3>2, <3>3, <3>4, <3>5 DEF KillOnlyAfterGrace
  <2> QED BY <2>1, <2>2 DEF Goal, SignalInv
<1>14. ASSUME NEW w \in Workers, LeaveAlone(w)
       PROVE  Goal'
  <2>1. NoStraySignal'
    BY <1>14 DEF NoStraySignal, ProcTypeOK, PhaseInv, LeaveAlone, Visiting
  <2>2. KillOnlyAfterGrace'
    BY <1>14 DEF KillOnlyAfterGrace, ProcTypeOK, PhaseInv, HistoryTypeOK, LeaveAlone, Visiting
  <2> QED BY <2>1, <2>2 DEF Goal, SignalInv
<1>15. ASSUME ScanDone
       PROVE  Goal'
  <2>1. NoStraySignal'
    BY <1>15 DEF NoStraySignal, ProcTypeOK, PhaseInv, ScanDone
  <2>2. KillOnlyAfterGrace'
    BY <1>15 DEF KillOnlyAfterGrace, ProcTypeOK, PhaseInv, HistoryTypeOK, ScanDone
  <2> QED BY <2>1, <2>2 DEF Goal, SignalInv
<1>16. ASSUME LogThrows
       PROVE  Goal'
  <2>1. NoStraySignal'
    BY <1>16 DEF NoStraySignal, ProcTypeOK, PhaseInv, LogThrows, MasterReturns
  <2>2. KillOnlyAfterGrace'
    BY <1>16 DEF KillOnlyAfterGrace, ProcTypeOK, PhaseInv, HistoryTypeOK, LogThrows, MasterReturns
  <2> QED BY <2>1, <2>2 DEF Goal, SignalInv
<1>17. ASSUME NEW c \in Pids, NEW status \in Endings, ChildReturns(c, status)
       PROVE  Goal'
  <2>1. NoStraySignal'
    BY <1>17, ProcessEndsEffect DEF NoStraySignal, ProcTypeOK, PhaseInv, ChildReturns
  <2>2. KillOnlyAfterGrace'
    BY <1>17, ProcessEndsEffect DEF KillOnlyAfterGrace, ProcTypeOK, PhaseInv, HistoryTypeOK, ChildReturns
  <2> QED BY <2>1, <2>2 DEF Goal, SignalInv
<1>18. ASSUME NEW c \in Pids, NEW s \in {"SIGTERM", "SIGKILL"}, ChildDiesOf(c, s)
       PROVE  Goal'
  <2>1. NoStraySignal'
    BY <1>18, ProcessEndsEffect DEF NoStraySignal, ProcTypeOK, PhaseInv, ChildDiesOf
  <2>2. KillOnlyAfterGrace'
    BY <1>18, ProcessEndsEffect DEF KillOnlyAfterGrace, ProcTypeOK, PhaseInv, HistoryTypeOK, ChildDiesOf
  <2> QED BY <2>1, <2>2 DEF Goal, SignalInv
<1>19. ASSUME NEW p \in Pids, ForeignStarts(p)
       PROVE  Goal'
  <2>1. NoStraySignal'
    BY <1>19 DEF NoStraySignal, ProcTypeOK, PhaseInv, ForeignStarts, Free
  <2>2. KillOnlyAfterGrace'
    BY <1>19 DEF KillOnlyAfterGrace, ProcTypeOK, PhaseInv, HistoryTypeOK, ForeignStarts, Free
  <2> QED BY <2>1, <2>2 DEF Goal, SignalInv
<1>20. ASSUME NEW p \in Pids, ForeignEnds(p)
       PROVE  Goal'
  <2>1. NoStraySignal'
    BY <1>20, ProcessEndsEffect DEF NoStraySignal, ProcTypeOK, PhaseInv, ForeignEnds
  <2>2. KillOnlyAfterGrace'
    BY <1>20, ProcessEndsEffect DEF KillOnlyAfterGrace, ProcTypeOK, PhaseInv, HistoryTypeOK, ForeignEnds
  <2> QED BY <2>1, <2>2 DEF Goal, SignalInv
<1>21. ASSUME Tick
       PROVE  Goal'
  <2>1. NoStraySignal'
    BY <1>21 DEF NoStraySignal, ProcTypeOK, PhaseInv, Tick, CountDown
  <2>2. KillOnlyAfterGrace'
    BY <1>21 DEF KillOnlyAfterGrace, ProcTypeOK, PhaseInv, HistoryTypeOK, Tick, CountDown
  <2> QED BY <2>1, <2>2 DEF Goal, SignalInv
<1>22. ASSUME UNCHANGED vars
       PROVE  Goal'
  <2>1. NoStraySignal'
    BY <1>22 DEF NoStraySignal, ProcTypeOK, PhaseInv, vars
  <2>2. KillOnlyAfterGrace'
    BY <1>22 DEF KillOnlyAfterGrace, ProcTypeOK, PhaseInv, HistoryTypeOK, vars
  <2> QED BY <2>1, <2>2 DEF Goal, SignalInv
<1>23. ASSUME NEW p \in Pids, RunAll(p)
       PROVE  Goal'
  BY <1>23, <1>1, <1>2, <1>3, <1>4 DEF RunAll
<1>24. ASSUME WaitForWorkers
       PROVE  Goal'
  BY <1>24, <1>6, <1>7, <1>8, <1>9, <1>10, <1>11, <1>12, <1>13, <1>14, <1>15 DEF WaitForWorkers
<1>25. ASSUME Environment
       PROVE  Goal'
  BY <1>25, <1>17, <1>18, <1>19, <1>20, <1>21 DEF Environment
<1> QED
  BY <1>5, <1>16, <1>22, <1>23, <1>24, <1>25 DEF Next, Goal

-----------------------------------------------------------------------------
(* The theorems                                                            *)

\* The rest of the invariant holds initially.
LEMMA InitRest ==
  ASSUME Init
  PROVE  LaunchInv /\ ChildInv /\ VerdictInv /\ TimeInv /\ SignalInv
<1>1. LaunchInv
  BY DEF Init, LaunchInv, StartedInv, OutcomeInv, OneProcessPerWorker, Started
<1>2. ChildInv
  BY DEF Init, ChildInv, ParentInv, EntryInv
<1>3. Overdue = {} /\ Settled = {}
  BY DEF Init, Overdue, Settled, Started
<1>4. VerdictInv
  BY <1>3 DEF Init, VerdictInv, RetvalueInv, TruthInv
<1>5. TimeInv
  BY <1>3 DEF Init, TimeInv, EntryTimeInv, TermOnlyAfterTimeout
<1>6. SignalInv
  BY DEF Init, SignalInv, NoStraySignal, KillOnlyAfterGrace
<1> QED
  BY <1>1, <1>2, <1>4, <1>5, <1>6

\* Whatever fails, and even with SIGCHLD ignored, one process runs a worker.
THEOREM OneProcess == Spec => []OneProcessPerWorker
<1>1. Init => LaunchInv
  BY InitRest
<1>2. TypeOK /\ PhaseInv /\ LaunchInv /\ [Next]_vars => LaunchInv'
  BY StepLaunch
<1>3. LaunchInv => OneProcessPerWorker
  BY DEF LaunchInv
<1> QED
  BY <1>1, <1>2, <1>3, TypeCorrect, PTL DEF Spec

\* Whatever fails, and even with SIGCHLD ignored, SIGTERM is never early.
THEOREM TermIsNotEarly == Spec => []TermOnlyAfterTimeout
<1>1. Init => LaunchInv /\ TimeInv
  BY InitRest
<1>2. TypeOK /\ PhaseInv /\ LaunchInv /\ TimeInv /\ [Next]_vars
        => LaunchInv' /\ TimeInv'
  BY StepLaunch, StepTime
<1>3. TimeInv => TermOnlyAfterTimeout
  BY DEF TimeInv
<1> QED
  BY <1>1, <1>2, <1>3, TypeCorrect, PTL DEF Spec

\* The inductive invariant of a pool that is told of its children's ends.
IInv == /\ TypeOK /\ PhaseInv /\ LaunchInv /\ ChildInv
        /\ VerdictInv /\ TimeInv /\ SignalInv

\* IInv holds initially and no step breaks it.
LEMMA Inductive ==
  ASSUME ~SigchldIgnored
  PROVE  Spec => []IInv
<1>1. Init => IInv
  BY InitTypePhase, InitRest DEF IInv
<1>2. IInv /\ [Next]_vars => IInv'
  BY StepTypePhase, StepLaunch, StepChild, StepVerdict, StepTime, StepSignal
  DEF IInv
<1> QED
  BY <1>1, <1>2, PTL DEF Spec

\* Every PID on the list is that of a child nobody has reaped.
THEOREM KillsOnlyChildren ==
  ASSUME ~SigchldIgnored
  PROVE  Spec => []ActiveAreChildren
<1>1. IInv => ActiveAreChildren
  BY DEF IInv, ChildInv, EntryInv, IsChildOf, ActiveAreChildren
<1> QED
  BY <1>1, Inductive, PTL

\* No process but a worker is ever signalled, however PIDs are reused.
\* (cWorkerPool.cpp:199, 205)
THEOREM StrangersAreSafe ==
  ASSUME ~SigchldIgnored
  PROVE  Spec => []NoStraySignal
<1>1. IInv => NoStraySignal
  BY DEF IInv, SignalInv
<1> QED
  BY <1>1, Inductive, PTL

\* The verdict is "success" only if all is well, and, if nothing can go
\* wrong in the master, "failure" only if it is not.
THEOREM VerdictCorrect ==
  ASSUME ~SigchldIgnored
  PROVE  Spec => []VerdictIsTruthful
<1>1. IInv => VerdictIsTruthful
  BY DEF IInv, VerdictInv, TruthInv, VerdictIsTruthful, Bad
<1> QED
  BY <1>1, Inductive, PTL

\* SIGKILL leaves the grace period, less the length of a scan.
THEOREM KillIsNotEarly ==
  ASSUME ~SigchldIgnored
  PROVE  Spec => []KillOnlyAfterGrace
<1>1. IInv => KillOnlyAfterGrace
  BY DEF IInv, SignalInv
<1> QED
  BY <1>1, Inductive, PTL

-----------------------------------------------------------------------------
(* The pool implements its contract                                        *)

\* The pool starts where the contract starts.
LEMMA ContractInit == Init => Contract!Init
  BY DEF Init, Contract!Init, Overdue

\* Every step of the pool is one of the contract or leaves it alone.
LEMMA ContractStep ==
  ASSUME ~SigchldIgnored, IInv, [Next]_vars
  PROVE  [Contract!Next]_(Contract!vars)
<1> DEFINE Goal == [Contract!Next]_(Contract!vars)
<1> ProcTypeOK /\ TableTypeOK /\ ScanTypeOK /\ HistoryTypeOK
  BY DEF TypeOK, IInv
<1> TypeOK /\ PhaseInv /\ StartedInv /\ OutcomeInv /\ EntryInv /\ RetvalueInv /\ EntryTimeInv
  BY DEF IInv, LaunchInv, ChildInv, VerdictInv, TimeInv
<1> USE DEF tableVars, scanVars, historyVars, procVars
<1> HIDE DEF Goal
<1>a. ASSUME outcome' = outcome, sinceTerm' = sinceTerm, verdict' = verdict
      PROVE  Goal
  BY <1>a DEF Goal, Contract!vars, Overdue
<1>b. ASSUME Abortable, verdict = "none", MasterReturns("failure")
      PROVE  Goal
  BY <1>b DEF Goal, Contract!Next, Contract!Abort, MasterReturns, Overdue
<1>1. ASSUME NEW p \in Pids, Announce(p)
      PROVE  Goal
  BY <1>1, <1>a DEF Announce
<1>2. ASSUME NEW p \in Pids, Fork(p)
      PROVE  Goal
  <2>1. p = Master
    BY <1>2 DEF Fork, PhaseInv, Phases
  <2>2. /\ at[Master] \in Workers /\ outcome[at[Master]] = "unstarted" /\ verdict = "none"
        /\ outcome' = [outcome EXCEPT ![at[Master]] = "running"]
        /\ Overdue' = Overdue /\ verdict' = verdict
    <3>1. /\ at[Master] \in Workers /\ verdict = "none" /\ pc[Master] = "fork"
          /\ outcome' = [outcome EXCEPT ![at[Master]] = "running"]
          /\ sinceTerm' = sinceTerm /\ verdict' = verdict
      BY <1>2, <2>1 DEF Fork, PhaseInv
    <3>2. outcome[at[Master]] = "unstarted"
      BY <3>1 DEF StartedInv, Started
    <3> QED BY <3>1, <3>2 DEF Overdue
  <2> QED BY <2>2 DEF Goal, Contract!Next, Contract!Start
<1>3. ASSUME NEW p \in Pids, Register(p)
      PROVE  Goal
  BY <1>3, <1>a DEF Register
<1>4. ASSUME NEW p \in Pids, LoopDone(p)
      PROVE  Goal
  BY <1>4, <1>a DEF LoopDone
<1>5. ASSUME ForkError
      PROVE  Goal
  BY <1>5, <1>b DEF ForkError, Abortable, PhaseInv, Phases, Visiting, ScanTypeOK
<1>6. ASSUME NEW w \in Workers, ReapWorker(w)
      PROVE  Goal
  BY <1>6, <1>a DEF ReapWorker
<1>7. ASSUME NEW c \in Pids, ReapStranger(c)
      PROVE  Goal
  BY <1>7, <1>a DEF ReapStranger
<1>8. ASSUME AllReaped
      PROVE  Goal
  <2>1. /\ pc[Master] = "wait" /\ active = {} /\ verdict = "none"
        /\ verdict' = IF retvalue THEN "success" ELSE "failure"
        /\ outcome' = outcome /\ Overdue' = Overdue
    BY <1>8 DEF AllReaped, MasterReturns, PhaseInv, Overdue
  <2>2. Settled = Workers
    BY <2>1 DEF Settled, Started
  <2>3. /\ \A w \in Workers : outcome[w] \in Contract!Endings
        /\ retvalue <=> Contract!AllWell
    BY <2>1, <2>2 DEF RetvalueInv, Endings, Bad, Contract!Endings, Contract!AllWell, ScanTypeOK
  <2> QED BY <2>1, <2>3 DEF Goal, Contract!Next, Contract!Decide
<1>9. ASSUME WaitError
      PROVE  Goal
  BY <1>9 DEF WaitError, EntryInv, IsChildOf
<1>10. ASSUME WaitNone
       PROVE  Goal
  BY <1>10, <1>a DEF WaitNone
<1>11. ASSUME ReadClock
       PROVE  Goal
  BY <1>11, <1>a DEF ReadClock
<1>12. ASSUME NEW w \in Workers, SendTerm(w)
       PROVE  Goal
  <2>1. /\ w \in active /\ pc[Master] = "scan" /\ ~termSent[w]
        /\ sinceTerm' = [sinceTerm EXCEPT ![w] = 0]
        /\ outcome' = outcome /\ verdict' = verdict
    BY <1>12 DEF SendTerm, Visiting, MustTerm, ScanTypeOK
  <2>2. w \notin Overdue /\ Overdue' = Overdue \cup {w}
    BY <2>1 DEF EntryTimeInv, Overdue, HistoryTypeOK
  <2>3. outcome[w] # "unstarted" /\ verdict = "none"
    BY <2>1 DEF StartedInv, Started, PhaseInv
  <2> QED BY <2>1, <2>2, <2>3 DEF Goal, Contract!Next, Contract!Overrun
<1>13. ASSUME NEW w \in Workers, SendKill(w)
       PROVE  Goal
  BY <1>13, <1>a DEF SendKill
<1>14. ASSUME NEW w \in Workers, LeaveAlone(w)
       PROVE  Goal
  BY <1>14, <1>a DEF LeaveAlone
<1>15. ASSUME ScanDone
       PROVE  Goal
  BY <1>15, <1>a DEF ScanDone
<1>16. ASSUME LogThrows
       PROVE  Goal
  <2>1. pc[Master] # "exited"
    <3>1. pc[Master] # "scan" => todo = {}
      BY DEF PhaseInv
    <3> QED BY <1>16, <3>1 DEF LogThrows
  <2> QED BY <1>16, <1>b, <2>1 DEF LogThrows, Abortable, PhaseInv
<1>17. ASSUME NEW c \in Pids, NEW status \in Endings, ChildReturns(c, status)
       PROVE  Goal
  <2>1. /\ at[c] \in Workers /\ outcome[at[c]] = "running"
        /\ outcome' = [outcome EXCEPT ![at[c]] = status]
        /\ Overdue' = Overdue /\ verdict' = verdict
    BY <1>17 DEF ChildReturns, PhaseInv, OutcomeInv, Overdue
  <2> QED BY <2>1 DEF Goal, Contract!Next, Contract!End, Contract!Endings, Endings
<1>18. ASSUME NEW c \in Pids, NEW s \in {"SIGTERM", "SIGKILL"}, ChildDiesOf(c, s)
       PROVE  Goal
  <2>1. /\ at[c] \in Workers /\ outcome[at[c]] = "running"
        /\ outcome' = [outcome EXCEPT ![at[c]] = "signal"]
        /\ Overdue' = Overdue /\ verdict' = verdict
    BY <1>18 DEF ChildDiesOf, PhaseInv, OutcomeInv, Overdue
  <2> QED BY <2>1 DEF Goal, Contract!Next, Contract!End, Contract!Endings, Endings
<1>19. ASSUME NEW p \in Pids, ForeignStarts(p)
       PROVE  Goal
  BY <1>19, <1>a DEF ForeignStarts
<1>20. ASSUME NEW p \in Pids, ForeignEnds(p)
       PROVE  Goal
  BY <1>20, <1>a DEF ForeignEnds
<1>21. ASSUME Tick
       PROVE  Goal
  <2>1. \A w \in Workers : sinceTerm'[w] >= 0 <=> sinceTerm[w] >= 0
    BY <1>21 DEF Tick, HistoryTypeOK
  <2> QED BY <1>21, <2>1 DEF Tick, Goal, Contract!vars, Overdue
<1>22. ASSUME UNCHANGED vars
       PROVE  Goal
  BY <1>22, <1>a DEF vars
<1>23. ASSUME NEW p \in Pids, RunAll(p)
       PROVE  Goal
  BY <1>23, <1>1, <1>2, <1>3, <1>4 DEF RunAll
<1>24. ASSUME WaitForWorkers
       PROVE  Goal
  BY <1>24, <1>6, <1>7, <1>8, <1>9, <1>10, <1>11, <1>12, <1>13, <1>14, <1>15 DEF WaitForWorkers
<1>25. ASSUME Environment
       PROVE  Goal
  BY <1>25, <1>17, <1>18, <1>19, <1>20, <1>21 DEF Environment
<1> QED
  BY <1>5, <1>16, <1>22, <1>23, <1>24, <1>25 DEF Next, Goal

\* What PoolContract promises is what the pool does.
THEOREM PoolImplementsContract ==
  ASSUME ~SigchldIgnored
  PROVE  Spec => ImplementsContract
<1>1. IInv /\ [Next]_vars => [Contract!Next]_(Contract!vars)
  BY ContractStep
<1> QED
  BY <1>1, ContractInit, Inductive, PTL DEF Spec, ImplementsContract, Contract!Spec
=============================================================================
