---------------------------- MODULE WorkerConfig ----------------------------
(***************************************************************************)
(* WorkerConfig (src/src/cWorkerConfig.cpp): buildAllWorkerParams walks the *)
(* sections of the file, validates those with run = yes and collects their  *)
(* parameters; if one of them is bad the program starts no worker at all.   *)
(***************************************************************************)
EXTENDS IniReader

CONSTANTS
  MaxUint16,   \* the largest port and the largest number of threads
  MaxUint32    \* the largest timeout

ASSUME RangeAssumption ==
  /\ MaxUint16 \in Nat /\ MaxUint32 \in Nat
  /\ MaxUint16 < MaxUint32 /\ MaxUint32 < MaxInt

VARIABLES
  drivers,       \* HAVE_MYSQL and HAVE_PGSQL, as the dbtypes compiled in
  next,          \* the iterator of buildAllWorkerParams
  configOk,      \* its flag
  validParams    \* its result

configVars == <<drivers, next, configOk, validParams>>

\* The texts of workerParams and their defaults.
ConnectionTexts == [address |-> <<"localhost">>,
                    user |-> <<"test">>,
                    password |-> <<>>,
                    socket |-> <<"/var/run/mysqld/mysql.sock">>,
                    database |-> <<"test">>]
PathTexts == [infile |-> <<"pquery.sql">>, logdir |-> <<"/tmp">>]

NumberKeys == {"port", "threads", "queries-per-thread", "query-list-maxsize",
               "timeout", "connect-timeout"}

\* The flags of workerParams, and the key each is read from.
KeyOf == [verbose |-> "verbose",
          shuffle |-> "shuffle",
          log_all_queries |-> "log-all-queries",
          log_succeeded_queries |-> "log-succeded-queries",
          log_failed_queries |-> "log-failed-queries",
          log_query_statistics |-> "log-query-statistics",
          log_query_duration |-> "log-query-duration",
          log_client_output |-> "log-client-output",
          log_query_numbers |-> "log-query-numbers"]
Flags == DOMAIN KeyOf

DefaultNumber(dbtype, key) ==
  CASE key = "port" -> IF dbtype = "ePGSQL" THEN 5432 ELSE 3306
    [] key = "threads" -> 10
    [] key = "queries-per-thread" -> 10000
    [] key = "query-list-maxsize" -> Kilo * Kilo * Kilo
    [] key = "timeout" -> 0
    [] key = "connect-timeout" -> 60

\* Only the lower bound is tested.
CheckIntRangeBelow(key, n) == n >= IF key \in {"port", "threads"} THEN 1 ELSE 0

CheckIntRange(key, n) ==
  /\ n >= IF key \in {"port", "threads"} THEN 1 ELSE 0
  /\ n <= CASE key \in {"port", "threads"} -> MaxUint16
            [] key \in {"timeout", "connect-timeout"} -> MaxUint32
            [] OTHER -> MaxInt

\* What is read for a number, if reading does not throw and it is in range.
Number(section, key) ==
  {n \in GetInteger(section, key, DefaultNumber(GetDbType(section), key)) :
     CheckIntRange(key, n)}

\* The static_cast to the unsigned type of the parameter, of 16, 32 or 64 bits.
Narrowed(key, n) ==
  n % (CASE key \in {"port", "threads"} -> MaxUint16 + 1
         [] key \in {"timeout", "connect-timeout"} -> MaxUint32 + 1
         [] OTHER -> 2 * (MaxInt + 1))

\* setupWorkerParams returns true.
ParamsAreValid(section) ==
  /\ GetDbType(section) \in drivers
  /\ \A key \in NumberKeys : Number(section, key) # {}
  /\ GetInfileType(section) = "eSQL"

\* The workerParams it then fills in.
WorkerParams(section) ==
  [myName |-> section,
   dbtype |-> GetDbType(section),
   connection |-> [key \in DOMAIN ConnectionTexts |->
                     Get(section, key, ConnectionTexts[key])],
   path |-> [key \in DOMAIN PathTexts |-> Get(section, key, PathTexts[key])],
   number |-> [key \in NumberKeys |->
                 Narrowed(key, CHOOSE n \in Number(section, key) : TRUE)],
   flag |-> [f \in Flags |-> GetBoolean(section, KeyOf[f], FALSE)]]

\* The name of the master's section must be in lower case.
IsSkippedExactly(section) ==
  section = <<"master">> \/ ~GetBoolean(section, "run", FALSE)

\* A section is validated unless it is the master's or does not say run = yes.
IsSkipped(section) ==
  Lower(section) = <<"master">> \/ ~GetBoolean(section, "run", FALSE)

-----------------------------------------------------------------------------
ConfigInit ==
  /\ next = 1
  /\ configOk = TRUE
  /\ validParams = <<>>

NextSection ==
  /\ next <= Len(sections)
  /\ next' = next + 1
  /\ UNCHANGED <<drivers, readerVars>>

SkipSection ==
  /\ NextSection
  /\ IsSkipped(sections[next])
  /\ UNCHANGED <<configOk, validParams>>

RejectSection ==
  /\ NextSection
  /\ ~IsSkipped(sections[next]) /\ ~ParamsAreValid(sections[next])
  /\ configOk' = FALSE
  /\ UNCHANGED validParams

AcceptSection ==
  /\ NextSection
  /\ ~IsSkipped(sections[next]) /\ ParamsAreValid(sections[next])
  /\ validParams' = Append(validParams, WorkerParams(sections[next]))
  /\ UNCHANGED configOk

CheckSection == SkipSection \/ RejectSection \/ AcceptSection
=============================================================================
