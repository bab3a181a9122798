---------------------------- MODULE PQueryProofs ----------------------------
(***************************************************************************)
(* Theorems about PQuery, for every configuration file, every width of the  *)
(* integers and every set of drivers: the file is read for what it says, one *)
(* bad section keeps all the others from running, the workers are those the *)
(* file asks for, with the numbers it gives, and status 0 means that all of  *)
(* them ran and ended well.                                                 *)
(***************************************************************************)
EXTENDS PQuery, IniReaderProofs

IsSequence(q) == \E S : q \in Seq(S)

\* The sections before next have been looked at; nothing was wrong with one of
\* them as long as configOk holds.
CheckedInv ==
  /\ next \in Nat /\ IsSequence(sections)
  /\ configOk => \A i \in 1..(next - 1) :
                   IsSkipped(sections[i]) \/ ParamsAreValid(sections[i])

\* The program is in one phase after the other.
PhaseInv ==
  /\ pc \in {"cli", "open", "read", "log"} => next = 1
  /\ pc \in {"cli", "open", "read", "log", "check"} => outcome = <<>>
  /\ pc \in {"log", "check", "pool"} => lineNo = Len(file) /\ error = 0
  /\ pc = "pool" => configOk /\ next > Len(sections)

IInv == CheckedInv /\ PhaseInv /\ AllOrNothing

-----------------------------------------------------------------------------
LEMMA AppendIsSequence ==
  ASSUME NEW q, IsSequence(q), NEW e PROVE IsSequence(Append(q, e))
<1>1. PICK S : q \in Seq(S)
  BY DEF IsSequence
<1>2. q \in Seq(S \cup {e}) /\ e \in S \cup {e}
  BY <1>1
<1>3. Append(q, e) \in Seq(S \cup {e})
  BY <1>2
<1> QED
  BY <1>3 DEF IsSequence

LEMMA DomainOfSequence ==
  ASSUME NEW q, IsSequence(q) PROVE DOMAIN q = 1..Len(q) /\ Len(q) \in Nat
<1>1. PICK S : q \in Seq(S)
  BY DEF IsSequence
<1> QED
  BY <1>1

LEMMA EmptyIsSequence == IsSequence(<<>>)
<1>1. <<>> \in Seq({})
  OBVIOUS
<1> QED
  BY <1>1 DEF IsSequence

\* What is thought of a section depends on the keys that were read and on the
\* drivers there are.
LEMMA SameMapSameVerdict ==
  ASSUME UNCHANGED <<map, drivers>>, NEW section
  PROVE  /\ IsSkipped(section)' <=> IsSkipped(section)
         /\ ParamsAreValid(section)' <=> ParamsAreValid(section)
<1>1. map' = map /\ drivers' = drivers
  OBVIOUS
<1>2. IsSkipped(section)' <=> IsSkipped(section)
  BY <1>1 DEF IsSkipped, GetBoolean, Get, Lower, Lowered
<1>3. ParamsAreValid(section)' <=> ParamsAreValid(section)
  BY <1>1 DEF ParamsAreValid, GetDbType, GetInfileType, Number, GetInteger,
              DefaultNumber, CheckIntRange, Get, Lower, Lowered
<1> QED
  BY <1>2, <1>3

-----------------------------------------------------------------------------
(* The guard of GetInteger                                                 *)

LEMMA DivisionBounds ==
  ASSUME NEW a \in Nat, NEW m \in Nat, m > 0
  PROVE  /\ a \div m \in Nat
         /\ \A n \in Nat : n <= a \div m <=> n * m <= a
  OBVIOUS

\* The guard of GetInteger lets a number and a multiplier pass exactly when
\* their product fits the word.  (cIniReader.cpp:261-266)
LEMMA GuardIsExact ==
  ASSUME NEW n \in Int, NEW m \in Nat, m > 0
  PROVE  ~OutOfRange(n, m) <=> IsInt(n * m)
<1>1. MaxInt \in Nat /\ MaxInt + 1 \in Nat
  BY NumberAssumption
<1>2. CASE n >= 0
  <2>1. n <= MaxInt \div m <=> n * m <= MaxInt
    BY <1>1, <1>2, DivisionBounds
  <2>2. n * m >= 0 /\ n * m \in Int
    BY <1>2
  <2>3. (MaxInt + 1) \div m \in Nat /\ MaxInt \div m \in Nat
    BY <1>1, DivisionBounds
  <2>4. OutOfRange(n, m) <=> n # 0 /\ n > MaxInt \div m
    BY <1>1, <1>2, <2>3 DEF OutOfRange, Quotient, MinInt
  <2>5. IsInt(n * m) <=> n * m <= MaxInt
    BY <1>1, <2>2 DEF IsInt, MinInt
  <2> QED
    BY <1>2, <2>1, <2>3, <2>4, <2>5
<1>3. CASE n < 0
  <2>1. -n <= (MaxInt + 1) \div m <=> (-n) * m <= MaxInt + 1
    BY <1>1, <1>3, DivisionBounds
  <2>2. (-n) * m = -(n * m) /\ n * m \in Int /\ n * m <= 0
    BY <1>3
  <2>3. (MaxInt + 1) \div m \in Nat /\ MaxInt \div m \in Nat
    BY <1>1, DivisionBounds
  <2>4. OutOfRange(n, m) <=> n < -((MaxInt + 1) \div m)
    BY <1>1, <1>3, <2>3 DEF OutOfRange, Quotient, MinInt
  <2>5. IsInt(n * m) <=> -(n * m) <= MaxInt + 1
    BY <1>1, <2>2 DEF IsInt, MinInt
  <2> QED
    BY <1>1, <1>3, <2>1, <2>2, <2>3, <2>4, <2>5
<1> QED
  BY <1>2, <1>3

LEMMA ProductIsExact ==
  ASSUME NEW n \in Int, NEW m \in Nat, IsInt(n * m)
  PROVE  Product(n, m) = n * m
<1>1. n * m \in Int
  OBVIOUS
<1> DEFINE x == n * m - MinInt
           size == 2 * (MaxInt + 1)
<1>2. x \in 0..(size - 1) /\ size \in Nat
  BY <1>1, NumberAssumption DEF IsInt, MinInt
<1>3. x % size = x
  <2> HIDE DEF x, size
  <2> QED
    BY <1>2
<1> QED
  BY <1>1, <1>3, NumberAssumption DEF Product, MinInt

LEMMA MultipliersArePositive ==
  ASSUME NEW value PROVE Multipliers(value) \subseteq Nat \ {0}
<1>1. Kilo \in Nat \ {0}
  BY NumberAssumption
<1>2. Kilo * Kilo \in Nat \ {0}
  BY <1>1
<1>3. Kilo * Kilo * Kilo \in Nat \ {0}
  BY <1>1, <1>2
<1>4. Kilo * Kilo * Kilo * Kilo \in Nat \ {0}
  BY <1>1, <1>3
<1> QED
  BY <1>1, <1>2, <1>3, <1>4 DEF Multipliers

\* A factor of a product that fits the word fits it too.
LEMMA FactorFits ==
  ASSUME NEW n \in Int, NEW m \in Nat, m > 0, IsInt(n * m)
  PROVE  IsInt(n)
<1>1. MaxInt \in Nat
  BY NumberAssumption
<1>2. CASE n >= 0
  <2>1. n <= n * m
    BY <1>2
  <2> QED
    BY <1>1, <1>2, <2>1 DEF IsInt, MinInt
<1>3. CASE n < 0
  <2>1. n * m <= n
    BY <1>3
  <2> QED
    BY <1>1, <1>3, <2>1 DEF IsInt, MinInt
<1> QED
  BY <1>2, <1>3

\* Whatever the words that are numbers and the width of the integers: GetInteger
\* returns the default where there is no value, and else exactly the products of
\* the number and its multiplier that fit the word.  None wraps around, and none
\* that fits is refused.  (cIniReader.cpp:217-269)
THEOREM GetIntegerIsExact ==
  ASSUME NEW section, NEW key, NEW default
  PROVE  LET value == Get(section, key, <<>>)
         IN GetInteger(section, key, default) =
              IF value = <<>> THEN {default}
              ELSE {n \in Int : /\ IsInt(n)
                                /\ \E x \in Numerals(value) \X Multipliers(value) :
                                      n = x[1] * x[2]}
<1> DEFINE value == Get(section, key, <<>>)
           pairs == Numerals(value) \X Multipliers(value)
           kept == {y \in pairs : IsInt(y[1]) /\ ~OutOfRange(y[1], y[2])}
           exact == {n \in Int : IsInt(n) /\ \E x \in pairs : n = x[1] * x[2]}
<1>1. GetInteger(section, key, default) =
        IF value = <<>> THEN {default} ELSE {Product(x[1], x[2]) : x \in kept}
  BY DEF GetInteger
<1>2. ASSUME NEW x \in pairs
      PROVE  /\ x[1] \in Int /\ x[2] \in Nat /\ x[2] > 0 /\ x[1] * x[2] \in Int
             /\ x \in kept <=> IsInt(x[1] * x[2])
             /\ IsInt(x[1] * x[2]) => Product(x[1], x[2]) = x[1] * x[2]
  <2>1. x[1] \in Numerals(value) /\ x[2] \in Multipliers(value)
    BY <1>2
  <2>2. x[1] \in Int
    BY <2>1, DigitsAssumption DEF Numerals
  <2>3. x[2] \in Nat /\ x[2] > 0
    BY <2>1, MultipliersArePositive
  <2>4. x[1] * x[2] \in Int
    BY <2>2, <2>3
  <2>5. x \in kept <=> IsInt(x[1]) /\ ~OutOfRange(x[1], x[2])
    BY <1>2
  <2>6. ~OutOfRange(x[1], x[2]) <=> IsInt(x[1] * x[2])
    BY <2>2, <2>3, GuardIsExact
  <2>7. IsInt(x[1] * x[2]) => IsInt(x[1])
    BY <2>2, <2>3, FactorFits
  <2>8. IsInt(x[1] * x[2]) => Product(x[1], x[2]) = x[1] * x[2]
    BY <2>2, <2>3, ProductIsExact
  <2> QED
    BY <2>2, <2>3, <2>4, <2>5, <2>6, <2>7, <2>8
<1>3. \A x \in kept : x \in pairs
  OBVIOUS
<1> HIDE DEF pairs, kept
<1>4. {Product(x[1], x[2]) : x \in kept} = exact
  <2>1. ASSUME NEW x \in kept PROVE Product(x[1], x[2]) \in exact
    BY <1>2, <1>3
  <2>2. ASSUME NEW n \in exact PROVE \E x \in kept : n = Product(x[1], x[2])
    BY <1>2
  <2> QED
    BY <2>1, <2>2
<1> QED
  BY <1>1, <1>4 DEF pairs

-----------------------------------------------------------------------------
(* One bad section keeps the others from running                           *)

LEMMA InitHolds == Init => IInv
<1> SUFFICES ASSUME Init PROVE IInv
  OBVIOUS
<1>1. CheckedInv
  BY EmptyIsSequence DEF Init, ReaderInit, ConfigInit, CheckedInv
<1>2. PhaseInv
  BY DEF Init, ReaderInit, ConfigInit, PhaseInv
<1>3. AllOrNothing
  BY DEF Init, AllOrNothing
<1> QED
  BY <1>1, <1>2, <1>3 DEF IInv

\* While no section has been looked at there is nothing to keep.
LEMMA BeforeTheCheck ==
  ASSUME next' = 1, IsSequence(sections)', outcome' = <<>>
  PROVE  CheckedInv' /\ AllOrNothing'
<1>1. \A i \in 1..(next' - 1) : FALSE
  OBVIOUS
<1> QED
  BY <1>1 DEF CheckedInv, AllOrNothing

\* A step that neither reads the file nor checks a section.
LEMMA SameFileSameVerdicts ==
  ASSUME IInv, UNCHANGED <<readerVars, configVars>>
  PROVE  /\ CheckedInv'
         /\ (/\ lineNo = Len(file) /\ error = 0
             /\ \A i \in DOMAIN sections :
                   IsSkipped(sections[i]) \/ ParamsAreValid(sections[i]))
            => AllOrNothing'
<1>1. UNCHANGED <<file, lineNo, sections, map, error, drivers, next, configOk>>
  BY DEF readerVars, configVars
<1>2. \A section : /\ IsSkipped(section)' <=> IsSkipped(section)
                   /\ ParamsAreValid(section)' <=> ParamsAreValid(section)
  BY <1>1, SameMapSameVerdict
<1>3. CheckedInv'
  BY <1>1, <1>2 DEF IInv, CheckedInv
<1> QED
  BY <1>1, <1>2, <1>3 DEF AllOrNothing

\* In the pool every section has been looked at.
LEMMA AllChecked ==
  ASSUME IInv, pc = "pool"
  PROVE  /\ lineNo = Len(file) /\ error = 0
         /\ \A i \in DOMAIN sections :
               IsSkipped(sections[i]) \/ ParamsAreValid(sections[i])
<1>1. DOMAIN sections = 1..Len(sections) /\ Len(sections) \in Nat
  BY DomainOfSequence DEF IInv, CheckedInv
<1>2. next \in Nat /\ next > Len(sections) /\ configOk
  BY DEF IInv, CheckedInv, PhaseInv
<1>3. \A i \in DOMAIN sections : i \in 1..(next - 1)
  BY <1>1, <1>2
<1> QED
  BY <1>2, <1>3 DEF IInv, CheckedInv, PhaseInv

LEMMA ReadConfigKeeps == IInv /\ ReadConfig => IInv'
<1> SUFFICES ASSUME IInv, ReadConfig PROVE IInv'
  OBVIOUS
<1>1. pc = "read" /\ pc' = "read" /\ UNCHANGED <<next, outcome>>
  BY DEF ReadConfig, configVars
<1>2. IsSequence(sections)'
  BY AppendIsSequence DEF ReadConfig, ReadLine, SkipLine, ReadSection,
     ReadKeyValue, ReadMalformed, IInv, CheckedInv
<1>3. CheckedInv' /\ AllOrNothing'
  BY <1>1, <1>2, BeforeTheCheck DEF IInv, PhaseInv
<1>4. PhaseInv'
  BY <1>1 DEF IInv, PhaseInv
<1> QED
  BY <1>3, <1>4 DEF IInv

LEMMA BuildAllWorkerParamsKeeps == IInv /\ BuildAllWorkerParams => IInv'
<1> SUFFICES ASSUME IInv, BuildAllWorkerParams PROVE IInv'
  OBVIOUS
<1>1. /\ pc = "check" /\ pc' = "check" /\ outcome' = outcome
      /\ next' = next + 1 /\ UNCHANGED <<drivers, readerVars>>
  BY DEF BuildAllWorkerParams, CheckSection, SkipSection, RejectSection,
         AcceptSection, NextSection
<1>2. UNCHANGED <<file, lineNo, sections, map, error, drivers>>
  BY <1>1 DEF readerVars
<1>3. \A section : /\ IsSkipped(section)' <=> IsSkipped(section)
                   /\ ParamsAreValid(section)' <=> ParamsAreValid(section)
  BY <1>2, SameMapSameVerdict
<1>4. configOk' => /\ configOk
                   /\ IsSkipped(sections[next]) \/ ParamsAreValid(sections[next])
  BY DEF BuildAllWorkerParams, CheckSection, SkipSection, RejectSection,
         AcceptSection
<1>5. next \in Nat /\ IsSequence(sections)
  BY DEF IInv, CheckedInv
<1>6. \A i \in 1..(next' - 1) : i \in 1..(next - 1) \/ i = next
  BY <1>1, <1>5
<1>7. configOk' => \A i \in 1..(next' - 1) :
                     IsSkipped(sections[i]) \/ ParamsAreValid(sections[i])
  BY <1>4, <1>6 DEF IInv, CheckedInv
<1>8. CheckedInv'
  BY <1>1, <1>2, <1>3, <1>5, <1>7 DEF CheckedInv
<1>9. AllOrNothing' /\ PhaseInv'
  BY <1>1, <1>2 DEF IInv, PhaseInv, AllOrNothing
<1> QED
  BY <1>8, <1>9 DEF IInv

\* The steps before the pool that leave the file and the sections alone.
LEMMA EarlyStepKeeps ==
  ASSUME IInv, UNCHANGED <<readerVars, configVars, outcome>>,
         \/ ParseCliOptions \/ InitConfig \/ InitLogger \/ ConfigChecked
         \/ LogFails \/ PoolReturns
  PROVE  IInv'
<1>1. UNCHANGED <<lineNo, file, error, next, configOk, sections>>
  BY DEF readerVars, configVars
<1>2. CheckedInv'
  BY SameFileSameVerdicts
<1>3. AllOrNothing'
  <2>1. CASE outcome = <<>>
    BY <2>1 DEF AllOrNothing
  <2>2. CASE outcome # <<>>
    BY <2>2, SameFileSameVerdicts DEF IInv, AllOrNothing
  <2> QED
    BY <2>1, <2>2
<1>4. PhaseInv'
  BY <1>1 DEF IInv, PhaseInv, ParseCliOptions, InitConfig, InitLogger,
     ConfigChecked, LogFails, PoolReturns, GoTo, Exit
<1> QED
  BY <1>2, <1>3, <1>4 DEF IInv

LEMMA OpenConfigKeeps == IInv /\ OpenConfig => IInv'
<1> SUFFICES ASSUME IInv, OpenConfig PROVE IInv'
  OBVIOUS
<1>1. /\ pc = "open" /\ pc' \in {"read", "exited"}
      /\ UNCHANGED <<sections, next, outcome>>
  BY DEF OpenConfig, GoTo, Exit, configVars
<1>2. CheckedInv' /\ AllOrNothing'
  BY <1>1, BeforeTheCheck DEF IInv, PhaseInv, CheckedInv
<1>3. PhaseInv'
  BY <1>1 DEF IInv, PhaseInv
<1> QED
  BY <1>2, <1>3 DEF IInv

LEMMA WorkersKeep ==
  ASSUME IInv, StartWorker \/ \E w \in DOMAIN outcome : WorkerEnds(w)
  PROVE  IInv'
<1>1. UNCHANGED <<readerVars, configVars, pc>>
  BY DEF StartWorker, WorkerEnds
<1>2. CheckedInv'
  BY <1>1, SameFileSameVerdicts
<1>3. pc = "pool" \/ outcome # <<>>
  BY DEF StartWorker
<1>4. AllOrNothing'
  BY <1>1, <1>3, SameFileSameVerdicts, AllChecked DEF IInv, AllOrNothing
<1>5. PhaseInv'
  BY <1>1, <1>3 DEF IInv, PhaseInv, StartWorker, WorkerEnds, readerVars,
     configVars
<1> QED
  BY <1>2, <1>4, <1>5 DEF IInv

LEMMA NextKeeps == IInv /\ [Next]_vars => IInv'
<1> SUFFICES ASSUME IInv, [Next]_vars PROVE IInv'
  OBVIOUS
<1>1. CASE ParseCliOptions \/ InitConfig \/ InitLogger \/ ConfigChecked
           \/ LogFails \/ PoolReturns
  <2>1. UNCHANGED <<readerVars, configVars, outcome>>
    BY <1>1 DEF ParseCliOptions, InitConfig, InitLogger, ConfigChecked,
       LogFails, PoolReturns
  <2> QED
    BY <1>1, <2>1, EarlyStepKeeps
<1>2. CASE UNCHANGED vars
  <2>1. UNCHANGED <<readerVars, configVars, outcome, pc>>
    BY <1>2 DEF vars
  <2>2. CheckedInv'
    BY <2>1, SameFileSameVerdicts
  <2>3. AllOrNothing'
    BY <2>1, SameFileSameVerdicts DEF IInv, AllOrNothing
  <2>4. PhaseInv'
    BY <2>1 DEF IInv, PhaseInv, readerVars, configVars
  <2> QED
    BY <2>2, <2>3, <2>4 DEF IInv
<1>3. CASE Next
  BY <1>1, <1>3, ReadConfigKeeps, BuildAllWorkerParamsKeeps, OpenConfigKeeps,
     WorkersKeep DEF Next
<1> QED
  BY <1>2, <1>3

\* For every file: a worker is started only after the whole file was read
\* without error and every section to be run was found valid.
\* (cWorkerConfig.cpp:179-209, cPQuery.cpp:79-97)
THEOREM AllOrNone == Spec => []AllOrNothing
<1>1. Init => IInv
  BY InitHolds
<1>2. IInv /\ [Next]_vars => IInv'
  BY NextKeeps
<1>3. IInv => AllOrNothing
  BY DEF IInv
<1> QED
  BY <1>1, <1>2, <1>3, PTL DEF Spec

-----------------------------------------------------------------------------
(* What the program knows of its file                                      *)

\* The reader holds what the lines read so far say, unless the file could not
\* be opened.
FileInv ==
  /\ FileIsText /\ LinesAreHeld
  /\ FirstErrorIsHeld \/ (error = -1 /\ pc = "exited" /\ next = 1)

LEMMA InitReadsNothing == Init => FileInv
<1> SUFFICES ASSUME Init PROVE FileInv
  OBVIOUS
<1>1. file \in Files /\ ReaderInit
  BY DEF Init
<1>2. IsText(file) /\ \A line \in Range(file) : IsText(line)
  BY <1>1, FilesAssumption
<1>3. FileIsText
  BY <1>2 DEF FileIsText, Range
<1> QED
  BY <1>1, <1>3, NothingIsHeld DEF FileInv

\* What is held of the lines depends on the reader alone.
LEMMA SameLinesAreHeld ==
  ASSUME FileIsText, LinesAreHeld,
         UNCHANGED <<file, lineNo, currentSection, sections, map>>
  PROVE  FileIsText' /\ LinesAreHeld'
<1>1. /\ file' = file /\ lineNo' = lineNo /\ currentSection' = currentSection
      /\ sections' = sections /\ map' = map
  OBVIOUS
<1>2. FileIsText'
  BY <1>1 DEF FileIsText
<1>3. LinesAreHeld'
  BY <1>1 DEF LinesAreHeld
<1> QED
  BY <1>2, <1>3

LEMMA NextKeepsFile == IInv /\ FileInv /\ [Next]_vars => FileInv'
<1> SUFFICES ASSUME IInv, FileInv, [Next]_vars PROVE FileInv'
  OBVIOUS
<1>1. CASE ReadConfig
  <2>1. ReadLine /\ pc = "read" /\ pc' = "read"
    BY <1>1 DEF ReadConfig
  <2>2. FileIsText /\ LinesAreHeld /\ FirstErrorIsHeld
    BY <2>1 DEF FileInv
  <2>3. FileIsText'
    BY <2>1, <2>2, NextLineIs DEF FileIsText
  <2>4. LinesAreHeld' /\ FirstErrorIsHeld'
    BY <2>1, <2>2, ReadLineKeepsLines, ReadLineKeepsFirstError
  <2> QED
    BY <2>3, <2>4 DEF FileInv
<1>2. CASE OpenConfig
  <2>1. /\ pc = "open" /\ UNCHANGED <<file, lineNo, currentSection, sections, map>>
        /\ next' = next
        /\ UNCHANGED error \/ (pc' = "exited" /\ error' = -1)
    BY <1>2 DEF OpenConfig, Exit, configVars
  <2>2. FileIsText /\ LinesAreHeld /\ FirstErrorIsHeld /\ next = 1
    BY <2>1 DEF FileInv, IInv, PhaseInv
  <2>3. FileIsText' /\ LinesAreHeld'
    BY <2>1, <2>2, SameLinesAreHeld
  <2>4. FirstErrorIsHeld' \/ (error' = -1 /\ pc' = "exited" /\ next' = 1)
    BY <2>1, <2>2 DEF FirstErrorIsHeld
  <2> QED
    BY <2>3, <2>4 DEF FileInv
<1>3. CASE UNCHANGED readerVars /\ (pc = "exited" => UNCHANGED <<pc, next>>)
  <2>1. UNCHANGED <<file, lineNo, currentSection, sections, map, error>>
    BY <1>3 DEF readerVars
  <2>2. FileIsText' /\ LinesAreHeld'
    BY <2>1, SameLinesAreHeld DEF FileInv
  <2>3. FirstErrorIsHeld => FirstErrorIsHeld'
    BY <2>1 DEF FirstErrorIsHeld
  <2> QED
    BY <1>3, <2>1, <2>2, <2>3 DEF FileInv
<1>4. CASE ParseCliOptions \/ InitConfig \/ InitLogger \/ LogFails
           \/ BuildAllWorkerParams \/ ConfigChecked \/ StartWorker \/ PoolReturns
  BY <1>3, <1>4 DEF ParseCliOptions, InitConfig, InitLogger, LogFails,
     BuildAllWorkerParams, CheckSection, SkipSection, RejectSection,
     AcceptSection, NextSection, ConfigChecked, StartWorker, PoolReturns
<1>5. CASE (\E w \in DOMAIN outcome : WorkerEnds(w)) \/ UNCHANGED vars
  BY <1>3, <1>5 DEF WorkerEnds, vars, configVars
<1> QED
  BY <1>1, <1>2, <1>4, <1>5 DEF Next

LEMMA FileIsFollowed == Spec => [](IInv /\ FileInv)
<1>1. Init => IInv /\ FileInv
  BY InitHolds, InitReadsNothing
<1>2. IInv /\ FileInv /\ [Next]_vars => (IInv /\ FileInv)'
  BY NextKeeps, NextKeepsFile
<1> QED
  BY <1>1, <1>2, PTL DEF Spec

\* For every file: once it is read, the reader holds the first bad line, the
\* sections in order with their repetitions, and for each key of a section the
\* last value given anywhere under a header of that name.
\* (cIniReader.cpp:116-146)
THEOREM FileIsRead == Spec => []ReadsTheFile
<1>1. FileInv => ReadsTheFile
  <2> SUFFICES ASSUME FileInv, pc = "read", lineNo = Len(file)
               PROVE  ReadsTheFile
    BY DEF ReadsTheFile
  <2>1. FirstErrorIsHeld
    BY DEF FileInv
  <2> QED
    BY <2>1, AllIsHeld DEF FileInv, FirstErrorIsHeld, ReadsTheFile
<1> QED
  BY <1>1, FileIsFollowed, PTL

-----------------------------------------------------------------------------
(* The parameters of the workers                                           *)

Accepted(n) ==
  {i \in 1..n : ~IsSkipped(sections[i]) /\ ParamsAreValid(sections[i])}

AllParams == [i \in DOMAIN sections |-> WorkerParams(sections[i])]

\* The parameters collected are those of the sections that were accepted, in
\* the order of the file.
ParamsInv ==
  /\ next \in 1..(Len(sections) + 1)
  /\ next > 1 => lineNo = Len(file) /\ error = 0
  /\ validParams = Picked(AllParams, Accepted(next - 1))

LEMMA SameMapSameParams ==
  ASSUME UNCHANGED map, NEW section
  PROVE  WorkerParams(section)' = WorkerParams(section)
<1>1. map' = map
  OBVIOUS
<1> QED
  BY <1>1 DEF WorkerParams, GetDbType, Get, Lower, Lowered, Number, GetInteger,
     Narrowed, DefaultNumber, CheckIntRange, GetBoolean

\* What is accepted, and with which parameters, depends on the sections, the
\* keys and the drivers.
LEMMA SameAccepted ==
  ASSUME UNCHANGED <<sections, map, drivers>>
  PROVE  AllParams' = AllParams /\ \A n : Accepted(n)' = Accepted(n)
<1>1. sections' = sections
  OBVIOUS
<1>2. \A section : WorkerParams(section)' = WorkerParams(section)
  BY SameMapSameParams
<1>3. \A section : /\ IsSkipped(section)' <=> IsSkipped(section)
                   /\ ParamsAreValid(section)' <=> ParamsAreValid(section)
  BY SameMapSameVerdict
<1>4. AllParams' = AllParams
  BY <1>1, <1>2 DEF AllParams
<1>5. ASSUME NEW n PROVE Accepted(n)' = Accepted(n)
  BY <1>1, <1>3 DEF Accepted
<1> QED
  BY <1>4, <1>5

\* While no section has been looked at nothing is collected.
LEMMA NoParamsYet ==
  ASSUME next = 1, IsSequence(sections), validParams = <<>>
  PROVE  ParamsInv
<1>1. Accepted(next - 1) = {}
  BY DEF Accepted
<1>2. validParams = Picked(AllParams, Accepted(next - 1))
  BY <1>1, PickedNone
<1>3. next \in 1..(Len(sections) + 1)
  BY DomainOfSequence
<1> QED
  BY <1>2, <1>3 DEF ParamsInv

LEMMA NoParams ==
  ASSUME ParamsInv, next = 1 PROVE validParams = <<>>
<1>1. Accepted(next - 1) = {}
  BY DEF Accepted
<1> QED
  BY <1>1, PickedNone DEF ParamsInv

LEMMA NoParamsAfter ==
  ASSUME next' = 1, IsSequence(sections)', validParams' = <<>>
  PROVE  ParamsInv'
<1>1. Accepted(next - 1)' = {}
  BY DEF Accepted
<1>2. (validParams = Picked(AllParams, Accepted(next - 1)))'
  BY <1>1, PickedNone
<1>3. next' \in 1..(Len(sections') + 1)
  BY DomainOfSequence
<1> QED
  BY <1>2, <1>3 DEF ParamsInv

LEMMA BuildAllWorkerParamsKeepsParams ==
  ASSUME IInv, ParamsInv, BuildAllWorkerParams
  PROVE  ParamsInv'
<1> DEFINE n == next
           A == Accepted(n - 1)
<1>1. /\ n \in 1..Len(sections) /\ n' = n + 1 /\ Len(sections) \in Nat
      /\ UNCHANGED <<file, lineNo, error, sections, map, drivers>>
      /\ DOMAIN sections = 1..Len(sections)
  <2>1. IsSequence(sections)
    BY DEF IInv, CheckedInv
  <2> QED
    BY <2>1, DomainOfSequence DEF BuildAllWorkerParams, CheckSection, SkipSection,
       RejectSection, AcceptSection, NextSection, ParamsInv, readerVars
<1>2. lineNo = Len(file) /\ error = 0
  BY DEF BuildAllWorkerParams, IInv, PhaseInv
<1>3. validParams = Picked(AllParams, A)
  BY DEF ParamsInv
<1>4. AllParams' = AllParams /\ \A k : Accepted(k)' = Accepted(k)
  BY <1>1, SameAccepted
<1>5. \A i : i \in 1..n <=> i \in 1..(n - 1) \/ i = n
  BY <1>1
<1>6. validParams' = Picked(AllParams, Accepted(n))
  <2>1. CASE ~IsSkipped(sections[n]) /\ ParamsAreValid(sections[n])
    <3>1. validParams' = Append(validParams, WorkerParams(sections[n]))
      BY <2>1 DEF BuildAllWorkerParams, CheckSection, SkipSection,
         RejectSection, AcceptSection
    <3>2. Accepted(n) = A \cup {n}
      BY <1>5, <2>1 DEF Accepted
    <3>3. AllParams[n] = WorkerParams(sections[n])
      BY <1>1 DEF AllParams
    <3>4. A \in SUBSET (1..(n - 1)) /\ n - 1 \in Nat /\ (n - 1) + 1 = n
      BY <1>1 DEF Accepted
    <3> HIDE DEF A, n
    <3>5. Picked(AllParams, A \cup {n}) = Append(Picked(AllParams, A), AllParams[n])
      <4> DEFINE m == n - 1
      <4>1. m \in Nat /\ A \in SUBSET (1..m) /\ m + 1 = n
        BY <3>4
      <4> HIDE DEF m
      <4>2. Picked(AllParams, A \cup {m + 1}) =
              Append(Picked(AllParams, A), AllParams[m + 1])
        BY <4>1, PickedOneMore
      <4> QED
        BY <4>1, <4>2
    <3> QED
      BY <1>3, <3>1, <3>2, <3>3, <3>5
  <2>2. CASE ~(~IsSkipped(sections[n]) /\ ParamsAreValid(sections[n]))
    <3>1. validParams' = validParams
      BY <2>2 DEF BuildAllWorkerParams, CheckSection, SkipSection,
         RejectSection, AcceptSection
    <3>2. Accepted(n) = A
      BY <1>5, <2>2 DEF Accepted
    <3> QED
      BY <1>3, <3>1, <3>2
  <2> QED
    BY <2>1, <2>2
<1>7. next' - 1 = n
  BY <1>1
<1>8. Accepted(next - 1)' = Accepted(n)
  BY <1>4, <1>7
<1>9. (validParams = Picked(AllParams, Accepted(next - 1)))'
  BY <1>4, <1>6, <1>8
<1> QED
  BY <1>1, <1>2, <1>9 DEF ParamsInv

LEMMA NextKeepsParams == IInv /\ ParamsInv /\ [Next]_vars => ParamsInv'
<1> SUFFICES ASSUME IInv, ParamsInv, [Next]_vars PROVE ParamsInv'
  OBVIOUS
<1>1. IInv'
  BY NextKeeps
<1>2. IsSequence(sections)'
  BY <1>1 DEF IInv, CheckedInv
<1>3. CASE ReadConfig \/ OpenConfig
  <2>1. next = 1 /\ next' = 1 /\ validParams' = validParams
    BY <1>3 DEF ReadConfig, OpenConfig, IInv, PhaseInv, configVars
  <2>2. validParams = <<>>
    BY <2>1, NoParams
  <2> QED
    BY <1>2, <2>1, <2>2, NoParamsAfter
<1>4. CASE UNCHANGED <<readerVars, configVars>>
  <2>1. UNCHANGED <<file, lineNo, error, sections, map, drivers, next, validParams>>
    BY <1>4 DEF readerVars, configVars
  <2>2. AllParams' = AllParams /\ \A n : Accepted(n)' = Accepted(n)
    BY <2>1, SameAccepted
  <2>3. (validParams = Picked(AllParams, Accepted(next - 1)))'
    BY <2>1, <2>2 DEF ParamsInv
  <2> QED
    BY <2>1, <2>3 DEF ParamsInv
<1>5. CASE ParseCliOptions \/ InitConfig \/ InitLogger \/ LogFails
           \/ ConfigChecked \/ StartWorker \/ PoolReturns
  BY <1>4, <1>5 DEF ParseCliOptions, InitConfig, InitLogger, LogFails,
     ConfigChecked, StartWorker, PoolReturns
<1>6. CASE (\E w \in DOMAIN outcome : WorkerEnds(w)) \/ UNCHANGED vars
  BY <1>4, <1>6 DEF WorkerEnds, vars
<1> QED
  BY <1>3, <1>5, <1>6, BuildAllWorkerParamsKeepsParams DEF Next

\* No more parameters are collected than sections have been looked at.
LEMMA ParamsAreSequence ==
  ASSUME ParamsInv, IsSequence(sections)
  PROVE  IsSequence(validParams) /\ Len(validParams) \in 0..(next - 1)
<1> DEFINE n == next - 1
           A == Accepted(n)
<1>1. n \in Nat /\ validParams = Picked(AllParams, A)
  BY DomainOfSequence DEF ParamsInv
<1>2. A \in SUBSET (1..n)
  BY DEF Accepted
<1> HIDE DEF n, A
<1>3. IsFiniteSet(1..n) /\ Cardinality(1..n) = n
  BY <1>1, FS_Interval
<1>4. IsFiniteSet(A) /\ Cardinality(A) <= n
  BY <1>2, <1>3, FS_Subset
<1>5. Cardinality(A) \in 0..n
  BY <1>1, <1>4, FS_CardinalityType
<1>6. /\ validParams \in Seq(Range(validParams))
      /\ Len(validParams) = Cardinality(A)
  BY <1>1, <1>4, PickedIsSequence
<1> QED
  BY <1>5, <1>6 DEF IsSequence, n

\* The parameters of a worker are those of an accepted section.
LEMMA ParamsOfASection ==
  ASSUME ParamsInv, IsSequence(sections), NEW w \in DOMAIN validParams
  PROVE  LET i == Nth(Accepted(next - 1), w)
         IN /\ w \in 1..Cardinality(Accepted(next - 1))
            /\ i \in DOMAIN sections
            /\ ParamsAreValid(sections[i])
            /\ validParams[w] = WorkerParams(sections[i])
<1> DEFINE n == next - 1
           A == Accepted(n)
<1>1. /\ n \in Nat /\ n <= Len(sections) /\ DOMAIN sections = 1..Len(sections)
      /\ validParams = Picked(AllParams, A)
  BY DomainOfSequence DEF ParamsInv
<1>2. A \in SUBSET (1..n) /\ \A i \in A : ParamsAreValid(sections[i])
  BY DEF Accepted
<1> HIDE DEF n, A
<1>3. w \in 1..Cardinality(A) /\ validParams[w] = AllParams[Nth(A, w)]
  BY <1>1 DEF Picked
<1>4. Nth(A, w) \in A
  BY <1>1, <1>2, <1>3, NthIsThere
<1>5. Nth(A, w) \in DOMAIN sections
  <2>1. Len(sections) \in Nat
    BY DomainOfSequence
  <2>2. Nth(A, w) \in 1..n
    BY <1>2, <1>4
  <2> QED
    BY <1>1, <2>1, <2>2
<1>6. AllParams[Nth(A, w)] = WorkerParams(sections[Nth(A, w)])
  BY <1>5 DEF AllParams
<1> QED
  BY <1>2, <1>3, <1>4, <1>5, <1>6 DEF n, A

-----------------------------------------------------------------------------
(* What the file says and what the getters return                          *)

LEMMA SaidIsGot ==
  ASSUME FileIsText, LinesAreHeld, lineNo = Len(file), NEW section, NEW key
  PROVE  Said(Says(file), section, key) = Get(section, key, <<>>)
<1> DEFINE x == <<section, <<key>>>>
           said == {s \in Says(file) : s[1] = section /\ s[2] = <<key>>}
<1>1. Says(file) = {<<y[1], y[2], map[y]>> : y \in DOMAIN map}
  BY AllIsHeld
<1>2. \A y \in DOMAIN map : y = <<y[1], y[2]>>
  BY HeldIsWellFormed
<1>3. Said(Says(file), section, key) =
        IF said = {} THEN <<>> ELSE (CHOOSE s \in said : TRUE)[3]
  BY DEF Said
<1>4. ASSUME NEW s \in said PROVE x \in DOMAIN map /\ s[3] = map[x]
  <2>1. PICK y \in DOMAIN map : s = <<y[1], y[2], map[y]>>
    BY <1>1
  <2>2. y[1] = section /\ y[2] = <<key>> /\ s[3] = map[y]
    BY <2>1
  <2>3. y = x
    BY <1>2, <2>2
  <2> QED
    BY <2>2, <2>3
<1>5. ASSUME x \in DOMAIN map PROVE said # {}
  <2>1. <<x[1], x[2], map[x]>> \in Says(file)
    BY <1>1, <1>5
  <2>2. <<x[1], x[2], map[x]>> \in said
    BY <2>1
  <2> QED
    BY <2>2
<1>6. Get(section, key, <<>>) = IF x \in DOMAIN map THEN map[x] ELSE <<>>
  BY DEF Get
<1> HIDE DEF x, said
<1> QED
  BY <1>3, <1>4, <1>5, <1>6

\* The text of a value that is there.
LEMMA GotIsText ==
  ASSUME FileIsText, LinesAreHeld, NEW section, NEW key
  PROVE  \/ Get(section, key, <<>>) = <<>>
         \/ IsText(Get(section, key, <<>>)) /\ IsValue(Get(section, key, <<>>))
<1> DEFINE x == <<section, <<key>>>>
<1>1. CASE x \in DOMAIN map
  <2>1. Get(section, key, <<>>) = map[x]
    BY <1>1 DEF Get
  <2> HIDE DEF x
  <2> QED
    BY <1>1, <2>1, HeldIsWellFormed
<1>2. CASE x \notin DOMAIN map
  BY <1>2 DEF Get
<1> QED
  BY <1>1, <1>2

\* A number that is read is the default or what the text says.
LEMMA NumberIsGiven ==
  ASSUME FileIsText, LinesAreHeld, NEW section, NEW key,
         NEW n \in Number(section, key)
  PROVE  LET text == Get(section, key, <<>>)
         IN IF text = <<>> THEN n = DefaultNumber(GetDbType(section), key)
            ELSE IsNumeral(text, n)
<1> DEFINE text == Get(section, key, <<>>)
           default == DefaultNumber(GetDbType(section), key)
<1>1. n \in GetInteger(section, key, default)
  BY DEF Number
<1>2. CASE text = <<>>
  BY <1>1, <1>2 DEF GetInteger
<1>3. CASE text # <<>>
  <2>1. PICK x \in Numerals(text) \X Multipliers(text) : n = x[1] * x[2]
    <3>1. GetInteger(section, key, default) =
            {k \in Int : /\ IsInt(k)
                         /\ \E x \in Numerals(text) \X Multipliers(text) :
                               k = x[1] * x[2]}
      BY <1>3, GetIntegerIsExact
    <3> QED
      BY <1>1, <3>1
  <2>2. IsText(text)
    BY <1>3, GotIsText
  <2> HIDE DEF text
  <2> DEFINE i == NumberAt(text)
             sign == IF text[1] = "-" THEN -1 ELSE 1
  <2>3. /\ ~(i > Len(text)) /\ text[i] \in DOMAIN Digits
        /\ x[1] = IF text[1] = "-" THEN -Digits[text[i]] ELSE Digits[text[i]]
    BY <2>1 DEF Numerals
  <2>4. i \in DOMAIN text
    BY <2>2, <2>3, TextIs DEF NumberAt
  <2>5. x[2] \in Multipliers(text) /\ x[2] \in Nat /\ Digits[text[i]] \in Nat
    BY <2>1, <2>3, MultipliersArePositive, DigitsAssumption
  <2>6. sign \in {1, -1} /\ ((sign = -1) = (text[1] = "-"))
    OBVIOUS
  <2>7. n = sign * Digits[text[i]] * x[2]
    BY <2>1, <2>3, <2>5
  <2>8. i = IF text[1] \in {"-", "+"} THEN 2 ELSE 1
    BY DEF NumberAt
  <2> HIDE DEF i, sign
  <2>9. IsNumeral(text, n)
    BY <2>3, <2>4, <2>5, <2>6, <2>7, <2>8 DEF IsNumeral
  <2> QED
    BY <1>3, <2>9 DEF text
<1> QED
  BY <1>2, <1>3

\* A number in the range of its key.
LEMMA NumberIsInRange ==
  ASSUME NEW section, NEW key \in NumberKeys, NEW n \in Number(section, key)
  PROVE  n \in Int /\ CheckIntRange(key, n)
<1> DEFINE value == Get(section, key, <<>>)
           default == DefaultNumber(GetDbType(section), key)
<1>1. n \in GetInteger(section, key, default) /\ CheckIntRange(key, n)
  BY DEF Number
<1>2. Kilo * Kilo * Kilo \in Int
  <2>1. Kilo \in Int
    BY NumberAssumption
  <2>2. Kilo * Kilo \in Int
    BY <2>1
  <2> QED
    BY <2>1, <2>2
<1>3. default \in Int
  BY <1>2 DEF NumberKeys, DefaultNumber
<1>4. n = default \/ n \in Int
  BY <1>1, GetIntegerIsExact
<1> QED
  BY <1>1, <1>3, <1>4

\* A number in the range of its key is not changed by the cast to its type.
LEMMA NarrowedIsSame ==
  ASSUME NEW key, NEW n \in Int, CheckIntRange(key, n)
  PROVE  Narrowed(key, n) = n /\ (key \in {"port", "threads"} => n # 0)
<1> DEFINE size == CASE key \in {"port", "threads"} -> MaxUint16 + 1
                     [] key \in {"timeout", "connect-timeout"} -> MaxUint32 + 1
                     [] OTHER -> 2 * (MaxInt + 1)
<1>1. MaxUint16 \in Nat /\ MaxUint32 \in Nat /\ MaxInt \in Nat
  BY RangeAssumption, NumberAssumption
<1>2. size \in Nat /\ n \in 0..(size - 1)
  <2>1. CASE key \in {"port", "threads"}
    BY <1>1, <2>1 DEF CheckIntRange
  <2>2. CASE key \in {"timeout", "connect-timeout"}
    BY <1>1, <2>2 DEF CheckIntRange
  <2>3. CASE key \notin {"port", "threads", "timeout", "connect-timeout"}
    BY <1>1, <2>3 DEF CheckIntRange
  <2> QED
    BY <2>1, <2>2, <2>3
<1>3. Narrowed(key, n) = n % size
  BY DEF Narrowed
<1>4. n % size = n
  <2> HIDE DEF size
  <2> QED
    BY <1>2
<1>5. key \in {"port", "threads"} => n # 0
  BY DEF CheckIntRange
<1> QED
  BY <1>3, <1>4, <1>5

LEMMA ParamsAreFollowed == Spec => [](IInv /\ FileInv /\ ParamsInv)
<1>1. Init => ParamsInv
  BY NoParamsYet, EmptyIsSequence DEF Init, ReaderInit, ConfigInit
<1>2. Init => IInv /\ FileInv /\ ParamsInv
  BY <1>1, InitHolds, InitReadsNothing
<1>3. IInv /\ FileInv /\ ParamsInv /\ [Next]_vars
        => (IInv /\ FileInv /\ ParamsInv)'
  BY NextKeeps, NextKeepsFile, NextKeepsParams
<1> QED
  BY <1>2, <1>3, PTL DEF Spec

\* For every file, every width of the integers and every set of drivers: each
\* number of a worker is the number the file says, multiplied out, or else the
\* default; neither the product nor the cast to its type has wrapped around, and
\* no port and no number of threads is 0.
\* (cIniReader.cpp:217, cWorkerConfig.cpp:71-121)
THEOREM NumbersOfTheFile == Spec => []NumbersAreExact
<1>1. IInv /\ FileInv /\ ParamsInv => NumbersAreExact
  <2> SUFFICES ASSUME IInv, FileInv, ParamsInv, validParams # <<>>,
                      NEW w \in DOMAIN validParams, NEW key \in NumberKeys
               PROVE  LET worker == validParams[w]
                          number == worker.number[key]
                          text == Said(Says(file), worker.myName, key)
                      IN /\ IF text = <<>>
                            THEN number = DefaultNumber(worker.dbtype, key)
                            ELSE IsNumeral(text, number)
                         /\ key \in {"port", "threads"} => number # 0
    BY DEF NumbersAreExact
  <2>1. FileIsText /\ LinesAreHeld /\ lineNo = Len(file) /\ IsSequence(sections)
    BY NoParams DEF FileInv, ParamsInv, IInv, CheckedInv
  <2>2. PICK i \in DOMAIN sections :
          /\ ParamsAreValid(sections[i])
          /\ validParams[w] = WorkerParams(sections[i])
    BY <2>1, ParamsOfASection
  <2> DEFINE section == sections[i]
             n == CHOOSE n \in Number(section, key) : TRUE
  <2>3. /\ validParams[w].myName = section
        /\ validParams[w].dbtype = GetDbType(section)
        /\ validParams[w].number[key] = Narrowed(key, n)
    BY <2>2 DEF WorkerParams
  <2>4. n \in Number(section, key)
    BY <2>2 DEF ParamsAreValid
  <2>5. Said(Says(file), section, key) = Get(section, key, <<>>)
    BY <2>1, SaidIsGot
  <2> HIDE DEF section, n
  <2>6. Narrowed(key, n) = n /\ (key \in {"port", "threads"} => n # 0)
    BY <2>4, NumberIsInRange, NarrowedIsSame
  <2> QED
    BY <2>1, <2>3, <2>4, <2>5, <2>6, NumberIsGiven
<1> QED
  BY <1>1, ParamsAreFollowed, PTL

-----------------------------------------------------------------------------
(* The workers and the sections to be run                                  *)

\* Once every section was accepted, the parameters are those of the sections
\* the file asks to run.
LEMMA NamesFollowTheFile ==
  ASSUME IInv, FileInv, ParamsInv, lineNo = Len(file),
         configOk, next > Len(sections)
  PROVE  /\ [w \in DOMAIN validParams |-> validParams[w].myName] = RunSections
         /\ Len(validParams) = Len(RunSections)
<1> DEFINE n == Len(sections)
           A == Accepted(n)
           wanted == {i \in DOMAIN sections :
                        /\ Lower(sections[i]) # <<"master">>
                        /\ SaidYes(Says(file), sections[i], "run")}
<1>1. /\ IsSequence(sections) /\ DOMAIN sections = 1..n /\ n \in Nat
      /\ next - 1 = n
  BY DomainOfSequence DEF IInv, CheckedInv, ParamsInv
<1>2. \A i \in 1..n : IsSkipped(sections[i]) \/ ParamsAreValid(sections[i])
  BY <1>1 DEF IInv, CheckedInv
<1>3. \A section : SaidYes(Says(file), section, "run")
                     <=> GetBoolean(section, "run", FALSE)
  BY SaidIsGot DEF FileInv, SaidYes, GetBoolean
<1>4. A = {i \in 1..n : ~IsSkipped(sections[i])}
  BY <1>2 DEF Accepted
<1>5. \A i \in 1..n : ~IsSkipped(sections[i]) <=>
        /\ Lower(sections[i]) # <<"master">>
        /\ SaidYes(Says(file), sections[i], "run")
  BY <1>3 DEF IsSkipped
<1>6. A = wanted
  BY <1>1, <1>4, <1>5
<1>7. sections = SectionList(file)
  BY AllIsHeld DEF FileInv
<1>8. RunSections = Picked(sections, wanted)
  BY <1>7 DEF RunSections
<1>9. A \in SUBSET (1..n)
  BY DEF Accepted
<1>10. IsFiniteSet(A)
  <2>1. IsFiniteSet(1..n)
    BY <1>1, FS_Interval
  <2> QED
    BY <1>9, <2>1, FS_Subset
<1>11. validParams = Picked(AllParams, A)
  BY <1>1 DEF ParamsInv
<1> HIDE DEF A, n, wanted
<1>12. DOMAIN validParams = 1..Cardinality(A)
  BY <1>11 DEF Picked
<1>13. \A w \in 1..Cardinality(A) : validParams[w].myName = sections[Nth(A, w)]
  <2> TAKE w \in 1..Cardinality(A)
  <2>1. validParams[w] = WorkerParams(sections[Nth(A, w)])
    BY <1>1, <1>12, ParamsOfASection DEF A
  <2> QED
    BY <2>1 DEF WorkerParams
<1>14. [w \in DOMAIN validParams |-> validParams[w].myName] = Picked(sections, A)
  BY <1>12, <1>13 DEF Picked
<1>15. /\ Len(Picked(AllParams, A)) = Cardinality(A)
       /\ Len(Picked(sections, A)) = Cardinality(A)
  BY <1>10, PickedIsSequence
<1> QED
  BY <1>6, <1>8, <1>11, <1>14, <1>15

\* The pool is in the state to start all workers.
Ready == lineNo = Len(file) /\ error = 0 /\ configOk /\ next > Len(sections)

\* Workers are started for the parameters collected and no others; the status
\* is 0 only after all of them ended well.
OutcomeInv ==
  /\ outcome \in Seq({"running"} \cup Endings)
  /\ outcome # <<>> => Ready /\ Len(outcome) <= Len(validParams)
  /\ pc \in {"cli", "open", "read", "log", "check", "pool", "exited"}
  /\ status \in {"none", "success", "failure"}
  /\ status = "success" =>
       pc = "exited" /\ Ready /\ Len(outcome) = Len(validParams) /\ AllWell

LEMMA InitHasNoOutcome == Init => OutcomeInv
<1> SUFFICES ASSUME Init PROVE OutcomeInv
  OBVIOUS
<1>1. <<>> \in Seq({"running"} \cup Endings)
  BY EmptySeq
<1> QED
  BY <1>1 DEF Init, OutcomeInv

LEMMA SameReady ==
  ASSUME Ready, UNCHANGED <<readerVars, configVars>> PROVE Ready'
BY DEF Ready, readerVars, configVars

LEMMA WorkersKeepOutcome ==
  ASSUME IInv, OutcomeInv, IsSequence(validParams),
         StartWorker \/ \E w \in DOMAIN outcome : WorkerEnds(w)
  PROVE  OutcomeInv'
<1> DEFINE States == {"running"} \cup Endings
<1>1. /\ UNCHANGED <<readerVars, configVars, pc, status>>
      /\ validParams' = validParams /\ Len(validParams) \in Nat
      /\ outcome \in Seq(States)
  BY DomainOfSequence DEF StartWorker, WorkerEnds, configVars, OutcomeInv
<1>2. CASE StartWorker
  <2>1. /\ outcome' = Append(outcome, "running") /\ pc = "pool"
        /\ Len(outcome) < Len(validParams)
    BY <1>2 DEF StartWorker
  <2>2. outcome' \in Seq(States) /\ Len(outcome') <= Len(validParams')
    BY <1>1, <2>1
  <2>3. Ready
    BY <2>1 DEF IInv, PhaseInv, Ready
  <2>4. status' # "success"
    BY <1>1, <2>1 DEF OutcomeInv
  <2> QED
    BY <1>1, <2>2, <2>3, <2>4, SameReady DEF OutcomeInv
<1>3. CASE \E w \in DOMAIN outcome : WorkerEnds(w)
  <2>1. PICK w \in DOMAIN outcome, how \in Endings :
          /\ outcome[w] = "running"
          /\ outcome' = [outcome EXCEPT ![w] = how]
    BY <1>3 DEF WorkerEnds
  <2>2. outcome' \in Seq(States) /\ Len(outcome') = Len(outcome)
    BY <1>1, <2>1
  <2>3. outcome # <<>>
    BY <2>1
  <2>4. ~AllWell
    BY <2>1 DEF AllWell
  <2>5. status' # "success"
    BY <1>1, <2>4 DEF OutcomeInv
  <2> QED
    BY <1>1, <2>2, <2>3, <2>5, SameReady DEF OutcomeInv
<1> QED
  BY <1>2, <1>3

LEMMA NextKeepsOutcome ==
  IInv /\ ParamsInv /\ OutcomeInv /\ [Next]_vars => OutcomeInv'
<1> SUFFICES ASSUME IInv, ParamsInv, OutcomeInv, [Next]_vars PROVE OutcomeInv'
  OBVIOUS
<1>1. CASE ReadConfig \/ OpenConfig \/ BuildAllWorkerParams
  <2>1. /\ pc \in {"open", "read", "check"} /\ outcome' = outcome
        /\ pc' \in {"open", "read", "check", "exited"}
        /\ status' \in {status, "failure"}
    BY <1>1 DEF ReadConfig, OpenConfig, BuildAllWorkerParams, GoTo, Exit
  <2>2. outcome = <<>> /\ status # "success"
    BY <2>1 DEF IInv, PhaseInv, OutcomeInv
  <2> QED
    BY <2>1, <2>2 DEF OutcomeInv
<1>2. CASE ParseCliOptions \/ InitConfig \/ InitLogger \/ LogFails \/ ConfigChecked
  <2>1. /\ UNCHANGED <<readerVars, configVars, outcome>>
        /\ pc # "exited"
        /\ pc' \in {"cli", "open", "read", "log", "check", "pool", "exited"}
        /\ status' \in {status, "failure"}
    BY <1>2 DEF ParseCliOptions, InitConfig, InitLogger, LogFails,
       ConfigChecked, GoTo, Exit
  <2>2. validParams' = validParams /\ status' # "success"
    BY <2>1 DEF configVars, OutcomeInv
  <2> QED
    BY <2>1, <2>2, SameReady DEF OutcomeInv
<1>3. CASE PoolReturns
  <2>1. /\ UNCHANGED <<readerVars, configVars, outcome>>
        /\ pc = "pool" /\ pc' = "exited" /\ status' \in {"success", "failure"}
        /\ status' = "success" => AllWell
        /\ Len(outcome) = Len(validParams)
    BY <1>3 DEF PoolReturns, Exit
  <2>2. Ready
    BY <2>1 DEF IInv, PhaseInv, Ready
  <2>3. Ready' /\ validParams' = validParams /\ outcome' = outcome
    BY <2>1, <2>2, SameReady DEF configVars
  <2>4. AllWell => AllWell'
    BY <2>3 DEF AllWell
  <2> QED
    BY <2>1, <2>3, <2>4 DEF OutcomeInv
<1>4. CASE StartWorker \/ \E w \in DOMAIN outcome : WorkerEnds(w)
  <2>1. IsSequence(validParams)
    BY ParamsAreSequence DEF IInv, CheckedInv
  <2> QED
    BY <1>4, <2>1, WorkersKeepOutcome
<1>5. CASE UNCHANGED vars
  <2>1. /\ UNCHANGED <<readerVars, configVars, outcome, pc, status>>
        /\ validParams' = validParams
    BY <1>5 DEF vars, configVars
  <2>2. AllWell => AllWell'
    BY <2>1 DEF AllWell
  <2> QED
    BY <2>1, <2>2, SameReady DEF OutcomeInv
<1> QED
  BY <1>1, <1>2, <1>3, <1>4, <1>5 DEF Next

Invariant == IInv /\ FileInv /\ ParamsInv /\ OutcomeInv

LEMMA InvariantHolds == Spec => []Invariant
<1>1. Init => OutcomeInv
  BY InitHasNoOutcome
<1>2. IInv /\ ParamsInv /\ OutcomeInv /\ [Next]_vars => OutcomeInv'
  BY NextKeepsOutcome
<1>3. Spec => []OutcomeInv
  BY <1>1, <1>2, ParamsAreFollowed, PTL DEF Spec
<1>4. IInv /\ FileInv /\ ParamsInv /\ OutcomeInv <=> Invariant
  BY DEF Invariant
<1> QED
  BY <1>3, <1>4, ParamsAreFollowed, PTL

\* For every file: the workers are the sections that the file asks to run, one
\* for each header and in its order.  (cWorkerConfig.cpp:181-198)
THEOREM WorkersOfTheFile == Spec => []WorkersFollowTheFile
<1>1. Invariant => WorkersFollowTheFile
  BY NamesFollowTheFile
  DEF Invariant, WorkersFollowTheFile, OutcomeInv, Ready
<1> QED
  BY <1>1, InvariantHolds, PTL

\* A file without error, read to its end, has no bad line.
LEMMA NoErrorNoBadLine ==
  ASSUME FileInv, lineNo = Len(file), error = 0
  PROVE  BadLines(file) = {}
<1> DEFINE bad == BadTo(file, lineNo)
<1>1. bad = BadLines(file)
  BY AllIsHeld DEF FileInv
<1>2. error = IF bad = {} THEN 0 ELSE Min(bad)
  BY DEF FileInv, FirstErrorIsHeld
<1>3. bad \in SUBSET Nat /\ 0 \notin bad
  BY TextIs DEF BadTo, FileInv, LinesAreHeld
<1> HIDE DEF bad
<1>4. bad # {} => Min(bad) \in bad
  BY <1>3, MinIs
<1> QED
  BY <1>1, <1>2, <1>3, <1>4

\* For every file: status 0 means that the file was good, that every section
\* to be run had its worker and that each worker ended with status 0.
\* (main.cpp:13-25)
THEOREM SuccessIsEarned == Spec => []SuccessMeansAllRan
<1>1. Invariant => SuccessMeansAllRan
  <2> SUFFICES ASSUME Invariant, status = "success" PROVE SuccessMeansAllRan
    BY DEF SuccessMeansAllRan
  <2>1. Ready /\ Len(outcome) = Len(validParams) /\ AllWell
    BY DEF Invariant, OutcomeInv
  <2>2. Len(validParams) = Len(RunSections)
    BY <2>1, NamesFollowTheFile DEF Invariant, Ready
  <2>3. BadLines(file) = {}
    BY <2>1, NoErrorNoBadLine DEF Invariant, Ready
  <2> QED
    BY <2>1, <2>2, <2>3 DEF SuccessMeansAllRan
<1> QED
  BY <1>1, InvariantHolds, PTL

\* For every file: what the program holds has its type; the error is a line
\* read so far, and there are never more parameters than sections looked at nor
\* more workers than parameters.
THEOREM TypesAreKept == Spec => []TypeOK
<1>1. Invariant => TypeOK
  <2> SUFFICES ASSUME Invariant PROVE TypeOK
    OBVIOUS
  <2>1. /\ lineNo \in 0..Len(file) /\ Len(file) \in Nat
        /\ FileIsText /\ LinesAreHeld
    BY TextIs DEF Invariant, FileInv, LinesAreHeld, FileIsText
  <2>2. error \in -1..lineNo
    <3>1. CASE error = -1
      BY <2>1, <3>1
    <3>2. CASE error # -1
      <4> DEFINE bad == BadTo(file, lineNo)
      <4>1. error = IF bad = {} THEN 0 ELSE Min(bad)
        BY <3>2 DEF Invariant, FileInv, FirstErrorIsHeld
      <4>2. bad \in SUBSET Nat /\ \A i \in bad : i <= lineNo
        BY <2>1 DEF BadTo
      <4> HIDE DEF bad
      <4>3. bad # {} => Min(bad) \in bad
        BY <4>2, MinIs
      <4> QED
        BY <2>1, <4>1, <4>2, <4>3
    <3> QED
      BY <3>1, <3>2
  <2>3. ReaderTypeOK
    BY <2>1, <2>2, HeldIsWellFormed DEF ReaderTypeOK
  <2>4. IsSequence(sections) /\ Len(validParams) \in 0..(next - 1)
    BY ParamsAreSequence DEF Invariant, IInv, CheckedInv
  <2>5. next \in 1..(Len(sections) + 1) /\ Len(sections) \in Nat
    BY <2>4, DomainOfSequence DEF Invariant, ParamsInv
  <2>6. Len(validParams) < next
    BY <2>4, <2>5
  <2>7. Len(outcome) <= Len(validParams)
    BY <2>4, <2>5 DEF Invariant, OutcomeInv
  <2> QED
    BY <2>3, <2>5, <2>6, <2>7 DEF TypeOK, Invariant, OutcomeInv
<1> QED
  BY <1>1, InvariantHolds, PTL
=============================================================================

