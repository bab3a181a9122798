---------------------------- MODULE LogFileProofs ----------------------------
(***************************************************************************)
(* Theorems about LogFile, for any number of workers and of records, any    *)
(* paths, and whatever process is killed and whenever.                      *)
(***************************************************************************)
EXTENDS LogFile, SequenceTheorems, TLAPS

\* The k records of p that follow its record n.
Batch(p, n, k) == [i \in 1..k |-> <<p, n + i>>]

Writing == {"running", "flushed", "ending"}

\* Where each process can be, and that only the master ever has a path from -L,
\* until it has opened its log.
PhaseInv ==
  /\ pc[Master] \notin {"unborn", "forked"}
  /\ \A w \in Workers : pc[w] \notin {"init", "flushed"} /\ pending[w] = NoPath
  /\ pending[Master] = IF pc[Master] = "init" THEN asked ELSE NoPath
  /\ pc[Master] = "flushed" => buffer[Master] = <<>>

\* A process that writes has its own file open, and its buffer has the records
\* that are not in the file yet.  No other process has anything buffered.
BufferInv(p) ==
  /\ pc[p] \in Writing =>
       /\ opened[p] = PathFor(p)
       /\ stream[p] = p
       /\ offset[p] <= added[p]
       /\ buffer[p] = Batch(p, offset[p], added[p] - offset[p])
  /\ pc[p] \notin Writing => buffer[p] = <<>>
  /\ pc[p] \in {"unborn", "init", "forked"} => added[p] = 0 /\ offset[p] = 0
  /\ pc[p] = "exited" => offset[p] = added[p]

\* A file that belongs to one process has the records of that process.
FileInv(p) ==
  HasOwnPath(p) => content[PathFor(p)] = Batch(p, 0, offset[p])

IInv == /\ TypeOK /\ PhaseInv
        /\ \A p \in Processes : BufferInv(p) /\ FileInv(p)

-----------------------------------------------------------------------------
(* Batches of records                                                      *)

LEMMA BatchType ==
  ASSUME NEW p \in Processes, NEW n \in Nat, NEW k \in Nat
  PROVE  /\ Batch(p, n, k) \in Seq(Records)
         /\ Len(Batch(p, n, k)) = k
         /\ \A i \in 1..k : Batch(p, n, k)[i] = <<p, n + i>>
<1>1. \A i \in 1..k : <<p, n + i>> \in Records
  BY DEF Records
<1>2. Batch(p, n, k) \in [1..k -> Records]
  BY <1>1 DEF Batch
<1> QED
  BY <1>2 DEF Batch

LEMMA EmptyBatch ==
  ASSUME NEW p \in Processes, NEW n \in Nat PROVE Batch(p, n, 0) = <<>>
<1>1. Batch(p, n, 0) \in Seq(Records) /\ Len(Batch(p, n, 0)) = 0
  BY BatchType
<1> QED
  BY <1>1

LEMMA BatchGrows ==
  ASSUME NEW p \in Processes, NEW n \in Nat, NEW k \in Nat
  PROVE  Append(Batch(p, n, k), <<p, n + k + 1>>) = Batch(p, n, k + 1)
<1> DEFINE c == Batch(p, n, k)
           e == <<p, n + k + 1>>
           a == Append(c, e)
           b == Batch(p, n, k + 1)
<1>1. /\ c \in Seq(Records) /\ Len(c) = k
      /\ \A i \in 1..k : c[i] = <<p, n + i>>
  BY BatchType
<1>2. e \in Records
  BY DEF Records
<1> k + 1 \in Nat
  OBVIOUS
<1>3. /\ b \in Seq(Records) /\ Len(b) = k + 1
      /\ \A i \in 1..(k + 1) : b[i] = <<p, n + i>>
  BY BatchType
<1>4. n + (k + 1) = n + k + 1
  OBVIOUS
<1>5. b[k + 1] = e
  BY <1>3, <1>4
<1> HIDE DEF b, c, e
<1>6. /\ a \in Seq(Records) /\ Len(a) = k + 1
      /\ \A i \in 1..k : a[i] = c[i]
      /\ a[k + 1] = e
  BY <1>1, <1>2, AppendProperties
<1> HIDE DEF a
<1>7. \A i \in 1..(k + 1) : i \in 1..k \/ i = k + 1
  OBVIOUS
<1>8. \A i \in 1..k : i \in 1..(k + 1)
  OBVIOUS
<1>9. \A i \in 1..(k + 1) : a[i] = b[i]
  BY <1>1, <1>3, <1>5, <1>6, <1>7, <1>8, Zenon
<1>10. a = b
  BY <1>3, <1>6, <1>9, SeqEqual
<1> QED
  BY <1>10 DEF a, b, c, e

\* Written at its end, a file is longer by the records written.
LEMMA FileGrows ==
  ASSUME NEW p \in Processes, NEW n \in Nat, NEW k \in Nat
  PROVE  Overwrite(Batch(p, 0, n), n, Batch(p, n, k)) = Batch(p, 0, n + k)
<1>1. /\ Len(Batch(p, 0, n)) = n /\ Len(Batch(p, n, k)) = k
      /\ \A i \in 1..n : Batch(p, 0, n)[i] = <<p, 0 + i>>
      /\ \A i \in 1..k : Batch(p, n, k)[i] = <<p, n + i>>
  BY BatchType
<1> DEFINE f == Batch(p, 0, n)
           r == Batch(p, n, k)
<1>2. Overwrite(f, n, r) =
        [i \in 1..(n + k) |-> IF n < i /\ i <= n + k THEN r[i - n]
                              ELSE IF i <= n THEN f[i] ELSE Hole]
  BY <1>1 DEF Overwrite
<1>3. \A i \in 1..(n + k) :
        (IF n < i /\ i <= n + k THEN r[i - n] ELSE IF i <= n THEN f[i] ELSE Hole)
        = <<p, 0 + i>>
  <2> TAKE i \in 1..(n + k)
  <2>1. CASE n < i
    <3>1. i - n \in 1..k /\ n + (i - n) = 0 + i
      BY <2>1
    <3>2. r[i - n] = <<p, 0 + i>>
      BY <1>1, <3>1
    <3> QED
      BY <2>1, <3>2
  <2>2. CASE i <= n
    <3>1. i \in 1..n
      BY <2>2
    <3>2. f[i] = <<p, 0 + i>>
      BY <1>1, <3>1
    <3> QED
      BY <2>2, <3>2
  <2> QED
    BY <2>1, <2>2
<1> QED
  BY <1>2, <1>3 DEF Batch

LEMMA OverwriteType ==
  ASSUME NEW f \in Seq(Records \cup {Hole}), NEW n \in Nat, NEW r \in Seq(Records)
  PROVE  Overwrite(f, n, r) \in Seq(Records \cup {Hole})
<1> DEFINE m == IF Len(f) > n + Len(r) THEN Len(f) ELSE n + Len(r)
           e(i) == IF n < i /\ i <= n + Len(r) THEN r[i - n]
                   ELSE IF i <= Len(f) THEN f[i] ELSE Hole
<1>1. m \in Nat /\ Len(f) \in Nat /\ Len(r) \in Nat
  OBVIOUS
<1>2. \A i \in 1..m : e(i) \in Records \cup {Hole}
  <2> TAKE i \in 1..m
  <2>1. CASE n < i /\ i <= n + Len(r)
    <3>1. i - n \in 1..Len(r)
      BY <2>1, <1>1
    <3> QED
      BY <2>1, <3>1
  <2>2. CASE ~(n < i /\ i <= n + Len(r)) /\ i <= Len(f)
    <3>1. i \in 1..Len(f)
      BY <2>2, <1>1
    <3> QED
      BY <2>2, <3>1
  <2> QED
    BY <2>1, <2>2
<1>3. [i \in 1..m |-> e(i)] \in [1..m -> Records \cup {Hole}]
  BY <1>2
<1>4. [i \in 1..m |-> e(i)] \in Seq(Records \cup {Hole})
  BY <1>1, <1>3
<1> QED
  BY <1>4 DEF Overwrite

-----------------------------------------------------------------------------
(* One process at a time                                                   *)

\* What a process has of its own, and the file it writes to.
Locals(p) == <<pc[p], opened[p], stream[p], buffer[p], offset[p], added[p]>>

\* A step of another process that leaves the file alone changes nothing.
LEMMA OthersKeep ==
  ASSUME NEW q \in Processes, BufferInv(q), FileInv(q),
         UNCHANGED <<asked, workerPath>>, Locals(q)' = Locals(q),
         HasOwnPath(q) => content'[PathFor(q)] = content[PathFor(q)]
  PROVE  BufferInv(q)' /\ FileInv(q)'
<1>1. /\ pc'[q] = pc[q] /\ opened'[q] = opened[q] /\ stream'[q] = stream[q]
      /\ buffer'[q] = buffer[q] /\ offset'[q] = offset[q]
      /\ added'[q] = added[q]
  BY DEF Locals
<1>2. \A p : PathFor(p)' = PathFor(p)
  BY DEF PathFor
<1>3. HasOwnPath(q)' <=> HasOwnPath(q)
  BY <1>2 DEF HasOwnPath
<1>4. BufferInv(q)'
  BY <1>1, <1>2 DEF BufferInv
<1>5. FileInv(q)'
  BY <1>1, <1>2, <1>3 DEF FileInv
<1> QED
  BY <1>4, <1>5

LEMMA PathType ==
  ASSUME TypeOK, NEW p \in Processes PROVE PathFor(p) \in Paths
  BY DEF TypeOK, PathFor, Paths, Processes

LEMMA TypeParts ==
  ASSUME TypeOK, NEW p \in Processes
  PROVE  /\ pc[p] \in {"unborn", "init", "forked", "running", "flushed",
                       "ending", "exited", "killed"}
         /\ stream[p] \in Processes
         /\ buffer[p] \in Seq(Records)
         /\ offset[p] \in Nat
         /\ added[p] \in Nat /\ added[p] <= MaxRecords
         /\ content[PathFor(p)] \in Seq(Records \cup {Hole})
  BY PathType, BoundAssumption DEF TypeOK

\* What flushing the buffer of a process does to the files and the offsets.
LEMMA FlushEffect ==
  ASSUME IInv, NEW p \in Processes
  PROVE  /\ Advanced(p) = [offset EXCEPT ![p] = @ + Len(buffer[p])]
         /\ Flushed(p) = IF buffer[p] = <<>> THEN content
                         ELSE [content EXCEPT ![PathFor(p)] =
                                 Overwrite(@, offset[p], buffer[p])]
<1>1. TypeOK /\ BufferInv(p)
  BY DEF IInv
<1>2. /\ offset \in [Processes -> Nat] /\ stream[p] \in Processes
      /\ buffer[p] \in Seq(Records)
  BY <1>1, TypeParts DEF TypeOK
<1>3. CASE buffer[p] = <<>>
  <2>1. Len(buffer[p]) = 0
    BY <1>3
  <2>2. /\ [offset EXCEPT ![stream[p]] = @ + 0] = offset
        /\ [offset EXCEPT ![p] = @ + 0] = offset
    BY <1>2
  <2> QED
    BY <1>3, <2>1, <2>2 DEF Advanced, Flushed
<1>4. CASE buffer[p] # <<>>
  <2>1. stream[p] = p /\ opened[p] = PathFor(p)
    BY <1>1, <1>4 DEF BufferInv
  <2> QED
    BY <1>4, <2>1 DEF Advanced, Flushed
<1> QED
  BY <1>3, <1>4

\* Flushed, the file of a process that has it for itself is longer by what was
\* buffered, and no other such file is changed.
LEMMA FlushedFiles ==
  ASSUME IInv, NEW p \in Processes
  PROVE  /\ HasOwnPath(p) =>
              Flushed(p)[PathFor(p)] = Batch(p, 0, Advanced(p)[p])
         /\ \A q \in Processes \ {p} :
              /\ HasOwnPath(q) => Flushed(p)[PathFor(q)] = content[PathFor(q)]
              /\ Advanced(p)[q] = offset[q]
<1>1. TypeOK /\ BufferInv(p) /\ FileInv(p)
  BY DEF IInv
<1>2. /\ offset \in [Processes -> Nat] /\ offset[p] \in Nat /\ added[p] \in Nat
      /\ PathFor(p) \in Paths /\ DOMAIN content = Paths
  BY <1>1, TypeParts, PathType DEF TypeOK
<1>3. Advanced(p)[p] = offset[p] + Len(buffer[p])
  BY <1>2, FlushEffect
<1>4. \A q \in Processes \ {p} : Advanced(p)[q] = offset[q]
  BY <1>2, FlushEffect
<1>5. ASSUME NEW q \in Processes \ {p}, HasOwnPath(q)
      PROVE  Flushed(p)[PathFor(q)] = content[PathFor(q)]
  <2>1. PathFor(p) # PathFor(q) /\ PathFor(q) \in Paths
    BY <1>1, <1>5, PathType DEF HasOwnPath
  <2> QED
    BY <1>2, <2>1, FlushEffect
<1>6. ASSUME HasOwnPath(p)
      PROVE  Flushed(p)[PathFor(p)] = Batch(p, 0, Advanced(p)[p])
  <2>1. CASE buffer[p] = <<>>
    <3>1. Advanced(p)[p] = offset[p]
      BY <1>2, <1>3, <2>1
    <3> QED
      BY <1>1, <1>6, <2>1, <3>1, FlushEffect DEF FileInv
  <2>2. CASE buffer[p] # <<>>
    <3>1. /\ buffer[p] = Batch(p, offset[p], added[p] - offset[p])
          /\ added[p] - offset[p] \in Nat
      BY <1>1, <1>2, <2>2 DEF BufferInv
    <3>2. Len(buffer[p]) = added[p] - offset[p]
      BY <1>2, <3>1, BatchType
    <3>3. content[PathFor(p)] = Batch(p, 0, offset[p])
      BY <1>1, <1>6 DEF FileInv
    <3>4. Flushed(p)[PathFor(p)]
            = Overwrite(content[PathFor(p)], offset[p], buffer[p])
      BY <1>2, <2>2, FlushEffect
    <3>5. Overwrite(content[PathFor(p)], offset[p], buffer[p])
            = Batch(p, 0, offset[p] + (added[p] - offset[p]))
      BY <1>2, <3>1, <3>3, FileGrows
    <3> QED
      BY <1>3, <3>2, <3>4, <3>5
  <2> QED
    BY <2>1, <2>2
<1> QED
  BY <1>4, <1>5, <1>6

LEMMA FlushTypes ==
  ASSUME IInv, NEW p \in Processes
  PROVE  /\ Advanced(p) \in [Processes -> Nat]
         /\ Flushed(p) \in [Paths -> Seq(Records \cup {Hole})]
<1>1. TypeOK
  BY DEF IInv
<1>2. /\ offset \in [Processes -> Nat] /\ offset[p] \in Nat
      /\ buffer[p] \in Seq(Records)
      /\ content \in [Paths -> Seq(Records \cup {Hole})]
      /\ content[PathFor(p)] \in Seq(Records \cup {Hole})
  BY <1>1, TypeParts DEF TypeOK
<1>3. Len(buffer[p]) \in Nat /\ offset[p] + Len(buffer[p]) \in Nat
  BY <1>2
<1>4. Overwrite(content[PathFor(p)], offset[p], buffer[p])
        \in Seq(Records \cup {Hole})
  BY <1>2, OverwriteType
<1> QED
  BY <1>2, <1>3, <1>4, FlushEffect

\* It is enough to look at the process that makes the step.
LEMMA StepOf ==
  ASSUME IInv, NEW p \in Processes, UNCHANGED <<asked, workerPath>>,
         TypeOK', PhaseInv', BufferInv(p)', FileInv(p)',
         \A q \in Processes \ {p} :
           /\ Locals(q)' = Locals(q)
           /\ HasOwnPath(q) => content'[PathFor(q)] = content[PathFor(q)]
  PROVE  IInv'
<1>1. ASSUME NEW q \in Processes \ {p}
      PROVE  BufferInv(q)' /\ FileInv(q)'
  BY <1>1, OthersKeep DEF IInv
<1> QED
  BY <1>1 DEF IInv

LEMMA FlushKeeps ==
  ASSUME IInv, NEW p \in Processes, NEW there \in Writing \cup {"exited"},
         pc[p] \in Writing, Flush(p), pc' = [pc EXCEPT ![p] = there],
         there = "flushed" => p = Master,
         UNCHANGED <<asked, workerPath, pending, opened, stream, added>>
  PROVE  IInv'
<1>1. TypeOK /\ PhaseInv /\ BufferInv(p)
  BY DEF IInv
<1>2. /\ content' = Flushed(p) /\ offset' = Advanced(p)
      /\ buffer' = [buffer EXCEPT ![p] = <<>>]
  BY DEF Flush
<1>3. /\ pc'[p] = there /\ buffer'[p] = <<>>
      /\ \A q \in Processes \ {p} : pc'[q] = pc[q] /\ buffer'[q] = buffer[q]
  BY <1>1, <1>2 DEF TypeOK
<1>4. TypeOK'
  <2>1. buffer' \in [Processes -> Seq(Records)]
    BY <1>1, <1>2 DEF TypeOK
  <2>2. pc' \in [Processes -> {"unborn", "init", "forked", "running", "flushed",
                               "ending", "exited", "killed"}]
    BY <1>1 DEF TypeOK, Writing
  <2>3. \A q \in Processes : pc'[q] \in Writing => opened'[q] # NoPath
    BY <1>1, <1>3 DEF TypeOK, Writing
  <2> QED
    BY <1>1, <1>2, <2>1, <2>2, <2>3, FlushTypes DEF TypeOK, Writing
<1>5. PhaseInv'
  BY <1>1, <1>3, PathAssumption DEF PhaseInv, Processes, Writing
<1>6. BufferInv(p)'
  <2>1. /\ offset[p] \in Nat /\ added[p] \in Nat /\ offset[p] <= added[p]
        /\ buffer[p] = Batch(p, offset[p], added[p] - offset[p])
        /\ opened[p] = PathFor(p) /\ stream[p] = p
    BY <1>1, TypeParts DEF BufferInv
  <2>2. added[p] - offset[p] \in Nat
    BY <2>1
  <2>3. Len(buffer[p]) = added[p] - offset[p]
    <3>1. offset[p] \in Nat
      BY <2>1
    <3>2. Len(Batch(p, offset[p], added[p] - offset[p]))
            = added[p] - offset[p]
      BY <2>2, <3>1, BatchType, Zenon
    <3> QED
      BY <2>1, <3>2, Zenon
  <2>4. offset'[p] = added[p]
    <3>1. Advanced(p)[p] = offset[p] + Len(buffer[p])
      BY <1>1, FlushEffect DEF TypeOK
    <3> QED
      BY <1>2, <2>1, <2>3, <3>1
  <2>5. Batch(p, added[p], 0) = <<>> /\ added[p] - added[p] = 0
    BY <2>1, EmptyBatch
  <2>6. PathFor(p)' = PathFor(p)
    BY DEF PathFor
  <2>7. there \notin {"unborn", "init", "forked"}
    BY DEF Writing
  <2> QED
    BY <1>3, <2>1, <2>4, <2>5, <2>6, <2>7 DEF BufferInv
<1>7. FileInv(p)'
  <2>1. HasOwnPath(p)' <=> HasOwnPath(p)
    BY DEF HasOwnPath, PathFor
  <2>2. PathFor(p)' = PathFor(p)
    BY DEF PathFor
  <2> QED
    BY <1>2, <2>1, <2>2, FlushedFiles DEF FileInv
<1>8. \A q \in Processes \ {p} :
        /\ Locals(q)' = Locals(q)
        /\ HasOwnPath(q) => content'[PathFor(q)] = content[PathFor(q)]
  BY <1>2, <1>3, FlushedFiles DEF Locals
<1> QED
  BY <1>4, <1>5, <1>6, <1>7, <1>8, StepOf

LEMMA AddRecordKeeps ==
  ASSUME IInv, NEW p \in Processes, AddRecord(p) PROVE IInv'
<1>1. TypeOK /\ PhaseInv /\ BufferInv(p) /\ FileInv(p)
  BY DEF IInv
<1>2. /\ offset[p] \in Nat /\ added[p] \in Nat /\ added[p] < MaxRecords
      /\ pc[p] \in {"running", "ending"}
      /\ UNCHANGED <<pc, asked, workerPath, pending, opened, stream, offset,
                     content>>
  BY <1>1, TypeParts DEF AddRecord, Writes
<1>3. /\ added'[p] = added[p] + 1
      /\ buffer'[p] = Append(buffer[p], <<p, added[p] + 1>>)
      /\ \A q \in Processes \ {p} :
           added'[q] = added[q] /\ buffer'[q] = buffer[q]
  BY <1>1 DEF AddRecord, TypeOK
<1>4. TypeOK'
  <2>1. <<p, added[p] + 1>> \in Records /\ added[p] + 1 \in 0..MaxRecords
    BY <1>2, BoundAssumption DEF Records
  <2>2. Append(buffer[p], <<p, added[p] + 1>>) \in Seq(Records)
    BY <1>1, <2>1, TypeParts, AppendProperties
  <2>3. /\ buffer' \in [Processes -> Seq(Records)]
        /\ added' \in [Processes -> 0..MaxRecords]
    BY <1>1, <2>1, <2>2 DEF AddRecord, TypeOK
  <2> QED
    BY <1>1, <1>2, <2>3 DEF TypeOK
<1>5. PhaseInv'
  BY <1>1, <1>2, <1>3, PathAssumption DEF PhaseInv, Processes
<1>6. BufferInv(p)'
  <2>1. /\ offset[p] <= added[p]
        /\ buffer[p] = Batch(p, offset[p], added[p] - offset[p])
        /\ opened[p] = PathFor(p) /\ stream[p] = p
    BY <1>1, <1>2 DEF BufferInv, Writing
  <2>2. /\ added[p] - offset[p] \in Nat
        /\ added[p] + 1 = offset[p] + (added[p] - offset[p]) + 1
        /\ (added[p] + 1) - offset[p] = (added[p] - offset[p]) + 1
        /\ offset[p] <= added[p] + 1
    BY <1>2, <2>1
  <2>3. buffer'[p] = Batch(p, offset[p], (added[p] - offset[p]) + 1)
    BY <1>2, <1>3, <2>1, <2>2, BatchGrows
  <2>4. PathFor(p)' = PathFor(p)
    BY <1>2 DEF PathFor
  <2> QED
    BY <1>2, <1>3, <2>1, <2>2, <2>3, <2>4 DEF BufferInv, Writing
<1>7. FileInv(p)'
  BY <1>1, <1>2 DEF FileInv, HasOwnPath, PathFor
<1>8. \A q \in Processes \ {p} : Locals(q)' = Locals(q)
  BY <1>2, <1>3 DEF Locals
<1> QED
  BY <1>2, <1>4, <1>5, <1>6, <1>7, <1>8, StepOf

LEMMA KilledKeeps ==
  ASSUME IInv, NEW p \in Processes, Killed(p) PROVE IInv'
<1>1. TypeOK /\ PhaseInv /\ BufferInv(p) /\ FileInv(p)
  BY DEF IInv
<1>2. /\ pc[p] \in {"forked", "running", "flushed", "ending"}
      /\ UNCHANGED <<asked, workerPath, pending, opened, stream, offset,
                     content, added>>
      /\ pc' = [pc EXCEPT ![p] = "killed"]
      /\ buffer' = [buffer EXCEPT ![p] = <<>>]
  BY DEF Killed, GoTo
<1>3. /\ pc'[p] = "killed" /\ buffer'[p] = <<>>
      /\ \A q \in Processes \ {p} : pc'[q] = pc[q] /\ buffer'[q] = buffer[q]
  BY <1>1, <1>2 DEF TypeOK
<1>4. TypeOK'
  <2>1. buffer' \in [Processes -> Seq(Records)]
    BY <1>1, <1>2 DEF TypeOK
  <2>2. \A q \in Processes :
          pc'[q] \in {"running", "flushed", "ending"} => opened'[q] # NoPath
    BY <1>1, <1>2, <1>3 DEF TypeOK
  <2> QED
    BY <1>1, <1>2, <2>1, <2>2 DEF TypeOK
<1>5. PhaseInv'
  BY <1>1, <1>2, <1>3, PathAssumption DEF PhaseInv, Processes
<1>6. BufferInv(p)'
  BY <1>3 DEF BufferInv, Writing
<1>7. FileInv(p)'
  BY <1>1, <1>2 DEF FileInv, HasOwnPath, PathFor
<1>8. \A q \in Processes \ {p} : Locals(q)' = Locals(q)
  BY <1>2, <1>3 DEF Locals
<1> QED
  BY <1>2, <1>4, <1>5, <1>6, <1>7, <1>8, StepOf

LEMMA InitLogFileKeeps ==
  ASSUME IInv, NEW p \in Processes, NEW path, InitLogFile(p, path),
         pc[p] \in {"init", "forked"},
         (IF pending[p] # NoPath THEN pending[p] ELSE path) = PathFor(p),
         UNCHANGED <<asked, workerPath, added>>
  PROVE  IInv'
<1>1. TypeOK /\ PhaseInv /\ BufferInv(p) /\ FileInv(p)
  BY DEF IInv
<1>2. /\ buffer[p] = <<>> /\ added[p] = 0 /\ offset[p] = 0
      /\ PathFor(p) \in Paths /\ p \in Processes
  BY <1>1, PathType DEF BufferInv, Writing
<1>3. Flushed(p) = content /\ Advanced(p) = offset
  <2>1. Len(buffer[p]) = 0 /\ offset[p] + 0 = offset[p]
    BY <1>2
  <2>2. offset \in [Processes -> Nat]
    BY <1>1 DEF TypeOK
  <2>3. [offset EXCEPT ![p] = @ + 0] = offset
    BY <2>2
  <2> QED
    BY <1>2, <2>1, <2>3, FlushEffect
<1>4. /\ pending' = [pending EXCEPT ![p] = NoPath]
      /\ buffer' = [buffer EXCEPT ![p] = <<>>]
      /\ stream' = [stream EXCEPT ![p] = p]
      /\ offset' = [offset EXCEPT ![p] = 0]
  BY <1>3 DEF InitLogFile, PendingAfter
<1>5. \/ /\ opened' = [opened EXCEPT ![p] = PathFor(p)]
         /\ content' = [content EXCEPT ![PathFor(p)] = <<>>]
         /\ pc' = [pc EXCEPT ![p] = "running"]
      \/ /\ opened' = opened /\ content' = content
         /\ pc' = [pc EXCEPT ![p] = "exited"]
  BY <1>3 DEF InitLogFile, GoTo, FailedOpen
<1>6. /\ pending'[p] = NoPath /\ buffer'[p] = <<>> /\ stream'[p] = p
      /\ offset'[p] = 0 /\ added'[p] = 0
      /\ \A q \in Processes \ {p} :
           /\ pending'[q] = pending[q] /\ buffer'[q] = buffer[q]
           /\ stream'[q] = stream[q] /\ offset'[q] = offset[q]
           /\ added'[q] = added[q]
  BY <1>1, <1>2, <1>4 DEF TypeOK
<1>7. /\ \/ pc'[p] = "running" /\ opened'[p] = PathFor(p)
         \/ pc'[p] = "exited"
      /\ \A q \in Processes \ {p} : pc'[q] = pc[q] /\ opened'[q] = opened[q]
  BY <1>1, <1>5 DEF TypeOK
<1>8. PathFor(p) # NoPath /\ PathFor(p)' = PathFor(p)
  BY <1>2, PathAssumption DEF PathFor
<1>9. TypeOK'
  <2>1. /\ pending' \in [Processes -> AskedPaths \cup {NoPath}]
        /\ stream' \in [Processes -> Processes]
        /\ offset' \in [Processes -> Nat]
    BY <1>1, <1>4 DEF TypeOK
  <2>2. buffer' \in [Processes -> Seq(Records)]
    BY <1>1, <1>4 DEF TypeOK
  <2>3. content' \in [Paths -> Seq(Records \cup {Hole})]
    <3>1. <<>> \in Seq(Records \cup {Hole})
      OBVIOUS
    <3>2. content \in [Paths -> Seq(Records \cup {Hole})]
      BY <1>1 DEF TypeOK
    <3> QED
      BY <1>5, <3>1, <3>2
  <2>4. opened' \in [Processes -> Paths \cup {NoPath}]
    <3>1. opened \in [Processes -> Paths \cup {NoPath}]
      BY <1>1 DEF TypeOK
    <3> QED
      BY <1>2, <1>5, <3>1
  <2>5. pc' \in [Processes -> {"unborn", "init", "forked", "running", "flushed",
                               "ending", "exited", "killed"}]
    <3>1. pc \in [Processes -> {"unborn", "init", "forked", "running",
                                "flushed", "ending", "exited", "killed"}]
      BY <1>1 DEF TypeOK
    <3> QED
      BY <1>5, <3>1
  <2>6. \A q \in Processes :
          pc'[q] \in {"running", "flushed", "ending"} => opened'[q] # NoPath
    BY <1>1, <1>7, <1>8 DEF TypeOK
  <2> QED
    BY <1>1, <2>1, <2>2, <2>3, <2>4, <2>5, <2>6 DEF TypeOK
<1>10. PhaseInv'
  BY <1>1, <1>6, <1>7, PathAssumption DEF PhaseInv, Processes
<1>11. BufferInv(p)'
  <2>1. Batch(p, 0, 0) = <<>> /\ 0 - 0 = 0 /\ 0 <= 0
    BY EmptyBatch
  <2> QED
    BY <1>6, <1>7, <1>8, <2>1 DEF BufferInv, Writing
<1>12. FileInv(p)'
  <2>1. HasOwnPath(p)' <=> HasOwnPath(p)
    BY DEF HasOwnPath, PathFor
  <2>2. Batch(p, 0, 0) = <<>>
    BY EmptyBatch
  <2>3. content'[PathFor(p)] = content[PathFor(p)] \/ content'[PathFor(p)] = <<>>
    BY <1>1, <1>2, <1>5 DEF TypeOK
  <2> QED
    BY <1>1, <1>2, <1>6, <1>8, <2>1, <2>2, <2>3 DEF FileInv
<1>13. \A q \in Processes \ {p} : Locals(q)' = Locals(q)
  BY <1>6, <1>7 DEF Locals
<1>14. ASSUME NEW q \in Processes \ {p}, HasOwnPath(q)
       PROVE  content'[PathFor(q)] = content[PathFor(q)]
  <2>1. PathFor(p) # PathFor(q) /\ PathFor(q) \in Paths
    BY <1>1, <1>14, PathType DEF HasOwnPath
  <2> QED
    BY <1>1, <1>5, <2>1 DEF TypeOK
<1> QED
  BY <1>9, <1>10, <1>11, <1>12, <1>13, <1>14, StepOf

LEMMA ForkKeeps ==
  ASSUME IInv, NEW w \in Workers, Fork(w) PROVE IInv'
<1>1. TypeOK /\ PhaseInv
  BY DEF IInv
<1>2. w \in Processes /\ Master \in Processes /\ w # Master
  BY PathAssumption DEF Processes
<1>3. /\ pc[Master] = "flushed" /\ pc[w] = "unborn"
      /\ pc' = [pc EXCEPT ![Master] = "running", ![w] = "forked"]
      /\ pending' = [pending EXCEPT ![w] = pending[Master]]
      /\ stream' = [stream EXCEPT ![w] = stream[Master]]
      /\ buffer' = [buffer EXCEPT ![w] = buffer[Master]]
      /\ UNCHANGED <<asked, workerPath, opened, offset, content, added>>
  BY DEF Fork
<1>4. /\ pending[Master] = NoPath /\ buffer[Master] = <<>>
      /\ stream[Master] \in Processes /\ NoPath \in AskedPaths \cup {NoPath}
  BY <1>1, <1>2, <1>3 DEF PhaseInv, TypeOK
<1>5. /\ pc'[Master] = "running" /\ pc'[w] = "forked"
      /\ pending'[w] = NoPath /\ buffer'[w] = <<>>
      /\ \A q \in Processes \ {w} :
           /\ pending'[q] = pending[q] /\ buffer'[q] = buffer[q]
           /\ stream'[q] = stream[q]
           /\ q # Master => pc'[q] = pc[q]
  BY <1>1, <1>2, <1>3, <1>4 DEF TypeOK
<1>6. TypeOK'
  <2>1. /\ pending' \in [Processes -> AskedPaths \cup {NoPath}]
        /\ stream' \in [Processes -> Processes]
    BY <1>1, <1>3, <1>4 DEF TypeOK
  <2>2. buffer' \in [Processes -> Seq(Records)]
    BY <1>1, <1>2, <1>3 DEF TypeOK
  <2>3. pc' \in [Processes -> {"unborn", "init", "forked", "running",
                               "flushed", "ending", "exited", "killed"}]
    BY <1>1, <1>3 DEF TypeOK
  <2>4. \A q \in Processes :
          pc'[q] \in {"running", "flushed", "ending"} => opened'[q] # NoPath
    BY <1>1, <1>2, <1>3, <1>5 DEF TypeOK
  <2> QED
    BY <1>1, <1>3, <2>1, <2>2, <2>3, <2>4 DEF TypeOK
<1>7. PhaseInv'
  BY <1>1, <1>2, <1>3, <1>5, PathAssumption DEF PhaseInv, Processes
<1>8. \A p : PathFor(p)' = PathFor(p)
  BY <1>3 DEF PathFor
<1>9. ASSUME NEW q \in Processes PROVE BufferInv(q)' /\ FileInv(q)'
  <2>1. BufferInv(q) /\ FileInv(q)
    BY DEF IInv
  <2>2. BufferInv(q)'
    <3>1. CASE q = w
      BY <1>3, <1>5, <2>1, <3>1 DEF BufferInv, Writing
    <3>2. CASE q = Master
      BY <1>2, <1>3, <1>5, <1>8, <2>1, <3>2 DEF BufferInv, Writing
    <3>3. CASE q # w /\ q # Master
      BY <1>3, <1>5, <1>8, <2>1, <3>3 DEF BufferInv
    <3> QED
      BY <3>1, <3>2, <3>3
  <2>3. FileInv(q)'
    BY <1>3, <1>8, <2>1 DEF FileInv, HasOwnPath
  <2> QED
    BY <2>2, <2>3
<1> QED
  BY <1>6, <1>7, <1>9 DEF IInv

LEMMA ForkFailsKeeps ==
  ASSUME IInv, ForkFails PROVE IInv'
<1>1. TypeOK /\ PhaseInv /\ BufferInv(Master) /\ FileInv(Master)
      /\ Master \in Processes
  BY DEF IInv, Processes
<1>2. /\ pc[Master] = "flushed" /\ pc' = [pc EXCEPT ![Master] = "ending"]
      /\ UNCHANGED <<asked, workerPath, pending, opened, stream, buffer, offset,
                     content, added>>
  BY DEF ForkFails, GoTo
<1>3. pc'[Master] = "ending" /\ \A q \in Processes \ {Master} : pc'[q] = pc[q]
  BY <1>1, <1>2 DEF TypeOK
<1>4. TypeOK'
  <2>1. \A q \in Processes :
          pc'[q] \in {"running", "flushed", "ending"} => opened'[q] # NoPath
    BY <1>1, <1>2, <1>3 DEF TypeOK
  <2> QED
    BY <1>1, <1>2, <2>1 DEF TypeOK
<1>5. PhaseInv'
  BY <1>1, <1>2, <1>3, PathAssumption DEF PhaseInv, Processes
<1>6. \A p : PathFor(p)' = PathFor(p)
  BY <1>2 DEF PathFor
<1>7. BufferInv(Master)' /\ FileInv(Master)'
  BY <1>1, <1>2, <1>3, <1>6 DEF BufferInv, FileInv, HasOwnPath, Writing
<1>8. \A q \in Processes \ {Master} : Locals(q)' = Locals(q)
  BY <1>2, <1>3 DEF Locals
<1> QED
  BY <1>1, <1>2, <1>4, <1>5, <1>7, <1>8, StepOf

-----------------------------------------------------------------------------
LEMMA InitHolds == Init => IInv
<1> SUFFICES ASSUME Init PROVE IInv
  OBVIOUS
<1> USE DEF Init
<1>1. TypeOK
  <2>1. 0 \in 0..MaxRecords
    BY BoundAssumption
  <2>2. <<>> \in Seq(Records) /\ <<>> \in Seq(Records \cup {Hole})
    OBVIOUS
  <2>3. /\ buffer \in [Processes -> Seq(Records)]
        /\ content \in [Paths -> Seq(Records \cup {Hole})]
    BY <2>2
  <2>4. /\ added \in [Processes -> 0..MaxRecords]
        /\ offset \in [Processes -> Nat]
        /\ stream \in [Processes -> Processes]
        /\ opened \in [Processes -> Paths \cup {NoPath}]
        /\ pending \in [Processes -> AskedPaths \cup {NoPath}]
    BY <2>1
  <2>5. \A p \in Processes : pc[p] \in {"init", "unborn"}
    OBVIOUS
  <2> HIDE DEF Init
  <2>6. /\ asked \in AskedPaths \cup {NoPath}
        /\ workerPath \in [Workers -> WorkerPaths]
        /\ pc = [p \in Processes |-> IF p = Master THEN "init" ELSE "unborn"]
    BY DEF Init
  <2>7. pc \in [Processes -> {"unborn", "init", "forked", "running", "flushed",
                              "ending", "exited", "killed"}]
    BY <2>6
  <2> QED
    BY <2>3, <2>4, <2>5, <2>6, <2>7 DEF TypeOK
<1>2. PhaseInv
  BY PathAssumption DEF PhaseInv, Processes
<1>3. ASSUME NEW p \in Processes PROVE BufferInv(p) /\ FileInv(p)
  <2>1. PathFor(p) \in Paths
    BY <1>1, PathType
  <2>2. Batch(p, 0, 0) = <<>>
    BY EmptyBatch
  <2>3. BufferInv(p)
    BY DEF BufferInv, Writing
  <2>4. FileInv(p)
    BY <2>1, <2>2 DEF FileInv
  <2> QED
    BY <2>3, <2>4
<1> QED
  BY <1>1, <1>2, <1>3 DEF IInv

LEMMA NextKeeps == IInv /\ [Next]_vars => IInv'
<1> SUFFICES ASSUME IInv, [Next]_vars PROVE IInv'
  OBVIOUS
<1>1. TypeOK /\ PhaseInv
  BY DEF IInv
<1>2. CASE OpenMasterLog
  <2>1. Master \in Processes /\ pc[Master] = "init" /\ pending[Master] = asked
    BY <1>1, <1>2 DEF OpenMasterLog, Processes, PhaseInv
  <2> QED
    BY <1>2, <2>1, InitLogFileKeeps DEF OpenMasterLog, PathFor
<1>3. ASSUME NEW w \in Workers, ReinitChildLog(w) PROVE IInv'
  <2>1. w \in Processes /\ pc[w] = "forked" /\ pending[w] = NoPath /\ w # Master
    BY <1>1, <1>3, PathAssumption DEF ReinitChildLog, Processes, PhaseInv
  <2> QED
    BY <1>3, <2>1, InitLogFileKeeps DEF ReinitChildLog, PathFor
<1>4. CASE FlushLog
  <2>1. Master \in Processes /\ pc[Master] \in Writing
    BY <1>4 DEF FlushLog, Processes, Writing
  <2>2. "flushed" \in Writing \cup {"exited"}
    BY DEF Writing
  <2> QED
    BY <1>4, <2>1, <2>2, FlushKeeps DEF FlushLog, GoTo
<1>5. ASSUME NEW p \in Processes, Spill(p) PROVE IInv'
  <2>1. pc[p] \in Writing /\ pc[p] # "flushed"
    BY <1>5 DEF Spill, Writes, Writing
  <2>2. pc' = [pc EXCEPT ![p] = pc[p]]
    BY <1>1, <1>5 DEF Spill, TypeOK
  <2> QED
    BY <1>5, <2>1, <2>2, FlushKeeps DEF Spill
<1>6. ASSUME NEW p \in Processes, Exit(p) PROVE IInv'
  <2>1. pc[p] \in Writing
    BY <1>6 DEF Exit, Writes, Writing
  <2> QED
    BY <1>6, <2>1, FlushKeeps DEF Exit, GoTo
<1>7. CASE UNCHANGED vars
  <2>1. /\ UNCHANGED <<pc, asked, workerPath, pending, opened, stream>>
        /\ UNCHANGED <<buffer, offset, content, added>>
    BY <1>7 DEF vars
  <2>2. TypeOK' /\ PhaseInv'
    BY <1>1, <2>1 DEF TypeOK, PhaseInv
  <2>3. ASSUME NEW q \in Processes PROVE BufferInv(q)' /\ FileInv(q)'
    BY <2>1, OthersKeep DEF IInv, Locals
  <2> QED
    BY <2>2, <2>3 DEF IInv
<1>8. CASE Next
  BY <1>2, <1>3, <1>4, <1>5, <1>6, <1>8, ForkKeeps, ForkFailsKeeps,
     AddRecordKeeps, KilledKeeps DEF Next
<1> QED
  BY <1>7, <1>8

LEMMA Inductive == Spec => []IInv
<1>1. Init => IInv
  BY InitHolds
<1>2. IInv /\ [Next]_vars => IInv'
  BY NextKeeps
<1> QED
  BY <1>1, <1>2, PTL DEF Spec

\* Every variable has its type, and a process that writes has a file open.
THEOREM TypeCorrect == Spec => []TypeOK
<1>1. IInv => TypeOK
  BY DEF IInv
<1> QED
  BY <1>1, Inductive, PTL

\* A log that belongs to one process is whole.
LEMMA OwnLogsAreWhole ==
  ASSUME IInv, NEW p \in Processes, HasOwnPath(p) PROVE LogIsWhole(p)
<1>1. TypeOK /\ BufferInv(p) /\ FileInv(p)
  BY DEF IInv
<1>2. offset[p] \in Nat /\ added[p] \in Nat
  BY <1>1, TypeParts
<1>3. content[PathFor(p)] = Batch(p, 0, offset[p])
  BY <1>1 DEF FileInv
<1>4. InFile(p) = offset[p]
  <2>1. Len(Batch(p, 0, offset[p])) = offset[p]
    BY <1>2, BatchType
  <2> QED
    BY <1>3, <2>1, Zenon DEF InFile
<1>5. RecordsOf(p, offset[p]) = Batch(p, 0, offset[p])
  BY <1>2 DEF RecordsOf, Batch
<1>6. ASSUME pc[p] \in {"running", "flushed", "ending"}
      PROVE  offset[p] + Len(buffer[p]) = added[p]
  <2>1. /\ offset[p] <= added[p]
        /\ buffer[p] = Batch(p, offset[p], added[p] - offset[p])
    BY <1>1, <1>6 DEF BufferInv, Writing
  <2>2. added[p] - offset[p] \in Nat
    BY <1>2, <2>1
  <2>3. Len(Batch(p, offset[p], added[p] - offset[p])) = added[p] - offset[p]
    BY <1>2, <2>2, BatchType, Zenon
  <2>4. Len(buffer[p]) = added[p] - offset[p]
    BY <2>1, <2>3, Zenon
  <2> QED
    BY <1>2, <2>4
<1>7. pc[p] = "exited" => offset[p] = added[p]
  BY <1>1 DEF BufferInv
<1> QED
  BY <1>3, <1>4, <1>5, <1>6, <1>7 DEF LogIsWhole

\* However many workers there are and whatever they do, the master's log has
\* each of the master's records once and nothing else.
\* (cWorkerPool.cpp:91, cLogger.cpp:47-53)
THEOREM MasterLogWhole == Spec => []MasterLogIsWhole
<1>1. IInv => MasterLogIsWhole
  BY OwnLogsAreWhole DEF MasterLogIsWhole, Processes
<1> QED
  BY <1>1, Inductive, PTL

\* So it is with the log of a worker that shares its name with no other.
\* (cWorkerPool.cpp:29-35, cLogger.cpp:15-22)
THEOREM WorkerLogsWhole == Spec => []WorkerLogsAreWhole
<1>1. IInv => WorkerLogsAreWhole
  BY OwnLogsAreWhole DEF WorkerLogsAreWhole, Processes
<1> QED
  BY <1>1, Inductive, PTL
=============================================================================
