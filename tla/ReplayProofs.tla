---------------------------- MODULE ReplayProofs ----------------------------
(***************************************************************************)
(* A replay from end to end: the measurement that the trace comes from,    *)
(* the tables that the estimators make of it, the files, and the draws of  *)
(* the channel that replays it.                                            *)
(***************************************************************************)
EXTENDS EstimatorProofs

-----------------------------------------------------------------------------
(* The measurement, for every train size and any number of frames and      *)
(* restarts: extract only refuses logs that have a reason (ReadsCleanLogs),*)
(* and what it prints for the others is the fate of each counter           *)
(* (TraceIsFate).                                                          *)
(*                                                                         *)
(* Both follow from one invariant on the log (its counters grow with the   *)
(* counter of the client) and one on the part of it that was read (the     *)
(* trace is that of the lines read so far).  They are proved of the whole  *)
(* Replay: whatever comes after the measurement leaves it alone.           *)

MeasureTypes ==
  /\ phase \in {"send", "extract", "exit", "flood", "done"}
  /\ train \in Nat \ {0}
  /\ count \in Nat /\ left \in Nat /\ sent \in Nat /\ restarts \in Nat /\ line \in Nat
  /\ repeated \in BOOLEAN
  /\ log \in Seq(Nat)
  /\ trace \in Seq(BOOLEAN)

\* Without a reason for a counter to come twice, the log grows.
LogGrows ==
  train = 1 /\ ~repeated /\ restarts = 0 =>
    /\ left <= 1
    /\ \A i \in 1..Len(log) : log[i] < count
    /\ \A i, j \in 1..Len(log) : i < j => log[i] < log[j]

\* A trace of the first n lines of a log.
TraceOf(t, l, n) ==
  /\ Len(t) = l[n] - l[1]
  /\ \A i \in 1..n : l[1] <= l[i] /\ l[i] <= l[n]
  /\ \A i \in 1..Len(t) : t[i] <=> \E j \in 1..n : l[j] = l[1] + i

ReadingOk ==
  /\ line <= Len(log)
  /\ phase = "send" => line = 0
  /\ phase \in {"send", "extract"} /\ line = 0 => trace = <<>>
  /\ phase = "done" /\ log # <<>> => line = Len(log)
  /\ line > 0 => TraceOf(trace, log, line)

MInv == MeasureTypes /\ LogGrows /\ ReadingOk /\ ReadsCleanLogs

-----------------------------------------------------------------------------

\* Concatenation, as the provers like it.
LEMMA Concatenation ==
  ASSUME NEW T, NEW s \in Seq(T), NEW t \in Seq(T)
  PROVE  /\ s \o t \in Seq(T)
         /\ Len(s \o t) = Len(s) + Len(t)
         /\ \A i \in 1..Len(s) : (s \o t)[i] = s[i]
         /\ \A i \in 1..Len(t) : (s \o t)[Len(s) + i] = t[i]
         /\ \A i \in 1..(Len(s) + Len(t)) :
              (s \o t)[i] = IF i <= Len(s) THEN s[i] ELSE t[i - Len(s)]
  OBVIOUS

\* The bits of one line: zeros, and a one at the end.
LEMMA BitsOfLine ==
  ASSUME NEW old \in Nat, NEW new \in Nat, old < new
  PROVE  /\ Bits(old, new) \in Seq(BOOLEAN)
         /\ Len(Bits(old, new)) = new - old
         /\ \A i \in 1..(new - old) : Bits(old, new)[i] <=> i = new - old
<1> DEFINE zeros == [i \in 1..(new - old - 1) |-> FALSE]
<1>1. /\ zeros \in Seq(BOOLEAN)
      /\ Len(zeros) = new - old - 1
      /\ \A i \in 1..(new - old - 1) : zeros[i] = FALSE
  OBVIOUS
<1>2. <<TRUE>> \in Seq(BOOLEAN) /\ Len(<<TRUE>>) = 1 /\ <<TRUE>>[1] = TRUE
  OBVIOUS
<1>3. Bits(old, new) = zeros \o <<TRUE>>
  BY DEF Bits
<1> HIDE DEF zeros
<1>4. /\ zeros \o <<TRUE>> \in Seq(BOOLEAN)
      /\ Len(zeros \o <<TRUE>>) = new - old
      /\ \A i \in 1..(new - old) :
           (zeros \o <<TRUE>>)[i] = IF i <= new - old - 1 THEN zeros[i] ELSE <<TRUE>>[i - (new - old - 1)]
  BY <1>1, <1>2, Concatenation
<1>5. ASSUME NEW i \in 1..(new - old)
      PROVE  (zeros \o <<TRUE>>)[i] <=> i = new - old
  <2>1. CASE i <= new - old - 1
    <3>1. i \in 1..(new - old - 1) /\ i # new - old
      BY <2>1
    <3>2. (zeros \o <<TRUE>>)[i] = zeros[i]
      BY <2>1, <1>4
    <3>3. zeros[i] = FALSE
      BY <3>1, <1>1
    <3> QED
      BY <3>1, <3>2, <3>3, Zenon
  <2>2. CASE i = new - old
    <3>1. i - (new - old - 1) = 1 /\ ~(i <= new - old - 1)
      BY <2>2
    <3>2. (zeros \o <<TRUE>>)[i] = <<TRUE>>[1]
      BY <3>1, <1>4
    <3> QED
      BY <2>2, <3>2, <1>2, Zenon
  <2>3. i <= new - old - 1 \/ i = new - old
    OBVIOUS
  <2> QED
    BY <2>1, <2>2, <2>3, Zenon
<1> QED
  BY <1>3, <1>4, <1>5

\* Bits added to a trace that is as long as counters first..old.
LEMMA Extended ==
  ASSUME NEW t \in Seq(BOOLEAN), NEW b \in Seq(BOOLEAN),
         NEW first \in Nat, NEW old \in Nat, NEW new \in Nat,
         old < new, Len(t) = old - first, Len(b) = new - old,
         \A i \in 1..(new - old) : b[i] <=> i = new - old
  PROVE  /\ t \o b \in Seq(BOOLEAN)
         /\ Len(t \o b) = new - first
         /\ \A i \in 1..(new - first) :
              /\ i <= old - first => (t \o b)[i] = t[i]
              /\ i > old - first => ((t \o b)[i] <=> first + i = new)
<1>1. /\ t \o b \in Seq(BOOLEAN)
      /\ Len(t \o b) = Len(t) + Len(b)
      /\ \A i \in 1..(Len(t) + Len(b)) :
           (t \o b)[i] = IF i <= Len(t) THEN t[i] ELSE b[i - Len(t)]
  OBVIOUS
<1>2. Len(t) + Len(b) = new - first
  OBVIOUS
<1>3. ASSUME NEW i \in 1..(new - first), i <= old - first
      PROVE  (t \o b)[i] = t[i]
  BY <1>1, <1>2, <1>3
<1>4. ASSUME NEW i \in 1..(new - first), i > old - first
      PROVE  (t \o b)[i] <=> first + i = new
  <2>1. (t \o b)[i] = b[i - Len(t)]
    BY <1>1, <1>2, <1>4
  <2>2. i - Len(t) \in 1..(new - old)
    BY <1>4
  <2>3. b[i - Len(t)] <=> i - Len(t) = new - old
    BY <2>2, Zenon
  <2>4. i - Len(t) = new - old <=> first + i = new
    BY <1>4
  <2> QED
    BY <2>1, <2>3, <2>4, Zenon
<1>5. Len(t \o b) = new - first
  BY <1>1, <1>2, Zenon
<1> QED
  BY <1>1, <1>3, <1>4, <1>5, Zenon

\* One more line: the trace of the lines read, with the bits of the next one.
LEMMA TraceGrows ==
  ASSUME NEW l \in Seq(Nat), NEW n \in Nat, 0 < n, n < Len(l),
         NEW t \in Seq(BOOLEAN),
         TraceOf(t, l, n), l[n] < l[n + 1]
  PROVE  /\ t \o Bits(l[n], l[n + 1]) \in Seq(BOOLEAN)
         /\ TraceOf(t \o Bits(l[n], l[n + 1]), l, n + 1)
<1> DEFINE first == l[1]
           old == l[n]
           new == l[n + 1]
           bits == Bits(old, new)
<1>1. first \in Nat /\ old \in Nat /\ new \in Nat /\ old < new
  OBVIOUS
<1>2. /\ Len(t) = old - first
      /\ \A i \in 1..n : first <= l[i] /\ l[i] <= old
      /\ \A i \in 1..Len(t) : t[i] <=> \E j \in 1..n : l[j] = first + i
  BY DEF TraceOf
<1>3. /\ bits \in Seq(BOOLEAN) /\ Len(bits) = new - old
      /\ \A i \in 1..(new - old) : bits[i] <=> i = new - old
  BY <1>1, BitsOfLine, Zenon
<1>4. /\ t \o bits \in Seq(BOOLEAN)
      /\ Len(t \o bits) = new - first
      /\ \A i \in 1..(new - first) :
           /\ i <= old - first => (t \o bits)[i] = t[i]
           /\ i > old - first => ((t \o bits)[i] <=> first + i = new)
  <2> HIDE DEF first, old, new, bits
  <2>1. /\ Len(t) = old - first /\ t \in Seq(BOOLEAN)
        /\ bits \in Seq(BOOLEAN) /\ Len(bits) = new - old
        /\ \A i \in 1..(new - old) : bits[i] <=> i = new - old
    BY <1>2, <1>3, Zenon
  <2> QED
    BY <1>1, <2>1, Extended, SMTT(60)
<1>5. \A i \in 1..(n + 1) : first <= l[i] /\ l[i] <= new
  <2>1. \A i \in 1..n : first <= l[i] /\ l[i] <= old
    BY <1>2
  <2> SUFFICES ASSUME NEW i \in 1..(n + 1)
               PROVE  first <= l[i] /\ l[i] <= new
    OBVIOUS
  <2>2. CASE i \in 1..n
    BY <2>1, <2>2, <1>1
  <2>3. CASE i = n + 1
    BY <2>1, <2>3, <1>1
  <2> QED
    BY <2>2, <2>3
<1>6. ASSUME NEW i \in 1..(new - first)
      PROVE  (t \o bits)[i] <=> \E j \in 1..(n + 1) : l[j] = first + i
  <2>1. CASE i <= old - first
    <3>1. i \in 1..Len(t)
      <4>1. Len(t) = old - first
        BY <1>2
      <4> QED
        BY <2>1, <4>1, <1>1
    <3>2. (t \o bits)[i] <=> \E j \in 1..n : l[j] = first + i
      BY <3>1, <2>1, <1>2, <1>4, Zenon
    <3>3. (\E j \in 1..n : l[j] = first + i) <=> \E j \in 1..(n + 1) : l[j] = first + i
      <4>1. l[n + 1] # first + i
        BY <2>1, <1>1
      <4> QED
        BY <4>1
    <3> QED
      BY <3>2, <3>3, Zenon
  <2>2. CASE i > old - first
    <3>1. \A j \in 1..n : l[j] # first + i
      <4>1. \A j \in 1..n : l[j] <= old
        BY <1>2
      <4> QED
        BY <4>1, <2>2, <1>1
    <3>2. first + i = new <=> \E j \in 1..(n + 1) : l[j] = first + i
      BY <3>1, <1>1
    <3> QED
      BY <3>2, <2>2, <1>4, Zenon
  <2>3. i <= old - first \/ i > old - first
    BY <1>1
  <2> QED
    BY <2>1, <2>2, <2>3, Zenon
<1>7. TraceOf(t \o bits, l, n + 1)
  <2> HIDE DEF first, old, new, bits
  <2>1. Len(t \o bits) = new - first
    BY <1>4
  <2>2. \A i \in 1..Len(t \o bits) : (t \o bits)[i] <=> \E j \in 1..(n + 1) : l[j] = first + i
    BY <2>1, <1>6, Zenon
  <2> QED
    BY <2>1, <2>2, <1>5, Zenon DEF TraceOf, first, old, new
<1> QED
  BY <1>4, <1>7

-----------------------------------------------------------------------------
(* The steps of the measurement.                                           *)

\* Received frames are added to the end of the log.
LEMMA Received ==
  ASSUME NEW l \in Seq(Nat), NEW c \in Nat, NEW n \in {0, 1, 2}
  PROVE  LET grown == l \o [i \in 1..n |-> c] IN
         /\ grown \in Seq(Nat)
         /\ Len(grown) = Len(l) + n
         /\ \A i \in 1..(Len(l) + n) : grown[i] = IF i <= Len(l) THEN l[i] ELSE c
<1> DEFINE more == [i \in 1..n |-> c]
<1>1. /\ more \in Seq(Nat) /\ Len(more) = n
      /\ \A i \in 1..n : more[i] = c
  OBVIOUS
<1> HIDE DEF more
<1>2. /\ l \o more \in Seq(Nat)
      /\ Len(l \o more) = Len(l) + n
      /\ \A i \in 1..(Len(l) + n) :
           (l \o more)[i] = IF i <= Len(l) THEN l[i] ELSE more[i - Len(l)]
  BY <1>1, Concatenation
<1>3. ASSUME NEW i \in 1..(Len(l) + n)
      PROVE  (l \o more)[i] = IF i <= Len(l) THEN l[i] ELSE c
  <2>1. CASE i <= Len(l)
    BY <2>1, <1>2
  <2>2. CASE ~(i <= Len(l))
    <3>1. i - Len(l) \in 1..n
      BY <2>2
    <3> QED
      BY <2>2, <3>1, <1>1, <1>2
  <2> QED
    BY <2>1, <2>2
<1> QED
  BY <1>2, <1>3 DEF more

\* What a frame does to the log.
LEMMA SendFramePreserves ==
  ASSUME MInv, SendFrame
  PROVE  MInv'
<1>1. PICK n \in Copies : /\ log' = log \o [i \in 1..n |-> count]
                          /\ repeated' = (repeated \/ n = 2)
  BY DEF SendFrame
<1>2. n \in {0, 1, 2} /\ (n = 2 => ~repeated) /\ (n = 2 <=> n \notin {0, 1})
  BY DEF Copies
<1>3. /\ phase = "send" /\ left > 0 /\ line = 0 /\ trace = <<>>
      /\ log \in Seq(Nat) /\ count \in Nat /\ left \in Nat /\ sent \in Nat
      /\ repeated \in BOOLEAN /\ restarts \in Nat /\ train \in Nat \ {0}
      /\ trace \in Seq(BOOLEAN) /\ line \in Nat
  BY DEF MInv, MeasureTypes, ReadingOk, SendFrame
<1>4. /\ sent' = sent + 1 /\ left' = left - 1
      /\ count' = IF left = 1 THEN count + 1 ELSE count
      /\ phase' = phase /\ train' = train /\ restarts' = restarts
      /\ line' = line /\ trace' = trace
  BY DEF SendFrame
<1>5. /\ log' \in Seq(Nat)
      /\ Len(log') = Len(log) + n
      /\ \A i \in 1..(Len(log) + n) : log'[i] = IF i <= Len(log) THEN log[i] ELSE count
  <2> DEFINE grown == log \o [i \in 1..n |-> count]
  <2>1. /\ grown \in Seq(Nat)
        /\ Len(grown) = Len(log) + n
        /\ \A i \in 1..(Len(log) + n) : grown[i] = IF i <= Len(log) THEN log[i] ELSE count
    BY <1>2, <1>3, Received
  <2>2. log' = grown
    BY <1>1
  <2> HIDE DEF grown
  <2> QED
    BY <2>1, <2>2
<1>6. MeasureTypes'
  <2>1. left' \in Nat /\ sent' \in Nat /\ count' \in Nat
    BY <1>3, <1>4
  <2>2. repeated' \in BOOLEAN
    BY <1>1
  <2> QED
    BY <2>1, <2>2, <1>3, <1>4, <1>5 DEF MeasureTypes
<1>7. LogGrows'
  <2> SUFFICES ASSUME train' = 1, ~repeated', restarts' = 0
               PROVE  /\ left' <= 1
                      /\ \A i \in 1..Len(log') : log'[i] < count'
                      /\ \A i, j \in 1..Len(log') : i < j => log'[i] < log'[j]
    BY DEF LogGrows
  <2>1. train = 1 /\ ~repeated /\ restarts = 0 /\ n \in {0, 1}
    BY <1>1, <1>2, <1>4
  <2>2. /\ left <= 1
        /\ \A i \in 1..Len(log) : log[i] < count
        /\ \A i, j \in 1..Len(log) : i < j => log[i] < log[j]
    BY <2>1 DEF MInv, LogGrows
  <2>3. left = 1 /\ left' = 0 /\ count' = count + 1
    BY <2>2, <1>3, <1>4
  <2>4. \A i \in 1..Len(log) : log[i] \in Nat /\ log'[i] = log[i]
    BY <1>2, <1>3, <1>5
  <2>5. ASSUME NEW i \in 1..Len(log')
        PROVE  log'[i] < count'
    <3>1. CASE i \in 1..Len(log)
      BY <3>1, <2>2, <2>3, <2>4, <1>3
    <3>2. CASE i \notin 1..Len(log)
      BY <3>2, <2>3, <1>3, <1>5
    <3> QED
      BY <3>1, <3>2
  <2>6. ASSUME NEW i \in 1..Len(log'), NEW j \in 1..Len(log'), i < j
        PROVE  log'[i] < log'[j]
    <3>1. CASE j \in 1..Len(log)
      <4>1. i \in 1..Len(log)
        BY <3>1, <2>6
      <4> QED
        BY <3>1, <4>1, <2>2, <2>4, <2>6
    <3>2. CASE j \notin 1..Len(log)
      <4>1. j = Len(log) + 1
        BY <3>2, <2>1, <1>3, <1>5
      <4>2. log'[j] = count
        BY <4>1, <1>3, <1>5
      <4>3. i \in 1..Len(log)
        BY <4>1, <2>6, <1>3
      <4> QED
        BY <4>2, <4>3, <2>2, <2>4
    <3> QED
      BY <3>1, <3>2
  <2> QED
    BY <2>3, <2>5, <2>6
<1>8. ReadingOk'
  BY <1>2, <1>3, <1>4, <1>5 DEF ReadingOk
<1>9. ReadsCleanLogs'
  BY <1>3, <1>4 DEF ReadsCleanLogs
<1> QED
  BY <1>6, <1>7, <1>8, <1>9 DEF MInv

\* A line that is read, or ends the reading.
LEMMA NextLinePreserves ==
  ASSUME MInv, NextLine
  PROVE  MInv'
<1>1. /\ log \in Seq(Nat) /\ line \in Nat /\ 0 < line /\ line < Len(log)
      /\ trace \in Seq(BOOLEAN) /\ TraceOf(trace, log, line) /\ phase = "extract"
  BY DEF MInv, MeasureTypes, ReadingOk, NextLine
<1>2. log[line] < log[line + 1]
  <2>1. log[line] \in Nat /\ log[line + 1] \in Nat
    BY <1>1
  <2> QED
    BY <2>1 DEF NextLine, NotStrictlyIncreasing, count_old, count_new
<1>3. /\ trace' = trace \o Bits(log[line], log[line + 1]) /\ line' = line + 1
      /\ UNCHANGED <<phase, train, count, left, sent, restarts, repeated, log>>
  BY DEF NextLine, count_old, count_new, client
<1>4. trace' \in Seq(BOOLEAN) /\ TraceOf(trace', log, line + 1)
  BY <1>1, <1>2, <1>3, TraceGrows
<1>5. MeasureTypes'
  BY <1>1, <1>3, <1>4 DEF MInv, MeasureTypes
<1>6. LogGrows'
  BY <1>3 DEF MInv, LogGrows
<1>7. ReadingOk'
  <2>1. TraceOf(trace', log', line')
    BY <1>3, <1>4
  <2> QED
    BY <2>1, <1>1, <1>3 DEF ReadingOk
<1>8. ReadsCleanLogs'
  BY <1>1, <1>3 DEF ReadsCleanLogs
<1> QED
  BY <1>5, <1>6, <1>7, <1>8 DEF MInv

\* Two lines that are not in order have a reason.
LEMMA OutOfOrder ==
  ASSUME MInv, 0 < line, line < Len(log), log[line + 1] <= log[line]
  PROVE  train > 1 \/ repeated \/ restarts > 0
<1> SUFFICES ASSUME ~(train > 1), ~repeated, ~(restarts > 0)
             PROVE  FALSE
  OBVIOUS
<1>1. train = 1 /\ restarts = 0
  BY DEF MInv, MeasureTypes
<1>2. /\ line \in 1..Len(log) /\ line + 1 \in 1..Len(log) /\ line < line + 1
      /\ log[line] \in Nat /\ log[line + 1] \in Nat
  BY DEF MInv, MeasureTypes
<1>3. log[line] < log[line + 1]
  BY <1>1, <1>2 DEF MInv, LogGrows
<1> QED
  BY <1>2, <1>3

\* Every step of the measurement.
LEMMA MeasurePreserves ==
  ASSUME MInv, MeasureNext
  PROVE  MInv'
<1> USE DEF MInv
<1>1. CASE TrainStarts
  BY <1>1 DEF TrainStarts, MeasureTypes, LogGrows, ReadingOk, ReadsCleanLogs, TraceOf
<1>2. CASE SendFrame
  BY <1>2, SendFramePreserves
<1>3. CASE SendFails
  BY <1>3 DEF SendFails, MeasureTypes, LogGrows, ReadingOk, ReadsCleanLogs, TraceOf
<1>4. CASE Restart
  BY <1>4 DEF Restart, MeasureTypes, LogGrows, ReadingOk, ReadsCleanLogs, TraceOf
<1>5. CASE Collect
  BY <1>5 DEF Collect, client, MeasureTypes, LogGrows, ReadingOk, ReadsCleanLogs, TraceOf
<1>6. CASE FirstLine
  <2>1. /\ MeasureTypes' /\ LogGrows' /\ ReadsCleanLogs'
    BY <1>6 DEF FirstLine, client, MeasureTypes, LogGrows, ReadsCleanLogs
  <2>2. CASE log = <<>>
    BY <1>6, <2>1, <2>2 DEF FirstLine, client, MeasureTypes, ReadingOk
  <2>3. CASE log # <<>>
    <3>1. /\ line' = 1 /\ phase' = "extract" /\ trace' = trace /\ log' = log /\ trace = <<>>
      BY <1>6, <2>3 DEF FirstLine, client, ReadingOk
    <3>2. log \in Seq(Nat) /\ Len(log) >= 1 /\ log[1] \in Nat
      BY <2>3 DEF MeasureTypes
    <3>3. TraceOf(<<>>, log, 1)
      BY <3>2 DEF TraceOf
    <3>4. ReadingOk'
      BY <3>1, <3>2, <3>3 DEF ReadingOk
    <3> QED
      BY <2>1, <3>4
  <2> QED
    BY <2>2, <2>3
<1>7. CASE NextLine
  BY <1>7, NextLinePreserves
<1>8. CASE BadLine
  <2>1. log[line] \in Nat /\ log[line + 1] \in Nat
    BY <1>8 DEF BadLine, MeasureTypes
  <2>2. train > 1 \/ repeated \/ restarts > 0
    BY <1>8, <2>1, OutOfOrder DEF BadLine, NotStrictlyIncreasing, count_old, count_new
  <2>3. /\ phase' = "exit"
        /\ UNCHANGED <<train, count, left, sent, restarts, repeated, log, line, trace>>
    BY <1>8 DEF BadLine, client
  <2> QED
    BY <1>8, <2>2, <2>3 DEF MeasureTypes, LogGrows, ReadingOk, ReadsCleanLogs, BadLine
<1>9. CASE ZeroLine
  <2>1. log[line] \in Nat /\ log[line + 1] \in Nat
    BY <1>9 DEF ZeroLine, MeasureTypes
  <2>2. train > 1 \/ repeated \/ restarts > 0
    BY <1>9, <2>1, OutOfOrder DEF ZeroLine, count_new
  <2>3. /\ phase' = "flood"
        /\ UNCHANGED <<train, count, left, sent, restarts, repeated, log, line, trace>>
    BY <1>9 DEF ZeroLine, client
  <2> QED
    BY <1>9, <2>2, <2>3 DEF MeasureTypes, LogGrows, ReadingOk, ReadsCleanLogs, ZeroLine
<1>10. CASE EndOfLog
  <2>1. /\ phase' = "done" /\ line = Len(log)
        /\ UNCHANGED <<train, count, left, sent, restarts, repeated, log, line, trace>>
    BY <1>10 DEF EndOfLog, client
  <2> QED
    BY <2>1 DEF MeasureTypes, LogGrows, ReadingOk, ReadsCleanLogs
<1> QED
  BY <1>1, <1>2, <1>3, <1>4, <1>5, <1>6, <1>7, <1>8, <1>9, <1>10 DEF MeasureNext

-----------------------------------------------------------------------------
(* The steps of the replay.                                                *)

\* Nothing was read and nothing is left to read.
LEMMA NoLog ==
  ASSUME log = <<>>, line = 0, phase \in {"send", "done"}, trace \in Seq(BOOLEAN),
         phase = "send" => trace = <<>>,
         train \in Nat \ {0}, count = 0, left = 0, sent = 0, restarts = 0, repeated = FALSE
  PROVE  MInv
<1>1. log \in Seq(Nat) /\ Len(log) = 0
  OBVIOUS
<1>2. MeasureTypes
  BY <1>1 DEF MeasureTypes
<1>3. LogGrows
  BY <1>1 DEF LogGrows
<1>4. ReadingOk
  BY <1>1 DEF ReadingOk
<1> QED
  BY <1>2, <1>3, <1>4 DEF MInv, ReadsCleanLogs

LEMMA MeasureInitially ==
  Init => MInv
<1> SUFFICES ASSUME Init PROVE MInv
  OBVIOUS
<1>1. CASE MeasureInit
  <2>1. train \in Nat \ {0} /\ trace \in Seq(BOOLEAN)
    BY <1>1, MeasureAssumption DEF MeasureInit
  <2> QED
    BY <1>1, <2>1, NoLog DEF MeasureInit
<1>2. CASE Recorded
  <2>1. trace \in Seq(BOOLEAN)
    BY <1>2, ReplayAssumption DEF Recorded
  <2> QED
    <3>1. /\ phase = "done" /\ train = 1 /\ count = 0 /\ left = 0 /\ sent = 0
          /\ restarts = 0 /\ repeated = FALSE /\ log = <<>> /\ line = 0
      BY <1>2 DEF Recorded
    <3>2. train \in Nat \ {0}
      BY <3>1
    <3> QED
      BY <2>1, <3>1, <3>2, NoLog
<1> QED
  BY <1>1, <1>2 DEF Init

\* parseInput and what comes after it take the trace as it is.
LEMMA ReplayLeavesMeasure ==
  ASSUME [Next]_vars
  PROVE  MeasureNext \/ ParseInput \/ UNCHANGED measure
<1>1. CASE UNCHANGED vars
  BY <1>1 DEF vars, estimation
<1>2. CASE Feed \/ NextRound \/ NeedFile \/ LastRound \/ Finalize \/ PrintBinary \/ PrintFails
  BY <1>2 DEF Feed, NextRound, NeedFile, LastRound, Finalize, PrintBinary, PrintFails, estimation
<1>3. CASE Load \/ Push \/ PushDraws \/ SearchMoves \/ SearchEnds \/ Emit \/ ChainOnly
  BY <1>3 DEF Load, Push, PushDraws, SearchMoves, SearchEnds, Emit, ChainOnly, estimation
<1> QED
  BY <1>1, <1>2, <1>3 DEF Next

LEMMA ReplayPreserves ==
  MInv /\ [Next]_vars => MInv'
<1> SUFFICES ASSUME MInv, [Next]_vars PROVE MInv'
  OBVIOUS
<1>1. CASE MeasureNext
  BY <1>1, MeasurePreserves
<1>2. CASE ParseInput
  <2>1. /\ phase' = "done" /\ train' = 1 /\ count' = 0 /\ left' = 0 /\ sent' = 0
        /\ restarts' = 0 /\ repeated' = FALSE /\ log' = <<>> /\ line' = 0 /\ trace' = trace
    BY <1>2 DEF ParseInput
  <2>2. trace' \in Seq(BOOLEAN)
    BY <2>1 DEF MInv, MeasureTypes
  <2>3. log' \in Seq(Nat) /\ Len(log') = 0
    BY <2>1
  <2>4. MeasureTypes'
    <3>1. train' \in Nat \ {0} /\ phase' \in {"send", "extract", "exit", "flood", "done"}
      BY <2>1
    <3>2. /\ count' \in Nat /\ left' \in Nat /\ sent' \in Nat /\ restarts' \in Nat
          /\ line' \in Nat /\ repeated' \in BOOLEAN
      BY <2>1
    <3> QED
      BY <2>2, <2>3, <3>1, <3>2, Zenon DEF MeasureTypes
  <2>5. LogGrows'
    BY <2>1, <2>3 DEF LogGrows
  <2>6. ReadingOk'
    BY <2>1, <2>3 DEF ReadingOk
  <2> QED
    BY <2>1, <2>4, <2>5, <2>6 DEF MInv, ReadsCleanLogs
<1>3. CASE UNCHANGED measure
  BY <1>3 DEF measure, client, MInv, MeasureTypes, LogGrows, ReadingOk, ReadsCleanLogs, TraceOf
<1> QED
  BY <1>1, <1>2, <1>3, ReplayLeavesMeasure

\* The invariant of the measurement, in every state of the replay.
THEOREM MeasureCorrect == Spec => []MInv
<1> QED
  BY MeasureInitially, ReplayPreserves, PTL DEF Spec

\* simple_print gives up, or floods its output, only on a log that has a
\* reason: trains, a frame that came twice, a client that was started again.
THEOREM CleanLogsAreRead == Spec => []ReadsCleanLogs
<1>1. MInv => ReadsCleanLogs
  BY DEF MInv
<1> QED
  BY <1>1, MeasureCorrect, PTL

\* The trace that simple_print writes has one bit per counter, its fate.
THEOREM TraceIsTheFate == Spec => []TraceIsFate
<1>1. MInv => TraceIsFate
  <2> SUFFICES ASSUME MInv, phase = "done", log # <<>>
               PROVE  /\ Len(trace) = log[Len(log)] - log[1]
                      /\ \A i \in DOMAIN trace : trace[i] <=> log[1] + i \in ToSet(log)
    BY DEF TraceIsFate
  <2>1. log \in Seq(Nat) /\ trace \in Seq(BOOLEAN) /\ Len(log) > 0
    BY DEF MInv, MeasureTypes
  <2>2. line = Len(log) /\ TraceOf(trace, log, Len(log))
    BY <2>1 DEF MInv, ReadingOk
  <2>3. DOMAIN trace = 1..Len(trace) /\ DOMAIN log = 1..Len(log)
    BY <2>1
  <2>4. ASSUME NEW i \in DOMAIN trace
        PROVE  trace[i] <=> log[1] + i \in ToSet(log)
    <3>1. trace[i] <=> \E j \in 1..Len(log) : log[j] = log[1] + i
      BY <2>2, <2>3, Zenon DEF TraceOf
    <3>2. log[1] + i \in ToSet(log) <=> \E j \in 1..Len(log) : log[j] = log[1] + i
      BY <2>3, Zenon DEF ToSet
    <3> QED
      BY <3>1, <3>2, Zenon
  <2> QED
    BY <2>2, <2>4 DEF TraceOf
<1> QED
  BY <1>1, MeasureCorrect, PTL

-----------------------------------------------------------------------------
(* thresholdrand of BasicOnOffChannel, for distributions of any size: with *)
(* two points or more the search ends (every step narrows its range, and   *)
(* it never looks outside the distribution), and what it finds is the      *)
(* least point whose probability reaches the number that was drawn.        *)
(* The points are those of calculate_values: their probabilities do not    *)
(* decrease, and the last one is MaxRand.                                  *)

Distribution == Seq([point : Nat, probability : Nat])

\* The distribution is sorted, and r is at most its last probability.
Draws(dist, r) ==
  /\ dist \in Distribution /\ Len(dist) >= 2
  /\ r \in Nat
  /\ \A i, j \in 0..(Len(dist) - 1) : i <= j => probability(dist, i) <= probability(dist, j)
  /\ r <= probability(dist, Len(dist) - 1)

\* A search in progress: the point is between min and max, and pos between
\* them as long as there is something between them.
Searching(s, dist, r) ==
  /\ s = [dist |-> dist, rand |-> r, min |-> s.min, max |-> s.max, pos |-> s.pos]
  /\ s.min \in Nat /\ s.max \in Nat /\ s.pos \in Nat
  /\ s.min < s.max /\ s.max < Len(dist)
  /\ ~SearchOver(s) => s.min < s.pos /\ s.pos < s.max
  /\ s.min = 0 \/ r > probability(dist, s.min)
  /\ r <= probability(dist, s.max)

-----------------------------------------------------------------------------

LEMMA Halves ==
  ASSUME NEW a \in Nat, NEW b \in Nat, a < b
  PROVE  /\ Between(a, b) \in Nat
         /\ b - a # 1 => a < Between(a, b) /\ Between(a, b) < b
<1>1. (b - a) \div 2 \in Nat
  OBVIOUS
<1>2. b - a # 1 => 0 < (b - a) \div 2 /\ (b - a) \div 2 < b - a
  OBVIOUS
<1> QED
  BY <1>1, <1>2 DEF Between

LEMMA Middle ==
  ASSUME NEW n \in Nat, n >= 2
  PROVE  n \div 2 \in Nat /\ (n - 1 # 1 => 0 < n \div 2 /\ n \div 2 < n - 1)
  OBVIOUS

LEMMA Element ==
  ASSUME NEW T, NEW s \in Seq(T), NEW k \in 1..Len(s)
  PROVE  s[k] \in T
  OBVIOUS

LEMMA Probabilities ==
  ASSUME NEW dist \in Distribution, NEW i \in Nat, i < Len(dist)
  PROVE  probability(dist, i) \in Nat /\ point(dist, i) \in Nat
<1>1. i + 1 \in 1..Len(dist)
  BY DEF Distribution
<1>2. dist[i + 1] \in [point : Nat, probability : Nat]
  BY <1>1, Element, Zenon DEF Distribution
<1> QED
  BY <1>2 DEF probability, point

\* Before the first step of the search.
LEMMA SearchBegins ==
  ASSUME NEW dist, NEW r, Draws(dist, r)
  PROVE  Searching(Search(dist, r), dist, r)
<1> DEFINE n == Len(dist)
<1>1. n \in Nat /\ n >= 2 /\ r \in Nat /\ r <= probability(dist, n - 1)
  BY DEF Draws, Distribution
<1>2. n \div 2 \in Nat /\ (n - 1 # 1 => 0 < n \div 2 /\ n \div 2 < n - 1)
  <2> HIDE DEF n
  <2> QED
    BY <1>1, Middle
<1> DEFINE s == Search(dist, r)
<1>3. s = [dist |-> dist, rand |-> r, min |-> 0, max |-> n - 1, pos |-> n \div 2]
  BY DEF Search
<1>4. s.dist = dist /\ s.rand = r /\ s.min = 0 /\ s.max = n - 1 /\ s.pos = n \div 2
  BY <1>3
<1> HIDE DEF s, n
<1>5. s.max \in Nat /\ s.min < s.max /\ s.max < n
  BY <1>1, <1>4
<1>6. ~SearchOver(s) => s.min < s.pos /\ s.pos < s.max
  BY <1>1, <1>2, <1>4 DEF SearchOver
<1>7. s = [dist |-> dist, rand |-> r, min |-> s.min, max |-> s.max, pos |-> s.pos]
  BY <1>3, <1>4
<1>8. Searching(s, dist, r)
  BY <1>1, <1>2, <1>4, <1>5, <1>6, <1>7 DEF Searching, n
<1> QED
  BY <1>8 DEF s

\* The search goes on as long as max - min is not 1: a step keeps the point in
\* its range, and makes the range smaller.
THEOREM SearchNarrows ==
  ASSUME NEW dist, NEW r, Draws(dist, r),
         NEW s, Searching(s, dist, r), ~SearchOver(s)
  PROVE  /\ Searching(SearchStep(s), dist, r)
         /\ SearchStep(s).max - SearchStep(s).min < s.max - s.min
<1>1. /\ s.dist = dist /\ s.rand = r
      /\ s.min \in Nat /\ s.max \in Nat /\ s.pos \in Nat /\ Len(dist) \in Nat
      /\ s.min < s.pos /\ s.pos < s.max /\ s.max < Len(dist)
      /\ s.min = 0 \/ r > probability(dist, s.min)
      /\ r <= probability(dist, s.max)
      /\ r \in Nat /\ dist \in Distribution
  BY DEF Searching, Draws, Distribution
<1>2. probability(dist, s.pos) \in Nat
  BY <1>1, Probabilities
<1>3. CASE r > probability(dist, s.pos)
  <2>1. SearchStep(s) = [dist |-> dist, rand |-> r, min |-> s.pos, max |-> s.max,
                         pos |-> Between(s.pos, s.max)]
    BY <1>1, <1>3 DEF SearchStep, Searching
  <2> QED
    BY <2>1, <1>1, <1>3, Halves DEF Searching, SearchOver
<1>4. CASE ~(r > probability(dist, s.pos))
  <2>1. SearchStep(s) = [dist |-> dist, rand |-> r, min |-> s.min, max |-> s.pos,
                         pos |-> Between(s.min, s.pos)]
    BY <1>1, <1>4 DEF SearchStep, Searching
  <2>2. r <= probability(dist, s.pos)
    BY <1>1, <1>2, <1>4
  <2> QED
    BY <2>1, <2>2, <1>1, Halves DEF Searching, SearchOver
<1> QED
  BY <1>3, <1>4

\* At its end, the point that is found is the least one whose probability is
\* not below the number: the length drawn has its share of the numbers.
THEOREM FoundIsLeast ==
  ASSUME NEW dist, NEW r, Draws(dist, r),
         NEW s, Searching(s, dist, r), SearchOver(s)
  PROVE  \E i \in 0..(Len(dist) - 1) :
           /\ Found(s) = point(dist, i)
           /\ r <= probability(dist, i)
           /\ \A j \in 0..(i - 1) : r > probability(dist, j)
<1>1. /\ s.dist = dist /\ s.rand = r
      /\ s.min \in Nat /\ s.max = s.min + 1 /\ s.max < Len(dist) /\ Len(dist) \in Nat
      /\ s.min = 0 \/ r > probability(dist, s.min)
      /\ r <= probability(dist, s.max)
      /\ r \in Nat /\ dist \in Distribution
      /\ \A i, j \in 0..(Len(dist) - 1) : i <= j => probability(dist, i) <= probability(dist, j)
  BY DEF Searching, SearchOver, Draws, Distribution
<1>2. \A i \in 0..(Len(dist) - 1) : probability(dist, i) \in Nat
  BY <1>1, Probabilities
<1>3. CASE r > probability(dist, s.min)
  <2>1. Found(s) = point(dist, s.max)
    BY <1>1, <1>3 DEF Found
  <2>2. ASSUME NEW j \in 0..(s.max - 1)
        PROVE  r > probability(dist, j)
    <3>1. /\ j \in 0..(Len(dist) - 1) /\ s.min \in 0..(Len(dist) - 1) /\ j <= s.min
      BY <1>1
    <3>2. probability(dist, j) <= probability(dist, s.min)
      BY <3>1, <1>1
    <3> QED
      BY <3>1, <3>2, <1>1, <1>2, <1>3
  <2>3. s.max \in 0..(Len(dist) - 1)
    BY <1>1
  <2> QED
    BY <2>1, <2>2, <2>3, <1>1
<1>4. CASE ~(r > probability(dist, s.min))
  <2>1. s.min = 0 /\ s.min \in 0..(Len(dist) - 1) /\ r <= probability(dist, s.min)
    BY <1>1, <1>2, <1>4
  <2>2. Found(s) = point(dist, s.min)
    BY <1>1, <1>4 DEF Found
  <2> QED
    BY <2>1, <2>2
<1> QED
  BY <1>3, <1>4

-----------------------------------------------------------------------------
(* The distributions of calculate_values.                                  *)

\* The bursts of at most l packets.
Shorter(rs, l) == {r \in rs : Length(r) <= l}

\* The bursts whose lengths are in a set, counted with the table.
LEMMA SumOfLengths ==
  ASSUME NEW rs, IsFiniteSet(rs), NEW B \in SUBSET (DOMAIN LengthsOf(rs)), IsFiniteSet(B)
  PROVE  SumFunctionOnSet(LengthsOf(rs), B) = Cardinality({r \in rs : Length(r) \in B})
<1> DEFINE d == LengthsOf(rs)
           With(S) == {r \in rs : Length(r) \in S}
           Good == {n \in Nat : \A S \in SUBSET B : Cardinality(S) = n =>
                      SumFunctionOnSet(d, S) = Cardinality(With(S))}
<1>1. \A S \in SUBSET B : IsFiniteSet(S) /\ Cardinality(S) \in Nat
  BY FS_Subset, FS_CardinalityType
<1>2. \A S : IsFiniteSet(With(S)) /\ Cardinality(With(S)) \in Nat
  <2> SUFFICES ASSUME NEW S PROVE IsFiniteSet(With(S)) /\ Cardinality(With(S)) \in Nat
    OBVIOUS
  <2>1. With(S) \in SUBSET rs
    OBVIOUS
  <2> QED
    BY <2>1, FS_Subset, FS_CardinalityType
<1>3. 0 \in Good
  <2> SUFFICES ASSUME NEW S \in SUBSET B, Cardinality(S) = 0
               PROVE  SumFunctionOnSet(d, S) = Cardinality(With(S))
    OBVIOUS
  <2>1. S = {}
    BY <1>1, FS_EmptySet
  <2>2. With(S) = {}
    BY <2>1
  <2> HIDE DEF With, d
  <2> QED
    BY <1>1, <2>1, <2>2, SumStep, FS_EmptySet
<1>4. ASSUME NEW n \in Nat, n \in Good
      PROVE  n + 1 \in Good
  <2> SUFFICES ASSUME NEW S \in SUBSET B, Cardinality(S) = n + 1
               PROVE  SumFunctionOnSet(d, S) = Cardinality(With(S))
    OBVIOUS
  <2> DEFINE y == Some(S)
             R == S \ {y}
             W == {r \in rs : Length(r) = y}
  <2>1. IsFiniteSet(S) /\ S # {}
    BY <1>1, FS_EmptySet
  <2>2. y \in S /\ SumFunctionOnSet(d, S) = d[y] + SumFunctionOnSet(d, R)
    <3> HIDE DEF d
    <3> QED
      BY <2>1, SumStep
  <2>3. R \in SUBSET B /\ Cardinality(R) = n
    <3>1. Cardinality(R) = Cardinality(S) - 1
      BY <2>1, <2>2, FS_RemoveElement
    <3> QED
      BY <3>1
  <2>4. SumFunctionOnSet(d, R) = Cardinality(With(R))
    BY <1>4, <2>3
  <2>5. d[y] = Cardinality(W)
    BY <2>2 DEF LengthsOf
  <2>6. With(S) = With(R) \cup W /\ With(R) \cap W = {}
    BY <2>2
  <2>7. IsFiniteSet(W) /\ Cardinality(W) \in Nat
    <3>1. W \in SUBSET rs
      OBVIOUS
    <3> QED
      BY <3>1, FS_Subset, FS_CardinalityType
  <2> HIDE DEF With, W, R, d, y
  <2>8. Cardinality(With(R) \cup W)
          = Cardinality(With(R)) + Cardinality(W) - Cardinality(With(R) \cap W)
    BY <1>2, <2>7, FS_Union
  <2>9. Cardinality({}) = 0
    BY FS_EmptySet
  <2>10. Cardinality(With(S)) = Cardinality(With(R)) + Cardinality(W) - 0
    BY <2>6, <2>8, <2>9, Zenon
  <2>11. Cardinality(With(R)) \in Nat
    BY <1>2
  <2>12. SumFunctionOnSet(d, S) = Cardinality(W) + Cardinality(With(R))
    BY <2>2, <2>4, <2>5, Zenon
  <2> QED
    BY <2>7, <2>10, <2>11, <2>12
<1> HIDE DEF Good
<1>5. \A n \in Nat : n \in Good
  BY <1>3, <1>4, Induction
<1>6. B \in SUBSET B /\ Cardinality(B) \in Good
  BY <1>1, <1>5
<1> QED
  BY <1>6 DEF Good

\* The distribution of the lengths of the bursts of a trace.
LEMMA DistributionFacts ==
  ASSUME NEW k \in Nat, NEW S \in SUBSET (1..k)
  PROVE  LET rs == Stretches(S)
             d == LengthsOf(rs)
             D == DOMAIN d
             N == Cardinality(D)
             n == Cardinality(rs)
             dist == calculate_values(d, n)
         IN /\ dist \in Distribution /\ N \in Nat /\ Len(dist) = N
            /\ D \in SUBSET Nat /\ IsFiniteSet(D) /\ D = {Length(r) : r \in rs}
            /\ n \in Nat
            /\ rs # {} => dist # <<>> /\ n > 0
            /\ \A i \in 0..(N - 1) :
                 /\ point(dist, i) = Nth(D, i + 1) /\ Nth(D, i + 1) \in 1..k
                 /\ Cardinality(Shorter(rs, Nth(D, i + 1))) \in 0..n
                 /\ probability(dist, i)
                      = (Cardinality(Shorter(rs, Nth(D, i + 1))) * MaxRand) \div n
<1> DEFINE rs == Stretches(S)
           d == LengthsOf(rs)
           D == DOMAIN d
           N == Cardinality(D)
           n == Cardinality(rs)
           dist == calculate_values(d, n)
           x(i) == Nth(D, i)
           c(i) == Cardinality(Shorter(rs, x(i)))
<1>1. /\ IsFiniteSet(rs) /\ n \in Nat /\ D \in SUBSET (1..k) /\ IsFiniteSet(D)
      /\ rs # {} => D # {}
      /\ D = {Length(r) : r \in rs}
  BY TableFacts
<1>2. N \in Nat /\ D \in SUBSET Nat
  BY <1>1, FS_CardinalityType
<1>3. \A i \in 1..N : x(i) \in D
  <2> HIDE DEF D
  <2> QED
    BY <1>1, <1>2, NthFacts
<1>4. \A l : IsFiniteSet(Shorter(rs, l)) /\ Cardinality(Shorter(rs, l)) \in 0..n
  <2> SUFFICES ASSUME NEW l
               PROVE  IsFiniteSet(Shorter(rs, l)) /\ Cardinality(Shorter(rs, l)) \in 0..n
    OBVIOUS
  <2>1. Shorter(rs, l) \in SUBSET rs
    BY DEF Shorter
  <2> HIDE DEF rs
  <2>2. IsFiniteSet(Shorter(rs, l)) /\ Cardinality(Shorter(rs, l)) <= n
    BY <1>1, <2>1, FS_Subset
  <2>3. Cardinality(Shorter(rs, l)) \in Nat
    BY <2>2, FS_CardinalityType
  <2> QED
    BY <1>1, <2>2, <2>3
<1>5. dist = [i \in 1..N |->
               [point |-> x(i),
                probability |-> (SumFunctionOnSet(d, Upto(D, x(i))) * MaxRand) \div n]]
  BY DEF calculate_values, Upto
<1> HIDE DEF rs, d
<1>6. \A i \in 1..N : SumFunctionOnSet(d, Upto(D, x(i))) = c(i)
  <2> SUFFICES ASSUME NEW i \in 1..N
               PROVE  SumFunctionOnSet(d, Upto(D, x(i))) = c(i)
    OBVIOUS
  <2> DEFINE B == Upto(D, x(i))
  <2>1. B \in SUBSET D
    BY DEF Upto
  <2>2. IsFiniteSet(B)
    BY <1>1, <2>1, FS_Subset
  <2>3. SumFunctionOnSet(d, B) = Cardinality({r \in rs : Length(r) \in B})
    <3> HIDE DEF B
    <3> QED
      BY <1>1, <2>1, <2>2, SumOfLengths DEF d
  <2>4. {r \in rs : Length(r) \in B} = Shorter(rs, x(i))
    BY <1>1 DEF Upto, Shorter
  <2> QED
    BY <2>3, <2>4
<1>7. \A i \in 1..N : (c(i) * MaxRand) \div n \in Nat
  <2> SUFFICES ASSUME NEW i \in 1..N PROVE (c(i) * MaxRand) \div n \in Nat
    OBVIOUS
  <2>1. x(i) \in D
    BY <1>3
  <2>2. rs # {}
    BY <1>1, <2>1
  <2>3. n \in Nat \ {0}
    BY <1>1, <2>2, FS_EmptySet
  <2>4. c(i) \in Nat
    BY <1>1, <1>4
  <2> HIDE DEF c, n
  <2>5. c(i) * MaxRand \in Nat
    BY <2>4, EstimatorsAssumption
  <2> QED
    BY <2>3, <2>5, Quotient
<1>8. dist = [i \in 1..N |-> [point |-> x(i), probability |-> (c(i) * MaxRand) \div n]]
  <2> HIDE DEF c, x, n, D, N, dist
  <2> QED
    BY <1>5, <1>6
<1>9. dist \in Distribution /\ Len(dist) = N /\ DOMAIN dist = 1..N
  <2>1. \A i \in 1..N : [point |-> x(i), probability |-> (c(i) * MaxRand) \div n]
                          \in [point : Nat, probability : Nat]
    BY <1>2, <1>3, <1>7
  <2> HIDE DEF c, x, n, D, N, dist
  <2>2. dist \in [1..N -> [point : Nat, probability : Nat]]
    BY <1>8, <2>1
  <2>3. ASSUME NEW T, NEW s \in [1..N -> T]
        PROVE  s \in Seq(T) /\ Len(s) = N /\ DOMAIN s = 1..N
    BY <1>2
  <2> QED
    BY <2>2, <2>3 DEF Distribution
<1>10. ASSUME NEW i \in 0..(N - 1)
       PROVE  /\ point(dist, i) = x(i + 1) /\ x(i + 1) \in 1..k
              /\ c(i + 1) \in 0..n
              /\ probability(dist, i) = (c(i + 1) * MaxRand) \div n
  <2>1. i + 1 \in 1..N
    BY <1>2
  <2>2. x(i + 1) \in 1..k
    BY <1>1, <1>3, <2>1
  <2>3. c(i + 1) \in 0..n
    BY <1>4
  <2> HIDE DEF c, x, n, D, N, dist
  <2> QED
    BY <1>8, <2>1, <2>2, <2>3 DEF point, probability
<1>11. rs # {} => dist # <<>> /\ n > 0
  <2> SUFFICES ASSUME rs # {} PROVE dist # <<>> /\ n > 0
    OBVIOUS
  <2>1. D # {}
    BY <1>1
  <2>2. N # 0 /\ n # 0
    BY <1>1, <2>1, FS_EmptySet
  <2> HIDE DEF N, n, dist
  <2>3. Len(dist) # 0
    BY <1>9, <2>2
  <2> QED
    BY <1>1, <2>2, <2>3
<1> HIDE DEF dist, x, c, N, n
<1>12. /\ dist \in Distribution /\ N \in Nat /\ Len(dist) = N
       /\ D \in SUBSET Nat /\ IsFiniteSet(D) /\ D = {Length(r) : r \in rs}
       /\ n \in Nat
       /\ rs # {} => dist # <<>> /\ n > 0
  BY <1>1, <1>2, <1>9, <1>11
<1> QED
  BY <1>10, <1>12, Zenon DEF dist, x, c, N, n, rs, d

\* A number reaches the probability of a point as it reaches the bursts up to it.
LEMMA ReachedPoints ==
  ASSUME NEW k \in Nat, NEW S \in SUBSET (1..k), Stretches(S) # {}
  PROVE  LET rs == Stretches(S)
             D == DOMAIN LengthsOf(rs)
             n == Cardinality(rs)
             dist == calculate_values(LengthsOf(rs), n)
         IN \A i \in 0..(Len(dist) - 1) : \A r \in Nat :
              r <= probability(dist, i) <=>
                r * n <= MaxRand * Cardinality(Shorter(rs, Nth(D, i + 1)))
<1> DEFINE rs == Stretches(S)
           D == DOMAIN LengthsOf(rs)
           n == Cardinality(rs)
           dist == calculate_values(LengthsOf(rs), n)
<1> SUFFICES ASSUME NEW i \in 0..(Len(dist) - 1), NEW r \in Nat
             PROVE  r <= probability(dist, i) <=>
                      r * n <= MaxRand * Cardinality(Shorter(rs, Nth(D, i + 1)))
  OBVIOUS
<1> DEFINE c == Cardinality(Shorter(rs, Nth(D, i + 1)))
<1>1. n \in Nat \ {0} /\ c \in Nat /\ probability(dist, i) = (c * MaxRand) \div n
  <2>1. /\ Len(dist) = Cardinality(D) /\ n \in Nat /\ n > 0
        /\ \A j \in 0..(Cardinality(D) - 1) :
             /\ Cardinality(Shorter(rs, Nth(D, j + 1))) \in 0..n
             /\ probability(dist, j)
                  = (Cardinality(Shorter(rs, Nth(D, j + 1))) * MaxRand) \div n
    BY DistributionFacts
  <2> HIDE DEF rs, D, n, dist
  <2> QED
    BY <2>1
<1> HIDE DEF rs, D, n, dist, c
<1>2. MaxRand \in Nat /\ c * MaxRand \in Nat /\ c * MaxRand = MaxRand * c
  BY <1>1, EstimatorsAssumption
<1>3. r <= (c * MaxRand) \div n <=> r * n <= c * MaxRand
  BY <1>1, <1>2, BelowQuotient
<1> QED
  BY <1>1, <1>2, <1>3 DEF c

\* The distribution is one that thresholdrand draws from: sorted, and up to
\* CLICK_RAND_MAX.
LEMMA DistributionSorted ==
  ASSUME NEW k \in Nat, NEW S \in SUBSET (1..k), Stretches(S) # {}
  PROVE  LET rs == Stretches(S)
             dist == calculate_values(LengthsOf(rs), Cardinality(rs))
         IN /\ \A i, j \in 0..(Len(dist) - 1) :
                 i <= j => probability(dist, i) <= probability(dist, j)
            /\ Len(dist) > 0
            /\ probability(dist, Len(dist) - 1) = MaxRand
<1> DEFINE rs == Stretches(S)
           D == DOMAIN LengthsOf(rs)
           n == Cardinality(rs)
           dist == calculate_values(LengthsOf(rs), n)
           N == Cardinality(D)
           x(i) == Nth(D, i + 1)
           c(i) == Cardinality(Shorter(rs, x(i)))
           p(i) == probability(dist, i)
<1>1. /\ dist \in Distribution /\ N \in Nat /\ Len(dist) = N
      /\ D \in SUBSET Nat /\ IsFiniteSet(D) /\ D = {Length(r) : r \in rs}
      /\ n \in Nat /\ n > 0 /\ dist # <<>>
      /\ \A i \in 0..(N - 1) :
           x(i) \in 1..k /\ c(i) \in 0..n /\ p(i) = (c(i) * MaxRand) \div n
  BY DistributionFacts
<1>2. IsFiniteSet(rs)
  BY TableFacts
<1>3. \A i \in 0..(N - 1) : \A r \in Nat : r <= p(i) <=> r * n <= MaxRand * c(i)
  <2>1. \A i \in 0..(Len(dist) - 1) : \A r \in Nat : r <= p(i) <=> r * n <= MaxRand * c(i)
    BY ReachedPoints
  <2> HIDE DEF dist, N, p, c, n
  <2> QED
    BY <1>1, <2>1
<1> HIDE DEF rs, dist, n
<1>4. N > 0
  <2>1. Len(dist) # 0
    BY <1>1 DEF Distribution
  <2> HIDE DEF N
  <2> QED
    BY <1>1, <2>1
<1>5. \A i \in 0..(N - 1) : i + 1 \in 1..N /\ x(i) \in D /\ Cardinality(Upto(D, x(i))) = i + 1
  <2>1. \A i \in 1..N : Nth(D, i) \in D /\ Cardinality(Upto(D, Nth(D, i))) = i
    <3> HIDE DEF D
    <3> QED
      BY <1>1, NthFacts
  <2>2. \A i \in 0..(N - 1) : i + 1 \in 1..N
    BY <1>1
  <2> HIDE DEF N
  <2> QED
    BY <2>1, <2>2
<1>6. MaxRand \in Nat
  BY EstimatorsAssumption
<1>7. ASSUME NEW i \in 0..(N - 1), NEW j \in 0..(N - 1), i <= j
      PROVE  p(i) <= p(j)
  <2>1. p(i) \in Nat
    <3>1. i + 1 \in 1..Len(dist) /\ i \in Nat /\ i < Len(dist)
      BY <1>1
    <3> QED
      BY <1>1, <3>1, Probabilities
  <2>2. p(i) * n <= MaxRand * c(i)
    <3>1. p(i) <= p(i)
      BY <2>1
    <3> QED
      BY <1>3, <2>1, <3>1
  <2>3. c(i) <= c(j)
    <3>1. x(i) <= x(j)
      <4>1. x(i) \in D /\ x(j) \in D /\ x(i) \in Nat /\ x(j) \in Nat
        BY <1>1, <1>5
      <4>2. ~(x(j) < x(i))
        <5> SUFFICES ASSUME x(j) < x(i) PROVE FALSE
          OBVIOUS
        <5> HIDE DEF x, D
        <5>1. Cardinality(Upto(D, x(j))) < Cardinality(Upto(D, x(i)))
          BY <1>1, <4>1, RanksGrow
        <5>2. j + 1 < i + 1
          BY <1>5, <5>1
        <5> QED
          BY <1>1, <1>7, <5>2
      <4> QED
        BY <4>1, <4>2
    <3>2. Shorter(rs, x(i)) \in SUBSET Shorter(rs, x(j))
      <4>1. \A r \in rs : Length(r) \in D /\ Length(r) \in Nat
        BY <1>1
      <4>2. x(i) \in Nat /\ x(j) \in Nat
        BY <1>1
      <4> QED
        BY <3>1, <4>1, <4>2 DEF Shorter
    <3>3. IsFiniteSet(Shorter(rs, x(j)))
      <4>1. Shorter(rs, x(j)) \in SUBSET rs
        BY DEF Shorter
      <4> QED
        BY <1>2, <4>1, FS_Subset
    <3> QED
      BY <3>2, <3>3, FS_Subset
  <2>4. MaxRand * c(i) <= MaxRand * c(j)
    <3>1. c(i) \in Nat /\ c(j) \in Nat
      BY <1>1
    <3> HIDE DEF c
    <3> QED
      BY <1>6, <2>3, <3>1, Products
  <2>5. p(i) * n <= MaxRand * c(j)
    <3>1. c(i) \in Nat /\ c(j) \in Nat
      BY <1>1
    <3>2. p(i) * n \in Int /\ MaxRand * c(i) \in Int /\ MaxRand * c(j) \in Int
      BY <1>1, <1>6, <2>1, <3>1
    <3> HIDE DEF c, p
    <3> QED
      BY <2>2, <2>4, <3>2
  <2> HIDE DEF p, c, N
  <2> QED
    BY <1>3, <2>1, <2>5
<1>8. p(N - 1) = MaxRand
  <2>1. N - 1 \in 0..(N - 1) /\ (N - 1) + 1 = N
    BY <1>1, <1>4
  <2>2. Upto(D, x(N - 1)) = D
    <3>1. Cardinality(Upto(D, x(N - 1))) = N
      BY <1>5, <2>1
    <3>2. Upto(D, x(N - 1)) \in SUBSET D
      BY DEF Upto
    <3> HIDE DEF D, x
    <3> QED
      BY <1>1, <3>1, <3>2, FS_Subset DEF N
  <2>3. Shorter(rs, x(N - 1)) = rs
    <3>1. \A r \in rs : Length(r) \in D
      BY <1>1
    <3> HIDE DEF D, x
    <3> QED
      BY <2>2, <3>1 DEF Shorter, Upto
  <2>4. c(N - 1) = n
    BY <2>3 DEF n
  <2>5. p(N - 1) = (n * MaxRand) \div n
    BY <1>1, <2>1, <2>4
  <2>6. n * MaxRand = MaxRand * n + 0
    BY <1>1, <1>6
  <2>7. (MaxRand * n + 0) \div n = MaxRand
    BY <1>1, <1>6, QuotientIs
  <2> QED
    BY <2>5, <2>6, <2>7
<1> HIDE DEF p, N
<1>9. Len(dist) = N
  BY <1>1
<1> QED
  BY <1>4, <1>7, <1>8, <1>9, Zenon DEF p, dist, rs, n

-----------------------------------------------------------------------------
(* The tables, in every state of the replay.                               *)

\* The places where the tables are there.
Later == {"print", "load", "idle", "search", "emit", "refused", "wild"}

\* The estimator and its tables are those of what was read of the trace.
TablesInv ==
  /\ trace \in Trace
  /\ fed \in 0..Len(trace)
  /\ Mta(mod) /\ mod.current_state \in BOOLEAN
  /\ pc = "start" => fed = 0 /\ mod = mta_init(heap)
  /\ pc # "start" => phase = "done" /\ class \in Class
  /\ pc \in {"round1", "finalize"} /\ class = "basiconoff" =>
       OnOffInv(mod.onoff, trace, fed) /\ mod.C = 0
  /\ pc = "round1" /\ class = "basicmta" =>
       OnOffInv(mod.onoff, trace, fed) /\ mod.second_round = FALSE
  /\ pc \in {"round2", "finalize"} /\ class = "basicmta" => MtaInv(mod, trace, fed)
  /\ pc = "round2" => class = "basicmta"
  /\ pc = "finalize" => fed = Len(trace)
  /\ pc \in Later =>
       /\ HasBursts /\ trace # <<>> => Settled(mod.onoff, trace, mod.C, Len(trace))
       /\ tables = [free |-> calculate_values(mod.onoff.success_length, mod.onoff.success_total),
                    error |-> calculate_values(mod.onoff.error_length, mod.onoff.error_total),
                    chain |-> markov_finalize(mod.markov)]
  /\ pc \in {"start", "round1", "round2", "finalize", "quit"} \cup Later

\* init.
LEMMA InitialEstimator ==
  ASSUME NEW h
  PROVE  LET m == mta_init(h) IN
         /\ Mta(m) /\ m.current_state = FALSE /\ m.C = 0 /\ m.second_round = FALSE
         /\ m.onoff = NoBursts /\ m.markov = markov_init(h)
  BY DEF mta_init, Mta

\* A measurement that is done stays done.
LEMMA MeasureIsOver ==
  ASSUME phase = "done"
  PROVE  ~MeasureNext
  BY DEF MeasureNext, TrainStarts, SendFrame, SendFails, Restart, Collect,
         FirstLine, NextLine, BadLine, ZeroLine, EndOfLog

\* At first nothing was read.
LEMMA TablesInitially ==
  Init => TablesInv
<1> SUFFICES ASSUME Init PROVE TablesInv
  OBVIOUS
<1>1. MInv
  BY MeasureInitially
<1>2. trace \in Trace /\ Len(trace) \in Nat
  BY <1>1 DEF MInv, MeasureTypes, Trace
<1>3. pc = "start" /\ fed = 0 /\ mod = mta_init(heap)
  BY DEF Init
<1>4. Mta(mod) /\ mod.current_state \in BOOLEAN
  BY <1>3, InitialEstimator
<1> QED
  BY <1>2, <1>3, <1>4 DEF TablesInv, Later

\* One character of the trace.
LEMMA FeedTables ==
  ASSUME TablesInv, Feed
  PROVE  TablesInv'
<1>1. /\ pc \in {"round1", "round2"} /\ pc' = pc /\ phase' = phase /\ class' = class
      /\ fed < Len(trace) /\ fed' = fed + 1 /\ trace' = trace
      /\ mod' = addChar(mod, trace[fed + 1])
  BY DEF Feed, estimation, measure
<1>2. /\ trace \in Trace /\ Len(trace) \in Nat /\ fed \in Nat /\ fed' \in 0..Len(trace)
      /\ trace[fed + 1] \in BOOLEAN /\ phase = "done" /\ class \in Class
      /\ Mta(mod) /\ mod.current_state \in BOOLEAN
  <2>1. trace \in Trace /\ fed \in 0..Len(trace)
    BY DEF TablesInv
  <2>2. Len(trace) \in Nat /\ \A i \in 1..Len(trace) : trace[i] \in BOOLEAN
    BY <2>1, TraceDomain
  <2>3. fed + 1 \in 1..Len(trace)
    BY <1>1, <2>1, <2>2
  <2> QED
    BY <1>1, <2>1, <2>2, <2>3 DEF TablesInv
<1>3. CASE class = "markovchain"
  <2>1. pc = "round1"
    BY <1>1, <1>3 DEF TablesInv
  <2>2. mod' = [mod EXCEPT !.markov = markov_addChar(@, trace[fed + 1])]
    BY <1>1, <1>3 DEF addChar
  <2>3. Mta(mod') /\ mod'.current_state = mod.current_state
    BY <1>2, <2>2 DEF Mta
  <2> QED
    BY <1>1, <1>2, <1>3, <2>1, <2>3 DEF TablesInv, Later
<1>4. CASE class = "basiconoff"
  <2>1. pc = "round1" /\ OnOffInv(mod.onoff, trace, fed) /\ mod.C = 0
    BY <1>1, <1>4 DEF TablesInv
  <2>2. mod' = [mod EXCEPT !.onoff = onoff_addChar(@, trace[fed + 1])]
    BY <1>1, <1>4 DEF addChar
  <2>3. /\ Mta(mod') /\ mod'.current_state = mod.current_state /\ mod'.C = mod.C
        /\ mod'.onoff = onoff_addChar(mod.onoff, trace[fed + 1])
    BY <1>2, <2>2 DEF Mta
  <2>4. OnOffInv(mod'.onoff, trace, fed + 1)
    BY <1>1, <1>2, <2>1, <2>3, OnOffGrows
  <2> QED
    BY <1>1, <1>2, <1>4, <2>1, <2>3, <2>4 DEF TablesInv, Later
<1>5. CASE class = "basicmta" /\ pc = "round1"
  <2>1. OnOffInv(mod.onoff, trace, fed) /\ mod.second_round = FALSE
    BY <1>5 DEF TablesInv
  <2>2. mod' = [[mod EXCEPT !.onoff = onoff_addChar(@, trace[fed + 1])]
                  EXCEPT !.current_state = trace[fed + 1]]
    BY <1>1, <1>5, <2>1 DEF addChar, mta_addChar
  <2>3. /\ Mta(mod') /\ mod'.current_state = trace[fed + 1] /\ mod'.second_round = FALSE
        /\ mod'.onoff = onoff_addChar(mod.onoff, trace[fed + 1])
    BY <1>2, <2>1, <2>2 DEF Mta
  <2>4. OnOffInv(mod'.onoff, trace, fed + 1)
    BY <1>1, <1>2, <2>1, <2>3, OnOffGrows
  <2> QED
    BY <1>1, <1>2, <1>5, <2>1, <2>3, <2>4 DEF TablesInv, Later
<1>6. CASE class = "basicmta" /\ pc = "round2"
  <2>1. MtaInv(mod, trace, fed)
    BY <1>6 DEF TablesInv
  <2>2. mod' = mta_addChar(mod, trace[fed + 1])
    BY <1>1, <1>6 DEF addChar
  <2>3. MtaInv(mod', trace, fed + 1)
    BY <1>1, <1>2, <2>1, <2>2, MtaGrows
  <2>4. Mta(mod') /\ mod'.current_state \in BOOLEAN
    BY <2>3 DEF MtaInv
  <2> QED
    BY <1>1, <1>2, <1>6, <2>3, <2>4 DEF TablesInv, Later
<1> QED
  BY <1>1, <1>2, <1>3, <1>4, <1>5, <1>6 DEF Class

\* The second round is prepared.
LEMMA NextRoundTables ==
  ASSUME TablesInv, NextRound
  PROVE  TablesInv'
<1>1. PICK threshold \in Thresholds(onoff_flush(mod.onoff)) :
        mod' = mta_nextRound(mod, threshold)
  BY DEF NextRound
<1>2. /\ pc = "round1" /\ fed = Len(trace) /\ class = "basicmta"
      /\ pc' = "round2" /\ fed' = 0 /\ class' = class /\ phase' = phase /\ trace' = trace
  BY DEF NextRound, estimation, measure
<1>3. /\ trace \in Trace /\ Len(trace) \in Nat /\ phase = "done" /\ Mta(mod)
      /\ mod.current_state \in BOOLEAN /\ OnOffInv(mod.onoff, trace, Len(trace))
  BY <1>2, TraceDomain DEF TablesInv
<1>4. Settled(onoff_flush(mod.onoff), trace, 0, Len(trace))
  BY <1>3, OnOffEnds
<1>5. threshold \in Nat
  BY <1>1, <1>3, <1>4, ThresholdIsNatural
<1>6. MtaInv(mod', trace, 0)
  BY <1>1, <1>3, <1>5, MtaBegins
<1>7. Mta(mod') /\ mod'.current_state \in BOOLEAN
  BY <1>6 DEF MtaInv
<1>8. 0 \in 0..Len(trace) /\ class \in Class
  BY <1>2, <1>3 DEF Class
<1> QED
  BY <1>2, <1>3, <1>6, <1>7, <1>8 DEF TablesInv, Later

\* What finalize leaves alone.
LEMMA FinalizedFields ==
  ASSUME NEW m, Mta(m), m.current_state \in BOOLEAN
  PROVE  Mta(mta_finalize(m)) /\ mta_finalize(m).current_state \in BOOLEAN
<1> DEFINE e == IF m.current_state THEN mta_endOfRun(m)
                ELSE [m EXCEPT !.length_error = @ + m.length]
           q == mta_finalize(m)
<1>1. Mta(e) /\ e.current_state = m.current_state
  <2>1. CASE m.current_state
    BY <2>1, EndOfRunFields
  <2>2. CASE ~m.current_state
    BY <2>2 DEF Mta
  <2> QED
    BY <2>1, <2>2
<1>2. q = e \/ q = [e EXCEPT !.onoff = onoff_addChars(@, FALSE, e.length_error)]
  BY DEF mta_finalize
<1> HIDE DEF e, q
<1>3. Mta(q) /\ q.current_state = e.current_state
  BY <1>1, <1>2 DEF Mta
<1> QED
  BY <1>1, <1>3 DEF q

\* A flush of nothing.
LEMMA EmptyFlush ==
  ASSUME NEW o, OnOff(o), o.length = 0
  PROVE  LET q == onoff_flush(o) IN
         /\ q.success_length = o.success_length /\ q.error_length = o.error_length
         /\ q.success_total = o.success_total /\ q.error_total = o.error_total
  BY DEF OnOff, onoff_flush, onoff_addChar

\* The bursts of the properties are the stretches of the invariant.
LEMMA BurstsAreStretches ==
  ASSUME trace \in Trace
  PROVE  /\ FreeBursts = Free(trace, mod.C)
         /\ FreeBursts = Stretches(Long(trace, mod.C))
         /\ InFree = Long(trace, mod.C)
         /\ ErrorBursts = Stretches((1..Len(trace)) \ Long(trace, mod.C))
<1>1. FreeBursts = Free(trace, mod.C)
  BY DEF FreeBursts, Free, Ones, Positions
<1>2. Stretches(Long(trace, mod.C)) = Free(trace, mod.C)
  BY StretchesOfLong
<1>3. InFree = Long(trace, mod.C)
  BY <1>1 DEF InFree, Long
<1>4. Positions = 1..Len(trace)
  BY TraceDomain DEF Positions
<1> QED
  BY <1>1, <1>2, <1>3, <1>4 DEF ErrorBursts

\* finalize.
LEMMA FinalizeTables ==
  ASSUME TablesInv, Finalize
  PROVE  TablesInv'
<1>1. /\ pc = "finalize" /\ pc' = "print" /\ class' = class /\ phase' = phase
      /\ trace' = trace /\ fed' = fed /\ mod' = Finalized(mod)
      /\ tables' = [free |-> calculate_values(mod'.onoff.success_length, mod'.onoff.success_total),
                    error |-> calculate_values(mod'.onoff.error_length, mod'.onoff.error_total),
                    chain |-> markov_finalize(mod'.markov)]
  BY DEF Finalize, estimation, measure
<1>2. /\ trace \in Trace /\ Len(trace) \in Nat /\ fed = Len(trace) /\ fed \in 0..Len(trace)
      /\ phase = "done" /\ class \in Class /\ Mta(mod) /\ mod.current_state \in BOOLEAN
  BY <1>1, TraceDomain DEF TablesInv
<1>3. /\ Mta(mod') /\ mod'.current_state \in BOOLEAN
      /\ HasBursts /\ trace # <<>> => Settled(mod'.onoff, trace, mod'.C, Len(trace))
  <2>1. CASE class = "markovchain"
    <3>1. mod' = mod
      BY <1>1, <2>1 DEF Finalized, HasBursts
    <3> QED
      BY <1>2, <2>1, <3>1 DEF HasBursts
  <2>2. CASE class = "basiconoff"
    <3>1. mod' = [mod EXCEPT !.onoff = onoff_flush(@)]
      BY <1>1, <2>2 DEF Finalized, HasBursts
    <3>2. /\ Mta(mod') /\ mod'.current_state = mod.current_state /\ mod'.C = mod.C
          /\ mod'.onoff = onoff_flush(mod.onoff)
      BY <1>2, <3>1 DEF Mta
    <3>3. OnOffInv(mod.onoff, trace, Len(trace)) /\ mod.C = 0
      BY <1>1, <1>2, <2>2 DEF TablesInv
    <3>4. Settled(mod'.onoff, trace, 0, Len(trace))
      BY <1>2, <3>2, <3>3, OnOffEnds
    <3> QED
      BY <1>2, <3>2, <3>3, <3>4
  <2>3. CASE class = "basicmta"
    <3> DEFINE e == mta_finalize(mod)
    <3>1. mod' = [e EXCEPT !.onoff = onoff_flush(@)]
      BY <1>1, <2>3 DEF Finalized, HasBursts
    <3>2. MtaInv(mod, trace, Len(trace)) /\ mod.C \in Nat
      BY <1>1, <1>2, <2>3 DEF TablesInv, MtaInv
    <3>3. Mta(e) /\ e.current_state \in BOOLEAN
      BY <1>2, FinalizedFields
    <3>4. trace # <<>> =>
            /\ OnOff(e.onoff) /\ e.onoff.length = 0
            /\ Settled(e.onoff, trace, mod.C, Len(trace)) /\ e.C = mod.C
      <4> SUFFICES ASSUME trace # <<>>
                   PROVE  /\ OnOff(e.onoff) /\ e.onoff.length = 0
                          /\ Settled(e.onoff, trace, mod.C, Len(trace)) /\ e.C = mod.C
        OBVIOUS
      <4>1. Len(trace) > 0
        BY <1>2 DEF Trace
      <4> HIDE DEF e
      <4> QED
        BY <1>2, <3>2, <4>1, MtaEnds DEF e
    <3> HIDE DEF e
    <3>5. /\ Mta(mod') /\ mod'.current_state = e.current_state /\ mod'.C = e.C
          /\ mod'.onoff = onoff_flush(e.onoff)
      BY <3>1, <3>3 DEF Mta
    <3>6. trace # <<>> => Settled(mod'.onoff, trace, mod.C, Len(trace))
      <4> SUFFICES ASSUME trace # <<>>
                   PROVE  Settled(mod'.onoff, trace, mod.C, Len(trace))
        OBVIOUS
      <4>1. /\ mod'.onoff.success_length = e.onoff.success_length
            /\ mod'.onoff.error_length = e.onoff.error_length
            /\ mod'.onoff.success_total = e.onoff.success_total
            /\ mod'.onoff.error_total = e.onoff.error_total
        BY <3>4, <3>5, EmptyFlush
      <4> QED
        BY <3>4, <4>1, SettledSame
    <3> QED
      BY <3>3, <3>4, <3>5, <3>6
  <2> QED
    BY <1>2, <2>1, <2>2, <2>3 DEF Class
<1> QED
  BY <1>1, <1>2, <1>3 DEF TablesInv, Later, HasBursts

\* Each step of the replay keeps the tables right.
LEMMA TablesPreserved ==
  TablesInv /\ MInv /\ [Next]_vars => TablesInv'
<1> SUFFICES ASSUME TablesInv, MInv, [Next]_vars PROVE TablesInv'
  OBVIOUS
<1>1. CASE MeasureNext /\ UNCHANGED <<class, heap, pc, fed, mod, tables, files, channel>>
  <2>1. pc = "start"
    BY <1>1, MeasureIsOver DEF TablesInv
  <2>2. MInv'
    BY MeasurePreserves, <1>1
  <2>3. trace' \in Trace /\ Len(trace') \in Nat
    BY <2>2 DEF MInv, MeasureTypes, Trace
  <2> QED
    BY <1>1, <2>1, <2>3 DEF TablesInv, Later
<1>2. CASE ParseInput
  <2>1. /\ pc = "start" /\ phase = "done" /\ pc' = "round1" /\ class' \in Class
        /\ mod' = mta_init(heap') /\ phase' = phase /\ trace' = trace /\ fed' = fed
    BY <1>2 DEF ParseInput
  <2>2. /\ Mta(mod') /\ mod'.current_state = FALSE /\ mod'.C = 0
        /\ mod'.second_round = FALSE /\ mod'.onoff = NoBursts
    BY <2>1, InitialEstimator
  <2>3. OnOffInv(NoBursts, trace, 0)
    BY OnOffBegins
  <2> QED
    BY <2>1, <2>2, <2>3 DEF TablesInv, Later
<1>3. CASE Feed
  BY <1>3, FeedTables
<1>4. CASE NextRound
  BY <1>4, NextRoundTables
<1>5. CASE NeedFile
  BY <1>5 DEF NeedFile, estimation, measure, TablesInv, Later
<1>6. CASE LastRound
  <2>1. /\ pc' = "finalize" /\ fed = Len(trace) /\ fed' = fed /\ mod' = mod /\ trace' = trace
        /\ class' = class /\ phase' = phase
        /\ (pc = "round1" /\ class # "basicmta") \/ pc = "round2"
    BY <1>6 DEF LastRound, estimation, measure
  <2>2. phase = "done" /\ class \in Class
    BY <2>1 DEF TablesInv
  <2>3. class = "basiconoff" => OnOffInv(mod.onoff, trace, fed) /\ mod.C = 0
    BY <2>1 DEF TablesInv
  <2>4. class = "basicmta" => MtaInv(mod, trace, fed)
    BY <2>1 DEF TablesInv
  <2> QED
    BY <2>1, <2>2, <2>3, <2>4 DEF TablesInv, Later
<1>7. CASE Finalize
  BY <1>7, FinalizeTables
<1>8. CASE UNCHANGED vars \/ PrintBinary \/ PrintFails \/ Load \/ Push \/ PushDraws
           \/ SearchMoves \/ SearchEnds \/ Emit \/ ChainOnly
  <2>1. /\ UNCHANGED <<class, heap, phase, trace, fed, mod, tables>>
        /\ pc' = pc \/ (pc \in Later /\ pc' \in Later)
    <3>1. CASE UNCHANGED vars
      BY <3>1 DEF vars, estimation, measure
    <3>2. CASE PrintBinary \/ PrintFails \/ Load
      BY <3>2 DEF PrintBinary, PrintFails, Load, estimation, measure, Later
    <3>3. CASE Push \/ PushDraws
      BY <3>3 DEF Push, PushDraws, estimation, measure, Later
    <3>4. CASE SearchMoves \/ SearchEnds \/ Emit \/ ChainOnly
      BY <3>4 DEF SearchMoves, SearchEnds, Emit, ChainOnly, estimation, measure, Later
    <3> QED
      BY <1>8, <3>1, <3>2, <3>3, <3>4
  <2>2. (pc' = "start" => pc = "start") /\ (pc' # "start" => pc # "start")
    BY <2>1 DEF Later
  <2> QED
    BY <2>1, <2>2 DEF TablesInv, Later, HasBursts
<1> QED
  BY <1>1, <1>2, <1>3, <1>4, <1>5, <1>6, <1>7, <1>8 DEF Next

\* Whatever is read, the tables of the estimators are those of its bursts.
THEOREM TablesAreRight == Spec => []TablesInv
<1> QED
  BY TablesInitially, TablesPreserved, MeasureInitially, ReplayPreserves, PTL DEF Spec

\* At the end, the tables of bursts are those of the trace.
THEOREM TablesCountTheTrace == Spec => []CountsTrace
<1>1. TablesInv => CountsTrace
  <2> SUFFICES ASSUME TablesInv, pc = "print", HasBursts, trace # <<>>
               PROVE  /\ mod.onoff.success_length = LengthsOf(FreeBursts)
                      /\ mod.onoff.error_length = LengthsOf(ErrorBursts)
    BY DEF CountsTrace, Estimated
  <2>1. trace \in Trace /\ Settled(mod.onoff, trace, mod.C, Len(trace))
    BY DEF TablesInv, Later
  <2>2. FreeBursts = Stretches(Long(trace, mod.C)) /\ ErrorBursts = Stretches((1..Len(trace)) \ Long(trace, mod.C))
    BY <2>1, BurstsAreStretches
  <2>3. Long(trace, mod.C) \cap (1..Len(trace)) = Long(trace, mod.C)
    BY <2>1, LongFacts, TraceDomain
  <2> QED
    BY <2>1, <2>2, <2>3 DEF Settled
<1> QED
  BY <1>1, TablesAreRight, PTL

-----------------------------------------------------------------------------
(* What is drawn.                                                          *)

\* The first point that reaches a number is the least length that does.
LEMMA FirstIsLeast ==
  ASSUME NEW k \in Nat, NEW S \in SUBSET (1..k), NEW r \in Nat, NEW i,
         i \in 0..(Len(calculate_values(LengthsOf(Stretches(S)), Cardinality(Stretches(S)))) - 1),
         LET dist == calculate_values(LengthsOf(Stretches(S)), Cardinality(Stretches(S))) IN
         /\ r <= probability(dist, i)
         /\ \A j \in 0..(i - 1) : r > probability(dist, j)
  PROVE  LET rs == Stretches(S)
             dist == calculate_values(LengthsOf(rs), Cardinality(rs))
         IN point(dist, i) =
              Min({l \in {Length(q) : q \in rs} :
                     r * Cardinality(rs) <= MaxRand * Cardinality({q \in rs : Length(q) <= l})})
<1> DEFINE rs == Stretches(S)
           D == DOMAIN LengthsOf(rs)
           n == Cardinality(rs)
           dist == calculate_values(LengthsOf(rs), n)
           N == Cardinality(D)
           x(j) == Nth(D, j + 1)
           c(l) == Cardinality(Shorter(rs, l))
           p(j) == probability(dist, j)
           reached == {l \in {Length(q) : q \in rs} :
                         r * n <= MaxRand * Cardinality({q \in rs : Length(q) <= l})}
<1>0. /\ i \in 0..(Len(dist) - 1) /\ r <= p(i) /\ \A j \in 0..(i - 1) : r > p(j)
  OBVIOUS
<1>1. /\ N \in Nat /\ Len(dist) = N /\ dist \in Distribution
      /\ D \in SUBSET Nat /\ IsFiniteSet(D) /\ D = {Length(q) : q \in rs}
      /\ \A j \in 0..(N - 1) : point(dist, j) = x(j)
  BY DistributionFacts
<1>2. rs # {}
  <2> SUFFICES ASSUME rs = {} PROVE FALSE
    OBVIOUS
  <2>1. D = {}
    BY <1>1
  <2>2. N = 0
    BY <2>1, FS_EmptySet
  <2> HIDE DEF dist, N
  <2> QED
    BY <1>0, <1>1, <2>2
<1>3. \A j \in 0..(Len(dist) - 1) : \A s \in Nat : s <= p(j) <=> s * n <= MaxRand * c(x(j))
  BY <1>2, ReachedPoints
<1>4. reached = {l \in D : r * n <= MaxRand * c(l)}
  BY <1>1, Zenon DEF Shorter
<1> HIDE DEF rs, dist, n, reached
<1>5. \A j \in 0..(N - 1) : x(j) \in D /\ Cardinality(Upto(D, x(j))) = j + 1
  <2>1. \A j \in 1..N : Nth(D, j) \in D /\ Cardinality(Upto(D, Nth(D, j))) = j
    <3> HIDE DEF D
    <3> QED
      BY <1>1, NthFacts
  <2>2. \A j \in 0..(N - 1) : j + 1 \in 1..N
    BY <1>1
  <2> HIDE DEF N
  <2> QED
    BY <2>1, <2>2
<1>6. \A l \in D : \E j \in 0..(N - 1) : l = x(j)
  <2> SUFFICES ASSUME NEW l \in D PROVE \E j \in 0..(N - 1) : l = x(j)
    OBVIOUS
  <2> DEFINE h == Cardinality(Upto(D, l))
  <2>1. h \in 1..N /\ Nth(D, h) = l
    <3> HIDE DEF D
    <3> QED
      BY <1>1, NthFacts, RanksGrow
  <2> HIDE DEF h, N
  <2>2. h - 1 \in 0..(N - 1) /\ (h - 1) + 1 = h
    BY <1>1, <2>1
  <2> QED
    BY <2>1, <2>2
<1>7. i \in 0..(N - 1) /\ i \in Nat
  BY <1>0, <1>1
<1>8. x(i) \in reached
  BY <1>0, <1>1, <1>3, <1>4, <1>5, <1>7
<1>9. ASSUME NEW l \in reached
      PROVE  x(i) <= l
  <2>1. l \in D /\ r * n <= MaxRand * c(l)
    BY <1>4
  <2>2. PICK j \in 0..(N - 1) : l = x(j)
    BY <1>6, <2>1
  <2>3. r <= p(j) /\ p(j) \in Nat
    <3>1. j \in 0..(Len(dist) - 1) /\ j \in Nat /\ j < Len(dist)
      BY <1>1
    <3>2. p(j) \in Nat
      BY <1>1, <3>1, Probabilities
    <3> QED
      BY <1>3, <2>1, <2>2, <3>1, <3>2
  <2>4. ~(j < i)
    <3> SUFFICES ASSUME j < i PROVE FALSE
      OBVIOUS
    <3>1. j \in 0..(i - 1)
      BY <1>7
    <3> HIDE DEF p
    <3> QED
      BY <1>0, <2>3, <3>1
  <2>5. ~(x(j) < x(i))
    <3> SUFFICES ASSUME x(j) < x(i) PROVE FALSE
      OBVIOUS
    <3>1. x(i) \in D /\ x(j) \in D
      BY <1>5, <1>7
    <3> HIDE DEF x, D
    <3>2. Cardinality(Upto(D, x(j))) < Cardinality(Upto(D, x(i)))
      BY <1>1, <3>1, RanksGrow
    <3>3. j + 1 < i + 1
      BY <1>5, <1>7, <3>2
    <3> QED
      BY <1>7, <2>4, <3>3
  <2>6. x(i) \in Nat /\ x(j) \in Nat
    BY <1>1, <1>5, <1>7
  <2> HIDE DEF x
  <2> QED
    BY <2>2, <2>5, <2>6
<1>10. \A l \in reached : l \in Nat
  BY <1>1, <1>4
<1> HIDE DEF x
<1>11. \A m \in reached : (\A l \in reached : m <= l) => m = x(i)
  BY <1>8, <1>9, <1>10
<1>12. Min(reached) = x(i)
  BY <1>8, <1>9, <1>11 DEF Min
<1>13. point(dist, i) = x(i)
  BY <1>1, <1>7
<1> QED
  BY <1>12, <1>13 DEF reached, dist, n, rs

-----------------------------------------------------------------------------
(* The channel, in every state of the replay.                              *)

\* The distribution of the kind of burst that is drawn.
Drawn == IF burst.current_state THEN burst.free ELSE burst.error

\* The search has begun, in a distribution of two points or more, or of one.
SearchOk(dist) ==
  /\ search = [dist |-> dist, rand |-> search.rand, min |-> search.min, max |-> search.max,
               pos |-> search.pos]
  /\ dist \in Distribution
  /\ Len(dist) >= 2 => Draws(dist, search.rand) /\ Searching(search, dist, search.rand)
  /\ Len(dist) = 1 => search.min = 0 /\ search.max = 0 /\ search.pos = 0
                      /\ search.rand <= probability(dist, 0)

\* The channel has the tables of the files that could be loaded, and a search
\* is in the table of the burst that is drawn.
ChannelInv ==
  /\ InChannel =>
       /\ host \in {"click", "tests"} /\ Started(host)
       /\ burst = [error |-> Loaded("error"),
                   free |-> IF Loads("error") THEN Loaded("free") ELSE <<>>,
                   current_state |-> burst.current_state, remaining |-> burst.remaining]
       /\ burst.current_state \in BOOLEAN
  /\ pc \in {"search", "wild"} => HasBursts
  /\ pc = "wild" => Drawn = <<>>
  /\ pc = "search" => Drawn # <<>> /\ search.rand \in Rand /\ (trace # <<>> => SearchOk(Drawn))

\* What can be drawn is the table of the bursts of that kind.
LEMMA DrawnTable ==
  ASSUME TablesInv, InChannel, HasBursts, trace # <<>>,
         burst.error = Loaded("error"),
         burst.free = IF Loads("error") THEN Loaded("free") ELSE <<>>,
         NEW kind \in BOOLEAN, NEW dist, dist = IF kind THEN burst.free ELSE burst.error
  PROVE  \E S \in SUBSET (1..Len(trace)) :
           /\ BurstsOf(kind) = Stretches(S)
           /\ OnOffInitialized \/ dist # <<>> =>
                dist = calculate_values(LengthsOf(Stretches(S)), Cardinality(Stretches(S)))
<1>1. pc \in Later
  BY DEF InChannel, Later
<1>2. /\ trace \in Trace /\ Settled(mod.onoff, trace, mod.C, Len(trace))
      /\ tables.free = calculate_values(mod.onoff.success_length, mod.onoff.success_total)
      /\ tables.error = calculate_values(mod.onoff.error_length, mod.onoff.error_total)
  <2>1. /\ trace \in Trace /\ Settled(mod.onoff, trace, mod.C, Len(trace))
        /\ tables = [free |-> calculate_values(mod.onoff.success_length, mod.onoff.success_total),
                     error |-> calculate_values(mod.onoff.error_length, mod.onoff.error_total),
                     chain |-> markov_finalize(mod.markov)]
    BY <1>1 DEF TablesInv
  <2> QED
    BY <2>1
<1> DEFINE L == Long(trace, mod.C)
<1>3. /\ FreeBursts = Stretches(L) /\ ErrorBursts = Stretches((1..Len(trace)) \ L)
      /\ L \cap (1..Len(trace)) = L
  <2>1. FreeBursts = Stretches(L) /\ ErrorBursts = Stretches((1..Len(trace)) \ L)
    BY <1>2, BurstsAreStretches
  <2>2. L \cap (1..Len(trace)) = L
    BY <1>2, LongFacts, TraceDomain
  <2> QED
    BY <2>1, <2>2
<1>4. /\ tables.free = calculate_values(LengthsOf(Stretches(L)), Cardinality(Stretches(L)))
      /\ tables.error = calculate_values(LengthsOf(Stretches((1..Len(trace)) \ L)),
                                         Cardinality(Stretches((1..Len(trace)) \ L)))
  BY <1>2, <1>3 DEF Settled
<1>5. L \in SUBSET (1..Len(trace)) /\ (1..Len(trace)) \ L \in SUBSET (1..Len(trace))
  BY <1>3
<1> HIDE DEF L
<1>6. OnOffInitialized \/ dist # <<>> =>
        dist = IF kind THEN tables.free ELSE tables.error
  BY DEF Loaded, OnOffInitialized
<1>7. CASE kind
  BY <1>3, <1>4, <1>5, <1>6, <1>7 DEF BurstsOf
<1>8. CASE ~kind
  BY <1>3, <1>4, <1>5, <1>6, <1>8 DEF BurstsOf
<1> QED
  BY <1>7, <1>8

\* An empty table is that of no burst, another one can be drawn from.
LEMMA DrawnDraws ==
  ASSUME NEW k \in Nat, NEW S \in SUBSET (1..k), NEW r \in Rand, NEW dist,
         dist = calculate_values(LengthsOf(Stretches(S)), Cardinality(Stretches(S)))
  PROVE  /\ dist = <<>> <=> Stretches(S) = {}
         /\ dist \in Distribution
         /\ dist # <<>> => Len(dist) >= 1 /\ r <= probability(dist, Len(dist) - 1)
         /\ Len(dist) >= 2 => Draws(dist, r)
<1> DEFINE rs == Stretches(S)
           D == DOMAIN LengthsOf(rs)
           N == Cardinality(D)
<1>1. /\ dist \in Distribution /\ Len(dist) = N /\ D = {Length(q) : q \in rs}
      /\ rs # {} => dist # <<>>
  BY DistributionFacts
<1>2. rs = {} => dist = <<>>
  <2> SUFFICES ASSUME rs = {} PROVE dist = <<>>
    OBVIOUS
  <2>1. D = {}
    BY <1>1
  <2>2. Len(dist) = 0
    BY <1>1, <2>1, FS_EmptySet
  <2> QED
    BY <1>1, <2>2 DEF Distribution
<1>3. ASSUME rs # {}
      PROVE  /\ Len(dist) >= 1 /\ r <= probability(dist, Len(dist) - 1)
             /\ Len(dist) >= 2 => Draws(dist, r)
  <2>1. /\ \A i, j \in 0..(Len(dist) - 1) :
             i <= j => probability(dist, i) <= probability(dist, j)
        /\ Len(dist) > 0
        /\ probability(dist, Len(dist) - 1) = MaxRand
    BY <1>3, DistributionSorted
  <2>2. r \in Nat /\ r <= MaxRand /\ Len(dist) \in Nat
    BY <1>1, EstimatorsAssumption DEF Rand, Distribution
  <2> HIDE DEF rs, D, N
  <2> QED
    BY <1>1, <2>1, <2>2 DEF Draws
<1>4. dist # <<>> => rs # {}
  BY <1>2
<1>5. Len(dist) >= 2 => dist # <<>>
  <2>1. Len(<<>>) = 0
    OBVIOUS
  <2> QED
    BY <2>1
<1> QED
  BY <1>1, <1>2, <1>3, <1>4, <1>5

\* The estimation is over when the files are read.
LEMMA ChannelInitially ==
  Init => ChannelInv
  BY DEF Init, ChannelInv, InChannel

\* A packet comes at the end of a burst.
LEMMA PushDrawsChannel ==
  ASSUME TablesInv, ChannelInv, PushDraws
  PROVE  ChannelInv'
<1> DEFINE dist == IF burst'.current_state THEN burst.free ELSE burst.error
<1>1. /\ pc = "idle" /\ HasBursts
      /\ burst' = [burst EXCEPT !.current_state = ~@]
      /\ UNCHANGED <<class, trace, mod, tables, files, host>>
  BY DEF PushDraws, estimation, measure
<1>2. PICK rand \in Rand :
        LET d == IF burst'.current_state THEN burst'.free ELSE burst'.error IN
        /\ pc' = IF d = <<>> THEN "wild" ELSE "search"
        /\ search' = IF d = <<>> THEN search ELSE Search(d, rand)
  BY <1>1 DEF PushDraws
<1>3. /\ host \in {"click", "tests"} /\ Started(host)
      /\ burst = [error |-> Loaded("error"),
                  free |-> IF Loads("error") THEN Loaded("free") ELSE <<>>,
                  current_state |-> burst.current_state, remaining |-> burst.remaining]
      /\ burst.current_state \in BOOLEAN /\ InChannel
  BY <1>1 DEF ChannelInv, InChannel
<1>4. /\ burst'.error = burst.error /\ burst'.free = burst.free
      /\ burst'.current_state \in BOOLEAN
      /\ burst' = [error |-> burst.error, free |-> burst.free,
                   current_state |-> burst'.current_state, remaining |-> burst'.remaining]
      /\ burst.error = Loaded("error")
      /\ burst.free = IF Loads("error") THEN Loaded("free") ELSE <<>>
  BY <1>1, <1>3
<1>5. /\ host' \in {"click", "tests"} /\ Started(host)'
      /\ burst' = [error |-> Loaded("error"),
                   free |-> IF Loads("error") THEN Loaded("free") ELSE <<>>,
                   current_state |-> burst.current_state, remaining |-> burst.remaining]'
  <2>1. Loaded("error")' = Loaded("error") /\ Loaded("free")' = Loaded("free")
        /\ Loads("error")' = Loads("error")
    BY <1>1 DEF Loaded, Loads
  <2>2. Started(host)'
    BY <1>1, <1>3 DEF Started, HasChain, HasBursts, ChainInitialized, OnOffInitialized, Loads
  <2> QED
    BY <1>1, <1>3, <1>4, <2>1, <2>2
<1>6. Drawn' = dist /\ HasBursts'
  BY <1>1, <1>4 DEF Drawn, HasBursts
<1>7. /\ pc' = IF dist = <<>> THEN "wild" ELSE "search"
      /\ search' = IF dist = <<>> THEN search ELSE Search(dist, rand)
  BY <1>2, <1>4
<1>8. ASSUME dist # <<>>
      PROVE  search'.rand \in Rand /\ (trace # <<>> => SearchOk(Drawn)')
  <2>1. search' = [dist |-> dist, rand |-> rand, min |-> 0, max |-> Len(dist) - 1,
                   pos |-> Len(dist) \div 2]
    BY <1>7, <1>8 DEF Search
  <2>2. search'.dist = dist /\ search'.rand = rand
    BY <2>1
  <2> SUFFICES ASSUME trace # <<>> PROVE SearchOk(Drawn)'
    BY <2>2
  <2>3. PICK S \in SUBSET (1..Len(trace)) :
          dist = calculate_values(LengthsOf(Stretches(S)), Cardinality(Stretches(S)))
    <3> HIDE DEF dist
    <3>1. dist = IF burst'.current_state THEN burst.free ELSE burst.error
      BY DEF dist
    <3> QED
      BY <1>1, <1>3, <1>4, <1>8, <3>1, DrawnTable
  <2> HIDE DEF dist
  <2>4. Len(trace) \in Nat
    BY TraceDomain DEF TablesInv
  <2>5. /\ dist \in Distribution
        /\ Len(dist) >= 1 /\ rand <= probability(dist, Len(dist) - 1)
        /\ Len(dist) >= 2 => Draws(dist, rand)
    BY <1>8, <2>3, <2>4, DrawnDraws
  <2>6. Len(dist) >= 2 => Searching(search', dist, rand)
    <3>1. search' = Search(dist, rand)
      BY <1>7, <1>8
    <3> QED
      BY <2>5, <3>1, SearchBegins
  <2>7. Len(dist) = 1 => /\ search'.min = 0 /\ search'.max = 0 /\ search'.pos = 0
                         /\ rand <= probability(dist, 0)
    BY <2>1, <2>5
  <2>8. search' = [dist |-> dist, rand |-> search'.rand, min |-> search'.min,
                   max |-> search'.max, pos |-> search'.pos]
    BY <2>1
  <2> QED
    BY <1>6, <2>2, <2>5, <2>6, <2>7, <2>8, Zenon DEF SearchOk
<1>9. pc' \in {"search", "wild"} /\ (pc' = "wild" => dist = <<>>) /\ (pc' = "search" => dist # <<>>)
  BY <1>7
<1>10. trace' = trace
  BY <1>1
<1> HIDE DEF dist
<1> QED
  BY <1>4, <1>5, <1>6, <1>8, <1>9, <1>10 DEF ChannelInv

\* The fields of a search.
SearchRecord(s) ==
  s = [dist |-> s.dist, rand |-> s.rand, min |-> s.min, max |-> s.max, pos |-> s.pos]

\* A step leaves the distribution and the number alone.
LEMMA SearchStepFields ==
  ASSUME NEW s, SearchRecord(s)
  PROVE  LET q == SearchStep(s) IN SearchRecord(q) /\ q.dist = s.dist /\ q.rand = s.rand
  BY DEF SearchRecord, SearchStep

\* A step of the search.
LEMMA SearchMovesChannel ==
  ASSUME TablesInv, ChannelInv, SearchMoves
  PROVE  ChannelInv'
<1>1. /\ pc = "search" /\ ~SearchOver(search) /\ search' = SearchStep(search)
      /\ UNCHANGED <<class, pc, trace, mod, tables, files, host, burst>>
  BY DEF SearchMoves, estimation, measure
<1>2. /\ HasBursts /\ Drawn # <<>> /\ search.rand \in Rand
      /\ trace # <<>> => SearchOk(Drawn)
  BY <1>1 DEF ChannelInv
<1>3. search'.rand = search.rand
  BY <1>1 DEF SearchStep
<1>4. Drawn' = Drawn /\ HasBursts'
  BY <1>1, <1>2 DEF Drawn, HasBursts
<1>5. ASSUME SearchOk(Drawn)
      PROVE  SearchOk(Drawn)'
  <2> DEFINE dist == Drawn
  <2>1. /\ search = [dist |-> dist, rand |-> search.rand, min |-> search.min,
                     max |-> search.max, pos |-> search.pos]
        /\ dist \in Distribution
        /\ Len(dist) >= 2 => Draws(dist, search.rand) /\ Searching(search, dist, search.rand)
        /\ Len(dist) = 1 => search.min = 0 /\ search.max = 0 /\ search.pos = 0
                            /\ search.rand <= probability(dist, 0)
    BY <1>5 DEF SearchOk
  <2>2. search' = [dist |-> dist, rand |-> search.rand, min |-> search'.min,
                   max |-> search'.max, pos |-> search'.pos]
    <3>1. /\ SearchRecord(SearchStep(search)) /\ SearchStep(search).dist = search.dist
          /\ SearchStep(search).rand = search.rand
      BY <2>1, SearchStepFields DEF SearchRecord
    <3>2. search.dist = dist
      BY <2>1
    <3> QED
      BY <1>1, <3>1, <3>2 DEF SearchRecord
  <2> HIDE DEF dist
  <2>3. Len(dist) >= 2 => Searching(search', dist, search.rand)
    BY <1>1, <2>1, SearchNarrows
  <2>4. ASSUME Len(dist) = 1
        PROVE  /\ search'.min = 0 /\ search'.max = 0 /\ search'.pos = 0
    <3>1. probability(dist, 0) \in Nat
      <4>1. 0 \in Nat /\ 0 < Len(dist)
        BY <2>4
      <4> QED
        BY <2>1, <4>1, Probabilities
    <3>2. search.rand \in Int
      BY <1>2, EstimatorsAssumption DEF Rand
    <3>3. search.dist = dist /\ search.pos = 0 /\ search.min = 0
      BY <2>1, <2>4
    <3>4. ~(search.rand > probability(search.dist, search.pos))
      BY <2>1, <2>4, <3>1, <3>2, <3>3
    <3>5. Between(0, 0) = 0
      BY DEF Between
    <3>6. search' = [dist |-> dist, rand |-> search.rand, min |-> 0, max |-> 0, pos |-> 0]
      BY <1>1, <2>1, <3>3, <3>4, <3>5 DEF SearchStep
    <3> QED
      BY <3>6
  <2> QED
    BY <1>3, <1>4, <2>1, <2>2, <2>3, <2>4 DEF SearchOk, dist
<1>6. UNCHANGED <<Loaded("error"), Loaded("free"), Loads("error")>> /\ Started(host)' = Started(host)
  BY <1>1 DEF Loaded, Loads, Started, HasChain, HasBursts, ChainInitialized, OnOffInitialized
<1>7. InChannel /\ InChannel'
  BY <1>1 DEF InChannel
<1> QED
  BY <1>1, <1>2, <1>3, <1>4, <1>5, <1>6, <1>7, Zenon DEF ChannelInv

\* The files are read.
LEMMA LoadChannel ==
  ASSUME Load
  PROVE  ChannelInv'
<1>1. PICK h \in {"click", "tests"}, first \in BOOLEAN :
        /\ host' = h
        /\ pc' = IF Started(h) THEN "idle" ELSE "refused"
        /\ burst' = [error |-> Loaded("error"),
                     free |-> IF Loads("error") THEN Loaded("free") ELSE <<>>,
                     current_state |-> first, remaining |-> 0]
  BY DEF Load
<1>2. UNCHANGED <<class, files, tables>>
  BY DEF Load, estimation
<1>3. UNCHANGED <<Loaded("error"), Loaded("free"), Loads("error")>> /\ Started(h)' = Started(h)
  BY <1>2 DEF Loaded, Loads, Started, HasChain, HasBursts, ChainInitialized, OnOffInitialized
<1>4. burst'.current_state = first /\ burst'.remaining = 0
  BY <1>1
<1>5. pc' = "idle" \/ pc' = "refused"
  BY <1>1
<1>6. CASE pc' = "refused"
  BY <1>6 DEF ChannelInv, InChannel
<1>7. CASE pc' = "idle"
  <2>1. Started(h)
    BY <1>1, <1>7
  <2>2. Started(host)'
    BY <1>1, <1>3, <2>1
  <2> QED
    BY <1>1, <1>3, <1>4, <1>7, <2>2 DEF ChannelInv, InChannel
<1> QED
  BY <1>5, <1>6, <1>7

\* Each step of the replay keeps the channel right.
LEMMA ChannelPreserved ==
  TablesInv /\ ChannelInv /\ [Next]_vars => ChannelInv'
<1> SUFFICES ASSUME TablesInv, ChannelInv, [Next]_vars PROVE ChannelInv'
  OBVIOUS
<1>1. CASE MeasureNext /\ UNCHANGED <<class, heap, pc, fed, mod, tables, files, channel>>
  <2>1. pc = "start"
    BY <1>1, MeasureIsOver DEF TablesInv
  <2> QED
    BY <1>1, <2>1 DEF ChannelInv, InChannel
<1>2. CASE ParseInput \/ Feed \/ NextRound \/ NeedFile \/ LastRound \/ Finalize
           \/ PrintBinary \/ PrintFails
  <2>1. ~InChannel' /\ pc' \notin {"search", "wild"}
    BY <1>2 DEF ParseInput, Feed, NextRound, NeedFile, LastRound, Finalize, PrintBinary,
                PrintFails, InChannel
  <2> QED
    BY <2>1 DEF ChannelInv
<1>3. CASE Load
  BY <1>3, LoadChannel
<1>4. CASE PushDraws
  BY <1>4, PushDrawsChannel
<1>5. CASE SearchMoves
  BY <1>5, SearchMovesChannel
<1>6. CASE UNCHANGED vars \/ Push \/ SearchEnds \/ Emit \/ ChainOnly
  <2>1. UNCHANGED <<class, trace, mod, tables, files, host, search>>
    BY <1>6 DEF vars, Push, SearchEnds, Emit, ChainOnly, estimation, channel, measure
  <2>2. \/ UNCHANGED <<pc, burst>>
        \/ pc \in {"idle", "search", "emit"} /\ pc' \in {"idle", "emit"}
           /\ (burst' = burst \/ \E r : burst' = [burst EXCEPT !.remaining = r])
    <3>1. CASE UNCHANGED vars
      BY <3>1 DEF vars, channel
    <3>2. CASE Push \/ ChainOnly
      BY <3>2 DEF Push, ChainOnly, channel
    <3>3. CASE SearchEnds \/ Emit
      BY <3>3 DEF SearchEnds, Emit
    <3> QED
      BY <1>6, <3>1, <3>2, <3>3
  <2>3. UNCHANGED <<Loaded("error"), Loaded("free"), Loads("error")>>
        /\ Started(host)' = Started(host) /\ HasBursts' = HasBursts
    BY <2>1 DEF Loaded, Loads, Started, HasChain, HasBursts, ChainInitialized, OnOffInitialized
  <2>4. CASE UNCHANGED <<pc, burst>>
    <3>1. Drawn' = Drawn /\ InChannel' = InChannel
      BY <2>4 DEF Drawn, InChannel
    <3>2. SearchOk(Drawn)' = SearchOk(Drawn)
      BY <2>1, <3>1 DEF SearchOk
    <3> QED
      BY <2>1, <2>3, <2>4, <3>1, <3>2 DEF ChannelInv
  <2>5. CASE /\ pc \in {"idle", "search", "emit"} /\ pc' \in {"idle", "emit"}
             /\ burst' = burst \/ \E r : burst' = [burst EXCEPT !.remaining = r]
    <3>1. /\ host \in {"click", "tests"} /\ Started(host)
          /\ burst = [error |-> Loaded("error"),
                      free |-> IF Loads("error") THEN Loaded("free") ELSE <<>>,
                      current_state |-> burst.current_state, remaining |-> burst.remaining]
          /\ burst.current_state \in BOOLEAN
      BY <2>5 DEF ChannelInv, InChannel
    <3>2. /\ burst' = [error |-> Loaded("error"),
                       free |-> IF Loads("error") THEN Loaded("free") ELSE <<>>,
                       current_state |-> burst.current_state, remaining |-> burst'.remaining]
          /\ burst'.current_state = burst.current_state
      BY <2>5, <3>1
    <3> QED
      BY <2>1, <2>3, <2>5, <3>1, <3>2 DEF ChannelInv
  <2> QED
    BY <2>2, <2>4, <2>5
<1> QED
  BY <1>1, <1>2, <1>3, <1>4, <1>5, <1>6 DEF Next

\* The channel has the tables that were loaded, and a search is in the one of
\* the burst that is drawn.
THEOREM ChannelIsRight == Spec => [](TablesInv /\ ChannelInv)
<1>1. Init => TablesInv /\ ChannelInv /\ MInv
  BY TablesInitially, ChannelInitially, MeasureInitially
<1>2. TablesInv /\ ChannelInv /\ MInv /\ [Next]_vars => (TablesInv /\ ChannelInv /\ MInv)'
  BY TablesPreserved, ChannelPreserved, ReplayPreserves
<1> QED
  BY <1>1, <1>2, PTL DEF Spec

\* A channel that has nothing to draw from has a reason.
THEOREM NothingToDrawHasCause == Spec => []WildHasCause
<1>1. TablesInv /\ ChannelInv => WildHasCause
  <2> SUFFICES ASSUME TablesInv, ChannelInv, pc = "wild", ~(host = "click" /\ ~OnOffInitialized)
               PROVE  BurstsOf(burst.current_state) = {}
    BY DEF WildHasCause
  <2>1. /\ host \in {"click", "tests"} /\ Started(host) /\ HasBursts /\ Drawn = <<>> /\ InChannel
        /\ burst = [error |-> Loaded("error"),
                    free |-> IF Loads("error") THEN Loaded("free") ELSE <<>>,
                    current_state |-> burst.current_state, remaining |-> burst.remaining]
        /\ burst.current_state \in BOOLEAN
    BY DEF ChannelInv, InChannel
  <2>2. OnOffInitialized
    BY <2>1 DEF Started
  <2>3. CASE trace = <<>>
    <3>1. Positions = {}
      BY <2>3 DEF Positions
    <3>2. \A P \in SUBSET {} : Stretches(P) = {}
      BY NoStretches
    <3>3. FreeBursts = {} /\ ErrorBursts = {}
      BY <3>1, <3>2 DEF FreeBursts, ErrorBursts
    <3> QED
      BY <3>3 DEF BurstsOf
  <2>4. CASE trace # <<>>
    <3>1. burst.error = Loaded("error")
          /\ burst.free = IF Loads("error") THEN Loaded("free") ELSE <<>>
      BY <2>1
    <3>2. PICK S \in SUBSET (1..Len(trace)) :
            /\ BurstsOf(burst.current_state) = Stretches(S)
            /\ Drawn = calculate_values(LengthsOf(Stretches(S)), Cardinality(Stretches(S)))
      BY <2>1, <2>2, <2>4, <3>1, DrawnTable DEF Drawn
    <3>3. Len(trace) \in Nat /\ 0 \in Rand
      BY TraceDomain, EstimatorsAssumption DEF TablesInv, Rand
    <3> QED
      BY <2>1, <3>2, <3>3, DrawnDraws
  <2> QED
    BY <2>3, <2>4
<1> QED
  BY <1>1, ChannelIsRight, PTL

\* The search ends on a point of the table of the trace, the first one whose
\* probability reaches the number.
LEMMA SearchResult ==
  ASSUME TablesInv, ChannelInv, pc = "search", SearchOver(search), trace # <<>>
  PROVE  /\ search.rand \in Nat /\ Len(trace) \in Nat
         /\ \E S \in SUBSET (1..Len(trace)) : \E i \in 0..(Len(Drawn) - 1) :
              /\ BurstsOf(burst.current_state) = Stretches(S)
              /\ Drawn = calculate_values(LengthsOf(Stretches(S)), Cardinality(Stretches(S)))
              /\ Found(search) = point(Drawn, i)
              /\ search.rand <= probability(Drawn, i)
              /\ \A j \in 0..(i - 1) : search.rand > probability(Drawn, j)
<1>1. /\ HasBursts /\ InChannel /\ Drawn # <<>> /\ search.rand \in Rand /\ SearchOk(Drawn)
      /\ burst.error = Loaded("error")
      /\ burst.free = IF Loads("error") THEN Loaded("free") ELSE <<>>
      /\ burst.current_state \in BOOLEAN
  BY DEF ChannelInv, InChannel
<1>2. PICK S \in SUBSET (1..Len(trace)) :
        /\ BurstsOf(burst.current_state) = Stretches(S)
        /\ Drawn = calculate_values(LengthsOf(Stretches(S)), Cardinality(Stretches(S)))
  BY <1>1, DrawnTable DEF Drawn
<1>3. Len(trace) \in Nat /\ search.rand \in Nat
  BY <1>1, TraceDomain, EstimatorsAssumption DEF TablesInv, Rand
<1> DEFINE dist == Drawn
           r == search.rand
<1>4. dist \in Distribution /\ Len(dist) >= 1
  BY <1>1, <1>2, <1>3, DrawnDraws
<1>5. Len(dist) # 1
  <2>1. Len(dist) = 1 => search.min = 0 /\ search.max = 0
    BY <1>1 DEF SearchOk
  <2> QED
    BY <2>1 DEF SearchOver
<1>6. Draws(dist, r) /\ Searching(search, dist, r)
  <2>1. Len(dist) >= 2
    <3> HIDE DEF dist
    <3>1. Len(dist) \in Nat
      BY <1>4 DEF Distribution
    <3> QED
      BY <1>4, <1>5, <3>1
  <2> QED
    BY <1>1, <2>1 DEF SearchOk
<1> HIDE DEF dist, r
<1>7. PICK i \in 0..(Len(dist) - 1) :
        /\ Found(search) = point(dist, i)
        /\ r <= probability(dist, i)
        /\ \A j \in 0..(i - 1) : r > probability(dist, j)
  BY <1>6, FoundIsLeast
<1> QED
  BY <1>2, <1>3, <1>7 DEF dist, r

\* What is drawn is the length that the trace assigns to the number.
THEOREM DrawsAreInverse == Spec => []DrawInverse
<1>1. TablesInv /\ ChannelInv => DrawInverse
  <2> SUFFICES ASSUME TablesInv, ChannelInv, pc = "search", SearchOver(search), trace # <<>>
               PROVE  LET bursts == BurstsOf(burst.current_state)
                          reached == {l \in {Length(r) : r \in bursts} :
                                        search.rand * Cardinality(bursts) <=
                                          MaxRand * Cardinality({r \in bursts : Length(r) <= l})}
                      IN Found(search) = Min(reached)
    BY DEF DrawInverse
  <2>1. PICK S \in SUBSET (1..Len(trace)), i \in 0..(Len(Drawn) - 1) :
          /\ BurstsOf(burst.current_state) = Stretches(S)
          /\ Drawn = calculate_values(LengthsOf(Stretches(S)), Cardinality(Stretches(S)))
          /\ Found(search) = point(Drawn, i)
          /\ search.rand <= probability(Drawn, i)
          /\ \A j \in 0..(i - 1) : search.rand > probability(Drawn, j)
    BY SearchResult
  <2>2. Len(trace) \in Nat /\ search.rand \in Nat
    BY SearchResult
  <2> DEFINE dist == Drawn
             r == search.rand
  <2>3. /\ dist = calculate_values(LengthsOf(Stretches(S)), Cardinality(Stretches(S)))
        /\ r \in Nat /\ i \in 0..(Len(dist) - 1)
        /\ r <= probability(dist, i) /\ \A j \in 0..(i - 1) : r > probability(dist, j)
        /\ Found(search) = point(dist, i)
    BY <2>1, <2>2
  <2> HIDE DEF dist, r
  <2>4. point(dist, i) =
          Min({l \in {Length(q) : q \in Stretches(S)} :
                 r * Cardinality(Stretches(S))
                   <= MaxRand * Cardinality({q \in Stretches(S) : Length(q) <= l})})
    BY <2>2, <2>3, FirstIsLeast
  <2> QED
    BY <2>1, <2>3, <2>4 DEF r
<1> QED
  BY <1>1, ChannelIsRight, PTL

-----------------------------------------------------------------------------
(* The chain, in every state of the replay.                                *)

\* The counters of the chain are those of what it was fed with.
ChainInv ==
  /\ heap \in Heaps
  /\ pc = "round1" => mod.C = 0 /\ (class # "markovchain" => mod.markov = markov_init(heap))
  /\ pc = "quit" \/ class = "basiconoff" => mod.markov = markov_init(heap)
  /\ pc = "quit" => class = "basicmta"
  /\ pc = "start" => class = "none"
  /\ pc \in {"round1", "finalize"} /\ class = "markovchain" =>
       mod.C = 0 /\ Chained(mod.markov, heap, Image(trace, 1..fed))
  /\ pc \in {"round2", "finalize"} /\ class = "basicmta" => MtaFed(mod, heap, trace, fed)
  /\ pc \in Later /\ HasChain => Chained(mod.markov, heap, Inside)

\* A memory of the counters.
LEMMA HeapFacts ==
  ASSUME NEW h \in Heaps
  PROVE  h \in [Counters -> Nat]
<1>1. Counters = 0..(2 * state_mod - 1)
  BY ChainOrder DEF Counters
<1> QED
  BY <1>1, ReplayAssumption

\* At first there is a chain that was fed with nothing.
LEMMA ChainInitially ==
  Init => ChainInv
  BY DEF Init, ChainInv, Later

\* Inside is an image.
LEMMA InsideIsImage ==
  ASSUME trace \in Trace
  PROVE  /\ class = "markovchain" => Inside = Image(trace, 1..Len(trace))
         /\ class # "markovchain" => Inside = Image(trace, (1..Len(trace)) \ Long(trace, mod.C))
<1>1. Positions = 1..Len(trace) /\ InFree = Long(trace, mod.C)
  BY TraceDomain, BurstsAreStretches DEF Positions
<1>2. Inside = Image(trace, Kept)
  BY DEF Inside, Image
<1> QED
  BY <1>1, <1>2 DEF Kept

\* One character of the trace.
LEMMA FeedChain ==
  ASSUME TablesInv, ChainInv, Feed
  PROVE  ChainInv'
<1>1. /\ pc \in {"round1", "round2"} /\ pc' = pc /\ class' = class /\ heap' = heap
      /\ fed < Len(trace) /\ fed' = fed + 1 /\ trace' = trace
      /\ mod' = addChar(mod, trace[fed + 1])
  BY DEF Feed, estimation, measure
<1>2. /\ trace \in Trace /\ Len(trace) \in Nat /\ fed \in Nat /\ fed + 1 \in 1..Len(trace)
      /\ trace[fed + 1] \in BOOLEAN /\ class \in Class /\ Mta(mod)
      /\ heap \in Heaps /\ heap \in [Counters -> Nat]
  <2>1. trace \in Trace /\ fed \in 0..Len(trace)
    BY DEF TablesInv
  <2>2. Len(trace) \in Nat /\ \A i \in 1..Len(trace) : trace[i] \in BOOLEAN
    BY <2>1, TraceDomain
  <2>3. fed + 1 \in 1..Len(trace)
    BY <1>1, <2>1, <2>2
  <2>4. heap \in Heaps
    BY DEF ChainInv
  <2> QED
    BY <1>1, <2>1, <2>2, <2>3, <2>4, HeapFacts DEF TablesInv
<1>3. CASE class = "markovchain"
  <2>1. pc = "round1" /\ mod.C = 0 /\ Chained(mod.markov, heap, Image(trace, 1..fed))
    BY <1>1, <1>3 DEF TablesInv, ChainInv
  <2>2. mod' = [mod EXCEPT !.markov = markov_addChar(@, trace[fed + 1])]
    BY <1>1, <1>3 DEF addChar
  <2>3. mod'.C = 0 /\ mod'.markov = markov_addChar(mod.markov, trace[fed + 1])
    BY <1>2, <2>1, <2>2 DEF Mta
  <2>4. Chained(markov_addChar(mod.markov, trace[fed + 1]), heap, Image(trace, 1..(fed + 1)))
    <3> DEFINE S == 1..fed
               x == fed + 1
    <3>1. S \cup {x} = 1..(fed + 1) /\ S \in SUBSET Nat /\ x \in Nat /\ \A i \in S : i < x
      BY <1>2
    <3>2. IsFiniteSet(S)
      BY <1>2, FS_Interval
    <3>3. \A i \in S : trace[i] \in BOOLEAN
      <4>1. \A i \in S : i \in 1..Len(trace)
        BY <1>2
      <4> QED
        BY <1>2, <4>1, TraceDomain
    <3>4. Chained(mod.markov, heap, Image(trace, S)) /\ trace[x] \in BOOLEAN
      BY <1>2, <2>1
    <3> HIDE DEF S, x
    <3>5. Chained(markov_addChar(mod.markov, trace[x]), heap, Image(trace, S \cup {x}))
      BY <1>2, <3>1, <3>2, <3>3, <3>4, ChainFed
    <3> QED
      BY <3>1, <3>5 DEF x
  <2> QED
    BY <1>1, <1>2, <1>3, <2>1, <2>3, <2>4 DEF ChainInv, Later
<1>4. CASE class = "basiconoff"
  <2>1. pc = "round1" /\ mod.C = 0 /\ mod.markov = markov_init(heap)
    BY <1>1, <1>4 DEF TablesInv, ChainInv
  <2>2. mod' = [mod EXCEPT !.onoff = onoff_addChar(@, trace[fed + 1])]
    BY <1>1, <1>4 DEF addChar
  <2>3. mod'.C = mod.C /\ mod'.markov = mod.markov
    BY <1>2, <2>2 DEF Mta
  <2> QED
    BY <1>1, <1>2, <1>4, <2>1, <2>3 DEF ChainInv, Later
<1>5. CASE class = "basicmta" /\ pc = "round1"
  <2>1. mod.second_round = FALSE /\ mod.C = 0 /\ mod.markov = markov_init(heap)
    BY <1>5 DEF TablesInv, ChainInv
  <2>2. mod' = [[mod EXCEPT !.onoff = onoff_addChar(@, trace[fed + 1])]
                  EXCEPT !.current_state = trace[fed + 1]]
    BY <1>1, <1>5, <2>1 DEF addChar, mta_addChar
  <2>3. mod'.C = mod.C /\ mod'.markov = mod.markov
    BY <1>2, <2>2 DEF Mta
  <2> QED
    BY <1>1, <1>2, <1>5, <2>1, <2>3 DEF ChainInv, Later
<1>6. CASE class = "basicmta" /\ pc = "round2"
  <2>1. MtaInv(mod, trace, fed) /\ MtaFed(mod, heap, trace, fed)
    BY <1>6 DEF TablesInv, ChainInv
  <2>2. mod' = mta_addChar(mod, trace[fed + 1])
    BY <1>1, <1>6 DEF addChar
  <2>3. MtaFed(mod', heap, trace, fed + 1)
    BY <1>1, <1>2, <2>1, <2>2, MtaFedGrows
  <2> QED
    BY <1>1, <1>2, <1>6, <2>3 DEF ChainInv, Later
<1> QED
  BY <1>1, <1>2, <1>3, <1>4, <1>5, <1>6 DEF Class

\* The second round is prepared.
LEMMA NextRoundChain ==
  ASSUME TablesInv, ChainInv, NextRound
  PROVE  ChainInv'
<1>1. PICK threshold \in Thresholds(onoff_flush(mod.onoff)) :
        mod' = mta_nextRound(mod, threshold)
  BY DEF NextRound
<1>2. /\ pc = "round1" /\ class = "basicmta" /\ heap' = heap
      /\ pc' = "round2" /\ fed' = 0 /\ class' = class /\ trace' = trace
  BY DEF NextRound, estimation, measure
<1>3. /\ Mta(mod) /\ mod.markov = markov_init(heap)
      /\ heap \in Heaps /\ heap \in [Counters -> Nat]
  <2>1. heap \in Heaps
    BY DEF ChainInv
  <2> QED
    BY <1>2, <2>1, HeapFacts DEF TablesInv, ChainInv
<1>4. mod' = [mod EXCEPT !.onoff = onoff_reset(@), !.C = threshold, !.length = 0,
                         !.length_error = 0, !.second_round = TRUE]
  BY <1>1 DEF mta_nextRound
<1>5. mod'.markov = mod.markov /\ mod'.length = 0
  BY <1>3, <1>4 DEF Mta
<1>6. FedSet(mod', trace, 0) = {}
  <2>1. (IF mod'.current_state THEN 0 - mod'.length ELSE 0) = 0
    BY <1>5
  <2>2. 1..0 = {}
    OBVIOUS
  <2> QED
    BY <2>1, <2>2 DEF FedSet
<1>7. Chained(markov_init(heap), heap, Image(trace, {}))
  BY <1>3, ChainBegins, ImageOfNothing
<1>8. MtaFed(mod', heap, trace, 0)
  BY <1>3, <1>5, <1>6, <1>7, Zenon DEF MtaFed
<1> QED
  BY <1>2, <1>3, <1>8 DEF ChainInv, Later

\* finalize.
LEMMA FinalizeChain ==
  ASSUME TablesInv, ChainInv, Finalize
  PROVE  ChainInv'
<1>1. /\ pc = "finalize" /\ pc' = "print" /\ class' = class /\ heap' = heap
      /\ trace' = trace /\ fed' = fed /\ mod' = Finalized(mod)
  BY DEF Finalize, estimation, measure
<1>2. /\ trace \in Trace /\ fed = Len(trace) /\ class \in Class /\ Mta(mod)
      /\ heap \in Heaps /\ heap \in [Counters -> Nat]
  <2>1. heap \in Heaps
    BY DEF ChainInv
  <2> QED
    BY <1>1, <2>1, HeapFacts DEF TablesInv
<1>3. HasChain => Chained(mod'.markov, heap, Inside')
  <2> SUFFICES ASSUME HasChain PROVE Chained(mod'.markov, heap, Inside')
    OBVIOUS
  <2>1. /\ class = "markovchain" => Inside' = Image(trace, 1..Len(trace))
        /\ class # "markovchain" => Inside' = Image(trace, (1..Len(trace)) \ Long(trace, mod'.C))
    <3>1. trace' \in Trace
      BY <1>1, <1>2
    <3>2. (trace \in Trace)' => /\ (class = "markovchain" => Inside = Image(trace, 1..Len(trace)))'
                                /\ (class # "markovchain" => Inside = Image(trace, (1..Len(trace)) \ Long(trace, mod.C)))'
      BY InsideIsImage, PTL
    <3> QED
      BY <1>1, <3>1, <3>2
  <2>2. CASE class = "markovchain"
    <3>1. mod' = mod
      BY <1>1, <2>2 DEF Finalized, HasBursts
    <3>2. Chained(mod.markov, heap, Image(trace, 1..fed))
      BY <1>1, <2>2 DEF ChainInv
    <3> QED
      BY <1>2, <2>1, <2>2, <3>1, <3>2
  <2>3. CASE class = "basicmta"
    <3> DEFINE e == mta_finalize(mod)
    <3>1. mod' = [e EXCEPT !.onoff = onoff_flush(@)]
      BY <1>1, <2>3 DEF Finalized, HasBursts
    <3>2. MtaInv(mod, trace, Len(trace)) /\ MtaFed(mod, heap, trace, Len(trace))
      BY <1>1, <1>2, <2>3 DEF TablesInv, ChainInv
    <3>3. /\ Chained(e.markov, heap, Image(trace, (1..Len(trace)) \ Long(trace, mod.C)))
          /\ e.C = mod.C
      BY <1>2, <3>2, MtaFedEnds
    <3>4. Mta(e)
      BY <1>2, <3>2, FinalizedFields DEF MtaInv
    <3> HIDE DEF e
    <3>5. mod'.markov = e.markov /\ mod'.C = e.C
      BY <3>1, <3>4 DEF Mta
    <3> QED
      BY <2>1, <2>3, <3>3, <3>5
  <2> QED
    BY <1>2, <2>2, <2>3 DEF HasChain, Class
<1>4. class = "basiconoff" => mod'.markov = markov_init(heap)
  <2> SUFFICES ASSUME class = "basiconoff" PROVE mod'.markov = markov_init(heap)
    OBVIOUS
  <2>1. mod' = [mod EXCEPT !.onoff = onoff_flush(@)]
    BY <1>1 DEF Finalized, HasBursts
  <2>2. mod'.markov = mod.markov
    BY <1>2, <2>1 DEF Mta
  <2> QED
    BY <2>2 DEF ChainInv
<1> QED
  BY <1>1, <1>2, <1>3, <1>4 DEF ChainInv, Later, HasChain

\* Each step of the replay keeps the counters right.
LEMMA ChainPreserved ==
  TablesInv /\ ChainInv /\ [Next]_vars => ChainInv'
<1> SUFFICES ASSUME TablesInv, ChainInv, [Next]_vars PROVE ChainInv'
  OBVIOUS
<1>1. CASE MeasureNext /\ UNCHANGED <<class, heap, pc, fed, mod, tables, files, channel>>
  <2>1. pc = "start"
    BY <1>1, MeasureIsOver DEF TablesInv
  <2> QED
    BY <1>1, <2>1 DEF ChainInv, Later
<1>2. CASE ParseInput
  <2>1. /\ pc' = "round1" /\ heap' \in Heaps /\ mod' = mta_init(heap')
        /\ trace' = trace /\ fed' = fed /\ fed = 0
    BY <1>2 DEF ParseInput, TablesInv
  <2>2. mod'.C = 0 /\ mod'.markov = markov_init(heap')
    BY <2>1, InitialEstimator
  <2>3. Chained(markov_init(heap'), heap', Image(trace, 1..0))
    <3>1. heap' \in [Counters -> Nat]
      BY <2>1, HeapFacts
    <3>2. 1..0 = {}
      OBVIOUS
    <3> QED
      BY <3>1, <3>2, ChainBegins, ImageOfNothing
  <2> QED
    BY <2>1, <2>2, <2>3 DEF ChainInv, Later
<1>3. CASE Feed
  BY <1>3, FeedChain
<1>4. CASE NextRound
  BY <1>4, NextRoundChain
<1>5. CASE NeedFile
  BY <1>5 DEF NeedFile, estimation, ChainInv, Later
<1>6. CASE LastRound
  <2>1. /\ pc' = "finalize" /\ fed' = fed /\ mod' = mod /\ trace' = trace
        /\ class' = class /\ heap' = heap
        /\ (pc = "round1" /\ class # "basicmta") \/ pc = "round2"
    BY <1>6 DEF LastRound, estimation, measure
  <2>2. pc = "round2" => class = "basicmta"
    BY DEF TablesInv
  <2> QED
    BY <2>1, <2>2 DEF ChainInv, Later
<1>7. CASE Finalize
  BY <1>7, FinalizeChain
<1>8. CASE UNCHANGED vars \/ PrintBinary \/ PrintFails \/ Load \/ Push \/ PushDraws
           \/ SearchMoves \/ SearchEnds \/ Emit \/ ChainOnly
  <2>1. /\ UNCHANGED <<class, heap, trace, fed, mod>>
        /\ pc' = pc \/ (pc \in Later /\ pc' \in Later)
    <3>1. CASE UNCHANGED vars
      BY <3>1 DEF vars, estimation, measure
    <3>2. CASE PrintBinary \/ PrintFails \/ Load
      BY <3>2 DEF PrintBinary, PrintFails, Load, estimation, measure, Later
    <3>3. CASE Push \/ PushDraws
      BY <3>3 DEF Push, PushDraws, estimation, measure, Later
    <3>4. CASE SearchMoves \/ SearchEnds \/ Emit \/ ChainOnly
      BY <3>4 DEF SearchMoves, SearchEnds, Emit, ChainOnly, estimation, measure, Later
    <3> QED
      BY <1>8, <3>1, <3>2, <3>3, <3>4
  <2>2. Inside' = Inside /\ HasChain' = HasChain
    BY <2>1 DEF Inside, Kept, InFree, FreeBursts, Positions, HasChain
  <2>3. CASE pc' = pc
    BY <2>1, <2>2, <2>3 DEF ChainInv
  <2>4. CASE pc \in Later /\ pc' \in Later
    BY <2>1, <2>2, <2>4 DEF ChainInv, Later
  <2> QED
    BY <2>1, <2>3, <2>4
<1> QED
  BY <1>1, <1>2, <1>3, <1>4, <1>5, <1>6, <1>7, <1>8 DEF Next

\* The chain has the counters of the bits it is an image of, in every state.
THEOREM ChainIsFed == Spec => [](TablesInv /\ ChainInv)
<1>1. Init => TablesInv /\ ChainInv /\ MInv
  BY TablesInitially, ChainInitially, MeasureInitially
<1>2. TablesInv /\ ChainInv /\ MInv /\ [Next]_vars => (TablesInv /\ ChainInv /\ MInv)'
  BY TablesPreserved, ChainPreserved, ReplayPreserves
<1> QED
  BY <1>1, <1>2, PTL DEF Spec

\* How often a bit follows a window, in the words of the properties.
LEMMA FollowsIsWindows ==
  ASSUME NEW i, NEW b
  PROVE  Follows(Window(i), b) = Cardinality(Windows(Inside, i, b))
  BY DEF Follows, Windows

\* At the end, the counters are those of the trace.
THEOREM ChainCountsTheTrace == Spec => []ChainCountsTrace
<1>1. TablesInv /\ ChainInv => ChainCountsTrace
  <2> SUFFICES ASSUME TablesInv, ChainInv, pc = "print", HasChain,
                      NEW i \in 0..(state_mod - 1), NEW b \in BOOLEAN
               PROVE  mod.markov.states[2 * i + Bit(b)]
                        = heap[2 * i + Bit(b)] + Follows(Window(i), b)
    BY DEF ChainCountsTrace, Estimated
  <2>1. Chained(mod.markov, heap, Inside)
    BY DEF ChainInv, Later
  <2>2. i \in States
    BY ChainOrder DEF States
  <2> QED
    BY <2>1, <2>2, FollowsIsWindows DEF Chained
<1> QED
  BY <1>1, ChainIsFed, PTL

-----------------------------------------------------------------------------
(* The tables of the chain.                                                *)

\* The least member of a set of numbers.
LEMMA MinOfNumbers ==
  ASSUME NEW T \in SUBSET Nat, T # {}
  PROVE  Min(T) \in T
<1>1. \E n \in T : \A m \in T : n <= m
  BY LeastNumber
<1> QED
  BY <1>1 DEF Min

\* The counters of a state.
LEMMA CountersOf ==
  ASSUME NEW f \in [Counters -> Nat], NEW i \in States
  PROVE  /\ f[2 * i + 1] \in Nat /\ f[2 * i] \in Nat
         /\ f[2 * i + Bit(TRUE)] = f[2 * i + 1] /\ f[2 * i + Bit(FALSE)] = f[2 * i]
<1>1. Bit(TRUE) = 1 /\ Bit(FALSE) = 0 /\ i \in Nat
  BY ChainOrder DEF Bit
<1>2. 2 * i + Bit(TRUE) \in Counters /\ 2 * i + Bit(FALSE) \in Counters
  BY CounterIs
<1>3. 2 * i + 0 = 2 * i
  BY <1>1
<1>4. 2 * i + Bit(TRUE) = 2 * i + 1 /\ 2 * i + Bit(FALSE) = 2 * i
  BY <1>1, <1>3, Zenon
<1> QED
  BY <1>2, <1>4

\* A share of MaxRand: it is one, and what is below it.
LEMMA Share ==
  ASSUME NEW g \in Nat, NEW l \in Nat
  PROVE  LET p == IF g = 0 THEN 0 ELSE (g * MaxRand) \div (g + l) IN
         /\ p \in Rand
         /\ \A r \in Nat : r < p <=> g + l # 0 /\ (r + 1) * (g + l) <= MaxRand * g
<1> DEFINE b == g + l
           a == g * MaxRand
<1>0. MaxRand \in Nat /\ 0 \in Rand
  BY EstimatorsAssumption DEF Rand
<1>1. a \in Nat /\ a = MaxRand * g /\ b \in Nat /\ g <= b
  BY <1>0
<1>2. CASE g = 0
  <2>1. a = 0
    BY <1>0, <1>2
  <2>2. ASSUME NEW r \in Nat, b # 0
        PROVE  ~((r + 1) * b <= a)
    <3>1. 1 <= r + 1 /\ 1 \in Nat /\ r + 1 \in Nat
      OBVIOUS
    <3> HIDE DEF a, b
    <3>2. 1 * b <= (r + 1) * b /\ 1 * b = b
      BY <1>1, <3>1, Products
    <3>3. (r + 1) * b \in Nat
      BY <1>1
    <3> QED
      BY <1>1, <2>1, <2>2, <3>2, <3>3
  <2> HIDE DEF a, b
  <2>3. \A r \in Nat : ~(r < 0)
    OBVIOUS
  <2>4. \A r \in Nat : ~(b # 0 /\ (r + 1) * b <= MaxRand * g)
    BY <1>1, <2>2, Zenon
  <2>5. \A r \in Nat : r < 0 <=> b # 0 /\ (r + 1) * b <= MaxRand * g
    BY <2>3, <2>4, Zenon
  <2> QED
    BY <1>0, <1>2, <2>5 DEF b
<1>3. CASE g # 0
  <2> HIDE DEF a
  <2>1. b \in Nat \ {0}
    BY <1>3
  <2> HIDE DEF b
  <2>2. \A r \in Nat : r < a \div b <=> (r + 1) * b <= a
    BY <1>1, <2>1, BelowQuotient
  <2>3. a \div b \in Nat
    BY <1>1, <2>1, Quotient
  <2>4. ~(MaxRand < a \div b)
    <3> SUFFICES ASSUME MaxRand < a \div b PROVE FALSE
      OBVIOUS
    <3>1. (MaxRand + 1) * b <= a
      BY <1>0, <2>2
    <3>2. a <= b * MaxRand
      BY <1>0, <1>1, Products DEF a
    <3>3. (MaxRand + 1) * b = b * MaxRand + b /\ b * MaxRand \in Nat
      BY <1>0, <1>1
    <3> QED
      BY <1>1, <2>1, <3>1, <3>2, <3>3
  <2>5. a \div b \in Rand
    BY <1>0, <2>3, <2>4 DEF Rand
  <2>6. \A r \in Nat : r < a \div b <=> b # 0 /\ (r + 1) * b <= MaxRand * g
    BY <1>1, <2>1, <2>2
  <2> QED
    BY <1>3, <2>5, <2>6 DEF a, b
<1> QED
  BY <1>2, <1>3

\* The tables of a chain.
ChainTable(c) ==
  /\ c = [state |-> c.state, transitions |-> c.transitions]
  /\ c.state \in States
  /\ DOMAIN c.transitions = States
  /\ \A i \in States : c.transitions[i] \in Rand

\* finalize turns counters into a table, and a draw from it succeeds with
\* the frequency that the counters say.
LEMMA FinalizedChain ==
  ASSUME NEW m, m.state \in States, m.states \in [Counters -> Nat]
  PROVE  /\ ChainTable(markov_finalize(m))
         /\ \A i \in States : \A r \in Nat :
              LET good == m.states[2 * i + 1]
                  all == good + m.states[2 * i]
              IN r < markov_finalize(m).transitions[i] <=>
                   all # 0 /\ (r + 1) * all <= MaxRand * good
<1> DEFINE q == markov_finalize(m)
           f == [i \in States |-> SumOf(m.states, i)]
           sums == {SumOf(m.states, i) : i \in States}
           best == Max(sums)
           T == {i \in States : SumOf(m.states, i) = best}
           p(i) == IF m.states[2 * i + 1] = 0 THEN 0
                   ELSE (m.states[2 * i + 1] * MaxRand) \div SumOf(m.states, i)
<1>1. 0..(state_mod - 1) = States /\ States \in SUBSET Nat /\ 0 \in States
  BY ChainOrder DEF States
<1>2. q = [state |-> IF best = 0 THEN m.state ELSE Min(T),
           transitions |-> [i \in States |-> p(i)]]
  BY <1>1, Zenon DEF markov_finalize
<1>3. \A i \in States : m.states[2 * i + 1] \in Nat /\ m.states[2 * i] \in Nat
  BY CountersOf
<1>4. \A i \in States : f[i] = SumOf(m.states, i) /\ f[i] \in Nat
  BY <1>3 DEF SumOf
<1>5. IsFiniteSet(States)
  <2>1. 0 \in Int /\ 2 ^ K - 1 \in Int
    BY ChainOrder
  <2> QED
    BY <2>1, FS_Interval DEF States
<1>6. SumFunctionOnSet(f, States) \in Nat /\ \A i \in States : f[i] <= SumFunctionOnSet(f, States)
  <2> HIDE DEF f
  <2> QED
    BY <1>4, <1>5, SumOfNaturals
<1>7. best \in sums
  <2>1. sums \in SUBSET Nat /\ sums # {}
    BY <1>1, <1>4
  <2>2. \A x \in sums : x <= SumFunctionOnSet(f, States)
    <3> HIDE DEF f
    <3> QED
      BY <1>4, <1>6
  <2> HIDE DEF sums, f
  <2> QED
    BY <1>6, <2>1, <2>2, MaxOfBounded
<1>8. T # {} /\ T \in SUBSET Nat /\ T \subseteq States
  BY <1>1, <1>7
<1>9. Min(T) \in States
  <2> HIDE DEF T
  <2> QED
    BY <1>8, MinOfNumbers
<1> HIDE DEF best, T
<1>10. ASSUME NEW i \in States
       PROVE  /\ p(i) \in Rand
              /\ \A r \in Nat :
                   LET good == m.states[2 * i + 1]
                       all == good + m.states[2 * i]
                   IN r < p(i) <=> all # 0 /\ (r + 1) * all <= MaxRand * good
  <2> DEFINE g == m.states[2 * i + 1]
             l == m.states[2 * i]
  <2>1. g \in Nat /\ l \in Nat /\ SumOf(m.states, i) = g + l
    BY <1>3 DEF SumOf
  <2> HIDE DEF g, l
  <2>2. p(i) = IF g = 0 THEN 0 ELSE (g * MaxRand) \div (g + l)
    BY <2>1, Zenon DEF g
  <2> QED
    BY <2>1, <2>2, Share DEF g, l
<1> HIDE DEF p, q
<1>11. /\ q.state \in States /\ q.transitions = [i \in States |-> p(i)]
       /\ q = [state |-> q.state, transitions |-> q.transitions]
  BY <1>2, <1>9
<1>12. \A i \in States : q.transitions[i] = p(i)
  BY <1>11
<1>13. ChainTable(q)
  BY <1>10, <1>11, <1>12 DEF ChainTable
<1> QED
  BY <1>10, <1>12, <1>13 DEF q

\* Whatever it was fed with, the chain is one that was fed.
LEMMA AlwaysFed ==
  ASSUME TablesInv, ChainInv
  PROVE  \E s \in Seq(BOOLEAN) : Chained(mod.markov, heap, s)
<1>1. /\ trace \in Trace /\ fed \in 0..Len(trace) /\ Len(trace) \in Nat
      /\ heap \in [Counters -> Nat]
  BY TraceDomain, HeapFacts DEF TablesInv, ChainInv
<1>2. \A n \in 0..Len(trace) : \A S \in SUBSET (1..n) : Image(trace, S) \in Seq(BOOLEAN)
  <2> SUFFICES ASSUME NEW n \in 0..Len(trace), NEW S \in SUBSET (1..n)
               PROVE  Image(trace, S) \in Seq(BOOLEAN)
    OBVIOUS
  <2>1. S \in SUBSET Nat /\ n + 1 \in Nat /\ \A i \in S : i < n + 1 /\ i \in 1..Len(trace)
    BY <1>1
  <2>2. IsFiniteSet(S)
    <3>1. IsFiniteSet(1..n)
      BY <1>1, FS_Interval
    <3> QED
      BY <3>1, FS_Subset
  <2>3. \A i \in S : trace[i] \in BOOLEAN
    BY <1>1, <2>1, TraceDomain
  <2> QED
    BY <2>1, <2>2, <2>3, ImageGrows
<1>3. mod.markov = markov_init(heap) => Chained(mod.markov, heap, <<>>) /\ <<>> \in Seq(BOOLEAN)
  BY <1>1, ChainBegins
<1>4. CASE pc = "start" \/ pc = "quit" \/ class = "basiconoff"
           \/ (pc = "round1" /\ class = "basicmta")
  <2>1. pc = "start" => mod.markov = markov_init(heap)
    BY InitialEstimator DEF TablesInv
  <2>2. pc # "start" => mod.markov = markov_init(heap)
    BY <1>4 DEF ChainInv
  <2> QED
    BY <1>3, <2>1, <2>2
<1>5. CASE pc \in {"round1", "finalize"} /\ class = "markovchain"
  <2>1. Chained(mod.markov, heap, Image(trace, 1..fed))
    BY <1>5 DEF ChainInv
  <2>2. Image(trace, 1..fed) \in Seq(BOOLEAN)
    BY <1>1, <1>2
  <2> QED
    BY <2>1, <2>2
<1>6. CASE pc \in {"round2", "finalize"} /\ class = "basicmta"
  <2>1. Chained(mod.markov, heap, Image(trace, FedSet(mod, trace, fed)))
    BY <1>6 DEF ChainInv, MtaFed
  <2>2. \E n \in 0..Len(trace) : FedSet(mod, trace, fed) \in SUBSET (1..n)
    <3>1. mod.length \in 0..fed
      BY <1>6 DEF TablesInv, MtaInv, Run
    <3>2. (IF mod.current_state THEN fed - mod.length ELSE fed) \in 0..Len(trace)
      BY <1>1, <3>1
    <3> QED
      BY <3>2 DEF FedSet
  <2> QED
    BY <1>2, <2>1, <2>2
<1>7. CASE pc \in Later /\ HasChain
  <2>1. Chained(mod.markov, heap, Inside)
    BY <1>7 DEF ChainInv
  <2>2. 1..Len(trace) \in SUBSET (1..Len(trace))
        /\ (1..Len(trace)) \ Long(trace, mod.C) \in SUBSET (1..Len(trace))
        /\ Len(trace) \in 0..Len(trace)
    BY <1>1
  <2>3. Inside \in Seq(BOOLEAN)
    BY <1>1, <1>2, <2>2, InsideIsImage
  <2> QED
    BY <2>1, <2>3
<1>8. /\ pc \in {"start", "round1", "round2", "finalize", "quit"} \cup Later
      /\ pc # "start" => class \in Class
      /\ pc = "round2" => class = "basicmta"
  BY DEF TablesInv
<1> QED
  BY <1>4, <1>5, <1>6, <1>7, <1>8 DEF Class, HasChain, Later

-----------------------------------------------------------------------------
(* What the chain sends.                                                   *)

\* The state of a chain holds the last bits that it sent.
Remembers(c, s) ==
  /\ s \in Seq(BOOLEAN) /\ Len(s) <= K
  /\ c.state \in States
  /\ \A e \in Nat : e < K /\ e < Len(s) => (BitAt(c.state, e) = 1 <=> s[Len(s) - e])

\* The last draw was one from a state that is the window of what was sent.
DrewFrom(l, transitions) ==
  Len(l.before) = K =>
    \E i \in States : Window(i) = l.before /\ (l.transmit <=> l.rand < transitions[i])

\* The state of the chain of the channel is what it sent.
SentInv ==
  /\ ChainTable(chain)
  /\ last.rand \in Nat
  /\ ~(InChannel /\ HasChain) => last.before = <<>> /\ last.sent = <<>>
  /\ InChannel /\ HasChain =>
       /\ chain.transitions = tables.chain.transitions
       /\ Remembers(chain, last.sent)
       /\ DrewFrom(last, tables.chain.transitions)

\* A state that holds K bits is their window.
LEMMA WindowOfState ==
  ASSUME NEW c, NEW s, Remembers(c, s), Len(s) = K
  PROVE  Window(c.state) = s
<1>1. /\ s \in Seq(BOOLEAN) /\ c.state \in States /\ K \in Nat /\ K > 0
      /\ \A e \in Nat : e < K /\ e < Len(s) => (BitAt(c.state, e) = 1 <=> s[Len(s) - e])
  BY ChainOrder DEF Remembers
<1>2. Len(s) - K + 1 = 1 /\ 1 \in Nat \ {0} /\ 1 + K - 1 <= Len(s) /\ Len(s) >= K
  BY <1>1
<1>3. SubSeq(s, 1, 1 + K - 1) = Window(c.state)
  <2>1. LET first == Len(s) - K + 1 IN
          SubSeq(s, first, first + K - 1) = Window(c.state) <=> c.state = c.state
    BY <1>1, <1>2, StateIsWindow
  <2> QED
    BY <1>2, <2>1, Zenon
<1>4. SubSeq(s, 1, 1 + K - 1) = [x \in 1..K |-> s[1 + x - 1]]
  BY <1>1, <1>2, WindowIs
<1>5. \A x \in 1..K : s[1 + x - 1] = s[x]
  BY <1>1
<1>6. [x \in 1..K |-> s[1 + x - 1]] = [x \in 1..K |-> s[x]]
  BY <1>5, Zenon
<1>7. s = [x \in 1..K |-> s[x]]
  BY <1>1
<1> QED
  BY <1>3, <1>4, <1>6, <1>7, Zenon

\* What is kept of the bits that were sent, with one more.
LEMMA RecentFacts ==
  ASSUME NEW s \in Seq(BOOLEAN), Len(s) <= K, NEW b \in BOOLEAN
  PROVE  LET recent == IF Len(s) < K THEN s ELSE Tail(s)
             q == Append(recent, b)
         IN /\ q \in Seq(BOOLEAN) /\ Len(q) \in Nat /\ Len(q) <= K
            /\ q[Len(q)] = b
            /\ \A e \in Nat : e + 1 < Len(q) =>
                 e < Len(s) /\ q[Len(q) - (e + 1)] = s[Len(s) - e]
<1> DEFINE recent == IF Len(s) < K THEN s ELSE Tail(s)
           q == Append(recent, b)
<1>1. K \in Nat /\ K > 0 /\ Len(s) \in Nat
  BY ChainOrder
<1>2. /\ recent \in Seq(BOOLEAN) /\ Len(recent) \in Nat /\ Len(recent) < K
      /\ Len(recent) <= Len(s)
      /\ \A e \in Nat : e < Len(recent) => recent[Len(recent) - e] = s[Len(s) - e]
  <2>1. CASE Len(s) < K
    BY <1>1, <2>1
  <2>2. CASE ~(Len(s) < K)
    <3>1. s # <<>> /\ Len(s) = K
      BY <1>1, <2>2
    <3>2. /\ Tail(s) \in Seq(BOOLEAN) /\ Len(Tail(s)) = Len(s) - 1
          /\ \A i \in 1..(Len(s) - 1) : Tail(s)[i] = s[i + 1]
      BY <3>1
    <3>3. \A e \in Nat : e < Len(s) - 1 =>
            (Len(s) - 1) - e \in 1..(Len(s) - 1) /\ ((Len(s) - 1) - e) + 1 = Len(s) - e
      BY <1>1
    <3>4. \A e \in Nat : e < Len(s) - 1 => Tail(s)[(Len(s) - 1) - e] = s[Len(s) - e]
      BY <3>2, <3>3, Zenon
    <3>5. recent = Tail(s)
      BY <2>2
    <3> HIDE DEF recent
    <3>6. recent \in Seq(BOOLEAN) /\ Len(recent) = Len(s) - 1
      BY <3>2, <3>5, Zenon
    <3>7. \A e \in Nat : e < Len(recent) => recent[Len(recent) - e] = s[Len(s) - e]
      BY <3>4, <3>5, <3>6, Zenon
    <3>8. Len(recent) \in Nat /\ Len(recent) < K /\ Len(recent) <= Len(s)
      BY <1>1, <3>1, <3>6
    <3> QED
      BY <3>6, <3>7, <3>8, Zenon
  <2> QED
    BY <2>1, <2>2
<1> HIDE DEF recent
<1>3. /\ q \in Seq(BOOLEAN) /\ Len(q) = Len(recent) + 1 /\ q[Len(recent) + 1] = b
      /\ \A i \in 1..Len(recent) : q[i] = recent[i]
  BY <1>2, OneMoreBit
<1> HIDE DEF q
<1>4. ASSUME NEW e \in Nat, e + 1 < Len(q)
      PROVE  e < Len(s) /\ q[Len(q) - (e + 1)] = s[Len(s) - e]
  <2>1. /\ e < Len(recent) /\ Len(q) - (e + 1) = Len(recent) - e
        /\ Len(recent) - e \in 1..Len(recent) /\ e < Len(s)
    BY <1>1, <1>2, <1>3, <1>4
  <2>2. q[Len(recent) - e] = recent[Len(recent) - e]
    BY <1>3, <2>1
  <2> QED
    BY <1>2, <2>1, <2>2
<1>5. Len(q) \in Nat /\ Len(q) <= K /\ q[Len(q)] = b
  BY <1>1, <1>2, <1>3
<1>6. /\ q \in Seq(BOOLEAN) /\ Len(q) \in Nat /\ Len(q) <= K /\ q[Len(q)] = b
      /\ \A e \in Nat : e + 1 < Len(q) => e < Len(s) /\ q[Len(q) - (e + 1)] = s[Len(s) - e]
  BY <1>3, <1>4, <1>5
<1> QED
  BY <1>6 DEF q, recent

\* A packet goes through the chain.
LEMMA PushRemembers ==
  ASSUME NEW c, NEW s, Remembers(c, s), ChainTable(c), NEW rand \in Rand
  PROVE  LET transmit == Transmit(c, rand)
             recent == IF Len(s) < K THEN s ELSE Tail(s)
             d == Shifted(c, transmit, state_mod)
         IN /\ Remembers(d, Append(recent, transmit))
            /\ ChainTable(d) /\ d.transitions = c.transitions
<1> DEFINE b == Transmit(c, rand)
           recent == IF Len(s) < K THEN s ELSE Tail(s)
           d == Shifted(c, b, state_mod)
           q == Append(recent, b)
<1>1. /\ s \in Seq(BOOLEAN) /\ Len(s) <= K /\ c.state \in States /\ c.state \in Nat
      /\ \A e \in Nat : e < K /\ e < Len(s) => (BitAt(c.state, e) = 1 <=> s[Len(s) - e])
      /\ c = [state |-> c.state, transitions |-> c.transitions]
      /\ DOMAIN c.transitions = States /\ \A i \in States : c.transitions[i] \in Rand
  BY ChainOrder DEF Remembers, ChainTable
<1>2. b \in BOOLEAN
  BY DEF Transmit
<1>3. /\ q \in Seq(BOOLEAN) /\ Len(q) \in Nat /\ Len(q) <= K /\ q[Len(q)] = b
      /\ \A e \in Nat : e + 1 < Len(q) => e < Len(s) /\ q[Len(q) - (e + 1)] = s[Len(s) - e]
  <2> HIDE DEF b
  <2> QED
    BY <1>1, <1>2, RecentFacts
<1>4. /\ d.state = (2 * c.state + Bit(b)) % 2 ^ K /\ d.transitions = c.transitions
      /\ d = [state |-> d.state, transitions |-> d.transitions]
  <2>1. d = [c EXCEPT !.state = (2 * @ + Bit(b)) % 2 ^ K]
    BY ChainOrder, Zenon DEF Shifted, Bit
  <2> HIDE DEF d, b
  <2> QED
    BY <1>1, <2>1
<1> HIDE DEF d, b, q
<1>5. /\ d.state \in States /\ BitAt(d.state, 0) = Bit(b)
      /\ \A e \in Nat : e + 1 < K => BitAt(d.state, e + 1) = BitAt(c.state, e)
  <2> DEFINE k == K
             x == ((2 * c.state) % 2 ^ k) + Bit(b)
  <2>1. k \in Nat \ {0} /\ Bit(b) \in {0, 1}
    BY <1>2, ChainOrder DEF Bit
  <2> HIDE DEF k
  <2>2. /\ x \in 0..(2 ^ k - 1) /\ x = (2 * c.state + Bit(b)) % 2 ^ k
        /\ BitAt(x, 0) = Bit(b)
        /\ \A e \in Nat : e + 1 < k => BitAt(x, e + 1) = BitAt(c.state, e)
    BY <1>1, <2>1, ShiftedBits
  <2> HIDE DEF x
  <2>3. d.state = x
    BY <1>4, <2>2, Zenon DEF k
  <2> QED
    BY <2>2, <2>3 DEF States, k
<1>6. ASSUME NEW e \in Nat, e < K, e < Len(q)
      PROVE  BitAt(d.state, e) = 1 <=> q[Len(q) - e]
  <2>1. CASE e = 0
    <3>1. Len(q) - e = Len(q)
      BY <1>3, <2>1
    <3>2. q[Len(q) - e] = b /\ BitAt(d.state, e) = Bit(b)
      BY <1>3, <1>5, <2>1, <3>1, Zenon
    <3> QED
      BY <1>2, <3>2 DEF Bit
  <2>2. CASE e # 0
    <3> DEFINE x == e - 1
    <3>1. x \in Nat /\ x + 1 = e
      BY <2>2
    <3>2. x + 1 < K /\ x + 1 < Len(q) /\ x < K
      BY <1>3, <1>6, <3>1, ChainOrder
    <3> HIDE DEF x
    <3>3. x < Len(s) /\ q[Len(q) - (x + 1)] = s[Len(s) - x]
      BY <1>3, <3>1, <3>2
    <3>4. BitAt(d.state, x + 1) = BitAt(c.state, x)
      BY <1>5, <3>1, <3>2
    <3>5. BitAt(c.state, x) = 1 <=> s[Len(s) - x]
      BY <1>1, <3>1, <3>2, <3>3
    <3> QED
      BY <3>1, <3>3, <3>4, <3>5, Zenon
  <2> QED
    BY <2>1, <2>2
<1>7. Remembers(d, q)
  BY <1>3, <1>5, <1>6 DEF Remembers
<1>8. ChainTable(d)
  BY <1>1, <1>4, <1>5 DEF ChainTable
<1> QED
  BY <1>4, <1>7, <1>8 DEF d, b, q

\* MarkovChainChannel::push.
LEMMA ChainPushSent ==
  ASSUME SentInv, InChannel, HasChain, ChainPush
  PROVE  /\ ChainTable(chain') /\ last'.rand \in Nat
         /\ chain'.transitions = tables.chain.transitions
         /\ Remembers(chain', last'.sent)
         /\ DrewFrom(last', tables.chain.transitions)
<1>1. PICK rand \in Rand :
        LET transmit == Transmit(chain, rand)
            recent == IF Len(last.sent) < K THEN last.sent ELSE Tail(last.sent)
        IN /\ chain' = Shifted(chain, transmit, state_mod)
           /\ last' = [before |-> last.sent, rand |-> rand, transmit |-> transmit,
                       sent |-> Append(recent, transmit)]
  BY DEF ChainPush
<1>2. /\ ChainTable(chain) /\ Remembers(chain, last.sent)
      /\ chain.transitions = tables.chain.transitions
  BY DEF SentInv
<1>3. /\ Remembers(chain', last'.sent) /\ ChainTable(chain')
      /\ chain'.transitions = chain.transitions
  <2>1. LET transmit == Transmit(chain, rand)
            recent == IF Len(last.sent) < K THEN last.sent ELSE Tail(last.sent)
            d == Shifted(chain, transmit, state_mod)
        IN /\ Remembers(d, Append(recent, transmit))
           /\ ChainTable(d) /\ d.transitions = chain.transitions
    BY <1>2, PushRemembers
  <2>2. last'.sent = Append(IF Len(last.sent) < K THEN last.sent ELSE Tail(last.sent),
                            Transmit(chain, rand))
    BY <1>1
  <2> QED
    BY <1>1, <2>1, <2>2, Zenon
<1>4. last'.before = last.sent /\ last'.rand = rand /\ last'.transmit = Transmit(chain, rand)
  BY <1>1
<1>5. rand \in Nat
  BY EstimatorsAssumption DEF Rand
<1>6. DrewFrom(last', tables.chain.transitions)
  <2> SUFFICES ASSUME Len(last.sent) = K
               PROVE  \E i \in States :
                        /\ Window(i) = last.sent
                        /\ Transmit(chain, rand) <=> rand < tables.chain.transitions[i]
    BY <1>4 DEF DrewFrom
  <2>1. Window(chain.state) = last.sent
    BY <1>2, WindowOfState
  <2>2. chain.state \in States
    BY <1>2 DEF ChainTable
  <2> QED
    BY <1>2, <2>1, <2>2 DEF Transmit
<1> QED
  BY <1>2, <1>3, <1>4, <1>5, <1>6

\* At first nothing was sent.
LEMMA SentInitially ==
  Init => SentInv
<1> SUFFICES ASSUME Init PROVE SentInv
  OBVIOUS
<1>1. chain = NoChain /\ last.rand = 0 /\ last.before = <<>> /\ last.sent = <<>> /\ pc = "start"
  BY DEF Init
<1>2. ChainTable(NoChain)
  <2>1. 0..(state_mod - 1) = States /\ 0 \in States /\ 0 \in Rand
    BY ChainOrder, EstimatorsAssumption DEF States, Rand
  <2>2. NoChain = [state |-> 0, transitions |-> [i \in States |-> 0]]
    BY <2>1, Zenon DEF NoChain
  <2> QED
    BY <2>1, <2>2 DEF ChainTable
<1> QED
  BY <1>1, <1>2 DEF SentInv, InChannel

\* The chain is loaded.
LEMMA LoadSent ==
  ASSUME TablesInv, ChainInv, SentInv, Load
  PROVE  SentInv'
<1>1. /\ pc = "load" /\ pc' \in {"idle", "refused"}
      /\ chain' = [tables.chain EXCEPT !.state = @ % state_mod]
      /\ UNCHANGED <<class, tables, last>>
  BY DEF Load, estimation
<1>2. tables.chain = markov_finalize(mod.markov)
  <2>1. tables = [free |-> calculate_values(mod.onoff.success_length, mod.onoff.success_total),
                  error |-> calculate_values(mod.onoff.error_length, mod.onoff.error_total),
                  chain |-> markov_finalize(mod.markov)]
    BY <1>1 DEF TablesInv, Later
  <2> QED
    BY <2>1
<1>3. ChainTable(tables.chain)
  <2>1. mod.markov.state \in States /\ mod.markov.states \in [Counters -> Nat]
    BY AlwaysFed DEF Chained
  <2> QED
    BY <1>2, <2>1, FinalizedChain
<1>4. ChainTable(chain') /\ chain'.transitions = tables.chain.transitions
  <2>1. tables.chain.state % state_mod \in States
    <3>1. tables.chain.state \in Nat /\ state_mod \in Nat \ {0} /\ 2 ^ K = state_mod
      BY <1>3, ChainOrder DEF ChainTable
    <3> QED
      BY <3>1 DEF States
  <2>2. /\ chain' = [state |-> chain'.state, transitions |-> chain'.transitions]
        /\ chain'.state = tables.chain.state % state_mod
        /\ chain'.transitions = tables.chain.transitions
    BY <1>1, <1>3 DEF ChainTable
  <2> QED
    BY <1>3, <2>1, <2>2 DEF ChainTable
<1>5. last.before = <<>> /\ last.sent = <<>> /\ last.rand \in Nat
  BY <1>1 DEF SentInv, InChannel
<1>6. Remembers(chain', <<>>)
  <2>1. <<>> \in Seq(BOOLEAN) /\ Len(<<>>) = 0 /\ Len(<<>>) <= K
    BY ChainOrder
  <2>2. chain'.state \in States
    BY <1>4 DEF ChainTable
  <2> QED
    BY <2>1, <2>2 DEF Remembers
<1>7. DrewFrom(last, tables.chain.transitions)
  <2>1. Len(<<>>) = 0 /\ K # 0
    BY ChainOrder
  <2> QED
    BY <1>5, <2>1 DEF DrewFrom
<1> QED
  BY <1>1, <1>4, <1>5, <1>6, <1>7 DEF SentInv

\* Each step of the replay keeps the state and what was sent together.
LEMMA SentPreserved ==
  TablesInv /\ ChainInv /\ SentInv /\ [Next]_vars => SentInv'
<1> SUFFICES ASSUME TablesInv, ChainInv, SentInv, [Next]_vars PROVE SentInv'
  OBVIOUS
<1>1. CASE \/ MeasureNext /\ UNCHANGED <<class, heap, pc, fed, mod, tables, files, channel>>
           \/ ParseInput \/ Feed \/ NextRound \/ NeedFile \/ LastRound \/ Finalize
           \/ PrintBinary \/ PrintFails
  <2>1. UNCHANGED <<chain, last>> /\ ~InChannel /\ ~InChannel'
    <3>1. CASE MeasureNext /\ UNCHANGED <<class, heap, pc, fed, mod, tables, files, channel>>
      <4>1. pc = "start"
        BY <3>1, MeasureIsOver DEF TablesInv
      <4> QED
        BY <3>1, <4>1 DEF channel, InChannel
    <3>2. CASE ParseInput \/ Feed \/ NextRound \/ NeedFile
      BY <3>2 DEF ParseInput, Feed, NextRound, NeedFile, channel, InChannel
    <3>3. CASE LastRound \/ Finalize \/ PrintBinary \/ PrintFails
      BY <3>3 DEF LastRound, Finalize, PrintBinary, PrintFails, channel, InChannel
    <3> QED
      BY <1>1, <3>1, <3>2, <3>3
  <2> QED
    BY <2>1 DEF SentInv
<1>2. CASE Load
  BY <1>2, LoadSent
<1>3. CASE UNCHANGED vars \/ Push \/ PushDraws \/ SearchMoves \/ SearchEnds
  <2>1. UNCHANGED <<class, tables, chain, last>> /\ InChannel' = InChannel
    <3>1. CASE UNCHANGED vars
      BY <3>1 DEF vars, estimation, channel, InChannel
    <3>2. CASE Push \/ PushDraws
      BY <3>2 DEF Push, PushDraws, estimation, channel, InChannel
    <3>3. CASE SearchMoves \/ SearchEnds
      BY <3>3 DEF SearchMoves, SearchEnds, estimation, InChannel
    <3> QED
      BY <1>3, <3>1, <3>2, <3>3
  <2>2. HasChain' = HasChain
    BY <2>1 DEF HasChain
  <2> QED
    BY <2>1, <2>2 DEF SentInv
<1>4. CASE Emit \/ ChainOnly
  <2>1. UNCHANGED <<class, tables>> /\ InChannel /\ InChannel' /\ HasChain' = HasChain
    <3>1. UNCHANGED <<class, tables>> /\ pc \in {"emit", "idle"} /\ pc' = "idle"
      BY <1>4 DEF Emit, ChainOnly, estimation
    <3> QED
      BY <3>1 DEF InChannel, HasChain
  <2>2. \/ HasChain /\ ChainPush
        \/ UNCHANGED <<chain, last>>
    <3>1. CASE Emit
      BY <3>1 DEF Emit
    <3>2. CASE ChainOnly
      <4>1. class \in Class
        BY <3>2 DEF ChainOnly, TablesInv
      <4> QED
        BY <3>2, <4>1 DEF ChainOnly, HasChain, HasBursts, Class
    <3> QED
      BY <1>4, <3>1, <3>2
  <2>3. CASE HasChain /\ ChainPush
    BY <2>1, <2>3, ChainPushSent DEF SentInv
  <2>4. CASE UNCHANGED <<chain, last>>
    BY <2>1, <2>4 DEF SentInv
  <2> QED
    BY <2>2, <2>3, <2>4
<1> QED
  BY <1>1, <1>2, <1>3, <1>4 DEF Next

\* The chain has the tables of the trace, and remembers what it sent.
THEOREM ChainRemembers == Spec => [](TablesInv /\ ChainInv /\ SentInv)
<1>1. Init => TablesInv /\ ChainInv /\ SentInv /\ MInv
  BY TablesInitially, ChainInitially, SentInitially, MeasureInitially
<1>2. TablesInv /\ ChainInv /\ SentInv /\ MInv /\ [Next]_vars
        => (TablesInv /\ ChainInv /\ SentInv /\ MInv)'
  BY TablesPreserved, ChainPreserved, SentPreserved, ReplayPreserves
<1> QED
  BY <1>1, <1>2, PTL DEF Spec

\* From end to end: the chain sends with the frequencies of the trace.
THEOREM ChainRepeatsTheTrace == Spec => []ChainReplays
<1>1. TablesInv /\ ChainInv /\ SentInv => ChainReplays
  <2> SUFFICES ASSUME TablesInv, ChainInv, SentInv, InChannel, Len(last.before) = K,
                      \A i \in DOMAIN heap : heap[i] = 0
               PROVE  LET good == Follows(last.before, TRUE)
                          all == good + Follows(last.before, FALSE)
                      IN last.transmit <=> all # 0 /\ (last.rand + 1) * all <= MaxRand * good
    BY DEF ChainReplays
  <2>1. HasChain
    <3>1. Len(<<>>) = 0 /\ K # 0
      BY ChainOrder
    <3> QED
      BY <3>1 DEF SentInv
  <2>2. /\ pc \in Later /\ heap \in [Counters -> Nat]
        /\ Chained(mod.markov, heap, Inside)
        /\ last.rand \in Nat /\ DrewFrom(last, tables.chain.transitions)
    BY <2>1, HeapFacts DEF InChannel, Later, ChainInv, SentInv
  <2>3. PICK i \in States : Window(i) = last.before
                            /\ (last.transmit <=> last.rand < tables.chain.transitions[i])
    BY <2>2 DEF DrewFrom
  <2>4. tables.chain = markov_finalize(mod.markov)
    <3>1. tables = [free |-> calculate_values(mod.onoff.success_length, mod.onoff.success_total),
                    error |-> calculate_values(mod.onoff.error_length, mod.onoff.error_total),
                    chain |-> markov_finalize(mod.markov)]
      BY <2>2 DEF TablesInv
    <3> QED
      BY <3>1
  <2>5. mod.markov.state \in States /\ mod.markov.states \in [Counters -> Nat]
    BY <2>2 DEF Chained
  <2> DEFINE good == mod.markov.states[2 * i + 1]
             other == mod.markov.states[2 * i]
  <2>6. last.transmit <=> good + other # 0 /\ (last.rand + 1) * (good + other) <= MaxRand * good
    BY <2>2, <2>3, <2>4, <2>5, FinalizedChain
  <2>7. ASSUME NEW b \in BOOLEAN
        PROVE  mod.markov.states[2 * i + Bit(b)] = Follows(last.before, b)
    <3>1. mod.markov.states[2 * i + Bit(b)]
            = heap[2 * i + Bit(b)] + Cardinality(Windows(Inside, i, b))
      BY <2>2 DEF Chained
    <3>2. 2 * i + Bit(b) \in Counters
      BY CounterIs
    <3>3. heap[2 * i + Bit(b)] = 0
      BY <2>2, <3>2
    <3>4. Cardinality(Windows(Inside, i, b)) = Follows(last.before, b)
      BY <2>3, FollowsIsWindows
    <3>5. mod.markov.states[2 * i + Bit(b)] = 0 + Follows(last.before, b)
      BY <3>1, <3>3, <3>4, Zenon
    <3>6. Follows(last.before, b) \in Nat
      <4>1. \A s : IsFiniteSet(1..(Len(s) - K)) \/ ~(Len(s) \in Nat)
        BY FS_Interval, ChainOrder
      <4>2. Len(Inside) \in Nat
        <5>1. Inside = [x \in 1..Cardinality(Kept) |-> trace[Nth(Kept, x)]]
          BY DEF Inside
        <5>2. IsFiniteSet(Kept)
          <6>1. trace \in Trace
            BY DEF TablesInv
          <6>2. Positions = 1..Len(trace) /\ Len(trace) \in Nat
            BY <6>1 DEF Positions, Trace
          <6>3. Kept \in SUBSET (1..Len(trace))
            BY <6>2, Zenon DEF Kept
          <6>4. IsFiniteSet(1..Len(trace))
            BY <6>2, FS_Interval
          <6> QED
            BY <6>3, <6>4, FS_Subset
        <5>3. Cardinality(Kept) \in Nat
          BY <5>2, FS_CardinalityType
        <5> QED
          BY <5>1, <5>3
      <4>3. IsFiniteSet(1..(Len(Inside) - K))
        BY <4>1, <4>2
      <4>4. Windows(Inside, i, b) \in SUBSET (1..(Len(Inside) - K))
        BY DEF Windows
      <4> QED
        BY <3>4, <4>3, <4>4, FS_Subset, FS_CardinalityType
    <3> QED
      BY <3>5, <3>6
  <2>8. good = Follows(last.before, TRUE) /\ other = Follows(last.before, FALSE)
    <3>1. /\ mod.markov.states[2 * i + Bit(TRUE)] = good
          /\ mod.markov.states[2 * i + Bit(FALSE)] = other
      BY <2>5, CountersOf
    <3> QED
      BY <2>7, <3>1
  <2> HIDE DEF good, other
  <2> QED
    BY <2>6, <2>8
<1> QED
  BY <1>1, ChainRemembers, PTL

-----------------------------------------------------------------------------
(* The types.  None of them holds because a value was read from the trace: *)
(* a length is a number because runs were counted, the threshold because   *)
(* it is the largest of a finite set of numbers that is not empty, and     *)
(* what remains of a burst because no distribution has the length 0, other *)
(* than that of an empty trace, from which nothing is ever drawn.          *)

\* The counters of a ParamBasicOnOff.
OnOffSizes(o) ==
  /\ OnOff(o) /\ o.current_state \in BOOLEAN /\ o.length \in Nat
  /\ IsABag(o.success_length) /\ IsABag(o.error_length)

\* The counters of a ParamBasicMTA.
MtaSizes(m) ==
  /\ Mta(m) /\ m.current_state \in BOOLEAN
  /\ m.length \in Nat /\ m.length_error \in Nat /\ m.C \in Nat
  /\ OnOffSizes(m.onoff)

\* One more length in a bag.
LEMMA BagGrows ==
  ASSUME NEW B, IsABag(B), NEW l
  PROVE  IsABag(B (+) SetToBag({l}))
<1> DEFINE D == DOMAIN B
           U == B (+) SetToBag({l})
           E == D \cup {l}
           at(e) == (IF e \in D THEN B[e] ELSE 0) + (IF e \in {l} THEN 1 ELSE 0)
<1>1. \A e \in D : B[e] \in Nat /\ B[e] > 0
  BY DEF IsABag
<1>2. U = [e \in E |-> at(e)]
  <2>1. DOMAIN SetToBag({l}) = {l} /\ SetToBag({l})[l] = 1
    BY DEF SetToBag
  <2>2. U = [e \in D \cup DOMAIN SetToBag({l}) |->
              (IF e \in D THEN B[e] ELSE 0)
                + (IF e \in DOMAIN SetToBag({l}) THEN SetToBag({l})[e] ELSE 0)]
    BY DEF (+)
  <2>3. \A e : (IF e \in DOMAIN SetToBag({l}) THEN SetToBag({l})[e] ELSE 0)
                 = (IF e \in {l} THEN 1 ELSE 0)
    BY <2>1
  <2> QED
    BY <2>1, <2>2, <2>3, Zenon
<1>3. \A e \in E : at(e) \in {n \in Nat : n > 0}
  <2> SUFFICES ASSUME NEW e \in E PROVE at(e) \in {n \in Nat : n > 0}
    OBVIOUS
  <2> HIDE DEF D
  <2>1. CASE e \in D
    BY <1>1, <2>1
  <2>2. CASE e \notin D
    BY <2>2
  <2> QED
    BY <2>1, <2>2
<1> HIDE DEF at, E, U
<1>4. U \in [DOMAIN U -> {n \in Nat : n > 0}]
  BY <1>2, <1>3
<1> QED
  BY <1>4 DEF IsABag, U

\* A burst is counted.
LEMMA AddCharsSizes ==
  ASSUME NEW o, OnOffSizes(o), NEW b \in BOOLEAN, NEW len
  PROVE  OnOffSizes(onoff_addChars(o, b, len)) /\ onoff_addChars(o, b, len).length = o.length
<1> DEFINE q == onoff_addChars(o, b, len)
<1>1. /\ OnOff(o) /\ o.current_state \in BOOLEAN /\ o.length \in Nat
      /\ IsABag(o.success_length) /\ IsABag(o.error_length)
  BY DEF OnOffSizes
<1>2. /\ OnOff(q) /\ q.current_state = o.current_state /\ q.length = o.length
      /\ b => /\ q.success_length = o.success_length (+) SetToBag({len})
              /\ q.error_length = o.error_length
      /\ ~b => /\ q.error_length = o.error_length (+) SetToBag({len})
               /\ q.success_length = o.success_length
  BY <1>1, AddChars
<1> HIDE DEF q
<1>3. IsABag(q.success_length) /\ IsABag(q.error_length)
  BY <1>1, <1>2, BagGrows
<1>4. OnOffSizes(q) /\ q.length = o.length
  BY <1>1, <1>2, <1>3 DEF OnOffSizes
<1> QED
  BY <1>4 DEF q

\* A bit is added.
LEMMA AddCharSizes ==
  ASSUME NEW o, OnOffSizes(o), NEW input \in BOOLEAN
  PROVE  OnOffSizes(onoff_addChar(o, input))
<1>1. OnOff(o) /\ o.current_state \in BOOLEAN /\ o.length \in Nat
  BY DEF OnOffSizes
<1>2. CASE input = o.current_state
  <2>1. onoff_addChar(o, input) = [o EXCEPT !.length = @ + 1]
    BY <1>2 DEF onoff_addChar
  <2> QED
    BY <1>1, <2>1 DEF OnOffSizes, OnOff
<1>3. CASE input # o.current_state
  <2> DEFINE flushed == IF o.length # 0 THEN onoff_addChars(o, o.current_state, o.length) ELSE o
  <2>1. onoff_addChar(o, input) = [flushed EXCEPT !.current_state = input, !.length = 1]
    BY <1>3 DEF onoff_addChar
  <2>2. OnOffSizes(flushed)
    BY <1>1, AddCharsSizes
  <2> HIDE DEF flushed
  <2> DEFINE q == onoff_addChar(o, input)
  <2>3. /\ OnOff(q) /\ q.current_state = input /\ q.length = 1
        /\ q.success_length = flushed.success_length
        /\ q.error_length = flushed.error_length
    BY <2>1, <2>2 DEF OnOffSizes, OnOff
  <2> HIDE DEF q
  <2>4. OnOffSizes(q)
    BY <2>2, <2>3 DEF OnOffSizes
  <2> QED
    BY <2>4 DEF q
<1> QED
  BY <1>2, <1>3

\* Nothing is counted yet.
LEMMA NothingSizes ==
  OnOffSizes(NoBursts)
<1>1. IsABag(EmptyBag)
  BY DEF IsABag, EmptyBag, SetToBag
<1> QED
  BY <1>1 DEF OnOffSizes, OnOff, NoBursts

\* A run of received packets is over.
LEMMA EndOfRunSizes ==
  ASSUME NEW m, MtaSizes(m)
  PROVE  MtaSizes(mta_endOfRun(m))
<1> DEFINE q == mta_endOfRun(m)
           e == IF m.length_error # 0 THEN onoff_addChars(m.onoff, FALSE, m.length_error)
                ELSE m.onoff
<1>1. /\ Mta(m) /\ m.current_state \in BOOLEAN
      /\ m.length \in Nat /\ m.length_error \in Nat /\ m.C \in Nat /\ OnOffSizes(m.onoff)
  BY DEF MtaSizes
<1>2. /\ Mta(q) /\ q.current_state = m.current_state /\ q.length = m.length /\ q.C = m.C
      /\ m.length > m.C => q.onoff = onoff_addChars(e, TRUE, m.length) /\ q.length_error = 0
      /\ ~(m.length > m.C) => q.onoff = m.onoff /\ q.length_error = m.length_error + m.length
  BY <1>1, EndOfRunFields
<1>3. OnOffSizes(e) /\ OnOffSizes(onoff_addChars(e, TRUE, m.length))
  BY <1>1, AddCharsSizes
<1> HIDE DEF q, e
<1>4. OnOffSizes(q.onoff) /\ q.length_error \in Nat
  <2>1. m.length_error + m.length \in Nat /\ 0 \in Nat
    BY <1>1
  <2>2. CASE m.length > m.C
    BY <1>2, <1>3, <2>1, <2>2, Zenon
  <2>3. CASE ~(m.length > m.C)
    BY <1>1, <1>2, <2>1, <2>3, Zenon
  <2> QED
    BY <2>2, <2>3
<1>5. MtaSizes(q)
  BY <1>1, <1>2, <1>4 DEF MtaSizes
<1> QED
  BY <1>5 DEF q

\* A bit is added to a ParamBasicMTA.
LEMMA MtaAddCharSizes ==
  ASSUME NEW m, MtaSizes(m), NEW input \in BOOLEAN
  PROVE  MtaSizes(mta_addChar(m, input))
<1> DEFINE lost(q) == [q EXCEPT !.markov = markov_addChar(@, FALSE)]
           next == IF ~m.second_round THEN [m EXCEPT !.onoff = onoff_addChar(@, input)]
                   ELSE IF input = m.current_state
                   THEN [IF input THEN m ELSE lost(m) EXCEPT !.length = @ + 1]
                   ELSE [IF m.current_state THEN lost(mta_endOfRun(m))
                         ELSE [m EXCEPT !.length_error = @ + m.length] EXCEPT !.length = 1]
<1>1. /\ Mta(m) /\ m.current_state \in BOOLEAN
      /\ m.length \in Nat /\ m.length_error \in Nat /\ m.C \in Nat /\ OnOffSizes(m.onoff)
  BY DEF MtaSizes
<1>2. \A q : MtaSizes(q) => MtaSizes(lost(q))
  <2> SUFFICES ASSUME NEW q, MtaSizes(q) PROVE MtaSizes(lost(q))
    OBVIOUS
  <2>1. \A c : MtaSizes([q EXCEPT !.markov = c])
    BY DEF MtaSizes, Mta
  <2> QED
    BY <2>1
<1>3. \A q : MtaSizes(q) => MtaSizes([q EXCEPT !.length = @ + 1]) /\ MtaSizes([q EXCEPT !.length = 1])
  <2> SUFFICES ASSUME NEW q, MtaSizes(q)
               PROVE  MtaSizes([q EXCEPT !.length = @ + 1]) /\ MtaSizes([q EXCEPT !.length = 1])
    OBVIOUS
  <2>1. Mta(q) /\ q.length \in Nat
    BY DEF MtaSizes
  <2>2. \A n \in Nat : MtaSizes([q EXCEPT !.length = n])
    BY <2>1 DEF MtaSizes, Mta
  <2>3. q.length + 1 \in Nat /\ 1 \in Nat
    BY <2>1
  <2>4. [q EXCEPT !.length = @ + 1] = [q EXCEPT !.length = q.length + 1]
    BY <2>1 DEF Mta
  <2> QED
    BY <2>2, <2>3, <2>4
<1>4. MtaSizes([m EXCEPT !.length_error = @ + m.length])
  BY <1>1 DEF MtaSizes, Mta
<1>5. MtaSizes([m EXCEPT !.onoff = onoff_addChar(@, input)])
  <2>1. OnOffSizes(onoff_addChar(m.onoff, input))
    BY <1>1, AddCharSizes
  <2> QED
    BY <1>1, <2>1 DEF MtaSizes, Mta
<1>6. MtaSizes(lost(mta_endOfRun(m))) /\ MtaSizes(lost(m))
  BY <1>2, EndOfRunSizes
<1> HIDE DEF lost
<1>7. MtaSizes(next)
  BY <1>3, <1>4, <1>5, <1>6
<1>8. mta_addChar(m, input) = [next EXCEPT !.current_state = input]
  BY DEF mta_addChar, next, lost
<1> HIDE DEF next
<1> QED
  BY <1>7, <1>8 DEF MtaSizes, Mta

\* The buffers are emptied.
LEMMA FinalizedSizes ==
  ASSUME NEW m, MtaSizes(m)
  PROVE  MtaSizes(mta_finalize(m)) /\ MtaSizes([m EXCEPT !.onoff = onoff_flush(@)])
<1> DEFINE e == IF m.current_state THEN mta_endOfRun(m)
                ELSE [m EXCEPT !.length_error = @ + m.length]
<1>1. MtaSizes(e)
  <2>1. MtaSizes([m EXCEPT !.length_error = @ + m.length])
    BY DEF MtaSizes, Mta
  <2> QED
    BY <2>1, EndOfRunSizes
<1>2. mta_finalize(m) = e
      \/ mta_finalize(m) = [e EXCEPT !.onoff = onoff_addChars(@, FALSE, e.length_error)]
  BY DEF mta_finalize
<1> HIDE DEF e
<1>3. MtaSizes(mta_finalize(m))
  <2>1. OnOffSizes(onoff_addChars(e.onoff, FALSE, e.length_error))
    BY <1>1, AddCharsSizes DEF MtaSizes
  <2> QED
    BY <1>1, <1>2, <2>1 DEF MtaSizes, Mta
<1>4. MtaSizes([m EXCEPT !.onoff = onoff_flush(@)])
  <2>1. OnOffSizes(onoff_flush(m.onoff))
    BY AddCharSizes DEF onoff_flush, MtaSizes, OnOffSizes
  <2> QED
    BY <2>1 DEF MtaSizes, Mta
<1> QED
  BY <1>3, <1>4

-----------------------------------------------------------------------------

\* An estimator that has read nothing.
ReadNothing(m) ==
  /\ Mta(m) /\ m.current_state = FALSE /\ m.length = 0 /\ m.length_error = 0
  /\ m.onoff = NoBursts

\* At most one burst, of length 0, which finalize of ParamBasicMTA makes up.
NoLengths(o) == DOMAIN o.success_length \subseteq {0} /\ DOMAIN o.error_length \subseteq {0}

\* The types, with what they need: the burst whose packet leaves is not over,
\* and an empty trace has no length other than 0.
TypesInv ==
  /\ class \in Class \cup {"none"}
  /\ host \in {"none", "click", "tests"}
  /\ MtaSizes(mod)
  /\ trace = <<>> /\ pc \notin Later => ReadNothing(mod)
  /\ trace = <<>> /\ pc \in Later => NoLengths(mod.onoff)
  /\ trace = <<>> /\ pc = "search" =>
       SearchRecord(search) /\ search.min = 0 /\ search.max = 0 /\ search.pos = 0
  /\ burst.remaining \in Nat
  /\ pc = "emit" => burst.remaining > 0

\* Before the first bit.
LEMMA BeginsEmpty ==
  ASSUME NEW h
  PROVE  MtaSizes(mta_init(h)) /\ ReadNothing(mta_init(h))
<1> DEFINE m == mta_init(h)
<1>1. /\ Mta(m) /\ m.current_state = FALSE /\ m.C = 0 /\ m.onoff = NoBursts
      /\ m.length = 0 /\ m.length_error = 0
  BY InitialEstimator DEF mta_init
<1> HIDE DEF m
<1>2. MtaSizes(m) /\ ReadNothing(m)
  <2>1. 0 \in Nat /\ FALSE \in BOOLEAN
    OBVIOUS
  <2>2. m.current_state \in BOOLEAN /\ m.length \in Nat /\ m.length_error \in Nat /\ m.C \in Nat
    BY <1>1, <2>1, Zenon
  <2> QED
    BY <1>1, <2>2, NothingSizes, Zenon DEF MtaSizes, ReadNothing
<1> QED
  BY <1>2 DEF m

\* finalize without a bit.
LEMMA EmptyFinalized ==
  ASSUME NEW m, ReadNothing(m)
  PROVE  /\ NoLengths(m.onoff)
         /\ NoLengths(onoff_flush(m.onoff))
         /\ NoLengths(onoff_flush(mta_finalize(m).onoff))
<1>1. /\ Mta(m) /\ m.current_state = FALSE /\ m.length = 0 /\ m.length_error = 0
      /\ m.onoff = NoBursts
  BY DEF ReadNothing
<1>2. NoLengths(NoBursts) /\ OnOff(NoBursts) /\ NoBursts.length = 0
  BY DEF NoLengths, OnOff, NoBursts, EmptyBag, SetToBag
<1> DEFINE e == [m EXCEPT !.length_error = @ + m.length]
           o == onoff_addChars(NoBursts, FALSE, 0)
<1>3. mta_finalize(m).onoff = o
  <2>1. e.length_error = 0 /\ e.onoff = NoBursts /\ Mta(e)
    BY <1>1 DEF Mta
  <2>2. mta_finalize(m) = [e EXCEPT !.onoff = onoff_addChars(@, FALSE, e.length_error)]
    BY <1>1 DEF mta_finalize
  <2> HIDE DEF e
  <2> QED
    BY <2>1, <2>2 DEF Mta
<1>4. /\ OnOff(o) /\ o.length = 0
      /\ o.error_length = NoBursts.error_length (+) SetToBag({0})
      /\ o.success_length = NoBursts.success_length
  BY <1>2 DEF OnOff, onoff_addChars
<1> HIDE DEF o
<1>5. DOMAIN o.error_length \subseteq {0}
  <2>1. \A l \in DOMAIN o.error_length :
          l \in DOMAIN NoBursts.error_length \/ l \in DOMAIN SetToBag({0})
    BY <1>4 DEF (+)
  <2>2. DOMAIN SetToBag({0}) = {0}
    BY DEF SetToBag
  <2> QED
    BY <1>2, <2>1, <2>2 DEF NoLengths
<1>6. NoLengths(o)
  BY <1>2, <1>4, <1>5 DEF NoLengths
<1>7. NoLengths(onoff_flush(o)) /\ NoLengths(onoff_flush(NoBursts))
  <2>1. /\ onoff_flush(o).success_length = o.success_length
        /\ onoff_flush(o).error_length = o.error_length
    BY <1>4, EmptyFlush
  <2>2. /\ onoff_flush(NoBursts).success_length = NoBursts.success_length
        /\ onoff_flush(NoBursts).error_length = NoBursts.error_length
    BY <1>2, EmptyFlush
  <2> QED
    BY <1>2, <1>6, <2>1, <2>2 DEF NoLengths
<1> QED
  BY <1>1, <1>2, <1>3, <1>7

\* The distribution of a table without lengths has at most one point.
LEMMA NoDistribution ==
  ASSUME NEW map, DOMAIN map \subseteq {0}, NEW total
  PROVE  LET dist == calculate_values(map, total) IN dist = <<>> \/ Len(dist) = 1
<1> DEFINE n == Cardinality(DOMAIN map)
           dist == calculate_values(map, total)
<1>1. n = 0 \/ n = 1
  <2>1. DOMAIN map = {} \/ DOMAIN map = {0}
    OBVIOUS
  <2> QED
    BY <2>1, FS_EmptySet, FS_Singleton
<1>2. DOMAIN dist = 1..n
  BY DEF calculate_values
<1>3. \E f : dist = [i \in 1..n |-> f[i]]
  <2>1. dist = [i \in 1..n |-> dist[i]]
    BY DEF calculate_values
  <2> QED
    BY <2>1
<1> HIDE DEF dist, n
<1>4. PICK f : dist = [i \in 1..n |-> f[i]]
  BY <1>3
<1>5. ASSUME n = 0 PROVE dist = <<>>
  <2>1. [i \in 1..0 |-> f[i]] = <<>>
    OBVIOUS
  <2> QED
    BY <1>4, <1>5, <2>1, Zenon
<1>6. ASSUME n = 1 PROVE Len(dist) = 1
  <2>1. Len([i \in 1..1 |-> f[i]]) = 1
    OBVIOUS
  <2> QED
    BY <1>4, <1>6, <2>1, Zenon
<1>7. dist = <<>> \/ Len(dist) = 1
  BY <1>1, <1>5, <1>6, Zenon
<1> QED
  BY <1>7 DEF dist

\* At first all lengths are 0.
LEMMA TypesInitially ==
  Init => TypesInv
<1> SUFFICES ASSUME Init PROVE TypesInv
  OBVIOUS
<1>1. /\ class = "none" /\ host = "none" /\ pc = "start" /\ mod = mta_init(heap)
      /\ burst.remaining = 0
  BY DEF Init
<1> QED
  BY <1>1, BeginsEmpty DEF TypesInv, Later

\* A bit is fed.
LEMMA FeedTypes ==
  ASSUME TablesInv, TypesInv, Feed
  PROVE  TypesInv'
<1>1. /\ pc \in {"round1", "round2"} /\ pc' = pc /\ fed < Len(trace)
      /\ mod' = addChar(mod, trace[fed + 1])
      /\ UNCHANGED <<class, host, trace, burst>>
  BY DEF Feed, estimation, channel, measure
<1>2. trace # <<>> /\ trace[fed + 1] \in BOOLEAN /\ class \in Class /\ MtaSizes(mod)
  <2>1. trace \in Trace /\ fed \in 0..Len(trace) /\ class \in Class /\ MtaSizes(mod)
    BY <1>1 DEF TablesInv, TypesInv
  <2>2. Len(trace) \in Nat /\ \A i \in 1..Len(trace) : trace[i] \in BOOLEAN
    BY <2>1, TraceDomain
  <2>3. fed + 1 \in 1..Len(trace) /\ Len(trace) # 0
    BY <1>1, <2>1, <2>2
  <2>4. trace # <<>>
    BY <2>3
  <2> QED
    BY <2>1, <2>2, <2>3, <2>4
<1>3. MtaSizes(mod')
  <2>1. CASE class = "markovchain"
    <3>1. mod' = [mod EXCEPT !.markov = markov_addChar(@, trace[fed + 1])]
      BY <1>1, <2>1 DEF addChar
    <3>2. \A c : MtaSizes([mod EXCEPT !.markov = c])
      BY <1>2 DEF MtaSizes, Mta
    <3> QED
      BY <3>1, <3>2
  <2>2. CASE class = "basiconoff"
    <3>1. mod' = [mod EXCEPT !.onoff = onoff_addChar(@, trace[fed + 1])]
      BY <1>1, <2>2 DEF addChar
    <3>2. OnOffSizes(onoff_addChar(mod.onoff, trace[fed + 1]))
      BY <1>2, AddCharSizes DEF MtaSizes
    <3> QED
      BY <1>2, <3>1, <3>2 DEF MtaSizes, Mta
  <2>3. CASE class = "basicmta"
    <3>1. mod' = mta_addChar(mod, trace[fed + 1])
      BY <1>1, <2>3 DEF addChar
    <3> QED
      BY <1>2, <3>1, MtaAddCharSizes
  <2> QED
    BY <1>2, <2>1, <2>2, <2>3 DEF Class
<1> QED
  BY <1>1, <1>2, <1>3 DEF TypesInv, Class

\* The threshold is set.
LEMMA NextRoundTypes ==
  ASSUME TablesInv, TypesInv, NextRound
  PROVE  TypesInv'
<1>1. PICK threshold \in Thresholds(onoff_flush(mod.onoff)) :
        mod' = mta_nextRound(mod, threshold)
  BY DEF NextRound
<1>2. /\ pc = "round1" /\ pc' = "round2" /\ class = "basicmta"
      /\ UNCHANGED <<class, host, trace, burst>>
  BY DEF NextRound, estimation, channel, measure
<1>3. MtaSizes(mod) /\ Mta(mod) /\ (trace = <<>> => ReadNothing(mod)) /\ burst.remaining \in Nat
      /\ host \in {"none", "click", "tests"}
  BY <1>2 DEF TypesInv, MtaSizes, Later
<1>4. mod'.C \in Nat
  <2>1. TablesInv'
    BY NextRoundTables
  <2> QED
    BY <1>2, <2>1 DEF TablesInv, MtaInv
<1>5. /\ Mta(mod') /\ mod'.current_state = mod.current_state
      /\ mod'.length = 0 /\ mod'.length_error = 0 /\ mod'.onoff = NoBursts
  BY <1>1, <1>3 DEF mta_nextRound, onoff_reset, Mta
<1>6. MtaSizes(mod')
  <2>1. 0 \in Nat /\ mod.current_state \in BOOLEAN
    BY <1>3 DEF MtaSizes
  <2>2. mod'.current_state \in BOOLEAN /\ mod'.length \in Nat /\ mod'.length_error \in Nat
    BY <1>5, <2>1, Zenon
  <2> QED
    BY <1>4, <1>5, <2>2, NothingSizes, Zenon DEF MtaSizes
<1>7. trace' = <<>> => ReadNothing(mod')
  BY <1>2, <1>3, <1>5 DEF ReadNothing
<1> QED
  BY <1>2, <1>3, <1>6, <1>7 DEF TypesInv, Later

\* finalize.
LEMMA FinalizeTypes ==
  ASSUME TablesInv, TypesInv, Finalize
  PROVE  TypesInv'
<1>1. /\ pc = "finalize" /\ pc' = "print" /\ mod' = Finalized(mod)
      /\ UNCHANGED <<class, host, trace, burst>>
  BY DEF Finalize, estimation, channel, measure
<1>2. /\ MtaSizes(mod) /\ (trace = <<>> => ReadNothing(mod)) /\ burst.remaining \in Nat
      /\ host \in {"none", "click", "tests"} /\ class \in Class \cup {"none"}
  BY <1>1 DEF TypesInv, Later
<1> DEFINE e == IF class = "basicmta" THEN mta_finalize(mod) ELSE mod
<1>3. MtaSizes(e)
  BY <1>2, FinalizedSizes
<1>4. mod' = IF HasBursts THEN [e EXCEPT !.onoff = onoff_flush(@)] ELSE e
  BY <1>1 DEF Finalized
<1>5. MtaSizes(mod')
  <2> HIDE DEF e
  <2> QED
    BY <1>3, <1>4, FinalizedSizes
<1>6. trace = <<>> => NoLengths(mod'.onoff)
  <2> SUFFICES ASSUME trace = <<>> PROVE NoLengths(mod'.onoff)
    OBVIOUS
  <2>1. /\ NoLengths(mod.onoff) /\ NoLengths(onoff_flush(mod.onoff))
        /\ NoLengths(onoff_flush(mta_finalize(mod).onoff))
    BY <1>2, EmptyFinalized
  <2>2. CASE ~HasBursts
    BY <1>4, <2>1, <2>2 DEF HasBursts
  <2>3. CASE HasBursts
    <3>1. mod'.onoff = onoff_flush(e.onoff)
      <4> HIDE DEF e
      <4> QED
        BY <1>3, <1>4, <2>3 DEF MtaSizes, Mta
    <3>2. e = mod \/ e = mta_finalize(mod)
      OBVIOUS
    <3> HIDE DEF e
    <3> QED
      BY <2>1, <3>1, <3>2
  <2> QED
    BY <2>2, <2>3
<1> HIDE DEF e
<1> QED
  BY <1>1, <1>2, <1>5, <1>6 DEF TypesInv, Later

\* A length is drawn.
LEMMA PushDrawsTypes ==
  ASSUME TablesInv, ChannelInv, TypesInv, PushDraws
  PROVE  TypesInv'
<1>1. /\ pc = "idle" /\ HasBursts /\ pc' \in {"search", "wild"}
      /\ burst' = [burst EXCEPT !.current_state = ~@]
      /\ UNCHANGED <<class, trace, mod, tables, files, host>>
  BY DEF PushDraws, estimation, measure
<1>2. PICK rand \in Rand :
        LET d == IF burst'.current_state THEN burst'.free ELSE burst'.error IN
        /\ pc' = IF d = <<>> THEN "wild" ELSE "search"
        /\ search' = IF d = <<>> THEN search ELSE Search(d, rand)
  BY <1>1 DEF PushDraws
<1>3. burst = [error |-> Loaded("error"),
               free |-> IF Loads("error") THEN Loaded("free") ELSE <<>>,
               current_state |-> burst.current_state, remaining |-> burst.remaining]
  BY <1>1 DEF ChannelInv, InChannel
<1>4. burst'.remaining = burst.remaining /\ burst'.error = burst.error /\ burst'.free = burst.free
      /\ burst.error = Loaded("error")
      /\ burst.free = IF Loads("error") THEN Loaded("free") ELSE <<>>
  BY <1>1, <1>3
<1>5. /\ MtaSizes(mod) /\ (trace = <<>> => NoLengths(mod.onoff)) /\ burst.remaining \in Nat
      /\ host \in {"none", "click", "tests"} /\ class \in Class \cup {"none"}
  BY <1>1 DEF TypesInv, Later
<1>6. ASSUME trace = <<>>, pc' = "search"
      PROVE  SearchRecord(search') /\ search'.min = 0 /\ search'.max = 0 /\ search'.pos = 0
  <2> DEFINE d == IF burst'.current_state THEN burst'.free ELSE burst'.error
  <2>1. d # <<>> /\ search' = Search(d, rand)
    BY <1>2, <1>6
  <2>2. d = <<>> \/ d = tables.free \/ d = tables.error
    BY <1>4 DEF Loaded
  <2>3. /\ tables.free = calculate_values(mod.onoff.success_length, mod.onoff.success_total)
        /\ tables.error = calculate_values(mod.onoff.error_length, mod.onoff.error_total)
    <3>1. tables = [free |-> calculate_values(mod.onoff.success_length, mod.onoff.success_total),
                    error |-> calculate_values(mod.onoff.error_length, mod.onoff.error_total),
                    chain |-> markov_finalize(mod.markov)]
      BY <1>1 DEF TablesInv, Later
    <3> QED
      BY <3>1
  <2>4. /\ tables.free = <<>> \/ Len(tables.free) = 1
        /\ tables.error = <<>> \/ Len(tables.error) = 1
    BY <1>5, <1>6, <2>3, NoDistribution DEF NoLengths
  <2> HIDE DEF d
  <2>5. Len(d) = 1
    BY <2>1, <2>2, <2>4
  <2>6. search' = [dist |-> d, rand |-> rand, min |-> 0, max |-> Len(d) - 1, pos |-> Len(d) \div 2]
    BY <2>1 DEF Search
  <2>7. Len(d) - 1 = 0 /\ Len(d) \div 2 = 0
    BY <2>5
  <2> QED
    BY <2>6, <2>7 DEF SearchRecord
<1> QED
  BY <1>1, <1>4, <1>5, <1>6 DEF TypesInv, Later

\* In a distribution of one point, the search stays where it is.
LEMMA SearchMovesTypes ==
  ASSUME TypesInv, SearchMoves
  PROVE  TypesInv'
<1>1. /\ pc = "search" /\ search' = SearchStep(search)
      /\ UNCHANGED <<class, pc, trace, mod, host, burst>>
  BY DEF SearchMoves, estimation, measure
<1>2. ASSUME trace = <<>>
      PROVE  SearchRecord(search') /\ search'.min = 0 /\ search'.max = 0 /\ search'.pos = 0
  <2>1. SearchRecord(search) /\ search.min = 0 /\ search.max = 0 /\ search.pos = 0
    BY <1>1, <1>2 DEF TypesInv
  <2>2. Between(0, 0) = 0
    BY DEF Between
  <2>3. \/ search' = [search EXCEPT !.min = search.pos, !.pos = Between(search.pos, search.max)]
        \/ search' = [search EXCEPT !.max = search.pos, !.pos = Between(search.min, search.pos)]
    BY <1>1 DEF SearchStep
  <2> QED
    BY <2>1, <2>2, <2>3 DEF SearchRecord
<1> QED
  BY <1>1, <1>2 DEF TypesInv

\* The burst that was drawn has a packet.
LEMMA SearchEndsTypes ==
  ASSUME TablesInv, ChannelInv, TypesInv, SearchEnds
  PROVE  TypesInv'
<1>1. /\ pc = "search" /\ SearchOver(search) /\ pc' = "emit"
      /\ burst' = [burst EXCEPT !.remaining = Found(search)]
      /\ UNCHANGED <<class, trace, mod, host>>
  BY DEF SearchEnds, estimation, measure
<1>2. trace # <<>>
  <2>1. trace = <<>> => search.min = 0 /\ search.max = 0
    BY <1>1 DEF TypesInv
  <2> QED
    BY <1>1, <2>1 DEF SearchOver
<1>3. Found(search) \in Nat /\ Found(search) > 0
  <2>1. PICK S \in SUBSET (1..Len(trace)), i \in 0..(Len(Drawn) - 1) :
          /\ Drawn = calculate_values(LengthsOf(Stretches(S)), Cardinality(Stretches(S)))
          /\ Found(search) = point(Drawn, i)
    BY <1>1, <1>2, SearchResult
  <2>2. Len(trace) \in Nat
    BY <1>1, <1>2, SearchResult
  <2> DEFINE D == DOMAIN LengthsOf(Stretches(S))
             dist == Drawn
  <2>3. /\ Len(dist) = Cardinality(D)
        /\ \A j \in 0..(Cardinality(D) - 1) :
             point(dist, j) = Nth(D, j + 1) /\ Nth(D, j + 1) \in 1..Len(trace)
    BY <2>1, <2>2, DistributionFacts
  <2> HIDE DEF D, dist
  <2>4. point(dist, i) \in 1..Len(trace)
    <3>1. i \in 0..(Len(dist) - 1)
      BY <2>1 DEF dist
    <3> QED
      BY <2>3, <3>1
  <2>5. point(dist, i) \in Nat /\ point(dist, i) > 0
    BY <2>2, <2>4
  <2> QED
    BY <2>1, <2>5 DEF dist
<1>4. burst'.remaining = Found(search)
  <2>1. burst = [error |-> Loaded("error"),
                 free |-> IF Loads("error") THEN Loaded("free") ELSE <<>>,
                 current_state |-> burst.current_state, remaining |-> burst.remaining]
    BY <1>1 DEF ChannelInv, InChannel
  <2> QED
    BY <1>1, <2>1
<1> QED
  BY <1>1, <1>2, <1>3, <1>4 DEF TypesInv, Later

\* A packet leaves.
LEMMA EmitTypes ==
  ASSUME ChannelInv, TypesInv, Emit
  PROVE  TypesInv'
<1>1. /\ pc = "emit" /\ pc' = "idle" /\ burst' = [burst EXCEPT !.remaining = @ - 1]
      /\ UNCHANGED <<class, trace, mod, host>>
  BY DEF Emit, estimation, measure
<1>2. burst.remaining \in Nat /\ burst.remaining > 0
  BY <1>1 DEF TypesInv
<1>3. burst'.remaining = burst.remaining - 1
  <2>1. burst = [error |-> Loaded("error"),
                 free |-> IF Loads("error") THEN Loaded("free") ELSE <<>>,
                 current_state |-> burst.current_state, remaining |-> burst.remaining]
    BY <1>1 DEF ChannelInv, InChannel
  <2> QED
    BY <1>1, <2>1
<1>4. burst'.remaining \in Nat
  BY <1>2, <1>3
<1> QED
  BY <1>1, <1>4 DEF TypesInv, Later

\* Each step of the replay keeps the types.
LEMMA TypesPreserved ==
  TablesInv /\ ChannelInv /\ TypesInv /\ [Next]_vars => TypesInv'
<1> SUFFICES ASSUME TablesInv, ChannelInv, TypesInv, [Next]_vars PROVE TypesInv'
  OBVIOUS
<1>1. CASE MeasureNext /\ UNCHANGED <<class, heap, pc, fed, mod, tables, files, channel>>
  <2>1. pc = "start" /\ mod = mta_init(heap)
    BY <1>1, MeasureIsOver DEF TablesInv
  <2>2. MtaSizes(mod) /\ ReadNothing(mod)
    BY <2>1, BeginsEmpty
  <2> QED
    BY <1>1, <2>1, <2>2 DEF TypesInv, Later, channel
<1>2. CASE ParseInput
  <2>1. /\ pc' = "round1" /\ class' \in Class /\ mod' = mta_init(heap')
        /\ UNCHANGED <<host, burst>>
    BY <1>2 DEF ParseInput, channel
  <2>2. MtaSizes(mod') /\ ReadNothing(mod')
    BY <2>1, BeginsEmpty
  <2> QED
    BY <2>1, <2>2 DEF TypesInv, Later
<1>3. CASE Feed
  BY <1>3, FeedTypes
<1>4. CASE NextRound
  BY <1>4, NextRoundTypes
<1>5. CASE NeedFile \/ LastRound
  <2>1. /\ UNCHANGED <<class, host, mod, trace, burst>>
        /\ pc \notin Later /\ pc' \notin Later
    BY <1>5 DEF NeedFile, LastRound, estimation, channel, measure, Later
  <2> QED
    BY <2>1 DEF TypesInv, Later
<1>6. CASE Finalize
  BY <1>6, FinalizeTypes
<1>7. CASE PrintBinary \/ PrintFails
  <2>1. UNCHANGED <<class, host, mod, trace, burst>> /\ pc = "print" /\ pc' = "load"
    BY <1>7 DEF PrintBinary, PrintFails, estimation, channel, measure
  <2> QED
    BY <2>1 DEF TypesInv, Later
<1>8. CASE Load
  <2>1. /\ UNCHANGED <<class, mod, trace>> /\ pc = "load" /\ pc' \in {"idle", "refused"}
        /\ host' \in {"click", "tests"} /\ burst'.remaining = 0
    BY <1>8 DEF Load, estimation, measure
  <2> QED
    BY <2>1 DEF TypesInv, Later
<1>9. CASE Push
  <2>1. /\ UNCHANGED <<class, host, mod, trace, burst>> /\ burst.remaining > 0
        /\ pc = "idle" /\ pc' = "emit"
    BY <1>9 DEF Push, estimation, channel, measure
  <2> QED
    BY <2>1 DEF TypesInv, Later
<1>10. CASE PushDraws
  BY <1>10, PushDrawsTypes
<1>11. CASE SearchMoves
  BY <1>11, SearchMovesTypes
<1>12. CASE SearchEnds
  BY <1>12, SearchEndsTypes
<1>13. CASE Emit
  BY <1>13, EmitTypes
<1>14. CASE UNCHANGED vars \/ ChainOnly
  <2>1. /\ UNCHANGED <<class, host, mod, trace, burst, pc, search>>
    BY <1>14 DEF vars, ChainOnly, estimation, channel, measure
  <2> QED
    BY <2>1 DEF TypesInv
<1> QED
  BY <1>1, <1>2, <1>3, <1>4, <1>5, <1>6, <1>7, <1>8, <1>9, <1>10, <1>11, <1>12, <1>13, <1>14
     DEF Next

-----------------------------------------------------------------------------

\* Every variable of the replay has its type, whatever was measured, and
\* whatever is drawn: no length is negative, no state outside of its table.
THEOREM TypeCorrect == Spec => []TypeOK
<1>1. Init => TablesInv /\ ChainInv /\ SentInv /\ ChannelInv /\ TypesInv /\ MInv
  BY TablesInitially, ChainInitially, SentInitially, ChannelInitially, TypesInitially,
     MeasureInitially
<1>2. /\ TablesInv /\ ChainInv /\ SentInv /\ ChannelInv /\ TypesInv /\ MInv
      /\ [Next]_vars
      => (TablesInv /\ ChainInv /\ SentInv /\ ChannelInv /\ TypesInv /\ MInv)'
  BY TablesPreserved, ChainPreserved, SentPreserved, ChannelPreserved, TypesPreserved,
     ReplayPreserves
<1>3. TablesInv /\ ChainInv /\ SentInv /\ TypesInv /\ MInv => TypeOK
  <2> SUFFICES ASSUME TablesInv, ChainInv, SentInv, TypesInv, MInv PROVE TypeOK
    OBVIOUS
  <2>1. /\ class \in Class \cup {"none"} /\ heap \in Heaps
        /\ trace \in Seq(BOOLEAN) /\ log \in Seq(Nat)
        /\ fed \in 0..Len(trace) /\ host \in {"none", "click", "tests"}
        /\ burst.remaining \in Nat
    BY DEF TablesInv, Trace, ChainInv, TypesInv, MInv, MeasureTypes
  <2>2. /\ {mod.length, mod.length_error, mod.C, mod.onoff.length} \subseteq Nat
        /\ IsABag(mod.onoff.success_length) /\ IsABag(mod.onoff.error_length)
    BY DEF TypesInv, MtaSizes, OnOffSizes
  <2>3. /\ mod.markov.k \in 0..K /\ mod.markov.state \in 0..(state_mod - 1)
        /\ DOMAIN mod.markov.states = 0..(2 * state_mod - 1)
    <3>1. PICK s \in Seq(BOOLEAN) : Chained(mod.markov, heap, s)
      BY AlwaysFed
    <3>2. /\ mod.markov.state \in States /\ mod.markov.states \in [Counters -> Nat]
      BY <3>1 DEF Chained
    <3>3. mod.markov.k \in 0..K
      BY <3>1, ChainOrder DEF Chained
    <3> QED
      BY <3>2, <3>3, ChainOrder DEF States, Counters
  <2>4. /\ chain.state \in DOMAIN chain.transitions
        /\ \A i \in DOMAIN chain.transitions : chain.transitions[i] \in Rand
    BY DEF SentInv, ChainTable
  <2> QED
    BY <2>1, <2>2, <2>3, <2>4 DEF TypeOK
<1> QED
  BY <1>1, <1>2, <1>3, PTL DEF Spec

=============================================================================
