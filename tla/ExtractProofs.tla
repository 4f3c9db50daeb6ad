--------------------------- MODULE ExtractProofs ----------------------------
(***************************************************************************)
(* The counters of extract.c never get out of step and its clocks never    *)
(* get apart, for every slot length, window, sender, pattern of losses and *)
(* delays.                                                                 *)
(*                                                                         *)
(* First the counters, when the logs are single files and hold no          *)
(* duplicate of the packet number 0: the assertions of first_pass hold and *)
(* every slot is counted exactly once.  Between two slots the streams are  *)
(* aligned (SyncAssert), but this is not inductive: while a line is read,  *)
(* the new reference of the stream is its count_new, and a re-alignment    *)
(* may change the stream that is read.  CountInv says, for every place of  *)
(* the program, which two of the four counters differ by sync_count_diff.  *)
(*                                                                         *)
(* Then the references, under the same hypothesis (PlainLogs).             *)
(*                                                                         *)
(* The module begins with lemmas on the operators of Extract, which        *)
(* ExtractTruthProofs rests on, too.                                       *)
(***************************************************************************)
EXTENDS Extract, TLAPS

-----------------------------------------------------------------------------
(* What one call of read_input and one re-alignment do to a struct state,  *)
(* for one stream and one line.                                            *)

\* Interval is a positive number of ticks.
LEMMA IntervalType == Secure \in Nat /\ Interval \in Nat /\ Interval > 0
  BY ExtractAssumption DEF Interval

\* Taking a line over into struct state (extract.c:349-376).
LEMMA LineUpdate ==
  ASSUME NEW x \in InputType, NEW l \in [count : Nat, ts : Nat]
  PROVE  /\ Line(x, l) \in InputType
         /\ Line(x, l).count_new = l.count
         /\ Line(x, l).count_old = x.count_new
         /\ Line(x, l).desynchronization_resync = x.desynchronization_resync
         /\ Line(x, l).timestamp = l.ts
         /\ Line(x, l).timestamp_old = x.timestamp_old
  BY DEF Line, InputType

\* Setting the reference of a stream, and nothing else.
LEMMA ReferenceUpdate ==
  ASSUME NEW y \in InputType, NEW t \in Int,
         NEW d, d = [y EXCEPT !.timestamp_old = t]
  PROVE  /\ d \in InputType
         /\ d.count_new = y.count_new
         /\ d.count_old = y.count_old
         /\ d.desynchronization_resync = y.desynchronization_resync
         /\ d.timestamp = y.timestamp
         /\ d.timestamp_old = t
  BY DEF InputType

\* Setting the reference and restarting the count of late packets
\* (extract.c:397-402, 410-417).
LEMMA ResynchronisedUpdate ==
  ASSUME NEW y \in InputType, NEW t \in Int
  PROVE  /\ Resynchronised(y, t) \in InputType
         /\ Resynchronised(y, t).count_new = y.count_new
         /\ Resynchronised(y, t).count_old = y.count_old
         /\ Resynchronised(y, t).desynchronization_resync = y.desynchronization_resync
         /\ Resynchronised(y, t).timestamp = y.timestamp
         /\ Resynchronised(y, t).timestamp_old = t
  BY IntervalType DEF Resynchronised, InputType

\* Counting a late packet: the minimum is at most its lateness
\* (extract.c:404-409).
LEMMA LateUpdate ==
  ASSUME NEW y \in InputType, NEW n \in Nat
  PROVE  /\ Late(y, n) \in InputType
         /\ Late(y, n).count_new = y.count_new
         /\ Late(y, n).count_old = y.count_old
         /\ Late(y, n).desynchronization_resync = y.desynchronization_resync
         /\ Late(y, n).timestamp = y.timestamp
         /\ Late(y, n).timestamp_old = y.timestamp_old
         /\ Late(y, n).resynchronisation_min \in Nat
         /\ Late(y, n).resynchronisation_min <= n
<1> DEFINE c == y.resynchronisation_counter + 1
           m == IF n < y.resynchronisation_min THEN n ELSE y.resynchronisation_min
<1>1. c \in Nat /\ m \in Nat /\ m <= n
  BY DEF InputType
<1>2. Late(y, n) = [y EXCEPT !.resynchronisation_counter = c,
                             !.resynchronisation_min = m]
  BY DEF Late
<1> HIDE DEF c, m
<1> QED
  BY <1>1, <1>2 DEF InputType

\* The packets at which the streams are paired become their references
\* (synchronize_input, extract.c:552-556).
LEMMA SynchronisedUpdate ==
  ASSUME NEW x \in InputType
  PROVE  /\ Synchronised(x) \in InputType
         /\ Synchronised(x).count_new = x.count_new
         /\ Synchronised(x).count_old = x.count_new
         /\ Synchronised(x).timestamp = x.timestamp
         /\ Synchronised(x).timestamp_old = x.timestamp
         /\ Synchronised(x).desynchronization_resync = x.desynchronization_resync
<1> DEFINE n == x.count_new
           t == x.timestamp
           d == [x EXCEPT !.count_old = n, !.timestamp_old = t]
<1>1. n \in Nat /\ t \in Nat /\ t \in Int
  BY DEF InputType
<1>2. Synchronised(x) = d /\ n = x.count_new /\ t = x.timestamp
  BY DEF Synchronised
<1> HIDE DEF n, t
<1>3. /\ d \in InputType /\ d.count_new = x.count_new /\ d.count_old = n
      /\ d.timestamp = x.timestamp /\ d.timestamp_old = t
      /\ d.desynchronization_resync = x.desynchronization_resync
  BY <1>1 DEF InputType
<1> QED
  BY <1>2, <1>3

\* What the disappearance of a slot does to the counters.
LEMMA Removed ==
  ASSUME NEW st \in [Stream -> InputType], NEW s \in Stream
  PROVE  LET st2 == RemovePacket(st, s) IN
         /\ st2 \in [Stream -> InputType]
         /\ \A t \in Stream : t # s => st2[t] = st[t]
         /\ st2[s].count_new = st[s].count_new
         /\ st2[s].desynchronization_resync = st[s].desynchronization_resync + 1
         /\ st2[s].count_old = IF HasLoss(st[s]) THEN st[s].count_old + 1
                                                 ELSE st[s].count_old
         /\ st2[s].timestamp = st[s].timestamp
         /\ st2[s].timestamp_old = st[s].timestamp_old
<1> DEFINE x == st[s]
           d == [x EXCEPT !.desynchronization_resync = @ + 1,
                          !.count_old = IF HasLoss(x) THEN @ + 1 ELSE @]
           n == x.desynchronization_resync + 1
           c == IF HasLoss(x) THEN x.count_old + 1 ELSE x.count_old
<1>1. x \in InputType
  OBVIOUS
<1> HIDE DEF x
<1>2. n \in Nat /\ c \in Nat
  BY <1>1 DEF InputType
<1>3. d = [x EXCEPT !.desynchronization_resync = n, !.count_old = c]
  OBVIOUS
<1> HIDE DEF n, c, d
<1>4. /\ d \in InputType /\ d.count_new = x.count_new
      /\ d.desynchronization_resync = n /\ d.count_old = c
      /\ d.timestamp = x.timestamp /\ d.timestamp_old = x.timestamp_old
  BY <1>1, <1>2, <1>3 DEF InputType
<1>5. /\ d \in InputType /\ d.count_new = x.count_new
      /\ d.desynchronization_resync = x.desynchronization_resync + 1
      /\ d.count_old = IF HasLoss(x) THEN x.count_old + 1 ELSE x.count_old
      /\ d.timestamp = x.timestamp /\ d.timestamp_old = x.timestamp_old
  BY <1>4 DEF n, c
<1>6. RemovePacket(st, s) = [st EXCEPT ![s] = d]
  BY DEF RemovePacket, x, d
<1> QED
  BY <1>5, <1>6 DEF x

\* UNREAD_LINE gives the packet of stream s back (extract.c:786-793).
LEMMA UnreadUpdate ==
  ASSUME states \in [Stream -> InputType], NEW s \in Stream
  PROVE  /\ Unread(s) \in [Stream -> InputType]
         /\ \A t \in Stream : t # s => Unread(s)[t] = states[t]
         /\ Unread(s)[s].count_new = states[s].count_old
         /\ Unread(s)[s].count_old = states[s].count_old
         /\ Unread(s)[s].timestamp_old
              = states[s].timestamp_old - Interval * age(s)
         /\ Unread(s)[s].timestamp = states[s].timestamp
         /\ Unread(s)[s].desynchronization_resync
              = states[s].desynchronization_resync
<1> DEFINE x == states[s]
           n == x.desynchronization_drop_external + 1
           t == x.timestamp_old - Interval * age(s)
           c == x.count_old
           d == [x EXCEPT !.desynchronization_drop_external = n,
                          !.timestamp_old = t,
                          !.count_new = c]
<1>1. x \in InputType /\ n \in Nat /\ c \in Nat
  BY DEF InputType
<1>2. t \in Int
  BY <1>1, IntervalType DEF InputType, age
<1>3. Unread(s) = [states EXCEPT ![s] = d]
  BY DEF Unread
<1> HIDE DEF n, t, c
<1>4. /\ d \in InputType /\ d.count_new = c /\ d.count_old = x.count_old
      /\ d.timestamp_old = t /\ d.timestamp = x.timestamp
      /\ d.desynchronization_resync = x.desynchronization_resync
  BY <1>1, <1>2 DEF InputType
<1> HIDE DEF d
<1> QED
  BY <1>3, <1>4 DEF t, c

\* Stream s moves to slot c: the counter of its last packet is set.
LEMMA OldUpdate ==
  ASSUME NEW st \in [Stream -> InputType], NEW s \in Stream, NEW c \in Nat,
         NEW st2, st2 = [st EXCEPT ![s].count_old = c]
  PROVE  /\ st2 \in [Stream -> InputType]
         /\ \A t \in Stream : t # s => st2[t] = st[t]
         /\ st2[s].count_new = st[s].count_new
         /\ st2[s].count_old = c
         /\ st2[s].timestamp = st[s].timestamp
         /\ st2[s].timestamp_old = st[s].timestamp_old
         /\ st2[s].desynchronization_resync = st[s].desynchronization_resync
<1> DEFINE x == st[s]
           d == [x EXCEPT !.count_old = c]
<1>1. x \in InputType
  OBVIOUS
<1>2. /\ d \in InputType /\ d.count_new = x.count_new /\ d.count_old = c
      /\ d.timestamp = x.timestamp /\ d.timestamp_old = x.timestamp_old
      /\ d.desynchronization_resync = x.desynchronization_resync
  BY <1>1 DEF InputType
<1>3. st2 = [st EXCEPT ![s] = d]
  OBVIOUS
<1> HIDE DEF d
<1> QED
  BY <1>2, <1>3

\* The return values of read_input and, for each of them, what it does to
\* the counters and to the reference of the stream (extract.c:349-429).
LEMMA ReadInput ==
  ASSUME NEW x \in InputType, NEW l \in [count : Nat, ts : Nat], l.count # 0,
         NEW r, r = read_input(x, l)
  PROVE  /\ r.ret \in {-3, 0, 1, 2, 3}
         /\ r.st \in InputType
         /\ r.st.desynchronization_resync = x.desynchronization_resync
         /\ r.st.timestamp = l.ts
         /\ r.st.count_new <= l.count \/ r.st.count_new = x.count_new
         /\ r.ret = 0 => /\ r.st.count_new = x.count_new
                         /\ r.st.timestamp_old = x.timestamp_old
                         /\ x.count_new < l.count
                         /\ temp_ts(x, l) < l.ts
                         /\ Interval < l.ts - temp_ts(x, l)
         /\ r.ret > 0 => /\ r.st.count_new = l.count
                         /\ r.st.count_old = x.count_new
                         /\ x.count_new < l.count
         /\ r.ret = 1 => \/ /\ Synchronising(x)
                            /\ r.st.timestamp_old = x.timestamp_old
                         \/ /\ r.st.timestamp_old = temp_ts(x, l)
                            /\ temp_ts(x, l) < l.ts
         /\ r.ret = 2 => /\ r.st.timestamp_old = l.ts
                         /\ l.ts <= temp_ts(x, l)
                         /\ temp_ts(x, l) - l.ts <= Secure
         /\ r.ret = 3 => /\ temp_ts(x, l) <= r.st.timestamp_old
                         /\ r.st.timestamp_old <= l.ts
                         /\ l.ts - temp_ts(x, l) <= Interval
<1> DEFINE y == Line(x, l)
           t == temp_ts(x, l)
           lateness == l.ts - t
           z == Late(y, lateness)
<1>1. /\ y \in InputType
      /\ y.desynchronization_resync = x.desynchronization_resync
      /\ y.count_new = l.count /\ y.count_old = x.count_new
      /\ y.timestamp = l.ts /\ y.timestamp_old = x.timestamp_old
  BY LineUpdate
<1>2. t \in Int /\ lateness \in Int /\ l.ts \in Nat /\ l.count \in Nat
      /\ x.count_new \in Nat
  BY IntervalType DEF temp_ts, InputType
<1>3. r = IF NotIncreasing(x, l) THEN [ret |-> -3, st |-> y]
          ELSE IF Synchronising(x) THEN [ret |-> 1, st |-> y]
          ELSE IF TooEarly(x, l) THEN [ret |-> -3, st |-> y]
          ELSE IF lateness > Interval
            THEN [ret |-> 0,
                  st |-> [y EXCEPT !.count_new = x.count_new,
                                   !.desynchronization_drop_internal = @ + 1]]
          ELSE IF lateness <= 0 THEN [ret |-> 2, st |-> Resynchronised(y, l.ts)]
          ELSE IF z.resynchronisation_counter > Window
            THEN [ret |-> 3,
                  st |-> Resynchronised(z, t + z.resynchronisation_min)]
          ELSE [ret |-> 1, st |-> [z EXCEPT !.timestamp_old = t]]
  BY DEF read_input
<1>4. ~NotIncreasing(x, l) => x.count_new < l.count
  BY <1>2 DEF NotIncreasing
<1>5. TooEarly(x, l) <=> t - l.ts > Secure
  BY DEF TooEarly
<1>6. Secure \in Nat /\ Interval \in Nat
  BY IntervalType
<1> HIDE DEF y, t, z
<1>7. CASE NotIncreasing(x, l)
  BY <1>1, <1>3, <1>7
<1>8. CASE ~NotIncreasing(x, l) /\ Synchronising(x)
  BY <1>1, <1>3, <1>4, <1>8
<1>9. CASE ~NotIncreasing(x, l) /\ ~Synchronising(x) /\ TooEarly(x, l)
  BY <1>1, <1>3, <1>9
<1>10. CASE /\ ~NotIncreasing(x, l) /\ ~Synchronising(x) /\ ~TooEarly(x, l)
            /\ lateness > Interval
  <2> DEFINE d == [y EXCEPT !.count_new = x.count_new,
                            !.desynchronization_drop_internal = @ + 1]
  <2>1. r = [ret |-> 0, st |-> d]
    BY <1>3, <1>10
  <2> DEFINE n == y.desynchronization_drop_internal + 1
  <2>2. d = [y EXCEPT !.count_new = x.count_new,
                      !.desynchronization_drop_internal = n]
        /\ n \in Nat
    <3>1. n \in Nat
      BY <1>1 DEF InputType
    <3> QED
      BY <3>1
  <2> HIDE DEF d, n
  <2>3. /\ d \in InputType /\ d.count_new = x.count_new
        /\ d.desynchronization_resync = y.desynchronization_resync
        /\ d.timestamp = y.timestamp /\ d.timestamp_old = y.timestamp_old
    BY <1>1, <1>2, <2>2 DEF InputType
  <2>4. t < l.ts /\ Interval < l.ts - t
    BY <1>2, <1>6, <1>10
  <2> QED
    BY <1>1, <1>4, <1>10, <2>1, <2>3, <2>4 DEF t
<1>11. CASE /\ ~NotIncreasing(x, l) /\ ~Synchronising(x) /\ ~TooEarly(x, l)
            /\ ~(lateness > Interval) /\ lateness <= 0
  <2> DEFINE d == Resynchronised(y, l.ts)
  <2>1. r = [ret |-> 2, st |-> d]
    BY <1>3, <1>11
  <2>2. /\ d \in InputType
        /\ d.count_new = l.count /\ d.count_old = x.count_new
        /\ d.desynchronization_resync = x.desynchronization_resync
        /\ d.timestamp = l.ts /\ d.timestamp_old = l.ts
    <3>1. l.ts \in Int
      BY <1>2
    <3> QED
      BY <1>1, <3>1, ResynchronisedUpdate
  <2> HIDE DEF d
  <2>3. l.ts <= t /\ t - l.ts <= Secure
    BY <1>2, <1>5, <1>6, <1>11
  <2> QED
    BY <1>4, <1>11, <2>1, <2>2, <2>3 DEF t
<1>12. CASE /\ ~NotIncreasing(x, l) /\ ~Synchronising(x) /\ ~TooEarly(x, l)
            /\ ~(lateness > Interval) /\ ~(lateness <= 0)
  <2>1. lateness \in Nat /\ lateness > 0 /\ lateness <= Interval /\ t < l.ts
    BY <1>2, <1>6, <1>12
  <2>2. /\ z \in InputType
        /\ z.desynchronization_resync = x.desynchronization_resync
        /\ z.count_new = l.count /\ z.count_old = x.count_new
        /\ z.timestamp = l.ts
        /\ z.resynchronisation_min \in Nat
        /\ z.resynchronisation_min <= lateness
    BY <1>1, <2>1, LateUpdate DEF z
  <2>3. CASE z.resynchronisation_counter > Window
    <3> DEFINE d == Resynchronised(z, t + z.resynchronisation_min)
    <3>1. r = [ret |-> 3, st |-> d]
      BY <1>3, <1>12, <2>3
    <3>2. t + z.resynchronisation_min \in Int
      BY <1>2, <2>2
    <3>3. /\ d \in InputType
          /\ d.count_new = l.count /\ d.count_old = x.count_new
          /\ d.desynchronization_resync = x.desynchronization_resync
          /\ d.timestamp = l.ts
          /\ d.timestamp_old = t + z.resynchronisation_min
      BY <2>2, <3>2, ResynchronisedUpdate
    <3> HIDE DEF d
    <3>4. /\ t <= t + z.resynchronisation_min
          /\ t + z.resynchronisation_min <= l.ts
      BY <1>2, <2>2
    <3> QED
      BY <1>4, <1>12, <2>1, <3>1, <3>3, <3>4 DEF t
  <2>4. CASE ~(z.resynchronisation_counter > Window)
    <3> DEFINE d == [z EXCEPT !.timestamp_old = t]
    <3>1. r = [ret |-> 1, st |-> d]
      BY <1>3, <1>12, <2>4
    <3>2. /\ d \in InputType
          /\ d.count_new = l.count /\ d.count_old = x.count_new
          /\ d.desynchronization_resync = x.desynchronization_resync
          /\ d.timestamp = l.ts /\ d.timestamp_old = t
      BY <1>2, <2>2, ReferenceUpdate
    <3> HIDE DEF d
    <3> QED
      BY <1>4, <1>12, <2>1, <3>1, <3>2 DEF t
  <2> QED
    BY <2>3, <2>4
<1> QED
  BY <1>7, <1>8, <1>9, <1>10, <1>11, <1>12

-----------------------------------------------------------------------------
(* The inductive invariant.                                                *)

\* The check of read_input that lets a count of 0 through is never needed.
Numbered == First > 0 \/ 0 \notin Gaps

\* Besides, the logs are not rotated.
PlainLogs == Files = 1 /\ Numbered

Old(s) == states[s].count_old
New(s) == states[s].count_new
Gone(s) == states[s].desynchronization_resync

\* By how many slots counter a of stream 0 is ahead of counter b of stream 1.
Gap(a, b) == a - b - sync_count_diff

\* The streams are being paired: synchronize_input is over.
Paired ==
  \/ pc \in {"pass", "update", "both", "stats0", "again"}
  \/ pc = "read" /\ then \in {"update", "both", "again"}

\* The lines are read in the order of their counters.
LogInv == \A s \in Stream : First <= log[s].count /\ New(s) <= log[s].count

PassInv ==
  pc = "pass" =>
    /\ Gap(Old(0), Old(1)) = 0
    /\ \/ Old(0) < New(0) /\ Old(1) < New(1)
       \/ Old(0) = New(0) /\ Old(1) = New(1) /\ ~Apart

UpdateInv ==
  pc = "update" =>
    Gap(Old(0), Old(1)) = 0 /\ Old(0) < New(0) /\ Old(1) < New(1)

BothInv ==
  pc \in {"both", "stats0"} =>
    /\ Old(0) < New(0)
    /\ \/ Untouched /\ Ahead = 0
       \/ ~Untouched /\ Ahead <= 1

AgainInv == pc = "again" => Old(0) < New(0) /\ Ahead <= 0

ReadUpdateInv ==
  pc = "read" /\ then = "update" =>
    \/ inc = 0 /\ Gap(New(0), Old(1)) = 0 /\ Old(1) < New(1)
    \/ inc = 1 /\ Gap(Old(0), New(1)) = 0 /\ Old(0) < New(0)

ReadBothInv ==
  pc = "read" /\ then = "both" =>
    \/ inc = 0 /\ Old(1) = u64_temp /\ Old(1) <= New(1) /\ Gap(New(0), New(1)) = 0
    \/ inc = 0 /\ u64_temp < Old(1) /\ Old(1) < New(1) /\ Gap(New(0), Old(1)) <= 1
    \/ inc = 1 /\ u64_temp < New(1) /\ Old(0) < New(0) /\ Gap(Old(0), New(1)) <= 1

ReadAgainInv ==
  pc = "read" /\ then = "again" =>
    \/ inc = 0 /\ Old(1) < New(1) /\ Gap(New(0), Old(1)) <= 1
    \/ inc = 1 /\ Old(0) < New(0) /\ Gap(Old(0), New(1)) <= 1

\* What a re-alignment removes from a stream is what the difference of the
\* counters has moved by.
DiffInv ==
  Paired => sync_count_diff = synced[0] - synced[1] + Gone(0) - Gone(1)

\* The slots counted, on stream 0.
SlotInv ==
  /\ Paired =>
       Slots + Gone(0)
         = (IF pc = "read" /\ inc = 0 THEN New(0) ELSE Old(0)) - synced[0]
  /\ ~Paired /\ pc \notin {"eof", "exit"} =>
       Slots = 0 /\ Gone(0) = 0 /\ Gone(1) = 0

CountInv ==
  /\ TypeOK /\ LogInv
  /\ PassInv /\ UpdateInv /\ BothInv /\ AgainInv
  /\ ReadUpdateInv /\ ReadBothInv /\ ReadAgainInv
  /\ DiffInv /\ SlotInv

-----------------------------------------------------------------------------
(* What reading a line does to the counters.                               *)

\* The types of the variables, one by one.
LEMMA Types ==
  ASSUME TypeOK
  PROVE  /\ states \in [Stream -> InputType]
         /\ \A s \in Stream : states[s] \in InputType
         /\ \A s \in Stream : Old(s) \in Nat /\ New(s) \in Nat /\ Gone(s) \in Nat
         /\ sync_count_diff \in Int /\ u64_temp \in Nat
         /\ \A s \in Stream : log[s].count \in Nat /\ log[s].ts \in Nat
         /\ \A s \in Stream : synced[s] \in Nat
         /\ inc \in Stream /\ in_state \in Stream
  BY DEF TypeOK, InputType, Old, New, Gone

\* The lines of a log are typed, in order and, in a plain log, not number 0.
LEMMA LineFacts ==
  ASSUME Numbered, TypeOK, NEW s \in Stream, First <= log[s].count,
         NEW l \in Lines(s)
  PROVE  /\ l \in [count : Nat, ts : Nat]
         /\ log[s].count <= l.count /\ First <= l.count
         /\ l.count # 0 
<1>1. /\ log[s].count \in Nat /\ First \in Nat /\ First <= log[s].count
      /\ Gaps \subseteq Nat /\ Delays \subseteq Nat /\ Lead[s] \in Nat
  BY ExtractAssumption, Types
<1>2. PICK g \in Gaps : l.count = log[s].count + g
  BY DEF Lines
<1>3. l.count \in Nat /\ log[s].count <= l.count /\ First <= l.count
  BY <1>1, <1>2
<1>4. l.count # 0
  BY <1>1, <1>2, <1>3 DEF Numbered
<1>5. PICK h \in Gaps, d \in Delays : l.ts = Due(s, log[s].count + h) + d
  BY DEF Lines
<1>6. Due(s, log[s].count + h) \in Nat
  BY <1>1, IntervalType DEF Due
<1>7. l.ts \in Nat
  BY <1>1, <1>5, <1>6
<1>8. l = [count |-> l.count, ts |-> l.ts]
  BY DEF Lines
<1> QED
  BY <1>3, <1>4, <1>7, <1>8

\* The program stops reading: a line made read_input exit.
Stopped == pc' = "exit" /\ UNCHANGED <<sync_count_diff, inc>>

\* The line of stream s was dropped.
Dropped(s, o) ==
  /\ pc' = "read" /\ inc' = s
  /\ New(s)' = New(s) /\ Gone(s)' = Gone(s)
  /\ New(o)' = New(o) /\ Old(o)' = Old(o) /\ Gone(o)' = Gone(o)
  /\ sync_count_diff' = sync_count_diff

\* The line of stream s is its next packet.
Taken(s, o) ==
  /\ pc' = then /\ inc' = s
  /\ Old(s)' = New(s) /\ New(s) < New(s)' /\ Gone(s)' = Gone(s)
  /\ New(o)' = New(o) /\ Old(o)' = Old(o) /\ Gone(o)' = Gone(o)
  /\ sync_count_diff' = sync_count_diff

\* It is, and one slot of stream s disappeared.
TakenBack(s, o) ==
  /\ Gone(s)' = Gone(s) + 1
  /\ New(o)' = New(o) /\ Old(o)' = Old(o) /\ Gone(o)' = Gone(o)
  /\ sync_count_diff' = sync_count_diff + Sign(s)
  /\ inc' = s
  /\ \/ pc' = "read" /\ New(s)' = New(s) + 1
     \/ pc' = then /\ Old(s)' = New(s) + 1 /\ New(s)' > New(s) + 1

\* It is, and one slot of the other stream disappeared.
TakenForward(s, o) ==
  /\ Old(s)' = New(s) /\ New(s) < New(s)' /\ Gone(s)' = Gone(s)
  /\ New(o)' = New(o) /\ Gone(o)' = Gone(o) + 1
  /\ sync_count_diff' = sync_count_diff - Sign(s)
  /\ \/ pc' = "read" /\ inc' = o /\ New(o) = Old(o) + 1 /\ Old(o)' = Old(o)
     \/ pc' = then /\ inc' = s /\ New(o) # Old(o) + 1 /\ Old(o)' = Old(o) + 1

\* A line that is read has one of these effects on the counters, and only
\* the pairing re-aligns the streams (next_input, extract.c:438-504).
LEMMA ReadOutcome ==
  ASSUME PlainLogs, TypeOK, LogInv, ReadLine,
         NEW s \in Stream, NEW o \in Stream, s # o, inc = s
  PROVE  /\ states' \in [Stream -> InputType] /\ LogInv'
         /\ log' \in [Stream -> [count : Nat, ts : Nat, file : 1..Files,
                                 ended : BOOLEAN]]
         /\ \/ Stopped
            \/ Dropped(s, o)
            \/ Taken(s, o)
            \/ then \notin {"first", "sync"} /\ TakenBack(s, o)
            \/ then \notin {"first", "sync"} /\ TakenForward(s, o)
<1>1. PICK l \in Lines(s) :
        /\ log' = [log EXCEPT ![s].count = l.count, ![s].ts = l.ts]
        /\ next_input(read_input(states[s], l).ret,
                      [states EXCEPT ![s] = read_input(states[s], l).st])
  BY DEF ReadLine
<1> DEFINE x == states[s]
           r == read_input(x, l)
           st == [states EXCEPT ![s] = r.st]
<1>2. /\ l \in [count : Nat, ts : Nat] /\ l.count # 0
      /\ log[s].count <= l.count /\ First <= l.count
  BY LineFacts DEF PlainLogs, LogInv
<1>3. x \in InputType
  BY Types
<1>4. o = Other(s) /\ s = Other(o)
  BY DEF Stream, Other
<1> HIDE DEF r
<1>5. /\ r.ret \in {-3, 0, 1, 2, 3}
      /\ r.st \in InputType
      /\ r.st.desynchronization_resync = x.desynchronization_resync
      /\ r.st.count_new <= l.count \/ r.st.count_new = x.count_new
      /\ r.ret = 0 => r.st.count_new = x.count_new
      /\ r.ret > 0 => /\ r.st.count_new = l.count
                      /\ r.st.count_old = x.count_new
                      /\ x.count_new < l.count
  <2>1. r = read_input(x, l)
    BY DEF r
  <2> QED
    BY <1>2, <1>3, <2>1, ReadInput
<1>6. /\ st \in [Stream -> InputType] /\ st[s] = r.st /\ st[o] = states[o]
  BY <1>5, Types
<1>7. next_input(r.ret, st)
  BY <1>1 DEF r
<1>8. /\ x.count_new = New(s) /\ x.desynchronization_resync = Gone(s)
      /\ New(s) \in Nat /\ Gone(s) \in Nat /\ New(o) \in Nat /\ Old(o) \in Nat
      /\ st[o].count_new = New(o) /\ st[o].count_old = Old(o)
      /\ st[o].desynchronization_resync = Gone(o)
  BY <1>6, Types DEF New, Old, Gone
<1>9. /\ log' \in [Stream -> [count : Nat, ts : Nat, file : 1..Files,
                              ended : BOOLEAN]]
      /\ log'[s].count = l.count /\ log'[o].count = log[o].count
  BY <1>1, <1>2 DEF TypeOK
<1>10. ASSUME /\ states' \in [Stream -> InputType]
              /\ states'[s].count_new = st[s].count_new
              /\ states'[o].count_new = st[o].count_new
       PROVE  LogInv'
  <2>1. New(s)' <= log'[s].count /\ First <= log'[s].count
    <3>1. New(s) <= log[s].count /\ log[s].count \in Nat
      BY Types DEF LogInv
    <3>2. New(s)' = r.st.count_new
      BY <1>6, <1>10 DEF New
    <3> QED
      BY <1>2, <1>5, <1>8, <1>9, <3>1, <3>2, Types
  <2>2. New(o)' <= log'[o].count /\ First <= log'[o].count
    BY <1>8, <1>9, <1>10 DEF New, LogInv
  <2>3. \A t \in Stream : t = s \/ t = o
    BY DEF Stream
  <2> QED
    BY <2>1, <2>2, <2>3 DEF LogInv
<1> HIDE DEF st, x
<1>11. CASE /\ r.ret = -3 /\ pc' = "exit" /\ states' = st
            /\ UNCHANGED <<sync_count_diff, inc>>
  BY <1>6, <1>9, <1>10, <1>11 DEF Stopped
<1>12. CASE r.ret = 0 /\ states' = st /\ UNCHANGED <<sync_count_diff, pc, inc>>
  <2>1. pc' = "read"
    BY <1>12 DEF ReadLine
  <2>2. Dropped(s, o)
    BY <1>5, <1>6, <1>8, <1>12, <2>1 DEF Dropped, New, Old, Gone
  <2> QED
    BY <1>6, <1>9, <1>10, <1>12, <2>2
<1>13. CASE /\ r.ret = 2 /\ then \notin {"first", "sync"}
            /\ Realign(st, s, sync_count_diff + Sign(s))
  <2>1. /\ states' = RemovePacket(st, s)
        /\ sync_count_diff' = sync_count_diff + Sign(s)
        /\ IF HasLoss(st[s]) THEN pc' = then /\ inc' = inc
                             ELSE inc' = s /\ pc' = pc
    BY <1>13 DEF Realign
  <2>2. /\ states' \in [Stream -> InputType]
        /\ states'[o] = st[o]
        /\ states'[s].count_new = st[s].count_new
        /\ states'[s].desynchronization_resync = st[s].desynchronization_resync + 1
        /\ states'[s].count_old = IF HasLoss(st[s]) THEN st[s].count_old + 1
                                                    ELSE st[s].count_old
    BY <1>6, <2>1, Removed
  <2>3. /\ st[s].count_old = New(s) /\ st[s].count_new = l.count
        /\ st[s].desynchronization_resync = Gone(s)
        /\ New(s) < l.count /\ l.count \in Nat
    BY <1>2, <1>5, <1>6, <1>8, <1>13
  <2>4. HasLoss(st[s]) <=> l.count # New(s) + 1
    BY <1>8, <2>3 DEF HasLoss
  <2>5. pc = "read"
    BY DEF ReadLine
  <2>6. /\ Gone(s)' = Gone(s) + 1
        /\ New(o)' = New(o) /\ Old(o)' = Old(o) /\ Gone(o)' = Gone(o)
        /\ inc' = s /\ New(s)' = l.count
    BY <1>8, <2>1, <2>2, <2>3 DEF New, Old, Gone
  <2>7. TakenBack(s, o)
    <3>1. CASE HasLoss(st[s])
      <4>1. Old(s)' = New(s) + 1
        BY <2>2, <2>3, <3>1 DEF Old
      <4>2. New(s)' > New(s) + 1
        BY <1>8, <2>3, <2>4, <2>6, <3>1
      <4> QED
        BY <2>1, <2>6, <3>1, <4>1, <4>2 DEF TakenBack
    <3>2. CASE ~HasLoss(st[s])
      <4>1. New(s)' = New(s) + 1 /\ pc' = "read"
        BY <2>1, <2>4, <2>5, <2>6, <3>2
      <4> QED
        BY <2>1, <2>6, <4>1 DEF TakenBack
    <3> QED
      BY <3>1, <3>2
  <2> QED
    BY <1>9, <1>10, <1>13, <2>2, <2>7
<1>14. CASE /\ r.ret = 3 /\ then \notin {"first", "sync"}
            /\ Realign(st, o, sync_count_diff - Sign(s))
  <2>1. /\ states' = RemovePacket(st, o)
        /\ sync_count_diff' = sync_count_diff - Sign(s)
        /\ IF HasLoss(st[o]) THEN pc' = then /\ inc' = inc
                             ELSE inc' = o /\ pc' = pc
    BY <1>14 DEF Realign
  <2>2. /\ states' \in [Stream -> InputType]
        /\ states'[s] = st[s]
        /\ states'[o].count_new = st[o].count_new
        /\ states'[o].desynchronization_resync = st[o].desynchronization_resync + 1
        /\ states'[o].count_old = IF HasLoss(st[o]) THEN st[o].count_old + 1
                                                    ELSE st[o].count_old
    BY <1>6, <2>1, Removed
  <2>3. /\ Old(s)' = New(s) /\ New(s)' = l.count /\ Gone(s)' = Gone(s)
        /\ New(s) < l.count
    BY <1>5, <1>6, <1>8, <1>14, <2>2 DEF New, Old, Gone
  <2>4. HasLoss(st[o]) <=> New(o) # Old(o) + 1
    BY <1>8 DEF HasLoss
  <2>5. pc = "read"
    BY DEF ReadLine
  <2>6. New(o)' = New(o) /\ Gone(o)' = Gone(o) + 1
    BY <1>8, <2>2 DEF New, Gone
  <2>7. Old(o)' = IF HasLoss(st[o]) THEN Old(o) + 1 ELSE Old(o)
    BY <1>8, <2>2 DEF Old
  <2>8. TakenForward(s, o)
    BY <2>1, <2>3, <2>4, <2>5, <2>6, <2>7 DEF TakenForward
  <2> QED
    BY <1>9, <1>10, <1>14, <2>2, <2>8
<1>15. CASE /\ r.ret > 0 /\ states' = st /\ pc' = then
            /\ UNCHANGED <<sync_count_diff, inc>>
  <2>1. Taken(s, o)
    BY <1>5, <1>6, <1>8, <1>15 DEF Taken, New, Old, Gone
  <2> QED
    BY <1>6, <1>9, <1>10, <1>15, <2>1
<1> QED
  BY <1>4, <1>7, <1>11, <1>12, <1>13, <1>14, <1>15 DEF next_input

-----------------------------------------------------------------------------
(* The statistics.                                                         *)

\* One of four numbers grows by 1, another by n - 1.
LEMMA FourSums ==
  ASSUME NEW p \in Int, NEW q \in Int, NEW r \in Int, NEW t \in Int, NEW n \in Int
  PROVE  /\ (p + (n - 1)) + (q + 1) + r + t = p + q + r + t + n
         /\ (p + (n - 1)) + q + (r + 1) + t = p + q + r + t + n
         /\ (p + (n - 1)) + q + r + (t + 1) = p + q + r + t + n
  OBVIOUS

\* The number of slots counted is a natural number.
LEMMA SlotsType ==
  ASSUME TypeOK
  PROVE  Slots \in Nat
<1>1. /\ <<0, 0>> \in Stream \X Stream /\ <<0, 1>> \in Stream \X Stream
      /\ <<1, 0>> \in Stream \X Stream /\ <<1, 1>> \in Stream \X Stream
  BY DEF Stream
<1>2. u64_stats \in [Stream \X Stream -> Nat]
  BY DEF TypeOK
<1>3. /\ u64_stats[<<0, 0>>] \in Nat /\ u64_stats[<<0, 1>>] \in Nat
      /\ u64_stats[<<1, 0>>] \in Nat /\ u64_stats[<<1, 1>>] \in Nat
  BY <1>1, <1>2
<1> QED
  BY <1>3 DEF Slots

\* The counters of n > 0 slots count n slots.
LEMMA Counted ==
  ASSUME u64_stats \in [Stream \X Stream -> Nat],
         NEW a \in Stream, NEW b \in Stream, <<a, b>> # <<0, 0>>,
         NEW n \in Nat, n > 0, u64_stats' = Count(a, b, n)
  PROVE  u64_stats' \in [Stream \X Stream -> Nat] /\ Slots' = Slots + n
<1> DEFINE lost == IF n > 1 THEN n - 1 ELSE 0
           v == [u64_stats EXCEPT ![<<0, 0>>] = @ + lost]
<1>1. lost \in Nat /\ lost = n - 1
  OBVIOUS
<1>2. /\ <<0, 0>> \in Stream \X Stream /\ <<0, 1>> \in Stream \X Stream
      /\ <<1, 0>> \in Stream \X Stream /\ <<1, 1>> \in Stream \X Stream
      /\ <<a, b>> \in Stream \X Stream
  BY DEF Stream
<1>3. u64_stats' = [v EXCEPT ![<<a, b>>] = @ + 1]
  BY DEF Count
<1> HIDE DEF lost
<1>4. /\ v \in [Stream \X Stream -> Nat]
      /\ v[<<0, 0>>] = u64_stats[<<0, 0>>] + lost
      /\ v[<<0, 1>>] = u64_stats[<<0, 1>>]
      /\ v[<<1, 0>>] = u64_stats[<<1, 0>>]
      /\ v[<<1, 1>>] = u64_stats[<<1, 1>>]
  BY <1>1, <1>2
<1> HIDE DEF v
<1>5. u64_stats' \in [Stream \X Stream -> Nat]
  BY <1>2, <1>3, <1>4
<1>6. <<a, b>> = <<0, 1>> \/ <<a, b>> = <<1, 0>> \/ <<a, b>> = <<1, 1>>
  BY DEF Stream
<1>7. /\ u64_stats[<<0, 0>>] \in Nat /\ u64_stats[<<0, 1>>] \in Nat
      /\ u64_stats[<<1, 0>>] \in Nat /\ u64_stats[<<1, 1>>] \in Nat
  BY <1>2
<1>8. CASE <<a, b>> = <<0, 1>>
  <2>1. /\ u64_stats'[<<0, 0>>] = u64_stats[<<0, 0>>] + lost
        /\ u64_stats'[<<0, 1>>] = u64_stats[<<0, 1>>] + 1
        /\ u64_stats'[<<1, 0>>] = u64_stats[<<1, 0>>]
        /\ u64_stats'[<<1, 1>>] = u64_stats[<<1, 1>>]
    BY <1>2, <1>3, <1>4, <1>8
  <2>2. Slots' = u64_stats'[<<0, 0>>] + u64_stats'[<<0, 1>>]
                   + u64_stats'[<<1, 0>>] + u64_stats'[<<1, 1>>]
    BY DEF Slots
  <2>3. Slots' = Slots + n
    BY <1>1, <1>7, <2>1, <2>2, FourSums DEF Slots
  <2> QED
    BY <1>5, <2>3
<1>9. CASE <<a, b>> = <<1, 0>>
  <2>1. /\ u64_stats'[<<0, 0>>] = u64_stats[<<0, 0>>] + lost
        /\ u64_stats'[<<0, 1>>] = u64_stats[<<0, 1>>]
        /\ u64_stats'[<<1, 0>>] = u64_stats[<<1, 0>>] + 1
        /\ u64_stats'[<<1, 1>>] = u64_stats[<<1, 1>>]
    BY <1>2, <1>3, <1>4, <1>9
  <2>2. Slots' = u64_stats'[<<0, 0>>] + u64_stats'[<<0, 1>>]
                   + u64_stats'[<<1, 0>>] + u64_stats'[<<1, 1>>]
    BY DEF Slots
  <2>3. Slots' = Slots + n
    BY <1>1, <1>7, <2>1, <2>2, FourSums DEF Slots
  <2> QED
    BY <1>5, <2>3
<1>10. CASE <<a, b>> = <<1, 1>>
  <2>1. /\ u64_stats'[<<0, 0>>] = u64_stats[<<0, 0>>] + lost
        /\ u64_stats'[<<0, 1>>] = u64_stats[<<0, 1>>]
        /\ u64_stats'[<<1, 0>>] = u64_stats[<<1, 0>>]
        /\ u64_stats'[<<1, 1>>] = u64_stats[<<1, 1>>] + 1
    BY <1>2, <1>3, <1>4, <1>10
  <2>2. Slots' = u64_stats'[<<0, 0>>] + u64_stats'[<<0, 1>>]
                   + u64_stats'[<<1, 0>>] + u64_stats'[<<1, 1>>]
    BY DEF Slots
  <2>3. Slots' = Slots + n
    BY <1>1, <1>7, <2>1, <2>2, FourSums DEF Slots
  <2> QED
    BY <1>5, <2>3
<1> QED
  BY <1>6, <1>8, <1>9, <1>10

BurstType == [Stream \cup {Coord} -> [1..MaxCount -> Nat]]

\* A burst counter never goes below zero.
LEMMA BurstCounted ==
  ASSUME bursts \in BurstType, NEW s \in Stream \cup {Coord},
         NEW size \in Int, NEW n \in Int,
         n = 1 \/ (n = -1 /\ CanRemoveBurst(s, size))
  PROVE  AddBurst(s, size, n) \in BurstType
<1>1. CASE ~(Stats /\ size > 1)
  BY <1>1 DEF AddBurst
<1>2. CASE Stats /\ size > 1
  <2> DEFINE f == bursts[s]
             k == size - 1
             g == [f EXCEPT ![k] = @ + n]
  <2>1. AddBurst(s, size, n) = [bursts EXCEPT ![s] = g]
    BY <1>2 DEF AddBurst, BurstType
  <2>2. f \in [1..MaxCount -> Nat]
    BY DEF BurstType
  <2>3. n = -1 => f[k] > 0
    BY <1>2 DEF CanRemoveBurst
  <2> HIDE DEF f, k
  <2>4. ASSUME k \in 1..MaxCount
        PROVE  f[k] + n \in Nat
    <3>1. f[k] \in Nat
      BY <2>2, <2>4
    <3> QED
      BY <2>3, <3>1
  <2>5. g \in [1..MaxCount -> Nat]
    BY <2>2, <2>4
  <2> HIDE DEF g
  <2> QED
    BY <2>1, <2>5 DEF BurstType
<1> QED
  BY <1>1, <1>2

-----------------------------------------------------------------------------
(* The steps.                                                              *)

\* The parts of the invariant about the places of the program.
PlaceInv ==
  /\ PassInv /\ UpdateInv /\ BothInv /\ AgainInv
  /\ ReadUpdateInv /\ ReadBothInv /\ ReadAgainInv

\* Stated with the four counters, the conditions of first_pass are linear.
LEMMA Names ==
  /\ Ahead = Old(0) - New(1) - sync_count_diff
  /\ Aligned <=> Old(0) - Old(1) = sync_count_diff
  /\ \A s \in Stream : age(s) = New(s) - Old(s)
  /\ Untouched <=> u64_temp = Old(1)
BY DEF Ahead, Aligned, age, Untouched, Old, New

\* After a line of stream 0 the counters are where the program expects them.
LEMMA ReadPlaces0 ==
  ASSUME TypeOK, TypeOK', PlaceInv, pc = "read", inc = 0,
         then' = then, u64_temp' = u64_temp,
         \/ Dropped(0, 1) \/ Taken(0, 1)
         \/ then \notin {"first", "sync"} /\ TakenBack(0, 1)
         \/ then \notin {"first", "sync"} /\ TakenForward(0, 1)
  PROVE  PlaceInv'
<1>1. /\ Old(0) \in Nat /\ New(0) \in Nat /\ Old(1) \in Nat /\ New(1) \in Nat
      /\ sync_count_diff \in Int /\ u64_temp \in Nat
      /\ then \in {"first", "sync", "update", "both", "again"}
  BY Types DEF Stream, TypeOK
<1>2. /\ Old(0)' \in Nat /\ New(0)' \in Nat /\ Old(1)' \in Nat /\ New(1)' \in Nat
      /\ sync_count_diff' \in Int
  <2>1. TypeOK' => /\ Old(0)' \in Nat /\ New(0)' \in Nat
                   /\ Old(1)' \in Nat /\ New(1)' \in Nat
                   /\ sync_count_diff' \in Int
    BY DEF TypeOK, InputType, Old, New, Stream
  <2> QED
    BY <2>1
<1>3. /\ Ahead' = Old(0)' - New(1)' - sync_count_diff'
      /\ Untouched' <=> u64_temp' = Old(1)'
  BY DEF Ahead, Untouched, Old, New
<1>4. /\ ReadUpdateInv /\ ReadBothInv /\ ReadAgainInv
  BY DEF PlaceInv
<1> USE DEF ReadUpdateInv, ReadBothInv, ReadAgainInv, Gap
<1>5. CASE Dropped(0, 1)
  BY <1>1, <1>2, <1>3, <1>4, <1>5
  DEF Dropped, PlaceInv, PassInv, UpdateInv, BothInv, AgainInv
<1>6. CASE Taken(0, 1)
  BY <1>1, <1>2, <1>3, <1>4, <1>6
  DEF Taken, PlaceInv, PassInv, UpdateInv, BothInv, AgainInv
<1>7. CASE then \notin {"first", "sync"} /\ TakenBack(0, 1)
  BY <1>1, <1>2, <1>3, <1>4, <1>7
  DEF TakenBack, Sign, PlaceInv, PassInv, UpdateInv, BothInv, AgainInv
<1>8. CASE then \notin {"first", "sync"} /\ TakenForward(0, 1)
  BY <1>1, <1>2, <1>3, <1>4, <1>8
  DEF TakenForward, Sign, PlaceInv, PassInv, UpdateInv, BothInv, AgainInv
<1> QED
  BY <1>5, <1>6, <1>7, <1>8

\* After a line of stream 1 the counters are where the program expects them.
LEMMA ReadPlaces1 ==
  ASSUME TypeOK, TypeOK', PlaceInv, pc = "read", inc = 1,
         then' = then, u64_temp' = u64_temp,
         \/ Dropped(1, 0) \/ Taken(1, 0)
         \/ then \notin {"first", "sync"} /\ TakenBack(1, 0)
         \/ then \notin {"first", "sync"} /\ TakenForward(1, 0)
  PROVE  PlaceInv'
<1>1. /\ Old(0) \in Nat /\ New(0) \in Nat /\ Old(1) \in Nat /\ New(1) \in Nat
      /\ sync_count_diff \in Int /\ u64_temp \in Nat
      /\ then \in {"first", "sync", "update", "both", "again"}
  BY Types DEF Stream, TypeOK
<1>2. /\ Old(0)' \in Nat /\ New(0)' \in Nat /\ Old(1)' \in Nat /\ New(1)' \in Nat
      /\ sync_count_diff' \in Int
  <2>1. TypeOK' => /\ Old(0)' \in Nat /\ New(0)' \in Nat
                   /\ Old(1)' \in Nat /\ New(1)' \in Nat
                   /\ sync_count_diff' \in Int
    BY DEF TypeOK, InputType, Old, New, Stream
  <2> QED
    BY <2>1
<1>3. /\ Ahead' = Old(0)' - New(1)' - sync_count_diff'
      /\ Untouched' <=> u64_temp' = Old(1)'
  BY DEF Ahead, Untouched, Old, New
<1>4. /\ ReadUpdateInv /\ ReadBothInv /\ ReadAgainInv
  BY DEF PlaceInv
<1> USE DEF ReadUpdateInv, ReadBothInv, ReadAgainInv, Gap
<1>5. CASE Dropped(1, 0)
  BY <1>1, <1>2, <1>3, <1>4, <1>5
  DEF Dropped, PlaceInv, PassInv, UpdateInv, BothInv, AgainInv
<1>6. CASE Taken(1, 0)
  BY <1>1, <1>2, <1>3, <1>4, <1>6
  DEF Taken, PlaceInv, PassInv, UpdateInv, BothInv, AgainInv
<1>7. CASE then \notin {"first", "sync"} /\ TakenBack(1, 0)
  BY <1>1, <1>2, <1>3, <1>4, <1>7
  DEF TakenBack, Sign, PlaceInv, PassInv, UpdateInv, BothInv, AgainInv
<1>8. CASE then \notin {"first", "sync"} /\ TakenForward(1, 0)
  BY <1>1, <1>2, <1>3, <1>4, <1>8
  DEF TakenForward, Sign, PlaceInv, PassInv, UpdateInv, BothInv, AgainInv
<1> QED
  BY <1>5, <1>6, <1>7, <1>8

\* A line of either stream keeps the totals (next_input, extract.c:438-504).
LEMMA ReadTotals ==
  ASSUME TypeOK, TypeOK', DiffInv, SlotInv, pc = "read",
         then' = then, synced' = synced, u64_stats' = u64_stats,
         NEW s \in Stream, NEW o \in Stream, s # o, inc = s,
         \/ Stopped \/ Dropped(s, o) \/ Taken(s, o)
         \/ then \notin {"first", "sync"} /\ TakenBack(s, o)
         \/ then \notin {"first", "sync"} /\ TakenForward(s, o)
  PROVE  DiffInv' /\ SlotInv'
<1>1. /\ Old(0) \in Nat /\ New(0) \in Nat /\ Gone(0) \in Nat /\ Gone(1) \in Nat
      /\ sync_count_diff \in Int /\ synced[0] \in Nat /\ synced[1] \in Nat
      /\ then \in {"first", "sync", "update", "both", "again"}
      /\ (s = 0 /\ o = 1) \/ (s = 1 /\ o = 0)
  <2>1. 0 \in Stream /\ 1 \in Stream
    BY DEF Stream
  <2>2. then \in {"first", "sync", "update", "both", "again"}
    BY DEF TypeOK
  <2>3. (s = 0 /\ o = 1) \/ (s = 1 /\ o = 0)
    BY DEF Stream
  <2> QED
    BY <2>1, <2>2, <2>3, Types
<1>2. Slots' = Slots
  BY DEF Slots
<1>3. Slots \in Nat
  BY SlotsType
<1>4. DiffInv'
  BY <1>1 DEF DiffInv, Paired, Stopped, Dropped, Taken, TakenBack, TakenForward,
              Sign
<1>5. /\ Old(0)' \in Nat /\ New(0)' \in Nat /\ Gone(0)' \in Nat /\ Gone(1)' \in Nat
  BY DEF TypeOK, InputType, Old, New, Gone, Stream
<1>6. SlotInv'
  <2>1. CASE s = 0
    BY <1>1, <1>2, <1>3, <1>5, <2>1
    DEF SlotInv, Paired, Stopped, Dropped, Taken, TakenBack, TakenForward, Sign
  <2>2. CASE s = 1
    BY <1>1, <1>2, <1>3, <1>5, <2>2
    DEF SlotInv, Paired, Stopped, Dropped, Taken, TakenBack, TakenForward, Sign
  <2> QED
    BY <1>1, <2>1, <2>2
<1> QED
  BY <1>4, <1>6

\* What it means for the invariant that the program is where it is.
LEMMA CountFacts ==
  ASSUME CountInv
  PROVE  /\ TypeOK /\ LogInv /\ PlaceInv /\ DiffInv /\ SlotInv
         /\ Old(0) \in Nat /\ New(0) \in Nat /\ Gone(0) \in Nat
         /\ Old(1) \in Nat /\ New(1) \in Nat /\ Gone(1) \in Nat
         /\ sync_count_diff \in Int /\ u64_temp \in Nat /\ Slots \in Nat
         /\ synced[0] \in Nat /\ synced[1] \in Nat
<1>1. 0 \in Stream /\ 1 \in Stream
  BY DEF Stream
<1>2. TypeOK /\ LogInv /\ PlaceInv /\ DiffInv /\ SlotInv
  BY DEF CountInv, PlaceInv
<1> QED
  BY <1>1, <1>2, Types, SlotsType

\* Reading a line keeps the invariant.
LEMMA ReadLineStep ==
  ASSUME PlainLogs, CountInv, ReadLine
  PROVE  CountInv'
<1>1. /\ TypeOK /\ LogInv /\ PlaceInv /\ DiffInv /\ SlotInv
      /\ sync_count_diff \in Int
  BY CountFacts
<1>2. /\ pc = "read" /\ then' = then /\ u64_temp' = u64_temp
      /\ synced' = synced /\ u64_stats' = u64_stats /\ bursts' = bursts
      /\ in_state' = in_state
  BY DEF ReadLine
<1>3. ASSUME NEW s \in Stream, NEW o \in Stream, s # o, inc = s
      PROVE  CountInv'
  <2>1. /\ states' \in [Stream -> InputType] /\ LogInv'
        /\ log' \in [Stream -> [count : Nat, ts : Nat, file : 1..Files,
                                ended : BOOLEAN]]
        /\ \/ Stopped \/ Dropped(s, o) \/ Taken(s, o)
           \/ then \notin {"first", "sync"} /\ TakenBack(s, o)
           \/ then \notin {"first", "sync"} /\ TakenForward(s, o)
    BY <1>1, <1>3, ReadOutcome
  <2>2. inc' \in Stream
    BY <1>3, <2>1 DEF Stopped, Dropped, Taken, TakenBack, TakenForward
  <2>3. sync_count_diff' \in Int
    BY <1>1, <2>1 DEF Stopped, Dropped, Taken, TakenBack, TakenForward, Sign
  <2>4. pc' \in {"exit", "read", then}
    BY <2>1 DEF Stopped, Dropped, Taken, TakenBack, TakenForward
  <2>5. TypeOK'
    BY <1>1, <1>2, <2>1, <2>2, <2>3, <2>4 DEF TypeOK
  <2>6. DiffInv' /\ SlotInv'
    BY <1>1, <1>2, <1>3, <2>1, <2>5, ReadTotals
  <2>7. PlaceInv'
    <3>1. CASE Stopped
      BY <3>1 DEF Stopped, PlaceInv, PassInv, UpdateInv, BothInv, AgainInv,
                  ReadUpdateInv, ReadBothInv, ReadAgainInv
    <3>2. CASE ~Stopped /\ s = 0
      <4>1. o = 1
        BY <1>3, <3>2 DEF Stream
      <4> QED
        BY <1>1, <1>2, <1>3, <2>1, <2>5, <3>2, <4>1, ReadPlaces0
    <3>3. CASE ~Stopped /\ s = 1
      <4>1. o = 0
        BY <1>3, <3>3 DEF Stream
      <4> QED
        BY <1>1, <1>2, <1>3, <2>1, <2>5, <3>3, <4>1, ReadPlaces1
    <3> QED
      BY <3>1, <3>2, <3>3 DEF Stream
  <2> QED
    BY <2>1, <2>5, <2>6, <2>7 DEF CountInv, PlaceInv
<1>4. inc \in Stream
  BY <1>1 DEF TypeOK
<1> QED
  BY <1>3, <1>4 DEF Stream

\* The end of a single file ends the program.
LEMMA ReadEofStep ==
  ASSUME PlainLogs, CountInv, ReadEof
  PROVE  CountInv'
<1>1. TypeOK /\ LogInv
  BY CountFacts
<1>2. log[in_state].file = Files /\ inc \in Stream
  <2>1. log[in_state].file \in 1..Files
    BY <1>1 DEF TypeOK
  <2> QED
    BY <1>1, <2>1 DEF PlainLogs, TypeOK
<1>3. /\ pc' \in {"exit", "eof"} /\ inc' = inc
      /\ log' = log \/ log' = [log EXCEPT ![inc].ended = TRUE]
      /\ UNCHANGED <<states, sync_count_diff, u64_stats, bursts, synced,
                     in_state, then, u64_temp>>
  <2>1. /\ Files \in Nat /\ ~(log[in_state].file < Files)
    BY <1>2, ExtractAssumption
  <2> QED
    BY <2>1 DEF ReadEof
<1>4. /\ log' \in [Stream -> [count : Nat, ts : Nat, file : 1..Files,
                              ended : BOOLEAN]]
      /\ \A s \in Stream : log'[s].count = log[s].count
  <2>1. log \in [Stream -> [count : Nat, ts : Nat, file : 1..Files,
                            ended : BOOLEAN]]
    BY <1>1 DEF TypeOK
  <2>2. CASE log' = log
    BY <2>1, <2>2
  <2>3. CASE log' = [log EXCEPT ![inc].ended = TRUE]
    BY <1>2, <2>1, <2>3
  <2> QED
    BY <1>3, <2>2, <2>3
<1>5. TypeOK'
  BY <1>1, <1>3, <1>4 DEF TypeOK
<1>6. LogInv'
  <2>1. \A s \in Stream : log'[s].count = log[s].count
    BY <1>4
  <2> QED
    BY <1>1, <1>3, <2>1 DEF LogInv, New
<1>7. PlaceInv' /\ DiffInv' /\ SlotInv'
  BY <1>3 DEF PlaceInv, PassInv, UpdateInv, BothInv, AgainInv, ReadUpdateInv,
              ReadBothInv, ReadAgainInv, DiffInv, SlotInv, Paired
<1> QED
  BY <1>6, <1>7, <1>5 DEF CountInv, PlaceInv

\* synchronize_input pairs the streams at their current counters.
LEMMA SyncStep ==
  ASSUME CountInv, SyncFirst \/ Sync
  PROVE  CountInv'
<1>1. TypeOK /\ LogInv /\ SlotInv
  BY CountFacts
<1> DEFINE ts == states[0].timestamp - states[1].timestamp
<1>2. CASE /\ UNCHANGED <<states, sync_count_diff, u64_stats, bursts, synced,
                          log, u64_temp>>
           /\ pc' = "read" /\ then' = "sync" /\ inc' \in Stream
           /\ in_state' \in Stream /\ pc \in {"first", "sync"}
  <2>1. TypeOK'
    BY <1>1, <1>2 DEF TypeOK
  <2>2. LogInv'
    BY <1>1, <1>2 DEF LogInv, New
  <2>3. PlaceInv' /\ DiffInv'
    BY <1>2 DEF PlaceInv, PassInv, UpdateInv, BothInv, AgainInv, ReadUpdateInv,
                ReadBothInv, ReadAgainInv, DiffInv, Paired
  <2>4. SlotInv'
    <3>1. Slots' = Slots /\ Gone(0)' = Gone(0) /\ Gone(1)' = Gone(1)
      BY <1>2 DEF Slots, Gone
    <3> QED
      BY <1>1, <1>2, <3>1 DEF SlotInv, Paired
  <2> QED
    BY <2>1, <2>2, <2>3, <2>4 DEF CountInv, PlaceInv
<1>3. CASE /\ pc = "sync" /\ pc' = "pass" /\ ~(ts > Secure) /\ ~(ts < -Secure)
           /\ sync_count_diff' = states[0].count_new - states[1].count_new
           /\ states' = [s \in Stream |-> Synchronised(states[s])]
           /\ synced' = [s \in Stream |-> states[s].count_new]
           /\ UNCHANGED <<inc, in_state, then, u64_stats, bursts, log, u64_temp>>
  <2>2. /\ 0 \in Stream /\ 1 \in Stream
        /\ states[0] \in InputType /\ states[1] \in InputType
    BY <1>1, Types DEF Stream
  <2>3. /\ states' \in [Stream -> InputType]
        /\ \A s \in Stream : /\ Old(s)' = New(s) /\ New(s)' = New(s)
                             /\ Gone(s)' = Gone(s) /\ synced'[s] = New(s)
                             /\ states'[s].timestamp = states[s].timestamp
    <3>1. ASSUME NEW s \in Stream
          PROVE  /\ states[s] \in InputType
                 /\ states'[s] = Synchronised(states[s])
                 /\ synced'[s] = states[s].count_new
      BY <1>1, <1>3, Types
    <3>2. states' \in [Stream -> InputType]
      BY <1>3, <3>1, SynchronisedUpdate
    <3> QED
      BY <3>1, <3>2, SynchronisedUpdate DEF Old, New, Gone
  <2>4. /\ Old(0)' = New(0) /\ New(0)' = New(0) /\ Gone(0)' = Gone(0)
        /\ Old(1)' = New(1) /\ New(1)' = New(1) /\ Gone(1)' = Gone(1)
        /\ synced'[0] = New(0) /\ synced'[1] = New(1)
        /\ sync_count_diff' = New(0) - New(1)
        /\ New(0) \in Nat /\ New(1) \in Nat
    BY <1>1, <1>3, <2>2, <2>3, Types DEF New
  <2>5. TypeOK'
    <3>1. synced' \in [Stream -> Nat]
      BY <1>1, <1>3, Types DEF New
    <3>2. sync_count_diff' \in Int
      BY <2>4
    <3>3. states' \in [Stream -> InputType]
      BY <2>3
    <3> HIDE DEF ts
    <3> QED
      BY <1>1, <1>3, <3>1, <3>2, <3>3 DEF TypeOK
  <2>6. LogInv'
    BY <1>1, <1>3, <2>3 DEF LogInv
  <2>7. ~Apart'
    <3>1. /\ ts \in Int /\ states'[0].timestamp - states'[1].timestamp = ts
          /\ states'[1].timestamp \in Nat /\ states'[0].timestamp \in Nat
      BY <2>2, <2>3 DEF InputType
    <3>2. Apart' <=> (ts > Interval \/ -ts > Interval)
      BY <3>1 DEF Apart
    <3> HIDE DEF ts
    <3>3. Interval = 2 * Secure /\ Secure \in Nat
      BY IntervalType DEF Interval
    <3> QED
      BY <1>3, <3>1, <3>2, <3>3
  <2>8. PlaceInv'
    BY <1>3, <2>4, <2>7
    DEF PlaceInv, PassInv, UpdateInv, BothInv, AgainInv, ReadUpdateInv,
        ReadBothInv, ReadAgainInv, Gap
  <2>9. Slots = 0 /\ Gone(0) = 0 /\ Gone(1) = 0 /\ Slots' = Slots
    BY <1>1, <1>3 DEF SlotInv, Paired, Slots
  <2>10. DiffInv' /\ SlotInv'
    BY <1>3, <2>4, <2>9 DEF DiffInv, SlotInv, Paired
  <2> QED
    BY <2>5, <2>6, <2>8, <2>10 DEF CountInv, PlaceInv
<1>4. CASE SyncFirst
  BY <1>2, <1>4 DEF SyncFirst, Ask, Stream
<1>5. CASE Sync
  BY <1>2, <1>3, <1>5 DEF Sync, Ask, Stream
<1> QED
  BY <1>4, <1>5

\* The two ages in front of a slot.
LEMMA PassFacts ==
  ASSUME CountInv, pc = "pass"
  PROVE  /\ age(0) = New(0) - Old(0) /\ age(1) = New(1) - Old(1)
         /\ Old(0) <= New(0) /\ Old(1) <= New(1)
         /\ Old(0) - Old(1) = sync_count_diff
         /\ \/ Old(0) < New(0) /\ Old(1) < New(1)
            \/ Old(0) = New(0) /\ Old(1) = New(1) /\ ~Apart
         /\ Slots + Gone(0) = Old(0) - synced[0]
         /\ sync_count_diff = synced[0] - synced[1] + Gone(0) - Gone(1)
<1>1. age(0) = New(0) - Old(0) /\ age(1) = New(1) - Old(1)
  BY Names DEF Stream
<1>2. /\ Gap(Old(0), Old(1)) = 0
      /\ \/ Old(0) < New(0) /\ Old(1) < New(1)
         \/ Old(0) = New(0) /\ Old(1) = New(1) /\ ~Apart
  BY CountFacts DEF PlaceInv, PassInv
<1>3. Paired /\ DiffInv /\ SlotInv
  BY CountFacts DEF Paired
<1>4. /\ Slots + Gone(0) = Old(0) - synced[0]
      /\ sync_count_diff = synced[0] - synced[1] + Gone(0) - Gone(1)
  BY <1>3 DEF DiffInv, SlotInv
<1> QED
  BY <1>1, <1>2, <1>4, CountFacts DEF Gap

\* first_pass drops a packet only when both streams have a new one.
LEMMA PassDropStep ==
  ASSUME CountInv, NEW s \in Stream, PassDrop(s)
  PROVE  CountInv'
<1>1. /\ TypeOK /\ LogInv /\ PlaceInv /\ DiffInv /\ SlotInv
      /\ Old(0) \in Nat /\ New(0) \in Nat /\ Gone(0) \in Nat
      /\ Old(1) \in Nat /\ New(1) \in Nat /\ Gone(1) \in Nat
      /\ sync_count_diff \in Int
  BY CountFacts
<1>2. /\ pc = "pass" /\ Apart /\ states' = Unread(s)
      /\ bursts' = AddBurst(s, age(s), -1) /\ CanRemoveBurst(s, age(s))
      /\ pc' = "read" /\ inc' = s /\ in_state' = s /\ then' = "update"
      /\ UNCHANGED <<sync_count_diff, u64_stats, synced, log, u64_temp>>
  BY DEF PassDrop, AtPass, Ask
<1>3. /\ Old(0) < New(0) /\ Old(1) < New(1) /\ Old(0) - Old(1) = sync_count_diff
  BY <1>2, PassFacts
<1>4. /\ states' \in [Stream -> InputType]
      /\ \A t \in Stream : /\ Old(t)' = Old(t) /\ Gone(t)' = Gone(t)
                           /\ New(t)' = IF t = s THEN Old(t) ELSE New(t)
  <2>1. states \in [Stream -> InputType]
    BY <1>1 DEF TypeOK
  <2> QED
    BY <1>2, <2>1, UnreadUpdate DEF Old, New, Gone
<1>5. TypeOK'
  <2>1. bursts \in BurstType
    BY <1>1 DEF TypeOK, BurstType
  <2>2. age(s) \in Int
    BY <1>1, PassFacts, <1>2 DEF Stream
  <2>3. bursts' \in BurstType
    BY <1>2, <2>1, <2>2, BurstCounted
  <2> QED
    BY <1>1, <1>2, <1>4, <2>3 DEF TypeOK, BurstType
<1>6. LogInv'
  <2>1. ASSUME NEW t \in Stream
        PROVE  First <= log[t].count /\ New(t)' <= log[t].count
    <3>1. /\ New(t)' = Old(t) \/ New(t)' = New(t)
          /\ New(t) <= log[t].count /\ First <= log[t].count
      BY <1>1, <1>4 DEF LogInv
    <3>2. log[t].count \in Nat /\ Old(t) \in Nat /\ New(t) \in Nat
      BY <1>1, Types
    <3>3. Old(t) < New(t)
      BY <1>3 DEF Stream
    <3> QED
      BY <3>1, <3>2, <3>3
  <2> QED
    BY <1>2, <2>1 DEF LogInv
<1>7. 0 \in Stream /\ 1 \in Stream /\ (s = 0 \/ s = 1)
  BY DEF Stream
<1>8. /\ Old(0)' = Old(0) /\ Gone(0)' = Gone(0)
      /\ Old(1)' = Old(1) /\ Gone(1)' = Gone(1)
      /\ s = 0 => New(0)' = Old(0) /\ New(1)' = New(1)
      /\ s = 1 => New(1)' = Old(1) /\ New(0)' = New(0)
  BY <1>4, <1>7 DEF Old, New, Gone
<1>9. ReadUpdateInv'
  BY <1>1, <1>2, <1>3, <1>7, <1>8 DEF ReadUpdateInv, Gap
<1>10. PlaceInv'
  BY <1>2, <1>9 DEF PlaceInv, PassInv, UpdateInv, BothInv, AgainInv,
                    ReadBothInv, ReadAgainInv
<1>11. /\ Gone(0)' = Gone(0) /\ Gone(1)' = Gone(1) /\ Slots' = Slots
       /\ (IF inc' = 0 THEN New(0)' ELSE Old(0)') = Old(0)
  BY <1>2, <1>7, <1>8 DEF Slots
<1>12. DiffInv' /\ SlotInv'
  BY <1>1, <1>2, <1>11, PassFacts DEF DiffInv, SlotInv, Paired
<1> QED
  BY <1>5, <1>6, <1>10, <1>12 DEF CountInv, PlaceInv

\* A slot of both packets is counted before the streams advance.
LEMMA PassBothStep ==
  ASSUME CountInv, PassBoth
  PROVE  CountInv'
<1>1. /\ TypeOK /\ LogInv /\ PlaceInv /\ DiffInv /\ SlotInv
      /\ Old(0) \in Nat /\ New(0) \in Nat /\ Gone(0) \in Nat
      /\ Old(1) \in Nat /\ New(1) \in Nat /\ Gone(1) \in Nat
      /\ sync_count_diff \in Int /\ Slots \in Nat
      /\ synced[0] \in Nat /\ synced[1] \in Nat
  BY CountFacts
<1>2. /\ pc = "pass" /\ age(0) = age(1)
      /\ IF age(0) # 0
         THEN /\ u64_stats' = Count(1, 1, age(0))
              /\ bursts' = AddBurst(Coord, age(0), 1)
         ELSE u64_stats' = u64_stats /\ bursts' = bursts
      /\ u64_temp' = Old(1)
      /\ pc' = "read" /\ inc' = 0 /\ in_state' = 0 /\ then' = "both"
      /\ UNCHANGED <<states, sync_count_diff, synced, log>>
  BY DEF PassBoth, AtPass, Ask, Old
<1>3. /\ age(0) = New(0) - Old(0) /\ age(1) = New(1) - Old(1)
      /\ Old(0) <= New(0) /\ Old(1) <= New(1)
      /\ Old(0) - Old(1) = sync_count_diff
      /\ Slots + Gone(0) = Old(0) - synced[0]
  BY <1>2, PassFacts
<1>4. /\ Old(0)' = Old(0) /\ New(0)' = New(0) /\ Gone(0)' = Gone(0)
      /\ Old(1)' = Old(1) /\ New(1)' = New(1) /\ Gone(1)' = Gone(1)
  BY <1>2 DEF Old, New, Gone
<1>5. /\ u64_stats' \in [Stream \X Stream -> Nat] /\ bursts' \in BurstType
      /\ Slots' = Slots + age(0)
  <2>1. bursts \in BurstType /\ u64_stats \in [Stream \X Stream -> Nat]
    BY <1>1 DEF TypeOK, BurstType
  <2>2. CASE age(0) # 0
    <3>1. age(0) \in Nat /\ age(0) > 0 /\ age(0) \in Int
      BY <1>1, <1>3, <2>2
    <3>2. 1 \in Stream /\ <<1, 1>> # <<0, 0>> /\ Coord \in Stream \cup {Coord}
      BY DEF Stream
    <3>3. u64_stats' \in [Stream \X Stream -> Nat] /\ Slots' = Slots + age(0)
      BY <1>2, <2>1, <2>2, <3>1, <3>2, Counted
    <3>4. bursts' \in BurstType
      BY <1>2, <2>1, <2>2, <3>1, <3>2, BurstCounted
    <3> QED
      BY <3>3, <3>4
  <2>3. CASE age(0) = 0
    <3>1. Slots' = Slots
      BY <1>2, <2>3 DEF Slots
    <3> QED
      BY <1>1, <1>2, <2>1, <2>3, <3>1
  <2> QED
    BY <2>2, <2>3
<1>6. TypeOK'
  BY <1>1, <1>2, <1>5 DEF TypeOK, BurstType, Stream
<1>7. LogInv'
  BY <1>1, <1>2 DEF LogInv, New
<1>8. ReadBothInv'
  BY <1>1, <1>2, <1>3, <1>4 DEF ReadBothInv, Gap
<1>9. PlaceInv'
  BY <1>2, <1>8 DEF PlaceInv, PassInv, UpdateInv, BothInv, AgainInv,
                    ReadUpdateInv, ReadAgainInv
<1>10. DiffInv'
  BY <1>1, <1>2, <1>4 DEF DiffInv, Paired
<1>11. SlotInv'
  <2>1. Slots' + Gone(0)' = New(0)' - synced'[0]
    BY <1>1, <1>2, <1>3, <1>4, <1>5
  <2> QED
    BY <1>2, <2>1 DEF SlotInv, Paired
<1> QED
  BY <1>6, <1>7, <1>9, <1>10, <1>11 DEF CountInv, PlaceInv

\* A slot of one packet: the other stream advances without it.
LEMMA PassOneStep ==
  ASSUME CountInv, NEW s \in Stream, PassOne(s)
  PROVE  CountInv'
<1> DEFINE o == Other(s)
           c == states[o].count_old + age(s)
<1>1. /\ TypeOK /\ LogInv /\ PlaceInv /\ DiffInv /\ SlotInv
      /\ Old(0) \in Nat /\ New(0) \in Nat /\ Gone(0) \in Nat
      /\ Old(1) \in Nat /\ New(1) \in Nat /\ Gone(1) \in Nat
      /\ sync_count_diff \in Int /\ Slots \in Nat
      /\ synced[0] \in Nat /\ synced[1] \in Nat
  BY CountFacts
<1>2. /\ pc = "pass" /\ age(s) < age(o)
      /\ u64_stats' = Count(1 - s, s, age(s))
      /\ bursts' = AddBurst(Coord, age(s), 1)
      /\ states' = [states EXCEPT ![o].count_old = c]
      /\ pc' = "read" /\ inc' = s /\ in_state' = s /\ then' = "update"
      /\ UNCHANGED <<sync_count_diff, synced, log, u64_temp>>
  BY DEF PassOne, AtPass, Ask
<1>3. /\ age(0) = New(0) - Old(0) /\ age(1) = New(1) - Old(1)
      /\ Old(0) - Old(1) = sync_count_diff
      /\ \/ Old(0) < New(0) /\ Old(1) < New(1)
         \/ Old(0) = New(0) /\ Old(1) = New(1)
      /\ Slots + Gone(0) = Old(0) - synced[0]
  BY <1>2, PassFacts
<1>4. /\ 0 \in Stream /\ 1 \in Stream /\ 1 - s \in Stream /\ o \in Stream
      /\ (s = 0 /\ o = 1) \/ (s = 1 /\ o = 0)
      /\ <<1 - s, s>> # <<0, 0>> /\ Coord \in Stream \cup {Coord}
  BY DEF Stream, Other
<1> HIDE DEF o
<1>5. Old(0) < New(0) /\ Old(1) < New(1)
  BY <1>1, <1>2, <1>3, <1>4
<1>6. age(s) \in Nat /\ age(s) > 0 /\ c \in Nat /\ c = Old(o) + age(s)
  BY <1>1, <1>3, <1>4, <1>5 DEF Old
<1> HIDE DEF c
<1>7. /\ states' \in [Stream -> InputType]
      /\ New(s)' = New(s) /\ Old(s)' = Old(s) /\ Gone(s)' = Gone(s)
      /\ New(o)' = New(o) /\ Old(o)' = c /\ Gone(o)' = Gone(o)
  <2>1. states \in [Stream -> InputType]
    BY <1>1 DEF TypeOK
  <2>2. s # o
    BY <1>4
  <2>3. states' = [states EXCEPT ![o].count_old = c]
    BY <1>2
  <2>4. /\ states' \in [Stream -> InputType]
        /\ states'[s] = states[s]
        /\ states'[o].count_new = states[o].count_new
        /\ states'[o].count_old = c
        /\ states'[o].desynchronization_resync
             = states[o].desynchronization_resync
    BY <1>4, <1>6, <2>1, <2>2, <2>3, OldUpdate
  <2> QED
    BY <2>4 DEF Old, New, Gone
<1>8. /\ u64_stats' \in [Stream \X Stream -> Nat] /\ bursts' \in BurstType
      /\ Slots' = Slots + age(s)
  <2> DEFINE a == 1 - s
             n == age(s)
  <2>1. bursts \in BurstType /\ u64_stats \in [Stream \X Stream -> Nat]
    BY <1>1 DEF TypeOK, BurstType
  <2>2. /\ a \in Stream /\ <<a, s>> # <<0, 0>> /\ n \in Nat /\ n > 0 /\ n \in Int
        /\ u64_stats' = Count(a, s, n) /\ bursts' = AddBurst(Coord, n, 1)
    BY <1>2, <1>4, <1>6
  <2> HIDE DEF a, n
  <2>3. u64_stats' \in [Stream \X Stream -> Nat] /\ Slots' = Slots + n
    BY <2>1, <2>2, Counted
  <2>4. bursts' \in BurstType
    <3>1. Coord \in Stream \cup {Coord} /\ 1 \in Int /\ n \in Int
      BY <2>2
    <3>2. AddBurst(Coord, n, 1) \in BurstType
      BY <2>1, <3>1, BurstCounted
    <3> QED
      BY <2>2, <3>2
  <2> QED
    BY <2>3, <2>4 DEF n
<1>9. TypeOK'
  BY <1>1, <1>2, <1>7, <1>8 DEF TypeOK, BurstType
<1>10. LogInv'
  <2>1. \A t \in Stream : New(t)' = New(t)
    BY <1>4, <1>7 DEF Stream
  <2> QED
    BY <1>1, <1>2, <2>1 DEF LogInv
<1>11. ReadUpdateInv'
  BY <1>1, <1>2, <1>3, <1>4, <1>5, <1>6, <1>7 DEF ReadUpdateInv, Gap
<1>12. PlaceInv'
  BY <1>2, <1>11 DEF PlaceInv, PassInv, UpdateInv, BothInv, AgainInv,
                     ReadBothInv, ReadAgainInv
<1>13. DiffInv'
  BY <1>1, <1>2, <1>4, <1>7 DEF DiffInv, Paired
<1>14. SlotInv'
  <2>1. Slots' + Gone(0)' = (IF inc' = 0 THEN New(0)' ELSE Old(0)') - synced'[0]
    BY <1>1, <1>2, <1>3, <1>4, <1>6, <1>7, <1>8
  <2> QED
    BY <1>2, <2>1 DEF SlotInv, Paired
<1> QED
  BY <1>9, <1>10, <1>12, <1>13, <1>14 DEF CountInv, PlaceInv

\* The end of a burst is recorded, and nothing else.
LEMMA BurstStep ==
  ASSUME CountInv, UpdateOne \/ AfterBoth
  PROVE  CountInv'
<1>1. /\ TypeOK /\ LogInv /\ PlaceInv /\ DiffInv /\ SlotInv
      /\ Old(0) \in Nat /\ New(0) \in Nat /\ Old(1) \in Nat /\ New(1) \in Nat
  BY CountFacts
<1>2. /\ \/ pc = "update" /\ pc' = "pass" /\ bursts' = AddBurst(in_state, age(in_state), 1)
         \/ pc = "both" /\ pc' = "stats0" /\ bursts' = AddBurst(0, age(0), 1)
      /\ UNCHANGED <<states, sync_count_diff, u64_stats, synced, log,
                     inc, in_state, then, u64_temp>>
  BY DEF UpdateOne, AfterBoth, Update
<1>3. bursts' \in BurstType
  <2>1. /\ bursts \in BurstType /\ 0 \in Stream /\ 1 \in Int
        /\ in_state \in Stream
    BY <1>1 DEF TypeOK, BurstType, Stream
  <2>2. ASSUME NEW s \in Stream
        PROVE  AddBurst(s, age(s), 1) \in BurstType
    <3>1. /\ s \in Stream \cup {Coord} /\ age(s) \in Int
      BY <1>1, Types, Names DEF Stream
    <3> QED
      BY <2>1, <3>1, BurstCounted
  <2> QED
    BY <1>2, <2>1, <2>2
<1>4. TypeOK'
  BY <1>1, <1>2, <1>3 DEF TypeOK, BurstType
<1>5. /\ Old(0)' = Old(0) /\ New(0)' = New(0) /\ Gone(0)' = Gone(0)
      /\ Old(1)' = Old(1) /\ New(1)' = New(1) /\ Gone(1)' = Gone(1)
      /\ Slots' = Slots /\ Ahead' = Ahead /\ Untouched' = Untouched
  BY <1>2 DEF Old, New, Gone, Slots, Ahead, Untouched
<1>6. LogInv'
  BY <1>1, <1>2 DEF LogInv, New
<1>7. PassInv'
  BY <1>1, <1>2, <1>5 DEF PlaceInv, PassInv, UpdateInv, Gap
<1>8. BothInv'
  BY <1>1, <1>2, <1>5 DEF PlaceInv, BothInv
<1>9. PlaceInv'
  BY <1>2, <1>7, <1>8 DEF PlaceInv, UpdateInv, AgainInv, ReadUpdateInv,
                          ReadBothInv, ReadAgainInv
<1>10. DiffInv' /\ SlotInv'
  BY <1>1, <1>2, <1>5 DEF DiffInv, SlotInv, Paired
<1> QED
  BY <1>4, <1>6, <1>9, <1>10 DEF CountInv, PlaceInv

\* Stream 1 is asked for its next line at the right counter.
LEMMA AskSecondStep ==
  ASSUME CountInv, pc \in {"stats0", "again"},
         UNCHANGED <<states, sync_count_diff, bursts, u64_stats, synced, log>>,
         u64_temp' \in Nat,
         pc' = "read" /\ inc' = 1 /\ in_state' = 1,
         \/ then' = "update" /\ Ahead = 0
         \/ then' = "again" /\ Ahead = 1
  PROVE  CountInv'
<1>1. /\ TypeOK /\ LogInv /\ PlaceInv /\ DiffInv /\ SlotInv
      /\ Old(0) \in Nat /\ New(0) \in Nat /\ Old(1) \in Nat /\ New(1) \in Nat
      /\ sync_count_diff \in Int
  BY CountFacts
<1>2. Old(0) < New(0)
  BY <1>1 DEF PlaceInv, BothInv, AgainInv
<1>3. TypeOK'
  BY <1>1 DEF TypeOK, Stream
<1>4. /\ Old(0)' = Old(0) /\ New(0)' = New(0) /\ Gone(0)' = Gone(0)
      /\ Old(1)' = Old(1) /\ New(1)' = New(1) /\ Gone(1)' = Gone(1)
      /\ Slots' = Slots
  BY DEF Old, New, Gone, Slots
<1>5. LogInv'
  BY <1>1 DEF LogInv, New
<1>6. ReadUpdateInv' /\ ReadAgainInv'
  BY <1>1, <1>2, <1>4, Names DEF ReadUpdateInv, ReadAgainInv, Gap
<1>7. PlaceInv'
  BY <1>6 DEF PlaceInv, PassInv, UpdateInv, BothInv, AgainInv, ReadBothInv
<1>8. DiffInv' /\ SlotInv'
  BY <1>1, <1>4 DEF DiffInv, SlotInv, Paired
<1> QED
  BY <1>3, <1>5, <1>7, <1>8 DEF CountInv, PlaceInv

\* Stream 1, whose next line a re-alignment has read, catches up with stream
\* 0: the counter it is given is not negative, and before its next packet.
LEMMA CatchUpStep ==
  ASSUME CountInv, pc \in {"stats0", "again"}, Ahead < 0, CatchUp,
         UNCHANGED <<u64_stats, synced, log>>, u64_temp' \in Nat
  PROVE  CountInv'
<1> DEFINE c == states[0].count_old - sync_count_diff
           x == [states EXCEPT ![1].count_old = c]
<1>1. /\ TypeOK /\ LogInv /\ PlaceInv /\ DiffInv /\ SlotInv
      /\ Old(0) \in Nat /\ New(0) \in Nat /\ Gone(0) \in Nat
      /\ Old(1) \in Nat /\ New(1) \in Nat /\ Gone(1) \in Nat
      /\ sync_count_diff \in Int /\ Slots \in Nat
      /\ synced[0] \in Nat /\ synced[1] \in Nat
  BY CountFacts
<1>2. Old(0) < New(0) /\ c = Old(0) - sync_count_diff
  BY <1>1 DEF PlaceInv, BothInv, AgainInv, Old
<1> HIDE DEF c
<1>3. x = [states EXCEPT ![1].count_old = c]
  OBVIOUS
<1> HIDE DEF x
<1>4. c \in Nat
  <2>1. /\ Slots + Gone(0) = Old(0) - synced[0]
        /\ sync_count_diff = synced[0] - synced[1] + Gone(0) - Gone(1)
    BY <1>1 DEF DiffInv, SlotInv, Paired
  <2>2. c = Slots + synced[1] + Gone(1)
    BY <1>1, <1>2, <2>1
  <2> QED
    BY <1>1, <2>2
<1>5. c < New(1)
  <2>1. Ahead = Old(0) - New(1) - sync_count_diff
    BY Names
  <2> QED
    BY <1>1, <1>2, <2>1
<1>6. /\ states' = x /\ bursts' = AddBurst(1, x[1].count_new - x[1].count_old, 1)
      /\ pc' = "pass" /\ UNCHANGED <<sync_count_diff, inc, in_state, then>>
  BY DEF CatchUp, x, c
<1>7. /\ x \in [Stream -> InputType] /\ x[0] = states[0]
      /\ x[1].count_new = states[1].count_new /\ x[1].count_old = c
      /\ x[1].desynchronization_resync = states[1].desynchronization_resync
  <2>1. states \in [Stream -> InputType] /\ 1 \in Stream /\ 0 \in Stream /\ 0 # 1
    BY <1>1 DEF TypeOK, Stream
  <2>2. /\ x \in [Stream -> InputType]
        /\ \A t \in Stream : t # 1 => x[t] = states[t]
        /\ x[1].count_new = states[1].count_new /\ x[1].count_old = c
        /\ x[1].desynchronization_resync = states[1].desynchronization_resync
    <3> DEFINE s == 1
    <3>1. s \in Stream /\ x = [states EXCEPT ![s].count_old = c]
      BY <1>3, <2>1
    <3> HIDE DEF s
    <3>2. /\ x \in [Stream -> InputType]
          /\ \A t \in Stream : t # s => x[t] = states[t]
          /\ x[s].count_new = states[s].count_new /\ x[s].count_old = c
          /\ x[s].desynchronization_resync = states[s].desynchronization_resync
      BY <1>4, <2>1, <3>1, OldUpdate
    <3> QED
      BY <3>2 DEF s
  <2> QED
    BY <2>1, <2>2
<1>8. /\ Old(0)' = Old(0) /\ New(0)' = New(0) /\ Gone(0)' = Gone(0)
      /\ Old(1)' = c /\ New(1)' = New(1) /\ Gone(1)' = Gone(1)
      /\ Slots' = Slots
  BY <1>6, <1>7 DEF Old, New, Gone, Slots
<1>9. bursts' \in BurstType
  <2> DEFINE n == x[1].count_new - x[1].count_old
  <2>1. n \in Int
    BY <1>1, <1>4, <1>7 DEF New
  <2>2. /\ bursts \in BurstType /\ 1 \in Stream \cup {Coord} /\ 1 \in Int
        /\ n \in Int
    BY <1>1, <2>1 DEF TypeOK, BurstType, Stream
  <2> HIDE DEF n
  <2>3. AddBurst(1, n, 1) \in BurstType
    BY <2>2, BurstCounted
  <2> QED
    BY <1>6, <2>3 DEF n
<1>10. TypeOK'
  BY <1>1, <1>6, <1>7, <1>9 DEF TypeOK, BurstType
<1>11. LogInv'
  <2>1. \A s \in Stream : states'[s].count_new = states[s].count_new
    <3>1. /\ states'[0].count_new = states[0].count_new
          /\ states'[1].count_new = states[1].count_new
      BY <1>6, <1>7
    <3> QED
      BY <3>1 DEF Stream
  <2> QED
    BY <1>1, <2>1 DEF LogInv, New
<1>12. PassInv'
  BY <1>1, <1>2, <1>4, <1>5, <1>6, <1>8 DEF PassInv, Gap
<1>13. PlaceInv'
  BY <1>6, <1>12 DEF PlaceInv, UpdateInv, BothInv, AgainInv, ReadUpdateInv,
                     ReadBothInv, ReadAgainInv
<1>14. DiffInv' /\ SlotInv'
  BY <1>1, <1>6, <1>8 DEF DiffInv, SlotInv, Paired
<1> QED
  BY <1>10, <1>11, <1>13, <1>14 DEF CountInv, PlaceInv

\* After the line of stream 0, stream 1 is advanced to the same slot.
LEMMA SecondStep ==
  ASSUME CountInv, AdvanceSecond \/ AfterAgain
  PROVE  CountInv'
<1>1. BothInv /\ u64_temp \in Nat
  BY CountFacts DEF PlaceInv
<1>2. CASE AdvanceSecond
  <2>1. /\ pc = "stats0" /\ u64_temp' = 0 /\ u64_temp' \in Nat
        /\ UNCHANGED <<u64_stats, synced, log>>
    BY <1>2 DEF AdvanceSecond
  <2>2. CASE /\ Untouched \/ Ahead = 0
             /\ Ask(1, "update") /\ UNCHANGED <<states, sync_count_diff, bursts>>
    <3>1. Ahead = 0
      BY <1>1, <2>1, <2>2 DEF BothInv
    <3> QED
      BY <2>1, <2>2, <3>1, AskSecondStep DEF Ask
  <2>3. CASE ~Untouched /\ Ahead < 0 /\ CatchUp
    BY <2>1, <2>3, CatchUpStep
  <2>4. CASE /\ ~Untouched /\ Ahead = 1 /\ Ask(1, "again")
             /\ UNCHANGED <<states, sync_count_diff, bursts>>
    BY <2>1, <2>4, AskSecondStep DEF Ask
  <2> QED
    BY <1>2, <2>2, <2>3, <2>4 DEF AdvanceSecond
<1>3. CASE AfterAgain
  <2>1. /\ pc = "again" /\ u64_temp' \in Nat
        /\ UNCHANGED <<u64_stats, synced, log>>
    BY <1>1, <1>3 DEF AfterAgain
  <2>2. CASE Ahead < 0 /\ CatchUp
    BY <2>1, <2>2, CatchUpStep
  <2>3. CASE /\ Ahead = 0 /\ Ask(1, "update")
             /\ UNCHANGED <<states, sync_count_diff, bursts>>
    BY <2>1, <2>3, AskSecondStep DEF Ask
  <2> QED
    BY <1>3, <2>2, <2>3 DEF AfterAgain
<1> QED
  BY <1>2, <1>3

\* The program starts in the invariant.
LEMMA InitCount ==
  ASSUME Init
  PROVE  CountInv
<1>1. /\ First \in Nat /\ MaxCount \in Nat /\ Files \in Nat /\ Files >= 1
  BY ExtractAssumption
<1>2. NoInput \in InputType /\ NoInput.count_new = 0
      /\ NoInput.desynchronization_resync = 0
  BY DEF NoInput, InputType
<1>3. states \in [Stream -> InputType] /\ \A s \in Stream : states[s] = NoInput
  BY <1>2 DEF Init
<1>4. /\ u64_stats \in [Stream \X Stream -> Nat] /\ bursts \in BurstType
      /\ synced \in [Stream -> Nat]
  BY DEF Init, BurstType
<1>5. log \in [Stream -> [count : Nat, ts : Nat, file : 1..Files,
                          ended : BOOLEAN]]
  BY <1>1 DEF Init
<1>6. /\ pc = "read" /\ inc = 0 /\ in_state = 0 /\ then = "first" /\ u64_temp = 0
      /\ sync_count_diff = 0
  BY DEF Init
<1>7. TypeOK
  BY <1>3, <1>4, <1>5, <1>6 DEF TypeOK, BurstType, Stream
<1>8. LogInv
  BY <1>1, <1>2, <1>3 DEF LogInv, New, Init
<1>9. SlotInv
  <2>1. Gone(0) = 0 /\ Gone(1) = 0
    BY <1>2, <1>3 DEF Gone, Stream
  <2>2. /\ u64_stats[<<0, 0>>] = 0 /\ u64_stats[<<0, 1>>] = 0
        /\ u64_stats[<<1, 0>>] = 0 /\ u64_stats[<<1, 1>>] = 0
    BY DEF Init, Stream
  <2>3. Slots = 0
    BY <2>2 DEF Slots
  <2> QED
    BY <1>6, <2>1, <2>3 DEF SlotInv, Paired
<1> QED
  BY <1>6, <1>7, <1>8, <1>9
  DEF CountInv, PassInv, UpdateInv, BothInv, AgainInv, ReadUpdateInv,
      ReadBothInv, ReadAgainInv, DiffInv, Paired

\* A step that changes nothing keeps the invariant.
LEMMA StutterCount ==
  ASSUME CountInv, UNCHANGED vars
  PROVE  CountInv'
<1>1. /\ Slots' = Slots /\ Ahead' = Ahead /\ Apart' = Apart
      /\ Untouched' = Untouched /\ Paired' = Paired
  BY DEF vars, Slots, Ahead, Apart, Untouched, Paired
<1>2. TypeOK' /\ LogInv'
  BY CountFacts DEF vars, TypeOK, LogInv, New
<1>3. /\ PassInv' /\ UpdateInv' /\ BothInv' /\ AgainInv'
      /\ ReadUpdateInv' /\ ReadBothInv' /\ ReadAgainInv' /\ DiffInv' /\ SlotInv'
  BY <1>1
  DEF vars, CountInv, PassInv, UpdateInv, BothInv, AgainInv, ReadUpdateInv,
      ReadBothInv, ReadAgainInv, DiffInv, SlotInv, Old, New, Gone, Gap
<1> QED
  BY <1>2, <1>3 DEF CountInv

\* Every step keeps the invariant.
LEMMA NextCount ==
  ASSUME PlainLogs, CountInv, [Next]_vars
  PROVE  CountInv'
<1>1. CASE ReadLine
  BY <1>1, ReadLineStep
<1>2. CASE ReadEof
  BY <1>2, ReadEofStep
<1>3. CASE SyncFirst \/ Sync
  BY <1>3, SyncStep
<1>4. CASE PassBoth
  BY <1>4, PassBothStep
<1>5. ASSUME NEW s \in Stream, PassDrop(s)
      PROVE  CountInv'
  BY <1>5, PassDropStep
<1>6. ASSUME NEW s \in Stream, PassOne(s)
      PROVE  CountInv'
  BY <1>6, PassOneStep
<1>7. CASE UpdateOne \/ AfterBoth
  BY <1>7, BurstStep
<1>8. CASE AdvanceSecond \/ AfterAgain
  BY <1>8, SecondStep
<1>9. CASE UNCHANGED vars
  BY <1>9, StutterCount
<1> QED
  BY <1>1, <1>2, <1>3, <1>4, <1>5, <1>6, <1>7, <1>8, <1>9 DEF Next

-----------------------------------------------------------------------------
(* The theorems.                                                           *)

\* The counters of extract.c are in step at every place of the program, for
\* logs that are single files without a duplicate of packet 0.
THEOREM CountsInStep ==
  ASSUME PlainLogs
  PROVE  Spec => []CountInv
<1>1. Init => CountInv
  BY InitCount
<1>2. CountInv /\ [Next]_vars => CountInv'
  BY NextCount
<1> QED
  BY <1>1, <1>2, PTL DEF Spec

\* No counter ever goes below zero: neither the counts of read_input, nor the
\* statistics, nor the burst counters that decrease_counter takes from.
THEOREM TypeCorrect ==
  ASSUME PlainLogs
  PROVE  Spec => []TypeOK
<1>1. CountInv => TypeOK
  BY DEF CountInv
<1> QED
  BY <1>1, CountsInStep, PTL

\* The three assertions at the start of first_pass hold (extract.c:840-845).
THEOREM SlotsStartAligned ==
  ASSUME PlainLogs
  PROVE  Spec => []SyncAssert
<1>1. CountInv => SyncAssert
  <2> SUFFICES ASSUME CountInv, pc = "pass"
               PROVE  AgesOk /\ Aligned
    BY DEF SyncAssert
  <2>1. /\ age(0) >= 0 /\ age(1) >= 0 /\ Old(0) - Old(1) = sync_count_diff
    BY PassFacts, CountFacts
  <2> QED
    BY <2>1, Names DEF AgesOk, Stream
<1> QED
  BY <1>1, CountsInStep, PTL

\* The assertions of the branch that lets stream 1 catch up after a
\* re-alignment hold (extract.c:913 and 919).
THEOREM CatchUpAssertions ==
  ASSUME PlainLogs
  PROVE  Spec => []BranchAssert
<1>1. CountInv => BranchAssert
  <2> SUFFICES ASSUME CountInv
               PROVE  BranchAssert
    OBVIOUS
  <2>1. Ahead \in Int /\ (pc = "again" => Ahead <= 0)
    BY CountFacts, Names DEF PlaceInv, AgainInv
  <2>2. pc = "stats0" /\ ~Untouched => Ahead <= 1
    BY CountFacts DEF PlaceInv, BothInv
  <2> QED
    BY <2>1, <2>2 DEF BranchAssert
<1> QED
  BY <1>1, CountsInStep, PTL

\* Every slot since the synchronisation is counted exactly once on each
\* stream, but for those that re-alignments removed (extract.c:881-968).
THEOREM SlotsCountedOnce ==
  ASSUME PlainLogs
  PROVE  Spec => []SlotAccounting
<1>1. CountInv => SlotAccounting
  <2> SUFFICES ASSUME CountInv, pc = "pass"
               PROVE  \A s \in Stream : Slots + Gone(s) = Old(s) - synced[s]
    BY DEF SlotAccounting, Gone, Old
  <2>1. Slots + Gone(0) = Old(0) - synced[0]
    BY PassFacts
  <2>2. Slots + Gone(1) = Old(1) - synced[1]
    BY PassFacts, CountFacts
  <2> QED
    BY <2>1, <2>2 DEF Stream
<1> QED
  BY <1>1, CountsInStep, PTL

-----------------------------------------------------------------------------
(* The references of extract.c stay together, for every slot length,       *)
(* window, sender, pattern of losses and delays, when the logs are plain   *)
(* (PlainLogs): the two streams never expect the same slot at dates        *)
(* further apart than 1.01 secure_interval, and of two packets that are    *)
(* too far apart to be of one slot, one can always be blamed.              *)
(*                                                                         *)
(* Ref(s) is the date at which stream s would have expected its packet     *)
(* number 0.  It does not move while packets are late within the slot and  *)
(* the window; it moves back by at most Secure on an early packet and      *)
(* forward by at most a slot after a window of late ones, and a            *)
(* re-alignment takes out a whole slot exactly when that went too far.     *)
(* While no packet is more than half a slot late, no reference is either,  *)
(* and so no packet is ever too early for read_input.                      *)

RefOf(x) == x.timestamp_old - Interval * x.count_new
Ref(s) == RefOf(states[s])

\* The earliest date of packet number 0 of stream s.
Base(s) == Interval * (1 + Lead[s])

\* The re-alignments, in ticks.
Shift == Interval * sync_count_diff

\* No packet is expected after the date of the last line.
DateInv ==
  pc # "exit" =>
    \A s \in Stream : states[s].timestamp_old <= states[s].timestamp

\* Before the streams are paired they have no reference.
NoRefInv ==
  ~Paired /\ pc \notin {"eof", "exit"} =>
    \A s \in Stream : states[s].timestamp_old = 0

\* The lines synchronize_input compares are lines of the logs.
FirstInv ==
  /\ pc = "read" /\ then = "first" => inc = 0
  /\ pc \in {"first", "sync"} \/ (pc = "read" /\ then = "sync") =>
       Due(0, New(0)) <= states[0].timestamp
  /\ pc = "sync" \/ (pc = "read" /\ then = "sync" /\ inc = 0) =>
       Due(1, New(1)) <= states[1].timestamp

\* Once they are paired no reference is earlier than its sender.
BaseInv == Paired => \A s \in Stream : Base(s) <= Ref(s)

\* The references agree on the date of a slot, up to 1.01 Secure.
NearInv ==
  Paired => /\ 100 * (Ref(0) - Ref(1) + Shift) <= 101 * Secure
            /\ -101 * Secure <= 100 * (Ref(0) - Ref(1) + Shift)

ClockInv == DateInv /\ NoRefInv /\ FirstInv /\ BaseInv /\ NearInv

-----------------------------------------------------------------------------
(* Arithmetic of slots.                                                    *)

\* Slots times ticks.
LEMMA Distribute ==
  ASSUME NEW i \in Int, NEW a \in Int, NEW b \in Int
  PROVE  /\ i * (a + b) = i * a + i * b
         /\ i * (a - b) = i * a - i * b
         /\ i * (a + 1) = i * a + i
         /\ i * (a - 1) = i * a - i
         /\ i * a \in Int
  OBVIOUS

\* A later counter is due later.
LEMMA Later ==
  ASSUME NEW i \in Nat, NEW a \in Nat
  PROVE  i * a \in Nat
  OBVIOUS

\* What a line is expected at, with the reference of packet 0.
LEMMA RefFacts ==
  ASSUME NEW x \in InputType, NEW l \in [count : Nat, ts : Nat]
  PROVE  /\ RefOf(x) \in Int
         /\ x.timestamp_old = RefOf(x) + Interval * x.count_new
         /\ temp_ts(x, l) = RefOf(x) + Interval * l.count
         /\ Interval * l.count \in Nat /\ Interval * x.count_new \in Nat
<1>1. /\ x.count_new \in Nat /\ x.timestamp_old \in Int /\ l.count \in Nat
      /\ x.count_new \in Int /\ l.count \in Int
      /\ Interval \in Nat /\ Interval \in Int
  BY IntervalType DEF InputType
<1> DEFINE a == Interval * x.count_new
           b == Interval * l.count
           c == Interval * (l.count - x.count_new)
<1>2. a \in Nat /\ b \in Nat
  BY <1>1, Later
<1>3. c = b - a
  BY <1>1, Distribute
<1>4. RefOf(x) = x.timestamp_old - a /\ temp_ts(x, l) = x.timestamp_old + c
  BY DEF RefOf, temp_ts
<1> HIDE DEF a, b, c
<1>5. /\ RefOf(x) \in Int /\ x.timestamp_old = RefOf(x) + a
      /\ temp_ts(x, l) = RefOf(x) + b
  BY <1>1, <1>2, <1>3, <1>4
<1> QED
  BY <1>2, <1>5 DEF a, b

\* When a line of stream s is due, with the date of its packet 0.
LEMMA DueFacts ==
  ASSUME NEW s \in Stream, NEW c \in Nat
  PROVE  /\ Base(s) \in Nat /\ Base(s) > 0
         /\ Due(s, c) = Base(s) + Interval * c
<1>1. /\ Lead[s] \in Nat /\ Interval \in Nat /\ Interval > 0 /\ Interval \in Int
      /\ c \in Int /\ 1 + Lead[s] \in Int
  BY ExtractAssumption, IntervalType
<1> DEFINE k == Interval * Lead[s]
           b == 1 + Lead[s]
<1>2. k \in Nat /\ Interval * (Lead[s] + 1) = k + Interval
  BY <1>1, Later, Distribute
<1>3. Base(s) = k + Interval
  <2>1. 1 + Lead[s] = Lead[s] + 1
    BY <1>1
  <2> QED
    BY <1>2, <2>1 DEF Base
<1>4. Due(s, c) = Interval * (c + b)
  <2>1. c + 1 + Lead[s] = c + b
    BY <1>1
  <2> QED
    BY <2>1 DEF Due
<1>5. Interval * (c + b) = Interval * c + Interval * b
  BY <1>1, Distribute
<1>6. Interval * b = Base(s)
  BY DEF Base
<1>7. Interval * c \in Nat
  BY <1>1, Later
<1> HIDE DEF k, b
<1> QED
  BY <1>1, <1>2, <1>3, <1>4, <1>5, <1>6, <1>7

\* How far stream s is from the other one, with the references of packet 0.
LEMMA ApartFacts ==
  ASSUME NEW st \in [Stream -> InputType], sync_count_diff \in Int,
         NEW s \in Stream, NEW o \in Stream, s # o
  PROVE  other_ts(st, s) - st[s].timestamp_old
           = RefOf(st[o]) - RefOf(st[s]) - Sign(s) * Shift
<1>1. /\ o = Other(s) /\ Sign(s) \in Int /\ (Sign(s) = 1 \/ Sign(s) = -1)
      /\ Interval \in Int
  BY IntervalType DEF Stream, Other, Sign
<1> DEFINE n == st[s].count_new
           m == st[o].count_new
           t == st[s].timestamp_old
           u == st[o].timestamp_old
           d == Sign(s) * sync_count_diff
           a == Interval * n
           b == Interval * m
           e == Interval * d
<1>2. n \in Int /\ m \in Int /\ t \in Int /\ u \in Int /\ d \in Int
  BY <1>1 DEF InputType
<1>3. other_ts(st, s) = u + Interval * (n - m - d)
  BY <1>1 DEF other_ts
<1>4. RefOf(st[o]) = u - b /\ RefOf(st[s]) = t - a
  BY DEF RefOf
<1> HIDE DEF n, m, t, u
<1>5. a \in Int /\ b \in Int /\ e \in Int /\ Interval * (n - m - d) = a - b - e
  <2>1. n - m \in Int
    BY <1>2
  <2> HIDE DEF d
  <2>2. Interval * (n - m - d) = Interval * (n - m) - e
    BY <1>1, <1>2, <2>1, Distribute
  <2>3. Interval * (n - m) = a - b
    BY <1>1, <1>2, Distribute
  <2>4. a \in Int /\ b \in Int /\ e \in Int
    BY <1>1, <1>2, Distribute
  <2> HIDE DEF a, b, e
  <2> QED
    BY <2>2, <2>3, <2>4
<1>6. e = Sign(s) * Shift
  <2>1. CASE Sign(s) = 1
    BY <1>1, <2>1, Distribute DEF Shift
  <2>2. CASE Sign(s) = -1
    BY <1>1, <2>2, Distribute DEF Shift
  <2> QED
    BY <1>1, <2>1, <2>2
<1> HIDE DEF a, b, e, d
<1> QED
  BY <1>2, <1>3, <1>4, <1>5, <1>6 DEF t

-----------------------------------------------------------------------------
(* Reading a line.                                                         *)

\* Before the pairing a line only becomes the current one; afterwards the
\* date of packet 0 moves by at most Secure back or one slot forward.
LEMMA ReadRef ==
  ASSUME NEW s \in Stream, NEW x \in InputType,
         NEW l \in [count : Nat, ts : Nat], l.count # 0,
         Due(s, l.count) <= l.ts, x.timestamp_old <= x.timestamp,
         NEW r, r = read_input(x, l)
  PROVE  /\ r.st \in InputType
         /\ r.ret # -3 => r.st.timestamp_old <= r.st.timestamp
         /\ Synchronising(x) =>
              /\ r.ret \in {-3, 1}
              /\ r.ret = 1 => /\ r.st.timestamp_old = 0
                              /\ Due(s, r.st.count_new) <= r.st.timestamp
         /\ ~Synchronising(x) /\ Base(s) <= RefOf(x) =>
              /\ r.ret \in {-3, 0, 1, 2, 3}
              /\ r.ret # -3 => Base(s) <= RefOf(r.st)
              /\ r.ret \in {0, 1} => RefOf(r.st) = RefOf(x)
              /\ r.ret = 2 => /\ RefOf(r.st) <= RefOf(x)
                              /\ RefOf(x) - Secure <= RefOf(r.st)
              /\ r.ret = 3 => /\ RefOf(x) <= RefOf(r.st)
                              /\ RefOf(r.st) <= RefOf(x) + Interval
<1> DEFINE t == temp_ts(x, l)
           a == Interval * x.count_new
           b == Interval * l.count
<1>1. /\ x.count_new \in Nat /\ x.timestamp_old \in Int /\ x.timestamp \in Nat
      /\ l.count \in Nat /\ l.ts \in Nat /\ Interval \in Nat /\ Secure \in Nat
      /\ Base(s) \in Nat /\ Due(s, l.count) = Base(s) + b
  BY IntervalType, DueFacts DEF InputType
<1>2. /\ RefOf(x) \in Int /\ x.timestamp_old = RefOf(x) + a
      /\ t = RefOf(x) + b /\ b \in Nat /\ a \in Nat
  BY RefFacts
<1>3. /\ r.ret \in {-3, 0, 1, 2, 3}
      /\ r.st \in InputType
      /\ r.st.timestamp = l.ts
      /\ r.ret = 0 => /\ r.st.count_new = x.count_new
                      /\ r.st.timestamp_old = x.timestamp_old
                      /\ x.count_new < l.count
                      /\ t < l.ts
      /\ r.ret > 0 => r.st.count_new = l.count /\ x.count_new < l.count
      /\ r.ret = 1 => \/ Synchronising(x) /\ r.st.timestamp_old = x.timestamp_old
                      \/ r.st.timestamp_old = t /\ t < l.ts
      /\ r.ret = 2 => r.st.timestamp_old = l.ts /\ l.ts <= t /\ t - l.ts <= Secure
      /\ r.ret = 3 => /\ t <= r.st.timestamp_old /\ r.st.timestamp_old <= l.ts
                      /\ l.ts - t <= Interval
  BY ReadInput
<1>4. r.st.timestamp_old \in Int /\ r.st.count_new \in Nat
  BY <1>3 DEF InputType
<1>5. x.count_new < l.count => a <= b
  <2>1. ASSUME x.count_new < l.count
        PROVE  b - a \in Nat
    <3>1. l.count - x.count_new \in Nat
      BY <1>1, <2>1
    <3>2. Interval * (l.count - x.count_new) = b - a
      BY <1>1, Distribute
    <3> QED
      BY <1>1, <3>1, <3>2, Later
  <2> QED
    BY <1>2, <2>1
<1>6. RefOf(r.st) = r.st.timestamp_old - Interval * r.st.count_new
  BY DEF RefOf
<1>7. /\ r.ret = 0 => RefOf(r.st) = r.st.timestamp_old - a
      /\ r.ret > 0 => RefOf(r.st) = r.st.timestamp_old - b
  BY <1>3, <1>6
<1>8. r.ret # -3 => r.ret = 0 \/ (r.ret > 0 /\ r.ret \in {1, 2, 3})
  BY <1>3
<1> HIDE DEF t, a, b
<1>9. r.ret # -3 => r.st.timestamp_old <= r.st.timestamp
  BY <1>1, <1>2, <1>3, <1>4, <1>5, <1>8 DEF Synchronising
<1>10. ASSUME ~Synchronising(x), Base(s) <= RefOf(x)
       PROVE  /\ r.ret # -3 => Base(s) <= RefOf(r.st)
              /\ r.ret \in {0, 1} => RefOf(r.st) = RefOf(x)
              /\ r.ret = 2 => /\ RefOf(r.st) <= RefOf(x)
                              /\ RefOf(x) - Secure <= RefOf(r.st)
              /\ r.ret = 3 => /\ RefOf(x) <= RefOf(r.st)
                              /\ RefOf(r.st) <= RefOf(x) + Interval
  <2>1. CASE r.ret = 0
    BY <1>2, <1>3, <1>7, <1>10, <2>1
  <2>2. CASE r.ret = 1
    BY <1>1, <1>2, <1>3, <1>4, <1>7, <1>10, <2>2
  <2>3. CASE r.ret = 2
    BY <1>1, <1>2, <1>3, <1>4, <1>7, <1>10, <2>3
  <2>4. CASE r.ret = 3
    BY <1>1, <1>2, <1>3, <1>4, <1>7, <1>10, <2>4
  <2> QED
    BY <1>3, <2>1, <2>2, <2>3, <2>4
<1>11. ASSUME Synchronising(x)
       PROVE  /\ r.ret \in {-3, 1}
              /\ r.ret = 1 => /\ r.st.timestamp_old = 0
                              /\ Due(s, r.st.count_new) <= r.st.timestamp
  <2>1. r.ret \in {-3, 1}
    BY <1>11 DEF read_input
  <2>2. r.ret = 1 => r.st.timestamp_old = 0
    <3>1. r = IF NotIncreasing(x, l) THEN [ret |-> -3, st |-> Line(x, l)]
              ELSE [ret |-> 1, st |-> Line(x, l)]
      BY <1>11 DEF read_input
    <3>2. Line(x, l).timestamp_old = 0
      BY <1>11, LineUpdate DEF Synchronising
    <3> QED
      BY <3>1, <3>2
  <2>3. r.ret = 1 => Due(s, r.st.count_new) <= r.st.timestamp
    BY <1>3
  <2> QED
    BY <2>1, <2>2, <2>3
<1> QED
  BY <1>3, <1>9, <1>10, <1>11

\* How far stream s is ahead of stream o, as s sees it.
Lag(s, o) == Ref(s) - Ref(o) + Sign(s) * Shift

\* The arithmetic of next_input: however a line moves the reference, the
\* re-alignment brings the streams back to 1.01 Secure.
LEMMA Realigned ==
  ASSUME NEW g \in Int, NEW h \in Int, NEW k \in Int, k \in {0, 1, -1},
         NEW f, f = h + k * Interval,
         -101 * Secure <= 100 * g, 100 * g <= 101 * Secure,
         \/ h = g /\ k = 0
         \/ h <= g /\ g - Secure <= h /\ k = 1 /\ -100 * h > 101 * Secure
         \/ h <= g /\ k = 0 /\ ~(-100 * h > 101 * Secure)
         \/ g <= h /\ h <= g + Interval /\ k = -1 /\ 100 * h > 101 * Secure
         \/ g <= h /\ k = 0 /\ ~(100 * h > 101 * Secure)
  PROVE  -101 * Secure <= 100 * f /\ 100 * f <= 101 * Secure
<1>1. Secure \in Nat /\ Secure > 0 /\ Interval = 2 * Secure
  BY ExtractAssumption DEF Interval
<1>2. CASE k = 0
  <2>1. f = h
    BY <1>1, <1>2
  <2> QED
    BY <1>1, <1>2, <2>1
<1>3. CASE k = 1
  <2>1. f = h + 2 * Secure
    BY <1>1, <1>3
  <2> QED
    BY <1>1, <1>3, <2>1
<1>4. CASE k = -1
  <2>1. f = h - 2 * Secure
    BY <1>1, <1>4
  <2> QED
    BY <1>1, <1>4, <2>1
<1> QED
  BY <1>2, <1>3, <1>4

\* The types of the dates.
LEMMA ClockTypes ==
  ASSUME TypeOK
  PROVE  /\ \A s \in Stream : /\ Ref(s) \in Int
                              /\ states[s].timestamp_old \in Int
                              /\ states[s].timestamp \in Nat
                              /\ states[s].timestamp_old
                                   = Ref(s) + Interval * New(s)
                              /\ Interval * New(s) \in Nat
         /\ Shift \in Int
<1>1. ASSUME NEW s \in Stream
      PROVE  /\ Ref(s) \in Int
             /\ states[s].timestamp_old \in Int
             /\ states[s].timestamp \in Nat
             /\ states[s].timestamp_old = Ref(s) + Interval * New(s)
             /\ Interval * New(s) \in Nat
  <2>1. states[s] \in InputType /\ New(s) = states[s].count_new
    BY Types DEF New
  <2>2. states[s].timestamp_old \in Int /\ states[s].timestamp \in Nat
    BY <2>1 DEF InputType
  <2>3. [count |-> 0, ts |-> 0] \in [count : Nat, ts : Nat]
    OBVIOUS
  <2> QED
    BY <2>1, <2>2, <2>3, RefFacts DEF Ref
<1>2. Shift \in Int
  BY Types, IntervalType, Distribute DEF Shift
<1> QED
  BY <1>1, <1>2

\* Seen from either stream, they are near.
LEMMA NearLag ==
  ASSUME TypeOK, NEW s \in Stream, NEW o \in Stream, s # o
  PROVE  /\ Lag(s, o) \in Int
         /\ (/\ 100 * (Ref(0) - Ref(1) + Shift) <= 101 * Secure
             /\ -101 * Secure <= 100 * (Ref(0) - Ref(1) + Shift))
              <=> (100 * Lag(s, o) <= 101 * Secure /\ -101 * Secure <= 100 * Lag(s, o))
<1>1. /\ Ref(0) \in Int /\ Ref(1) \in Int /\ Shift \in Int /\ Secure \in Nat
  BY ClockTypes, IntervalType DEF Stream
<1>2. CASE s = 0 /\ o = 1
  <2>1. Lag(0, 1) = Ref(0) - Ref(1) + Shift
    BY <1>1 DEF Lag, Sign
  <2> QED
    BY <1>1, <1>2, <2>1
<1>3. CASE s = 1 /\ o = 0
  <2>1. Lag(1, 0) = -(Ref(0) - Ref(1) + Shift)
    BY <1>1 DEF Lag, Sign
  <2> QED
    BY <1>1, <1>3, <2>1
<1> QED
  BY <1>2, <1>3 DEF Stream

\* Reading a line keeps the references near (next_input, extract.c:438-504).
LEMMA ReadLineClock ==
  ASSUME PlainLogs, CountInv, TypeOK', ClockInv, ReadLine
  PROVE  ClockInv'
<1>1. /\ TypeOK /\ LogInv /\ DateInv /\ NoRefInv /\ FirstInv /\ BaseInv /\ NearInv
      /\ pc = "read" /\ then' = then
  BY CountFacts DEF ClockInv, ReadLine
<1> SUFFICES ASSUME NEW s \in Stream, NEW o \in Stream, s # o, inc = s
             PROVE  ClockInv'
  <2>1. /\ inc \in Stream /\ Other(inc) \in Stream /\ inc # Other(inc)
    BY <1>1 DEF TypeOK, Stream, Other
  <2> QED
    BY <2>1
<1>2. /\ s \in Stream /\ o \in Stream /\ s # o /\ inc = s /\ s = Other(o)
      /\ o = Other(s) /\ \A t \in Stream : t = s \/ t = o
  BY <1>1 DEF Stream, Other
<1>3. PICK l \in Lines(s) :
        next_input(read_input(states[s], l).ret,
                   [states EXCEPT ![s] = read_input(states[s], l).st])
  BY <1>2 DEF ReadLine
<1> DEFINE x == states[s]
           r == read_input(x, l)
           st == [states EXCEPT ![s] = r.st]
<1>4. /\ l \in [count : Nat, ts : Nat] /\ l.count # 0 /\ Due(s, l.count) <= l.ts
  <2>1. l \in [count : Nat, ts : Nat] /\ l.count # 0
    BY <1>1, <1>2, LineFacts DEF PlainLogs, LogInv
  <2>2. l.ts - Due(s, l.count) \in Nat
    <3>1. l.ts - Due(s, l.count) \in Delays
      BY DEF Lines
    <3>2. Delays \subseteq Nat
      BY ExtractAssumption
    <3> QED
      BY <3>1, <3>2
  <2>3. Due(s, l.count) \in Int /\ l.ts \in Nat
    <3>1. l.count \in Nat /\ Interval \in Nat /\ l.ts \in Nat
      BY <2>1, IntervalType
    <3>2. Interval * l.count \in Nat /\ Base(s) \in Nat
      BY <1>2, <3>1, Later, DueFacts
    <3> QED
      BY <1>2, <3>1, <3>2, DueFacts
  <2> QED
    BY <2>1, <2>2, <2>3
<1>5. x \in InputType /\ x.timestamp_old <= x.timestamp
  BY <1>1, <1>2, Types DEF DateInv
<1>6. next_input(r.ret, st)
  BY <1>3
<1>7. /\ r.st \in InputType
      /\ r.ret # -3 => r.st.timestamp_old <= r.st.timestamp
      /\ Synchronising(x) =>
           /\ r.ret \in {-3, 1}
           /\ r.ret = 1 => /\ r.st.timestamp_old = 0
                           /\ Due(s, r.st.count_new) <= r.st.timestamp
      /\ ~Synchronising(x) /\ Base(s) <= RefOf(x) =>
           /\ r.ret \in {-3, 0, 1, 2, 3}
           /\ r.ret # -3 => Base(s) <= RefOf(r.st)
           /\ r.ret \in {0, 1} => RefOf(r.st) = RefOf(x)
           /\ r.ret = 2 => /\ RefOf(r.st) <= RefOf(x)
                           /\ RefOf(x) - Secure <= RefOf(r.st)
           /\ r.ret = 3 => /\ RefOf(x) <= RefOf(r.st)
                           /\ RefOf(r.st) <= RefOf(x) + Interval
  <2>1. r = read_input(x, l)
    OBVIOUS
  <2> HIDE DEF x, r
  <2> QED
    BY <1>2, <1>4, <1>5, <2>1, ReadRef
<1> HIDE DEF r
<1>8. st \in [Stream -> InputType] /\ st[s] = r.st /\ st[o] = states[o]
  BY <1>1, <1>2, <1>7, Types
<1> HIDE DEF st
<1>9. CASE pc' = "exit"
  BY <1>9 DEF ClockInv, DateInv, NoRefInv, FirstInv, BaseInv, NearInv, Paired
<1>10. CASE then \in {"first", "sync"} /\ pc' # "exit"
  <2>1. x.timestamp_old = 0 /\ states[o].timestamp_old = 0
    BY <1>1, <1>2, <1>10 DEF NoRefInv, Paired
  <2>2. r.ret = 1 /\ states' = st /\ pc' = then /\ inc' = inc
    BY <1>6, <1>7, <1>10, <2>1 DEF next_input, Synchronising
  <2>3. /\ states'[s].timestamp_old = 0 /\ states'[o].timestamp_old = 0
        /\ Due(s, states'[s].count_new) <= states'[s].timestamp
        /\ states'[s].timestamp_old <= states'[s].timestamp
        /\ states'[o] = states[o]
    BY <1>7, <1>8, <2>1, <2>2 DEF Synchronising
  <2>4. DateInv'
    BY <1>1, <1>2, <2>3 DEF DateInv
  <2>5. NoRefInv'
    BY <1>2, <2>3 DEF NoRefInv
  <2>6. FirstInv'
    <3>1. then = "first" => s = 0
      BY <1>1, <1>2 DEF FirstInv
    <3>2. then = "sync" /\ s = 0 =>
            o = 1 /\ Due(1, states[1].count_new) <= states[1].timestamp
      BY <1>1, <1>2 DEF FirstInv, New, Stream
    <3>3. then = "sync" /\ s = 1 =>
            o = 0 /\ Due(0, states[0].count_new) <= states[0].timestamp
      BY <1>1, <1>2 DEF FirstInv, New, Stream
    <3>4. s = 0 \/ s = 1
      BY <1>2 DEF Stream
    <3> QED
      BY <1>10, <2>2, <2>3, <3>1, <3>2, <3>3, <3>4 DEF FirstInv, New
  <2>7. ~Paired'
    BY <1>10, <2>2 DEF Paired
  <2> QED
    BY <2>4, <2>5, <2>6, <2>7 DEF ClockInv, BaseInv, NearInv
<1>11. CASE then \notin {"first", "sync"} /\ pc' # "exit"
  <2>1. then \in {"update", "both", "again"} /\ Paired
    BY <1>1, <1>11 DEF TypeOK, Paired
  <2>2. /\ Base(s) <= Ref(s) /\ Base(o) <= Ref(o)
        /\ Base(s) \in Nat /\ Base(s) > 0
        /\ Ref(s) = RefOf(x) /\ Ref(o) = RefOf(states[o])
        /\ Ref(s) \in Int /\ Ref(o) \in Int /\ Shift \in Int
    <3>1. 0 \in Nat
      OBVIOUS
    <3> QED
      BY <1>1, <1>2, <2>1, <3>1, ClockTypes, DueFacts DEF BaseInv, Ref
  <2>3. ~Synchronising(x)
    BY <1>1, <1>2, <2>2, ClockTypes DEF Synchronising
  <2>4. /\ r.ret \in {-3, 0, 1, 2, 3}
        /\ r.ret # -3 => Base(s) <= RefOf(r.st)
        /\ r.ret \in {0, 1} => RefOf(r.st) = RefOf(x)
        /\ r.ret = 2 => /\ RefOf(r.st) <= RefOf(x)
                        /\ RefOf(x) - Secure <= RefOf(r.st)
        /\ r.ret = 3 => /\ RefOf(x) <= RefOf(r.st)
                        /\ RefOf(r.st) <= RefOf(x) + Interval
    BY <1>7, <2>2, <2>3
  <2> DEFINE h == RefOf(st[s]) - RefOf(st[o]) + Sign(s) * Shift
  <2>5. /\ other_ts(st, s) - st[s].timestamp_old = -h /\ h \in Int
        /\ Sign(s) \in {1, -1} /\ RefOf(r.st) \in Int
    <3>1. sync_count_diff \in Int /\ Sign(s) \in {1, -1}
      BY <1>1, <1>2, Types DEF Sign, Stream
    <3>2. other_ts(st, s) - st[s].timestamp_old
            = RefOf(st[o]) - RefOf(st[s]) - Sign(s) * Shift
      BY <1>2, <1>8, <3>1, ApartFacts
    <3>3. RefOf(st[o]) \in Int /\ RefOf(st[s]) \in Int
      <4>1. [count |-> 0, ts |-> 0] \in [count : Nat, ts : Nat]
        OBVIOUS
      <4> QED
        BY <1>2, <1>8, <4>1, RefFacts
    <3> QED
      BY <1>8, <2>2, <3>1, <3>2, <3>3
  <2>6. /\ Back(st, s) <=> -100 * h > 101 * Secure
        /\ Forward(st, s) <=> 100 * h > 101 * Secure
    <3>1. other_ts(st, s) \in Int /\ st[s].timestamp_old \in Int
      <4>1. /\ st[s] \in InputType /\ st[Other(s)] \in InputType
            /\ sync_count_diff \in Int /\ Interval \in Int /\ Sign(s) \in Int
        BY <1>1, <1>2, <1>8, <2>5, IntervalType, Types DEF Stream, Other
      <4> QED
        BY <4>1 DEF other_ts, InputType
    <3> HIDE DEF h
    <3>2. Secure \in Nat
      BY IntervalType
    <3> QED
      BY <2>5, <3>1, <3>2 DEF Back, Forward
  <2>7. \E k \in {0, 1, -1} :
          /\ \/ r.ret \in {0, 1} /\ k = 0
             \/ r.ret = 2 /\ k = 1 /\ -100 * h > 101 * Secure
             \/ r.ret = 2 /\ k = 0 /\ ~(-100 * h > 101 * Secure)
             \/ r.ret = 3 /\ k = -1 /\ 100 * h > 101 * Secure
             \/ r.ret = 3 /\ k = 0 /\ ~(100 * h > 101 * Secure)
          /\ sync_count_diff' = sync_count_diff + k * Sign(s)
          /\ \E t \in Stream : states' \in {st, RemovePacket(st, t)}
          /\ pc' \in {"read", then}
    <3> HIDE DEF h
    <3>1. inc = s
      BY <1>2
    <3>2. sync_count_diff \in Int
      BY <1>1, Types
    <3>3. CASE r.ret = 0 /\ states' = st /\ UNCHANGED <<sync_count_diff, pc, inc>>
      BY <1>1, <1>2, <2>5, <3>2, <3>3
    <3>4. CASE r.ret = 2 /\ Back(st, inc) /\ Realign(st, inc, sync_count_diff + Sign(inc))
      <4>1. /\ states' = RemovePacket(st, s) /\ pc' \in {"read", then}
            /\ sync_count_diff' = sync_count_diff + Sign(s)
        BY <1>1, <3>1, <3>4 DEF Realign
      <4>2. sync_count_diff + Sign(s) = sync_count_diff + 1 * Sign(s)
        BY <2>5, <3>2
      <4> QED
        BY <1>2, <2>6, <3>1, <3>4, <4>1, <4>2
    <3>5. CASE r.ret = 3 /\ Forward(st, inc) /\ Realign(st, Other(inc), sync_count_diff - Sign(inc))
      <4>1. Other(inc) \in Stream /\ 0 - 1 = -1
        BY <1>2
      <4>2. /\ states' = RemovePacket(st, Other(inc)) /\ pc' \in {"read", then}
            /\ sync_count_diff' = sync_count_diff - Sign(s)
        BY <1>1, <3>1, <3>5 DEF Realign
      <4>3. sync_count_diff - Sign(s) = sync_count_diff + (-1) * Sign(s)
        BY <2>5, <3>2
      <4> QED
        BY <2>6, <3>1, <3>5, <4>1, <4>2, <4>3
    <3>6. CASE /\ r.ret > 0 /\ states' = st /\ pc' = then
               /\ ~(r.ret = 2 /\ Back(st, inc)) /\ ~(r.ret = 3 /\ Forward(st, inc))
               /\ UNCHANGED <<sync_count_diff, inc>>
      BY <1>2, <2>4, <2>5, <2>6, <3>1, <3>2, <3>6
    <3> QED
      BY <1>6, <1>11, <3>3, <3>4, <3>5, <3>6 DEF next_input
  <2>8. PICK k \in {0, 1, -1} :
          /\ \/ r.ret \in {0, 1} /\ k = 0
             \/ r.ret = 2 /\ k = 1 /\ -100 * h > 101 * Secure
             \/ r.ret = 2 /\ k = 0 /\ ~(-100 * h > 101 * Secure)
             \/ r.ret = 3 /\ k = -1 /\ 100 * h > 101 * Secure
             \/ r.ret = 3 /\ k = 0 /\ ~(100 * h > 101 * Secure)
          /\ sync_count_diff' = sync_count_diff + k * Sign(s)
          /\ \E t \in Stream : states' \in {st, RemovePacket(st, t)}
          /\ pc' \in {"read", then}
    BY <2>7
  <2>9. \A t \in Stream : /\ states'[t].count_new = st[t].count_new
                          /\ states'[t].timestamp = st[t].timestamp
                          /\ states'[t].timestamp_old = st[t].timestamp_old
    <3>1. CASE states' = st
      BY <3>1
    <3>2. ASSUME NEW u \in Stream, states' = RemovePacket(st, u)
          PROVE  \A t \in Stream : /\ states'[t].count_new = st[t].count_new
                                  /\ states'[t].timestamp = st[t].timestamp
                                  /\ states'[t].timestamp_old = st[t].timestamp_old
      <4>1. /\ \A t \in Stream : t # u => states'[t] = st[t]
            /\ states'[u].count_new = st[u].count_new
            /\ states'[u].timestamp = st[u].timestamp
            /\ states'[u].timestamp_old = st[u].timestamp_old
        BY <1>8, <3>2, Removed
      <4> QED
        BY <4>1
    <3> QED
      BY <2>8, <3>1, <3>2
  <2>10. r.ret # -3
    BY <2>8
  <2>11. /\ Ref(s)' = RefOf(r.st) /\ Ref(o)' = Ref(o)
    <3>1. /\ RefOf(states'[s]) = RefOf(st[s]) /\ RefOf(states'[o]) = RefOf(st[o])
      BY <1>2, <2>9 DEF RefOf
    <3>2. Ref(s)' = RefOf(states'[s]) /\ Ref(o)' = RefOf(states'[o])
      BY DEF Ref, RefOf, Interval
    <3> QED
      BY <1>8, <2>2, <3>1, <3>2
  <2>12. DateInv'
    <3>1. \A t \in Stream : st[t].timestamp_old <= st[t].timestamp
      BY <1>1, <1>2, <1>7, <1>8, <2>10 DEF DateInv
    <3> QED
      BY <2>9, <3>1 DEF DateInv
  <2>13. BaseInv'
    BY <1>2, <2>2, <2>4, <2>10, <2>11 DEF BaseInv
  <2>14. NearInv'
    <3>1. Shift' = Shift + k * Sign(s) * Interval
      <4>1. /\ sync_count_diff \in Int /\ Interval \in Int
            /\ Sign(s) \in {1, -1} /\ k \in {0, 1, -1}
        BY <1>1, <2>5, <2>8, Types, IntervalType
      <4>2. /\ Shift = Interval * sync_count_diff
            /\ Shift' = Interval * (sync_count_diff + k * Sign(s))
        BY <2>8 DEF Shift, Interval
      <4>3. k * Sign(s) \in {0, 1, -1}
        BY <4>1
      <4> DEFINE m == k * Sign(s)
      <4>4. m \in {0, 1, -1} /\ Shift' = Interval * (sync_count_diff + m)
        BY <4>2, <4>3
      <4> HIDE DEF m
      <4>5. Shift' = Shift + m * Interval
        BY <4>1, <4>2, <4>4, Distribute
      <4> QED
        BY <4>5 DEF m
    <3> DEFINE g == Lag(s, o)
               f == Ref(s)' - Ref(o)' + Sign(s) * Shift'
    <3>2. f = h + k * Interval /\ g \in Int
      <4>1. g \in Int /\ Interval \in Int
        BY <1>1, <1>2, NearLag, IntervalType
      <4>2. h = RefOf(r.st) - Ref(o) + Sign(s) * Shift
        BY <1>8, <2>2
      <4>3. CASE Sign(s) = 1
        BY <2>2, <2>5, <2>8, <2>11, <3>1, <4>1, <4>2, <4>3
      <4>4. CASE Sign(s) = -1
        BY <2>2, <2>5, <2>8, <2>11, <3>1, <4>1, <4>2, <4>4
      <4> QED
        BY <2>5, <4>1, <4>3, <4>4
    <3>3. /\ r.ret \in {0, 1} => h = g
          /\ r.ret = 2 => h <= g /\ g - Secure <= h
          /\ r.ret = 3 => g <= h /\ h <= g + Interval
      <4>1. /\ h = RefOf(r.st) - Ref(o) + Sign(s) * Shift
            /\ g = Ref(s) - Ref(o) + Sign(s) * Shift
        BY <1>8, <2>2 DEF Lag
      <4>2. Sign(s) * Shift \in Int /\ Interval \in Nat /\ Secure \in Nat
        BY <2>2, <2>5, IntervalType
      <4> HIDE DEF h, g
      <4> QED
        BY <2>2, <2>4, <2>5, <4>1, <4>2
    <3>4. -101 * Secure <= 100 * g /\ 100 * g <= 101 * Secure
      BY <1>1, <1>2, <2>1, NearLag DEF NearInv
    <3>5. -101 * Secure <= 100 * f /\ 100 * f <= 101 * Secure
      <4>1. h \in Int /\ k \in Int
        BY <2>5, <2>8
      <4> HIDE DEF h, g, f
      <4>2. \/ h = g /\ k = 0
            \/ h <= g /\ g - Secure <= h /\ k = 1 /\ -100 * h > 101 * Secure
            \/ h <= g /\ k = 0 /\ ~(-100 * h > 101 * Secure)
            \/ g <= h /\ h <= g + Interval /\ k = -1 /\ 100 * h > 101 * Secure
            \/ g <= h /\ k = 0 /\ ~(100 * h > 101 * Secure)
        BY <2>8, <3>3
      <4>3. k \in {0, 1, -1} /\ f = h + k * Interval /\ g \in Int
        BY <2>8, <3>2
      <4> QED
        BY <3>4, <4>1, <4>2, <4>3, Realigned
    <3>6. /\ Ref(s)' \in Int /\ Ref(o)' \in Int /\ Shift' \in Int
          /\ Secure \in Nat
      <4>1. k * Sign(s) * Interval \in Int
        BY <2>5, <2>8, IntervalType
      <4> QED
        BY <2>2, <2>5, <2>11, <3>1, <4>1, IntervalType
    <3>7. CASE s = 0 /\ o = 1
      <4>1. f = Ref(0)' - Ref(1)' + Shift'
        BY <3>6, <3>7 DEF Sign
      <4> HIDE DEF f
      <4> QED
        BY <3>5, <3>6, <3>7, <4>1 DEF NearInv
    <3>8. CASE s = 1 /\ o = 0
      <4>1. -f = Ref(0)' - Ref(1)' + Shift' /\ f \in Int
        BY <3>6, <3>8 DEF Sign
      <4> HIDE DEF f
      <4> QED
        BY <3>5, <3>6, <3>8, <4>1 DEF NearInv
    <3> QED
      BY <3>7, <3>8 DEF Stream
  <2>15. Paired'
    BY <1>1, <2>1, <2>8 DEF Paired
  <2>16. NoRefInv' /\ FirstInv'
    BY <1>1, <2>1, <2>8, <2>15 DEF NoRefInv, FirstInv
  <2> QED
    BY <2>12, <2>13, <2>14, <2>16 DEF ClockInv
<1> QED
  BY <1>9, <1>10, <1>11

-----------------------------------------------------------------------------
(* The other steps.                                                        *)

\* A step that touches neither reference nor date of a stream.
LEMMA SameClock ==
  ASSUME ClockInv, Paired, Paired', pc \notin {"exit"},
         sync_count_diff' = sync_count_diff,
         \A s \in Stream : /\ states'[s].count_new = states[s].count_new
                           /\ states'[s].timestamp = states[s].timestamp
                           /\ states'[s].timestamp_old = states[s].timestamp_old
  PROVE  ClockInv'
<1>1. \A s \in Stream : RefOf(states'[s]) = RefOf(states[s])
  BY DEF RefOf
<1>2. Ref(0)' = Ref(0) /\ Ref(1)' = Ref(1) /\ Shift' = Shift
  BY <1>1 DEF Ref, RefOf, Shift, Interval, Stream
<1>3. DateInv'
  BY DEF ClockInv, DateInv
<1>4. NoRefInv' /\ FirstInv'
  BY DEF NoRefInv, FirstInv, Paired
<1>5. BaseInv'
  BY <1>2 DEF ClockInv, BaseInv, Stream
<1>6. NearInv'
  BY <1>2 DEF ClockInv, NearInv
<1> QED
  BY <1>3, <1>4, <1>5, <1>6 DEF ClockInv

\* The end of a file leaves the streams as they are.
LEMMA ReadEofClock ==
  ASSUME PlainLogs, CountInv, ClockInv, ReadEof
  PROVE  ClockInv'
<1>1. pc = "read" /\ pc' \in {"exit", "eof"} /\ states' = states
  <2>1. log[in_state].file \in 1..Files /\ Files = 1
    BY CountFacts DEF TypeOK, PlainLogs
  <2>2. ~(log[in_state].file < Files)
    BY <2>1
  <2> QED
    BY <2>2 DEF ReadEof
<1> QED
  BY <1>1 DEF ClockInv, DateInv, NoRefInv, FirstInv, BaseInv, NearInv, Paired

\* The references are the dates of the first packets that were received
\* within Secure of one another (synchronize_input).
LEMMA SyncClock ==
  ASSUME CountInv, ClockInv, SyncFirst \/ Sync
  PROVE  ClockInv'
<1>1. /\ TypeOK /\ DateInv /\ NoRefInv /\ FirstInv
      /\ 0 \in Stream /\ 1 \in Stream
  BY CountFacts DEF ClockInv, Stream
<1> DEFINE ts == states[0].timestamp - states[1].timestamp
<1>2. CASE /\ pc \in {"first", "sync"} /\ pc' = "read" /\ then' = "sync"
           /\ pc = "first" => inc' = 1
           /\ states' = states
  <2>1. ~Paired /\ ~Paired'
    BY <1>2 DEF Paired
  <2>2. FirstInv'
    BY <1>1, <1>2 DEF FirstInv, New, Due, Interval
  <2>3. DateInv' /\ NoRefInv'
    BY <1>1, <1>2, <2>1 DEF DateInv, NoRefInv
  <2> QED
    BY <2>1, <2>2, <2>3 DEF ClockInv, BaseInv, NearInv
<1>3. CASE /\ pc = "sync" /\ pc' = "pass" /\ ~(ts > Secure) /\ ~(ts < -Secure)
           /\ sync_count_diff' = states[0].count_new - states[1].count_new
           /\ states' = [s \in Stream |-> Synchronised(states[s])]
  <2>1. ASSUME NEW s \in Stream
        PROVE  /\ states'[s].timestamp_old = states[s].timestamp
               /\ states'[s].timestamp = states[s].timestamp
               /\ states'[s].count_new = New(s)
               /\ states[s].timestamp \in Nat /\ New(s) \in Nat
               /\ Interval * New(s) \in Nat
               /\ Ref(s)' = states[s].timestamp - Interval * New(s)
               /\ Base(s) \in Nat
               /\ Due(s, New(s)) = Base(s) + Interval * New(s)
    <3>1. states[s] \in InputType /\ states'[s] = Synchronised(states[s])
      BY <1>1, <1>3, Types
    <3>2. /\ states'[s].timestamp_old = states[s].timestamp
          /\ states'[s].timestamp = states[s].timestamp
          /\ states'[s].count_new = New(s)
          /\ states[s].timestamp \in Nat /\ New(s) \in Nat
      BY <3>1, SynchronisedUpdate DEF New, InputType
    <3>3. Ref(s)' = states'[s].timestamp_old - Interval * states'[s].count_new
      BY DEF Ref, RefOf, Interval
    <3>4. Interval * New(s) \in Nat
      BY <3>2, IntervalType, Later
    <3> QED
      BY <3>2, <3>3, <3>4, DueFacts
  <2>2. Due(0, New(0)) <= states[0].timestamp /\ Due(1, New(1)) <= states[1].timestamp
    BY <1>1, <1>3 DEF FirstInv
  <2>3. Shift' = Interval * New(0) - Interval * New(1)
    <3>1. Shift' = Interval * (New(0) - New(1))
      BY <1>3 DEF Shift, New, Interval
    <3>2. New(0) \in Int /\ New(1) \in Int /\ Interval \in Int
      BY <1>1, <2>1, IntervalType
    <3> QED
      BY <3>1, <3>2, Distribute
  <2>4. DateInv'
    BY <2>1 DEF DateInv
  <2>5. Paired' /\ NoRefInv' /\ FirstInv'
    BY <1>3 DEF Paired, NoRefInv, FirstInv
  <2>6. BaseInv'
    <3>1. ASSUME NEW s \in Stream
          PROVE  Base(s) <= Ref(s)'
      <4>1. Due(s, New(s)) <= states[s].timestamp
        BY <2>2 DEF Stream
      <4>2. /\ states[s].timestamp \in Nat /\ Interval * New(s) \in Nat
            /\ Ref(s)' = states[s].timestamp - Interval * New(s)
            /\ Base(s) \in Nat /\ Due(s, New(s)) = Base(s) + Interval * New(s)
        BY <2>1
      <4> QED
        BY <4>1, <4>2
    <3>2. \A s \in Stream : Base(s)' = Base(s)
      BY DEF Base, Interval
    <3> QED
      BY <3>1, <3>2 DEF BaseInv
  <2>7. NearInv'
    <3>1. Ref(0)' - Ref(1)' + Shift' = ts /\ ts \in Int
      <4>1. /\ states[0].timestamp \in Nat /\ states[1].timestamp \in Nat
            /\ Interval * New(0) \in Nat /\ Interval * New(1) \in Nat
            /\ Ref(0)' = states[0].timestamp - Interval * New(0)
            /\ Ref(1)' = states[1].timestamp - Interval * New(1)
        BY <1>1, <2>1
      <4> QED
        BY <2>3, <4>1
    <3> HIDE DEF ts
    <3>2. Secure \in Nat
      BY IntervalType
    <3> QED
      BY <1>3, <3>1, <3>2 DEF NearInv
  <2> QED
    BY <2>4, <2>5, <2>6, <2>7 DEF ClockInv
<1>4. CASE SyncFirst
  BY <1>2, <1>4 DEF SyncFirst, Ask
<1>5. CASE Sync
  BY <1>2, <1>3, <1>5 DEF Sync, Ask
<1> QED
  BY <1>4, <1>5

\* A packet given back takes its slots off the reference, and leaves the date
\* of packet 0 as it was.
LEMMA DropKeeps ==
  ASSUME CountInv, ClockInv, NEW s \in Stream, PassDrop(s)
  PROVE  /\ Paired /\ Paired'
         /\ sync_count_diff' = sync_count_diff
         /\ \A t \in Stream : RefOf(states'[t]) = RefOf(states[t])
         /\ \A t \in Stream : states'[t].timestamp_old <= states'[t].timestamp
<1>1. /\ TypeOK /\ DateInv
      /\ pc = "pass" /\ pc' = "read" /\ then' = "update"
      /\ states' = Unread(s) /\ sync_count_diff' = sync_count_diff
  BY CountFacts DEF ClockInv, PassDrop, AtPass, Ask
<1>2. Paired /\ Paired'
  BY <1>1 DEF Paired
<1>3. /\ \A t \in Stream : t # s => states'[t] = states[t]
      /\ states'[s].count_new = Old(s)
      /\ states'[s].timestamp_old = states[s].timestamp_old - Interval * age(s)
      /\ states'[s].timestamp = states[s].timestamp
  <2>1. states \in [Stream -> InputType]
    BY <1>1 DEF TypeOK
  <2> QED
    BY <1>1, <2>1, UnreadUpdate DEF Old
<1>4. /\ age(s) \in Nat /\ age(s) = New(s) - Old(s) /\ Old(s) \in Nat /\ New(s) \in Nat
  BY <1>1, PassFacts, CountFacts DEF Stream
<1>5. /\ Interval * age(s) \in Nat /\ Interval * Old(s) \in Nat
      /\ Interval * New(s) \in Nat
      /\ Interval * age(s) = Interval * New(s) - Interval * Old(s)
  BY <1>4, IntervalType, Later, Distribute
<1>6. /\ states[s].timestamp_old \in Int /\ states[s].timestamp \in Nat
      /\ states[s].timestamp_old <= states[s].timestamp
      /\ states[s].timestamp_old = Ref(s) + Interval * New(s) /\ Ref(s) \in Int
  BY <1>1, ClockTypes DEF DateInv
<1>7. RefOf(states'[s]) = Ref(s)
  <2>1. RefOf(states'[s]) = states'[s].timestamp_old - Interval * Old(s)
    BY <1>3 DEF RefOf
  <2> QED
    BY <1>3, <1>5, <1>6, <2>1
<1>8. /\ \A t \in Stream : RefOf(states'[t]) = RefOf(states[t])
      /\ \A t \in Stream : states'[t].timestamp_old <= states'[t].timestamp
  <2>1. /\ states'[s].timestamp_old <= states'[s].timestamp
    BY <1>3, <1>5, <1>6
  <2> QED
    BY <1>1, <1>3, <1>7, <2>1 DEF DateInv, Ref
<1> QED
  BY <1>1, <1>2, <1>8

\* Hence it keeps the references near.
LEMMA PassDropClock ==
  ASSUME CountInv, ClockInv, NEW s \in Stream, PassDrop(s)
  PROVE  ClockInv'
<1>1. /\ BaseInv /\ NearInv
  BY DEF ClockInv
<1>2. /\ Paired /\ Paired' /\ sync_count_diff' = sync_count_diff
      /\ \A t \in Stream : RefOf(states'[t]) = RefOf(states[t])
      /\ \A t \in Stream : states'[t].timestamp_old <= states'[t].timestamp
  BY DropKeeps
<1>3. Ref(0)' = Ref(0) /\ Ref(1)' = Ref(1) /\ Shift' = Shift
  BY <1>2 DEF Ref, RefOf, Shift, Interval, Stream
<1>4. DateInv' /\ NoRefInv' /\ FirstInv'
  BY <1>2 DEF DateInv, Paired, NoRefInv, FirstInv
<1>5. BaseInv'
  BY <1>1, <1>2, <1>3 DEF BaseInv, Stream
<1>6. NearInv'
  BY <1>1, <1>2, <1>3 DEF NearInv
<1> QED
  BY <1>4, <1>5, <1>6 DEF ClockInv

\* The other steps of first_pass move no reference.
LEMMA PassKeeps ==
  ASSUME CountInv,
         \/ PassBoth \/ UpdateOne \/ AfterBoth \/ AdvanceSecond \/ AfterAgain
         \/ \E s \in Stream : PassOne(s)
  PROVE  /\ Paired /\ Paired' /\ pc # "exit"
         /\ sync_count_diff' = sync_count_diff
         /\ \A t \in Stream : /\ states'[t].count_new = states[t].count_new
                              /\ states'[t].timestamp = states[t].timestamp
                              /\ states'[t].timestamp_old = states[t].timestamp_old
<1>1. TypeOK /\ states \in [Stream -> InputType]
  BY CountFacts DEF TypeOK
<1>2. /\ pc \in {"pass", "update", "both", "stats0", "again"}
      /\ pc' \in {"pass", "stats0"}
           \/ (pc' = "read" /\ then' \in {"update", "both", "again"})
      /\ sync_count_diff' = sync_count_diff
  BY DEF PassBoth, UpdateOne, AfterBoth, AdvanceSecond, AfterAgain, PassOne, Ask,
         AtPass, CatchUp
<1>3. \/ states' = states
      \/ CatchUp
      \/ \E s \in Stream : PassOne(s)
  BY DEF PassBoth, UpdateOne, AfterBoth, AdvanceSecond, AfterAgain
<1>4. ASSUME NEW s \in Stream, NEW c,
             states' = [states EXCEPT ![s].count_old = c]
      PROVE  \A t \in Stream : /\ states'[t].count_new = states[t].count_new
                               /\ states'[t].timestamp = states[t].timestamp
                               /\ states'[t].timestamp_old = states[t].timestamp_old
  <2> DEFINE x == states[s]
             d == [x EXCEPT !.count_old = c]
  <2>1. x \in InputType
    BY <1>1
  <2>2. /\ d.count_new = x.count_new /\ d.timestamp = x.timestamp
        /\ d.timestamp_old = x.timestamp_old
    BY <2>1 DEF InputType
  <2>3. states' = [states EXCEPT ![s] = d]
    BY <1>4
  <2> HIDE DEF d
  <2> QED
    BY <1>1, <2>2, <2>3
<1>5. \A t \in Stream : /\ states'[t].count_new = states[t].count_new
                        /\ states'[t].timestamp = states[t].timestamp
                        /\ states'[t].timestamp_old = states[t].timestamp_old
  <2>1. CASE states' = states
    BY <2>1
  <2>2. CASE CatchUp
    <3>1. 1 \in Stream
      BY DEF Stream
    <3> QED
      BY <1>4, <2>2, <3>1 DEF CatchUp
  <2>3. ASSUME NEW s \in Stream, PassOne(s)
        PROVE  \A t \in Stream : /\ states'[t].count_new = states[t].count_new
                                 /\ states'[t].timestamp = states[t].timestamp
                                 /\ states'[t].timestamp_old = states[t].timestamp_old
    <3>1. Other(s) \in Stream
      BY DEF Stream, Other
    <3>2. states' = [states EXCEPT ![Other(s)].count_old
                                    = states[Other(s)].count_old + age(s)]
      BY <2>3 DEF PassOne
    <3> QED
      BY <1>4, <3>1, <3>2
  <2> QED
    BY <1>3, <2>1, <2>2, <2>3
<1>6. Paired /\ Paired' /\ pc # "exit"
  BY <1>2 DEF Paired
<1> QED
  BY <1>2, <1>5, <1>6

\* Hence they keep the references near.
LEMMA PassClock ==
  ASSUME CountInv, ClockInv,
         \/ PassBoth \/ UpdateOne \/ AfterBoth \/ AdvanceSecond \/ AfterAgain
         \/ \E s \in Stream : PassOne(s)
  PROVE  ClockInv'
BY PassKeeps, SameClock

\* The references start together.
LEMMA InitClock ==
  ASSUME Init
  PROVE  ClockInv
<1>1. /\ pc = "read" /\ then = "first" /\ inc = 0
      /\ \A s \in Stream : /\ states[s].timestamp_old = 0
                           /\ states[s].timestamp = 0
  BY DEF Init, NoInput
<1>2. ~Paired
  BY <1>1 DEF Paired
<1> QED
  BY <1>1, <1>2 DEF ClockInv, DateInv, NoRefInv, FirstInv, BaseInv, NearInv

\* Every step keeps the references near.
LEMMA NextClock ==
  ASSUME PlainLogs, CountInv, CountInv', ClockInv, [Next]_vars
  PROVE  ClockInv'
<1>1. CASE ReadLine
  BY <1>1, ReadLineClock DEF CountInv
<1>2. CASE ReadEof
  BY <1>2, ReadEofClock
<1>3. CASE SyncFirst \/ Sync
  BY <1>3, SyncClock
<1>4. ASSUME NEW s \in Stream, PassDrop(s)
      PROVE  ClockInv'
  BY <1>4, PassDropClock
<1>5. CASE \/ PassBoth \/ UpdateOne \/ AfterBoth \/ AdvanceSecond \/ AfterAgain
           \/ \E s \in Stream : PassOne(s)
  BY <1>5, PassClock
<1>6. CASE UNCHANGED vars
  BY <1>6
  DEF vars, ClockInv, DateInv, NoRefInv, FirstInv, BaseInv, NearInv, Paired, Ref,
      RefOf, Shift, Interval, Due, New, Base
<1> QED
  BY <1>1, <1>2, <1>3, <1>4, <1>5, <1>6 DEF Next

-----------------------------------------------------------------------------
(* Packets that are never far too late.                                    *)

\* No packet is logged later than half a slot after its due time.
OnTime == \A d \in Delays : d <= Secure

\* Before the pairing: the lines that are to be compared were on time.
FirstOnTimeInv ==
  /\ pc \in {"first", "sync"} \/ (pc = "read" /\ then = "sync") =>
       states[0].timestamp <= Due(0, New(0)) + Secure
  /\ pc = "sync" \/ (pc = "read" /\ then = "sync" /\ inc = 0) =>
       states[1].timestamp <= Due(1, New(1)) + Secure

\* After it: no reference is later than half a slot behind its sender.
RefOnTimeInv == Paired => \A s \in Stream : Ref(s) <= Base(s) + Secure

OnTimeInv == FirstOnTimeInv /\ RefOnTimeInv

\* A line moves the date of packet 0 to no later than its own delay, unless
\* it leaves it where it is.
LEMMA ReadOnTime ==
  ASSUME NEW s \in Stream, NEW x \in InputType,
         NEW l \in [count : Nat, ts : Nat], l.count # 0,
         l.ts <= Due(s, l.count) + Secure,
         NEW r, r = read_input(x, l)
  PROVE  /\ r.ret # -3 /\ Synchronising(x) =>
              r.st.timestamp <= Due(s, r.st.count_new) + Secure
         /\ r.ret # -3 /\ ~Synchronising(x) /\ RefOf(x) <= Base(s) + Secure =>
              RefOf(r.st) <= Base(s) + Secure
<1> DEFINE t == temp_ts(x, l)
           b == Interval * l.count
<1>1. /\ l.ts \in Nat /\ Secure \in Nat /\ Base(s) \in Nat
      /\ Due(s, l.count) = Base(s) + b
  BY IntervalType, DueFacts
<1>2. /\ RefOf(x) \in Int /\ t = RefOf(x) + b /\ b \in Nat
  BY RefFacts
<1>3. /\ r.ret \in {-3, 0, 1, 2, 3}
      /\ r.st \in InputType
      /\ r.st.timestamp = l.ts
      /\ r.ret = 0 => /\ r.st.count_new = x.count_new
                      /\ r.st.timestamp_old = x.timestamp_old
      /\ r.ret > 0 => r.st.count_new = l.count
      /\ r.ret = 1 => Synchronising(x) \/ r.st.timestamp_old = t
      /\ r.ret = 2 => r.st.timestamp_old = l.ts
      /\ r.ret = 3 => r.st.timestamp_old <= l.ts
  BY ReadInput
<1>4. r.st.timestamp_old \in Int
  BY <1>3 DEF InputType
<1>5. /\ r.ret = 0 => RefOf(r.st) = RefOf(x)
      /\ r.ret > 0 => RefOf(r.st) = r.st.timestamp_old - b
  BY <1>3 DEF RefOf
<1> HIDE DEF t, b
<1>6. ASSUME r.ret # -3, Synchronising(x)
      PROVE  r.st.timestamp <= Due(s, r.st.count_new) + Secure
  <2>1. r.ret \in {-3, 1}
    BY <1>6 DEF read_input
  <2> QED
    BY <1>3, <1>6, <2>1
<1>7. ASSUME r.ret # -3, ~Synchronising(x), RefOf(x) <= Base(s) + Secure
      PROVE  RefOf(r.st) <= Base(s) + Secure
  <2>1. CASE r.ret = 0
    BY <1>5, <1>7, <2>1
  <2>2. CASE r.ret = 1
    BY <1>2, <1>3, <1>5, <1>7, <2>2
  <2>3. CASE r.ret \in {2, 3}
    BY <1>1, <1>2, <1>3, <1>4, <1>5, <2>3
  <2> QED
    BY <1>3, <1>7, <2>1, <2>2, <2>3
<1> QED
  BY <1>6, <1>7

\* Whatever next_input does with a line, the reference and the counter of the
\* line stand.
LEMMA NextInputKeeps ==
  ASSUME NEW s \in Stream, inc = s, pc = "read", then # "exit",
         NEW ret \in {-3, 0, 1, 2, 3}, NEW st \in [Stream -> InputType],
         next_input(ret, st), pc' # "exit"
  PROVE  /\ ret # -3
         /\ pc' \in {"read", then}
         /\ then \in {"first", "sync"} => inc' = inc
         /\ \A t \in Stream : /\ states'[t].count_new = st[t].count_new
                              /\ states'[t].timestamp = st[t].timestamp
                              /\ states'[t].timestamp_old = st[t].timestamp_old
<1>1. /\ ret # -3 /\ pc' \in {"read", then}
      /\ then \in {"first", "sync"} => inc' = inc
      /\ states' = st \/ \E u \in Stream : states' = RemovePacket(st, u)
  <2>1. Other(s) \in Stream
    BY DEF Stream, Other
  <2> QED
    BY <2>1 DEF next_input, Realign
<1>2. ASSUME NEW u \in Stream, states' = RemovePacket(st, u)
      PROVE  \A t \in Stream : /\ states'[t].count_new = st[t].count_new
                              /\ states'[t].timestamp = st[t].timestamp
                              /\ states'[t].timestamp_old = st[t].timestamp_old
  <2>1. /\ \A t \in Stream : t # u => states'[t] = st[t]
        /\ states'[u].count_new = st[u].count_new
        /\ states'[u].timestamp = st[u].timestamp
        /\ states'[u].timestamp_old = st[u].timestamp_old
    BY <1>2, Removed
  <2> QED
    BY <2>1
<1> QED
  BY <1>1, <1>2

\* Reading a line of a log whose packets are on time.
LEMMA ReadLineOnTime ==
  ASSUME PlainLogs, OnTime, CountInv, CountInv', ClockInv, OnTimeInv, ReadLine
  PROVE  OnTimeInv'
<1>1. /\ TypeOK /\ LogInv /\ NoRefInv /\ FirstInv /\ BaseInv
      /\ FirstOnTimeInv /\ RefOnTimeInv
      /\ pc = "read" /\ then' = then /\ then # "exit"
  BY CountFacts DEF ClockInv, OnTimeInv, ReadLine, TypeOK
<1> SUFFICES ASSUME NEW s \in Stream, NEW o \in Stream, s # o, inc = s
             PROVE  OnTimeInv'
  <2>1. /\ inc \in Stream /\ Other(inc) \in Stream /\ inc # Other(inc)
    BY <1>1 DEF TypeOK, Stream, Other
  <2> QED
    BY <2>1
<1>2. /\ \A t \in Stream : t = s \/ t = o
      /\ (s = 0 /\ o = 1) \/ (s = 1 /\ o = 0)
  BY DEF Stream
<1>3. PICK l \in Lines(s) :
        next_input(read_input(states[s], l).ret,
                   [states EXCEPT ![s] = read_input(states[s], l).st])
  BY DEF ReadLine
<1> DEFINE x == states[s]
           r == read_input(x, l)
           st == [states EXCEPT ![s] = r.st]
<1>4. /\ l \in [count : Nat, ts : Nat] /\ l.count # 0
      /\ l.ts <= Due(s, l.count) + Secure
  <2>1. l \in [count : Nat, ts : Nat] /\ l.count # 0
    BY <1>1, LineFacts DEF PlainLogs, LogInv
  <2>2. l.ts - Due(s, l.count) \in Nat /\ l.ts - Due(s, l.count) <= Secure
    <3>1. l.ts - Due(s, l.count) \in Delays
      BY DEF Lines
    <3>2. Delays \subseteq Nat
      BY ExtractAssumption
    <3> QED
      BY <3>1, <3>2 DEF OnTime
  <2>3. Due(s, l.count) \in Int /\ l.ts \in Nat /\ Secure \in Nat
    <3>1. l.count \in Nat /\ Interval \in Nat /\ l.ts \in Nat /\ Secure \in Nat
      BY <2>1, IntervalType
    <3>2. Interval * l.count \in Nat /\ Base(s) \in Nat
      BY <3>1, Later, DueFacts
    <3> QED
      BY <3>1, <3>2, DueFacts
  <2> QED
    BY <2>1, <2>2, <2>3
<1>5. x \in InputType
  BY <1>1, Types
<1>6. /\ r.ret \in {-3, 0, 1, 2, 3} /\ r.st \in InputType
      /\ r.ret # -3 /\ Synchronising(x) =>
           r.st.timestamp <= Due(s, r.st.count_new) + Secure
      /\ r.ret # -3 /\ ~Synchronising(x) /\ RefOf(x) <= Base(s) + Secure =>
           RefOf(r.st) <= Base(s) + Secure
  <2>1. r = read_input(x, l)
    OBVIOUS
  <2> HIDE DEF x, r
  <2> QED
    BY <1>4, <1>5, <2>1, ReadOnTime, ReadInput
<1> HIDE DEF r
<1>7. st \in [Stream -> InputType] /\ st[s] = r.st /\ st[o] = states[o]
  BY <1>1, <1>6, Types
<1>8. next_input(r.ret, st)
  BY <1>3 DEF r
<1> HIDE DEF st
<1>9. CASE pc' = "exit"
  BY <1>9 DEF OnTimeInv, FirstOnTimeInv, RefOnTimeInv, Paired
<1>10. CASE pc' # "exit"
  <2>1. /\ r.ret # -3
        /\ pc' \in {"read", then}
        /\ then \in {"first", "sync"} => inc' = inc
        /\ \A t \in Stream : /\ states'[t].count_new = st[t].count_new
                             /\ states'[t].timestamp = st[t].timestamp
                             /\ states'[t].timestamp_old = st[t].timestamp_old
    BY <1>1, <1>6, <1>7, <1>8, <1>10, NextInputKeeps
  <2>2. CASE then \in {"first", "sync"}
    <3>1. Synchronising(x) /\ ~Paired'
      BY <1>1, <2>1, <2>2 DEF NoRefInv, Paired, Synchronising
    <3>2. /\ states'[s].timestamp <= Due(s, states'[s].count_new) + Secure
          /\ states'[o].timestamp = states[o].timestamp
          /\ states'[o].count_new = states[o].count_new
      BY <1>6, <1>7, <2>1, <3>1
    <3>3. then = "first" => s = 0
      BY <1>1 DEF FirstInv
    <3>4. then = "sync" =>
            states[o].timestamp <= Due(o, states[o].count_new) + Secure
      BY <1>1, <1>2 DEF FirstOnTimeInv, New
    <3>5. FirstOnTimeInv'
      BY <1>1, <1>2, <2>1, <2>2, <3>2, <3>3, <3>4
      DEF FirstOnTimeInv, New, Due, Interval
    <3> QED
      BY <3>1, <3>5 DEF OnTimeInv, RefOnTimeInv
  <2>3. CASE then \notin {"first", "sync"}
    <3>1. Paired
      BY <1>1, <2>3 DEF TypeOK, Paired
    <3>2. /\ Base(s) <= Ref(s) /\ Base(s) \in Nat /\ Base(s) > 0
          /\ Ref(s) <= Base(s) + Secure /\ Ref(o) <= Base(o) + Secure
          /\ Ref(s) = RefOf(x)
      <4>1. 0 \in Nat
        OBVIOUS
      <4> QED
        BY <1>1, <3>1, <4>1, DueFacts DEF BaseInv, RefOnTimeInv, Ref
    <3>3. ~Synchronising(x)
      BY <1>1, <3>2, ClockTypes DEF Synchronising
    <3>4. RefOf(r.st) <= Base(s) + Secure
      BY <1>6, <2>1, <3>2, <3>3
    <3>5. /\ RefOf(states'[s]) = RefOf(r.st) /\ RefOf(states'[o]) = RefOf(states[o])
      BY <1>7, <2>1 DEF RefOf
    <3>6. /\ Ref(s)' <= Base(s) + Secure /\ Ref(o)' <= Base(o) + Secure
      <4>1. Ref(s)' = RefOf(states'[s]) /\ Ref(o)' = RefOf(states'[o])
        BY DEF Ref, RefOf, Interval
      <4> QED
        BY <3>2, <3>4, <3>5, <4>1 DEF Ref
    <3>7. RefOnTimeInv'
      BY <1>2, <3>6 DEF RefOnTimeInv, Base, Interval
    <3>8. FirstOnTimeInv'
      BY <1>1, <2>1, <2>3, <3>1 DEF FirstOnTimeInv, Paired
    <3> QED
      BY <3>7, <3>8 DEF OnTimeInv
  <2> QED
    BY <2>2, <2>3
<1> QED
  BY <1>9, <1>10

\* The first references are the dates of packets that were on time.
LEMMA SyncOnTime ==
  ASSUME CountInv, ClockInv, OnTimeInv, SyncFirst \/ Sync
  PROVE  OnTimeInv'
<1>1. TypeOK /\ FirstOnTimeInv /\ 0 \in Stream /\ 1 \in Stream
  BY CountFacts DEF OnTimeInv, Stream
<1>2. CASE /\ pc \in {"first", "sync"} /\ pc' = "read" /\ then' = "sync"
           /\ pc = "first" => inc' = 1
           /\ states' = states
  <2>1. ~Paired'
    BY <1>2 DEF Paired
  <2>2. FirstOnTimeInv'
    BY <1>1, <1>2 DEF FirstOnTimeInv, New, Due, Interval
  <2> QED
    BY <2>1, <2>2 DEF OnTimeInv, RefOnTimeInv
<1>3. CASE /\ pc = "sync" /\ pc' = "pass"
           /\ states' = [s \in Stream |-> Synchronised(states[s])]
  <2>1. ASSUME NEW s \in Stream
        PROVE  Ref(s)' <= Base(s) + Secure
    <3>1. states[s] \in InputType /\ states'[s] = Synchronised(states[s])
      BY <1>1, <1>3, Types
    <3>2. /\ states'[s].timestamp_old = states[s].timestamp
          /\ states'[s].count_new = New(s)
          /\ states[s].timestamp \in Nat /\ New(s) \in Nat
      BY <3>1, SynchronisedUpdate DEF New, InputType
    <3>3. Ref(s)' = states[s].timestamp - Interval * New(s)
      <4>1. Ref(s)' = states'[s].timestamp_old - Interval * states'[s].count_new
        BY DEF Ref, RefOf, Interval
      <4> QED
        BY <3>2, <4>1
    <3>4. Interval * New(s) \in Nat /\ Secure \in Nat
      BY <3>2, IntervalType, Later
    <3>5. Base(s) \in Nat /\ Due(s, New(s)) = Base(s) + Interval * New(s)
      BY <3>2, DueFacts
    <3>6. states[s].timestamp <= Due(s, New(s)) + Secure
      BY <1>1, <1>3 DEF FirstOnTimeInv, Stream
    <3> QED
      BY <3>2, <3>3, <3>4, <3>5, <3>6
  <2>2. \A s \in Stream : Base(s)' = Base(s)
    BY DEF Base, Interval
  <2>3. RefOnTimeInv'
    BY <2>1, <2>2 DEF RefOnTimeInv
  <2> QED
    BY <1>3, <2>3 DEF OnTimeInv, FirstOnTimeInv
<1>4. CASE SyncFirst
  BY <1>2, <1>4 DEF SyncFirst, Ask
<1>5. CASE Sync
  BY <1>2, <1>3, <1>5 DEF Sync, Ask
<1> QED
  BY <1>4, <1>5

\* A step after the pairing that moves no reference.
LEMMA SameOnTime ==
  ASSUME OnTimeInv, Paired, Paired',
         \A s \in Stream : RefOf(states'[s]) = RefOf(states[s])
  PROVE  OnTimeInv'
<1>1. \A s \in Stream : Ref(s)' = Ref(s) /\ Base(s)' = Base(s)
  BY DEF Ref, RefOf, Base, Interval
<1>2. RefOnTimeInv'
  BY <1>1 DEF OnTimeInv, RefOnTimeInv
<1>3. FirstOnTimeInv'
  BY DEF FirstOnTimeInv, Paired
<1> QED
  BY <1>2, <1>3 DEF OnTimeInv

\* Every step keeps the references on time.
LEMMA NextOnTime ==
  ASSUME PlainLogs, OnTime, CountInv, CountInv', ClockInv, OnTimeInv, [Next]_vars
  PROVE  OnTimeInv'
<1>1. CASE ReadLine
  BY <1>1, ReadLineOnTime
<1>2. CASE ReadEof
  <2>1. pc' \in {"exit", "eof"}
    <3>1. log[in_state].file \in 1..Files /\ Files = 1
      BY CountFacts DEF TypeOK, PlainLogs
    <3>2. ~(log[in_state].file < Files)
      BY <3>1
    <3> QED
      BY <1>2, <3>2 DEF ReadEof
  <2> QED
    BY <2>1 DEF OnTimeInv, FirstOnTimeInv, RefOnTimeInv, Paired
<1>3. CASE SyncFirst \/ Sync
  BY <1>3, SyncOnTime
<1>4. ASSUME NEW s \in Stream, PassDrop(s)
      PROVE  OnTimeInv'
  BY <1>4, DropKeeps, SameOnTime
<1>5. CASE \/ PassBoth \/ UpdateOne \/ AfterBoth \/ AdvanceSecond \/ AfterAgain
           \/ \E s \in Stream : PassOne(s)
  <2>1. /\ Paired /\ Paired'
        /\ \A t \in Stream : RefOf(states'[t]) = RefOf(states[t])
    BY <1>5, PassKeeps DEF RefOf
  <2> QED
    BY <2>1, SameOnTime
<1>6. CASE UNCHANGED vars
  BY <1>6
  DEF vars, OnTimeInv, FirstOnTimeInv, RefOnTimeInv, Paired, Ref, RefOf, Interval,
      Due, New, Base
<1> QED
  BY <1>1, <1>2, <1>3, <1>4, <1>5, <1>6 DEF Next

-----------------------------------------------------------------------------
(* The theorems.                                                           *)

\* The references of the two streams stay near at every place of extract.c.
THEOREM ReferencesStayNear ==
  ASSUME PlainLogs
  PROVE  Spec => []ClockInv
<1>1. Init => ClockInv
  BY InitClock
<1>2. CountInv /\ CountInv' /\ ClockInv /\ [Next]_vars => ClockInv'
  BY NextClock
<1> QED
  BY <1>1, <1>2, CountsInStep, PTL DEF Spec

\* exit(4), "Real big desynchronization", is dead code (extract.c:873-880).
THEOREM NoRealBigDesynchronization ==
  ASSUME PlainLogs
  PROVE  Spec => []NeverGivesUp
<1>1. CountInv /\ ClockInv => NeverGivesUp
  <2> SUFFICES ASSUME CountInv, ClockInv, pc = "pass", Apart
               PROVE  OutsideWindow(0) \/ OutsideWindow(1)
    BY DEF NeverGivesUp, Stream
  <2>1. TypeOK /\ 0 \in Stream /\ 1 \in Stream
    BY CountFacts DEF Stream
  <2>2. /\ states[0].timestamp_old <= states[0].timestamp
        /\ states[1].timestamp_old <= states[1].timestamp
    BY <2>1 DEF ClockInv, DateInv
  <2>3. /\ states[0].timestamp_old \in Int /\ states[0].timestamp \in Nat
        /\ states[1].timestamp_old \in Int /\ states[1].timestamp \in Nat
    BY <2>1, ClockTypes
  <2>4. Interval \in Nat
    BY IntervalType
  <2>5. CASE states[0].timestamp - states[1].timestamp > Interval
    <3>1. states[0].timestamp - states[1].timestamp_old > Interval
      BY <2>2, <2>3, <2>4, <2>5
    <3> QED
      BY <3>1 DEF OutsideWindow, Other
  <2>6. CASE -(states[0].timestamp - states[1].timestamp) > Interval
    <3>1. states[1].timestamp - states[0].timestamp_old > Interval
      BY <2>2, <2>3, <2>4, <2>6
    <3>2. Other(1) = 0
      BY DEF Other
    <3> QED
      BY <3>1, <3>2 DEF OutsideWindow
  <2> QED
    BY <2>5, <2>6 DEF Apart
<1> QED
  BY <1>1, CountsInStep, ReferencesStayNear, PTL

\* The re-alignment of next_input does what it is for: in front of every slot
\* the two streams expect it at dates at most 1.01 secure_interval apart.
THEOREM DriftStaysBounded ==
  ASSUME PlainLogs
  PROVE  Spec => []DriftBounded
<1>1. CountInv /\ ClockInv => DriftBounded
  <2> SUFFICES ASSUME CountInv, ClockInv, pc = "pass"
               PROVE  100 * Drift <= 101 * Secure /\ -100 * Drift <= 101 * Secure
    BY DEF DriftBounded
  <2>1. /\ TypeOK /\ 0 \in Stream /\ 1 \in Stream /\ 0 # 1
        /\ states \in [Stream -> InputType] /\ sync_count_diff \in Int
    <3>1. TypeOK /\ 0 # 1
      BY CountFacts
    <3>2. 0 \in Stream /\ 1 \in Stream
      BY DEF Stream
    <3> QED
      BY <3>1, <3>2 DEF TypeOK
  <2>2. other_ts(states, 0) - states[0].timestamp_old = Ref(1) - Ref(0) - Sign(0) * Shift
    <3> DEFINE s == 0
               o == 1
    <3>1. s \in Stream /\ o \in Stream /\ s # o
      BY <2>1
    <3> HIDE DEF s, o
    <3>2. other_ts(states, s) - states[s].timestamp_old
            = RefOf(states[o]) - RefOf(states[s]) - Sign(s) * Shift
      BY <2>1, <3>1, ApartFacts
    <3> QED
      BY <3>2 DEF s, o, Ref
  <2>3. Sign(0) = 1 /\ Ref(0) \in Int /\ Ref(1) \in Int /\ Shift \in Int
    BY <2>1, ClockTypes DEF Sign
  <2>4. other_ts(states, 0) \in Int /\ states[0].timestamp_old \in Int
    <3>1. /\ states[0] \in InputType /\ states[1] \in InputType /\ Interval \in Int
          /\ Other(0) = 1
      BY <2>1, IntervalType DEF Other
    <3> QED
      BY <2>1, <2>3, <3>1 DEF other_ts, InputType
  <2>5. Drift = Ref(0) - Ref(1) + Shift
    BY <2>2, <2>3, <2>4 DEF Drift
  <2>6. NearInv /\ Paired
    BY DEF ClockInv, Paired
  <2>7. Secure \in Nat
    BY IntervalType
  <2> QED
    BY <2>3, <2>5, <2>6, <2>7 DEF NearInv
<1> QED
  BY <1>1, CountsInStep, ReferencesStayNear, PTL

\* While no packet is more than half a slot late, none is ever received too
\* early for read_input: its check never stops the program (extract.c:383).
THEOREM NoPacketIsTooEarly ==
  ASSUME PlainLogs, OnTime
  PROVE  Spec => []NeverTooEarly
<1>1. Init => OnTimeInv
  <2> SUFFICES ASSUME Init
               PROVE  OnTimeInv
    OBVIOUS
  <2>1. pc = "read" /\ then = "first"
    BY DEF Init
  <2> QED
    BY <2>1 DEF OnTimeInv, FirstOnTimeInv, RefOnTimeInv, Paired
<1>2. CountInv /\ CountInv' /\ ClockInv /\ OnTimeInv /\ [Next]_vars => OnTimeInv'
  BY NextOnTime
<1>3. CountInv /\ ClockInv /\ OnTimeInv => NeverTooEarly
  <2> SUFFICES ASSUME CountInv, ClockInv, OnTimeInv,
                      pc = "read", ~Synchronising(states[inc]),
                      NEW l \in Lines(inc)
               PROVE  ~TooEarly(states[inc], l)
    BY DEF NeverTooEarly
  <2> DEFINE s == inc
             x == states[s]
  <2>1. TypeOK /\ LogInv /\ s \in Stream /\ x \in InputType
    BY CountFacts, Types
  <2>2. Paired
    BY <2>1 DEF ClockInv, NoRefInv, Synchronising
  <2>3. Ref(s) <= Base(s) + Secure
    BY <2>1, <2>2 DEF OnTimeInv, RefOnTimeInv
  <2>4. l \in [count : Nat, ts : Nat]
    BY <2>1, LineFacts DEF PlainLogs, LogInv
  <2>5. /\ temp_ts(x, l) = Ref(s) + Interval * l.count
        /\ Ref(s) \in Int /\ Interval * l.count \in Nat
    BY <2>1, <2>4, RefFacts DEF Ref
  <2>6. Due(s, l.count) = Base(s) + Interval * l.count /\ Base(s) \in Nat
    BY <2>1, <2>4, DueFacts
  <2>7. l.ts - Due(s, l.count) \in Nat /\ l.ts \in Nat /\ Secure \in Nat
    <3>1. l.ts - Due(s, l.count) \in Delays /\ Delays \subseteq Nat
      BY ExtractAssumption DEF Lines
    <3> QED
      BY <2>4, <3>1, IntervalType
  <2>8. Due(s, l.count) <= l.ts
    BY <2>5, <2>6, <2>7
  <2>9. temp_ts(x, l) - l.ts <= Secure
    BY <2>3, <2>5, <2>6, <2>7, <2>8
  <2>10. temp_ts(x, l) \in Int
    BY <2>5
  <2> QED
    BY <2>7, <2>9, <2>10 DEF TooEarly
<1> QED
  BY <1>1, <1>2, <1>3, CountsInStep, ReferencesStayNear, PTL DEF Spec

=============================================================================
