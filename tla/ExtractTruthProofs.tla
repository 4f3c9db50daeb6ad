------------------------- MODULE ExtractTruthProofs -------------------------
(***************************************************************************)
(* The statistics of extract.c are the truth, for every slot length,       *)
(* window, sender, pattern of losses, length of the logs and number of     *)
(* files, as long as every packet is logged less than half a slot after    *)
(* its due time (InTime) and no count of 0 is repeated (Numbered).         *)
(*                                                                         *)
(* Under this hypothesis nothing is ever dropped or re-aligned (TrackInv): *)
(* the streams are paired at packets of one slot, their references stay    *)
(* within half a slot of their senders, and every line read becomes the    *)
(* pending packet of its stream.  Then each step of first_pass that counts *)
(* moves the current slot to the next one of which a packet was received.  *)
(* The counters are compared with sets of slots of the whole history.      *)
(***************************************************************************)
EXTENDS ExtractTruth, ExtractProofs, FiniteSetTheorems

\* Every packet is logged less than half a slot after its due time.
InTime == \A d \in Delays : d < Secure

-----------------------------------------------------------------------------
(* The inductive invariant.                                                *)

Alive == pc \notin {"eof", "exit"}

\* A line of stream s has been read.
Started(s) ==
  IF s = 0 THEN ~(pc = "read" /\ then = "first")
  ELSE Paired \/ pc = "sync" \/ (pc = "read" /\ then = "sync" /\ inc = 0)

\* The pending packet of stream s is counted and about to be replaced.
Advancing(s) ==
  \/ pc = "read" /\ (in_state = s \/ then = "both")
  \/ pc \in {"both", "stats0"} /\ s = 1

\* The last counter of stream s that is counted.
Done(s) == IF Advancing(s) THEN New(s) ELSE Old(s)

\* The last slot that is counted, and the slot of the synchronisation.
Slot(s, c) == c + Lead[s]
Current == Slot(0, Done(0))
Start == Slot(0, synced[0])

\* The run of losses in front of the line just read is not counted yet.
Waiting(s) ==
  \/ pc = "update" /\ in_state = s
  \/ pc = "both" /\ s = 0

\* The last counter of stream s up to which its runs of losses are counted.
Top(s) == IF Waiting(s) THEN Old(s) ELSE New(s)

ControlInv ==
  Alive =>
    /\ pc # "again" /\ ~(pc = "read" /\ then = "again")
    /\ pc = "read" => inc = in_state
    /\ pc = "read" /\ then \in {"first", "both"} => inc = 0
    /\ pc = "read" /\ then = "both" => u64_temp = Old(1)
    /\ pc \in {"both", "stats0"} => Untouched

\* The packets seen of the streams.
Packets == [Stream -> SUBSET Nat]

\* The packets seen of a stream: none beyond the pending one, none lost
\* between it and the last one.
SeenInv ==
  Alive =>
    /\ seen \in Packets
    /\ \A s \in Stream :
         /\ Old(s) <= New(s)
         /\ \A c \in seen[s] : c <= New(s) /\ (Old(s) < c => c = New(s))

\* The pending packets are in time.
LineInv ==
  Alive =>
    \A s \in Stream :
      Started(s) => /\ New(s) \in seen[s]
                    /\ Due(s, New(s)) <= states[s].timestamp
                    /\ states[s].timestamp < Due(s, New(s)) + Secure

\* So are the references.
InTimeInv ==
  /\ Alive /\ ~Paired => \A s \in Stream : states[s].timestamp_old = 0
  /\ Paired => \A s \in Stream : Base(s) <= Ref(s) /\ Ref(s) < Base(s) + Secure

\* The streams are paired slot by slot.
PairedInv ==
  Paired =>
    /\ sync_count_diff = Lead[1] - Lead[0]
    /\ Slot(1, synced[1]) = Start
    /\ Slot(1, Done(1)) = Current
    /\ \A s \in Stream : /\ synced[s] <= Done(s)
                         /\ pc # "pass" /\ ~Advancing(s) => Old(s) < New(s)
                         /\ Waiting(s) => Old(s) \in seen[s]
    /\ \E s \in Stream : Done(s) \in seen[s]
    /\ pc = "pass" => \/ Old(0) < New(0) /\ Old(1) < New(1)
                      \/ Old(0) = New(0) /\ Old(1) = New(1)

TrackInv ==
  /\ TypeOK
  /\ \A s \in Stream : First <= log[s].count
  /\ ControlInv /\ SeenInv /\ LineInv /\ InTimeInv /\ PairedInv

-----------------------------------------------------------------------------
(* What is counted.                                                        *)

\* The packet of slot t on stream s is among the packets sn.
Hit(sn, s, t) == IF t - Lead[s] \in sn[s] THEN 1 ELSE 0
AnyHit(sn, t) == \E s \in Stream : Hit(sn, s, t) = 1

\* The slots after lo up to hi with outcome <<i, j>>.
Outcomes(sn, lo, hi, i, j) ==
  {t \in lo + 1 .. hi : Hit(sn, 0, t) = i /\ Hit(sn, 1, t) = j}

\* The ends of the runs of n slots lost on both streams.
LostRuns(sn, lo, hi, n) ==
  {t \in lo + 1 .. hi : /\ t - n > lo
                        /\ AnyHit(sn, t) /\ AnyHit(sn, t - n - 1)
                        /\ \A u \in t - n .. t - 1 : ~AnyHit(sn, u)}

\* The ends of the runs of n losses of one stream, up to counter top.
RunsTo(cs, lo, top, n) ==
  {c \in cs : /\ c <= top /\ c > lo
              /\ c - n - 1 \in cs
              /\ (c - n .. c - 1) \cap cs = {}}

OutcomesInv ==
  Alive =>
    \A i, j \in {0, 1} :
      u64_stats[<<i, j>>]
        = IF Paired THEN Cardinality(Outcomes(seen, Start, Current, i, j)) ELSE 0

LostRunsInv ==
  Alive /\ Stats =>
    \A n \in 1..MaxCount :
      bursts[Coord][n]
        = IF Paired THEN Cardinality(LostRuns(seen, Start, Current, n)) ELSE 0

RunsInv ==
  Alive /\ Stats =>
    \A n \in 1..MaxCount, s \in Stream :
      bursts[s][n]
        = IF Paired THEN Cardinality(RunsTo(seen[s], synced[s], Top(s), n)) ELSE 0

TruthInv == TrackInv /\ OutcomesInv /\ LostRunsInv /\ RunsInv

-----------------------------------------------------------------------------
(* How these sets grow.                                                    *)

\* Two sets with nothing in common.
LEMMA DisjointUnion ==
  ASSUME NEW A, NEW B, IsFiniteSet(A), IsFiniteSet(B), A \cap B = {}
  PROVE  /\ IsFiniteSet(A \cup B)
         /\ Cardinality(A \cup B) = Cardinality(A) + Cardinality(B)
         /\ Cardinality(A) \in Nat /\ Cardinality(B) \in Nat
<1>1. Cardinality(A \cap B) = 0
  BY FS_EmptySet
<1>2. Cardinality(A) \in Nat /\ Cardinality(B) \in Nat
  BY FS_CardinalityType
<1>3. /\ IsFiniteSet(A \cup B)
      /\ Cardinality(A \cup B) = Cardinality(A) + Cardinality(B) - Cardinality(A \cap B)
  BY FS_Union
<1> QED
  BY <1>1, <1>2, <1>3

\* A set is given an element, or not.
LEMMA OneMore ==
  ASSUME NEW A, NEW x, NEW p \in BOOLEAN, IsFiniteSet(A), x \notin A
  PROVE  Cardinality(A \cup (IF p THEN {x} ELSE {}))
           = Cardinality(A) + (IF p THEN 1 ELSE 0)
<1>1. Cardinality(A) \in Nat
  BY FS_CardinalityType
<1>2. CASE p
  BY <1>1, <1>2, FS_AddElement
<1>3. CASE ~p
  <2>1. A \cup (IF p THEN {x} ELSE {}) = A
    BY <1>3
  <2> QED
    BY <1>1, <1>3, <2>1
<1> QED
  BY <1>2, <1>3

\* n more slots are counted, the last one with outcome <<a, b>> and the
\* others lost on both streams.
LEMMA OutcomesGrow ==
  ASSUME NEW sn, NEW lo \in Nat, NEW cur \in Nat, lo <= cur, NEW n \in Nat, n > 0,
         NEW a \in {0, 1}, NEW b \in {0, 1}, a = 1 \/ b = 1,
         Hit(sn, 0, cur + n) = a, Hit(sn, 1, cur + n) = b,
         \A t \in cur + 1 .. cur + n - 1 : Hit(sn, 0, t) = 0 /\ Hit(sn, 1, t) = 0,
         NEW i \in {0, 1}, NEW j \in {0, 1}
  PROVE  Cardinality(Outcomes(sn, lo, cur + n, i, j))
           = Cardinality(Outcomes(sn, lo, cur, i, j))
               + (IF i = 0 /\ j = 0 THEN n - 1 ELSE 0)
               + (IF i = a /\ j = b THEN 1 ELSE 0)
<1> DEFINE A == Outcomes(sn, lo, cur, i, j)
           B == {t \in cur + 1 .. cur + n : Hit(sn, 0, t) = i /\ Hit(sn, 1, t) = j}
<1>1. /\ Outcomes(sn, lo, cur + n, i, j) = A \cup B
      /\ A \cap B = {}
  <2>1. lo + 1 .. cur + n = (lo + 1 .. cur) \cup (cur + 1 .. cur + n)
    OBVIOUS
  <2>2. (lo + 1 .. cur) \cap (cur + 1 .. cur + n) = {}
    OBVIOUS
  <2> QED
    BY <2>1, <2>2 DEF Outcomes
<1>2. IsFiniteSet(A) /\ IsFiniteSet(B)
  <2>1. IsFiniteSet(lo + 1 .. cur) /\ IsFiniteSet(cur + 1 .. cur + n)
    <3>1. lo + 1 \in Int /\ cur \in Int /\ cur + 1 \in Int /\ cur + n \in Int
      OBVIOUS
    <3> QED
      BY <3>1, FS_Interval
  <2>2. A \in SUBSET (lo + 1 .. cur) /\ B \in SUBSET (cur + 1 .. cur + n)
    BY DEF Outcomes
  <2> QED
    BY <2>1, <2>2, FS_Subset
<1>3. Cardinality(Outcomes(sn, lo, cur + n, i, j)) = Cardinality(A) + Cardinality(B)
      /\ Cardinality(A) \in Nat
  <2> HIDE DEF A, B
  <2> QED
    BY <1>1, <1>2, DisjointUnion
<1>4. \A t \in cur + 1 .. cur + n : t = cur + n \/ t \in cur + 1 .. cur + n - 1
  OBVIOUS
<1>5. cur + n \in cur + 1 .. cur + n /\ cur + n \notin cur + 1 .. cur + n - 1
  OBVIOUS
<1>6. CASE i = 0 /\ j = 0
  <2>1. B = cur + 1 .. cur + n - 1
    <3>1. cur + 1 .. cur + n - 1 \subseteq cur + 1 .. cur + n
      OBVIOUS
    <3>2. cur + n \notin B
      BY <1>6
    <3> QED
      BY <1>4, <1>6, <3>1, <3>2
  <2>2. Cardinality(B) = n - 1
    <3>1. Cardinality(cur + 1 .. cur + n - 1)
            = IF cur + 1 > cur + n - 1 THEN 0 ELSE cur + n - 1 - (cur + 1) + 1
      <4>1. cur + 1 \in Int /\ cur + n - 1 \in Int
        OBVIOUS
      <4> QED
        BY <4>1, FS_Interval
    <3> HIDE DEF B
    <3> QED
      BY <2>1, <3>1
  <2> QED
    BY <1>3, <1>6, <2>2
<1>7. CASE i = a /\ j = b
  <2>1. B = {cur + n}
    BY <1>4, <1>5, <1>7
  <2>2. Cardinality(B) = 1
    BY <2>1, FS_Singleton
  <2> QED
    BY <1>3, <1>7, <2>2
<1>8. CASE ~(i = 0 /\ j = 0) /\ ~(i = a /\ j = b)
  <2>1. B = {}
    BY <1>4, <1>8
  <2>2. Cardinality(B) = 0
    BY <2>1, FS_EmptySet
  <2> QED
    BY <1>3, <1>8, <2>2
<1> QED
  BY <1>6, <1>7, <1>8

\* Of which, at most one of the runs of n slots lost on both streams.
LEMMA LostRunsGrow ==
  ASSUME NEW sn, NEW lo \in Nat, NEW cur \in Nat, NEW hi \in Nat, lo <= cur, cur < hi,
         Hit(sn, 0, cur) = 1 \/ Hit(sn, 1, cur) = 1,
         Hit(sn, 0, hi) = 1 \/ Hit(sn, 1, hi) = 1,
         \A t \in cur + 1 .. hi - 1 : Hit(sn, 0, t) = 0 /\ Hit(sn, 1, t) = 0,
         NEW n \in Nat, n > 0
  PROVE  Cardinality(LostRuns(sn, lo, hi, n))
           = Cardinality(LostRuns(sn, lo, cur, n)) + (IF n = hi - cur - 1 THEN 1 ELSE 0)
<1> DEFINE A == LostRuns(sn, lo, cur, n)
           p == n = hi - cur - 1
           Ends(t) == /\ t - n > lo
                      /\ AnyHit(sn, t) /\ AnyHit(sn, t - n - 1)
                      /\ \A u \in t - n .. t - 1 : ~AnyHit(sn, u)
<1>0. /\ AnyHit(sn, cur) /\ AnyHit(sn, hi)
      /\ \A t \in cur + 1 .. hi - 1 : ~AnyHit(sn, t)
  BY DEF AnyHit, Stream
<1>1. \A t \in cur + 1 .. hi - 1 : ~Ends(t)
  BY <1>0
<1>2. Ends(hi) <=> p
  <2>1. CASE n = hi - cur - 1
    <3>1. /\ hi - n = cur + 1 /\ hi - n - 1 = cur
          /\ hi - n > lo
      BY <2>1
    <3> QED
      BY <1>0, <2>1, <3>1
  <2>2. CASE n < hi - cur - 1
    <3>1. hi - n - 1 \in cur + 1 .. hi - 1
      BY <2>2
    <3> QED
      BY <1>0, <2>2, <3>1
  <2>3. CASE n > hi - cur - 1
    <3>1. cur \in hi - n .. hi - 1
      BY <2>3
    <3> QED
      BY <1>0, <2>3, <3>1
  <2> QED
    BY <2>1, <2>2, <2>3
<1>3. \A t : t \in lo + 1 .. hi
               <=> \/ t \in lo + 1 .. cur
                   \/ t \in cur + 1 .. hi - 1
                   \/ t = hi
  OBVIOUS
<1>4. A = {t \in lo + 1 .. cur : Ends(t)}
      /\ LostRuns(sn, lo, hi, n) = {t \in lo + 1 .. hi : Ends(t)}
  BY DEF LostRuns
<1>5. hi \notin A
  <2>1. hi \notin lo + 1 .. cur
    OBVIOUS
  <2> QED
    BY <1>4, <2>1
<1>6. IsFiniteSet(A)
  <2>1. IsFiniteSet(lo + 1 .. cur)
    <3>1. lo + 1 \in Int /\ cur \in Int
      OBVIOUS
    <3> QED
      BY <3>1, FS_Interval
  <2>2. A \in SUBSET (lo + 1 .. cur)
    BY <1>4
  <2> QED
    BY <2>1, <2>2, FS_Subset
<1>7. LostRuns(sn, lo, hi, n) = A \cup (IF p THEN {hi} ELSE {})
  <2> HIDE DEF A, p, Ends
  <2> QED
    BY <1>1, <1>2, <1>3, <1>4
<1>8. p \in BOOLEAN
  OBVIOUS
<1> HIDE DEF A, p
<1>9. Cardinality(A \cup (IF p THEN {hi} ELSE {}))
        = Cardinality(A) + (IF p THEN 1 ELSE 0)
  BY <1>5, <1>6, <1>8, OneMore
<1> QED
  BY <1>7, <1>9 DEF A, p

\* The runs of losses of a stream, when the line after top is taken in.
LEMMA RunsGrow ==
  ASSUME NEW cs \in SUBSET Nat, NEW lo \in Nat, NEW top \in Nat, NEW c \in Nat,
         lo <= top, top < c, top \in cs, c \in cs,
         \A d \in cs : ~(top < d /\ d < c),
         NEW n \in Nat, n > 0
  PROVE  Cardinality(RunsTo(cs, lo, c, n))
           = Cardinality(RunsTo(cs, lo, top, n)) + (IF n = c - top - 1 THEN 1 ELSE 0)
<1> DEFINE A == RunsTo(cs, lo, top, n)
           p == n = c - top - 1
           Ends(d) == /\ d > lo /\ d - n - 1 \in cs
                      /\ (d - n .. d - 1) \cap cs = {}
<1>1. Ends(c) <=> p
  <2>1. CASE n = c - top - 1
    <3>1. c > lo /\ c - n - 1 = top
      BY <2>1
    <3>2. (c - n .. c - 1) \cap cs = {}
      <4>1. \A d \in c - n .. c - 1 : top < d /\ d < c
        BY <2>1
      <4> QED
        BY <4>1
    <3> QED
      BY <2>1, <3>1, <3>2
  <2>2. CASE n < c - top - 1
    <3>1. top < c - n - 1 /\ c - n - 1 < c
      BY <2>2
    <3> QED
      BY <2>2, <3>1
  <2>3. CASE n > c - top - 1
    <3>1. top \in c - n .. c - 1
      BY <2>3
    <3> QED
      BY <2>3, <3>1
  <2> QED
    BY <2>1, <2>2, <2>3
<1>2. \A d \in cs : d <= c <=> (d <= top \/ d = c)
  OBVIOUS
<1>3. /\ A = {d \in cs : d <= top /\ Ends(d)}
      /\ RunsTo(cs, lo, c, n) = {d \in cs : d <= c /\ Ends(d)}
  BY DEF RunsTo
<1>4. c \notin A
  BY <1>3
<1>5. IsFiniteSet(A)
  <2>1. A \in SUBSET Nat /\ \A d \in A : d <= top
    BY <1>3
  <2> HIDE DEF A
  <2> QED
    BY <2>1, FS_BoundedSetOfNaturals
<1>6. RunsTo(cs, lo, c, n) = A \cup (IF p THEN {c} ELSE {})
  <2> HIDE DEF A, p, Ends
  <2> QED
    BY <1>1, <1>2, <1>3
<1>7. p \in BOOLEAN
  OBVIOUS
<1> HIDE DEF A, p
<1>8. Cardinality(A \cup (IF p THEN {c} ELSE {}))
        = Cardinality(A) + (IF p THEN 1 ELSE 0)
  BY <1>4, <1>5, <1>7, OneMore
<1> QED
  BY <1>6, <1>8 DEF A, p

\* Nothing is counted between a slot and itself.
LEMMA NothingYet ==
  ASSUME NEW sn, NEW lo \in Nat, NEW i, NEW j, NEW n, NEW cs \in SUBSET Nat,
         NEW top \in Nat
  PROVE  /\ Cardinality(Outcomes(sn, lo, lo, i, j)) = 0
         /\ Cardinality(LostRuns(sn, lo, lo, n)) = 0
         /\ Cardinality(RunsTo(cs, top, top, n)) = 0
<1>1. lo + 1 .. lo = {}
  OBVIOUS
<1>2. Outcomes(sn, lo, lo, i, j) = {} /\ LostRuns(sn, lo, lo, n) = {}
  BY <1>1 DEF Outcomes, LostRuns
<1>3. RunsTo(cs, top, top, n) = {}
  <2>1. \A c \in cs : ~(c <= top /\ c > top)
    OBVIOUS
  <2> QED
    BY <2>1 DEF RunsTo
<1> QED
  BY <1>2, <1>3, FS_EmptySet

\* A line that is read is of none of the slots counted so far.
LEMMA LaterLine ==
  ASSUME NEW sn \in Packets, NEW s \in Stream, NEW c \in Nat,
         NEW sn2, sn2[s] = sn[s] \cup {c},
         \A r \in Stream : r # s => sn2[r] = sn[r],
         NEW lo \in Nat, NEW hi \in Nat, Lead[s] \in Nat, c + Lead[s] > hi
  PROVE  /\ \A i, j : Outcomes(sn2, lo, hi, i, j) = Outcomes(sn, lo, hi, i, j)
         /\ \A n \in Nat : LostRuns(sn2, lo, hi, n) = LostRuns(sn, lo, hi, n)
<1>1. \A t \in Int : t <= hi => \A r \in Stream : Hit(sn2, r, t) = Hit(sn, r, t)
  <2> SUFFICES ASSUME NEW t \in Int, t <= hi, NEW r \in Stream
               PROVE  Hit(sn2, r, t) = Hit(sn, r, t)
    OBVIOUS
  <2>1. CASE r = s
    <3>1. sn2[r] = sn[s] \cup {c}
      BY <2>1
    <3>2. t - Lead[s] # c
      OBVIOUS
    <3> QED
      BY <2>1, <3>1, <3>2 DEF Hit
  <2>2. CASE r # s
    BY <2>2 DEF Hit
  <2> QED
    BY <2>1, <2>2
<1>2. \A t \in Int : t <= hi => (AnyHit(sn2, t) <=> AnyHit(sn, t))
  BY <1>1 DEF AnyHit
<1>3. \A i, j : Outcomes(sn2, lo, hi, i, j) = Outcomes(sn, lo, hi, i, j)
  <2>1. \A t \in lo + 1 .. hi : t \in Int /\ t <= hi
    OBVIOUS
  <2>2. 0 \in Stream /\ 1 \in Stream
    BY DEF Stream
  <2> QED
    BY <1>1, <2>1, <2>2 DEF Outcomes
<1>4. ASSUME NEW n \in Nat
      PROVE  LostRuns(sn2, lo, hi, n) = LostRuns(sn, lo, hi, n)
  <2>1. \A t \in lo + 1 .. hi : /\ t \in Int /\ t <= hi
                               /\ t - n - 1 \in Int /\ t - n - 1 <= hi
                               /\ \A u \in t - n .. t - 1 : u \in Int /\ u <= hi
    OBVIOUS
  <2> QED
    BY <1>2, <2>1 DEF LostRuns
<1> QED
  BY <1>3, <1>4

\* Nor does it end or break a run of losses counted so far.
LEMMA LaterRun ==
  ASSUME NEW cs \in SUBSET Nat, NEW c \in Nat, NEW lo \in Nat, NEW top \in Nat,
         top < c
  PROVE  \A n \in Nat : RunsTo(cs \cup {c}, lo, top, n) = RunsTo(cs, lo, top, n)
<1> SUFFICES ASSUME NEW n \in Nat
             PROVE  RunsTo(cs \cup {c}, lo, top, n) = RunsTo(cs, lo, top, n)
  OBVIOUS
<1> DEFINE cs2 == cs \cup {c}
<1>1. \A d \in cs2 : d <= top =>
        /\ d \in cs
        /\ d - n - 1 \in cs2 <=> d - n - 1 \in cs
        /\ (d - n .. d - 1) \cap cs2 = (d - n .. d - 1) \cap cs
  OBVIOUS
<1> QED
  BY <1>1 DEF RunsTo

-----------------------------------------------------------------------------
(* Reading a line in time.                                                 *)

\* Such a line is taken: it does not stop the program, unless its counter is
\* repeated, and it is not dropped.  The reference stays in time.
LEMMA ReadInputInTime ==
  ASSUME NEW s \in Stream, NEW x \in InputType,
         NEW l \in [count : Nat, ts : Nat], l.count # 0,
         Due(s, l.count) <= l.ts, l.ts < Due(s, l.count) + Secure,
         NEW r, r = read_input(x, l),
         \/ Synchronising(x)
         \/ ~Synchronising(x) /\ Base(s) <= RefOf(x) /\ RefOf(x) < Base(s) + Secure
  PROVE  /\ r.ret \in {-3, 1, 2, 3} /\ r.st \in InputType
         /\ r.ret # -3 =>
              /\ x.count_new < l.count
              /\ r.st.count_new = l.count /\ r.st.count_old = x.count_new
              /\ r.st.timestamp = l.ts
              /\ Synchronising(x) => r.ret = 1 /\ r.st.timestamp_old = 0
              /\ ~Synchronising(x) => /\ Base(s) <= RefOf(r.st)
                                      /\ RefOf(r.st) < Base(s) + Secure
<1> DEFINE t == temp_ts(x, l)
           b == Interval * l.count
<1>1. /\ l.ts \in Nat /\ Secure \in Nat /\ Base(s) \in Nat /\ Interval \in Nat
      /\ Due(s, l.count) = Base(s) + b /\ Interval > Secure
  <2>1. Interval > Secure /\ Interval \in Nat /\ Secure \in Nat
    BY ExtractAssumption DEF Interval
  <2> QED
    BY <2>1, DueFacts
<1>2. /\ RefOf(x) \in Int /\ t = RefOf(x) + b /\ b \in Nat
  BY RefFacts
<1>3. /\ r.ret \in {-3, 0, 1, 2, 3}
      /\ r.st \in InputType
      /\ r.st.timestamp = l.ts
      /\ r.ret = 0 => Interval < l.ts - t
      /\ r.ret > 0 => /\ r.st.count_new = l.count
                      /\ r.st.count_old = x.count_new
                      /\ x.count_new < l.count
      /\ r.ret = 1 => Synchronising(x) \/ r.st.timestamp_old = t
      /\ r.ret = 2 => r.st.timestamp_old = l.ts
      /\ r.ret = 3 => t <= r.st.timestamp_old /\ r.st.timestamp_old <= l.ts
  BY ReadInput
<1>4. r.st.timestamp_old \in Int
  BY <1>3 DEF InputType
<1>5. r.ret > 0 => RefOf(r.st) = r.st.timestamp_old - b
  BY <1>3 DEF RefOf
<1>6. Synchronising(x) => r.ret \in {-3, 1}
  BY DEF read_input
<1>7. Synchronising(x) /\ r.ret = 1 => r.st.timestamp_old = 0
  <2> SUFFICES ASSUME Synchronising(x), r.ret = 1
               PROVE  r.st.timestamp_old = 0
    OBVIOUS
  <2>1. r = IF NotIncreasing(x, l) THEN [ret |-> -3, st |-> Line(x, l)]
            ELSE [ret |-> 1, st |-> Line(x, l)]
    BY DEF read_input
  <2>2. Line(x, l).timestamp_old = 0
    BY LineUpdate DEF Synchronising
  <2> QED
    BY <2>1, <2>2
<1> HIDE DEF t, b
<1>8. r.ret # 0
  <2>1. CASE Synchronising(x)
    BY <1>6, <2>1
  <2>2. CASE ~Synchronising(x)
    BY <1>1, <1>2, <1>3, <2>2
  <2> QED
    BY <2>1, <2>2
<1>9. ASSUME ~Synchronising(x), r.ret # -3
      PROVE  Base(s) <= RefOf(r.st) /\ RefOf(r.st) < Base(s) + Secure
  <2>1. CASE r.ret = 1
    BY <1>1, <1>2, <1>3, <1>5, <1>9, <2>1
  <2>2. CASE r.ret = 2
    BY <1>1, <1>2, <1>3, <1>5, <2>2
  <2>3. CASE r.ret = 3
    BY <1>1, <1>2, <1>3, <1>4, <1>5, <1>9, <2>3
  <2> QED
    BY <1>3, <1>8, <1>9, <2>1, <2>2, <2>3
<1> QED
  BY <1>3, <1>6, <1>7, <1>8, <1>9

\* What TrackInv says, and the types.
LEMMA TrackFacts ==
  ASSUME TrackInv
  PROVE  /\ TypeOK /\ ControlInv /\ SeenInv /\ LineInv /\ InTimeInv /\ PairedInv
         /\ states \in [Stream -> InputType] /\ 0 \in Stream /\ 1 \in Stream
         /\ Old(0) \in Nat /\ New(0) \in Nat /\ Old(1) \in Nat /\ New(1) \in Nat
         /\ synced[0] \in Nat /\ synced[1] \in Nat
         /\ Lead[0] \in Nat /\ Lead[1] \in Nat
         /\ \A s \in Stream : /\ states[s] \in InputType
                              /\ Old(s) \in Nat /\ New(s) \in Nat
                              /\ synced[s] \in Nat /\ Lead[s] \in Nat
                              /\ Done(s) \in Nat /\ Top(s) \in Nat
         /\ Current \in Nat /\ Start \in Nat
<1>1. /\ TypeOK /\ ControlInv /\ SeenInv /\ LineInv /\ InTimeInv /\ PairedInv
      /\ 0 \in Stream /\ 1 \in Stream
  BY DEF TrackInv, Stream
<1>2. \A s \in Stream : Old(s) \in Nat /\ New(s) \in Nat /\ synced[s] \in Nat
  BY <1>1, Types
<1>3. \A s \in Stream : Lead[s] \in Nat
  BY ExtractAssumption
<1>4. \A s \in Stream : Done(s) \in Nat /\ Top(s) \in Nat
  BY <1>2 DEF Done, Top
<1>5. Current \in Nat /\ Start \in Nat
  BY <1>1, <1>2, <1>3, <1>4 DEF Current, Start, Slot
<1> QED
  BY <1>1, <1>2, <1>3, <1>4, <1>5, Types

\* The streams keep so close that no packet is blamed for the drift.
LEMMA NeverRealigned ==
  ASSUME NEW st \in [Stream -> InputType], NEW s \in Stream,
         sync_count_diff = Lead[1] - Lead[0],
         \A t \in Stream : Base(t) <= RefOf(st[t]) /\ RefOf(st[t]) < Base(t) + Secure
  PROVE  ~Back(st, s) /\ ~Forward(st, s)
<1>1. /\ Lead[0] \in Nat /\ Lead[1] \in Nat /\ 0 \in Stream /\ 1 \in Stream
      /\ Secure \in Nat /\ Interval \in Nat
  BY ExtractAssumption, IntervalType DEF Stream
<1>2. PICK o \in Stream : o # s /\ o = Other(s)
  BY DEF Stream, Other
<1>3. /\ Base(0) \in Nat /\ Base(1) \in Nat
      /\ Shift = Base(1) - Base(0) /\ Shift \in Int
  <2>1. \A t \in Stream : Base(t) = Interval + Interval * Lead[t]
                          /\ Interval * Lead[t] \in Nat
    <3> SUFFICES ASSUME NEW t \in Stream
                 PROVE  Base(t) = Interval + Interval * Lead[t]
                        /\ Interval * Lead[t] \in Nat
      OBVIOUS
    <3>1. Lead[t] \in Nat /\ Interval \in Int /\ Lead[t] \in Int
      BY ExtractAssumption, IntervalType
    <3>2. Interval * Lead[t] \in Nat /\ Interval * (Lead[t] + 1) = Interval * Lead[t] + Interval
      BY <1>1, <3>1, Later, Distribute
    <3>3. 1 + Lead[t] = Lead[t] + 1
      BY <3>1
    <3> QED
      BY <1>1, <3>2, <3>3 DEF Base
  <2>2. Shift = Interval * Lead[1] - Interval * Lead[0]
    <3>1. Lead[0] \in Int /\ Lead[1] \in Int /\ Interval \in Int
      BY <1>1
    <3> QED
      BY <3>1, Distribute DEF Shift
  <2> QED
    BY <1>1, <2>1, <2>2
<1>4. RefOf(st[0]) \in Int /\ RefOf(st[1]) \in Int
  <2>1. [count |-> 0, ts |-> 0] \in [count : Nat, ts : Nat]
    OBVIOUS
  <2> QED
    BY <1>1, <2>1, RefFacts
<1>5. other_ts(st, s) - st[s].timestamp_old
        = RefOf(st[o]) - RefOf(st[s]) - Sign(s) * Shift
  <2>1. sync_count_diff \in Int
    BY <1>1
  <2> QED
    BY <1>2, <2>1, ApartFacts
<1> DEFINE g == other_ts(st, s) - st[s].timestamp_old
<1>6. g \in Int /\ g < Secure /\ -g < Secure
  <2>1. CASE s = 0
    <3>1. o = 1 /\ Sign(s) = 1
      BY <1>2, <2>1 DEF Other, Sign
    <3>2. g = RefOf(st[1]) - RefOf(st[0]) - Shift
      BY <1>3, <1>5, <2>1, <3>1
    <3> HIDE DEF g
    <3> QED
      BY <1>1, <1>3, <1>4, <3>2
  <2>2. CASE s = 1
    <3>1. o = 0 /\ Sign(s) = -1
      BY <1>2, <2>2 DEF Other, Sign
    <3>2. g = RefOf(st[0]) - RefOf(st[1]) + Shift
      BY <1>3, <1>4, <1>5, <2>2, <3>1
    <3> HIDE DEF g
    <3> QED
      BY <1>1, <1>3, <1>4, <3>2
  <2> QED
    BY <2>1, <2>2 DEF Stream
<1>7. other_ts(st, s) \in Int /\ st[s].timestamp_old \in Int
  <2>1. /\ st[s] \in InputType /\ st[o] \in InputType
        /\ Sign(s) \in Int /\ sync_count_diff \in Int
    BY <1>1 DEF Sign
  <2> QED
    BY <1>1, <1>2, <2>1 DEF other_ts, InputType
<1>8. Back(st, s) <=> 100 * g > 101 * Secure
  BY DEF Back
<1>9. Forward(st, s) <=> 100 * (-g) > 101 * Secure
  <2>1. st[s].timestamp_old - other_ts(st, s) = -g
    BY <1>7
  <2> QED
    BY <2>1 DEF Forward
<1> HIDE DEF g
<1> QED
  BY <1>1, <1>6, <1>8, <1>9

\* What happens to the history.
Witnessed ==
  seen' = [s \in Stream |-> IF log'[s].ts # log[s].ts
                            THEN seen[s] \cup {log'[s].count}
                            ELSE seen[s]]

\* Every line that does not stop the program becomes the pending packet of
\* its stream.
LEMMA ReadInTime ==
  ASSUME Numbered, InTime, TrackInv, ReadLine, Witnessed,
         NEW s \in Stream, NEW o \in Stream, s # o, inc = s
  PROVE  /\ states' \in [Stream -> InputType]
         /\ log' \in [Stream -> [count : Nat, ts : Nat, file : 1..Files,
                                 ended : BOOLEAN]]
         /\ \A t \in Stream : First <= log'[t].count
         /\ sync_count_diff' = sync_count_diff /\ inc' = inc
         /\ \/ pc' = "exit"
            \/ /\ pc' = then
               /\ \E c \in Nat :
                    /\ New(s) < c /\ New(s)' = c
                    /\ seen' = [seen EXCEPT ![s] = seen[s] \cup {c}]
                    /\ Due(s, c) <= states'[s].timestamp
                    /\ states'[s].timestamp < Due(s, c) + Secure
               /\ Old(s)' = New(s) /\ states'[o] = states[o]
               /\ ~Paired => states'[s].timestamp_old = 0
               /\ Paired => /\ Base(s) <= RefOf(states'[s])
                            /\ RefOf(states'[s]) < Base(s) + Secure
<1>1. PICK l \in Lines(s) :
        /\ log' = [log EXCEPT ![s].count = l.count, ![s].ts = l.ts]
        /\ next_input(read_input(states[s], l).ret,
                      [states EXCEPT ![s] = read_input(states[s], l).st])
  BY DEF ReadLine
<1> DEFINE x == states[s]
           r == read_input(x, l)
           st == [states EXCEPT ![s] = r.st]
<1>2. /\ TypeOK /\ InTimeInv /\ PairedInv /\ SeenInv /\ ControlInv
      /\ x \in InputType /\ pc = "read" /\ then' = then
      /\ First <= log[s].count /\ states \in [Stream -> InputType]
      /\ \A t \in Stream : First <= log[t].count
  BY TrackFacts DEF ReadLine, TrackInv
<1>3. /\ l \in [count : Nat, ts : Nat] /\ l.count # 0
      /\ log[s].count <= l.count /\ First <= l.count
  BY <1>2, LineFacts
<1>4. Due(s, l.count) <= l.ts /\ l.ts < Due(s, l.count) + Secure
  <2>1. l.ts - Due(s, l.count) \in Nat /\ l.ts - Due(s, l.count) < Secure
    <3>1. l.ts - Due(s, l.count) \in Delays
      BY DEF Lines
    <3>2. Delays \subseteq Nat
      BY ExtractAssumption
    <3> QED
      BY <3>1, <3>2 DEF InTime
  <2>2. Due(s, l.count) \in Int /\ l.ts \in Nat /\ Secure \in Nat
    <3>1. l.count \in Nat /\ Interval \in Nat /\ l.ts \in Nat /\ Secure \in Nat
      BY <1>3, IntervalType
    <3>2. Interval * l.count \in Nat /\ Base(s) \in Nat
      BY <3>1, Later, DueFacts
    <3> QED
      BY <3>1, <3>2, DueFacts
  <2> QED
    BY <2>1, <2>2
<1>5. /\ ~Paired => Synchronising(x)
      /\ Paired => /\ ~Synchronising(x)
                   /\ Base(s) <= RefOf(x) /\ RefOf(x) < Base(s) + Secure
  <2>1. Alive
    BY <1>2 DEF Alive
  <2>2. Paired => Base(s) <= Ref(s) /\ Ref(s) < Base(s) + Secure
    BY <1>2 DEF InTimeInv
  <2>3. ~Paired => Synchronising(x)
    BY <1>2, <2>1 DEF InTimeInv, Synchronising
  <2>4. Paired => ~Synchronising(x)
    <3>1. /\ Base(s) \in Nat /\ Base(s) > 0
          /\ Ref(s) \in Int /\ Interval * New(s) \in Nat
          /\ states[s].timestamp_old = Ref(s) + Interval * New(s)
      <4>1. 0 \in Nat
        OBVIOUS
      <4> QED
        BY <1>2, <4>1, ClockTypes, DueFacts
    <3> QED
      BY <2>2, <3>1 DEF Synchronising
  <2> QED
    BY <2>2, <2>3, <2>4 DEF Ref
<1>6. /\ r.ret \in {-3, 1, 2, 3} /\ r.st \in InputType
      /\ r.ret # -3 =>
           /\ x.count_new < l.count
           /\ r.st.count_new = l.count /\ r.st.count_old = x.count_new
           /\ r.st.timestamp = l.ts
           /\ Synchronising(x) => r.ret = 1 /\ r.st.timestamp_old = 0
           /\ ~Synchronising(x) => /\ Base(s) <= RefOf(r.st)
                                   /\ RefOf(r.st) < Base(s) + Secure
  <2>1. r = read_input(x, l)
    OBVIOUS
  <2> HIDE DEF x, r
  <2> QED
    BY <1>2, <1>3, <1>4, <1>5, <2>1, ReadInputInTime
<1> HIDE DEF r
<1>7. st \in [Stream -> InputType] /\ st[s] = r.st /\ st[o] = states[o]
  BY <1>2, <1>6
<1>8. next_input(r.ret, st)
  BY <1>1 DEF r
<1> HIDE DEF st
<1>9. r.ret # -3 /\ Paired => ~Back(st, s) /\ ~Forward(st, s)
  <2> SUFFICES ASSUME r.ret # -3, Paired
               PROVE  ~Back(st, s) /\ ~Forward(st, s)
    OBVIOUS
  <2>1. sync_count_diff = Lead[1] - Lead[0]
    BY <1>2 DEF PairedInv
  <2>2. \A t \in Stream : t = s \/ t = o
    BY DEF Stream
  <2>3. \A t \in Stream : Base(t) <= RefOf(st[t]) /\ RefOf(st[t]) < Base(t) + Secure
    BY <1>2, <1>5, <1>6, <1>7, <2>2 DEF InTimeInv, Ref
  <2> QED
    BY <1>7, <2>1, <2>3, NeverRealigned
<1>10. then \notin {"first", "sync"} => Paired
  BY <1>2 DEF TypeOK, Paired
<1>11. /\ sync_count_diff' = sync_count_diff /\ inc' = inc /\ states' = st
       /\ pc' = "exit" \/ (r.ret # -3 /\ pc' = then)
  <2>1. CASE r.ret = -3
    BY <1>8, <2>1 DEF next_input
  <2>2. CASE r.ret # -3
    <3>1. r.ret \in {1, 2, 3}
      BY <1>6, <2>2
    <3> QED
      BY <1>8, <1>9, <1>10, <2>2, <3>1 DEF next_input
  <2> QED
    BY <2>1, <2>2
<1>12. /\ log' \in [Stream -> [count : Nat, ts : Nat, file : 1..Files,
                               ended : BOOLEAN]]
       /\ log'[s].count = l.count /\ log'[s].ts = l.ts
       /\ \A t \in Stream : t # s => log'[t] = log[t]
  <2> DEFINE y == log[s]
             d == [y EXCEPT !.count = l.count, !.ts = l.ts]
  <2>1. /\ y \in [count : Nat, ts : Nat, file : 1..Files, ended : BOOLEAN]
        /\ log \in [Stream -> [count : Nat, ts : Nat, file : 1..Files,
                               ended : BOOLEAN]]
    BY <1>2 DEF TypeOK
  <2>2. /\ d \in [count : Nat, ts : Nat, file : 1..Files, ended : BOOLEAN]
        /\ d.count = l.count /\ d.ts = l.ts
    BY <1>3, <2>1
  <2>3. log' = [log EXCEPT ![s] = d]
    BY <1>1
  <2> HIDE DEF d, y
  <2> QED
    BY <2>1, <2>2, <2>3
<1>13. \A t \in Stream : First <= log'[t].count
  BY <1>2, <1>3, <1>12
<1>14. seen \in Packets => seen' = [seen EXCEPT ![s] = seen[s] \cup {l.count}]
  <2>1. l.ts # log[s].ts
    <3>1. l.ts > log[s].ts
      BY DEF Lines
    <3>2. l.ts \in Nat /\ log[s].ts \in Nat
      BY <1>2, <1>3, Types
    <3> QED
      BY <3>1, <3>2
  <2> QED
    BY <1>12, <2>1 DEF Witnessed, Packets
<1>15. CASE r.ret # -3 /\ pc' = then
  <2>1. seen \in Packets
    BY <1>2 DEF SeenInv, Alive
  <2>2. New(s)' = l.count /\ New(s) < l.count /\ Old(s)' = New(s) /\ l.count \in Nat
    BY <1>3, <1>6, <1>7, <1>11, <1>15 DEF New, Old
  <2> QED
    BY <1>4, <1>5, <1>6, <1>7, <1>11, <1>12, <1>13, <1>14, <1>15, <2>1, <2>2
<1> QED
  BY <1>7, <1>11, <1>12, <1>13, <1>15

-----------------------------------------------------------------------------
(* The streams stay paired slot by slot.                                   *)

\* A program that has stopped is of no further interest.
LEMMA StoppedTrack ==
  ASSUME TypeOK', \A s \in Stream : First <= log'[s].count, ~Alive'
  PROVE  TrackInv'
<1>1. ~Paired'
  BY DEF Alive, Paired
<1> QED
  BY <1>1
  DEF TrackInv, ControlInv, SeenInv, LineInv, InTimeInv, PairedInv

\* Reading a line (read_input and next_input, extract.c:335-504).
LEMMA ReadLineTrack ==
  ASSUME Numbered, InTime, TrackInv, ReadLine, Witnessed
  PROVE  TrackInv'
<1>1. /\ TypeOK /\ ControlInv /\ SeenInv /\ LineInv /\ InTimeInv /\ PairedInv
      /\ pc = "read" /\ Alive
      /\ UNCHANGED <<u64_stats, bursts, synced, in_state, then, u64_temp>>
  BY TrackFacts DEF ReadLine, Alive
<1>2. /\ then \in {"first", "sync", "update", "both"}
      /\ inc \in Stream /\ inc = in_state
      /\ then \in {"first", "both"} => inc = 0
      /\ then = "both" => u64_temp = Old(1)
  BY <1>1 DEF TypeOK, ControlInv
<1> SUFFICES ASSUME NEW s \in Stream, NEW o \in Stream, s # o, inc = s
             PROVE  TrackInv'
  <2>1. Other(inc) \in Stream /\ inc # Other(inc)
    BY <1>2 DEF Stream, Other
  <2> QED
    BY <1>2, <2>1
<1>3. /\ \A t \in Stream : t = s \/ t = o
      /\ (s = 0 /\ o = 1) \/ (s = 1 /\ o = 0)
  BY DEF Stream
<1>4. /\ states' \in [Stream -> InputType]
      /\ log' \in [Stream -> [count : Nat, ts : Nat, file : 1..Files,
                              ended : BOOLEAN]]
      /\ \A t \in Stream : First <= log'[t].count
      /\ sync_count_diff' = sync_count_diff /\ inc' = inc
      /\ \/ pc' = "exit"
         \/ /\ pc' = then
            /\ \E c \in Nat :
                 /\ New(s) < c /\ New(s)' = c
                 /\ seen' = [seen EXCEPT ![s] = seen[s] \cup {c}]
                 /\ Due(s, c) <= states'[s].timestamp
                 /\ states'[s].timestamp < Due(s, c) + Secure
            /\ Old(s)' = New(s) /\ states'[o] = states[o]
            /\ ~Paired => states'[s].timestamp_old = 0
            /\ Paired => /\ Base(s) <= RefOf(states'[s])
                         /\ RefOf(states'[s]) < Base(s) + Secure
  BY ReadInTime
<1>5. TypeOK'
  <2>1. pc' \in {"exit", "first", "sync", "update", "both"}
    BY <1>2, <1>4
  <2> QED
    BY <1>1, <1>4, <2>1 DEF TypeOK
<1>6. CASE pc' = "exit"
  BY <1>4, <1>5, <1>6, StoppedTrack DEF Alive
<1>7. CASE pc' # "exit"
  <2>1. PICK c \in Nat :
          /\ New(s) < c /\ New(s)' = c
          /\ seen' = [seen EXCEPT ![s] = seen[s] \cup {c}]
          /\ Due(s, c) <= states'[s].timestamp
          /\ states'[s].timestamp < Due(s, c) + Secure
    BY <1>4, <1>7
  <2>2. /\ pc' = then /\ Old(s)' = New(s) /\ states'[o] = states[o]
        /\ Old(o)' = Old(o) /\ New(o)' = New(o)
        /\ then' = then /\ in_state' = in_state /\ synced' = synced
        /\ u64_temp' = u64_temp
    BY <1>1, <1>4, <1>7 DEF Old, New
  <2>3. /\ Old(s) \in Nat /\ New(s) \in Nat /\ Old(o) \in Nat /\ New(o) \in Nat
        /\ Lead[s] \in Nat /\ Lead[o] \in Nat
        /\ seen \in Packets
        /\ seen'[s] = seen[s] \cup {c} /\ seen'[o] = seen[o] /\ seen' \in Packets
    <3>1. seen \in Packets
      BY <1>1 DEF SeenInv
    <3>2. seen'[s] = seen[s] \cup {c} /\ seen'[o] = seen[o] /\ seen' \in Packets
      BY <2>1, <3>1 DEF Packets
    <3> QED
      BY <3>1, <3>2, TrackFacts
  <2>4. Paired <=> then \in {"update", "both"}
    BY <1>1, <1>2 DEF Paired
  <2>5. Paired' <=> Paired
    BY <1>2, <2>2, <2>4 DEF Paired
  <2>6. ControlInv'
    <3>1. then = "both" => Untouched'
      BY <1>2, <1>3, <2>2, <2>3 DEF Untouched, Old
    <3> QED
      BY <1>2, <2>2, <3>1 DEF ControlInv
  <2>7. SeenInv'
    <3>1. /\ \A d \in seen[s] : d <= New(s)
          /\ Old(o) <= New(o)
          /\ \A d \in seen[o] : d <= New(o) /\ (Old(o) < d => d = New(o))
      BY <1>1 DEF SeenInv
    <3>2. /\ Old(s)' <= New(s)'
          /\ \A d \in seen'[s] : d <= New(s)' /\ (Old(s)' < d => d = New(s)')
      <4>1. \A d \in seen[s] : d \in Nat
        BY <2>3 DEF Packets
      <4> QED
        BY <2>1, <2>2, <2>3, <3>1, <4>1
    <3>3. /\ Old(o)' <= New(o)'
          /\ \A d \in seen'[o] : d <= New(o)' /\ (Old(o)' < d => d = New(o)')
      BY <2>2, <2>3, <3>1
    <3> QED
      BY <1>3, <2>3, <3>2, <3>3 DEF SeenInv
  <2>8. LineInv'
    <3>1. /\ New(s)' \in seen'[s] /\ Due(s, New(s)') <= states'[s].timestamp
          /\ states'[s].timestamp < Due(s, New(s)') + Secure
      BY <2>1, <2>3
    <3>2. Started(o) => /\ New(o)' \in seen'[o]
                        /\ Due(o, New(o)') <= states'[o].timestamp
                        /\ states'[o].timestamp < Due(o, New(o)') + Secure
      BY <1>1, <2>2, <2>3 DEF LineInv
    <3>3. Started(o)' => Started(o)
      BY <1>1, <1>2, <1>3, <2>2, <2>4, <2>5 DEF Started
    <3>4. \A t \in Stream, d \in Nat : Due(t, d)' = Due(t, d)
      BY DEF Due, Interval
    <3> QED
      BY <1>3, <3>1, <3>2, <3>3, <3>4 DEF LineInv, Due, Interval
  <2>9. InTimeInv'
    <3>1. CASE Paired
      <4>1. Base(o) <= RefOf(states[o]) /\ RefOf(states[o]) < Base(o) + Secure
        BY <1>1, <3>1 DEF InTimeInv, Ref
      <4>2. \A t \in Stream : /\ Base(t) <= RefOf(states'[t])
                              /\ RefOf(states'[t]) < Base(t) + Secure
        BY <1>3, <1>4, <1>7, <2>2, <3>1, <4>1
      <4> QED
        BY <2>5, <3>1, <4>2 DEF InTimeInv, Ref, RefOf, Base, Interval
    <3>2. CASE ~Paired
      <4>1. \A t \in Stream : states'[t].timestamp_old = 0
        BY <1>1, <1>3, <1>4, <1>7, <2>2, <3>2 DEF InTimeInv
      <4> QED
        BY <2>5, <3>2, <4>1 DEF InTimeInv
    <3> QED
      BY <3>1, <3>2
  <2>10. PairedInv'
    <3> SUFFICES ASSUME Paired
                 PROVE  PairedInv'
      BY <2>5 DEF PairedInv
    <3>1. then \in {"update", "both"}
      BY <2>4
    <3>2. /\ Done(s) = New(s) /\ Done(s)' = New(s)
          /\ Done(o)' = Done(o)
          /\ Done(o) = IF then = "both" THEN New(o) ELSE Old(o)
      BY <1>1, <1>2, <1>3, <2>2, <3>1 DEF Done, Advancing
    <3>3. /\ sync_count_diff = Lead[1] - Lead[0]
          /\ Slot(1, synced[1]) = Start
          /\ Slot(1, Done(1)) = Current
          /\ \A t \in Stream : synced[t] <= Done(t)
          /\ \E t \in Stream : Done(t) \in seen[t]
          /\ ~Advancing(o) => Old(o) < New(o)
      BY <1>1 DEF PairedInv
    <3>4. Done(1)' = Done(1) /\ Done(0)' = Done(0)
      BY <1>3, <3>2
    <3>5. Slot(1, synced[1])' = Start' /\ Slot(1, Done(1))' = Current'
      BY <2>2, <3>3, <3>4 DEF Slot, Start, Current
    <3>6. \E t \in Stream : Done(t)' \in seen'[t]
      BY <1>3, <2>3, <3>2, <3>3
    <3>7. \A t \in Stream : synced'[t] <= Done(t)'
      BY <1>3, <2>2, <3>2, <3>3
    <3>8. ~Advancing(o)' => Old(o)' < New(o)'
      BY <1>1, <1>2, <1>3, <2>2, <3>1, <3>3 DEF Advancing
    <3>9. Old(s)' < New(s)'
      BY <2>1, <2>2
    <3>10. \A t \in Stream : Waiting(t)' => Old(t)' \in seen'[t]
      <4>1. Waiting(o)' => FALSE
        BY <1>2, <1>3, <2>2, <3>1 DEF Waiting
      <4>2. New(s) \in seen[s]
        <5>1. Started(s)
          BY <1>1, <1>2 DEF Started, Paired
        <5> QED
          BY <1>1, <5>1 DEF LineInv
      <4> QED
        BY <1>3, <2>2, <2>3, <4>1, <4>2
    <3>11. pc' # "pass"
      BY <1>2, <2>2
    <3> QED
      BY <1>3, <1>4, <3>3, <3>5, <3>6, <3>7, <3>8, <3>9, <3>10, <3>11
      DEF PairedInv
  <2> QED
    BY <1>4, <1>5, <2>6, <2>7, <2>8, <2>9, <2>10 DEF TrackInv
<1> QED
  BY <1>6, <1>7

\* When the packets of a slot are due, on either stream.
LEMMA DueInSlot ==
  ASSUME NEW s \in Stream, NEW c \in Nat
  PROVE  /\ Slot(s, c) \in Nat /\ Interval * Slot(s, c) \in Nat
         /\ Due(s, c) = Interval * Slot(s, c) + Interval
<1>1. Lead[s] \in Nat /\ Interval \in Int /\ Interval \in Nat
  BY ExtractAssumption, IntervalType
<1>2. Slot(s, c) \in Nat
  BY <1>1 DEF Slot
<1>3. Due(s, c) = Interval * (Slot(s, c) + 1)
  <2>1. c + 1 + Lead[s] = c + Lead[s] + 1
    BY <1>1
  <2> QED
    BY <2>1 DEF Due, Slot
<1> QED
  BY <1>1, <1>2, <1>3, Distribute, Later

\* Slots less than one slot apart are the same.
LEMMA SameSlot ==
  ASSUME NEW a \in Nat, NEW b \in Nat,
         Interval * a - Interval * b < Interval,
         Interval * b - Interval * a < Interval
  PROVE  a = b
<1>1. Interval \in Int /\ Interval \in Nat
  BY IntervalType
<1>2. ASSUME NEW c \in Nat, NEW d \in Nat, c < d
      PROVE  Interval <= Interval * d - Interval * c
  <2>1. d - c - 1 \in Nat /\ d - c \in Int
    BY <1>2
  <2>2. Interval * (d - c) = Interval * d - Interval * c
    BY <1>1, Distribute
  <2>3. Interval * ((d - c) - 1) = Interval * (d - c) - Interval
    BY <1>1, <2>1, Distribute
  <2>4. Interval * ((d - c) - 1) \in Nat
    BY <1>1, <2>1, Later
  <2>5. Interval * d \in Int /\ Interval * c \in Int
    BY <1>1, Distribute
  <2> QED
    BY <1>1, <2>2, <2>3, <2>4, <2>5
<1>3. Interval * a \in Int /\ Interval * b \in Int
  BY <1>1, Distribute
<1>4. ~(a < b)
  BY <1>1, <1>2, <1>3
<1>5. ~(b < a)
  BY <1>1, <1>2, <1>3
<1> QED
  BY <1>4, <1>5

\* A step that leaves the streams and what was seen of them as they are.
LEMMA SameTrack ==
  ASSUME TrackInv, TypeOK', states' = states, seen' = seen, Alive,
         \A s \in Stream : log'[s].count = log[s].count,
         \A s \in Stream : Started(s)' => Started(s)
  PROVE  /\ \A s \in Stream : First <= log'[s].count
         /\ SeenInv' /\ LineInv'
         /\ \A s \in Stream : Old(s)' = Old(s) /\ New(s)' = New(s)
<1>1. /\ \A s \in Stream : First <= log[s].count
      /\ SeenInv /\ LineInv
  BY DEF TrackInv
<1>2. \A s \in Stream : Old(s)' = Old(s) /\ New(s)' = New(s)
  BY DEF Old, New
<1>3. SeenInv'
  BY <1>1, <1>2 DEF SeenInv
<1>4. LineInv'
  BY <1>1, <1>2 DEF LineInv, Due, Interval
<1> QED
  BY <1>1, <1>2, <1>3, <1>4

\* The end of a file: the next one is opened for the stream that is read,
\* however many files there are (next_line_or_file).
LEMMA ReadEofTrack ==
  ASSUME TrackInv, ReadEof, seen' = seen
  PROVE  TrackInv'
<1>1. /\ TypeOK /\ ControlInv /\ InTimeInv /\ PairedInv
      /\ pc = "read" /\ Alive /\ inc = in_state /\ inc \in Stream
      /\ UNCHANGED <<states, sync_count_diff, u64_stats, bursts, synced,
                     in_state, then, u64_temp>>
  BY TrackFacts DEF ReadEof, Alive, ControlInv, TypeOK
<1>2. /\ inc' = inc
      /\ \/ pc' \in {"exit", "eof"}
         \/ pc' = "read"
      /\ log' \in [Stream -> [count : Nat, ts : Nat, file : 1..Files,
                              ended : BOOLEAN]]
      /\ \A s \in Stream : log'[s].count = log[s].count
  <2>1. log \in [Stream -> [count : Nat, ts : Nat, file : 1..Files, ended : BOOLEAN]]
    BY <1>1 DEF TypeOK
  <2> DEFINE x == log[inc]
  <2>2. x \in [count : Nat, ts : Nat, file : 1..Files, ended : BOOLEAN]
    BY <1>1, <2>1
  <2>3. CASE UNCHANGED <<log, inc>> /\ pc' = "exit"
    BY <2>1, <2>3
  <2>4. CASE /\ pc' = IF then \in {"first", "sync"} THEN "exit" ELSE "eof"
             /\ log' = [log EXCEPT ![inc].ended = TRUE]
             /\ UNCHANGED inc
    <3> DEFINE d == [x EXCEPT !.ended = TRUE]
    <3>1. /\ d \in [count : Nat, ts : Nat, file : 1..Files, ended : BOOLEAN]
          /\ d.count = x.count
      BY <2>2
    <3>2. log' = [log EXCEPT ![inc] = d]
      BY <2>4
    <3> HIDE DEF d
    <3> QED
      BY <1>1, <2>1, <2>4, <3>1, <3>2
  <2>5. CASE /\ log[in_state].file < Files
             /\ log' = [log EXCEPT ![inc].ended = TRUE,
                                   ![in_state].ended = FALSE,
                                   ![in_state].file = @ + 1]
             /\ inc' = in_state
             /\ UNCHANGED pc
    <3> DEFINE n == x.file + 1
               d == [x EXCEPT !.ended = FALSE, !.file = n]
    <3>1. n \in 1..Files
      <4>1. x.file \in 1..Files /\ x.file < Files /\ Files \in Nat
        BY <1>1, <2>2, <2>5, ExtractAssumption
      <4> QED
        BY <4>1
    <3>2. log' = [log EXCEPT ![inc] = d]
      BY <1>1, <2>1, <2>2, <2>5
    <3> HIDE DEF n
    <3>3. /\ d \in [count : Nat, ts : Nat, file : 1..Files, ended : BOOLEAN]
          /\ d.count = x.count
      BY <2>2, <3>1
    <3> HIDE DEF d
    <3> QED
      BY <1>1, <2>1, <2>5, <3>2, <3>3
  <2> QED
    BY <2>3, <2>4, <2>5 DEF ReadEof
<1>3. TypeOK'
  BY <1>1, <1>2 DEF TypeOK
<1>4. CASE pc' \in {"exit", "eof"}
  <2>1. \A s \in Stream : First <= log'[s].count
    BY <1>2 DEF TrackInv
  <2> QED
    BY <1>3, <1>4, <2>1, StoppedTrack DEF Alive
<1>5. CASE pc' = "read"
  <2>1. \A s \in Stream : Started(s)' <=> Started(s)
    BY <1>1, <1>2, <1>5 DEF Started, Paired
  <2>2. /\ \A s \in Stream : First <= log'[s].count
        /\ SeenInv' /\ LineInv'
        /\ \A s \in Stream : Old(s)' = Old(s) /\ New(s)' = New(s)
    BY <1>1, <1>2, <1>3, <2>1, SameTrack
  <2>3. Old(1)' = Old(1)
    BY <2>2 DEF Stream
  <2>4. ControlInv'
    BY <1>1, <1>2, <1>5, <2>3 DEF ControlInv
  <2>5. Paired' <=> Paired
    BY <1>1, <1>5 DEF Paired
  <2>6. InTimeInv'
    BY <1>1, <1>5, <2>5 DEF InTimeInv, Alive, Ref, RefOf, Base, Interval
  <2>7. \A s \in Stream : /\ Done(s)' = Done(s)
                          /\ Advancing(s)' <=> Advancing(s)
                          /\ Waiting(s)' <=> Waiting(s)
    BY <1>1, <1>5, <2>2 DEF Done, Advancing, Waiting
  <2>8. Done(0)' = Done(0) /\ Done(1)' = Done(1)
    BY <2>7 DEF Stream
  <2>9. Slot(1, Done(1))' = Slot(1, Done(1)) /\ Current' = Current
    BY <2>8 DEF Slot, Current
  <2>10. Slot(1, synced[1])' = Slot(1, synced[1]) /\ Start' = Start
    BY <1>1 DEF Slot, Start
  <2>11. PairedInv'
    BY <1>1, <1>5, <2>2, <2>5, <2>7, <2>9, <2>10 DEF PairedInv
  <2> QED
    BY <1>3, <2>2, <2>4, <2>6, <2>11 DEF TrackInv
<1> QED
  BY <1>2, <1>4, <1>5

\* Packets received within half a slot of one another are of the same slot:
\* the streams are paired rightly (synchronize_input, extract.c:512-560).
LEMMA SyncTrack ==
  ASSUME TrackInv, SyncFirst \/ Sync, seen' = seen
  PROVE  TrackInv'
<1>1. /\ TypeOK /\ ControlInv /\ SeenInv /\ LineInv /\ InTimeInv
      /\ pc \in {"first", "sync"} /\ Alive /\ ~Paired
      /\ 0 \in Stream /\ 1 \in Stream /\ Secure \in Nat
      /\ \A s \in Stream : First <= log[s].count
      /\ UNCHANGED <<u64_stats, bursts, log, u64_temp>>
  BY TrackFacts, IntervalType DEF SyncFirst, Sync, Alive, Paired, TrackInv
<1> DEFINE ts == states[0].timestamp - states[1].timestamp
<1>2. CASE /\ pc' = "read" /\ then' = "sync" /\ inc' = in_state' /\ inc' \in Stream
           /\ pc = "first" => inc' = 1
           /\ UNCHANGED <<states, sync_count_diff, synced>>
  <2>1. TypeOK'
    BY <1>1, <1>2 DEF TypeOK
  <2>2. ~Paired' /\ Alive'
    BY <1>2 DEF Paired, Alive
  <2>3. \A s \in Stream : Started(s)' => Started(s)
    BY <1>1, <1>2, <2>2 DEF Started, Stream
  <2>4. /\ \A s \in Stream : First <= log'[s].count
        /\ SeenInv' /\ LineInv'
    BY <1>1, <1>2, <2>1, <2>3, SameTrack
  <2>5. ControlInv'
    BY <1>2 DEF ControlInv
  <2>6. InTimeInv' /\ PairedInv'
    BY <1>1, <1>2, <2>2 DEF InTimeInv, PairedInv
  <2> QED
    BY <2>1, <2>4, <2>5, <2>6 DEF TrackInv
<1>3. CASE /\ pc = "sync" /\ pc' = "pass" /\ ~(ts > Secure) /\ ~(ts < -Secure)
           /\ sync_count_diff' = states[0].count_new - states[1].count_new
           /\ states' = [s \in Stream |-> Synchronised(states[s])]
           /\ synced' = [s \in Stream |-> states[s].count_new]
           /\ UNCHANGED <<inc, in_state, then>>
  <2>1. Paired' /\ Alive'
    BY <1>3 DEF Paired, Alive
  <2>2. /\ states' \in [Stream -> InputType]
        /\ synced' \in [Stream -> Nat]
        /\ \A s \in Stream :
             /\ states[s] \in InputType /\ states[s].timestamp \in Nat
             /\ New(s) \in Nat /\ New(s)' = New(s) /\ Old(s)' = New(s)
             /\ synced'[s] = New(s)
             /\ states'[s].timestamp = states[s].timestamp
             /\ states'[s].timestamp_old = states[s].timestamp
    <3>1. ASSUME NEW s \in Stream
          PROVE  /\ states[s] \in InputType /\ states[s].timestamp \in Nat
                 /\ states'[s] \in InputType
                 /\ New(s) \in Nat /\ New(s)' = New(s) /\ Old(s)' = New(s)
                 /\ synced'[s] = New(s)
                 /\ states'[s].timestamp = states[s].timestamp
                 /\ states'[s].timestamp_old = states[s].timestamp
      <4>1. states[s] \in InputType /\ states'[s] = Synchronised(states[s])
        BY <1>1, <1>3, Types
      <4> QED
        BY <1>3, <4>1, SynchronisedUpdate DEF New, Old, InputType
    <3> QED
      BY <1>3, <3>1 DEF New
  <2>3. sync_count_diff' \in Int
    BY <1>1, <1>3, <2>2 DEF New
  <2>4. TypeOK'
    BY <1>1, <1>3, <2>2, <2>3 DEF TypeOK
  <2>5. \A s \in Stream : /\ New(s) \in seen[s]
                          /\ Due(s, New(s)) <= states[s].timestamp
                          /\ states[s].timestamp < Due(s, New(s)) + Secure
    BY <1>1, <1>3 DEF LineInv, Started, Stream
  <2>6. Slot(0, New(0)) = Slot(1, New(1))
    <3> DEFINE a == Slot(0, New(0))
               b == Slot(1, New(1))
               p == Interval * a
               q == Interval * b
    <3>1. /\ a \in Nat /\ b \in Nat /\ p \in Nat /\ q \in Nat
          /\ Due(0, New(0)) = p + Interval /\ Due(1, New(1)) = q + Interval
      BY <1>1, <2>2, DueInSlot
    <3>2. /\ Due(0, New(0)) <= states[0].timestamp
          /\ states[0].timestamp < Due(0, New(0)) + Secure
          /\ Due(1, New(1)) <= states[1].timestamp
          /\ states[1].timestamp < Due(1, New(1)) + Secure
          /\ states[0].timestamp \in Nat /\ states[1].timestamp \in Nat
      BY <1>1, <2>2, <2>5
    <3>3. Interval = 2 * Secure
      BY DEF Interval
    <3> HIDE DEF a, b, p, q
    <3>4. p - q < Interval /\ q - p < Interval
      BY <1>1, <1>3, <3>1, <3>2, <3>3
    <3> QED
      BY <3>1, <3>4, SameSlot DEF a, b, p, q
  <2>7. SeenInv'
    <3>1. seen \in Packets
      BY <1>1 DEF SeenInv
    <3>2. ASSUME NEW s \in Stream, NEW c \in seen[s]
          PROVE  c \in Nat /\ c <= New(s)
      BY <1>1, <3>1, <3>2 DEF SeenInv, Packets
    <3>3. ASSUME NEW s \in Stream
          PROVE  /\ Old(s)' <= New(s)'
                 /\ \A c \in seen'[s] : c <= New(s)' /\ (Old(s)' < c => c = New(s)')
      BY <2>2, <3>2, <3>3
    <3> QED
      BY <3>1, <3>3 DEF SeenInv
  <2>8. LineInv'
    BY <2>2, <2>5 DEF LineInv, Due, Interval
  <2>9. ControlInv'
    BY <1>3 DEF ControlInv
  <2>10. InTimeInv'
    <3>1. ASSUME NEW s \in Stream
          PROVE  Base(s) <= Ref(s)' /\ Ref(s)' < Base(s) + Secure
      <4>1. Ref(s)' = states[s].timestamp - Interval * New(s)
        <5>1. Ref(s)' = states'[s].timestamp_old - Interval * states'[s].count_new
          BY DEF Ref, RefOf, Interval
        <5>2. New(s)' = states'[s].count_new
          BY DEF New
        <5> QED
          BY <2>2, <5>1, <5>2
      <4>2. /\ Interval * New(s) \in Nat /\ Base(s) \in Nat
            /\ Due(s, New(s)) = Base(s) + Interval * New(s)
        <5>1. New(s) \in Nat /\ Interval \in Nat
          BY <2>2, IntervalType
        <5> QED
          BY <5>1, DueFacts, Later
      <4>3. /\ Due(s, New(s)) <= states[s].timestamp
            /\ states[s].timestamp < Due(s, New(s)) + Secure
            /\ states[s].timestamp \in Nat
        BY <2>2, <2>5
      <4> DEFINE b == Interval * New(s)
                 t == states[s].timestamp
                 d == Due(s, New(s))
      <4>4. /\ Ref(s)' = t - b /\ b \in Nat /\ Base(s) \in Nat /\ t \in Nat
            /\ d = Base(s) + b /\ d <= t /\ t < d + Secure
        BY <4>1, <4>2, <4>3
      <4> HIDE DEF b, t, d
      <4> QED
        BY <1>1, <4>4
    <3>2. \A s \in Stream : Base(s)' = Base(s)
      BY DEF Base, Interval
    <3> QED
      BY <2>1, <3>1, <3>2 DEF InTimeInv
  <2>11. PairedInv'
    <3>1. \A s \in Stream : /\ Done(s)' = New(s) /\ ~Advancing(s)' /\ ~Waiting(s)'
      BY <1>3, <2>2 DEF Done, Advancing, Waiting
    <3>2. sync_count_diff' = Lead[1] - Lead[0]
      <4>1. /\ New(0) \in Nat /\ New(1) \in Nat /\ Lead[0] \in Nat /\ Lead[1] \in Nat
            /\ New(0) + Lead[0] = New(1) + Lead[1]
            /\ sync_count_diff' = New(0) - New(1)
        BY <1>1, <1>3, <2>2, <2>6, ExtractAssumption DEF Slot, New
      <4> QED
        BY <4>1
    <3>3. /\ Done(0)' = New(0) /\ Done(1)' = New(1)
          /\ synced'[0] = New(0) /\ synced'[1] = New(1)
      BY <1>1, <2>2, <3>1
    <3>4. /\ Slot(1, synced[1])' = Slot(1, New(1)) /\ Start' = Slot(0, New(0))
          /\ Slot(1, Done(1))' = Slot(1, New(1)) /\ Current' = Slot(0, New(0))
      BY <3>3 DEF Slot, Start, Current
    <3>5. \A s \in Stream : synced'[s] <= Done(s)' /\ Done(s)' \in seen'[s]
      BY <2>2, <2>5, <3>1
    <3>6. Old(0)' = New(0)' /\ Old(1)' = New(1)'
      BY <1>1, <2>2
    <3> QED
      BY <1>1, <1>3, <2>6, <3>1, <3>2, <3>4, <3>5, <3>6 DEF PairedInv
  <2> QED
    BY <1>1, <2>4, <2>7, <2>8, <2>9, <2>10, <2>11 DEF TrackInv
<1>4. CASE SyncFirst
  BY <1>1, <1>2, <1>4 DEF SyncFirst, Ask
<1>5. CASE Sync
  BY <1>1, <1>2, <1>3, <1>5 DEF Sync, Ask
<1> QED
  BY <1>4, <1>5

\* Between two slots the streams are at the same slot.
LEMMA PassTrackFacts ==
  ASSUME TrackInv, pc = "pass"
  PROVE  /\ Paired /\ Alive
         /\ \A s \in Stream : /\ Started(s) /\ Done(s) = Old(s) /\ Top(s) = New(s)
                              /\ age(s) = New(s) - Old(s) /\ age(s) \in Nat
                              /\ Old(s) <= New(s) /\ synced[s] <= Old(s)
         /\ Slot(0, Old(0)) = Slot(1, Old(1)) /\ Current = Slot(0, Old(0))
         /\ age(0) = 0 <=> age(1) = 0
<1>1. Paired /\ Alive /\ \A s \in Stream : Started(s) /\ ~Advancing(s) /\ ~Waiting(s)
  BY DEF Paired, Alive, Started, Advancing, Waiting
<1>2. \A s \in Stream : Done(s) = Old(s) /\ Top(s) = New(s)
  BY <1>1 DEF Done, Top
<1>3. /\ SeenInv /\ PairedInv /\ 0 \in Stream /\ 1 \in Stream
      /\ \A s \in Stream : Old(s) \in Nat /\ New(s) \in Nat
  BY TrackFacts
<1>4. \A s \in Stream : Old(s) <= New(s)
  BY <1>1, <1>3 DEF SeenInv
<1>5. \A s \in Stream : age(s) = New(s) - Old(s) /\ age(s) \in Nat
  BY <1>3, <1>4, Names
<1>6. /\ Slot(1, Done(1)) = Slot(0, Done(0)) /\ Current = Slot(0, Done(0))
      /\ \A s \in Stream : synced[s] <= Done(s)
      /\ \/ Old(0) < New(0) /\ Old(1) < New(1)
         \/ Old(0) = New(0) /\ Old(1) = New(1)
  BY <1>1, <1>3 DEF PairedInv, Current
<1>7. age(0) = 0 <=> age(1) = 0
  BY <1>3, <1>5, <1>6
<1> QED
  BY <1>1, <1>2, <1>3, <1>4, <1>5, <1>6, <1>7

\* Two packets that are in time for the same slot are less than a slot
\* apart: none is ever dropped (first_pass, extract.c:848-880).
LEMMA NeverApart ==
  ASSUME TrackInv, pc = "pass", age(0) = age(1)
  PROVE  ~Apart
<1>1. /\ Old(0) \in Nat /\ New(0) \in Nat /\ Old(1) \in Nat /\ New(1) \in Nat
      /\ Lead[0] \in Nat /\ Lead[1] \in Nat
      /\ 0 \in Stream /\ 1 \in Stream /\ Secure \in Nat /\ Interval = 2 * Secure
      /\ states[0] \in InputType /\ states[1] \in InputType /\ LineInv
  BY TrackFacts, IntervalType DEF Interval
<1>2. /\ Alive /\ Started(0) /\ Started(1)
      /\ age(0) = New(0) - Old(0) /\ age(1) = New(1) - Old(1)
      /\ Slot(0, Old(0)) = Slot(1, Old(1))
  BY <1>1, PassTrackFacts
<1>3. Slot(0, New(0)) = Slot(1, New(1))
  BY <1>1, <1>2 DEF Slot
<1> DEFINE p == Interval * Slot(0, New(0))
           d == p + Interval
           t == states[0].timestamp
           u == states[1].timestamp
<1>4. p \in Nat /\ Due(0, New(0)) = d /\ Due(1, New(1)) = d
  BY <1>1, <1>3, DueInSlot
<1>5. d <= t /\ t < d + Secure /\ d <= u /\ u < d + Secure
  BY <1>1, <1>2, <1>4 DEF LineInv
<1>6. t \in Nat /\ u \in Nat /\ d \in Nat
  BY <1>1, <1>4 DEF InputType
<1>7. Apart <=> t - u > Interval \/ -(t - u) > Interval
  BY DEF Apart
<1> HIDE DEF t, u, d
<1> QED
  BY <1>1, <1>5, <1>6, <1>7

\* What first_pass leaves alone.
LEMMA PassTrack ==
  ASSUME TrackInv, TypeOK', Paired, Paired', seen' = seen, log' = log,
         sync_count_diff' = sync_count_diff, synced' = synced,
         \A s \in Stream : /\ states'[s].timestamp = states[s].timestamp
                           /\ states'[s].timestamp_old = states[s].timestamp_old
                           /\ New(s)' = New(s)
                           /\ Old(s) <= Old(s)' /\ Old(s)' <= New(s),
         \A s \in Stream : Started(s)' => Started(s),
         ControlInv', PairedInv'
  PROVE  TrackInv'
<1>1. /\ SeenInv /\ LineInv /\ InTimeInv
      /\ \A s \in Stream : First <= log[s].count
      /\ \A s \in Stream : Old(s) \in Nat /\ New(s) \in Nat
  BY TrackFacts DEF TrackInv
<1>2. Alive /\ Alive'
  BY DEF Paired, Alive
<1>3. \A s \in Stream : Old(s)' \in Nat
  <2>1. TypeOK => \A s \in Stream : Old(s) \in Nat
    BY Types
  <2>2. states' \in [Stream -> InputType]
    BY DEF TypeOK
  <2> QED
    BY <2>2 DEF Old, InputType
<1>4. SeenInv'
  <2>1. seen \in Packets
    BY <1>1, <1>2 DEF SeenInv
  <2>2. ASSUME NEW s \in Stream, NEW c \in seen[s]
        PROVE  /\ c \in Nat /\ c <= New(s) /\ (Old(s) < c => c = New(s))
    BY <1>1, <1>2, <2>1, <2>2 DEF SeenInv, Packets
  <2>3. ASSUME NEW s \in Stream
        PROVE  /\ Old(s)' <= New(s)'
               /\ \A c \in seen'[s] : c <= New(s)' /\ (Old(s)' < c => c = New(s)')
    BY <1>1, <1>3, <2>2, <2>3
  <2> QED
    BY <2>1, <2>3 DEF SeenInv
<1>5. LineInv'
  BY <1>1, <1>2 DEF LineInv, Due, Interval
<1>6. InTimeInv'
  <2>1. \A s \in Stream : Ref(s)' = Ref(s) /\ Base(s)' = Base(s)
    BY DEF Ref, RefOf, Base, Interval, New
  <2> QED
    BY <1>1, <2>1 DEF InTimeInv
<1> QED
  BY <1>1, <1>4, <1>5, <1>6 DEF TrackInv

\* A burst is counted, and nothing else (UPDATE_STATE, extract.c:798-805).
LEMMA BurstTrack ==
  ASSUME TrackInv, UpdateOne \/ AfterBoth, seen' = seen
  PROVE  TrackInv'
<1>1. /\ TypeOK /\ ControlInv /\ PairedInv /\ 0 \in Stream /\ 1 \in Stream
      /\ \A s \in Stream : Old(s) \in Nat /\ New(s) \in Nat
      /\ SeenInv
  BY TrackFacts
<1>2. /\ \/ pc = "update" /\ pc' = "pass" /\ bursts' = AddBurst(in_state, age(in_state), 1)
         \/ pc = "both" /\ pc' = "stats0" /\ bursts' = AddBurst(0, age(0), 1)
      /\ UNCHANGED <<states, sync_count_diff, u64_stats, synced, log,
                     inc, in_state, then, u64_temp>>
  BY DEF UpdateOne, AfterBoth, Update
<1>3. bursts' \in BurstType
  <2>1. bursts \in BurstType /\ in_state \in Stream
    <3>1. TypeOK
      BY <1>1
    <3> QED
      BY <3>1 DEF TypeOK, BurstType
  <2>2. ASSUME NEW s \in Stream
        PROVE  AddBurst(s, age(s), 1) \in BurstType
    <3>1. /\ s \in Stream \cup {Coord} /\ age(s) \in Int
      BY <1>1, Names
    <3> QED
      BY <2>1, <3>1, BurstCounted
  <2> QED
    BY <1>1, <1>2, <2>1, <2>2
<1>4. TypeOK'
  BY <1>1, <1>2, <1>3 DEF TypeOK, BurstType
<1>5. Paired /\ Paired' /\ Alive
  BY <1>2 DEF Paired, Alive
<1>6. \A s \in Stream : Old(s)' = Old(s) /\ New(s)' = New(s) /\ Old(s) <= New(s)
  BY <1>1, <1>2, <1>5 DEF Old, New, SeenInv
<1>7. ControlInv'
  <2>1. pc' = "stats0" => Untouched'
    BY <1>1, <1>2, <1>5 DEF ControlInv, Untouched
  <2> QED
    BY <1>2, <2>1 DEF ControlInv
<1>8. \A s \in Stream : Advancing(s)' <=> Advancing(s)
  BY <1>2 DEF Advancing
<1>9. \A s \in Stream : Done(s)' = Done(s)
  BY <1>6, <1>8 DEF Done
<1>10. PairedInv'
  <2>1. Slot(1, Done(1))' = Slot(1, Done(1)) /\ Current' = Current
    BY <1>1, <1>9 DEF Slot, Current
  <2>2. Slot(1, synced[1])' = Slot(1, synced[1]) /\ Start' = Start
    BY <1>2 DEF Slot, Start
  <2>3. ~Waiting(0)' /\ ~Waiting(1)' /\ \A s \in Stream : ~Waiting(s)'
    BY <1>2 DEF Waiting, Stream
  <2>4. pc = "update" => \A s \in Stream : ~Advancing(s)
    BY DEF Advancing
  <2>5. pc' = "pass" => Old(0)' < New(0)' /\ Old(1)' < New(1)'
    BY <1>1, <1>2, <1>5, <1>6, <2>4 DEF PairedInv
  <2> QED
    BY <1>1, <1>2, <1>5, <1>6, <1>8, <1>9, <2>1, <2>2, <2>3, <2>5 DEF PairedInv
<1>11. \A s \in Stream : Started(s)' => Started(s)
  BY <1>5 DEF Started, Paired
<1>12. \A s \in Stream : /\ states'[s].timestamp = states[s].timestamp
                         /\ states'[s].timestamp_old = states[s].timestamp_old
                         /\ New(s)' = New(s)
                         /\ Old(s) <= Old(s)' /\ Old(s)' <= New(s)
  BY <1>1, <1>2, <1>6
<1>13. seen' = seen /\ log' = log /\ sync_count_diff' = sync_count_diff /\ synced' = synced
  BY <1>2
<1> QED
  BY <1>4, <1>5, <1>7, <1>10, <1>11, <1>12, <1>13, PassTrack

\* Stream 1 is asked for its next line: no re-alignment has read it
\* (extract.c:904-930).
LEMMA SecondTrack ==
  ASSUME TrackInv, AdvanceSecond \/ AfterAgain, seen' = seen
  PROVE  TrackInv'
<1>1. /\ TypeOK /\ ControlInv /\ PairedInv /\ SeenInv /\ 0 \in Stream /\ 1 \in Stream
      /\ \A s \in Stream : Old(s) \in Nat /\ New(s) \in Nat
  BY TrackFacts
<1>2. pc # "again"
  BY <1>1 DEF ControlInv, Alive
<1>3. pc = "stats0" /\ Untouched
  BY <1>1, <1>2 DEF AdvanceSecond, AfterAgain, ControlInv, Alive
<1>4. /\ pc' = "read" /\ inc' = 1 /\ in_state' = 1 /\ then' = "update" /\ u64_temp' = 0
      /\ UNCHANGED <<states, sync_count_diff, bursts, u64_stats, synced, log>>
  BY <1>2, <1>3 DEF AdvanceSecond, AfterAgain, Ask
<1>5. TypeOK'
  BY <1>1, <1>4 DEF TypeOK
<1>6. Paired /\ Paired' /\ Alive
  BY <1>3, <1>4 DEF Paired, Alive
<1>7. \A s \in Stream : Old(s)' = Old(s) /\ New(s)' = New(s) /\ Old(s) <= New(s)
  BY <1>1, <1>4, <1>6 DEF Old, New, SeenInv
<1>8. ControlInv'
  BY <1>4 DEF ControlInv
<1>9. \A s \in Stream : Advancing(s)' <=> Advancing(s)
  BY <1>3, <1>4 DEF Advancing, Stream
<1>10. \A s \in Stream : Done(s)' = Done(s)
  BY <1>7, <1>9 DEF Done
<1>11. PairedInv'
  <2>1. Slot(1, Done(1))' = Slot(1, Done(1)) /\ Current' = Current
    BY <1>1, <1>10 DEF Slot, Current
  <2>2. Slot(1, synced[1])' = Slot(1, synced[1]) /\ Start' = Start
    BY <1>4 DEF Slot, Start
  <2>3. \A s \in Stream : ~Waiting(s)'
    BY <1>4 DEF Waiting
  <2> QED
    BY <1>1, <1>3, <1>4, <1>6, <1>7, <1>9, <1>10, <2>1, <2>2, <2>3 DEF PairedInv
<1>12. \A s \in Stream : Started(s)' => Started(s)
  BY <1>6 DEF Started, Paired
<1>13. \A s \in Stream : /\ states'[s].timestamp = states[s].timestamp
                         /\ states'[s].timestamp_old = states[s].timestamp_old
                         /\ New(s)' = New(s)
                         /\ Old(s) <= Old(s)' /\ Old(s)' <= New(s)
  BY <1>1, <1>4, <1>7
<1>14. seen' = seen /\ log' = log /\ sync_count_diff' = sync_count_diff /\ synced' = synced
  BY <1>4
<1> QED
  BY <1>5, <1>6, <1>8, <1>11, <1>12, <1>13, <1>14, PassTrack

\* A slot with both packets: both streams advance (extract.c:881-897).
LEMMA PassBothTrack ==
  ASSUME TrackInv, PassBoth, seen' = seen
  PROVE  TrackInv'
<1>1. /\ TypeOK /\ ControlInv /\ PairedInv /\ LineInv /\ 0 \in Stream /\ 1 \in Stream
      /\ Old(0) \in Nat /\ New(0) \in Nat /\ Old(1) \in Nat /\ New(1) \in Nat
      /\ Lead[0] \in Nat /\ Lead[1] \in Nat
      /\ \A s \in Stream : Old(s) \in Nat /\ New(s) \in Nat /\ synced[s] \in Nat
  BY TrackFacts
<1>2. /\ pc = "pass" /\ age(0) = age(1)
      /\ IF age(0) # 0
         THEN /\ u64_stats' = Count(1, 1, age(0))
              /\ bursts' = AddBurst(Coord, age(0), 1)
         ELSE u64_stats' = u64_stats /\ bursts' = bursts
      /\ u64_temp' = Old(1)
      /\ pc' = "read" /\ inc' = 0 /\ in_state' = 0 /\ then' = "both"
      /\ UNCHANGED <<states, sync_count_diff, synced, log>>
  BY DEF PassBoth, AtPass, Ask, Old
<1>3. /\ Paired /\ Alive /\ Started(0) /\ Started(1)
      /\ \A s \in Stream : /\ Started(s) /\ Done(s) = Old(s)
                           /\ age(s) = New(s) - Old(s) /\ age(s) \in Nat
                           /\ Old(s) <= New(s) /\ synced[s] <= Old(s)
      /\ Slot(0, Old(0)) = Slot(1, Old(1))
  BY <1>1, <1>2, PassTrackFacts
<1>4. \A s \in Stream : Old(s)' = Old(s) /\ New(s)' = New(s)
  BY <1>2 DEF Old, New
<1>5. u64_stats' \in [Stream \X Stream -> Nat] /\ bursts' \in BurstType
  <2>1. bursts \in BurstType /\ u64_stats \in [Stream \X Stream -> Nat]
    BY <1>1 DEF TypeOK, BurstType
  <2>2. CASE age(0) # 0
    <3>1. age(0) \in Nat /\ age(0) > 0 /\ age(0) \in Int
      BY <1>1, <1>3, <2>2
    <3>2. <<1, 1>> # <<0, 0>> /\ Coord \in Stream \cup {Coord}
      OBVIOUS
    <3>3. u64_stats' \in [Stream \X Stream -> Nat]
      BY <1>1, <1>2, <2>1, <2>2, <3>1, <3>2, Counted
    <3>4. bursts' \in BurstType
      BY <1>2, <2>1, <2>2, <3>1, <3>2, BurstCounted
    <3> QED
      BY <3>3, <3>4
  <2> QED
    BY <1>2, <2>1, <2>2
<1>6. TypeOK'
  BY <1>1, <1>2, <1>5 DEF TypeOK, BurstType
<1>7. Paired' /\ ControlInv'
  <2>1. Old(1)' = Old(1)
    BY <1>1, <1>4
  <2> QED
    BY <1>2, <2>1 DEF Paired, ControlInv
<1>8. \A s \in Stream : Done(s)' = New(s) /\ Advancing(s)' /\ ~Waiting(s)'
  BY <1>2, <1>4 DEF Done, Advancing, Waiting
<1>9. PairedInv'
  <2>1. Slot(0, New(0)) = Slot(1, New(1))
    <3>1. age(0) = New(0) - Old(0) /\ age(1) = New(1) - Old(1)
      BY <1>1, <1>3
    <3> QED
      BY <1>1, <1>2, <1>3, <3>1 DEF Slot
  <2>2. Done(0)' = New(0) /\ Done(1)' = New(1)
    BY <1>1, <1>8
  <2>3. Slot(1, Done(1))' = Slot(1, New(1)) /\ Current' = Slot(0, New(0))
    BY <2>2 DEF Slot, Current
  <2>4. Slot(1, synced[1])' = Slot(1, synced[1]) /\ Start' = Start
    BY <1>2 DEF Slot, Start
  <2>5. \A s \in Stream : synced'[s] <= Done(s)'
    BY <1>1, <1>2, <1>3, <1>8
  <2>6. \E s \in Stream : Done(s)' \in seen'[s]
    <3>1. New(0) \in seen[0]
      BY <1>1, <1>3 DEF LineInv
    <3> QED
      BY <1>1, <2>2, <3>1
  <2> QED
    BY <1>1, <1>2, <1>3, <1>8, <2>1, <2>3, <2>4, <2>5, <2>6 DEF PairedInv
<1>10. \A s \in Stream : Started(s)' => Started(s)
  BY <1>3
<1>11. \A s \in Stream : /\ states'[s].timestamp = states[s].timestamp
                         /\ states'[s].timestamp_old = states[s].timestamp_old
                         /\ New(s)' = New(s)
                         /\ Old(s) <= Old(s)' /\ Old(s)' <= New(s)
  BY <1>1, <1>2, <1>3, <1>4
<1>12. seen' = seen /\ log' = log /\ sync_count_diff' = sync_count_diff /\ synced' = synced
  BY <1>2
<1> QED
  BY <1>3, <1>6, <1>7, <1>9, <1>10, <1>11, <1>12, PassTrack

\* What the branch of one packet finds and leaves (extract.c:924-968): n
\* slots further, o is still in front of its pending packet.
LEMMA PassOneFacts ==
  ASSUME TrackInv, NEW s \in Stream, NEW o \in Stream, s # o, PassOne(s)
  PROVE  /\ pc = "pass" /\ age(s) \in Nat /\ age(s) > 0
         /\ states' \in [Stream -> InputType]
         /\ states'[s] = states[s]
         /\ states'[o].timestamp = states[o].timestamp
         /\ states'[o].timestamp_old = states[o].timestamp_old
         /\ New(s)' = New(s) /\ Old(s)' = Old(s) /\ New(s) = Old(s) + age(s)
         /\ New(o)' = New(o) /\ Old(o)' = Old(o) + age(s) /\ Old(o)' < New(o)
         /\ u64_stats' = Count(1 - s, s, age(s))
         /\ bursts' = AddBurst(Coord, age(s), 1)
         /\ pc' = "read" /\ inc' = s /\ in_state' = s /\ then' = "update"
         /\ UNCHANGED <<sync_count_diff, synced, log, u64_temp>>
<1> DEFINE c == states[o].count_old + age(s)
<1>1. /\ TypeOK /\ 0 \in Stream /\ 1 \in Stream
      /\ states \in [Stream -> InputType]
      /\ Old(s) \in Nat /\ New(s) \in Nat /\ Old(o) \in Nat /\ New(o) \in Nat
  BY TrackFacts
<1>2. o = Other(s) /\ ((s = 0 /\ o = 1) \/ (s = 1 /\ o = 0))
  BY DEF Stream, Other
<1>3. /\ pc = "pass" /\ age(s) < age(o)
      /\ u64_stats' = Count(1 - s, s, age(s))
      /\ bursts' = AddBurst(Coord, age(s), 1)
      /\ states' = [states EXCEPT ![o].count_old = c]
      /\ pc' = "read" /\ inc' = s /\ in_state' = s /\ then' = "update"
      /\ UNCHANGED <<sync_count_diff, synced, log, u64_temp>>
  BY <1>2 DEF PassOne, AtPass, Ask
<1>4. /\ age(s) = New(s) - Old(s) /\ age(o) = New(o) - Old(o)
      /\ age(s) \in Nat /\ age(o) \in Nat /\ (age(s) = 0 <=> age(o) = 0)
  BY <1>2, <1>3, PassTrackFacts
<1>5. age(s) > 0 /\ c \in Nat /\ c = Old(o) + age(s) /\ c < New(o)
  BY <1>1, <1>3, <1>4 DEF Old
<1> HIDE DEF c
<1>6. /\ states' \in [Stream -> InputType]
      /\ states'[s] = states[s]
      /\ states'[o].count_new = states[o].count_new
      /\ states'[o].count_old = c
      /\ states'[o].timestamp = states[o].timestamp
      /\ states'[o].timestamp_old = states[o].timestamp_old
  <2>1. states' = [states EXCEPT ![o].count_old = c]
    BY <1>3
  <2> QED
    BY <1>1, <1>5, <2>1, OldUpdate
<1>7. /\ New(s)' = New(s) /\ Old(s)' = Old(s)
      /\ New(o)' = New(o) /\ Old(o)' = c
  BY <1>6 DEF Old, New
<1>8. New(s) = Old(s) + age(s)
  BY <1>1, <1>4
<1> QED
  BY <1>3, <1>4, <1>5, <1>6, <1>7, <1>8

\* A slot of one packet: the other stream follows without it.
LEMMA PassOneTrack ==
  ASSUME TrackInv, NEW s \in Stream, NEW o \in Stream, s # o, PassOne(s), seen' = seen
  PROVE  TrackInv'
<1> DEFINE n == age(s)
<1>1. /\ TypeOK /\ ControlInv /\ PairedInv /\ LineInv /\ 0 \in Stream /\ 1 \in Stream
      /\ \A t \in Stream : /\ Old(t) \in Nat /\ New(t) \in Nat
                           /\ synced[t] \in Nat /\ Lead[t] \in Nat
      /\ \A t \in Stream : t = s \/ t = o
      /\ (s = 0 /\ o = 1) \/ (s = 1 /\ o = 0)
  BY TrackFacts DEF Stream
<1>2. /\ pc = "pass" /\ n \in Nat /\ n > 0
      /\ states' \in [Stream -> InputType]
      /\ states'[s] = states[s]
      /\ states'[o].timestamp = states[o].timestamp
      /\ states'[o].timestamp_old = states[o].timestamp_old
      /\ New(s)' = New(s) /\ Old(s)' = Old(s) /\ New(s) = Old(s) + n
      /\ New(o)' = New(o) /\ Old(o)' = Old(o) + n /\ Old(o)' < New(o)
      /\ u64_stats' = Count(1 - s, s, n)
      /\ bursts' = AddBurst(Coord, n, 1)
      /\ pc' = "read" /\ inc' = s /\ in_state' = s /\ then' = "update"
      /\ UNCHANGED <<sync_count_diff, synced, log, u64_temp>>
  BY PassOneFacts
<1> HIDE DEF n
<1>3. /\ Paired /\ Alive
      /\ \A t \in Stream : /\ Started(t) /\ Done(t) = Old(t)
                           /\ Old(t) <= New(t) /\ synced[t] <= Old(t)
      /\ Slot(0, Old(0)) = Slot(1, Old(1))
  BY <1>1, <1>2, PassTrackFacts
<1>4. u64_stats' \in [Stream \X Stream -> Nat] /\ bursts' \in BurstType
  <2> DEFINE a == 1 - s
  <2>1. /\ bursts \in BurstType /\ u64_stats \in [Stream \X Stream -> Nat]
        /\ a \in Stream /\ <<a, s>> # <<0, 0>> /\ n \in Int /\ 1 \in Int
        /\ Coord \in Stream \cup {Coord}
    <3>1. bursts \in BurstType /\ u64_stats \in [Stream \X Stream -> Nat]
      BY <1>1 DEF TypeOK, BurstType
    <3>2. a \in Stream /\ <<a, s>> # <<0, 0>>
      BY DEF Stream
    <3> QED
      BY <1>2, <3>1, <3>2
  <2>2. u64_stats' = Count(a, s, n)
    BY <1>2
  <2> HIDE DEF a
  <2>3. u64_stats' \in [Stream \X Stream -> Nat]
    BY <1>2, <2>1, <2>2, Counted
  <2>4. AddBurst(Coord, n, 1) \in BurstType
    BY <2>1, BurstCounted
  <2> QED
    BY <1>2, <2>3, <2>4
<1>5. TypeOK'
  BY <1>1, <1>2, <1>4 DEF TypeOK, BurstType
<1>6. Paired' /\ ControlInv'
  BY <1>2 DEF Paired, ControlInv
<1>7. Done(s)' = New(s) /\ Done(o)' = Old(o) + n
  BY <1>1, <1>2 DEF Done, Advancing
<1>8. PairedInv'
  <2>1. Slot(0, Done(0)') = Slot(1, Done(1)')
    BY <1>1, <1>2, <1>3, <1>7 DEF Slot
  <2>2. Slot(1, Done(1))' = Slot(1, Done(1)') /\ Current' = Slot(0, Done(0)')
    BY DEF Slot, Current
  <2>3. Slot(1, synced[1])' = Slot(1, synced[1]) /\ Start' = Start
    BY <1>2 DEF Slot, Start
  <2>4. \A t \in Stream : synced'[t] <= Done(t)'
    BY <1>1, <1>2, <1>3, <1>7
  <2>5. Done(s)' \in seen'[s]
    BY <1>1, <1>3, <1>7 DEF LineInv
  <2>6. \A t \in Stream : (~Advancing(t)' => Old(t)' < New(t)') /\ ~Waiting(t)'
    BY <1>1, <1>2 DEF Advancing, Waiting
  <2> QED
    BY <1>1, <1>2, <1>3, <2>1, <2>2, <2>3, <2>4, <2>5, <2>6 DEF PairedInv
<1>9. \A t \in Stream : Started(t)' => Started(t)
  BY <1>3
<1>10. \A t \in Stream : /\ states'[t].timestamp = states[t].timestamp
                         /\ states'[t].timestamp_old = states[t].timestamp_old
                         /\ New(t)' = New(t)
                         /\ Old(t) <= Old(t)' /\ Old(t)' <= New(t)
  BY <1>1, <1>2, <1>3
<1>11. seen' = seen /\ log' = log /\ sync_count_diff' = sync_count_diff /\ synced' = synced
  BY <1>2
<1> QED
  BY <1>3, <1>5, <1>6, <1>8, <1>9, <1>10, <1>11, PassTrack

\* Nothing is read before the first step.
LEMMA InitTrack ==
  ASSUME TruthInit
  PROVE  TrackInv
<1>1. Init /\ seen = [s \in Stream |-> {}]
  BY DEF TruthInit
<1>2. TypeOK
  BY <1>1, ExtractAssumption DEF Init, TypeOK, NoInput, InputType, Stream, Coord
<1>3. pc = "read" /\ then = "first" /\ inc = 0 /\ in_state = 0 /\ ~Paired /\ Alive
  BY <1>1 DEF Init, Paired, Alive
<1>4. \A s \in Stream : states[s] = NoInput /\ log[s].count = First
  BY <1>1 DEF Init
<1>5. \A s \in Stream : First <= log[s].count
  BY <1>4, ExtractAssumption
<1>6. SeenInv
  <2>1. seen \in Packets /\ \A s \in Stream : seen[s] = {} /\ Old(s) = 0 /\ New(s) = 0
    BY <1>1, <1>4 DEF Packets, Old, New, NoInput
  <2> QED
    BY <2>1 DEF SeenInv
<1>7. \A s \in Stream : ~Started(s)
  BY <1>3 DEF Started, Stream
<1>8. LineInv /\ InTimeInv /\ PairedInv /\ ControlInv
  BY <1>3, <1>4, <1>7 DEF LineInv, InTimeInv, PairedInv, ControlInv, NoInput
<1> QED
  BY <1>2, <1>5, <1>6, <1>8 DEF TrackInv

\* Steps after which only the logs have moved on, if at all, see no packet.
LEMMA NothingSeen ==
  ASSUME TrackInv, Witnessed, \A s \in Stream : log'[s].ts = log[s].ts, Alive
  PROVE  seen' = seen
<1>1. seen \in Packets
  BY TrackFacts DEF SeenInv
<1> QED
  BY <1>1 DEF Witnessed, Packets

\* The end of a file is no packet.
LEMMA ReadEofLog ==
  ASSUME TypeOK, ReadEof
  PROVE  Alive /\ \A s \in Stream : log'[s].ts = log[s].ts
<1>1. /\ log \in [Stream -> [count : Nat, ts : Nat, file : 1..Files, ended : BOOLEAN]]
      /\ inc \in Stream /\ in_state \in Stream
  BY DEF TypeOK
<1>2. \/ UNCHANGED log
      \/ log' = [log EXCEPT ![inc].ended = TRUE]
      \/ log' = [log EXCEPT ![inc].ended = TRUE,
                            ![in_state].ended = FALSE,
                            ![in_state].file = @ + 1]
  BY DEF ReadEof
<1>3. \A s \in Stream : log'[s].ts = log[s].ts
  BY <1>1, <1>2
<1> QED
  BY <1>3 DEF ReadEof, Alive

\* A step that changes nothing keeps the invariant.
LEMMA SameAll ==
  ASSUME TrackInv, UNCHANGED truthVars
  PROVE  TrackInv'
<1>1. /\ TypeOK /\ SeenInv /\ LineInv /\ InTimeInv /\ PairedInv /\ ControlInv
      /\ UNCHANGED <<vars, seen>>
      /\ \A s \in Stream : First <= log[s].count
  BY DEF TrackInv, truthVars
<1>2. TypeOK'
  BY <1>1 DEF vars, TypeOK
<1>3. /\ Alive' <=> Alive
      /\ Paired' <=> Paired
      /\ \A s \in Stream : /\ Old(s)' = Old(s) /\ New(s)' = New(s)
                           /\ Advancing(s)' <=> Advancing(s)
                           /\ Waiting(s)' <=> Waiting(s)
                           /\ Started(s)' <=> Started(s)
  BY <1>1 DEF vars, Alive, Paired, Old, New, Advancing, Waiting, Started
<1>4. \A s \in Stream : Done(s)' = Done(s)
  BY <1>3 DEF Done
<1>5. ControlInv'
  <2>1. 1 \in Stream
    BY DEF Stream
  <2>2. Untouched' <=> Untouched
    BY <1>1 DEF vars, Untouched
  <2> QED
    BY <1>1, <1>3, <2>1, <2>2 DEF vars, ControlInv
<1>6. SeenInv'
  BY <1>1, <1>3 DEF SeenInv
<1>7. LineInv'
  BY <1>1, <1>3 DEF vars, LineInv, Due, Interval
<1>8. InTimeInv'
  BY <1>1, <1>3 DEF vars, InTimeInv, Ref, RefOf, Base, Interval
<1>9. PairedInv'
  <2>1. 0 \in Stream /\ 1 \in Stream
    BY DEF Stream
  <2>2. /\ Slot(1, Done(1))' = Slot(1, Done(1)) /\ Current' = Current
        /\ Slot(1, synced[1])' = Slot(1, synced[1]) /\ Start' = Start
    BY <1>1, <1>4, <2>1 DEF vars, Slot, Current, Start
  <2> QED
    BY <1>1, <1>3, <1>4, <2>1, <2>2 DEF vars, PairedInv
<1>10. \A s \in Stream : First <= log'[s].count
  BY <1>1 DEF vars
<1> QED
  BY <1>2, <1>5, <1>6, <1>7, <1>8, <1>9, <1>10 DEF TrackInv

\* Every step keeps the streams paired slot by slot.
LEMMA NextTrack ==
  ASSUME Numbered, InTime, TrackInv, [TruthNext]_truthVars
  PROVE  TrackInv'
<1>1. CASE TruthNext
  <2>1. Next /\ Witnessed
    BY <1>1 DEF TruthNext, Witnessed
  <2>2. CASE ReadLine
    BY <2>1, <2>2, ReadLineTrack
  <2>3. ASSUME Alive, \A s \in Stream : log'[s].ts = log[s].ts
        PROVE  seen' = seen
    BY <2>1, <2>3, NothingSeen
  <2>4. CASE ReadEof
    <3>1. Alive /\ \A s \in Stream : log'[s].ts = log[s].ts
      BY <2>4, ReadEofLog, TrackFacts
    <3> QED
      BY <2>3, <2>4, <3>1, ReadEofTrack
  <2>5. CASE SyncFirst \/ Sync
    <3>1. Alive /\ log' = log
      BY <2>5 DEF SyncFirst, Sync, Alive
    <3> QED
      BY <2>3, <2>5, <3>1, SyncTrack
  <2>6. CASE PassBoth
    <3>1. Alive /\ log' = log
      BY <2>6 DEF PassBoth, AtPass, Alive
    <3> QED
      BY <2>3, <2>6, <3>1, PassBothTrack
  <2>7. ASSUME NEW s \in Stream, PassDrop(s)
        PROVE  TrackInv'
    BY <2>7, NeverApart DEF PassDrop, AtPass
  <2>8. ASSUME NEW s \in Stream, PassOne(s)
        PROVE  TrackInv'
    <3>1. Alive /\ log' = log
      BY <2>8 DEF PassOne, AtPass, Alive
    <3>2. Other(s) \in Stream /\ s # Other(s)
      BY DEF Stream, Other
    <3> QED
      BY <2>3, <2>8, <3>1, <3>2, PassOneTrack
  <2>9. CASE UpdateOne \/ AfterBoth
    <3>1. Alive /\ log' = log
      BY <2>9 DEF UpdateOne, AfterBoth, Alive
    <3> QED
      BY <2>3, <2>9, <3>1, BurstTrack
  <2>10. CASE AdvanceSecond \/ AfterAgain
    <3>1. Alive /\ log' = log
      BY <2>10 DEF AdvanceSecond, AfterAgain, Alive
    <3> QED
      BY <2>3, <2>10, <3>1, SecondTrack
  <2> QED
    BY <2>1, <2>2, <2>4, <2>5, <2>6, <2>7, <2>8, <2>9, <2>10 DEF Next
<1>2. CASE UNCHANGED truthVars
  BY <1>2, SameAll
<1> QED
  BY <1>1, <1>2

-----------------------------------------------------------------------------
(* The counters are exact.                                                 *)

\* What ADD_BURST counts.
LEMMA BurstAdded ==
  ASSUME bursts \in BurstType, Stats, NEW k \in Stream \cup {Coord},
         NEW size \in Nat, size > 0, bursts' = AddBurst(k, size, 1),
         NEW n \in 1..MaxCount
  PROVE  /\ bursts'[k][n] = bursts[k][n] + (IF n = size - 1 THEN 1 ELSE 0)
         /\ \A j \in Stream \cup {Coord} : j # k => bursts'[j] = bursts[j]
<1> DEFINE f == bursts[k]
           c == size - 1
           g == [f EXCEPT ![c] = @ + 1]
<1>1. f \in [1..MaxCount -> Nat] /\ f[n] \in Nat
  BY DEF BurstType
<1>2. CASE size > 1
  <2>1. bursts' = [bursts EXCEPT ![k] = g]
    BY <1>2 DEF AddBurst, BurstType
  <2>2. g[n] = f[n] + (IF n = c THEN 1 ELSE 0)
    <3> HIDE DEF f, c
    <3> QED
      BY <1>1
  <2> HIDE DEF g
  <2> QED
    BY <2>1, <2>2 DEF BurstType
<1>3. CASE ~(size > 1)
  <2>1. bursts' = bursts /\ n # size - 1
    BY <1>3 DEF AddBurst
  <2> QED
    BY <1>1, <2>1
<1> QED
  BY <1>2, <1>3

\* What the four counters of outcomes count.
LEMMA OutcomeAdded ==
  ASSUME u64_stats \in [Stream \X Stream -> Nat],
         NEW a \in {0, 1}, NEW b \in {0, 1}, a = 1 \/ b = 1,
         NEW n \in Nat, n > 0, u64_stats' = Count(a, b, n),
         NEW i \in {0, 1}, NEW j \in {0, 1}
  PROVE  u64_stats'[<<i, j>>] = u64_stats[<<i, j>>]
                                  + (IF i = 0 /\ j = 0 THEN n - 1 ELSE 0)
                                  + (IF i = a /\ j = b THEN 1 ELSE 0)
<1> DEFINE lost == IF n > 1 THEN n - 1 ELSE 0
           v == [u64_stats EXCEPT ![<<0, 0>>] = @ + lost]
           x == <<i, j>>
           y == <<a, b>>
           z == <<0, 0>>
<1>1. lost = n - 1 /\ lost \in Nat
  OBVIOUS
<1>2. <<a, b>> # <<0, 0>> /\ <<a, b>> \in Stream \X Stream
  BY DEF Stream
<1>3. /\ x \in Stream \X Stream /\ y \in Stream \X Stream /\ z \in Stream \X Stream
      /\ x = y <=> (i = a /\ j = b)
      /\ x = z <=> (i = 0 /\ j = 0)
      /\ u64_stats' = [v EXCEPT ![y] = @ + 1]
  <2>1. u64_stats' = [v EXCEPT ![y] = @ + 1]
    BY <1>2 DEF Count
  <2> QED
    BY <1>2, <2>1 DEF Stream
<1> HIDE DEF lost, x, y, z
<1>4. u64_stats[x] \in Nat /\ u64_stats[z] \in Nat
  BY <1>3
<1>5. /\ v \in [Stream \X Stream -> Nat]
      /\ v[x] = u64_stats[x] + (IF x = z THEN lost ELSE 0)
  <2>1. v = [u64_stats EXCEPT ![z] = u64_stats[z] + lost]
    BY DEF z
  <2>2. u64_stats[z] + lost \in Nat
    BY <1>1, <1>4
  <2> HIDE DEF v
  <2> QED
    BY <1>3, <1>4, <2>1, <2>2
<1> HIDE DEF v
<1>6. u64_stats'[x] = v[x] + (IF x = y THEN 1 ELSE 0)
  <2>1. v[x] \in Nat
    BY <1>3, <1>5
  <2> QED
    BY <1>3, <1>5, <2>1
<1>7. u64_stats'[x] = u64_stats[x] + (IF x = z THEN lost ELSE 0)
                                   + (IF x = y THEN 1 ELSE 0)
  BY <1>5, <1>6
<1> QED
  BY <1>1, <1>3, <1>7 DEF x

\* What the counters are once the streams are paired.
Counters ==
  \A i, j \in {0, 1} :
    u64_stats[<<i, j>>] = Cardinality(Outcomes(seen, Start, Current, i, j))
LostCounters ==
  \A n \in 1..MaxCount :
    bursts[Coord][n] = Cardinality(LostRuns(seen, Start, Current, n))
RunCounters ==
  \A n \in 1..MaxCount, s \in Stream :
    bursts[s][n] = Cardinality(RunsTo(seen[s], synced[s], Top(s), n))

\* This is what TruthInv says.
LEMMA CountersFacts ==
  /\ Alive /\ Paired => /\ OutcomesInv <=> Counters
                        /\ LostRunsInv <=> (Stats => LostCounters)
                        /\ RunsInv <=> (Stats => RunCounters)
  /\ ~Alive => OutcomesInv /\ LostRunsInv /\ RunsInv
BY DEF OutcomesInv, LostRunsInv, RunsInv, Counters, LostCounters, RunCounters

\* The same after a step.
LEMMA CountersNext ==
  /\ OutcomesInv'
       <=> (Alive' =>
              \A i, j \in {0, 1} :
                u64_stats'[<<i, j>>]
                  = IF Paired'
                    THEN Cardinality(Outcomes(seen', Start', Current', i, j))
                    ELSE 0)
  /\ LostRunsInv'
       <=> (Alive' /\ Stats =>
              \A n \in 1..MaxCount :
                bursts'[Coord][n]
                  = IF Paired'
                    THEN Cardinality(LostRuns(seen', Start', Current', n))
                    ELSE 0)
  /\ RunsInv'
       <=> (Alive' /\ Stats =>
              \A n \in 1..MaxCount, s \in Stream :
                bursts'[s][n]
                  = IF Paired'
                    THEN Cardinality(RunsTo(seen'[s], synced'[s], Top(s)', n))
                    ELSE 0)
<1>1. OutcomesInv'
       <=> (Alive' =>
              \A i, j \in {0, 1} :
                u64_stats'[<<i, j>>]
                  = IF Paired'
                    THEN Cardinality(Outcomes(seen', Start', Current', i, j))
                    ELSE 0)
  BY DEF OutcomesInv, Outcomes, Hit
<1>2. LostRunsInv'
       <=> (Alive' /\ Stats =>
              \A n \in 1..MaxCount :
                bursts'[Coord][n]
                  = IF Paired'
                    THEN Cardinality(LostRuns(seen', Start', Current', n))
                    ELSE 0)
  BY DEF LostRunsInv, LostRuns, AnyHit, Hit
<1>3. RunsInv'
       <=> (Alive' /\ Stats =>
              \A n \in 1..MaxCount, s \in Stream :
                bursts'[s][n]
                  = IF Paired'
                    THEN Cardinality(RunsTo(seen'[s], synced'[s], Top(s)', n))
                    ELSE 0)
  BY DEF RunsInv, RunsTo
<1> QED
  BY <1>1, <1>2, <1>3

\* A step that counts nothing.
LEMMA SameCounts ==
  ASSUME TruthInv, Alive, Paired' <=> Paired, seen' = seen,
         Paired => /\ Start' = Start /\ Current' = Current
                   /\ \A s \in Stream : Top(s)' = Top(s),
         UNCHANGED <<u64_stats, bursts, synced>>
  PROVE  OutcomesInv' /\ LostRunsInv' /\ RunsInv'
<1>1. OutcomesInv /\ LostRunsInv /\ RunsInv
  BY DEF TruthInv
<1>2. CASE Paired
  <2>1. Paired' /\ Alive'
    BY <1>2 DEF Paired, Alive
  <2>2. Counters /\ (Stats => LostCounters) /\ (Stats => RunCounters)
    BY <1>1, <1>2, CountersFacts
  <2>3. \A s \in Stream : Top(s)' = Top(s) /\ synced'[s] = synced[s]
    BY <1>2
  <2>4. OutcomesInv' /\ LostRunsInv'
    BY <1>2, <2>1, <2>2, CountersNext DEF Counters, LostCounters
  <2>5. RunsInv'
    BY <1>2, <2>1, <2>2, <2>3, CountersNext DEF RunCounters
  <2> QED
    BY <2>4, <2>5
<1>3. CASE ~Paired
  BY <1>1, <1>3 DEF OutcomesInv, LostRunsInv, RunsInv
<1> QED
  BY <1>2, <1>3

\* A program that has stopped counts no more.
LEMMA StoppedCounts ==
  ASSUME ~Alive'
  PROVE  OutcomesInv' /\ LostRunsInv' /\ RunsInv'
BY DEF OutcomesInv, LostRunsInv, RunsInv

\* A line that is read is of a later slot than all those counted.
LEMMA ReadLineCounts ==
  ASSUME Numbered, InTime, TruthInv, ReadLine, Witnessed
  PROVE  OutcomesInv' /\ LostRunsInv' /\ RunsInv'
<1>1. /\ TrackInv /\ OutcomesInv /\ LostRunsInv /\ RunsInv
  BY DEF TruthInv
<1>2. /\ TypeOK /\ ControlInv /\ PairedInv
      /\ pc = "read" /\ Alive
      /\ UNCHANGED <<u64_stats, bursts, synced, in_state, then, u64_temp>>
  BY <1>1, TrackFacts DEF ReadLine, Alive
<1>3. /\ then \in {"first", "sync", "update", "both"}
      /\ inc \in Stream /\ inc = in_state
      /\ then \in {"first", "both"} => inc = 0
  BY <1>2 DEF TypeOK, ControlInv
<1> SUFFICES ASSUME NEW s \in Stream, NEW o \in Stream, s # o, inc = s
             PROVE  OutcomesInv' /\ LostRunsInv' /\ RunsInv'
  <2>1. Other(inc) \in Stream /\ inc # Other(inc)
    BY <1>3 DEF Stream, Other
  <2> QED
    BY <1>3, <2>1
<1>4. /\ \A t \in Stream : t = s \/ t = o
      /\ (s = 0 /\ o = 1) \/ (s = 1 /\ o = 0)
  BY DEF Stream
<1>5. \/ pc' = "exit"
      \/ /\ pc' = then
         /\ \E c \in Nat :
              /\ New(s) < c /\ New(s)' = c
              /\ seen' = [seen EXCEPT ![s] = seen[s] \cup {c}]
         /\ Old(s)' = New(s) /\ states'[o] = states[o]
  BY <1>1, ReadInTime
<1>6. CASE pc' = "exit"
  BY <1>6, StoppedCounts DEF Alive
<1>7. CASE pc' # "exit"
  <2>1. PICK c \in Nat :
          /\ New(s) < c /\ New(s)' = c
          /\ seen' = [seen EXCEPT ![s] = seen[s] \cup {c}]
    BY <1>5, <1>7
  <2>2. /\ pc' = then /\ Old(s)' = New(s) /\ Old(o)' = Old(o) /\ New(o)' = New(o)
    BY <1>5, <1>7 DEF Old, New
  <2>3. Alive' /\ (Paired' <=> Paired) /\ (Paired => then \in {"update", "both"})
    BY <1>2, <1>3, <2>2 DEF Alive, Paired
  <2>4. CASE ~Paired
    BY <1>1, <1>2, <2>3, <2>4 DEF OutcomesInv, LostRunsInv, RunsInv
  <2>5. CASE Paired
    <3>1. /\ seen \in Packets
          /\ \A t \in Stream : /\ Old(t) \in Nat /\ New(t) \in Nat /\ synced[t] \in Nat
                               /\ Lead[t] \in Nat
          /\ Start \in Nat /\ Current \in Nat
          /\ seen[s] \in SUBSET Nat
      <4>1. seen \in Packets
        BY <1>1, <1>2, TrackFacts DEF SeenInv
      <4> QED
        BY <1>1, <4>1, TrackFacts DEF Packets
    <3>2. /\ Done(s) = New(s) /\ Done(s)' = New(s) /\ Done(o)' = Done(o)
      BY <1>2, <1>3, <1>4, <2>2, <2>3, <2>5 DEF Done, Advancing
    <3>3. /\ Top(s) = New(s) /\ Top(s)' = New(s) /\ Top(o)' = Top(o)
      <4>1. ~Waiting(s) /\ ~Waiting(o)
        BY <1>2 DEF Waiting
      <4>2. Waiting(s)' /\ ~Waiting(o)'
        BY <1>2, <1>3, <1>4, <2>2, <2>3, <2>5 DEF Waiting
      <4> QED
        BY <2>2, <4>1, <4>2 DEF Top
    <3>4. Current' = Current /\ Start' = Start /\ Slot(s, Done(s)) = Current
      <4>1. Done(0)' = Done(0) /\ Done(1)' = Done(1)
        BY <1>4, <3>2
      <4>2. Slot(1, Done(1)) = Current /\ Slot(0, Done(0)) = Current
        BY <1>2, <2>5 DEF PairedInv, Current
      <4> QED
        BY <1>2, <1>4, <4>1, <4>2 DEF Slot, Current, Start
    <3>5. c + Lead[s] > Current
      BY <2>1, <3>1, <3>2, <3>4 DEF Slot
    <3>6. Counters /\ (Stats => LostCounters) /\ (Stats => RunCounters)
      BY <1>1, <1>2, <2>5, CountersFacts
    <3>7. /\ \A i, j : Outcomes(seen', Start, Current, i, j)
                         = Outcomes(seen, Start, Current, i, j)
          /\ \A n \in Nat : LostRuns(seen', Start, Current, n)
                              = LostRuns(seen, Start, Current, n)
      <4>1. /\ seen'[s] = seen[s] \cup {c}
            /\ \A r \in Stream : r # s => seen'[r] = seen[r]
        BY <2>1, <3>1 DEF Packets
      <4>2. /\ seen \in Packets /\ Lead[s] \in Nat /\ c + Lead[s] > Current
            /\ Start \in Nat /\ Current \in Nat
        BY <3>1, <3>5
      <4>3. ASSUME NEW sn2, sn2[s] = seen[s] \cup {c},
                   \A r \in Stream : r # s => sn2[r] = seen[r]
            PROVE  /\ \A i, j : Outcomes(sn2, Start, Current, i, j)
                                  = Outcomes(seen, Start, Current, i, j)
                   /\ \A n \in Nat : LostRuns(sn2, Start, Current, n)
                                       = LostRuns(seen, Start, Current, n)
        BY <4>2, <4>3, LaterLine
      <4> QED
        BY <4>1, <4>3, Zenon
    <3>8. \A n \in Nat, t \in Stream :
            RunsTo(seen'[t], synced[t], Top(t)', n) = RunsTo(seen[t], synced[t], Top(t), n)
      <4>1. seen'[s] = seen[s] \cup {c} /\ seen'[o] = seen[o]
        BY <2>1, <3>1 DEF Packets
      <4>2. \A n \in Nat : RunsTo(seen[s] \cup {c}, synced[s], New(s), n)
                             = RunsTo(seen[s], synced[s], New(s), n)
        BY <2>1, <3>1, LaterRun
      <4> QED
        BY <1>4, <3>3, <4>1, <4>2
    <3>9. \A n \in 1..MaxCount : n \in Nat
      OBVIOUS
    <3>10. OutcomesInv'
      BY <1>2, <2>3, <2>5, <3>4, <3>6, <3>7, CountersNext DEF Counters
    <3>11. LostRunsInv'
      BY <1>2, <2>3, <2>5, <3>4, <3>6, <3>7, <3>9, CountersNext DEF LostCounters
    <3>12. RunsInv'
      BY <1>2, <2>3, <2>5, <3>6, <3>8, <3>9, CountersNext DEF RunCounters
    <3> QED
      BY <3>10, <3>11, <3>12
  <2> QED
    BY <2>4, <2>5
<1> QED
  BY <1>6, <1>7

\* Nothing is counted while the streams are synchronised.
LEMMA SyncCounts ==
  ASSUME TruthInv, SyncFirst \/ Sync, seen' = seen
  PROVE  OutcomesInv' /\ LostRunsInv' /\ RunsInv'
<1>1. /\ TrackInv /\ TrackInv' /\ OutcomesInv /\ LostRunsInv /\ RunsInv
  BY SyncTrack DEF TruthInv
<1>2. /\ Alive /\ ~Paired /\ UNCHANGED <<u64_stats, bursts>>
      /\ \/ pc' = "read" /\ then' = "sync" /\ UNCHANGED synced
         \/ /\ pc' = "pass"
            /\ synced' = [s \in Stream |-> states[s].count_new]
            /\ states' = [s \in Stream |-> Synchronised(states[s])]
  BY DEF SyncFirst, Sync, Ask, Alive, Paired
<1>3. CASE pc' = "read"
  <2>1. ~Paired'
    BY <1>2, <1>3 DEF Paired
  <2> QED
    BY <1>2, <1>3, <2>1, SameCounts
<1>4. CASE pc' = "pass"
  <2>1. Paired' /\ Alive'
    BY <1>4 DEF Paired, Alive
  <2>2. \A s \in Stream : /\ New(s) \in Nat /\ synced'[s] = New(s)
                          /\ Top(s)' = New(s) /\ Done(s)' = New(s)
    <3>1. ASSUME NEW s \in Stream
          PROVE  /\ New(s) \in Nat /\ synced'[s] = New(s)
                 /\ Top(s)' = New(s) /\ Done(s)' = New(s)
      <4>1. /\ states[s] \in InputType /\ states'[s] = Synchronised(states[s])
            /\ New(s) \in Nat
        BY <1>1, <1>2, <1>4, TrackFacts
      <4>2. New(s)' = New(s) /\ Old(s)' = New(s)
        BY <4>1, SynchronisedUpdate DEF New, Old
      <4>3. ~Waiting(s)' /\ ~Advancing(s)'
        BY <1>4 DEF Waiting, Advancing
      <4> QED
        BY <1>2, <1>4, <4>1, <4>2, <4>3 DEF Top, Done, New
    <3> QED
      BY <3>1
  <2>3. Start' = Current' /\ Start' \in Nat
    <3>1. 0 \in Stream /\ Lead[0] \in Nat
      BY <1>1, TrackFacts
    <3> QED
      BY <2>2, <3>1 DEF Start, Current, Slot
  <2>4. \A s \in Stream : seen'[s] \in SUBSET Nat
    BY <1>1, <1>2, TrackFacts DEF SeenInv, Packets
  <2>5. /\ \A i, j \in {0, 1} : u64_stats[<<i, j>>] = 0
        /\ Stats => \A n \in 1..MaxCount : /\ bursts[Coord][n] = 0
                                           /\ \A s \in Stream : bursts[s][n] = 0
    BY <1>1, <1>2 DEF OutcomesInv, LostRunsInv, RunsInv
  <2>6. \A s \in Stream : \A i, j, n :
          /\ Cardinality(Outcomes(seen', Start', Current', i, j)) = 0
          /\ Cardinality(LostRuns(seen', Start', Current', n)) = 0
          /\ Cardinality(RunsTo(seen'[s], synced'[s], Top(s)', n)) = 0
    <3> SUFFICES ASSUME NEW s \in Stream, NEW i, NEW j, NEW n
                 PROVE  /\ Cardinality(Outcomes(seen', Start', Current', i, j)) = 0
                        /\ Cardinality(LostRuns(seen', Start', Current', n)) = 0
                        /\ Cardinality(RunsTo(seen'[s], synced'[s], Top(s)', n)) = 0
      OBVIOUS
    <3>1. seen'[s] \in SUBSET Nat /\ New(s) \in Nat
      BY <2>2, <2>4
    <3>2. /\ Cardinality(Outcomes(seen', Start', Start', i, j)) = 0
          /\ Cardinality(LostRuns(seen', Start', Start', n)) = 0
          /\ Cardinality(RunsTo(seen'[s], New(s), New(s), n)) = 0
      BY <2>3, <3>1, NothingYet
    <3>3. Start' = Current' /\ synced'[s] = New(s) /\ Top(s)' = New(s)
      BY <2>2, <2>3
    <3> QED
      BY <3>2, <3>3, Zenon
  <2>7. 0 \in Stream
    BY DEF Stream
  <2>8. OutcomesInv' /\ LostRunsInv'
    BY <1>2, <2>1, <2>5, <2>6, <2>7, CountersNext
  <2>9. RunsInv'
    BY <1>2, <2>1, <2>5, <2>6, CountersNext
  <2> QED
    BY <2>8, <2>9
<1> QED
  BY <1>2, <1>3, <1>4

\* The run of losses in front of the line just read is counted
\* (UPDATE_STATE, extract.c:798-805).
LEMMA BurstCounts ==
  ASSUME TruthInv, UpdateOne \/ AfterBoth, seen' = seen
  PROVE  OutcomesInv' /\ LostRunsInv' /\ RunsInv'
<1>1. /\ TrackInv /\ OutcomesInv /\ LostRunsInv /\ RunsInv
      /\ TypeOK /\ PairedInv /\ LineInv /\ SeenInv /\ 0 \in Stream /\ 1 \in Stream
      /\ \A t \in Stream : Old(t) \in Nat /\ New(t) \in Nat /\ synced[t] \in Nat
      /\ in_state \in Stream
  BY TrackFacts DEF TruthInv, TypeOK
<1>2. PICK s \in Stream :
        /\ \/ pc = "update" /\ pc' = "pass" /\ s = in_state
           \/ pc = "both" /\ pc' = "stats0" /\ s = 0
        /\ CanAddBurst(age(s))
        /\ bursts' = AddBurst(s, age(s), 1)
        /\ UNCHANGED <<states, sync_count_diff, u64_stats, synced, log,
                       inc, in_state, then, u64_temp>>
  BY <1>1 DEF UpdateOne, AfterBoth, Update
<1>3. Alive /\ Alive' /\ Paired /\ Paired'
  BY <1>2 DEF Alive, Paired
<1>4. /\ \A t \in Stream : Waiting(t) <=> t = s
      /\ \A t \in Stream : ~Waiting(t)'
      /\ \A t \in Stream : Advancing(t)' <=> Advancing(t)
      /\ ~Advancing(s)
  <2>1. CASE pc = "update"
    BY <1>2, <2>1 DEF Waiting, Advancing
  <2>2. CASE pc = "both"
    BY <1>2, <2>2 DEF Waiting, Advancing
  <2> QED
    BY <1>2, <2>1, <2>2
<1>5. \A t \in Stream : Old(t)' = Old(t) /\ New(t)' = New(t)
  BY <1>2 DEF Old, New
<1>6. /\ \A t \in Stream : Done(t)' = Done(t) /\ Top(t)' = New(t)
      /\ \A t \in Stream : t # s => Top(t) = New(t)
      /\ Top(s) = Old(s) /\ Done(s) = Old(s)
  BY <1>4, <1>5 DEF Done, Top
<1>7. Start' = Start /\ Current' = Current
  BY <1>1, <1>2, <1>6 DEF Start, Current, Slot
<1>8. Counters /\ (Stats => LostCounters) /\ (Stats => RunCounters)
  BY <1>1, <1>3, CountersFacts
<1>9. OutcomesInv'
  BY <1>2, <1>3, <1>7, <1>8, CountersNext DEF Counters
<1>10. /\ seen[s] \in SUBSET Nat /\ synced[s] <= Old(s) /\ Old(s) < New(s)
       /\ Old(s) \in seen[s] /\ New(s) \in seen[s]
       /\ \A d \in seen[s] : ~(Old(s) < d /\ d < New(s))
  <2>1. seen[s] \in SUBSET Nat /\ \A d \in seen[s] : Old(s) < d => d = New(s)
    BY <1>1, <1>3 DEF SeenInv, Packets
  <2>2. Started(s)
    BY <1>3 DEF Started, Paired
  <2>3. New(s) \in seen[s]
    BY <1>1, <1>3, <2>2 DEF LineInv
  <2>4. synced[s] <= Old(s) /\ Old(s) < New(s) /\ Old(s) \in seen[s]
    BY <1>1, <1>2, <1>3, <1>4, <1>6 DEF PairedInv
  <2> QED
    BY <1>1, <2>1, <2>3, <2>4
<1>11. ASSUME Stats, NEW n \in 1..MaxCount
       PROVE  /\ bursts'[Coord][n] = bursts[Coord][n]
              /\ \A t \in Stream :
                   bursts'[t][n] = Cardinality(RunsTo(seen'[t], synced'[t], Top(t)', n))
  <2>1. /\ bursts \in BurstType /\ age(s) \in Nat /\ age(s) > 0
        /\ age(s) - 1 = New(s) - Old(s) - 1 /\ n \in Nat /\ n > 0
        /\ s \in Stream \cup {Coord} /\ Coord \in Stream \cup {Coord} /\ Coord # s
    <3>1. bursts \in BurstType
      BY <1>1 DEF TypeOK, BurstType
    <3>2. age(s) = New(s) - Old(s)
      BY Names
    <3>3. Coord # s
      BY DEF Coord, Stream
    <3> QED
      BY <1>1, <1>10, <1>11, <3>1, <3>2, <3>3
  <2>2. bursts' = AddBurst(s, age(s), 1)
    BY <1>2
  <2>3. /\ bursts'[s][n] = bursts[s][n] + (IF n = age(s) - 1 THEN 1 ELSE 0)
        /\ \A j \in Stream \cup {Coord} : j # s => bursts'[j] = bursts[j]
    BY <1>11, <2>1, <2>2, BurstAdded
  <2>4. Cardinality(RunsTo(seen[s], synced[s], New(s), n))
          = Cardinality(RunsTo(seen[s], synced[s], Old(s), n))
              + (IF n = New(s) - Old(s) - 1 THEN 1 ELSE 0)
    BY <1>1, <1>10, <2>1, RunsGrow
  <2>5. \A t \in Stream :
          bursts[t][n] = Cardinality(RunsTo(seen[t], synced[t], Top(t), n))
    BY <1>8, <1>11 DEF RunCounters
  <2>6. \A t \in Stream : t # s =>
          bursts'[t][n] = Cardinality(RunsTo(seen'[t], synced'[t], Top(t)', n))
    BY <1>2, <1>6, <2>3, <2>5
  <2>7. bursts'[s][n] = Cardinality(RunsTo(seen'[s], synced'[s], Top(s)', n))
    <3>1. bursts[s][n] = Cardinality(RunsTo(seen[s], synced[s], Old(s), n))
      BY <1>6, <2>5
    <3>2. bursts'[s][n] = Cardinality(RunsTo(seen[s], synced[s], New(s), n))
      BY <2>1, <2>3, <2>4, <3>1
    <3> QED
      BY <1>2, <1>6, <3>2
  <2> QED
    BY <2>1, <2>3, <2>6, <2>7
<1>12. LostRunsInv'
  BY <1>2, <1>3, <1>7, <1>8, <1>11, CountersNext DEF LostCounters
<1>13. RunsInv'
  BY <1>3, <1>11, CountersNext
<1> QED
  BY <1>9, <1>12, <1>13

\* What was received of the slots up to the pending packets.
LEMMA PendingSlots ==
  ASSUME TrackInv, pc = "pass", NEW s \in Stream
  PROVE  /\ \A t \in Int : Current < t /\ t < Current + age(s) => Hit(seen, s, t) = 0
         /\ age(s) > 0 => Hit(seen, s, Current + age(s)) = 1
         /\ AnyHit(seen, Current)
<1>1. /\ SeenInv /\ LineInv /\ PairedInv /\ Current \in Nat
      /\ \A r \in Stream : Old(r) \in Nat /\ New(r) \in Nat /\ Lead[r] \in Nat
  BY TrackFacts
<1>2. /\ Alive /\ Paired
      /\ \A r \in Stream : /\ Started(r) /\ Done(r) = Old(r)
                           /\ age(r) = New(r) - Old(r) /\ age(r) \in Nat
      /\ Slot(0, Old(0)) = Slot(1, Old(1)) /\ Current = Slot(0, Old(0))
  BY PassTrackFacts
<1>3. \A r \in Stream : Current = Old(r) + Lead[r]
  BY <1>2 DEF Slot, Stream
<1>4. ASSUME NEW t \in Int, Current < t, t < Current + age(s)
      PROVE  Hit(seen, s, t) = 0
  <2>1. Old(s) < t - Lead[s] /\ t - Lead[s] < New(s)
    BY <1>1, <1>2, <1>3, <1>4
  <2>2. t - Lead[s] \notin seen[s]
    BY <1>1, <1>2, <2>1 DEF SeenInv
  <2> QED
    BY <2>2 DEF Hit
<1>5. Hit(seen, s, Current + age(s)) = 1
  <2>1. (Current + age(s)) - Lead[s] = New(s)
    BY <1>1, <1>2, <1>3
  <2>2. New(s) \in seen[s]
    BY <1>1, <1>2 DEF LineInv
  <2> QED
    BY <2>1, <2>2 DEF Hit
<1>6. AnyHit(seen, Current)
  <2>1. PICK r \in Stream : Done(r) \in seen[r]
    BY <1>1, <1>2 DEF PairedInv
  <2>2. Current - Lead[r] = Done(r)
    BY <1>1, <1>2, <1>3
  <2> QED
    BY <2>1, <2>2 DEF Hit, AnyHit
<1> QED
  BY <1>4, <1>5, <1>6

\* n slots are counted at once, the last of them with outcome <<a, b>>
\* (first_pass, extract.c:881-968).
LEMMA SlotCounts ==
  ASSUME TruthInv, pc = "pass", Alive', Paired', seen' = seen,
         NEW n \in Nat, n > 0, n <= age(0), n <= age(1),
         NEW a \in {0, 1}, NEW b \in {0, 1}, a = 1 \/ b = 1,
         a = 1 <=> n = age(0), b = 1 <=> n = age(1),
         Current' = Current + n, Start' = Start, synced' = synced,
         \A s \in Stream : Top(s)' = Top(s),
         u64_stats' = Count(a, b, n), bursts' = AddBurst(Coord, n, 1)
  PROVE  OutcomesInv' /\ LostRunsInv' /\ RunsInv'
<1> DEFINE cur == Current
           hi == cur + n
<1>1. /\ TrackInv /\ OutcomesInv /\ LostRunsInv /\ RunsInv
      /\ TypeOK /\ PairedInv /\ 0 \in Stream /\ 1 \in Stream
      /\ Start \in Nat /\ cur \in Nat
      /\ Lead[0] \in Nat /\ synced[0] \in Nat /\ Done(0) \in Nat
  BY TrackFacts DEF TruthInv
<1>2. Alive /\ Paired /\ age(0) \in Nat /\ age(1) \in Nat
  BY <1>1, PassTrackFacts
<1>3. Counters /\ (Stats => LostCounters) /\ (Stats => RunCounters)
  BY <1>1, <1>2, CountersFacts
<1>4. Start <= cur
  <2>1. synced[0] <= Done(0)
    BY <1>1, <1>2 DEF PairedInv
  <2> QED
    BY <1>1, <2>1 DEF Start, Current, Slot
<1>5. \A s \in Stream :
        /\ \A t \in Int : cur < t /\ t < cur + age(s) => Hit(seen, s, t) = 0
        /\ age(s) > 0 => Hit(seen, s, cur + age(s)) = 1
        /\ AnyHit(seen, cur)
  BY <1>1, PendingSlots
<1> HIDE DEF cur
<1>6. \A t \in cur + 1 .. cur + n - 1 : Hit(seen, 0, t) = 0 /\ Hit(seen, 1, t) = 0
  <2> SUFFICES ASSUME NEW t \in cur + 1 .. cur + n - 1
               PROVE  Hit(seen, 0, t) = 0 /\ Hit(seen, 1, t) = 0
    OBVIOUS
  <2>1. t \in Int /\ cur < t /\ t < cur + age(0) /\ t < cur + age(1)
    BY <1>1, <1>2
  <2> QED
    BY <1>1, <1>5, <2>1
<1>7. Hit(seen, 0, hi) = a /\ Hit(seen, 1, hi) = b
  <2>1. hi \in Int /\ cur < hi
    BY <1>1
  <2>2. Hit(seen, 0, hi) = a
    <3>1. CASE a = 1
      BY <1>1, <1>5, <3>1
    <3>2. CASE a = 0
      <4>1. hi < cur + age(0)
        BY <1>1, <1>2, <3>2
      <4> QED
        BY <1>1, <1>5, <2>1, <3>2, <4>1
    <3> QED
      BY <3>1, <3>2
  <2>3. Hit(seen, 1, hi) = b
    <3>1. CASE b = 1
      BY <1>1, <1>5, <3>1
    <3>2. CASE b = 0
      <4>1. hi < cur + age(1)
        BY <1>1, <1>2, <3>2
      <4> QED
        BY <1>1, <1>5, <2>1, <3>2, <4>1
    <3> QED
      BY <3>1, <3>2
  <2> QED
    BY <2>2, <2>3
<1>8. /\ Hit(seen, 0, cur) = 1 \/ Hit(seen, 1, cur) = 1
      /\ Hit(seen, 0, hi) = 1 \/ Hit(seen, 1, hi) = 1
  BY <1>1, <1>5, <1>7 DEF AnyHit, Stream
<1>9. Current' = hi
  BY DEF cur
<1> HIDE DEF hi
<1>10. hi = cur + n
  BY DEF hi
<1>11. OutcomesInv'
  <2>1. u64_stats \in [Stream \X Stream -> Nat]
    BY <1>1 DEF TypeOK
  <2>2. ASSUME NEW i \in {0, 1}, NEW j \in {0, 1}
        PROVE  u64_stats'[<<i, j>>] = Cardinality(Outcomes(seen, Start, hi, i, j))
    <3>1. u64_stats'[<<i, j>>] = u64_stats[<<i, j>>]
                                  + (IF i = 0 /\ j = 0 THEN n - 1 ELSE 0)
                                  + (IF i = a /\ j = b THEN 1 ELSE 0)
      BY <2>1, OutcomeAdded
    <3>2. u64_stats[<<i, j>>] = Cardinality(Outcomes(seen, Start, cur, i, j))
      BY <1>3 DEF Counters, cur
    <3>3. Cardinality(Outcomes(seen, Start, cur + n, i, j))
            = Cardinality(Outcomes(seen, Start, cur, i, j))
                + (IF i = 0 /\ j = 0 THEN n - 1 ELSE 0)
                + (IF i = a /\ j = b THEN 1 ELSE 0)
      <4>1. Hit(seen, 0, cur + n) = a /\ Hit(seen, 1, cur + n) = b
        BY <1>7, <1>10
      <4>2. Start \in Nat /\ cur \in Nat
        BY <1>1
      <4> QED
        BY <1>4, <1>6, <4>1, <4>2, OutcomesGrow
    <3> QED
      BY <1>10, <3>1, <3>2, <3>3
  <2> QED
    BY <1>9, <2>2, CountersNext
<1>12. ASSUME Stats, NEW m \in 1..MaxCount
       PROVE  /\ bursts'[Coord][m] = Cardinality(LostRuns(seen, Start, hi, m))
              /\ \A s \in Stream : bursts'[s] = bursts[s]
  <2>1. /\ bursts \in BurstType /\ Coord \in Stream \cup {Coord}
        /\ \A s \in Stream : s # Coord /\ s \in Stream \cup {Coord}
        /\ m \in Nat /\ m > 0
    <3>1. bursts \in BurstType
      BY <1>1 DEF TypeOK, BurstType
    <3>2. \A s \in Stream : s # Coord
      BY DEF Coord, Stream
    <3> QED
      BY <3>1, <3>2
  <2>2. /\ bursts'[Coord][m] = bursts[Coord][m] + (IF m = n - 1 THEN 1 ELSE 0)
        /\ \A j \in Stream \cup {Coord} : j # Coord => bursts'[j] = bursts[j]
    BY <1>12, <2>1, BurstAdded
  <2>3. bursts[Coord][m] = Cardinality(LostRuns(seen, Start, cur, m))
    BY <1>3, <1>12 DEF LostCounters, cur
  <2>4. Cardinality(LostRuns(seen, Start, hi, m))
          = Cardinality(LostRuns(seen, Start, cur, m)) + (IF m = hi - cur - 1 THEN 1 ELSE 0)
    <3>1. \A t \in cur + 1 .. hi - 1 : Hit(seen, 0, t) = 0 /\ Hit(seen, 1, t) = 0
      <4>1. cur + n - 1 = hi - 1
        BY <1>1, <1>10
      <4> QED
        BY <1>6, <4>1
    <3>2. Start \in Nat /\ cur \in Nat /\ hi \in Nat /\ cur < hi /\ m \in Nat /\ m > 0
      BY <1>1, <1>10, <2>1
    <3> QED
      BY <1>4, <1>8, <3>1, <3>2, LostRunsGrow
  <2>5. hi - cur - 1 = n - 1
    BY <1>1, <1>10
  <2> QED
    BY <2>1, <2>2, <2>3, <2>4, <2>5
<1>13. LostRunsInv'
  BY <1>9, <1>12, CountersNext
<1>14. RunsInv'
  <2>1. Stats => \A m \in 1..MaxCount, s \in Stream :
          bursts'[s][m] = Cardinality(RunsTo(seen'[s], synced'[s], Top(s)', m))
    BY <1>3, <1>12 DEF RunCounters
  <2> QED
    BY <2>1, CountersNext
<1> QED
  BY <1>11, <1>13, <1>14

\* A slot with both packets (extract.c:881-897).
LEMMA PassBothCounts ==
  ASSUME TruthInv, PassBoth, seen' = seen
  PROVE  OutcomesInv' /\ LostRunsInv' /\ RunsInv'
<1> DEFINE n == age(0)
<1>1. /\ TrackInv /\ 0 \in Stream /\ 1 \in Stream
      /\ Lead[0] \in Nat /\ Old(0) \in Nat /\ New(0) \in Nat
  BY TrackFacts DEF TruthInv
<1>2. /\ pc = "pass" /\ n = age(1)
      /\ IF n # 0
         THEN /\ u64_stats' = Count(1, 1, n)
              /\ bursts' = AddBurst(Coord, n, 1)
         ELSE u64_stats' = u64_stats /\ bursts' = bursts
      /\ pc' = "read" /\ then' = "both"
      /\ UNCHANGED <<states, synced>>
  BY DEF PassBoth, AtPass, Ask
<1>3. /\ Alive /\ Paired /\ n \in Nat /\ n = New(0) - Old(0)
      /\ Current = Slot(0, Old(0))
      /\ \A s \in Stream : Top(s) = New(s)
  BY <1>1, <1>2, PassTrackFacts
<1>4. Alive' /\ Paired'
  BY <1>2 DEF Alive, Paired
<1>5. /\ \A s \in Stream : New(s)' = New(s) /\ ~Waiting(s)'
      /\ Advancing(0)'
  BY <1>2 DEF New, Waiting, Advancing
<1>6. Done(0)' = New(0) /\ \A s \in Stream : Top(s)' = Top(s)
  BY <1>1, <1>3, <1>5 DEF Done, Top
<1>7. Start' = Start /\ Current' = Current + n
  <2>1. Start' = Start
    BY <1>2 DEF Start, Slot
  <2>2. Current' = New(0) + Lead[0] /\ Current = Old(0) + Lead[0]
    BY <1>3, <1>6 DEF Current, Slot
  <2> HIDE DEF n
  <2> QED
    BY <1>1, <1>3, <2>1, <2>2
<1>8. CASE n = 0
  <2>1. Current' = Current
    <3>1. Current \in Nat
      BY <1>1, TrackFacts
    <3> QED
      BY <1>7, <1>8, <3>1
  <2> QED
    BY <1>2, <1>3, <1>4, <1>6, <1>7, <1>8, <2>1, SameCounts
<1>9. CASE n # 0
  <2>1. n > 0 /\ n <= age(0) /\ n <= age(1)
    BY <1>2, <1>3, <1>9
  <2> QED
    BY <1>2, <1>3, <1>4, <1>6, <1>7, <1>9, <2>1, SlotCounts
<1> QED
  BY <1>8, <1>9

\* A slot of one packet (extract.c:924-968).
LEMMA PassOneCounts ==
  ASSUME TruthInv, NEW s \in Stream, NEW o \in Stream, s # o, PassOne(s), seen' = seen
  PROVE  OutcomesInv' /\ LostRunsInv' /\ RunsInv'
<1> DEFINE n == age(s)
<1>1. /\ TrackInv /\ 0 \in Stream /\ 1 \in Stream /\ PairedInv
      /\ \A t \in Stream : Lead[t] \in Nat /\ Old(t) \in Nat /\ New(t) \in Nat
      /\ \A t \in Stream : t = s \/ t = o
      /\ (s = 0 /\ o = 1) \/ (s = 1 /\ o = 0)
  BY TrackFacts DEF TruthInv, Stream
<1>2. /\ pc = "pass" /\ n \in Nat /\ n > 0
      /\ New(s)' = New(s) /\ Old(s)' = Old(s) /\ New(s) = Old(s) + n
      /\ New(o)' = New(o) /\ Old(o)' = Old(o) + n /\ Old(o)' < New(o)
      /\ u64_stats' = Count(1 - s, s, n)
      /\ bursts' = AddBurst(Coord, n, 1)
      /\ pc' = "read" /\ inc' = s /\ in_state' = s /\ then' = "update"
      /\ UNCHANGED <<sync_count_diff, synced, log, u64_temp>>
  BY <1>1, PassOneFacts
<1>3. /\ Alive /\ Paired
      /\ age(o) = New(o) - Old(o)
      /\ Current = Slot(0, Old(0))
      /\ \A t \in Stream : Top(t) = New(t)
  BY <1>1, <1>2, PassTrackFacts
<1> HIDE DEF n
<1>4. Alive' /\ Paired'
  BY <1>2 DEF Alive, Paired
<1>5. /\ Advancing(s)' /\ ~Advancing(o)'
      /\ \A t \in Stream : ~Waiting(t)'
  BY <1>1, <1>2 DEF Waiting, Advancing
<1>6. /\ Done(s)' = Old(s) + n /\ Done(o)' = Old(o) + n
      /\ \A t \in Stream : Top(t)' = Top(t)
  BY <1>1, <1>2, <1>3, <1>5 DEF Done, Top
<1>7. Start' = Start /\ Current' = Current + n
  <2>1. Start' = Start
    BY <1>2 DEF Start, Slot
  <2>2. Done(0)' = Old(0) + n
    BY <1>1, <1>6
  <2>3. Current' = Done(0)' + Lead[0] /\ Current = Old(0) + Lead[0]
    BY <1>3 DEF Current, Slot
  <2> QED
    BY <1>1, <1>2, <2>1, <2>2, <2>3
<1>8. n <= age(0) /\ n <= age(1) /\ n = age(s) /\ n # age(o)
  <2>1. n = age(s) /\ n < age(o)
    BY <1>1, <1>2, <1>3 DEF n
  <2>2. age(o) \in Int
    BY <1>1, <1>3
  <2> QED
    BY <1>1, <1>2, <2>1, <2>2
<1> DEFINE a == 1 - s
<1>9. /\ a \in {0, 1} /\ s \in {0, 1} /\ (a = 1 \/ s = 1)
      /\ a = 1 <=> n = age(0)
      /\ s = 1 <=> n = age(1)
  BY <1>1, <1>8
<1>10. u64_stats' = Count(a, s, n)
  BY <1>2
<1> HIDE DEF a
<1> QED
  BY <1>2, <1>4, <1>6, <1>7, <1>8, <1>9, <1>10, SlotCounts

\* Asking for the next line of stream 1 counts nothing.
LEMMA SecondCounts ==
  ASSUME TruthInv, AdvanceSecond \/ AfterAgain, seen' = seen
  PROVE  OutcomesInv' /\ LostRunsInv' /\ RunsInv'
<1>1. /\ TrackInv /\ ControlInv /\ 0 \in Stream /\ 1 \in Stream
  BY TrackFacts DEF TruthInv
<1>2. pc = "stats0" /\ Untouched /\ ~AfterAgain
  BY <1>1 DEF AdvanceSecond, AfterAgain, ControlInv, Alive
<1>3. /\ pc' = "read" /\ in_state' = 1 /\ then' = "update"
      /\ UNCHANGED <<states, bursts, u64_stats, synced>>
  BY <1>2 DEF AdvanceSecond, Ask
<1>4. Alive /\ Paired /\ Paired'
  BY <1>2, <1>3 DEF Alive, Paired
<1>5. \A s \in Stream : /\ Old(s)' = Old(s) /\ New(s)' = New(s)
                        /\ Advancing(s)' <=> Advancing(s)
                        /\ ~Waiting(s) /\ ~Waiting(s)'
  BY <1>2, <1>3 DEF Old, New, Advancing, Waiting, Stream
<1>6. \A s \in Stream : Done(s)' = Done(s) /\ Top(s)' = Top(s)
  BY <1>5 DEF Done, Top
<1>7. Start' = Start /\ Current' = Current
  BY <1>1, <1>3, <1>6 DEF Start, Current, Slot
<1> QED
  BY <1>3, <1>4, <1>6, <1>7, SameCounts

\* Nor does the end of a file, wherever it is.
LEMMA ReadEofCounts ==
  ASSUME TruthInv, ReadEof, seen' = seen
  PROVE  OutcomesInv' /\ LostRunsInv' /\ RunsInv'
<1>1. /\ TrackInv /\ ControlInv /\ 0 \in Stream /\ 1 \in Stream
  BY TrackFacts DEF TruthInv
<1>2. /\ pc = "read" /\ Alive /\ pc' \in {"exit", "eof", "read"}
      /\ UNCHANGED <<states, sync_count_diff, u64_stats, bursts, synced,
                     in_state, then, u64_temp>>
  BY DEF ReadEof, Alive
<1>3. CASE pc' \in {"exit", "eof"}
  BY <1>3, StoppedCounts DEF Alive
<1>4. CASE pc' = "read"
  <2>1. Paired' <=> Paired
    BY <1>2, <1>4 DEF Paired
  <2>2. \A s \in Stream : /\ Old(s)' = Old(s) /\ New(s)' = New(s)
                          /\ Advancing(s)' <=> Advancing(s)
                          /\ Waiting(s)' <=> Waiting(s)
    BY <1>2, <1>4 DEF Old, New, Advancing, Waiting
  <2>3. \A s \in Stream : Done(s)' = Done(s) /\ Top(s)' = Top(s)
    BY <2>2 DEF Done, Top
  <2>4. Start' = Start /\ Current' = Current
    BY <1>1, <1>2, <2>3 DEF Start, Current, Slot
  <2> QED
    BY <1>2, <2>1, <2>3, <2>4, SameCounts
<1> QED
  BY <1>2, <1>3, <1>4

\* Nothing is counted before the first step.
LEMMA InitTruth ==
  ASSUME TruthInit
  PROVE  TruthInv
<1>1. TrackInv
  BY InitTrack
<1>2. /\ u64_stats = [o \in Stream \X Stream |-> 0]
      /\ bursts = [s \in Stream \cup {Coord} |-> [n \in 1..MaxCount |-> 0]]
      /\ ~Paired
  BY DEF TruthInit, Init, Paired
<1>3. OutcomesInv
  <2>1. \A i, j \in {0, 1} : <<i, j>> \in Stream \X Stream
    BY DEF Stream
  <2> QED
    BY <1>2, <2>1 DEF OutcomesInv
<1>4. LostRunsInv /\ RunsInv
  BY <1>2 DEF LostRunsInv, RunsInv
<1> QED
  BY <1>1, <1>3, <1>4 DEF TruthInv

\* Every step keeps the counters exact.
LEMMA NextTruth ==
  ASSUME Numbered, InTime, TruthInv, [TruthNext]_truthVars
  PROVE  TruthInv'
<1>1. TrackInv /\ TrackInv' /\ TypeOK
  BY NextTrack DEF TruthInv, TrackInv
<1> SUFFICES OutcomesInv' /\ LostRunsInv' /\ RunsInv'
  BY <1>1 DEF TruthInv
<1>2. CASE TruthNext
  <2>1. Next /\ Witnessed
    BY <1>2 DEF TruthNext, Witnessed
  <2>2. CASE ReadLine
    BY <2>1, <2>2, ReadLineCounts
  <2>3. ASSUME Alive, \A s \in Stream : log'[s].ts = log[s].ts
        PROVE  seen' = seen
    BY <1>1, <2>1, <2>3, NothingSeen
  <2>4. CASE ReadEof
    <3>1. Alive /\ \A s \in Stream : log'[s].ts = log[s].ts
      BY <1>1, <2>4, ReadEofLog
    <3> QED
      BY <2>3, <2>4, <3>1, ReadEofCounts
  <2>5. CASE SyncFirst \/ Sync
    <3>1. Alive /\ log' = log
      BY <2>5 DEF SyncFirst, Sync, Alive
    <3> QED
      BY <2>3, <2>5, <3>1, SyncCounts
  <2>6. CASE PassBoth
    <3>1. Alive /\ log' = log
      BY <2>6 DEF PassBoth, AtPass, Alive
    <3> QED
      BY <2>3, <2>6, <3>1, PassBothCounts
  <2>7. ASSUME NEW s \in Stream, PassDrop(s)
        PROVE  FALSE
    BY <1>1, <2>7, NeverApart DEF PassDrop, AtPass
  <2>8. ASSUME NEW s \in Stream, PassOne(s)
        PROVE  OutcomesInv' /\ LostRunsInv' /\ RunsInv'
    <3>1. Alive /\ log' = log
      BY <2>8 DEF PassOne, AtPass, Alive
    <3>2. Other(s) \in Stream /\ s # Other(s)
      BY DEF Stream, Other
    <3> QED
      BY <2>3, <2>8, <3>1, <3>2, PassOneCounts
  <2>9. CASE UpdateOne \/ AfterBoth
    <3>1. Alive /\ log' = log
      BY <2>9 DEF UpdateOne, AfterBoth, Alive
    <3> QED
      BY <2>3, <2>9, <3>1, BurstCounts
  <2>10. CASE AdvanceSecond \/ AfterAgain
    <3>1. Alive /\ log' = log
      BY <2>10 DEF AdvanceSecond, AfterAgain, Alive
    <3> QED
      BY <2>3, <2>10, <3>1, SecondCounts
  <2> QED
    BY <2>1, <2>2, <2>4, <2>5, <2>6, <2>7, <2>8, <2>9, <2>10 DEF Next
<1>3. CASE UNCHANGED truthVars
  <2>1. CASE Alive
    <3>1. /\ seen' = seen /\ (Paired' <=> Paired)
          /\ UNCHANGED <<u64_stats, bursts, synced>>
      BY <1>3 DEF truthVars, vars, Paired
    <3>2. \A s \in Stream : /\ Old(s)' = Old(s) /\ New(s)' = New(s)
                            /\ Advancing(s)' <=> Advancing(s)
                            /\ Waiting(s)' <=> Waiting(s)
      BY <1>3 DEF truthVars, vars, Old, New, Advancing, Waiting
    <3>3. \A s \in Stream : Done(s)' = Done(s) /\ Top(s)' = Top(s)
      BY <3>2 DEF Done, Top
    <3>4. Start' = Start /\ Current' = Current
      <4>1. 0 \in Stream
        BY DEF Stream
      <4> QED
        BY <3>1, <3>3, <4>1 DEF Start, Current, Slot
    <3> QED
      BY <2>1, <3>1, <3>3, <3>4, SameCounts
  <2>2. CASE ~Alive
    BY <1>3, <2>2, StoppedCounts DEF truthVars, vars, Alive
  <2> QED
    BY <2>1, <2>2
<1> QED
  BY <1>2, <1>3

-----------------------------------------------------------------------------
(* The theorems.                                                           *)

\* The invariant, of every behaviour whose packets are in time.
THEOREM CountersAreTrue ==
  ASSUME Numbered, InTime
  PROVE  TruthSpec => []TruthInv
<1>1. TruthInit => TruthInv
  BY InitTruth
<1>2. TruthInv /\ [TruthNext]_truthVars => TruthInv'
  BY NextTruth
<1> QED
  BY <1>1, <1>2, PTL DEF TruthSpec

\* Each of the four counters of slots is the number of slots, since the
\* synchronisation, of which the packets it stands for reached the logs
\* (first_pass, extract.c:881-968).
THEOREM StatisticsAreExact ==
  ASSUME Numbered, InTime
  PROVE  TruthSpec => []StatsExact
<1>1. TruthInv => StatsExact
  <2> SUFFICES ASSUME TruthInv, pc = "pass", NEW i \in {0, 1}, NEW j \in {0, 1}
               PROVE  u64_stats[<<i, j>>]
                        = Cardinality({t \in CountedSlots : Got(0, t) = i /\ Got(1, t) = j})
    BY DEF StatsExact
  <2>1. TrackInv /\ OutcomesInv /\ 0 \in Stream
    BY DEF TruthInv, Stream
  <2>2. Alive /\ Paired /\ Current = Slot(0, Old(0))
    BY <2>1, PassTrackFacts
  <2>3. u64_stats[<<i, j>>] = Cardinality(Outcomes(seen, Start, Current, i, j))
    BY <2>1, <2>2 DEF OutcomesInv
  <2>4. CountedSlots = Start + 1 .. Current
    BY <2>2 DEF CountedSlots, Start, Slot, Old
  <2>5. Outcomes(seen, Start, Current, i, j)
          = {t \in CountedSlots : Got(0, t) = i /\ Got(1, t) = j}
    BY <2>4 DEF Outcomes, Hit, Got
  <2> QED
    BY <2>3, <2>5
<1> QED
  BY <1>1, CountersAreTrue, PTL

\* With option -s, the burst counters hold the runs of losses of each stream
\* and the runs of slots lost on both (UPDATE_STATE, extract.c:798-805, and
\* first_pass, extract.c:891, 933, 955).
THEOREM BurstsAreExact ==
  ASSUME Numbered, InTime
  PROVE  TruthSpec => []BurstsExact
<1>1. TruthInv => BurstsExact
  <2> SUFFICES ASSUME TruthInv, Stats, pc = "pass", NEW n \in 1..MaxCount
               PROVE  /\ \A s \in Stream : bursts[s][n] = Cardinality(RunsOfLosses(s, n))
                      /\ bursts[Coord][n] = Cardinality(RunsOnBoth(n))
    BY DEF BurstsExact
  <2>1. /\ TrackInv /\ LostRunsInv /\ RunsInv /\ SeenInv /\ 0 \in Stream
    BY TrackFacts DEF TruthInv
  <2>2. /\ Alive /\ Paired /\ Current = Slot(0, Old(0))
        /\ \A s \in Stream : Top(s) = New(s)
    BY <2>1, PassTrackFacts
  <2>3. CountedSlots = Start + 1 .. Current /\ synced[0] + Lead[0] = Start
    BY <2>2 DEF CountedSlots, Start, Slot, Old
  <2>4. \A t : Delivered(t) <=> AnyHit(seen, t)
    BY DEF Delivered, AnyHit, Got, Hit
  <2>5. RunsOnBoth(n) = LostRuns(seen, Start, Current, n)
    BY <2>3, <2>4 DEF RunsOnBoth, LostRuns
  <2>6. ASSUME NEW s \in Stream
        PROVE  RunsOfLosses(s, n) = RunsTo(seen[s], synced[s], Top(s), n)
    <3>1. \A c \in seen[s] : c <= Top(s)
      BY <2>1, <2>2 DEF SeenInv
    <3> QED
      BY <3>1 DEF RunsOfLosses, RunsTo
  <2>7. /\ \A s \in Stream :
             bursts[s][n] = Cardinality(RunsTo(seen[s], synced[s], Top(s), n))
        /\ bursts[Coord][n] = Cardinality(LostRuns(seen, Start, Current, n))
    BY <2>1, <2>2 DEF LostRunsInv, RunsInv
  <2> QED
    BY <2>5, <2>6, <2>7
<1> QED
  BY <1>1, CountersAreTrue, PTL

\* With logs of any number of files, the assertions at the start of
\* first_pass hold (extract.c:840-845).
THEOREM RotatedLogsStayAligned ==
  ASSUME Numbered, InTime
  PROVE  TruthSpec => []SyncAssert
<1>1. TruthInv => SyncAssert
  <2> SUFFICES ASSUME TrackInv, pc = "pass"
               PROVE  AgesOk /\ Aligned
    BY DEF SyncAssert, TruthInv
  <2>1. /\ PairedInv /\ Paired /\ 0 \in Stream /\ 1 \in Stream
        /\ Old(0) \in Nat /\ Old(1) \in Nat /\ Lead[0] \in Nat /\ Lead[1] \in Nat
        /\ \A s \in Stream : age(s) \in Nat
        /\ Slot(0, Old(0)) = Slot(1, Old(1))
    BY TrackFacts, PassTrackFacts
  <2>2. sync_count_diff = Lead[1] - Lead[0]
    BY <2>1 DEF PairedInv
  <2>3. Old(0) - Old(1) = sync_count_diff
    BY <2>1, <2>2 DEF Slot
  <2> QED
    BY <2>1, <2>3, Names DEF AgesOk
<1> QED
  BY <1>1, CountersAreTrue, PTL

\* Nor does a packet that is early for the reference abort the program
\* (extract.c:383).
THEOREM RotatedLogsNeverTooEarly ==
  ASSUME Numbered, InTime
  PROVE  TruthSpec => []NeverTooEarly
<1>1. TruthInv => NeverTooEarly
  <2> SUFFICES ASSUME TrackInv, pc = "read", ~Synchronising(states[inc]),
                      NEW l \in Lines(inc)
               PROVE  ~TooEarly(states[inc], l)
    BY DEF NeverTooEarly, TruthInv
  <2> DEFINE s == inc
             x == states[inc]
             t == temp_ts(x, l)
             b == Interval * l.count
  <2>1. /\ TypeOK /\ InTimeInv /\ s \in Stream /\ x \in InputType
        /\ First <= log[s].count
    BY TrackFacts, Types DEF TrackInv
  <2>2. /\ l \in [count : Nat, ts : Nat] /\ Due(s, l.count) <= l.ts
    <3>1. l \in [count : Nat, ts : Nat]
      BY <2>1, LineFacts
    <3>2. l.ts - Due(s, l.count) \in Nat
      <4>1. l.ts - Due(s, l.count) \in Delays
        BY DEF Lines
      <4>2. Delays \subseteq Nat
        BY ExtractAssumption
      <4> QED
        BY <4>1, <4>2
    <3>3. Due(s, l.count) \in Int /\ l.ts \in Nat
      <4>1. l.count \in Nat /\ l.ts \in Nat
        BY <3>1
      <4>2. Interval \in Nat /\ Interval * l.count \in Nat
        BY <4>1, IntervalType, Later
      <4> QED
        BY <2>1, <4>1, <4>2, DueFacts
    <3> QED
      BY <3>1, <3>2, <3>3
  <2>3. Base(s) <= RefOf(x) /\ RefOf(x) < Base(s) + Secure
    <3>1. Alive
      BY DEF Alive
    <3>2. Paired
      BY <2>1, <3>1 DEF InTimeInv, Synchronising
    <3> QED
      BY <2>1, <3>2 DEF InTimeInv, Ref
  <2>4. /\ Secure \in Nat /\ Base(s) \in Nat /\ b \in Nat /\ RefOf(x) \in Int
        /\ Due(s, l.count) = Base(s) + b /\ t = RefOf(x) + b
    <3>1. l.count \in Nat
      BY <2>2
    <3> QED
      BY <2>1, <2>2, <3>1, IntervalType, DueFacts, RefFacts
  <2>5. l.ts \in Nat
    BY <2>2
  <2>6. TooEarly(x, l) <=> t - l.ts > Secure
    BY DEF TooEarly
  <2> HIDE DEF s, x, t, b
  <2>7. ~TooEarly(x, l)
    BY <2>2, <2>3, <2>4, <2>5, <2>6
  <2> QED
    BY <2>7 DEF x
<1> QED
  BY <1>1, CountersAreTrue, PTL

=============================================================================
