--------------------------- MODULE EvallinkProofs ---------------------------
(***************************************************************************)
(* The gossip of evallink, for any number of stations and strangers, any   *)
(* size of the tables, any clock and any layout of the radiotap headers.   *)
(* The invariant follows a value on its way: from the frame to the row of  *)
(* the table inc, from there into the messages of the station, and from    *)
(* them into the table out of the station that the row is about.           *)
(***************************************************************************)
EXTENDS Evallink, WellFoundedInduction, TLAPS

-----------------------------------------------------------------------------
(* The invariant.                                                          *)

Stamp == [sec : Int, nsec : 0..NS]
Message == [kind : {"evallink", "noise"}, from : Station, stamp : Stamp,
            sent : Int, heard : Nat, rows : Seq(Row)]

Types ==
  /\ state \in [Node -> {"loop", "aborted"}]
  /\ now \in 0..MaxTime /\ sends \in 0..MaxSends
  /\ back \in [Node -> {0, Back}]
  /\ inc \in [Node -> Seq(Row)] /\ out \in [Node -> Seq(Row)]
  /\ socket \in [Node -> Seq(Message)]
  /\ noise \in [Strangers -> {"none", "some", "unicast", "empty"}]
  /\ \A n \in Node : /\ Len(inc[n]) <= LINE_NB /\ Len(out[n]) <= LINE_NB
                     /\ Len(socket[n]) <= SockBuf

Given(n, field) == field \in DOMAIN Layout[n].field

\* row is what station n has to think of the station row.ip.
Measured(n, row) ==
  /\ row.db = IF Given(n, DBM_ANTSIGNAL) THEN Signal[row.ip][n] ELSE 0
  /\ row.rate = IF Given(n, RATE) THEN Rate[row.ip][n] ELSE 0

\* A message that m gets: a stranger's frame is open, the rows are those
\* of its sender, the stamp is the time of the reception.
Genuine(m, p) ==
  /\ p.from \in Strangers <=> p.kind = "noise"
  /\ p.from \in Strangers => noise[p.from] = "some"
  /\ \A j \in 1..Len(p.rows) :
       Given(p.from, DBM_ANTSIGNAL) => p.rows[j].db = Signal[p.rows[j].ip][p.from]
  /\ p.from \in Node \ Unstamped /\ back[p.from] = 0 =>
       \A j \in 1..Len(p.rows) : Ticks(p.rows[j].stamp) = p.sent - p.rows[j].heard
  /\ back[m] = 0 => p.stamp = Timespec(p.heard)
  /\ p.heard <= now

InFlight == \A m \in Node : \A i \in 1..Len(socket[m]) : Genuine(m, socket[m][i])

\* A stranger has sent one frame, to one station.
OneFrame ==
  \A m, n \in Node : \A i \in 1..Len(socket[m]), j \in 1..Len(socket[n]) :
    socket[m][i].from \in Strangers /\ socket[m][i].from = socket[n][j].from =>
      m = n /\ i = j

\* The rows of inc: one per station, none for itself, with the values of the
\* link, and a stamp that is a time that was.
IncRow(n, row) ==
  /\ row.ip # n
  /\ row.ip \in Strangers => noise[row.ip] = "unicast"
  /\ Measured(n, row)
  /\ back[n] = 0 =>
       /\ \E x \in Int : x <= now /\ row.stamp = Timespec(x)
       /\ n \notin Unstamped => row.stamp = Timespec(row.heard)

OneRow(table) ==
  \A i, j \in 1..Len(table) : table[i].ip = table[j].ip => i = j

IncInv ==
  \A n \in Node : /\ OneRow(inc[n])
                  /\ \A i \in 1..Len(inc[n]) : IncRow(n, inc[n][i])

\* The rows of out whose place is, or can become, that of the same station
\* in inc.
OutInv ==
  \A n \in Node : \A i \in 1..Len(out[n]) :
    /\ i > Len(inc[n]) \/ out[n][i].ip = inc[n][i].ip =>
         (Given(out[n][i].ip, DBM_ANTSIGNAL) =>
            out[n][i].db = Signal[n][out[n][i].ip])
    /\ Len(inc[n]) < LINE_NB =>
         \E j \in 1..Len(inc[n]) : inc[n][j].ip = out[n][i].ip

EInv == Types /\ InFlight /\ OneFrame /\ IncInv /\ OutInv /\ AbortHasCause

-----------------------------------------------------------------------------
(* Times.                                                                  *)

LEMMA Divided == ASSUME NEW t \in Int
  PROVE  /\ t \div NS \in Int /\ t % NS \in 0..(NS - 1)
         /\ t = (t \div NS) * NS + (t % NS)
BY EvallinkAssumption

LEMMA DivMonotone == ASSUME NEW x \in Int, NEW y \in Int, x <= y
  PROVE  x \div NS <= y \div NS
<1> DEFINE a == x \div NS  b == y \div NS
<1>1. NS \in Nat \ {0}
  BY EvallinkAssumption
<1>2. a \in Int /\ b \in Int /\ x >= a * NS /\ y < b * NS + NS
  BY <1>1, Divided
<1>3. CASE a >= b + 1
  <2>1. a * NS >= b * NS + NS
    BY <1>1, <1>2, <1>3
  <2> QED
    BY <1>1, <1>2, <2>1
<1> QED
  BY <1>2, <1>3

LEMMA TimespecIsStamp == ASSUME NEW t \in Int
  PROVE  /\ Timespec(t) \in Stamp /\ Ticks(Timespec(t)) = t
         /\ Timespec(t).sec = t \div NS /\ Timespec(t).nsec = t % NS
<1>1. NS \in Nat \ {0}
  BY EvallinkAssumption
<1>2. t % NS \in 0..NS
  BY <1>1, Divided
<1> QED
  BY <1>2, Divided DEF Timespec, Ticks, Stamp

\* Both branches of the difference give the distance of the two times.
LEMMA AgeIsDistance == ASSUME NEW t \in Stamp, NEW s \in Stamp
  PROVE  Age(t, s) \in Stamp /\ Ticks(Age(t, s)) = Ticks(t) - Ticks(s)
<1>1. /\ NS \in Nat \ {0}
      /\ t.sec \in Int /\ s.sec \in Int /\ t.nsec \in 0..NS /\ s.nsec \in 0..NS
  BY EvallinkAssumption DEF Stamp
<1>2. \A a, b, c, d \in Int :
        /\ (a - b) * NS + (c - d) = (a * NS + c) - (b * NS + d)
        /\ (a - b - 1) * NS + (NS - d + c) = (a * NS + c) - (b * NS + d)
  BY <1>1
<1>3. CASE t.nsec > s.nsec
  <2>1. Age(t, s) = [sec |-> t.sec - s.sec, nsec |-> t.nsec - s.nsec]
    BY <1>3 DEF Age
  <2>2. t.nsec - s.nsec \in 0..NS /\ t.sec - s.sec \in Int
    BY <1>1, <1>3
  <2> QED
    BY <1>1, <1>2, <2>1, <2>2 DEF Ticks, Stamp
<1>4. CASE ~(t.nsec > s.nsec)
  <2>1. Age(t, s) = [sec |-> t.sec - s.sec - 1, nsec |-> NS - s.nsec + t.nsec]
    BY <1>4 DEF Age
  <2>2. NS - s.nsec + t.nsec \in 0..NS /\ t.sec - s.sec - 1 \in Int
    BY <1>1, <1>4
  <2> QED
    BY <1>1, <1>2, <2>1, <2>2 DEF Ticks, Stamp
<1> QED
  BY <1>3, <1>4

\* A time that was can be aged.
LEMMA PastNeverAborts ==
  ASSUME NEW t \in Int, NEW x \in Int, x <= t
  PROVE  ~AgeAborts(Timespec(t), Timespec(x))
<1>1. Timespec(x).sec <= Timespec(t).sec /\ Timespec(x).sec \in Int /\ Timespec(t).sec \in Int
  BY DivMonotone, Divided, TimespecIsStamp
<1> QED
  BY <1>1 DEF AgeAborts

LEMMA AgedRow ==
  ASSUME Types, NEW n \in Node, NEW row \in Row
  PROVE  /\ Aged(n, row) \in Row
         /\ Aged(n, row).ip = row.ip /\ Aged(n, row).db = row.db
         /\ Aged(n, row).heard = row.heard
         /\ Ticks(Aged(n, row).stamp) = now - back[n] - Ticks(row.stamp)
<1>1. now - back[n] \in Int
  <2>1. now \in Int /\ back[n] \in {0, Back} /\ Back \in Int
    BY EvallinkAssumption DEF Types
  <2> QED
    BY <2>1
<1>2. CLOCK_REALTIME(n) \in Stamp /\ Ticks(CLOCK_REALTIME(n)) = now - back[n]
  BY <1>1, TimespecIsStamp DEF CLOCK_REALTIME
<1>3. row.stamp \in Stamp
  BY DEF Row, Stamp
<1>4. /\ Age(CLOCK_REALTIME(n), row.stamp) \in Stamp
      /\ Ticks(Age(CLOCK_REALTIME(n), row.stamp)) = now - back[n] - Ticks(row.stamp)
  BY <1>2, <1>3, AgeIsDistance
<1>5. Aged(n, row) = [row EXCEPT !.stamp = Age(CLOCK_REALTIME(n), row.stamp)]
  BY DEF Aged
<1> QED
  BY <1>4, <1>5 DEF Row, Stamp

-----------------------------------------------------------------------------
(* The walk over the radiotap header.                                      *)

Ends(at, f) == {HeaderSize} \cup {at.field[g] + rt_sizes[g].size :
                                  g \in {h \in DOMAIN at.field : h < f}}

\* One field further.
After(at, f, p) == IF f \in DOMAIN at.field THEN Padded(p, f) + rt_sizes[f].size ELSE p

LEMMA Sizes ==
  /\ Field = 0..5 /\ HeaderSize = 8 /\ RATE = 2 /\ DBM_ANTSIGNAL = 5
  /\ \A f \in Field : /\ rt_sizes[f].align \in {1, 2, 8}
                      /\ rt_sizes[f].size \in Nat \ {0}
BY DEF Field, HeaderSize, DBM_ANTSIGNAL, rt_sizes, RATE

\* The parser's position before a field is the end of the last field before it.
LEMMA NextField ==
  ASSUME NEW at, Standard(at), NEW f \in Field, NEW p \in Nat,
         p \in Ends(at, f), \A e \in Ends(at, f) : e <= p
  PROVE  /\ After(at, f, p) \in Nat
         /\ After(at, f, p) \in Ends(at, f + 1)
         /\ \A e \in Ends(at, f + 1) : e <= After(at, f, p)
         /\ f \in DOMAIN at.field =>
              /\ Padded(p, f) = at.field[f]
              /\ After(at, f, p) = at.field[f] + rt_sizes[f].size
<1>1. CASE f \in DOMAIN at.field
  <2>1. /\ at.field[f] \in Nat /\ at.field[f] % rt_sizes[f].align = 0
        /\ \A e \in Ends(at, f) : e <= at.field[f]
        /\ \E e \in Ends(at, f) : at.field[f] < e + rt_sizes[f].align
    BY <1>1 DEF Standard, Ends
  <2>2. at.field[f] < p + rt_sizes[f].align /\ p <= at.field[f]
    <3>1. PICK e \in Ends(at, f) : at.field[f] < e + rt_sizes[f].align
      BY <2>1
    <3>2. e \in Nat
      BY <3>1, Sizes DEF Standard, Ends
    <3>3. e <= p /\ p <= at.field[f]
      BY <2>1, <3>1
    <3>5. rt_sizes[f].align \in Nat
      BY Sizes
    <3>4. \A a, b, c, d \in Nat : a < b + c /\ b <= d => a < d + c
      OBVIOUS
    <3> QED
      BY <2>1, <3>1, <3>2, <3>3, <3>4, <3>5
  <2>3. Padded(p, f) = at.field[f]
    BY <2>1, <2>2, Sizes DEF Padded
  <2>4. After(at, f, p) = at.field[f] + rt_sizes[f].size
    BY <1>1, <2>3 DEF After
  <2>5. Ends(at, f + 1) = Ends(at, f) \cup {at.field[f] + rt_sizes[f].size}
    BY <1>1, Sizes DEF Ends, Standard
  <2>6. at.field[f] + rt_sizes[f].size \in Nat /\ at.field[f] <= at.field[f] + rt_sizes[f].size
    BY <2>1, Sizes
  <2>7. ASSUME NEW e \in Ends(at, f) PROVE e <= at.field[f] + rt_sizes[f].size
    <3>1. e <= at.field[f] /\ e \in Nat
      BY <2>1, Sizes DEF Standard, Ends
    <3> QED
      BY <2>1, <2>6, <3>1
  <2>8. PICK q : q = at.field[f] + rt_sizes[f].size
    OBVIOUS
  <2>9. q \in Nat /\ q \in Ends(at, f + 1)
    BY <2>5, <2>6, <2>8
  <2>10. ASSUME NEW e \in Ends(at, f + 1) PROVE e <= q
    <3>1. CASE e \in Ends(at, f)
      BY <2>7, <2>8, <3>1
    <3>2. CASE e = q
      BY <2>9, <3>2
    <3> QED
      BY <2>5, <2>8, <3>1, <3>2
  <2> QED
    BY <2>3, <2>4, <2>8, <2>9, <2>10
<1>2. CASE f \notin DOMAIN at.field
  <2>1. Ends(at, f + 1) = Ends(at, f)
    BY <1>2, Sizes DEF Ends, Standard
  <2>2. After(at, f, p) = p
    BY <1>2 DEF After
  <2> QED
    BY <1>2, <2>1, <2>2
<1> QED
  BY <1>1, <1>2

\* The recursive function has the values that its equation gives.
LEMMA Walked ==
  ASSUME NEW at, Standard(at), NEW hdr, hdr.present = DOMAIN at.field
  PROVE  /\ NextBefore(hdr)[0] = HeaderSize
         /\ \A f \in Field : NextBefore(hdr)[f + 1] = After(at, f, NextBefore(hdr)[f])
<1> DEFINE next[f \in 0..(DBM_ANTSIGNAL + 1)] ==
        IF f = 0 THEN HeaderSize
        ELSE IF f - 1 \in hdr.present
             THEN Padded(next[f - 1], f - 1) + rt_sizes[f - 1].size
             ELSE next[f - 1]
<1> DEFINE Step(f, p) == IF f \in hdr.present THEN Padded(p, f) + rt_sizes[f].size ELSE p
<1> DEFINE v1 == Step(0, HeaderSize)
           v2 == Step(1, v1)
           v3 == Step(2, v2)
           v4 == Step(3, v3)
           v5 == Step(4, v4)
           v6 == Step(5, v5)
<1> DEFINE v == [f \in 0..6 |-> CASE f = 0 -> HeaderSize [] f = 1 -> v1 [] f = 2 -> v2
                                  [] f = 3 -> v3 [] f = 4 -> v4 [] f = 5 -> v5 [] f = 6 -> v6]
<1>1. /\ v[0] = HeaderSize /\ v[1] = Step(0, v[0]) /\ v[2] = Step(1, v[1])
      /\ v[3] = Step(2, v[2]) /\ v[4] = Step(3, v[3]) /\ v[5] = Step(4, v[4])
      /\ v[6] = Step(5, v[5])
  <2> HIDE DEF Step
  <2> QED
    OBVIOUS
<1>2. v = [f \in 0..6 |-> v[f]]
  OBVIOUS
<1> HIDE DEF v
<1>3. \A f \in 0..6 : v[f] = IF f = 0 THEN HeaderSize ELSE Step(f - 1, v[f - 1])
  <2> HIDE DEF Step
  <2> SUFFICES ASSUME NEW f \in 0..6
               PROVE  v[f] = IF f = 0 THEN HeaderSize ELSE Step(f - 1, v[f - 1])
    OBVIOUS
  <2>1. f \in {0, 1, 2, 3, 4, 5, 6}
    OBVIOUS
  <2> QED
    BY <1>1, <2>1
<1>4. v = [f \in 0..(DBM_ANTSIGNAL + 1) |->
             IF f = 0 THEN HeaderSize
             ELSE IF f - 1 \in hdr.present
                  THEN Padded(v[f - 1], f - 1) + rt_sizes[f - 1].size
                  ELSE v[f - 1]]
  BY <1>2, <1>3, Sizes
<1>5. next = [f \in 0..(DBM_ANTSIGNAL + 1) |->
             IF f = 0 THEN HeaderSize
             ELSE IF f - 1 \in hdr.present
                  THEN Padded(next[f - 1], f - 1) + rt_sizes[f - 1].size
                  ELSE next[f - 1]]
  BY <1>4
<1>6. NextBefore(hdr) = next
  BY DEF NextBefore
<1> HIDE DEF next
<1>7. next[0] = HeaderSize
  BY <1>5, Sizes
<1>8. ASSUME NEW f \in Field PROVE next[f + 1] = After(at, f, next[f])
  <2>1. f + 1 \in 0..(DBM_ANTSIGNAL + 1) /\ f + 1 # 0 /\ (f + 1) - 1 = f
    BY Sizes
  <2>2. next[f + 1] = IF f \in hdr.present THEN Padded(next[f], f) + rt_sizes[f].size
                      ELSE next[f]
    BY <1>5, <2>1
  <2> QED
    BY <2>2 DEF After
<1> QED
  BY <1>6, <1>7, <1>8

LEMMA WalkIsStandard ==
  ASSUME NEW at, Standard(at), NEW hdr, hdr.present = DOMAIN at.field
  PROVE  \A f \in DOMAIN at.field :
           /\ Padded(NextBefore(hdr)[f], f) = at.field[f]
           /\ NextBefore(hdr)[f + 1] = at.field[f] + rt_sizes[f].size
<1> DEFINE End(f, p) == p \in Nat /\ p \in Ends(at, f) /\ \A e \in Ends(at, f) : e <= p
<1> DEFINE b == NextBefore(hdr)
<1>1. End(0, b[0])
  BY Walked, Sizes DEF Ends, Standard
<1>2. ASSUME NEW f \in Field, End(f, b[f]) PROVE End(f + 1, b[f + 1])
  BY <1>2, Walked, NextField
<1> HIDE DEF End, b
<1>3. End(1, b[1])
  BY <1>1, <1>2, Sizes
<1>4. End(2, b[2])
  BY <1>2, <1>3, Sizes
<1>5. End(3, b[3])
  BY <1>2, <1>4, Sizes
<1>6. End(4, b[4])
  BY <1>2, <1>5, Sizes
<1>7. End(5, b[5])
  BY <1>2, <1>6, Sizes
<1>8. \A f \in Field : End(f, b[f])
  BY <1>1, <1>3, <1>4, <1>5, <1>6, <1>7, Sizes
<1>9. ASSUME NEW f \in DOMAIN at.field
      PROVE  Padded(b[f], f) = at.field[f] /\ b[f + 1] = at.field[f] + rt_sizes[f].size
  <2>1. f \in Field
    BY DEF Standard
  <2>2. b[f] \in Nat /\ b[f] \in Ends(at, f) /\ \A e \in Ends(at, f) : e <= b[f]
    BY <1>8, <2>1 DEF End
  <2>3. b[f + 1] = After(at, f, b[f])
    BY <2>1, Walked DEF b
  <2> QED
    BY <2>1, <2>2, <2>3, NextField
<1> QED
  BY <1>9 DEF b

LEMMA FieldsApart ==
  ASSUME NEW at, Standard(at), RATE \in DOMAIN at.field, DBM_ANTSIGNAL \in DOMAIN at.field
  PROVE  at.field[RATE] # at.field[DBM_ANTSIGNAL]
<1>1. at.field[RATE] + rt_sizes[RATE].size \in Ends(at, DBM_ANTSIGNAL)
  BY Sizes DEF Ends
<1>2. at.field[RATE] + rt_sizes[RATE].size <= at.field[DBM_ANTSIGNAL]
  BY <1>1 DEF Standard, Ends
<1>3. at.field[RATE] \in Nat /\ rt_sizes[RATE].size \in Nat \ {0}
  BY Sizes DEF Standard
<1> QED
  BY <1>2, <1>3

\* The caller gets the strength and the rate that the driver put into the
\* header, whatever other fields are around them, or zero.
LEMMA FieldsAreFound ==
  ASSUME NEW n \in Node, NEW m \in Station
  PROVE  /\ Kept(Tap(n, m), DBM_ANTSIGNAL)
              = IF Given(n, DBM_ANTSIGNAL) THEN Signal[m][n] ELSE 0
         /\ Kept(Tap(n, m), RATE) = IF Given(n, RATE) THEN Rate[m][n] ELSE 0
<1> DEFINE at == Layout[n]  hdr == Tap(n, m)
<1>1. Standard(at)
  BY EvallinkAssumption DEF Station
<1>2. hdr.present = DOMAIN at.field /\ hdr.len = at.len
  BY DEF Tap
<1>3. \A o \in 0..(at.len - 1) :
        /\ RATE \in DOMAIN at.field /\ o = at.field[RATE] => hdr.bytes[o] = Rate[m][n]
        /\ /\ ~(RATE \in DOMAIN at.field /\ o = at.field[RATE])
           /\ DBM_ANTSIGNAL \in DOMAIN at.field /\ o = at.field[DBM_ANTSIGNAL]
           => hdr.bytes[o] = Signal[m][n]
  <2>1. hdr.bytes = [o \in 0..(at.len - 1) |->
          CASE RATE \in DOMAIN at.field /\ o = at.field[RATE] -> Rate[m][n]
            [] DBM_ANTSIGNAL \in DOMAIN at.field /\ o = at.field[DBM_ANTSIGNAL] -> Signal[m][n]
            [] OTHER -> 255]
    BY DEF Tap
  <2> HIDE DEF hdr, at
  <2> SUFFICES ASSUME NEW o \in 0..(at.len - 1)
      PROVE  /\ RATE \in DOMAIN at.field /\ o = at.field[RATE] => hdr.bytes[o] = Rate[m][n]
             /\ /\ ~(RATE \in DOMAIN at.field /\ o = at.field[RATE])
                /\ DBM_ANTSIGNAL \in DOMAIN at.field /\ o = at.field[DBM_ANTSIGNAL]
                => hdr.bytes[o] = Signal[m][n]
    OBVIOUS
  <2>2. hdr.bytes[o] =
          CASE RATE \in DOMAIN at.field /\ o = at.field[RATE] -> Rate[m][n]
            [] DBM_ANTSIGNAL \in DOMAIN at.field /\ o = at.field[DBM_ANTSIGNAL] -> Signal[m][n]
            [] OTHER -> 255
    BY <2>1
  <2>3. CASE RATE \in DOMAIN at.field /\ o = at.field[RATE]
    <3>1. CASE ~(DBM_ANTSIGNAL \in DOMAIN at.field /\ o = at.field[DBM_ANTSIGNAL])
      BY <2>2, <2>3, <3>1
    <3>2. CASE DBM_ANTSIGNAL \in DOMAIN at.field /\ o = at.field[DBM_ANTSIGNAL]
      BY <1>1, <2>3, <3>2, FieldsApart
    <3> QED
      BY <3>1, <3>2
  <2>4. CASE ~(RATE \in DOMAIN at.field /\ o = at.field[RATE])
    BY <2>2, <2>4
  <2> QED
    BY <2>3, <2>4
<1> HIDE DEF hdr, at
<1>4. ASSUME NEW f \in DOMAIN at.field
      PROVE  /\ Kept(hdr, f) = hdr.bytes[at.field[f]]
             /\ at.field[f] \in 0..(at.len - 1)
  <2>1. \A g \in DOMAIN at.field : NextBefore(hdr)[g + 1] <= hdr.len
    BY <1>1, <1>2, WalkIsStandard DEF Standard
  <2>2. Returned(hdr, f)
    BY <1>2, <2>1 DEF Returned
  <2>3. Arg(hdr, f) = hdr.bytes[at.field[f]]
    BY <1>1, <1>2, WalkIsStandard DEF Arg
  <2>4. at.field[f] \in 0..(at.len - 1)
    <3>1. at.field[f] \in Nat /\ at.len \in Nat /\ at.field[f] + rt_sizes[f].size <= at.len
      BY <1>1 DEF Standard
    <3>2. rt_sizes[f].size \in Nat \ {0}
      BY <1>1, Sizes DEF Standard
    <3> QED
      BY <3>1, <3>2
  <2> QED
    BY <2>2, <2>3, <2>4 DEF Kept
<1>5. ASSUME NEW f, f \notin DOMAIN at.field PROVE Kept(hdr, f) = 0
  BY <1>2, <1>5 DEF Kept, Returned
<1>6. CASE RATE \in DOMAIN at.field
  <2>1. Kept(hdr, RATE) = Rate[m][n]
    BY <1>3, <1>4, <1>6
  <2>2. CASE DBM_ANTSIGNAL \in DOMAIN at.field
    <3>1. at.field[RATE] # at.field[DBM_ANTSIGNAL]
      BY <1>1, <1>6, <2>2, FieldsApart
    <3>2. Kept(hdr, DBM_ANTSIGNAL) = Signal[m][n]
      BY <1>3, <1>4, <2>2, <3>1
    <3> QED
      BY <1>6, <2>1, <2>2, <3>2 DEF Given, hdr, at
  <2>3. CASE DBM_ANTSIGNAL \notin DOMAIN at.field
    BY <1>5, <1>6, <2>1, <2>3 DEF Given, hdr, at
  <2> QED
    BY <2>2, <2>3
<1>7. CASE RATE \notin DOMAIN at.field
  <2>1. Kept(hdr, RATE) = 0
    BY <1>5, <1>7
  <2>2. CASE DBM_ANTSIGNAL \in DOMAIN at.field
    <3>1. Kept(hdr, DBM_ANTSIGNAL) = Signal[m][n]
      BY <1>3, <1>4, <1>7, <2>2
    <3> QED
      BY <1>7, <2>1, <2>2, <3>1 DEF Given, hdr, at
  <2>3. CASE DBM_ANTSIGNAL \notin DOMAIN at.field
    BY <1>5, <1>7, <2>1, <2>3 DEF Given, hdr, at
  <2> QED
    BY <2>2, <2>3
<1> QED
  BY <1>6, <1>7

-----------------------------------------------------------------------------
(* The filter.                                                             *)

LEMMA FrameFields ==
  ASSUME NEW n \in Node, NEW p, p.kind \in {"evallink", "unicast"}
  PROVE  /\ Frame(n, p).tap = Tap(n, p.from)
         /\ Frame(n, p).stamp = p.stamp
         /\ Frame(n, p).stamped = (n \notin Unstamped)
         /\ PayloadLen(Frame(n, p)) = 40
<1> DEFINE f == Proper(n, p)
<1>1. CASE p.kind = "evallink"
  <2>1. Frame(n, p) = f
    BY <1>1 DEF Frame
  <2> QED
    BY <2>1 DEF Proper, PayloadLen, Footer, QosField
<1>2. CASE p.kind = "unicast"
  <2>1. Frame(n, p) = [f EXCEPT !.da = n, !.dst = n, !.qos = TRUE, !.body = 46]
    BY <1>2 DEF Frame
  <2>2. /\ Frame(n, p).tap = f.tap /\ Frame(n, p).stamp = f.stamp
        /\ Frame(n, p).stamped = f.stamped
        /\ Frame(n, p).qos = TRUE /\ Frame(n, p).body = 46
    BY <2>1 DEF Proper
  <2> QED
    BY <2>2 DEF Proper, PayloadLen, Footer, QosField
<1> QED
  BY <1>1, <1>2

\* What is not for evallink does not come to it, and only an empty datagram
\* or a shorter one fails the assertion on the length.
LEMMA Filtered ==
  ASSUME NEW n \in Node, NEW p, p.kind \in {"evallink"} \cup Foreign
  PROVE  /\ Verdict(StationOf(n), Frame(n, p)) = "consume" =>
              p.kind \in {"evallink", "unicast"}
         /\ Verdict(StationOf(n), Frame(n, p)) = "abort" => p.kind \in NoData
<1> DEFINE f == Proper(n, p)  g == Frame(n, p)  st == StationOf(n)
<1>1. CASE p.kind \in {"evallink", "unicast"}
  <2>1. PayloadLen(g) = 40
    BY <1>1, FrameFields
  <2> QED
    BY <1>1, <2>1 DEF Verdict
<1>2. CASE p.kind = "empty"
  <2>1. g = [f EXCEPT !.body = 4, !.announced = 0]
    BY <1>2 DEF Frame
  <2>2. g.body = 4 /\ g.qos = FALSE
    BY <2>1 DEF Proper
  <2>3. PayloadLen(g) = (4 - 0) - 4
    BY <2>2 DEF PayloadLen, Footer, QosField
  <2> QED
    BY <1>2, <2>3 DEF Verdict, NoData
<1>16. CASE p.kind = "runt"
  <2>1. g = [f EXCEPT !.body = 2, !.announced = -2]
    BY <1>16 DEF Frame
  <2>2. g.body = 2 /\ g.qos = FALSE
    BY <2>1 DEF Proper
  <2>3. PayloadLen(g) = (2 - 0) - 4
    BY <2>2 DEF PayloadLen, Footer, QosField
  <2> QED
    BY <1>16, <2>3 DEF Verdict, NoData
<1>3. ASSUME ~Passes(st, g) PROVE Verdict(st, g) = "return"
  BY <1>3 DEF Verdict
<1>4. CASE p.kind = "magic"
  <2>1. g = [f EXCEPT !.magic = FALSE]
    BY <1>4 DEF Frame
  <2>2. g.magic = FALSE
    BY <2>1 DEF Proper
  <2> QED
    BY <1>3, <2>2 DEF Passes
<1>5. CASE p.kind = "tapver"
  <2>1. g = [f EXCEPT !.tap.version = 1]
    BY <1>5 DEF Frame
  <2>2. g.tap = [f.tap EXCEPT !.version = 1] /\ f.tap = Tap(n, p.from)
    BY <2>1 DEF Proper
  <2>3. g.tap.version = 1
    BY <2>2 DEF Tap
  <2> QED
    BY <1>3, <2>3 DEF Passes, iterator_init
<1>6. CASE p.kind = "short"
  <2>1. g = [f EXCEPT !.body = -1, !.announced = -5]
    BY <1>6 DEF Frame
  <2>2. g.body = -1
    BY <2>1 DEF Proper
  <2> QED
    BY <1>3, <2>2 DEF Passes
<1>7. CASE p.kind = "control"
  <2>1. g = [f EXCEPT !.type = "control"]
    BY <1>7 DEF Frame
  <2>2. g.type = "control"
    BY <2>1 DEF Proper
  <2> QED
    BY <1>3, <2>2 DEF Passes
<1>8. CASE p.kind = "other"
  <2>1. g = [f EXCEPT !.da = "other", !.dst = "other"]
    BY <1>8 DEF Frame
  <2>2. g.da = "other" /\ st.groupMac = "33:33" /\ st.hw_addr = n /\ n # "other"
    BY <2>1, EvallinkAssumption DEF Proper, StationOf
  <2>3. ~IsDestination(st, g)
    BY <2>2 DEF IsDestination, Match
  <2> QED
    BY <1>3, <2>3 DEF Passes
<1>9. CASE p.kind = "group"
  <2>1. g = [f EXCEPT !.dst = "ff05::2"]
    BY <1>9 DEF Frame
  <2>2. /\ g.da = "33:33" /\ g.dst = "ff05::2"
        /\ st.groupMac = "33:33" /\ st.multicast = "ff02::2"
    BY <2>1 DEF Proper, StationOf
  <2>3. ~IsDestination(st, g)
    BY <2>2 DEF IsDestination, Match
  <2> QED
    BY <1>3, <2>3 DEF Passes
<1>10. CASE p.kind = "damaged"
  <2>1. g = [f EXCEPT !.crc = FALSE]
    BY <1>10 DEF Frame
  <2>2. g.crc = FALSE
    BY <2>1 DEF Proper
  <2> QED
    BY <1>3, <2>2 DEF Passes
<1>11. CASE p.kind = "ipv4"
  <2>1. g = [f EXCEPT !.ethertype = "ipv4"]
    BY <1>11 DEF Frame
  <2>2. g.ethertype = "ipv4"
    BY <2>1 DEF Proper
  <2> QED
    BY <1>3, <2>2 DEF Passes
<1>12. CASE p.kind = "tcp"
  <2>1. g = [f EXCEPT !.next = "tcp"]
    BY <1>12 DEF Frame
  <2>2. g.next = "tcp"
    BY <2>1 DEF Proper
  <2> QED
    BY <1>3, <2>2 DEF Passes
<1>13. CASE p.kind = "port"
  <2>1. g = [f EXCEPT !.dst_port = 9]
    BY <1>13 DEF Frame
  <2>2. g.dst_port = 9 /\ st.port = 10102
    BY <2>1 DEF Proper, StationOf
  <2> QED
    BY <1>3, <2>2 DEF Passes
<1>14. CASE p.kind = "length"
  <2>1. g = [f EXCEPT !.announced = 400]
    BY <1>14 DEF Frame
  <2>2. g.announced = 400 /\ g.body = 44 /\ g.qos = FALSE
    BY <2>1 DEF Proper
  <2>3. PayloadLen(g) = 40
    BY <2>2 DEF PayloadLen, Footer, QosField
  <2> QED
    BY <1>3, <2>2, <2>3 DEF Passes
<1> HIDE DEF g, st
<1>15. p.kind \in {"evallink", "unicast", "empty", "runt", "magic", "tapver", "short", "control",
                   "other", "group", "damaged", "ipv4", "tcp", "port", "length"}
  BY DEF Foreign
<1> QED
  BY <1>1, <1>2, <1>4, <1>5, <1>6, <1>7, <1>8, <1>9, <1>10, <1>11, <1>12, <1>13,
     <1>14, <1>15, <1>16 DEF g, st

-----------------------------------------------------------------------------
(* The tables.                                                             *)

LEMMA Appended ==
  ASSUME NEW T, NEW s \in Seq(T), NEW e \in T
  PROVE  /\ Append(s, e) \in Seq(T) /\ Len(s) \in Nat
         /\ Len(Append(s, e)) = Len(s) + 1
         /\ \A i \in 1..(Len(s) + 1) : Append(s, e)[i] = IF i <= Len(s) THEN s[i] ELSE e
  OBVIOUS

LEMMA Domains == ASSUME NEW T, NEW s \in Seq(T)
  PROVE  DOMAIN s = 1..Len(s) /\ Len(s) \in Nat
  OBVIOUS

\* A function on 1..n is a sequence.
LEMMA Mapped ==
  ASSUME NEW T, NEW n \in Nat, NEW s \in [1..n -> T]
  PROVE  s \in Seq(T) /\ Len(s) = n
  OBVIOUS

\* The rows of new are those of table, in their places, but for that of row.
IncWith(table, row, new) ==
  /\ new \in Seq(Row) /\ Len(new) <= LINE_NB /\ Len(table) <= Len(new)
  /\ OneRow(new)
  /\ \A i \in 1..Len(new) : i <= Len(table) => new[i].ip = table[i].ip
  /\ \A i \in 1..Len(new) : i > Len(table) => new[i] = row
  /\ \A i \in 1..Len(new) : new[i] = row \/ (i <= Len(table) /\ new[i] = table[i])
  /\ Len(new) < LINE_NB => \E i \in 1..Len(new) : new[i].ip = row.ip

LEMMA IncTable ==
  ASSUME NEW table \in Seq(Row), Len(table) <= LINE_NB, OneRow(table), NEW row \in Row,
         NEW new, new = Inc(table, row)
  PROVE  IncWith(table, row, new)
<1> USE DEF IncWith
<1>1. DOMAIN table = 1..Len(table) /\ Len(table) \in Nat /\ LINE_NB \in Nat
  BY Domains, EvallinkAssumption
<1> DEFINE known == {i \in 1..Len(table) : table[i].ip = row.ip}
<1>2. CASE known # {}
  <2>1. new = [i \in 1..Len(table) |-> IF i \in known THEN row ELSE table[i]]
    BY <1>1, <1>2 DEF Inc
  <2>2. new \in [1..Len(table) -> Row]
    BY <2>1
  <2>3. new \in Seq(Row) /\ Len(new) = Len(table)
    BY <1>1, <2>2, Mapped
  <2>4. \A i \in 1..Len(table) : new[i] = IF i \in known THEN row ELSE table[i]
    BY <2>1
  <2>5. \A i \in 1..Len(table) : new[i].ip = table[i].ip
    BY <2>4
  <2>6. OneRow(new)
    BY <2>3, <2>5 DEF OneRow
  <2>7. PICK i \in 1..Len(table) : table[i].ip = row.ip
    BY <1>2
  <2>8. i \in 1..Len(new) /\ new[i].ip = row.ip
    BY <2>3, <2>5, <2>7
  <2> QED
    BY <1>1, <2>3, <2>4, <2>5, <2>6, <2>8
<1>3. CASE known = {} /\ Len(table) < LINE_NB
  <2>1. new = Append(table, row)
    BY <1>1, <1>3 DEF Inc
  <2>2. /\ new \in Seq(Row) /\ Len(new) = Len(table) + 1
        /\ \A i \in 1..(Len(table) + 1) : new[i] = IF i <= Len(table) THEN table[i] ELSE row
    BY <2>1, Appended
  <2>3. \A i \in 1..Len(table) : table[i].ip # row.ip
    BY <1>3
  <2>4. OneRow(new)
    <3> SUFFICES ASSUME NEW i \in 1..(Len(table) + 1), NEW j \in 1..(Len(table) + 1),
                        new[i].ip = new[j].ip
                 PROVE  i = j
      BY <2>2 DEF OneRow
    <3>1. CASE i <= Len(table) /\ j <= Len(table)
      <4>1. i \in 1..Len(table) /\ j \in 1..Len(table)
        BY <1>1, <3>1
      <4> QED
        BY <2>2, <3>1, <4>1 DEF OneRow
    <3>2. CASE i <= Len(table) /\ ~(j <= Len(table))
      <4>1. i \in 1..Len(table)
        BY <1>1, <3>2
      <4> QED
        BY <2>2, <2>3, <3>2, <4>1
    <3>3. CASE ~(i <= Len(table)) /\ j <= Len(table)
      <4>1. j \in 1..Len(table)
        BY <1>1, <3>3
      <4> QED
        BY <2>2, <2>3, <3>3, <4>1
    <3>4. CASE ~(i <= Len(table)) /\ ~(j <= Len(table))
      BY <1>1, <3>4
    <3> QED
      BY <3>1, <3>2, <3>3, <3>4
  <2>5. Len(table) + 1 \in 1..Len(new) /\ new[Len(table) + 1] = row
    BY <1>1, <2>2
  <2>6. Len(new) <= LINE_NB /\ Len(table) <= Len(new)
    BY <1>1, <1>3, <2>2
  <2> QED
    BY <1>1, <2>2, <2>4, <2>5, <2>6
<1>4. CASE known = {} /\ ~(Len(table) < LINE_NB)
  <2>1. new = table
    BY <1>1, <1>4 DEF Inc
  <2> QED
    BY <1>1, <1>4, <2>1
<1> QED
  BY <1>2, <1>3, <1>4

LEMMA Least == ASSUME NEW S, S \subseteq Nat, S # {}
  PROVE  \E i \in S : \A j \in S : i <= j
<1>1. IsWellFoundedOn(OpToRel(<, Nat), Nat)
  BY NatLessThanWellFounded
<1>2. PICK x \in S : \A y \in S : ~(<<y, x>> \in OpToRel(<, Nat))
  BY <1>1, WFMin
<1>3. \A y \in S : ~(y < x)
  BY <1>2 DEF OpToRel
<1> QED
  BY <1>3

\* What becomes of a table out: the row takes the place of another one, whose
\* row of inc is the sender's, or the first free one.
OutWith(table, incoming, row, new) ==
  /\ new \in Seq(Row) /\ Len(new) <= LINE_NB
  /\ \/ new = table
     \/ new = Append(table, row)
     \/ \E i \in 1..Len(table) :
          /\ i <= Len(incoming) /\ incoming[i].ip = row.ip
          /\ Len(new) = Len(table)
          /\ new[i] = [row EXCEPT !.ip = table[i].ip]
          /\ \A j \in 1..Len(table) : j # i => new[j] = table[j]

LEMMA OutTable ==
  ASSUME NEW table \in Seq(Row), Len(table) <= LINE_NB, NEW incoming, NEW row \in Row,
         NEW new, new = Out(table, incoming, row)
  PROVE  OutWith(table, incoming, row, new)
<1> USE DEF OutWith
<1> DEFINE fits == {i \in 1..LINE_NB : \/ i > Len(table)
                                       \/ i <= Len(incoming) /\ incoming[i].ip = row.ip}
           first == CHOOSE i \in fits : \A j \in fits : i <= j
<1>1. DOMAIN table = 1..Len(table) /\ Len(table) \in Nat /\ LINE_NB \in Nat
  BY Domains, EvallinkAssumption
<1>2. CASE fits = {}
  <2>1. new = table
    BY <1>2 DEF Out
  <2> QED
    BY <2>1
<1>3. CASE fits # {}
  <2>1. \E i \in fits : \A j \in fits : i <= j
    <3>1. fits \subseteq Nat
      OBVIOUS
    <3> HIDE DEF fits
    <3> QED
      BY <1>3, <3>1, Least
  <2>2. first \in fits
    <3> HIDE DEF fits
    <3> QED
      BY <2>1
  <2>3. CASE first > Len(table)
    <3>1. new = Append(table, row)
      BY <1>3, <2>3 DEF Out
    <3>2. Len(table) < LINE_NB
      <4>1. first \in 1..LINE_NB
        BY <2>2
      <4> HIDE DEF first
      <4> QED
        BY <1>1, <2>3, <4>1
    <3>3. new \in Seq(Row) /\ Len(new) = Len(table) + 1
      BY <3>1, Appended
    <3> QED
      BY <1>1, <3>1, <3>2, <3>3
  <2>4. CASE ~(first > Len(table))
    <3>1. new = [table EXCEPT ![first] = [row EXCEPT !.ip = table[first].ip]]
      BY <1>3, <2>4 DEF Out
    <3>2. /\ first \in 1..LINE_NB
          /\ first > Len(table) \/ (first <= Len(incoming) /\ incoming[first].ip = row.ip)
      BY <2>2
    <3> HIDE DEF first
    <3>3. first \in 1..Len(table)
      BY <1>1, <2>4, <3>2
    <3>4. [row EXCEPT !.ip = table[first].ip] \in Row
      <4>1. table[first] \in Row
        BY <3>3
      <4> QED
        BY <4>1 DEF Row
    <3>5. /\ new \in Seq(Row) /\ Len(new) = Len(table)
          /\ new[first] = [row EXCEPT !.ip = table[first].ip]
          /\ \A j \in 1..Len(table) : j # first => new[j] = table[j]
      <4>1. \A r \in Row : /\ [table EXCEPT ![first] = r] \in Seq(Row)
                           /\ Len([table EXCEPT ![first] = r]) = Len(table)
                           /\ [table EXCEPT ![first] = r][first] = r
                           /\ \A j \in 1..Len(table) : j # first =>
                                [table EXCEPT ![first] = r][j] = table[j]
        BY <3>3
      <4> QED
        BY <3>1, <3>4, <4>1
    <3> QED
      BY <2>4, <3>2, <3>3, <3>5
  <2> QED
    BY <2>3, <2>4
<1> QED
  BY <1>2, <1>3

-----------------------------------------------------------------------------
(* Sending.                                                                *)

\* What a packet does to the socket buffers.
LEMMA Delivered ==
  ASSUME Types, NEW by, NEW p \in Message, Heard(by, p)
  PROVE  /\ socket' \in [Node -> Seq(Message)]
         /\ \A n \in Node :
              /\ Len(socket'[n]) <= SockBuf
              /\ \/ socket'[n] = socket[n]
                 \/ /\ n \in by
                    /\ [p EXCEPT !.stamp = CLOCK_REALTIME(n)] \in Message
                    /\ socket'[n] = Append(socket[n], [p EXCEPT !.stamp = CLOCK_REALTIME(n)])
<1>1. ASSUME NEW n \in Node
      PROVE  [p EXCEPT !.stamp = CLOCK_REALTIME(n)] \in Message
  <2>1. now - back[n] \in Int
    <3>1. now \in Int /\ back[n] \in {0, Back} /\ Back \in Int
      BY EvallinkAssumption DEF Types
    <3> QED
      BY <3>1
  <2>2. CLOCK_REALTIME(n) \in Stamp
    BY <2>1, TimespecIsStamp DEF CLOCK_REALTIME
  <2> QED
    BY <2>2 DEF Message
<1>2. ASSUME NEW n \in Node
      PROVE  /\ socket'[n] \in Seq(Message) /\ Len(socket'[n]) <= SockBuf
             /\ \/ socket'[n] = socket[n]
                \/ /\ n \in by
                   /\ socket'[n] = Append(socket[n], [p EXCEPT !.stamp = CLOCK_REALTIME(n)])
  <2>1. /\ socket[n] \in Seq(Message) /\ Len(socket[n]) <= SockBuf
        /\ Len(socket[n]) \in Nat /\ SockBuf \in Nat
    BY EvallinkAssumption DEF Types
  <2>2. CASE n \in by /\ Len(socket[n]) < SockBuf
    <3>1. socket'[n] = Append(socket[n], [p EXCEPT !.stamp = CLOCK_REALTIME(n)])
      BY <2>2 DEF Heard
    <3>2. socket'[n] \in Seq(Message) /\ Len(socket'[n]) = Len(socket[n]) + 1
      <4>1. PICK q : q = [p EXCEPT !.stamp = CLOCK_REALTIME(n)]
        OBVIOUS
      <4>2. q \in Message
        BY <1>1, <4>1
      <4> QED
        BY <2>1, <3>1, <4>1, <4>2, Appended
    <3> QED
      BY <2>1, <2>2, <3>1, <3>2
  <2>3. CASE ~(n \in by /\ Len(socket[n]) < SockBuf)
    <3>1. socket'[n] = socket[n]
      BY <2>3 DEF Heard
    <3> QED
      BY <2>1, <3>1
  <2> QED
    BY <2>2, <2>3
<1>3. socket' \in [Node -> Seq(Message)]
  BY <1>2 DEF Heard
<1> QED
  BY <1>1, <1>2, <1>3

\* The message of send_cb.
Broadcast(n) ==
  [kind |-> "evallink", from |-> n, stamp |-> Timespec(0), sent |-> now,
   heard |-> now, rows |-> [i \in DOMAIN inc[n] |-> Aged(n, inc[n][i])]]

LEMMA BroadcastRows ==
  ASSUME Types, NEW n \in Node
  PROVE  /\ Broadcast(n) \in Message
         /\ Len(Broadcast(n).rows) = Len(inc[n])
         /\ \A j \in 1..Len(inc[n]) : Broadcast(n).rows[j] = Aged(n, inc[n][j])
<1> DEFINE rows == [i \in DOMAIN inc[n] |-> Aged(n, inc[n][i])]
<1>1. /\ inc[n] \in Seq(Row) /\ DOMAIN inc[n] = 1..Len(inc[n]) /\ Len(inc[n]) \in Nat
      /\ \A i \in 1..Len(inc[n]) : inc[n][i] \in Row
  BY DEF Types
<1>2. \A i \in 1..Len(inc[n]) : Aged(n, inc[n][i]) \in Row
  BY <1>1, AgedRow
<1>3. rows \in [1..Len(inc[n]) -> Row] /\ \A j \in 1..Len(inc[n]) : rows[j] = Aged(n, inc[n][j])
  BY <1>1, <1>2
<1> HIDE DEF rows
<1>4. rows \in Seq(Row) /\ Len(rows) = Len(inc[n])
  BY <1>1, <1>3, Mapped
<1>5. Timespec(0) \in Stamp /\ now \in Int /\ now \in Nat /\ n \in Station
  BY TimespecIsStamp, EvallinkAssumption DEF Types, Station
<1>6. Broadcast(n) = [kind |-> "evallink", from |-> n, stamp |-> Timespec(0), sent |-> now,
                      heard |-> now, rows |-> rows]
  BY DEF Broadcast, rows
<1>7. Broadcast(n) \in Message
  BY <1>4, <1>5, <1>6 DEF Message
<1> QED
  BY <1>3, <1>4, <1>6, <1>7

\* The rows on the air are those of the sender, with their true ages.
LEMMA BroadcastGenuine ==
  ASSUME Types, IncInv, NEW n \in Node, NEW m \in Node,
         NEW q, q = [Broadcast(n) EXCEPT !.stamp = CLOCK_REALTIME(m)]
  PROVE  Genuine(m, q)
<1>1. /\ q.kind = "evallink" /\ q.from = n /\ q.sent = now /\ q.heard = now
      /\ q.rows = Broadcast(n).rows /\ q.stamp = Timespec(now - back[m])
  BY BroadcastRows DEF Broadcast, CLOCK_REALTIME
<1>2. n \notin Strangers /\ now \in Nat
  BY EvallinkAssumption DEF Types
<1>3. ASSUME NEW j \in 1..Len(q.rows)
      PROVE  /\ inc[n][j] \in Row /\ IncRow(n, inc[n][j])
             /\ q.rows[j] = Aged(n, inc[n][j])
             /\ q.rows[j].ip = inc[n][j].ip /\ q.rows[j].db = inc[n][j].db
             /\ q.rows[j].heard = inc[n][j].heard
             /\ Ticks(q.rows[j].stamp) = now - back[n] - Ticks(inc[n][j].stamp)
  <2>1. j \in 1..Len(inc[n])
    BY <1>1, BroadcastRows
  <2>2. inc[n][j] \in Row /\ IncRow(n, inc[n][j])
    BY <2>1 DEF Types, IncInv
  <2>3. q.rows[j] = Aged(n, inc[n][j])
    BY <1>1, <2>1, BroadcastRows
  <2> QED
    BY <2>2, <2>3, AgedRow
<1>4. ASSUME NEW j \in 1..Len(q.rows), Given(n, DBM_ANTSIGNAL)
      PROVE  q.rows[j].db = Signal[q.rows[j].ip][n]
  BY <1>3, <1>4 DEF IncRow, Measured
<1>5. ASSUME NEW j \in 1..Len(q.rows), n \notin Unstamped, back[n] = 0
      PROVE  Ticks(q.rows[j].stamp) = now - q.rows[j].heard
  <2>1. inc[n][j].stamp = Timespec(inc[n][j].heard) /\ inc[n][j].heard \in Int
    BY <1>3, <1>5 DEF IncRow, Row
  <2>2. Ticks(inc[n][j].stamp) = inc[n][j].heard
    BY <2>1, TimespecIsStamp
  <2> QED
    BY <1>2, <1>3, <1>5, <2>1, <2>2
<1>6. back[m] = 0 => q.stamp = Timespec(q.heard)
  BY <1>1, <1>2
<1> QED
  BY <1>1, <1>2, <1>4, <1>5, <1>6 DEF Genuine

\* The frame of a stranger.
LEMMA StrangerGenuine ==
  ASSUME Types, NEW m \in Strangers, noise' = [noise EXCEPT ![m] = "some"],
         UNCHANGED <<now, back>>,
         NEW n \in Node, NEW rows \in {<<>>, <<JustHeard(n, m)>>},
         NEW p, p = [kind |-> "noise", from |-> m, stamp |-> Timespec(0),
                     sent |-> now, heard |-> now, rows |-> rows],
         NEW q, q = [p EXCEPT !.stamp = CLOCK_REALTIME(n)]
  PROVE  p \in Message /\ q.from = m /\ Genuine(n, q)'
<1>1. /\ q.kind = "noise" /\ q.from = m /\ q.heard = now /\ q.rows = rows
      /\ q.stamp = Timespec(now - back[n])
  BY DEF CLOCK_REALTIME
<1>2. /\ m \notin Node /\ m \in Station /\ n \in Station /\ noise'[m] = "some" /\ now \in Nat
      /\ now' = now /\ back'[n] = back[n]
  BY EvallinkAssumption DEF Types, Station
<1>3. /\ JustHeard(n, m) \in Row
      /\ JustHeard(n, m).db = Signal[n][m] /\ JustHeard(n, m).ip = n
  <2>1. Signal[n][m] \in Int /\ Rate[n][m] \in Int
    BY <1>2, EvallinkAssumption
  <2>2. Timespec(0) \in Stamp
    BY TimespecIsStamp
  <2> QED
    BY <1>2, <2>1, <2>2 DEF JustHeard, Row, Stamp
<1>4. /\ rows \in Seq(Row)
      /\ \A j \in 1..Len(rows) : rows[j].db = Signal[rows[j].ip][m]
  <2>1. CASE rows = <<>>
    BY <2>1
  <2>2. CASE rows = <<JustHeard(n, m)>>
    <3>1. PICK r : r = JustHeard(n, m)
      OBVIOUS
    <3>2. <<r>> \in Seq(Row) /\ Len(<<r>>) = 1 /\ <<r>>[1] = r
      BY <1>3, <3>1
    <3> QED
      BY <1>3, <2>2, <3>1, <3>2
  <2> QED
    BY <2>1, <2>2
<1>5. p \in Message
  BY <1>2, <1>4, TimespecIsStamp DEF Message
<1>6. back'[n] = 0 => q.stamp = Timespec(q.heard)
  BY <1>1, <1>2
<1> QED
  BY <1>1, <1>2, <1>4, <1>5, <1>6 DEF Genuine

-----------------------------------------------------------------------------
(* Receiving.                                                              *)

\* A message in flight remains genuine when only other strangers are heard,
\* time passes and clocks are set back.
LEMMA StillGenuine ==
  ASSUME Types, Types', NEW n \in Node, NEW q \in Message, Genuine(n, q), now <= now',
         \A m \in Node : back'[m] = 0 => back[m] = 0,
         q.from \in Strangers => noise'[q.from] = noise[q.from]
  PROVE  Genuine(n, q)'
<1>1. q.heard <= now'
  BY DEF Genuine, Types, Message
<1> QED
  BY <1>1 DEF Genuine

\* The packet that n reads, once it is known what it is.
Incoming(n, p) ==
  /\ p.kind \in {"evallink"} \cup Foreign
  /\ p.from = Head(socket[n]).from /\ p.heard = Head(socket[n]).heard
  /\ p.rows = Head(socket[n]).rows /\ p.stamp = Head(socket[n]).stamp
  /\ p.from \in Strangers <=> p.kind # "evallink"
  /\ \/ /\ p.kind \in {"evallink", "unicast"} /\ consume_data(n, p)
     \/ UNCHANGED <<state, inc, out>>
     \/ p.kind \in NoData /\ Abort(n)
  /\ noise' = IF p.kind = "unicast" THEN [noise EXCEPT ![p.from] = "unicast"]
              ELSE IF p.kind \in NoData THEN [noise EXCEPT ![p.from] = "empty"]
              ELSE noise

LEMMA HeadOfSocket ==
  ASSUME Types, NEW n \in Node, socket[n] # <<>>
  PROVE  /\ 1 \in 1..Len(socket[n]) /\ Head(socket[n]) = socket[n][1]
         /\ Head(socket[n]) \in Message
         /\ Tail(socket[n]) \in Seq(Message) /\ Len(Tail(socket[n])) = Len(socket[n]) - 1
         /\ Len(socket[n]) \in Nat /\ Len(socket[n]) >= 1
         /\ \A i \in 1..(Len(socket[n]) - 1) : Tail(socket[n])[i] = socket[n][i + 1]
<1>1. socket[n] \in Seq(Message)
  BY DEF Types
<1> QED
  BY <1>1

LEMMA Listened ==
  ASSUME EInv, NEW n \in Node, listen_cb(n)
  PROVE  \E p : Incoming(n, p)
<1> DEFINE h == Head(socket[n])
<1>1. h \in Message /\ Genuine(n, h)
  BY HeadOfSocket DEF listen_cb, EInv, InFlight
<1>2. PICK p \in Read(h) :
        /\ \/ Verdict(StationOf(n), Frame(n, p)) = "consume" /\ consume_data(n, p)
           \/ Verdict(StationOf(n), Frame(n, p)) = "return" /\ UNCHANGED <<state, inc, out>>
           \/ Verdict(StationOf(n), Frame(n, p)) = "abort" /\ Abort(n)
        /\ noise' = IF p.kind = "unicast" THEN [noise EXCEPT ![p.from] = "unicast"]
                    ELSE IF p.kind \in NoData THEN [noise EXCEPT ![p.from] = "empty"]
                    ELSE noise
  BY DEF listen_cb
<1> HIDE DEF h
<1>3. /\ p.kind \in {"evallink"} \cup Foreign
      /\ p.from = h.from /\ p.heard = h.heard /\ p.rows = h.rows /\ p.stamp = h.stamp
      /\ p.from \in Strangers <=> p.kind # "evallink"
  <2>1. CASE h.kind = "noise"
    <3>1. PICK k \in Noise : p = [h EXCEPT !.kind = k]
      BY <1>2, <2>1 DEF Read
    <3>2. k \in Foreign /\ k # "evallink"
      BY EvallinkAssumption DEF Foreign
    <3>3. /\ p.kind = k /\ p.from = h.from /\ p.heard = h.heard
          /\ p.rows = h.rows /\ p.stamp = h.stamp
      BY <1>1, <3>1 DEF Message
    <3> QED
      BY <1>1, <2>1, <3>2, <3>3 DEF Genuine
  <2>2. CASE h.kind = "evallink"
    <3>1. p = h
      BY <1>2, <2>2 DEF Read
    <3> QED
      BY <1>1, <2>2, <3>1 DEF Genuine
  <2> QED
    BY <1>1, <2>1, <2>2 DEF Message
<1>4. \/ p.kind \in {"evallink", "unicast"} /\ consume_data(n, p)
      \/ UNCHANGED <<state, inc, out>>
      \/ p.kind \in NoData /\ Abort(n)
  BY <1>2, <1>3, Filtered
<1> QED
  BY <1>2, <1>3, <1>4 DEF Incoming, h

\* What consume_data does with a message of another station: a row for inc,
\* with the values of this link, and maybe one for out, from the sender's inc.
Learns(n, from) ==
  \E row \in Row :
    /\ row.ip = from /\ from # n /\ IncRow(n, row)'
    /\ inc' = [inc EXCEPT ![n] = Inc(inc[n], row)]
    /\ \/ out' = out
       \/ \E r \in Row :
            /\ r.ip = from
            /\ Given(from, DBM_ANTSIGNAL) => r.db = Signal[n][from]
            /\ out' = [out EXCEPT ![n] = Out(out[n], Inc(inc[n], row), r)]
    /\ state' = [state EXCEPT ![n] = IF n \in Shown /\ CannotAge(n, Inc(inc[n], row))
                                     THEN "aborted" ELSE state[n]]

LEMMA Consumption ==
  ASSUME EInv, NEW n \in Node, listen_cb(n), NEW p, Incoming(n, p),
         p.kind \in {"evallink", "unicast"}, consume_data(n, p), p.from # n
  PROVE  Learns(n, p.from)
<1> DEFINE h == Head(socket[n])
           f == Frame(n, p)
           row == [ip |-> p.from, db |-> signal(f), rate |-> rate(f), heard |-> p.heard,
                   stamp |-> StampOf(f, Timespec(now - Boot))]
<1>1. Types /\ h \in Message /\ Genuine(n, h)
  BY HeadOfSocket DEF listen_cb, EInv, InFlight
<1>2. now' = now /\ back' = back
  BY DEF listen_cb
<1> HIDE DEF h
<1>3. /\ p.from = h.from /\ p.heard = h.heard /\ p.rows = h.rows /\ p.stamp = h.stamp
      /\ p.from \in Station /\ p.heard \in Nat /\ p.rows \in Seq(Row) /\ p.stamp \in Stamp
  BY <1>1 DEF Incoming, Message, h
<1>4. /\ f.tap = Tap(n, p.from) /\ f.stamp = p.stamp /\ f.stamped = (n \notin Unstamped)
  BY FrameFields
<1>5. /\ signal(f) = IF Given(n, DBM_ANTSIGNAL) THEN Signal[p.from][n] ELSE 0
      /\ rate(f) = IF Given(n, RATE) THEN Rate[p.from][n] ELSE 0
  BY <1>3, <1>4, FieldsAreFound DEF signal, rate
<1>6. signal(f) \in Int /\ rate(f) \in Int
  <2>1. Signal[p.from][n] \in Int /\ Rate[p.from][n] \in Int
    BY <1>3, EvallinkAssumption DEF Station
  <2> QED
    BY <1>5, <2>1
<1>7. now \in Nat /\ now - Boot \in Int /\ now - Boot <= now
  BY <1>1, EvallinkAssumption DEF Types
<1>8. StampOf(f, Timespec(now - Boot)) = IF n \notin Unstamped THEN p.stamp
                                         ELSE Timespec(now - Boot)
  BY <1>4 DEF StampOf
<1>9. row \in Row
  BY <1>3, <1>6, <1>7, <1>8, TimespecIsStamp DEF Row, Stamp
<1>10. PICK w : w = row
  OBVIOUS
<1>11. IncRow(n, w)'
  <2>1. w.ip # n /\ w.ip = p.from /\ w.heard = p.heard
    BY <1>10
  <2>2. w.ip \in Strangers => noise'[w.ip] = "unicast"
    <3>1. SUFFICES ASSUME p.from \in Strangers PROVE noise'[p.from] = "unicast"
      BY <2>1
    <3>2. p.kind = "unicast"
      BY <3>1 DEF Incoming
    <3> QED
      BY <1>1, <3>1, <3>2 DEF Incoming, Types
  <2>3. Measured(n, w)
    BY <1>5, <1>10 DEF Measured
  <2>4. ASSUME back[n] = 0
        PROVE  /\ \E x \in Int : x <= now /\ w.stamp = Timespec(x)
               /\ n \notin Unstamped => w.stamp = Timespec(w.heard)
    <3>1. CASE n \notin Unstamped
      <4>1. w.stamp = Timespec(p.heard) /\ p.heard <= now
        BY <1>1, <1>3, <1>8, <1>10, <2>4, <3>1 DEF Genuine
      <4> QED
        BY <1>3, <2>1, <4>1
    <3>2. CASE n \in Unstamped
      <4>1. w.stamp = Timespec(now - Boot)
        BY <1>8, <1>10, <3>2
      <4> QED
        BY <1>7, <3>2, <4>1
    <3> QED
      BY <3>1, <3>2
  <2> QED
    BY <1>2, <2>1, <2>2, <2>3, <2>4 DEF IncRow, Measured, Timespec, Given
<1>12. /\ Consumed(n, p).inc = Inc(inc[n], w)
       /\ Consumed(n, p).out =
            IF n \in Shown /\ About(n, p) # {}
            THEN LET r == p.rows[CHOOSE i \in About(n, p) : TRUE]
                 IN Out(out[n], Inc(inc[n], w), [r EXCEPT !.ip = p.from])
            ELSE out[n]
  BY <1>10 DEF Consumed
<1>13. /\ inc' = [inc EXCEPT ![n] = Inc(inc[n], w)]
       /\ out' = [out EXCEPT ![n] = Consumed(n, p).out]
       /\ state' = [state EXCEPT ![n] = IF n \in Shown /\ CannotAge(n, Inc(inc[n], w))
                                        THEN "aborted" ELSE state[n]]
  BY <1>12 DEF consume_data
<1>14. \/ out' = out
       \/ \E r \in Row :
            /\ r.ip = p.from
            /\ Given(p.from, DBM_ANTSIGNAL) => r.db = Signal[n][p.from]
            /\ out' = [out EXCEPT ![n] = Out(out[n], Inc(inc[n], w), r)]
  <2>1. CASE n \in Shown /\ About(n, p) # {}
    <3> DEFINE i == CHOOSE j \in About(n, p) : TRUE
    <3>1. i \in About(n, p)
      BY <2>1
    <3>2. i \in 1..Len(p.rows) /\ p.rows[i].ip = n /\ p.rows[i] \in Row
      <4>1. i \in DOMAIN p.rows /\ p.rows[i].ip = n
        BY <3>1 DEF About
      <4>2. DOMAIN p.rows = 1..Len(p.rows) /\ \A j \in 1..Len(p.rows) : p.rows[j] \in Row
        BY <1>3
      <4> HIDE DEF i
      <4> QED
        BY <4>1, <4>2
    <3> HIDE DEF i
    <3>3. PICK r : r = [p.rows[i] EXCEPT !.ip = p.from]
      OBVIOUS
    <3>4. r \in Row /\ r.ip = p.from /\ r.db = p.rows[i].db
      BY <1>3, <3>2, <3>3 DEF Row
    <3>5. Given(p.from, DBM_ANTSIGNAL) => r.db = Signal[n][p.from]
      BY <1>1, <1>3, <3>2, <3>4 DEF Genuine
    <3>6. out' = [out EXCEPT ![n] = Out(out[n], Inc(inc[n], w), r)]
      BY <1>12, <1>13, <2>1, <3>3 DEF i
    <3> QED
      BY <3>4, <3>5, <3>6
  <2>2. CASE ~(n \in Shown /\ About(n, p) # {})
    BY <1>1, <1>12, <1>13, <2>2 DEF Types
  <2> QED
    BY <2>1, <2>2
<1> QED
  BY <1>9, <1>10, <1>11, <1>13, <1>14 DEF Learns

\* The outcomes of listen_cb for the station and for the stranger that was heard.
Outcome(n, from) ==
  /\ from \in Station
  /\ \/ UNCHANGED <<state, inc, out>>
     \/ Abort(n) /\ \E m \in Strangers : noise'[m] = "empty"
     \/ Learns(n, from)
  /\ \/ noise' = noise
     \/ from \in Strangers /\ \E k \in {"unicast", "empty"} : noise' = [noise EXCEPT ![from] = k]

LEMMA Listening ==
  ASSUME EInv, NEW n \in Node, listen_cb(n)
  PROVE  \E from : from = socket[n][1].from /\ Outcome(n, from)
<1>1. PICK p : Incoming(n, p)
  BY Listened
<1>2. p.from = socket[n][1].from /\ p.from \in Station
  BY <1>1, HeadOfSocket DEF Incoming, listen_cb, EInv, Message
<1>3. noise \in [Strangers -> {"none", "some", "unicast", "empty"}]
  BY DEF EInv, Types
<1>4. \/ noise' = noise
      \/ /\ p.from \in Strangers
         /\ \E k \in {"unicast", "empty"} : noise' = [noise EXCEPT ![p.from] = k]
  BY <1>1 DEF Incoming, NoData
<1>5. \/ UNCHANGED <<state, inc, out>>
      \/ Abort(n) /\ \E m \in Strangers : noise'[m] = "empty"
      \/ Learns(n, p.from)
  <2>1. CASE p.kind \in {"evallink", "unicast"} /\ consume_data(n, p)
    <3>1. CASE p.from = n
      BY <2>1, <3>1 DEF consume_data
    <3>2. CASE p.from # n
      BY <1>1, <2>1, <3>2, Consumption
    <3> QED
      BY <3>1, <3>2
  <2>2. CASE UNCHANGED <<state, inc, out>>
    BY <2>2
  <2>3. CASE p.kind \in NoData /\ Abort(n)
    <3>1. p.from \in Strangers /\ noise' = [noise EXCEPT ![p.from] = "empty"]
      BY <1>1, <2>3 DEF Incoming, NoData
    <3> QED
      BY <1>3, <2>3, <3>1
  <2> QED
    BY <1>1, <2>1, <2>2, <2>3 DEF Incoming
<1> QED
  BY <1>2, <1>4, <1>5 DEF Outcome

LEMMA ListenSocket ==
  ASSUME Types, NEW n \in Node, listen_cb(n)
  PROVE  /\ socket' \in [Node -> Seq(Message)] /\ UNCHANGED <<now, back, sends>>
         /\ Len(socket'[n]) = Len(socket[n]) - 1
         /\ \A m \in Node : m # n => socket'[m] = socket[m]
         /\ \A i \in 1..Len(socket'[n]) : /\ i + 1 \in 1..Len(socket[n])
                                          /\ socket'[n][i] = socket[n][i + 1]
<1>1. socket' = [socket EXCEPT ![n] = Tail(socket[n])] /\ socket[n] # <<>>
      /\ UNCHANGED <<now, back, sends>>
  BY DEF listen_cb
<1>2. socket'[n] = Tail(socket[n]) /\ \A m \in Node : m # n => socket'[m] = socket[m]
  BY <1>1 DEF Types
<1>3. /\ Tail(socket[n]) \in Seq(Message) /\ Len(Tail(socket[n])) = Len(socket[n]) - 1
      /\ Len(socket[n]) \in Nat /\ Len(socket[n]) >= 1
      /\ \A i \in 1..(Len(socket[n]) - 1) : Tail(socket[n])[i] = socket[n][i + 1]
  BY <1>1, HeadOfSocket
<1>4. socket' \in [Node -> Seq(Message)]
  BY <1>1, <1>3 DEF Types
<1>5. \A i \in 1..(Len(socket[n]) - 1) : i + 1 \in 1..Len(socket[n])
  BY <1>3
<1> QED
  BY <1>1, <1>2, <1>3, <1>4, <1>5

\* The messages that are still in flight are about other strangers.
LEMMA OthersInFlight ==
  ASSUME EInv, NEW n \in Node, listen_cb(n)
  PROVE  \A m \in Node : \A i \in 1..Len(socket'[m]) :
           socket'[m][i].from \in Strangers => socket'[m][i].from # socket[n][1].from
<1> SUFFICES ASSUME NEW m \in Node, NEW i \in 1..Len(socket'[m]),
                    socket'[m][i].from \in Strangers, socket'[m][i].from = socket[n][1].from
             PROVE  FALSE
  OBVIOUS
<1>1. 1 \in 1..Len(socket[n])
  BY HeadOfSocket DEF listen_cb, EInv
<1>2. CASE m # n
  BY <1>1, <1>2, ListenSocket DEF EInv, OneFrame
<1>3. CASE m = n
  <2>1. i + 1 \in 1..Len(socket[n]) /\ socket'[n][i] = socket[n][i + 1]
    BY <1>3, ListenSocket DEF EInv
  <2>2. i + 1 = 1
    BY <1>1, <1>3, <2>1 DEF EInv, OneFrame
  <2>3. i \in Nat /\ i >= 1
    BY <1>3, ListenSocket DEF EInv, Types
  <2> QED
    BY <2>2, <2>3
<1> QED
  BY <1>2, <1>3

\* The row that from has for n, under the address of from.
Reported(n, from, r) ==
  r.ip = from /\ (Given(from, DBM_ANTSIGNAL) => r.db = Signal[n][from])

\* It went to place i of out, where inc has the station from.
Placed(n, from, r, i) ==
  /\ i <= Len(inc'[n]) /\ inc'[n][i].ip = from
  /\ Len(out'[n]) = Len(out[n])
  /\ out'[n][i].ip = out[n][i].ip /\ out'[n][i].db = r.db
  /\ \A j \in 1..Len(out[n]) : j # i => out'[n][j] = out[n][j]

Answered(n, from) ==
  \/ out'[n] = out[n]
  \/ \E r \in Row :
       /\ Reported(n, from, r)
       /\ \/ out'[n] = Append(out[n], r)
          \/ \E i \in 1..Len(out[n]) : Placed(n, from, r, i)

\* The tables after a message was consumed.
LEMMA Learned ==
  ASSUME EInv, NEW n \in Node, NEW from, Learns(n, from)
  PROVE  /\ state' \in [Node -> {"loop", "aborted"}]
         /\ inc' \in [Node -> Seq(Row)] /\ out' \in [Node -> Seq(Row)]
         /\ \A m \in Node : Len(inc'[m]) <= LINE_NB /\ Len(out'[m]) <= LINE_NB
         /\ \A m \in Node : m # n => /\ inc'[m] = inc[m] /\ out'[m] = out[m]
                                     /\ state'[m] = state[m]
         /\ Len(inc[n]) <= Len(inc'[n]) /\ OneRow(inc'[n])
         /\ \A i \in 1..Len(inc'[n]) :
              /\ i <= Len(inc[n]) => inc'[n][i].ip = inc[n][i].ip
              /\ i > Len(inc[n]) => inc'[n][i].ip = from
              /\ IncRow(n, inc[n][i])' \/ (i <= Len(inc[n]) /\ inc'[n][i] = inc[n][i])
         /\ Len(inc'[n]) < LINE_NB => \E i \in 1..Len(inc'[n]) : inc'[n][i].ip = from
         /\ state'[n] # state[n] => CannotAge(n, inc'[n])
         /\ Answered(n, from)
<1>1. PICK row \in Row :
        /\ row.ip = from /\ IncRow(n, row)'
        /\ inc' = [inc EXCEPT ![n] = Inc(inc[n], row)]
        /\ \/ out' = out
           \/ \E r \in Row :
                /\ r.ip = from
                /\ Given(from, DBM_ANTSIGNAL) => r.db = Signal[n][from]
                /\ out' = [out EXCEPT ![n] = Out(out[n], Inc(inc[n], row), r)]
        /\ state' = [state EXCEPT ![n] = IF n \in Shown /\ CannotAge(n, Inc(inc[n], row))
                                         THEN "aborted" ELSE state[n]]
  BY DEF Learns
<1>2. /\ Types
      /\ inc[n] \in Seq(Row) /\ Len(inc[n]) <= LINE_NB /\ OneRow(inc[n])
      /\ out[n] \in Seq(Row) /\ Len(out[n]) <= LINE_NB
  BY DEF EInv, Types, IncInv
<1>3. inc'[n] = Inc(inc[n], row) /\ \A m \in Node : m # n => inc'[m] = inc[m]
  BY <1>1, <1>2 DEF Types
<1>4. PICK new : new = inc'[n]
  OBVIOUS
<1>5. /\ new \in Seq(Row) /\ Len(new) <= LINE_NB /\ Len(inc[n]) <= Len(new)
      /\ OneRow(new)
      /\ \A i \in 1..Len(new) : i <= Len(inc[n]) => new[i].ip = inc[n][i].ip
      /\ \A i \in 1..Len(new) : i > Len(inc[n]) => new[i] = row
      /\ \A i \in 1..Len(new) : new[i] = row \/ (i <= Len(inc[n]) /\ new[i] = inc[n][i])
      /\ Len(new) < LINE_NB => \E i \in 1..Len(new) : new[i].ip = row.ip
  <2>1. PICK t : t = inc[n]
    OBVIOUS
  <2>2. t \in Seq(Row) /\ Len(t) <= LINE_NB /\ OneRow(t)
    BY <1>2, <2>1
  <2>3. new = Inc(t, row)
    BY <1>3, <1>4, <2>1
  <2>4. IncWith(t, row, new)
    BY <2>2, <2>3, IncTable
  <2> QED
    BY <2>1, <2>4 DEF IncWith
<1>6. inc' \in [Node -> Seq(Row)]
  BY <1>1, <1>2, <1>3, <1>4, <1>5 DEF Types
<1>7. /\ state' \in [Node -> {"loop", "aborted"}]
      /\ state'[n] # state[n] => CannotAge(n, inc'[n])
      /\ \A m \in Node : m # n => state'[m] = state[m]
  BY <1>1, <1>2, <1>3 DEF Types
<1>8. ASSUME NEW i \in 1..Len(inc'[n])
      PROVE  /\ i <= Len(inc[n]) => inc'[n][i].ip = inc[n][i].ip
             /\ i > Len(inc[n]) => inc'[n][i].ip = from
             /\ IncRow(n, inc[n][i])' \/ (i <= Len(inc[n]) /\ inc'[n][i] = inc[n][i])
  <2>1. CASE new[i] = row
    <3>1. IncRow(n, inc[n][i])'
      BY <1>1, <1>4, <2>1 DEF IncRow, Measured
    <3> QED
      BY <1>1, <1>4, <1>5, <3>1
  <2>2. CASE i <= Len(inc[n]) /\ new[i] = inc[n][i]
    BY <1>1, <1>4, <1>5, <2>2
  <2> QED
    BY <1>4, <1>5, <2>1, <2>2
<1>9. /\ out' \in [Node -> Seq(Row)] /\ \A m \in Node : m # n => out'[m] = out[m]
      /\ Len(out'[n]) <= LINE_NB
      /\ Answered(n, from)
  <2>1. CASE out' = out
    BY <1>2, <2>1 DEF Types, Answered
  <2>2. CASE \E r \in Row :
                /\ r.ip = from
                /\ Given(from, DBM_ANTSIGNAL) => r.db = Signal[n][from]
                /\ out' = [out EXCEPT ![n] = Out(out[n], Inc(inc[n], row), r)]
    <3>1. PICK r \in Row :
            /\ r.ip = from
            /\ Given(from, DBM_ANTSIGNAL) => r.db = Signal[n][from]
            /\ out' = [out EXCEPT ![n] = Out(out[n], new, r)]
      BY <1>3, <1>4, <2>2
    <3>2. PICK o : o = Out(out[n], new, r)
      OBVIOUS
    <3>3. /\ o \in Seq(Row) /\ Len(o) <= LINE_NB
          /\ \/ o = out[n]
             \/ o = Append(out[n], r)
             \/ \E i \in 1..Len(out[n]) :
                  /\ i <= Len(new) /\ new[i].ip = r.ip
                  /\ Len(o) = Len(out[n])
                  /\ o[i] = [r EXCEPT !.ip = out[n][i].ip]
                  /\ \A j \in 1..Len(out[n]) : j # i => o[j] = out[n][j]
      <4>1. PICK t : t = out[n]
        OBVIOUS
      <4>2. t \in Seq(Row) /\ Len(t) <= LINE_NB /\ o = Out(t, new, r)
        BY <1>2, <3>2, <4>1
      <4>3. OutWith(t, new, r, o)
        BY <4>2, OutTable
      <4> QED
        BY <4>1, <4>3 DEF OutWith
    <3>4. /\ out' = [out EXCEPT ![n] = o] /\ out'[n] = o
          /\ \A m \in Node : m # n => out'[m] = out[m]
      BY <1>2, <3>1, <3>2 DEF Types
    <3>5. out' \in [Node -> Seq(Row)]
      BY <1>2, <3>3, <3>4 DEF Types
    <3>6. Reported(n, from, r)
      BY <3>1 DEF Reported
    <3>7. CASE o = out[n]
      BY <3>3, <3>4, <3>5, <3>7 DEF Answered
    <3>8. CASE o = Append(out[n], r)
      BY <3>3, <3>4, <3>5, <3>6, <3>8 DEF Answered
    <3>9. ASSUME NEW i \in 1..Len(out[n]),
                 i <= Len(new), new[i].ip = r.ip, Len(o) = Len(out[n]),
                 o[i] = [r EXCEPT !.ip = out[n][i].ip],
                 \A j \in 1..Len(out[n]) : j # i => o[j] = out[n][j]
          PROVE  Answered(n, from)
      <4>1. o[i].ip = out[n][i].ip /\ o[i].db = r.db
        BY <3>9 DEF Row
      <4>2. Placed(n, from, r, i)
        BY <1>4, <3>1, <3>4, <3>9, <4>1 DEF Placed
      <4> QED
        BY <3>6, <4>2 DEF Answered
    <3> QED
      BY <3>3, <3>4, <3>5, <3>7, <3>8, <3>9
  <2> QED
    BY <1>1, <2>1, <2>2
<1>10. \A m \in Node : Len(inc'[m]) <= LINE_NB /\ Len(out'[m]) <= LINE_NB
  BY <1>2, <1>3, <1>4, <1>5, <1>9 DEF Types
<1> QED
  BY <1>1, <1>3, <1>4, <1>5, <1>6, <1>7, <1>8, <1>9, <1>10

-----------------------------------------------------------------------------
(* What every step keeps.                                                  *)

\* Time goes on, a clock is not set forth again, and what came of a frame
\* that was read remains.
Onward ==
  /\ now <= now'
  /\ \A m \in Node : back'[m] = 0 => back[m] = 0
  /\ \A m \in Strangers : noise[m] \in {"unicast", "empty"} => noise'[m] = noise[m]

LEMMA RowKept ==
  ASSUME Types, Types', Onward, NEW n \in Node, NEW row \in Row, IncRow(n, row)
  PROVE  IncRow(n, row)'
<1>1. /\ row.ip # n /\ Measured(n, row)
      /\ row.ip \in Strangers => noise'[row.ip] = "unicast"
  BY DEF IncRow, Onward
<1>2. ASSUME back'[n] = 0
      PROVE  /\ \E x \in Int : x <= now' /\ row.stamp = Timespec(x)
             /\ n \notin Unstamped => row.stamp = Timespec(row.heard)
  <2>1. back[n] = 0
    BY <1>2 DEF Onward
  <2>2. PICK x \in Int : x <= now /\ row.stamp = Timespec(x)
    BY <2>1 DEF IncRow
  <2>3. now \in Int /\ now' \in Int /\ now <= now'
    BY EvallinkAssumption DEF Types, Onward
  <2>4. x <= now'
    BY <2>2, <2>3
  <2> QED
    BY <2>1, <2>2, <2>4 DEF IncRow
<1> QED
  BY <1>1, <1>2 DEF IncRow, Measured, Given, Timespec

LEMMA OldRow ==
  ASSUME EInv, Types', Onward, NEW n \in Node,
         NEW i \in 1..Len(inc'[n]), NEW k \in 1..Len(inc[n]), inc'[n][i] = inc[n][k]
  PROVE  IncRow(n, inc[n][i])'
<1>1. PICK row : row = inc[n][k]
  OBVIOUS
<1>2. row \in Row
  BY <1>1 DEF EInv, Types
<1>3. IncRow(n, row)
  BY <1>1 DEF EInv, IncInv, IncRow, Measured
<1>4. IncRow(n, row)'
  BY <1>2, <1>3, RowKept DEF EInv
<1> QED
  BY <1>1, <1>4 DEF IncRow, Measured

LEMMA TablesKept ==
  ASSUME EInv, Types', Onward, UNCHANGED <<inc, out>>
  PROVE  IncInv' /\ OutInv'
<1>1. \A n \in Node : \A i \in 1..Len(inc'[n]) : IncRow(n, inc[n][i])'
  BY OldRow
<1>2. \A n \in Node : OneRow(inc[n])'
  BY DEF EInv, IncInv, OneRow
<1>3. IncInv'
  BY <1>1, <1>2 DEF IncInv
<1>4. OutInv'
  BY DEF EInv, OutInv, Given
<1> QED
  BY <1>3, <1>4

\* A cause to abort remains one.
LEMMA CauseKept ==
  ASSUME EInv, Types', Onward, NEW n \in Node, state[n] = "aborted"
  PROVE  back'[n] # 0 \/ \E m \in Strangers : noise'[m] = "empty"
<1>1. back[n] # 0 \/ \E m \in Strangers : noise[m] = "empty"
  BY DEF EInv, AbortHasCause
<1> QED
  BY <1>1 DEF Onward

LEMMA FlightKept ==
  ASSUME EInv, Types', Onward, NEW m \in Node,
         NEW i \in 1..Len(socket'[m]), NEW k \in 1..Len(socket[m]),
         socket'[m][i] = socket[m][k],
         socket'[m][i].from \in Strangers =>
           noise'[socket'[m][i].from] = noise[socket'[m][i].from]
  PROVE  Genuine(m, socket[m][i])'
<1>1. PICK q : q = socket[m][k]
  OBVIOUS
<1>2. q \in Message
  BY <1>1 DEF EInv, Types
<1>3. Genuine(m, socket[m][k])
  BY DEF EInv, InFlight
<1>4. Genuine(m, q)
  BY <1>1, <1>3
<1>5. q = socket'[m][i] /\ (q.from \in Strangers => noise'[q.from] = noise[q.from])
  BY <1>1
<1>6. Genuine(m, q)'
  BY <1>2, <1>4, <1>5, StillGenuine DEF EInv, Onward
<1> QED
  BY <1>5, <1>6 DEF Genuine

LEMMA FlightsKept ==
  ASSUME EInv, Types', Onward, UNCHANGED <<socket, noise>>
  PROVE  InFlight' /\ OneFrame'
<1>1. ASSUME NEW m \in Node, NEW i \in 1..Len(socket'[m])
      PROVE  Genuine(m, socket[m][i])'
  <2>1. i \in 1..Len(socket[m])
    OBVIOUS
  <2> QED
    BY <2>1, FlightKept
<1>2. InFlight'
  BY <1>1 DEF InFlight
<1>3. OneFrame'
  BY DEF EInv, OneFrame
<1> QED
  BY <1>2, <1>3

\* A packet in a socket buffer was there, or is the one that was sent.
LEMMA Arrived ==
  ASSUME Types, NEW by, NEW p \in Message, Heard(by, p),
         NEW m \in Node, NEW i \in 1..Len(socket'[m])
  PROVE  \/ i \in 1..Len(socket[m]) /\ socket'[m][i] = socket[m][i]
         \/ /\ m \in by /\ i = Len(socket[m]) + 1
            /\ socket'[m][i] = [p EXCEPT !.stamp = CLOCK_REALTIME(m)]
            /\ [p EXCEPT !.stamp = CLOCK_REALTIME(m)] \in Message
<1>1. PICK q : q = [p EXCEPT !.stamp = CLOCK_REALTIME(m)]
  OBVIOUS
<1>2. PICK s : s = socket[m]
  OBVIOUS
<1>3. s \in Seq(Message)
  BY <1>2 DEF Types
<1>4. CASE socket'[m] = socket[m]
  BY <1>4
<1>5. CASE m \in by /\ q \in Message /\ socket'[m] = Append(s, q)
  <2>1. /\ Len(Append(s, q)) = Len(s) + 1 /\ Len(s) \in Nat
        /\ \A j \in 1..(Len(s) + 1) : Append(s, q)[j] = IF j <= Len(s) THEN s[j] ELSE q
    BY <1>3, <1>5, Appended
  <2>2. i \in 1..(Len(s) + 1)
    BY <1>5, <2>1
  <2>3. CASE i <= Len(s)
    BY <1>2, <1>5, <2>1, <2>2, <2>3
  <2>4. CASE ~(i <= Len(s))
    <3>1. i = Len(s) + 1
      BY <2>1, <2>2, <2>4
    <3> QED
      BY <1>1, <1>2, <1>5, <2>1, <2>2, <2>4, <3>1
  <2> QED
    BY <2>3, <2>4
<1> QED
  BY <1>1, <1>2, <1>4, <1>5, Delivered

-----------------------------------------------------------------------------
(* The steps.                                                              *)

LEMMA SendStep ==
  ASSUME EInv, NEW n \in Node, send_cb(n)
  PROVE  EInv'
<1>1. /\ UNCHANGED <<state, now, back, inc, out, noise>>
      /\ sends' = sends + 1 /\ sends < MaxSends
  BY DEF send_cb
<1>2. PICK by \in SUBSET (Node \ {n}) : Heard(by \cup {n}, Broadcast(n))
  BY DEF send_cb, Broadcast
<1>3. Types /\ IncInv /\ AbortHasCause
  BY DEF EInv
<1>4. PICK p : p = Broadcast(n)
  OBVIOUS
<1>5. p \in Message /\ p.from = n /\ Heard(by \cup {n}, p)
  BY <1>2, <1>3, <1>4, BroadcastRows DEF Broadcast
<1>6. Types'
  <2>1. socket' \in [Node -> Seq(Message)] /\ \A m \in Node : Len(socket'[m]) <= SockBuf
    BY <1>3, <1>5, Delivered
  <2>2. sends' \in 0..MaxSends
    BY <1>1, <1>3, EvallinkAssumption DEF Types
  <2> QED
    BY <1>1, <1>3, <2>1, <2>2 DEF Types
<1>7. Onward
  BY <1>1, <1>3, EvallinkAssumption DEF Types, Onward
<1>8. IncInv' /\ OutInv'
  BY <1>1, <1>6, <1>7, TablesKept
<1>9. ASSUME NEW m \in Node, NEW i \in 1..Len(socket'[m])
      PROVE  /\ Genuine(m, socket[m][i])'
             /\ \/ i \in 1..Len(socket[m]) /\ socket'[m][i] = socket[m][i]
                \/ socket'[m][i].from \notin Strangers
  <2>1. CASE i \in 1..Len(socket[m]) /\ socket'[m][i] = socket[m][i]
    BY <1>1, <1>6, <1>7, <2>1, FlightKept
  <2>2. CASE /\ socket'[m][i] = [p EXCEPT !.stamp = CLOCK_REALTIME(m)]
             /\ [p EXCEPT !.stamp = CLOCK_REALTIME(m)] \in Message
    <3>1. PICK q : q = [p EXCEPT !.stamp = CLOCK_REALTIME(m)]
      OBVIOUS
    <3>2. q \in Message /\ q.from = n /\ n \notin Strangers
      BY <1>5, <2>2, <3>1, EvallinkAssumption DEF Message
    <3>3. Genuine(m, q)
      BY <1>3, <1>4, <3>1, BroadcastGenuine
    <3>4. Genuine(m, q)'
      BY <1>1, <1>3, <1>6, <1>7, <3>2, <3>3, StillGenuine DEF Onward
    <3> QED
      BY <2>2, <3>1, <3>2, <3>4 DEF Genuine
  <2> QED
    BY <1>3, <1>5, <2>1, <2>2, Arrived
<1>10. InFlight'
  BY <1>9 DEF InFlight
<1>11. OneFrame'
  <2>1. SUFFICES ASSUME NEW m \in Node, NEW k \in Node,
                        NEW i \in 1..Len(socket'[m]), NEW j \in 1..Len(socket'[k]),
                        socket'[m][i].from \in Strangers,
                        socket'[m][i].from = socket'[k][j].from
                 PROVE  m = k /\ i = j
    BY DEF OneFrame
  <2>2. i \in 1..Len(socket[m]) /\ socket'[m][i] = socket[m][i]
    BY <1>9, <2>1
  <2>3. j \in 1..Len(socket[k]) /\ socket'[k][j] = socket[k][j]
    BY <1>9, <2>1
  <2> QED
    BY <2>1, <2>2, <2>3 DEF EInv, OneFrame
<1>12. AbortHasCause'
  BY <1>1, <1>6, <1>7, CauseKept DEF AbortHasCause
<1> QED
  BY <1>6, <1>8, <1>10, <1>11, <1>12 DEF EInv

\* Where no clock was set back, every row can be aged.
LEMMA CanAge ==
  ASSUME Types, NEW n \in Node, NEW table \in Seq(Row), back[n] = 0,
         \A i \in 1..Len(table) : \E x \in Int : x <= now /\ table[i].stamp = Timespec(x)
  PROVE  ~CannotAge(n, table)
<1>1. now \in Int /\ now - back[n] = now
  BY DEF Types
<1>2. DOMAIN table = 1..Len(table)
  BY Domains
<1>3. ASSUME NEW i \in DOMAIN table
      PROVE  ~AgeAborts(CLOCK_REALTIME(n), table[i].stamp)
  <2>1. PICK x \in Int : x <= now /\ table[i].stamp = Timespec(x)
    BY <1>2, <1>3
  <2> QED
    BY <1>1, <2>1, PastNeverAborts DEF CLOCK_REALTIME
<1> QED
  BY <1>3 DEF CannotAge

LEMMA SendAbortsStep ==
  ASSUME EInv, NEW n \in Node, SendAborts(n)
  PROVE  EInv'
<1>1. /\ UNCHANGED <<now, back, inc, out, socket, sends, noise>>
      /\ state' = [state EXCEPT ![n] = "aborted"] /\ CannotAge(n, inc[n])
  BY DEF SendAborts, Abort
<1>2. Types /\ IncInv
  BY DEF EInv
<1>3. Types' /\ \A m \in Node : m # n => state'[m] = state[m]
  BY <1>1, <1>2 DEF Types
<1>4. Onward
  BY <1>1, <1>2, EvallinkAssumption DEF Types, Onward
<1>5. back[n] # 0
  <2>1. inc[n] \in Seq(Row)
    BY <1>2 DEF Types
  <2>2. SUFFICES ASSUME back[n] = 0 PROVE FALSE
    OBVIOUS
  <2>3. \A i \in 1..Len(inc[n]) : \E x \in Int : x <= now /\ inc[n][i].stamp = Timespec(x)
    BY <1>2, <2>2 DEF IncInv, IncRow
  <2>4. PICK t : t = inc[n]
    OBVIOUS
  <2>5. ~CannotAge(n, t)
    BY <1>2, <2>1, <2>2, <2>3, <2>4, CanAge
  <2> QED
    BY <1>1, <2>4, <2>5 DEF CannotAge
<1>6. AbortHasCause'
  <2>1. ASSUME NEW m \in Node, state'[m] = "aborted"
        PROVE  back'[m] # 0 \/ \E k \in Strangers : noise'[k] = "empty"
    BY <1>1, <1>3, <1>4, <1>5, <2>1, CauseKept
  <2> QED
    BY <2>1 DEF AbortHasCause
<1> QED
  BY <1>1, <1>3, <1>4, <1>6, TablesKept, FlightsKept DEF EInv

LEMMA TickStep ==
  ASSUME EInv, Tick
  PROVE  EInv'
<1>1. UNCHANGED <<state, back, inc, out, socket, sends, noise>> /\ now' = now + 1 /\ now < MaxTime
  BY DEF Tick
<1>2. Types
  BY DEF EInv
<1>3. now' \in 0..MaxTime /\ now <= now'
  BY <1>1, <1>2, EvallinkAssumption DEF Types
<1>4. Types'
  BY <1>1, <1>2, <1>3 DEF Types
<1>5. Onward
  BY <1>1, <1>3 DEF Onward
<1>6. AbortHasCause'
  BY <1>1, <1>4, <1>5, CauseKept DEF AbortHasCause
<1> QED
  BY <1>1, <1>4, <1>5, <1>6, TablesKept, FlightsKept DEF EInv

LEMMA SetBackStep ==
  ASSUME EInv, SetBack
  PROVE  EInv'
<1>1. UNCHANGED <<state, now, inc, out, socket, sends, noise>>
  BY DEF SetBack
<1>2. PICK n \in Shown : back[n] = 0 /\ back' = [back EXCEPT ![n] = Back]
  BY DEF SetBack
<1>3. Types /\ n \in Node
  BY EvallinkAssumption DEF EInv
<1>4. back' \in [Node -> {0, Back}] /\ \A m \in Node : m # n => back'[m] = back[m]
  BY <1>2, <1>3 DEF Types
<1>5. Types'
  BY <1>1, <1>3, <1>4 DEF Types
<1>6. Onward
  BY <1>1, <1>2, <1>3, <1>4, EvallinkAssumption DEF Types, Onward
<1>7. AbortHasCause'
  BY <1>1, <1>5, <1>6, CauseKept DEF AbortHasCause
<1> QED
  BY <1>1, <1>5, <1>6, <1>7, TablesKept, FlightsKept DEF EInv

LEMMA StrangerStep ==
  ASSUME EInv, NEW m \in Strangers, OtherFrame(m)
  PROVE  EInv'
<1>1. /\ UNCHANGED <<state, now, back, inc, out, sends>>
      /\ noise[m] = "none" /\ noise' = [noise EXCEPT ![m] = "some"]
  BY DEF OtherFrame
<1>0. PICK n \in Shown : \E rows \in {<<>>, <<JustHeard(n, m)>>} :
        Heard({n}, [kind |-> "noise", from |-> m, stamp |-> Timespec(0),
                    sent |-> now, heard |-> now, rows |-> rows])
  BY DEF OtherFrame
<1>2. PICK rows \in {<<>>, <<JustHeard(n, m)>>} :
        Heard({n}, [kind |-> "noise", from |-> m, stamp |-> Timespec(0),
                    sent |-> now, heard |-> now, rows |-> rows])
  BY <1>0
<1>3. Types /\ n \in Node
  BY EvallinkAssumption DEF EInv
<1>4. PICK p : p = [kind |-> "noise", from |-> m, stamp |-> Timespec(0),
                    sent |-> now, heard |-> now, rows |-> rows]
  OBVIOUS
<1>5. PICK q : q = [p EXCEPT !.stamp = CLOCK_REALTIME(n)]
  OBVIOUS
<1>6. p \in Message /\ q.from = m /\ Genuine(n, q)'
  BY <1>1, <1>3, <1>4, <1>5, StrangerGenuine
<1>7. Heard({n}, p)
  BY <1>2, <1>4
<1>8. Types'
  <2>1. socket' \in [Node -> Seq(Message)] /\ \A k \in Node : Len(socket'[k]) <= SockBuf
    BY <1>3, <1>6, <1>7, Delivered
  <2>2. noise' \in [Strangers -> {"none", "some", "unicast", "empty"}]
    BY <1>1, <1>3 DEF Types
  <2> QED
    BY <1>1, <1>3, <2>1, <2>2 DEF Types
<1>9. \A k \in Strangers : k # m => noise'[k] = noise[k]
  BY <1>1, <1>3 DEF Types
<1>10. Onward
  BY <1>1, <1>3, <1>9, EvallinkAssumption DEF Types, Onward
<1>11. ASSUME NEW k \in Node, NEW i \in 1..Len(socket'[k])
       PROVE  /\ Genuine(k, socket[k][i])'
              /\ \/ /\ i \in 1..Len(socket[k]) /\ socket'[k][i] = socket[k][i]
                    /\ socket'[k][i].from # m
                 \/ k = n /\ i = Len(socket[n]) + 1 /\ socket'[k][i].from = m
  <2>1. CASE i \in 1..Len(socket[k]) /\ socket'[k][i] = socket[k][i]
    <3>1. Genuine(k, socket[k][i])
      BY <2>1 DEF EInv, InFlight
    <3>2. socket'[k][i].from # m
      BY <1>1, <2>1, <3>1 DEF Genuine
    <3>3. socket'[k][i].from \in Strangers =>
            noise'[socket'[k][i].from] = noise[socket'[k][i].from]
      BY <1>9, <3>2
    <3> QED
      BY <1>8, <1>10, <2>1, <3>2, <3>3, FlightKept
  <2>2. CASE /\ k \in {n} /\ i = Len(socket[k]) + 1
             /\ socket'[k][i] = [p EXCEPT !.stamp = CLOCK_REALTIME(k)]
    <3>1. k = n /\ socket'[n][i] = q
      BY <1>5, <2>2
    <3> QED
      BY <1>6, <2>2, <3>1 DEF Genuine
  <2> QED
    BY <1>3, <1>6, <1>7, <2>1, <2>2, Arrived
<1>12. InFlight'
  BY <1>11 DEF InFlight
<1>13. OneFrame'
  <2>1. SUFFICES ASSUME NEW k \in Node, NEW l \in Node,
                        NEW i \in 1..Len(socket'[k]), NEW j \in 1..Len(socket'[l]),
                        socket'[k][i].from \in Strangers,
                        socket'[k][i].from = socket'[l][j].from
                 PROVE  k = l /\ i = j
    BY DEF OneFrame
  <2>2. CASE socket'[k][i].from = m
    BY <1>11, <2>1, <2>2
  <2>3. CASE socket'[k][i].from # m
    <3>1. i \in 1..Len(socket[k]) /\ socket'[k][i] = socket[k][i]
      BY <1>11, <2>3
    <3>2. j \in 1..Len(socket[l]) /\ socket'[l][j] = socket[l][j]
      BY <1>11, <2>1, <2>3
    <3> QED
      BY <2>1, <3>1, <3>2 DEF EInv, OneFrame
  <2> QED
    BY <2>2, <2>3
<1>14. AbortHasCause'
  BY <1>1, <1>8, <1>10, CauseKept DEF AbortHasCause
<1> QED
  BY <1>1, <1>8, <1>10, <1>12, <1>13, <1>14, TablesKept DEF EInv

\* The rows of out after a message was consumed: a row keeps its address, and
\* when that is the address of its place in inc it got the values of it.
LEMMA OutLearned ==
  ASSUME EInv, Types', NEW n \in Node, NEW from, Learns(n, from)
  PROVE  OutInv'
<1>1. /\ \A m \in Node : m # n => inc'[m] = inc[m] /\ out'[m] = out[m]
      /\ Len(inc[n]) <= Len(inc'[n])
      /\ \A i \in 1..Len(inc'[n]) : /\ i <= Len(inc[n]) => inc'[n][i].ip = inc[n][i].ip
                                    /\ i > Len(inc[n]) => inc'[n][i].ip = from
      /\ Len(inc'[n]) < LINE_NB => \E i \in 1..Len(inc'[n]) : inc'[n][i].ip = from
  BY Learned
<1>2. Answered(n, from)
  BY Learned
<1>3. /\ inc[n] \in Seq(Row) /\ inc'[n] \in Seq(Row) /\ out[n] \in Seq(Row)
      /\ Len(inc[n]) \in Nat /\ Len(inc'[n]) \in Nat /\ Len(out[n]) \in Nat /\ LINE_NB \in Nat
  BY EvallinkAssumption DEF EInv, Types
<1> DEFINE True(row) == Given(row.ip, DBM_ANTSIGNAL) => row.db = Signal[n][row.ip]
           Known(ip) == \E j \in 1..Len(inc'[n]) : inc'[n][j].ip = ip
           Right(i) ==
             /\ i > Len(inc'[n]) \/ out'[n][i].ip = inc'[n][i].ip => True(out'[n][i])
             /\ Len(inc'[n]) < LINE_NB => Known(out'[n][i].ip)
<1>4. ASSUME NEW i \in 1..Len(out[n])
      PROVE  /\ i > Len(inc'[n]) \/ out[n][i].ip = inc'[n][i].ip =>
                  True(out[n][i])
             /\ Len(inc'[n]) < LINE_NB => Known(out[n][i].ip)
  <2>1. /\ i > Len(inc[n]) \/ out[n][i].ip = inc[n][i].ip => True(out[n][i])
        /\ Len(inc[n]) < LINE_NB => \E j \in 1..Len(inc[n]) : inc[n][j].ip = out[n][i].ip
    BY DEF EInv, OutInv
  <2>2. i \in Nat /\ i >= 1
    BY <1>3
  <2>3. i > Len(inc'[n]) \/ out[n][i].ip = inc'[n][i].ip => True(out[n][i])
    <3>1. CASE i > Len(inc[n])
      BY <2>1, <3>1
    <3>2. CASE ~(i > Len(inc[n]))
      <4>1. i \in 1..Len(inc'[n]) /\ i <= Len(inc[n]) /\ ~(i > Len(inc'[n]))
        BY <1>1, <1>3, <2>2, <3>2
      <4> QED
        BY <1>1, <2>1, <4>1
    <3> QED
      BY <3>1, <3>2
  <2>4. ASSUME Len(inc'[n]) < LINE_NB PROVE Known(out[n][i].ip)
    <3>1. PICK j \in 1..Len(inc[n]) : inc[n][j].ip = out[n][i].ip
      BY <1>1, <1>3, <2>1, <2>4
    <3>2. j \in 1..Len(inc'[n]) /\ j <= Len(inc[n])
      BY <1>1, <1>3, <3>1
    <3> QED
      BY <1>1, <3>1, <3>2
  <2> QED
    BY <2>3, <2>4
<1>5. ASSUME NEW i \in 1..Len(out'[n])
      PROVE  Right(i)
  <2>1. CASE i \in 1..Len(out[n]) /\ out'[n][i] = out[n][i]
    BY <1>4, <2>1
  <2>2. CASE out'[n] = out[n]
    BY <2>1, <2>2
  <2>3. ASSUME NEW r \in Row, Reported(n, from, r), out'[n] = Append(out[n], r)
        PROVE  Right(i)
    <3>1. PICK s : s = out[n]
      OBVIOUS
    <3>2. /\ s \in Seq(Row) /\ Len(s) \in Nat /\ Len(Append(s, r)) = Len(s) + 1
          /\ \A j \in 1..(Len(s) + 1) : Append(s, r)[j] = IF j <= Len(s) THEN s[j] ELSE r
      BY <1>3, <3>1, Appended
    <3>3. i \in 1..(Len(s) + 1) /\ out'[n][i] = IF i <= Len(s) THEN s[i] ELSE r
      BY <2>3, <3>1, <3>2
    <3>4. CASE i <= Len(s)
      <4>1. i \in 1..Len(out[n]) /\ out'[n][i] = out[n][i]
        BY <3>1, <3>2, <3>3, <3>4
      <4> QED
        BY <2>1, <4>1
    <3>5. CASE ~(i <= Len(s))
      BY <1>1, <2>3, <3>3, <3>5 DEF Reported
    <3> QED
      BY <3>4, <3>5
  <2>4. ASSUME NEW r \in Row, Reported(n, from, r),
               NEW k \in 1..Len(out[n]), Placed(n, from, r, k)
        PROVE  Right(i)
    <3>1. CASE i # k
      BY <2>1, <2>4, <3>1 DEF Placed
    <3>2. CASE i = k
      <4>1. ~(i > Len(inc'[n]))
        BY <1>3, <2>4, <3>2 DEF Placed
      <4>2. out'[n][i].ip = inc'[n][i].ip => True(out'[n][i])
        BY <2>4, <3>2 DEF Placed, Reported
      <4>3. Len(inc'[n]) < LINE_NB => Known(out'[n][i].ip)
        BY <1>4, <2>4, <3>2 DEF Placed
      <4> QED
        BY <4>1, <4>2, <4>3
    <3> QED
      BY <3>1, <3>2
  <2> HIDE DEF Right
  <2> QED
    BY <1>2, <2>2, <2>3, <2>4 DEF Answered
<1>6. ASSUME NEW m \in Node, NEW i \in 1..Len(out'[m])
      PROVE  /\ i > Len(inc'[m]) \/ out'[m][i].ip = inc'[m][i].ip =>
                  (Given(out'[m][i].ip, DBM_ANTSIGNAL) =>
                     out'[m][i].db = Signal[m][out'[m][i].ip])
             /\ Len(inc'[m]) < LINE_NB =>
                  \E j \in 1..Len(inc'[m]) : inc'[m][j].ip = out'[m][i].ip
  <2>1. CASE m = n
    BY <1>5, <1>6, <2>1
  <2>2. CASE m # n
    <3>1. i \in 1..Len(out[m]) /\ out'[m] = out[m] /\ inc'[m] = inc[m]
      BY <1>1, <2>2
    <3>2. /\ i > Len(inc[m]) \/ out[m][i].ip = inc[m][i].ip =>
               (Given(out[m][i].ip, DBM_ANTSIGNAL) =>
                  out[m][i].db = Signal[m][out[m][i].ip])
          /\ Len(inc[m]) < LINE_NB =>
               \E j \in 1..Len(inc[m]) : inc[m][j].ip = out[m][i].ip
      BY <3>1 DEF EInv, OutInv
    <3> QED
      BY <3>1, <3>2
  <2> QED
    BY <2>1, <2>2
<1> QED
  BY <1>6 DEF OutInv, Given

\* The types, and what the invariant says of the tables of the station, in
\* each outcome of listen_cb.
LEMMA ListenTables ==
  ASSUME EInv, NEW n \in Node, NEW from, Outcome(n, from),
         from \in Strangers => noise[from] = "some",
         socket' \in [Node -> Seq(Message)], UNCHANGED <<now, back, sends>>,
         \A m \in Node : Len(socket'[m]) <= SockBuf
  PROVE  Types' /\ Onward /\ IncInv' /\ OutInv' /\ AbortHasCause'
<1>1. Types
  BY DEF EInv
<1>2. /\ noise' \in [Strangers -> {"none", "some", "unicast", "empty"}]
      /\ \A m \in Strangers : m # from => noise'[m] = noise[m]
  BY <1>1 DEF Outcome, Types
<1>3. Onward
  BY <1>1, <1>2, EvallinkAssumption DEF Types, Onward, Outcome
<1>4. CASE UNCHANGED <<state, inc, out>>
  <2>1. Types'
    BY <1>1, <1>2, <1>4 DEF Types
  <2> QED
    BY <1>3, <1>4, <2>1, TablesKept, CauseKept DEF AbortHasCause
<1>5. CASE Abort(n) /\ \E m \in Strangers : noise'[m] = "empty"
  <2>1. UNCHANGED <<inc, out>> /\ state' = [state EXCEPT ![n] = "aborted"]
    BY <1>5 DEF Abort
  <2>2. Types'
    BY <1>1, <1>2, <2>1 DEF Types
  <2> QED
    BY <1>3, <1>5, <2>1, <2>2, TablesKept DEF AbortHasCause
<1>6. CASE Learns(n, from)
  <2>1. /\ state' \in [Node -> {"loop", "aborted"}]
        /\ inc' \in [Node -> Seq(Row)] /\ out' \in [Node -> Seq(Row)]
        /\ \A m \in Node : Len(inc'[m]) <= LINE_NB /\ Len(out'[m]) <= LINE_NB
        /\ \A m \in Node : m # n => /\ inc'[m] = inc[m] /\ out'[m] = out[m]
                                    /\ state'[m] = state[m]
    BY <1>6, Learned
  <2>2. Types'
    BY <1>1, <1>2, <2>1 DEF Types
  <2>3. IncInv'
    <3>1. ASSUME NEW m \in Node PROVE OneRow(inc[m])'
      <4>1. CASE m = n
        <5>1. OneRow(inc'[n])
          BY <1>6, Learned
        <5> QED
          BY <4>1, <5>1 DEF OneRow
      <4>2. CASE m # n
        BY <2>1, <4>2 DEF EInv, IncInv, OneRow
      <4> QED
        BY <4>1, <4>2
    <3>2. ASSUME NEW m \in Node, NEW i \in 1..Len(inc'[m])
          PROVE  IncRow(m, inc[m][i])'
      <4>1. CASE m # n
        <5>1. i \in 1..Len(inc[m]) /\ inc'[m][i] = inc[m][i]
          BY <2>1, <3>2, <4>1
        <5> QED
          BY <1>3, <2>2, <5>1, OldRow
      <4>2. CASE m = n
        <5>1. CASE IncRow(n, inc[n][i])'
          BY <4>2, <5>1
        <5>2. CASE i <= Len(inc[n]) /\ inc'[n][i] = inc[n][i]
          <6>1. i \in 1..Len(inc[n])
            BY <1>1, <3>2, <4>2, <5>2 DEF Types
          <6> QED
            BY <1>3, <2>2, <3>2, <4>2, <5>2, <6>1, OldRow
        <5> QED
          BY <1>6, <3>2, <4>2, <5>1, <5>2, Learned
      <4> QED
        BY <4>1, <4>2
    <3> QED
      BY <3>1, <3>2 DEF IncInv
  <2>4. OutInv'
    BY <1>6, <2>1, <2>2, OutLearned
  <2>5. AbortHasCause'
    <3>1. ASSUME NEW m \in Node, state'[m] = "aborted"
          PROVE  back'[m] # 0 \/ \E k \in Strangers : noise'[k] = "empty"
      <4>1. CASE state[m] = "aborted"
        BY <1>3, <2>2, <4>1, CauseKept
      <4>2. CASE state[m] # "aborted"
        <5>1. m = n /\ CannotAge(n, inc'[n])
          BY <1>6, <2>1, <3>1, <4>2, Learned
        <5>2. SUFFICES ASSUME back[n] = 0 PROVE FALSE
          BY <5>1
        <5>3. PICK t : t = inc'[n]
          OBVIOUS
        <5>4. \A i \in 1..Len(t) : \E x \in Int : x <= now /\ t[i].stamp = Timespec(x)
          BY <2>3, <5>2, <5>3 DEF IncInv, IncRow
        <5>5. ~CannotAge(n, t)
          BY <1>1, <2>1, <5>2, <5>3, <5>4, CanAge
        <5> QED
          BY <5>1, <5>3, <5>5 DEF CannotAge
      <4> QED
        BY <4>1, <4>2
    <3> QED
      BY <3>1 DEF AbortHasCause
  <2> QED
    BY <1>3, <2>2, <2>3, <2>4, <2>5
<1> QED
  BY <1>4, <1>5, <1>6 DEF Outcome

LEMMA ListenStep ==
  ASSUME EInv, NEW n \in Node, listen_cb(n)
  PROVE  EInv'
<1>1. PICK from : from = socket[n][1].from /\ Outcome(n, from)
  BY Listening
<1>2. Types /\ OneFrame
  BY DEF EInv
<1>3. /\ socket' \in [Node -> Seq(Message)] /\ UNCHANGED <<now, back, sends>>
      /\ Len(socket'[n]) = Len(socket[n]) - 1
      /\ \A m \in Node : m # n => socket'[m] = socket[m]
      /\ \A i \in 1..Len(socket'[n]) : /\ i + 1 \in 1..Len(socket[n])
                                       /\ socket'[n][i] = socket[n][i + 1]
  BY <1>2, ListenSocket
<1>4. from \in Strangers => noise[from] = "some"
  <2>1. 1 \in 1..Len(socket[n])
    BY <1>2, HeadOfSocket DEF listen_cb
  <2>2. Genuine(n, socket[n][1])
    BY <2>1 DEF EInv, InFlight
  <2> QED
    BY <1>1, <2>2 DEF Genuine
<1>5. \A m \in Node : Len(socket'[m]) <= SockBuf
  <2>1. \A m \in Node : Len(socket[m]) <= SockBuf
    BY <1>2 DEF Types
  <2>2. Len(socket[n]) \in Nat /\ SockBuf \in Nat
    BY <1>2, EvallinkAssumption DEF Types
  <2>3. Len(socket'[n]) <= SockBuf
    BY <1>3, <2>1, <2>2
  <2> QED
    BY <1>3, <2>1, <2>3
<1>6. Types' /\ Onward /\ IncInv' /\ OutInv' /\ AbortHasCause'
  BY <1>1, <1>3, <1>4, <1>5, ListenTables
<1>7. \A m \in Strangers : m # from => noise'[m] = noise[m]
  BY <1>1, <1>2 DEF Outcome, Types
<1> DEFINE Was(m, i) == IF m = n THEN i + 1 ELSE i
<1>8. ASSUME NEW m \in Node, NEW i \in 1..Len(socket'[m])
      PROVE  Was(m, i) \in 1..Len(socket[m]) /\ socket'[m][i] = socket[m][Was(m, i)]
  BY <1>3, <1>8
<1>9. ASSUME NEW m \in Node, NEW i \in 1..Len(socket'[m])
      PROVE  Genuine(m, socket[m][i])'
  <2>1. socket'[m][i].from \in Strangers =>
          noise'[socket'[m][i].from] = noise[socket'[m][i].from]
    BY <1>1, <1>7, OthersInFlight
  <2>2. Was(m, i) \in 1..Len(socket[m]) /\ socket'[m][i] = socket[m][Was(m, i)]
    BY <1>8
  <2> HIDE DEF Was
  <2> QED
    BY <1>6, <2>1, <2>2, FlightKept
<1>10. InFlight'
  BY <1>9 DEF InFlight
<1>11. OneFrame'
  <2>1. SUFFICES ASSUME NEW k \in Node, NEW l \in Node,
                        NEW i \in 1..Len(socket'[k]), NEW j \in 1..Len(socket'[l]),
                        socket'[k][i].from \in Strangers,
                        socket'[k][i].from = socket'[l][j].from
                 PROVE  k = l /\ i = j
    BY DEF OneFrame
  <2>2. /\ Was(k, i) \in 1..Len(socket[k]) /\ socket'[k][i] = socket[k][Was(k, i)]
        /\ Was(l, j) \in 1..Len(socket[l]) /\ socket'[l][j] = socket[l][Was(l, j)]
    BY <1>8
  <2>3. k = l /\ Was(k, i) = Was(l, j)
    <3> HIDE DEF Was
    <3> QED
      BY <1>2, <2>1, <2>2 DEF OneFrame
  <2>4. i \in Int /\ j \in Int
    BY <1>3
  <2> QED
    BY <2>3, <2>4
<1> QED
  BY <1>6, <1>10, <1>11 DEF EInv

-----------------------------------------------------------------------------
(* The theorems.                                                           *)

LEMMA Initially == Init => EInv
<1> SUFFICES ASSUME Init PROVE EInv
  OBVIOUS
<1>1. Types /\ \A n \in Node : socket[n] = <<>> /\ inc[n] = <<>> /\ out[n] = <<>>
  BY EvallinkAssumption DEF Init, Types
<1>2. InFlight /\ OneFrame
  BY <1>1 DEF InFlight, OneFrame
<1>3. IncInv /\ OutInv
  BY <1>1 DEF IncInv, OutInv, OneRow
<1>4. AbortHasCause
  BY DEF Init, AbortHasCause
<1> QED
  BY <1>1, <1>2, <1>3, <1>4 DEF EInv

LEMMA Stuttering == EInv /\ UNCHANGED vars => EInv'
<1> SUFFICES ASSUME EInv, UNCHANGED vars PROVE EInv'
  OBVIOUS
<1>1. UNCHANGED <<state, now, back, inc, out, socket, sends, noise>>
  BY DEF vars
<1>2. Types /\ Types'
  BY <1>1 DEF EInv, Types
<1>3. Onward
  BY <1>1, <1>2, EvallinkAssumption DEF Types, Onward
<1> QED
  BY <1>1, <1>2, <1>3, TablesKept, FlightsKept, CauseKept DEF EInv, AbortHasCause

\* The whole invariant: types, messages in flight that say what their sender
\* measured, tables with one true row per station, and stations that only
\* abort for a cause.
THEOREM EvallinkCorrect == Spec => []EInv
<1>1. EInv /\ [Next]_vars => EInv'
  <2> SUFFICES ASSUME EInv, [Next]_vars PROVE EInv'
    OBVIOUS
  <2>1. ASSUME NEW n \in Node, send_cb(n) PROVE EInv'
    BY <2>1, SendStep
  <2>2. ASSUME NEW n \in Node, SendAborts(n) PROVE EInv'
    BY <2>2, SendAbortsStep
  <2>3. ASSUME NEW n \in Node, listen_cb(n) PROVE EInv'
    BY <2>3, ListenStep
  <2>4. ASSUME NEW m \in Strangers, OtherFrame(m) PROVE EInv'
    BY <2>4, StrangerStep
  <2>5. CASE Tick
    BY <2>5, TickStep
  <2>6. CASE SetBack
    BY <2>6, SetBackStep
  <2>7. CASE UNCHANGED vars
    BY <2>7, Stuttering
  <2> QED
    BY <2>1, <2>2, <2>3, <2>4, <2>5, <2>6, <2>7 DEF Next
<1> QED
  BY Initially, <1>1, PTL DEF Spec

\* The tables never outgrow LINE_NB rows, the socket buffers their size, and
\* every age on the air has its nanoseconds within a second.
THEOREM EvallinkTypes == Spec => []TypeOK
<1>1. EInv => TypeOK
  <2> SUFFICES ASSUME EInv PROVE TypeOK
    OBVIOUS
  <2>1. Types
    BY DEF EInv
  <2>2. ASSUME NEW n \in Node, NEW i \in DOMAIN socket[n]
        PROVE  socket[n][i].rows \in Seq(Row)
    <3>1. i \in 1..Len(socket[n])
      BY <2>1, Domains DEF Types
    <3>2. socket[n][i] \in Message
      BY <2>1, <3>1 DEF Types
    <3> QED
      BY <3>2 DEF Message
  <2> QED
    BY <2>1, <2>2 DEF Types, TypeOK
<1> QED
  BY <1>1, EvallinkCorrect, PTL

\* Whatever frames pass through the filter and wherever the driver puts the
\* fields of the radiotap header: every row of inc is about a station that
\* sent an evallink message, and holds the strength and the rate of that link.
THEOREM IncIsTrue == Spec => []IncTrue
<1>1. EInv => IncTrue
  <2> SUFFICES ASSUME EInv, NEW n \in Node, NEW i \in DOMAIN inc[n]
               PROVE  /\ inc[n][i].ip \in Strangers => noise[inc[n][i].ip] = "unicast"
                      /\ inc[n][i].db = IF DBM_ANTSIGNAL \in DOMAIN Layout[n].field
                                        THEN Signal[inc[n][i].ip][n] ELSE 0
                      /\ inc[n][i].rate = IF RATE \in DOMAIN Layout[n].field
                                          THEN Rate[inc[n][i].ip][n] ELSE 0
    BY DEF IncTrue
  <2>1. i \in 1..Len(inc[n])
    BY Domains DEF EInv, Types
  <2>2. IncRow(n, inc[n][i])
    BY <2>1 DEF EInv, IncInv
  <2> QED
    BY <2>2 DEF IncRow, Measured, Given
<1> QED
  BY <1>1, EvallinkCorrect, PTL

\* consume_data never gives a station two rows, nor a station a row about
\* itself; and as long as inc has a free row, every station that reported to
\* this one is in inc.
THEOREM IncIsComplete == Spec => []IncComplete
<1>1. EInv => IncComplete
  <2> SUFFICES ASSUME EInv, NEW n \in Node
               PROVE  /\ \A i, j \in DOMAIN inc[n] : inc[n][i].ip = inc[n][j].ip => i = j
                      /\ \A i \in DOMAIN inc[n] : inc[n][i].ip # n
                      /\ Len(inc[n]) < LINE_NB =>
                           \A i \in DOMAIN out[n] :
                             \E j \in DOMAIN inc[n] : inc[n][j].ip = out[n][i].ip
    BY DEF IncComplete
  <2>1. DOMAIN inc[n] = 1..Len(inc[n]) /\ DOMAIN out[n] = 1..Len(out[n])
    BY Domains DEF EInv, Types
  <2>2. OneRow(inc[n]) /\ \A i \in 1..Len(inc[n]) : IncRow(n, inc[n][i])
    BY DEF EInv, IncInv
  <2>3. \A i, j \in 1..Len(inc[n]) : inc[n][i].ip = inc[n][j].ip => i = j
    BY <2>2 DEF OneRow
  <2>4. \A i \in 1..Len(inc[n]) : inc[n][i].ip # n
    BY <2>2 DEF IncRow
  <2>5. Len(inc[n]) < LINE_NB =>
          \A i \in 1..Len(out[n]) : \E j \in 1..Len(inc[n]) : inc[n][j].ip = out[n][i].ip
    BY DEF EInv, OutInv
  <2> QED
    BY <2>1, <2>3, <2>4, <2>5
<1> QED
  BY <1>1, EvallinkCorrect, PTL

\* As long as the rows of out are in the order of those of inc, each holds
\* how the station it is about hears this one.
THEOREM OutIsTrueInOrder == Spec => []OutTrueInOrder
<1>1. EInv => OutTrueInOrder
  <2> SUFFICES ASSUME EInv, NEW n \in Node,
                      \A i \in DOMAIN out[n] : i <= Len(inc[n]) /\ out[n][i].ip = inc[n][i].ip,
                      NEW i \in DOMAIN out[n],
                      DBM_ANTSIGNAL \in DOMAIN Layout[out[n][i].ip].field
               PROVE  out[n][i].db = Signal[n][out[n][i].ip]
    BY DEF OutTrueInOrder
  <2>1. i \in 1..Len(out[n])
    BY Domains DEF EInv, Types
  <2>2. out[n][i].ip = inc[n][i].ip
    OBVIOUS
  <2> QED
    BY <2>1, <2>2 DEF EInv, OutInv, Given
<1> QED
  BY <1>1, EvallinkCorrect, PTL

\* send_cb's two ways to subtract times of day agree with the subtraction of
\* the times they stand for: the ages on the air are exact, as long as the
\* clock was not set back.
THEOREM AgesAreExact == Spec => []AgesExact
<1>1. EInv => AgesExact
  <2> SUFFICES ASSUME EInv, NEW n \in Node, NEW i \in DOMAIN socket[n],
                      socket[n][i].from \in Node \ Unstamped, back[socket[n][i].from] = 0,
                      NEW j \in DOMAIN socket[n][i].rows
               PROVE  Ticks(socket[n][i].rows[j].stamp) =
                        socket[n][i].sent - socket[n][i].rows[j].heard
    BY DEF AgesExact
  <2>1. i \in 1..Len(socket[n])
    BY Domains DEF EInv, Types
  <2>2. socket[n][i] \in Message /\ Genuine(n, socket[n][i])
    BY <2>1 DEF EInv, Types, InFlight
  <2>3. j \in 1..Len(socket[n][i].rows)
    BY <2>2, Domains DEF Message
  <2> QED
    BY <2>2, <2>3 DEF Genuine
<1> QED
  BY <1>1, EvallinkCorrect, PTL

\* The assertions of send_cb, update_time and the filter stop a station only
\* when its clock was set back or a stranger sent an empty datagram.
THEOREM AbortsHaveCause == Spec => []AbortHasCause
<1>1. EInv => AbortHasCause
  BY DEF EInv
<1> QED
  BY <1>1, EvallinkCorrect, PTL

=============================================================================
