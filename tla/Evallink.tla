------------------------------ MODULE Evallink ------------------------------
(***************************************************************************)
(* The link table gossip of udp-test/evallink.c.  Every station broadcasts *)
(* the table inc of the stations it hears, with how long ago; a station    *)
(* that finds itself in such a message knows how it is heard, and keeps it *)
(* in its table out.  The messages cross a radio that loses them; they are *)
(* read through the filter of module Monitor, among other frames.          *)
(*                                                                         *)
(* Time is counted in ticks of 1/NS second.  An address stands for its     *)
(* station.  The fields heard and sent are not in the program: they are    *)
(* the true times, for the properties.                                     *)
(***************************************************************************)
EXTENDS Monitor, Sequences

CONSTANTS
  Node,        \* the stations that run evallink
  Strangers,   \* stations out of sight, each heard at most once
  Shown,       \* the stations with a display (no EVALLINK_FLAG_DAEMON)
  LINE_NB,     \* rows of the tables
  Signal,      \* Signal[m][n]: strength and
  Rate,        \* Rate[m][n]: rate at which n hears m
  Layout,      \* Layout[n]: where the driver of n puts the radiotap fields
  Unstamped,   \* the stations whose sockets give no time stamp
  NS,          \* 1000000000: nanoseconds in a second
  Boot,        \* CLOCK_REALTIME - CLOCK_MONOTONIC
  Back,        \* bound: by how much a clock is set back, once
  SockBuf,     \* packets a socket buffer holds
  Noise,       \* the frames of other programs that may come to a display
  MaxTime, MaxSends   \* bounds: ticks, broadcasts

Station == Node \cup Strangers

\* A radiotap header, as the standard has it: the fields are in the order of
\* their bits, each at a multiple of its alignment, with the least padding.
Standard(at) ==
  /\ at.len \in Nat /\ DOMAIN at.field \subseteq Field
  /\ \A f \in DOMAIN at.field :
       LET ends == {HeaderSize} \cup {at.field[g] + rt_sizes[g].size :
                                      g \in {h \in DOMAIN at.field : h < f}}
       IN /\ at.field[f] \in Nat /\ at.field[f] % rt_sizes[f].align = 0
          /\ at.field[f] + rt_sizes[f].size <= at.len
          /\ \A e \in ends : e <= at.field[f]
          /\ \E e \in ends : at.field[f] < e + rt_sizes[f].align

\* The frames that the filter is given, evallink's own aside.
Foreign == {"unicast", "empty", "runt", "magic", "tapver", "short", "control", "other",
            "group", "damaged", "ipv4", "tcp", "port", "length"}

\* Those that pass the filter and carry no data: the UDP length is that of the
\* header, or less.
NoData == {"empty", "runt"}

ASSUME EvallinkAssumption ==
  /\ Strangers \cap Node = {} /\ "other" \notin Node
  /\ Shown \subseteq Node /\ Unstamped \subseteq Node
  /\ {LINE_NB, NS, SockBuf} \subseteq Nat \ {0}
  /\ {Boot, Back, MaxTime, MaxSends} \subseteq Nat
  /\ Signal \in [Station -> [Station -> Int]]
  /\ Rate \in [Station -> [Station -> Int]]
  /\ Noise \subseteq Foreign
  /\ \A n \in Station : Standard(Layout[n])

VARIABLES
  state,    \* per station: "loop" or "aborted"
  now,      \* true time
  back,     \* per station: by how much CLOCK_REALTIME is behind it
  inc,      \* per station: struct line inc[], its rows in use
  out,      \* per station: struct line out[], its rows in use
  socket,   \* per station: packets received, not read
  sends,    \* broadcasts so far
  noise     \* per stranger: what came of its frame: "none" (not sent yet), "some",
            \* or "unicast", or "empty" (one of NoData)

vars == <<state, now, back, inc, out, socket, sends, noise>>

-----------------------------------------------------------------------------
(* Ages.                                                                   *)

Timespec(t) == [sec |-> t \div NS, nsec |-> t % NS]
Ticks(s) == s.sec * NS + s.nsec
CLOCK_REALTIME(n) == Timespec(now - back[n])

\* Mutant of Age: the second that was borrowed is not given back.
AgeNoCarry(t, s) ==
  IF t.nsec > s.nsec
  THEN [sec |-> t.sec - s.sec, nsec |-> t.nsec - s.nsec]
  ELSE [sec |-> t.sec - s.sec, nsec |-> NS - s.nsec + t.nsec]

\* The time from s to t.  Equal nanoseconds borrow, too.
Age(t, s) ==
  IF t.nsec > s.nsec
  THEN [sec |-> t.sec - s.sec, nsec |-> t.nsec - s.nsec]
  ELSE [sec |-> t.sec - s.sec - 1, nsec |-> NS - s.nsec + t.nsec]

\* Mutant of AgeAborts: a borrow that makes the seconds negative aborts.
AgeAbortsEarly(t, s) == t.nsec <= s.nsec /\ t.sec < s.sec + 1

\* assert(stamp.tv_sec >= output->stamp.tv_sec - 1)
AgeAborts(t, s) == t.nsec <= s.nsec /\ t.sec < s.sec - 1

Aged(n, row) == [row EXCEPT !.stamp = Age(CLOCK_REALTIME(n), row.stamp)]

\* Some row of inc cannot be aged: send_cb and update_time abort.
CannotAge(n, table) ==
  \E i \in DOMAIN table : AgeAborts(CLOCK_REALTIME(n), table[i].stamp)

-----------------------------------------------------------------------------
(* Frames.                                                                 *)

StationOf(n) ==
  [hw_addr |-> n, groupMac |-> "33:33", ip_addr |-> <<n>>,
   multicast |-> "ff02::2", port |-> 10102]

\* What the driver of n puts in front of a frame of m.
Tap(n, m) ==
  LET at == Layout[n] IN
  [version |-> 0, extended |-> FALSE, len |-> at.len, present |-> DOMAIN at.field,
   bytes |-> [o \in 0..(at.len - 1) |->
     CASE RATE \in DOMAIN at.field /\ o = at.field[RATE] -> Rate[m][n]
       [] DBM_ANTSIGNAL \in DOMAIN at.field /\ o = at.field[DBM_ANTSIGNAL] -> Signal[m][n]
       [] OTHER -> 255]]

\* The frame of an evallink packet p as the socket of n gives it.
Proper(n, p) ==
  [magic |-> TRUE, tap |-> Tap(n, p.from), size |-> 200, body |-> 44, qos |-> FALSE,
   type |-> "data", da |-> "33:33", crc |-> TRUE, ethertype |-> "ipv6", version |-> 6,
   dst |-> "ff02::2", next |-> "udp", dst_port |-> 10102, announced |-> 40,
   stamped |-> n \notin Unstamped, stamp |-> p.stamp]

\* The frames of other programs differ from it in what the filter looks at.
Frame(n, p) ==
  LET f == Proper(n, p) IN
  CASE p.kind = "evallink" -> f
    [] p.kind = "unicast"  -> [f EXCEPT !.da = n, !.dst = n, !.qos = TRUE, !.body = 46]
    [] p.kind = "empty"    -> [f EXCEPT !.body = 4, !.announced = 0]
    [] p.kind = "runt"     -> [f EXCEPT !.body = 2, !.announced = -2]
    [] p.kind = "magic"    -> [f EXCEPT !.magic = FALSE]
    [] p.kind = "tapver"   -> [f EXCEPT !.tap.version = 1]
    [] p.kind = "short"    -> [f EXCEPT !.body = -1, !.announced = -5]
    [] p.kind = "control"  -> [f EXCEPT !.type = "control"]
    [] p.kind = "other"    -> [f EXCEPT !.da = "other", !.dst = "other"]
    [] p.kind = "group"    -> [f EXCEPT !.dst = "ff05::2"]
    [] p.kind = "damaged"  -> [f EXCEPT !.crc = FALSE]
    [] p.kind = "ipv4"     -> [f EXCEPT !.ethertype = "ipv4"]
    [] p.kind = "tcp"      -> [f EXCEPT !.next = "tcp"]
    [] p.kind = "port"     -> [f EXCEPT !.dst_port = 9]
    [] p.kind = "length"   -> [f EXCEPT !.announced = 400]

\* What a packet may turn out to be: the kind of a foreign one is open until
\* it is read.
Read(p) ==
  IF p.kind = "noise" THEN {[p EXCEPT !.kind = kind] : kind \in Noise} ELSE {p}

\* A packet joins the socket buffers of those who hear it, if it has room.
Heard(by, p) ==
  socket' = [n \in Node |->
    IF n \in by /\ Len(socket[n]) < SockBuf
    THEN Append(socket[n], [p EXCEPT !.stamp = CLOCK_REALTIME(n)])
    ELSE socket[n]]

-----------------------------------------------------------------------------
(* The callbacks.                                                          *)

Abort(n) ==
  /\ state' = [state EXCEPT ![n] = "aborted"]
  /\ UNCHANGED <<inc, out>>

\* send_cb: the table of n, aged, ended by a zero entry.  A sendto that
\* fails changes nothing.  The monitoring interface shows what the station
\* itself sends; the others may lose it.
send_cb(n) ==
  /\ state[n] = "loop"
  /\ sends < MaxSends
  /\ ~CannotAge(n, inc[n])
  /\ \E by \in SUBSET (Node \ {n}) :
       Heard(by \cup {n}, [kind |-> "evallink", from |-> n, stamp |-> Timespec(0), sent |-> now,
                  heard |-> now, rows |-> [i \in DOMAIN inc[n] |-> Aged(n, inc[n][i])]])
  /\ sends' = sends + 1
  /\ UNCHANGED <<state, now, back, inc, out, noise>>

SendAborts(n) ==
  /\ state[n] = "loop"
  /\ CannotAge(n, inc[n])
  /\ Abort(n)
  /\ UNCHANGED <<now, back, socket, sends, noise>>

\* Mutant of Inc: the table has no end.
IncUnbounded(table, row) ==
  LET known == {i \in DOMAIN table : table[i].ip = row.ip} IN
  IF known # {} THEN [i \in DOMAIN table |-> IF i \in known THEN row ELSE table[i]]
  ELSE Append(table, row)

\* inc: the row of the sender, or the first free one, or none.
Inc(table, row) ==
  LET known == {i \in DOMAIN table : table[i].ip = row.ip} IN
  IF known # {} THEN [i \in DOMAIN table |-> IF i \in known THEN row ELSE table[i]]
  ELSE IF Len(table) < LINE_NB THEN Append(table, row)
  ELSE table

\* Mutant of Out: no address is compared at all.
OutFirst(table, incoming, row) ==
  IF table = <<>> THEN <<row>> ELSE [table EXCEPT ![1] = [row EXCEPT !.ip = table[1].ip]]

\* out: the first row that is free or whose row of inc is the sender's: its
\* address is not looked at, and is kept.
Out(table, incoming, row) ==
  LET fits == {i \in 1..LINE_NB : \/ i > Len(table)
                                  \/ i <= Len(incoming) /\ incoming[i].ip = row.ip}
      first == CHOOSE i \in fits : \A j \in fits : i <= j
  IN IF fits = {} THEN table
     ELSE IF first > Len(table) THEN Append(table, row)
     ELSE [table EXCEPT ![first] = [row EXCEPT !.ip = table[first].ip]]

\* The rows of p about n; the walk ends at the zero entry.
About(n, p) == {i \in DOMAIN p.rows : p.rows[i].ip = n}

Consumed(n, p) ==
  LET f == Frame(n, p)
      row == [ip |-> p.from, db |-> signal(f), rate |-> rate(f), heard |-> p.heard,
              stamp |-> StampOf(f, Timespec(now - Boot))]
      incoming == Inc(inc[n], row)
  IN [inc |-> incoming,
      out |-> IF n \in Shown /\ About(n, p) # {}
              THEN LET r == p.rows[CHOOSE i \in About(n, p) : TRUE]
                   IN Out(out[n], incoming, [r EXCEPT !.ip = p.from])
              ELSE out[n]]

\* Mutant of consume_data: a station keeps what it hears of itself.
consume_own_data(n, p) ==
  LET c == Consumed(n, p) IN
  /\ inc' = [inc EXCEPT ![n] = c.inc]
  /\ out' = [out EXCEPT ![n] = c.out]
  /\ UNCHANGED state

\* consume_data: locally issued packets are discarded.
consume_data(n, p) ==
  IF p.from = n THEN UNCHANGED <<state, inc, out>>
  ELSE LET c == Consumed(n, p) IN
       /\ inc' = [inc EXCEPT ![n] = c.inc]
       /\ out' = [out EXCEPT ![n] = c.out]
       \* update_time
       /\ state' = [state EXCEPT ![n] = IF n \in Shown /\ CannotAge(n, c.inc)
                                        THEN "aborted" ELSE @]

listen_cb(n) ==
  /\ state[n] = "loop"
  /\ socket[n] # <<>>
  /\ \E p \in Read(Head(socket[n])) :
       LET verdict == Verdict(StationOf(n), Frame(n, p)) IN
       /\ \/ verdict = "consume" /\ consume_data(n, p)
          \/ verdict = "return" /\ UNCHANGED <<state, inc, out>>
          \/ verdict = "abort" /\ Abort(n)
       /\ noise' = IF p.kind = "unicast" THEN [noise EXCEPT ![p.from] = "unicast"]
                   ELSE IF p.kind \in NoData THEN [noise EXCEPT ![p.from] = "empty"]
                   ELSE noise
  /\ UNCHANGED <<now, back, sends>>
  /\ socket' = [socket EXCEPT ![n] = Tail(@)]

-----------------------------------------------------------------------------
(* The outside.                                                            *)

Tick ==
  /\ now < MaxTime
  /\ now' = now + 1
  /\ UNCHANGED <<state, back, inc, out, socket, sends, noise>>

\* The clock of a station with a display is set back (bound: when MaxTime is
\* over).
SetBack ==
  /\ now = MaxTime
  /\ \E n \in Shown : back[n] = 0 /\ back' = [back EXCEPT ![n] = Back]
  /\ UNCHANGED <<state, now, inc, out, socket, sends, noise>>

\* What stranger m may say of n: heard just now.
JustHeard(n, m) ==
  [ip |-> n, db |-> Signal[n][m], rate |-> Rate[n][m], heard |-> now, stamp |-> Timespec(0)]

\* A stranger is heard by a station with a display.
OtherFrame(m) ==
  /\ noise[m] = "none"
  /\ noise' = [noise EXCEPT ![m] = "some"]
  /\ \E n \in Shown :
       /\ Len(socket[n]) < SockBuf
       /\ \E rows \in {<<>>, <<JustHeard(n, m)>>} :
            Heard({n}, [kind |-> "noise", from |-> m, stamp |-> Timespec(0),
                        sent |-> now, heard |-> now, rows |-> rows])
  /\ UNCHANGED <<state, now, back, inc, out, sends>>

-----------------------------------------------------------------------------

Init ==
  /\ state = [n \in Node |-> "loop"]
  /\ now = 0 /\ back = [n \in Node |-> 0]
  /\ inc = [n \in Node |-> <<>>] /\ out = [n \in Node |-> <<>>]
  /\ socket = [n \in Node |-> <<>>]
  /\ sends = 0 /\ noise = [m \in Strangers |-> "none"]

Next ==
  \/ \E n \in Node : send_cb(n) \/ SendAborts(n) \/ listen_cb(n)
  \/ \E m \in Strangers : OtherFrame(m)
  \/ Tick \/ SetBack

Spec == Init /\ [][Next]_vars

-----------------------------------------------------------------------------
(* Properties.                                                             *)

Row == [ip : Station, db : Int, rate : Int, heard : Nat,
        stamp : [sec : Int, nsec : 0..NS]]

TypeOK ==
  /\ state \in [Node -> {"loop", "aborted"}]
  /\ now \in 0..MaxTime /\ sends \in 0..MaxSends
  /\ back \in [Node -> {0, Back}]
  /\ \A n \in Node :
       /\ inc[n] \in Seq(Row) /\ out[n] \in Seq(Row)
       /\ Len(inc[n]) <= LINE_NB /\ Len(out[n]) <= LINE_NB
       /\ Len(socket[n]) <= SockBuf
       /\ \A i \in DOMAIN socket[n] : socket[n][i].rows \in Seq(Row)
  /\ noise \in [Strangers -> {"none", "some", "unicast", "empty"}]

\* The filter and the walk over the radiotap header together: a station only
\* knows stations that sent it an evallink message, and for each of them the
\* strength and the rate of that link, where its driver gives them (0 where
\* it does not).
IncTrue ==
  \A n \in Node : \A i \in DOMAIN inc[n] :
    LET row == inc[n][i]
        given(field) == field \in DOMAIN Layout[n].field
    IN /\ row.ip \in Strangers => noise[row.ip] = "unicast"
       /\ row.db = IF given(DBM_ANTSIGNAL) THEN Signal[row.ip][n] ELSE 0
       /\ row.rate = IF given(RATE) THEN Rate[row.ip][n] ELSE 0

\* One row per station, none for itself; as long as there is a free row,
\* everybody who reported about the station is also in its own table.
IncComplete ==
  \A n \in Node :
    /\ \A i, j \in DOMAIN inc[n] : inc[n][i].ip = inc[n][j].ip => i = j
    /\ \A i \in DOMAIN inc[n] : inc[n][i].ip # n
    /\ Len(inc[n]) < LINE_NB =>
         \A i \in DOMAIN out[n] : \E j \in DOMAIN inc[n] : inc[n][j].ip = out[n][i].ip

\* out is right as long as its rows come in the order of those of inc: then
\* each holds how that station hears this one.  (In another order it is not:
\* the code looks for the sender in inc and writes to out.)
OutTrueInOrder ==
  \A n \in Node :
    (\A i \in DOMAIN out[n] : i <= Len(inc[n]) /\ out[n][i].ip = inc[n][i].ip) =>
      \A i \in DOMAIN out[n] :
        DBM_ANTSIGNAL \in DOMAIN Layout[out[n][i].ip].field =>
          out[n][i].db = Signal[n][out[n][i].ip]

\* The ages on the air are those of the receptions they are about, a whole
\* number of seconds included, as long as the clock was not set back and the
\* stamps are those of CLOCK_REALTIME.
AgesExact ==
  \A n \in Node : \A i \in DOMAIN socket[n] :
    LET p == socket[n][i] IN
    p.from \in Node \ Unstamped /\ back[p.from] = 0 =>
      \A j \in DOMAIN p.rows : Ticks(p.rows[j].stamp) = p.sent - p.rows[j].heard

\* The assertions on ages and lengths only stop a station whose clock was
\* set back, or that was sent a datagram without data.
AbortHasCause ==
  \A n \in Node : state[n] = "aborted" =>
    \/ back[n] # 0
    \/ \E m \in Strangers : noise[m] = "empty"

=============================================================================
