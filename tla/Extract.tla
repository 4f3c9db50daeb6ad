------------------------------ MODULE Extract ------------------------------
(***************************************************************************)
(* The offline correlator of udp-test/extract.c.  Two logs, one per        *)
(* channel, are read in parallel; every line carries the counter the       *)
(* sender put in the packet and the time at which it was received.  The    *)
(* program lines the two counters up, estimates when each packet was due,  *)
(* drops packets that are too late, re-aligns the streams when their       *)
(* clocks drift apart, and counts for every slot which of the two          *)
(* channels delivered its packet.                                          *)
(*                                                                         *)
(* One action is one call of read_input (with the rest of the loop of      *)
(* next_input around it) or the code between two such calls.  A failing    *)
(* assert() or exit() stops the program: the action behind it is not       *)
(* enabled, and the invariants say where that cannot happen.               *)
(* Times are in ticks; the logs are generated line by line, as they are    *)
(* read, within the bounds given by the constants.                         *)
(***************************************************************************)
EXTENDS Integers

CONSTANTS
  Secure,    \* secure_interval, half a slot, in ticks
  Window,    \* DELAY_BEFORE_RESYNCHRONISATION
  Lead,      \* Lead[s]: the slot in which the sender of stream s uses count 0
  First,     \* the counters of the logs start at First or later
  Gaps,      \* by how much the counter may grow from one line to the next
  Delays,    \* how many ticks after its due time a packet may be logged
  MaxCount,  \* bound: the counters of the logs stay below it
  Files,     \* number of files of each log; 1: not rotated
  Stats      \* TRUE: option -s, the burst counters are allocated

Stream == {0, 1}

ASSUME ExtractAssumption ==
  /\ Secure \in Nat \ {0}
  /\ Window \in Nat
  /\ Lead \in [Stream -> Nat]
  /\ First \in Nat
  /\ Gaps \subseteq Nat
  /\ Delays \subseteq Nat
  /\ MaxCount \in Nat
  /\ Files \in Nat \ {0}
  /\ Stats \in BOOLEAN

Interval == 2 * Secure

VARIABLES
  states,           \* the two struct state, without signal strengths
  sync_count_diff,  \* count of stream 0 minus count of stream 1 in one slot
  u64_stats,        \* u64_stats[<<i, j>>]: slots with outcome i on 0 and j on 1
  bursts,           \* bursts[s][n]: losses of n packets in a row on stream s,
                    \* bursts[Coord][n]: losses of n slots in a row on both
  synced,           \* the counts at which the two inputs were synchronised
  log,              \* per stream: last line read, current file, file at EOF
  pc,               \* where the program is
  inc,              \* the stream next_input reads, while pc = "read"
  in_state,         \* the stream whose line was asked for
  then,             \* where to go once that line is there
  u64_temp          \* local of first_pass

vars == <<states, sync_count_diff, u64_stats, bursts, synced, log,
          pc, inc, in_state, then, u64_temp>>

Coord == 2  \* coordbursts

Other(s) == 1 - s
Sign(s) == IF s = 0 THEN 1 ELSE -1

\* When the packet with counter c of stream s should be received.
Due(s, c) == Interval * (c + 1 + Lead[s])

-----------------------------------------------------------------------------
(* Reading one line.                                                       *)

Lines(s) ==
  {l \in [count : {log[s].count + g : g \in Gaps} \cap 0..MaxCount,
          ts : {Due(s, log[s].count + g) + d : g \in Gaps, d \in Delays}] :
     /\ l.ts - Due(s, l.count) \in Delays
     /\ l.ts > log[s].ts}

Line(x, l) == [x EXCEPT !.count_old = x.count_new,
                        !.count_new = l.count,
                        !.timestamp = l.ts]

\* Mutant of temp_ts: the increase since the last packet but one.
temp_ts_old(x, l) == x.timestamp_old + Interval * (l.count - x.count_old)

\* When line l was expected, from the reference kept in x and the interval.
temp_ts(x, l) == x.timestamp_old + Interval * (l.count - x.count_new)

Resynchronised(x, ts) == [x EXCEPT !.timestamp_old = ts,
                                   !.resynchronisation_counter = 0,
                                   !.resynchronisation_min = Interval]

Late(x, lateness) ==
  [x EXCEPT !.resynchronisation_counter = @ + 1,
            !.resynchronisation_min = IF lateness < @ THEN lateness ELSE @]

NotIncreasing(x, l) == l.count <= x.count_new /\ l.count # 0
Synchronising(x) == x.timestamp_old = 0
TooEarly(x, l) == temp_ts(x, l) - l.ts > Secure

\* The return value of read_input and the state it leaves behind; -3 is exit.
read_input(x, l) ==
  LET y == Line(x, l)
      lateness == l.ts - temp_ts(x, l)
      z == Late(y, lateness)
  IN  IF NotIncreasing(x, l) THEN [ret |-> -3, st |-> y]
      ELSE IF Synchronising(x) THEN [ret |-> 1, st |-> y]
      ELSE IF TooEarly(x, l) THEN [ret |-> -3, st |-> y]
      ELSE IF lateness > Interval
        THEN [ret |-> 0,
              st |-> [y EXCEPT !.count_new = x.count_new,
                               !.desynchronization_drop_internal = @ + 1]]
      ELSE IF lateness <= 0 THEN [ret |-> 2, st |-> Resynchronised(y, l.ts)]
      ELSE IF z.resynchronisation_counter > Window
        THEN [ret |-> 3,
              st |-> Resynchronised(z, temp_ts(x, l) + z.resynchronisation_min)]
      ELSE [ret |-> 1, st |-> [z EXCEPT !.timestamp_old = temp_ts(x, l)]]

-----------------------------------------------------------------------------
(* next_input: compare the new reference with the one of the other stream. *)

other_ts(st, s) ==
  st[Other(s)].timestamp_old +
    Interval * (st[s].count_new - st[Other(s)].count_new
                - Sign(s) * sync_count_diff)

\* The streams drifted apart by more than 1.01 secure_interval.
Back(st, s) == 100 * (other_ts(st, s) - st[s].timestamp_old) > 101 * Secure
\* Mutant of Forward: the reference may run ahead by a whole slot more.
ForwardLoose(st, s) ==
  100 * (st[s].timestamp_old - other_ts(st, s)) > 101 * Secure + 100 * Interval

Forward(st, s) == 100 * (st[s].timestamp_old - other_ts(st, s)) > 101 * Secure

\* The last packet of s closed a run of losses: one of them can be forgotten.
HasLoss(x) == x.count_old # x.count_new - 1

RemovePacket(st, s) ==
  [st EXCEPT ![s].desynchronization_resync = @ + 1,
             ![s].count_old = IF HasLoss(st[s]) THEN @ + 1 ELSE @]

\* Mutant of Realign: the difference of the counters is corrected twice.
RealignTwice(st, s, diff) ==
  /\ states' = RemovePacket(st, s)
  /\ sync_count_diff' = diff + (diff - sync_count_diff)
  /\ IF HasLoss(st[s])
     THEN pc' = then /\ UNCHANGED inc
     ELSE inc' = s /\ UNCHANGED pc

\* One slot of stream s disappears: when there is no loss to forget, the
\* packet itself is forgotten and the loop reads stream s (again).
Realign(st, s, diff) ==
  /\ states' = RemovePacket(st, s)
  /\ sync_count_diff' = diff
  /\ IF HasLoss(st[s])
     THEN pc' = then /\ UNCHANGED inc
     ELSE inc' = s /\ UNCHANGED pc

\* The rest of the loop body after read_input returned ret for stream inc.
next_input(ret, st) ==
  LET paired == then \notin {"first", "sync"} IN
  \/ /\ ret = -3
     /\ pc' = "exit"
     /\ states' = st
     /\ UNCHANGED <<sync_count_diff, inc>>
  \/ /\ ret = 0
     /\ states' = st
     /\ UNCHANGED <<sync_count_diff, pc, inc>>
  \/ /\ ret = 2 /\ paired /\ Back(st, inc)
     /\ Realign(st, inc, sync_count_diff + Sign(inc))
  \/ /\ ret = 3 /\ paired /\ Forward(st, inc)
     /\ Realign(st, Other(inc), sync_count_diff - Sign(inc))
  \/ /\ ret > 0
     /\ ~(paired /\ ret = 2 /\ Back(st, inc))
     /\ ~(paired /\ ret = 3 /\ Forward(st, inc))
     /\ states' = st
     /\ pc' = then
     /\ UNCHANGED <<sync_count_diff, inc>>

ReadLine ==
  /\ pc = "read"
  /\ ~log[inc].ended
  /\ \E l \in Lines(inc) :
       LET r == read_input(states[inc], l) IN
       /\ log' = [log EXCEPT ![inc].count = l.count, ![inc].ts = l.ts]
       /\ next_input(r.ret, [states EXCEPT ![inc] = r.st])
  /\ UNCHANGED <<u64_stats, bursts, synced, in_state, then, u64_temp>>

\* Mutant of ReadEof: there is always a next file.
ReadEofNext ==
  /\ pc = "read"
  /\ \/ /\ then \in {"first", "sync"}
        /\ pc' = "exit"
        /\ log' = [log EXCEPT ![inc].ended = TRUE]
        /\ UNCHANGED inc
     \/ /\ then \notin {"first", "sync"}
        /\ log' = [log EXCEPT ![inc].ended = TRUE,
                             ![in_state].ended = FALSE,
                             ![in_state].file = @ + 1]
        /\ inc' = in_state
        /\ UNCHANGED pc
  /\ UNCHANGED <<states, sync_count_diff, u64_stats, bursts, synced,
                 in_state, then, u64_temp>>

\* The file of stream inc has no further line.  next_line_or_file opens the
\* next file of the stream it was called for; synchronize_input never does.
\* Asked again after the end of the file, zread_line leaves the length unset,
\* and read_input may take what it finds there for an error.
ReadEof ==
  /\ pc = "read"
  /\ \/ /\ log[inc].ended
        /\ pc' = "exit"
        /\ UNCHANGED <<log, inc>>
     \/ /\ then \in {"first", "sync"} \/ log[in_state].file = Files
        /\ pc' = IF then \in {"first", "sync"} THEN "exit" ELSE "eof"
        /\ log' = [log EXCEPT ![inc].ended = TRUE]
        /\ UNCHANGED inc
     \/ /\ then \notin {"first", "sync"} /\ log[in_state].file < Files
        /\ log' = [log EXCEPT ![inc].ended = TRUE,
                             ![in_state].ended = FALSE,
                             ![in_state].file = @ + 1]
        /\ inc' = in_state
        /\ UNCHANGED pc
  /\ UNCHANGED <<states, sync_count_diff, u64_stats, bursts, synced,
                 in_state, then, u64_temp>>

\* Ask for a line of stream s and continue at k.
Ask(s, k) ==
  /\ pc' = "read"
  /\ inc' = s
  /\ in_state' = s
  /\ then' = k

-----------------------------------------------------------------------------
(* synchronize_input.                                                      *)

SyncFirst ==
  /\ pc = "first"
  /\ Ask(1, "sync")
  /\ UNCHANGED <<states, sync_count_diff, u64_stats, bursts, synced, log,
                 u64_temp>>

Synchronised(x) == [x EXCEPT !.count_old = x.count_new,
                             !.timestamp_old = x.timestamp]

Sync ==
  /\ pc = "sync"
  /\ LET ts == states[0].timestamp - states[1].timestamp IN
     IF ts > Secure \/ ts < -Secure
     THEN /\ Ask(IF ts > Secure THEN 1 ELSE 0, "sync")
          /\ UNCHANGED <<states, sync_count_diff, synced>>
     ELSE /\ pc' = "pass"
          /\ sync_count_diff' = states[0].count_new - states[1].count_new
          /\ states' = [s \in Stream |-> Synchronised(states[s])]
          /\ synced' = [s \in Stream |-> states[s].count_new]
          /\ UNCHANGED <<inc, in_state, then>>
  /\ UNCHANGED <<u64_stats, bursts, log, u64_temp>>

-----------------------------------------------------------------------------
(* first_pass.                                                             *)

age(s) == states[s].count_new - states[s].count_old

\* Mutant of Count: the last slot is counted as lost, too.
CountAllLost(a, b, n) ==
  [u64_stats EXCEPT ![<<0, 0>>] = @ + n, ![<<a, b>>] = @ + 1]

\* The counters of n slots, the last with outcome <<a, b>>, the others lost
\* on both channels; an age of 0 still counts its one outcome.
Count(a, b, n) ==
  LET lost == IF n > 1 THEN n - 1 ELSE 0 IN
  [u64_stats EXCEPT ![<<0, 0>>] = @ + lost, ![<<a, b>>] = @ + 1]

\* ADD_BURST and REMOVE_BURST: a run of size - 1 losses came to its end.
\* With size = 0 the unsigned size - 1 wraps and the list has no such cell.
CanAddBurst(size) == Stats => size > 0
CanRemoveBurst(s, size) ==
  Stats => size > 0 /\ (size > 1 => bursts[s][size - 1] > 0)

\* Mutant of AddBurst: a burst of n losses goes to the counter of n + 1.
AddBurstShifted(s, size, n) ==
  IF Stats /\ size > 1 THEN [bursts EXCEPT ![s][size] = @ + n] ELSE bursts

AddBurst(s, size, n) ==
  IF Stats /\ size > 1 THEN [bursts EXCEPT ![s][size - 1] = @ + n] ELSE bursts

\* What assert() requires at the start of first_pass.
AgesOk == \A s \in Stream : age(s) >= 0
Aligned == states[0].count_old - states[1].count_old = sync_count_diff

\* The pending packets are claimed to be of the same slot, but are not.
Apart ==
  LET ts == states[0].timestamp - states[1].timestamp IN
  ts > Interval \/ -ts > Interval

\* Mutant of OutsideWindow: the drift of the clocks is added to the window.
OutsideWiderWindow(s) ==
  LET x == states[s]
      o == states[Other(s)]
  IN  o.timestamp_old - x.timestamp > Secure
        \/ x.timestamp - o.timestamp_old > Interval + Secure

\* The pending packet of s was too late compared with the other stream.
OutsideWindow(s) ==
  LET x == states[s]
      o == states[Other(s)]
  IN  o.timestamp_old - x.timestamp > Secure
        \/ x.timestamp - o.timestamp_old > Interval

Unread(s) ==
  [states EXCEPT
     ![s].desynchronization_drop_external = @ + 1,
     ![s].timestamp_old = @ - Interval * age(s),
     ![s].count_new = states[s].count_old]

AtPass == pc = "pass" /\ AgesOk /\ Aligned

\* Same age, but too far apart: one of the packets is dropped.  The program
\* would exit(4) if neither were OutsideWindow; see NeverGivesUp.
PassDrop(s) ==
  /\ AtPass /\ age(0) = age(1) /\ Apart
  /\ OutsideWindow(s)
  /\ s = 0 => ~OutsideWindow(1)
  /\ CanRemoveBurst(s, age(s))
  /\ bursts' = AddBurst(s, age(s), -1)
  /\ states' = Unread(s)
  /\ Ask(s, "update")
  /\ UNCHANGED <<sync_count_diff, u64_stats, synced, log, u64_temp>>

\* Both packets are of the same slot: the slot is counted, both advance.
PassBoth ==
  /\ AtPass /\ age(0) = age(1) /\ ~Apart
  /\ IF age(0) # 0
     THEN /\ u64_stats' = Count(1, 1, age(0))
          /\ bursts' = AddBurst(Coord, age(0), 1)
     ELSE UNCHANGED <<u64_stats, bursts>>
  /\ u64_temp' = states[1].count_old
  /\ Ask(0, "both")
  /\ UNCHANGED <<states, sync_count_diff, synced, log>>

\* Mutant of PassOne: the other stream advances to its own pending packet.
PassOneTooFar(s) ==
  /\ AtPass /\ age(s) < age(Other(s))
  /\ CanAddBurst(age(s))
  /\ bursts' = AddBurst(Coord, age(s), 1)
  /\ u64_stats' = Count(1 - s, s, age(s))
  /\ states' = [states EXCEPT ![Other(s)].count_old = @ + age(Other(s))]
  /\ Ask(s, "update")
  /\ UNCHANGED <<sync_count_diff, synced, log, u64_temp>>

\* Mutant of PassOne: the lost slots are counted for the other stream's age.
PassOneOtherAge(s) ==
  /\ AtPass /\ age(s) < age(Other(s))
  /\ CanAddBurst(age(s))
  /\ bursts' = AddBurst(Coord, age(s), 1)
  /\ u64_stats' = Count(1 - s, s, age(Other(s)))
  /\ states' = [states EXCEPT ![Other(s)].count_old = @ + age(s)]
  /\ Ask(s, "update")
  /\ UNCHANGED <<sync_count_diff, synced, log, u64_temp>>

\* The pending packet of s is of an earlier slot than the other one.
PassOne(s) ==
  /\ AtPass /\ age(s) < age(Other(s))
  /\ CanAddBurst(age(s))
  /\ bursts' = AddBurst(Coord, age(s), 1)
  /\ u64_stats' = Count(1 - s, s, age(s))
  /\ states' = [states EXCEPT ![Other(s)].count_old = @ + age(s)]
  /\ Ask(s, "update")
  /\ UNCHANGED <<sync_count_diff, synced, log, u64_temp>>

\* UPDATE_STATE: back to the main loop.
Update(s) ==
  /\ CanAddBurst(age(s))
  /\ bursts' = AddBurst(s, age(s), 1)

UpdateOne ==
  /\ pc = "update"
  /\ Update(in_state)
  /\ pc' = "pass"
  /\ UNCHANGED <<states, sync_count_diff, u64_stats, synced, log,
                 inc, in_state, then, u64_temp>>

\* How far the last line of stream 0 but one is ahead of that of stream 1.
Ahead == states[0].count_old - states[1].count_new - sync_count_diff

\* Stream 1 already has its next line: a re-alignment read it.
CatchUp ==
  /\ LET x == [states EXCEPT ![1].count_old = states[0].count_old - sync_count_diff]
         size == x[1].count_new - x[1].count_old
     IN  /\ CanAddBurst(size)
         /\ states' = x
         /\ bursts' = AddBurst(1, size, 1)
  /\ pc' = "pass"
  /\ UNCHANGED <<sync_count_diff, inc, in_state, then>>

\* After READ_LINE(0) in the branch of equal ages.
AfterBoth ==
  /\ pc = "both"
  /\ CanAddBurst(age(0))
  /\ pc' = "stats0"
  /\ bursts' = AddBurst(0, age(0), 1)
  /\ UNCHANGED <<states, sync_count_diff, u64_stats, synced, log,
                 inc, in_state, then, u64_temp>>

Untouched == u64_temp = states[1].count_old

AdvanceSecond ==
  /\ pc = "stats0"
  /\ \/ /\ Untouched \/ Ahead = 0
        /\ Ask(1, "update")
        /\ UNCHANGED <<states, sync_count_diff, bursts>>
     \/ /\ ~Untouched /\ Ahead < 0
        /\ CatchUp
     \/ /\ ~Untouched /\ Ahead = 1
        /\ Ask(1, "again")
        /\ UNCHANGED <<states, sync_count_diff, bursts>>
  /\ u64_temp' = 0
  /\ UNCHANGED <<u64_stats, synced, log>>

AfterAgain ==
  /\ pc = "again"
  /\ \/ Ahead < 0 /\ CatchUp
     \/ /\ Ahead = 0
        /\ Ask(1, "update")
        /\ UNCHANGED <<states, sync_count_diff, bursts>>
  /\ UNCHANGED <<u64_stats, synced, log, u64_temp>>

-----------------------------------------------------------------------------

NoInput == [count_new |-> 0, count_old |-> 0,
            timestamp |-> 0, timestamp_old |-> 0,
            desynchronization_drop_internal |-> 0,
            desynchronization_drop_external |-> 0,
            desynchronization_resync |-> 0,
            resynchronisation_counter |-> 0,
            resynchronisation_min |-> 0]

Init ==
  /\ states = [s \in Stream |-> NoInput]
  /\ sync_count_diff = 0
  /\ u64_stats = [o \in Stream \X Stream |-> 0]
  /\ bursts = [s \in Stream \cup {Coord} |-> [n \in 1..MaxCount |-> 0]]
  /\ synced = [s \in Stream |-> 0]
  /\ log = [s \in Stream |-> [count |-> First, ts |-> 0, file |-> 1, ended |-> FALSE]]
  /\ pc = "read" /\ inc = 0 /\ in_state = 0 /\ then = "first"
  /\ u64_temp = 0

Next ==
  \/ ReadLine \/ ReadEof
  \/ SyncFirst \/ Sync
  \/ PassBoth
  \/ \E s \in Stream : PassDrop(s) \/ PassOne(s)
  \/ UpdateOne \/ AfterBoth \/ AdvanceSecond \/ AfterAgain

Spec == Init /\ [][Next]_vars

-----------------------------------------------------------------------------
(* Properties.                                                             *)

InputType ==
  [count_new : Nat, count_old : Nat, timestamp : Nat, timestamp_old : Int,
   desynchronization_drop_internal : Nat,
   desynchronization_drop_external : Nat,
   desynchronization_resync : Nat,
   resynchronisation_counter : Nat,
   resynchronisation_min : Nat]

\* The values the variables of main() and of struct state may take; the
\* unsigned counters never go below zero.
TypeOK ==
  /\ states \in [Stream -> InputType]
  /\ sync_count_diff \in Int
  /\ u64_stats \in [Stream \X Stream -> Nat]
  /\ bursts \in [Stream \cup {Coord} -> [1..MaxCount -> Nat]]
  /\ synced \in [Stream -> Nat]
  /\ log \in [Stream -> [count : Nat, ts : Nat, file : 1..Files,
                         ended : BOOLEAN]]
  /\ pc \in {"read", "first", "sync", "pass", "update", "both", "stats0",
            "again", "eof", "exit"}
  /\ inc \in Stream /\ in_state \in Stream
  /\ then \in {"first", "sync", "update", "both", "again"}
  /\ u64_temp \in Nat

\* The three assertions at the start of first_pass never fail: whatever was
\* dropped, re-read or re-aligned since the last slot, the two streams start
\* the next one from the same slot (extract.c:840-845).
SyncAssert == pc = "pass" => AgesOk /\ Aligned

\* The assertions of the branch that repairs stream 1 after a re-alignment
\* during READ_LINE(0) never fail (extract.c:913 and 919).
BranchAssert ==
  /\ pc = "stats0" /\ ~Untouched => Ahead <= 1
  /\ pc = "again" => Ahead <= 0

\* UNREAD_LINE only takes back a burst UPDATE_STATE has counted, as the
\* comment and the assertions of decrease_counter demand (extract.c:62, 75).
BurstAssert ==
  \A s \in Stream :
    pc = "pass" /\ age(0) = age(1) /\ Apart /\ OutsideWindow(s)
      => CanRemoveBurst(s, age(s))

Slots == u64_stats[<<0, 0>>] + u64_stats[<<0, 1>>] + u64_stats[<<1, 0>>] + u64_stats[<<1, 1>>]

\* The statistics count every slot between the synchronisation and the
\* current slot exactly once: on each stream the slots counted and the slots
\* removed by re-alignments add up to the progress of its counter.
SlotAccounting ==
  pc = "pass" =>
    \A s \in Stream :
      Slots + states[s].desynchronization_resync
        = states[s].count_old - synced[s]

\* exit(4), "Real big desynchronization that wasn't corrected by the
\* algorithm" (extract.c:873-880), is dead code: of two packets of the same
\* age that are too far apart, one is always outside the other's window.
NeverGivesUp ==
  pc = "pass" /\ age(0) = age(1) /\ Apart
    => \E s \in Stream : OutsideWindow(s)

\* What the re-alignment of next_input is for: in front of every slot, the
\* dates at which the two streams expect the same slot differ by at most
\* 1.01 secure_interval.
Drift == states[0].timestamp_old - other_ts(states, 0)
DriftBounded ==
  pc = "pass" => 100 * Drift <= 101 * Secure /\ -100 * Drift <= 101 * Secure

\* A packet that arrives before its due date never aborts the run: "We are
\* correcting this kind of drift at each step, thus this should not happen"
\* (extract.c:383).
NeverTooEarly ==
  pc = "read" /\ ~Synchronising(states[inc])
    => \A l \in Lines(inc) : ~TooEarly(states[inc], l)

\* When Window packets in a row were late, the reference moves forward by
\* the "Minimum lateness of packets that were successively late"
\* (extract.c:114), hence by more than nothing.
ForwardMoves ==
  [][\A s \in Stream :
       /\ pc = "read" /\ inc = s
       /\ states'[s].count_new # states[s].count_new
       /\ states[s].resynchronisation_counter = Window
       /\ states'[s].resynchronisation_counter = 0
       /\ log'[s].ts > temp_ts(states[s], log'[s])
       => states'[s].timestamp_old > temp_ts(states[s], log'[s])]_vars

=============================================================================
