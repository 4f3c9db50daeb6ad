------------------------------ MODULE Measure -------------------------------
(***************************************************************************)
(* A measurement over one link: udp-test/client.c sends trains of frames   *)
(* that carry its counter, a recorder logs the frames that reach it, and   *)
(* extract, given one log only (simple_print of udp-test/extract.c), turns *)
(* the counters of the log into a trace: one bit per counter, TRUE if it   *)
(* was received.  The time slot is not given, so no frame is too late.     *)
(***************************************************************************)
EXTENDS Integers, Sequences, SequencesExt

CONSTANTS
  Trains,      \* the train sizes that are tried (-t)
  MaxFrames,   \* bound: frames sent
  MaxRestarts  \* bound: restarts of the client

ASSUME MeasureAssumption ==
  /\ Trains \subseteq Nat \ {0}
  /\ MaxFrames \in Nat /\ MaxRestarts \in Nat

VARIABLES
  phase,     \* "send", "extract", "exit" (extract gave up), "flood", "done"
  train,     \* train_size
  count,     \* count of struct client_buffer
  left,      \* frames of the train still to be sent
  sent,      \* frames sent
  restarts,  \* restarts of the client so far
  repeated,  \* a frame was received twice
  log,       \* the counters in the log of the recorder
  line,      \* lines that extract has read
  trace      \* the output of extract

client == <<train, count, left, sent, restarts, repeated, log>>
measure == <<phase, client, line, trace>>

-----------------------------------------------------------------------------
(* client.c.                                                               *)

\* event_cb
TrainStarts ==
  /\ phase = "send" /\ left = 0
  /\ left' = train
  /\ UNCHANGED <<phase, train, count, sent, restarts, repeated, log, line, trace>>

Copies == {0, 1} \cup (IF repeated THEN {} ELSE {2})

\* Mutant of SendFrame: the counter is not increased.
SendFrameKeepsCount ==
  /\ phase = "send" /\ left > 0
  /\ sent < MaxFrames
  /\ sent' = sent + 1
  /\ \E n \in Copies :
       /\ log' = log \o [i \in 1..n |-> count]
       /\ repeated' = (repeated \/ n = 2)
  /\ left' = left - 1
  /\ UNCHANGED <<phase, train, count, restarts, line, trace>>

\* A frame is lost, received, or received again when its acknowledgement was
\* lost.  The counter is increased after the last frame of the train.
SendFrame ==
  /\ phase = "send" /\ left > 0
  /\ sent < MaxFrames
  /\ sent' = sent + 1
  /\ \E n \in Copies :
       /\ log' = log \o [i \in 1..n |-> count]
       /\ repeated' = (repeated \/ n = 2)
  /\ left' = left - 1
  /\ count' = IF left = 1 THEN count + 1 ELSE count
  /\ UNCHANGED <<phase, train, restarts, line, trace>>

\* sendto fails: the rest of the train is given up, its counter comes again.
SendFails ==
  /\ phase = "send" /\ left > 0
  /\ left' = 0
  /\ UNCHANGED <<phase, train, count, sent, restarts, repeated, log, line, trace>>

\* The client is stopped, or dies, and is started again, from 0.
Restart ==
  /\ phase = "send"
  /\ restarts < MaxRestarts
  /\ restarts' = restarts + 1
  /\ count' = 0 /\ left' = 0
  /\ UNCHANGED <<phase, train, sent, repeated, log, line, trace>>

\* The measurement is over; extract is started on the log.
Collect ==
  /\ phase = "send"
  /\ phase' = "extract"
  /\ UNCHANGED <<client, line, trace>>

-----------------------------------------------------------------------------
(* simple_print.                                                           *)

\* The first line only sets the counter.
FirstLine ==
  /\ phase = "extract" /\ line = 0
  /\ IF log = <<>> THEN phase' = "exit" /\ UNCHANGED line
                   ELSE line' = 1 /\ UNCHANGED phase
  /\ UNCHANGED <<client, trace>>

count_old == log[line]
count_new == log[line + 1]
NotStrictlyIncreasing == count_new <= count_old /\ count_new # 0

\* Mutant of Bits: the bound of the loop is missed by one.
BitsOneMore(old, new) == [i \in 1..(new - old) |-> FALSE] \o <<TRUE>>

\* A 0 for every counter in between, and a 1.
Bits(old, new) == [i \in 1..(new - old - 1) |-> FALSE] \o <<TRUE>>

NextLine ==
  /\ phase = "extract" /\ 0 < line /\ line < Len(log)
  /\ ~NotStrictlyIncreasing /\ count_new # 0
  /\ trace' = trace \o Bits(count_old, count_new)
  /\ line' = line + 1
  /\ UNCHANGED <<phase, client>>

\* read_input exits: "count isn't strictly increasing".
BadLine ==
  /\ phase = "extract" /\ 0 < line /\ line < Len(log)
  /\ NotStrictlyIncreasing
  /\ phase' = "exit"
  /\ UNCHANGED <<client, line, trace>>

\* read_input lets a counter of 0 pass; the loop goes up to count_new - 1,
\* which is 2^64 - 1: as good as an endless file of zeros.
ZeroLine ==
  /\ phase = "extract" /\ 0 < line /\ line < Len(log)
  /\ count_new = 0
  /\ phase' = "flood"
  /\ UNCHANGED <<client, line, trace>>

EndOfLog ==
  /\ phase = "extract" /\ 0 < line /\ line = Len(log)
  /\ phase' = "done"
  /\ UNCHANGED <<client, line, trace>>

-----------------------------------------------------------------------------

MeasureInit ==
  /\ phase = "send"
  /\ train \in Trains
  /\ count = 0 /\ left = 0 /\ sent = 0 /\ restarts = 0 /\ repeated = FALSE
  /\ log = <<>> /\ line = 0 /\ trace = <<>>

MeasureNext ==
  \/ TrainStarts \/ SendFrame \/ SendFails \/ Restart \/ Collect
  \/ FirstLine \/ NextLine \/ BadLine \/ ZeroLine \/ EndOfLog

-----------------------------------------------------------------------------
(* Properties.                                                             *)

\* extract only gives up, or floods its output, on a log that has a reason:
\* trains of several frames, a frame that came twice, a client that was
\* started again.  A sendto that failed is none (event_cb, client.c:113).
ReadsCleanLogs ==
  phase \in {"exit", "flood"} /\ log # <<>> => train > 1 \/ repeated \/ restarts > 0

\* The trace of a log that was read to its end has one bit per counter after
\* the first one logged, up to the last one, and the bit is the fate of that
\* counter, however often frames came twice or sendto failed; a client that
\* was started again is either noticed or cannot be told from losses.
TraceIsFate ==
  phase = "done" /\ log # <<>> =>
    /\ Len(trace) = log[Len(log)] - log[1]
    /\ \A i \in DOMAIN trace : trace[i] <=> log[1] + i \in ToSet(log)

=============================================================================
