# Verification of click-wifiChannels

The repository measures and replays the losses of two 802.11 channels. A
*client* broadcasts a numbered packet per interval on each channel, a *server*
in monitor mode records what it hears in rotated, compressed logs, *extract*
reads two such logs side by side and counts, slot by slot, which of the two
packets got through, the *parameters* programs fit loss models to the resulting
traces, and the Click *elements* replay those models on live traffic.

This directory holds the TLA+ models of that code, the TLC runs that check them
and the proofs TLAPS checks. All paths below are relative to `src/`.

## 1. Inventory

### udp-test/extract.c - the offline correlator (modelled)

* **State.** Two `struct state` (counter and date of the last two packets of a
  stream, resynchronisation window, numbers of drops), the global
  `sync_count_diff` (difference of the counters of the two streams in one
  slot), the four outcomes `u64_stats`, the lists of burst lengths, the two
  zlib readers and, for rotated inputs, the number of the current file.
* **Operations.** `synchronize_input` reads until two packets are of one slot.
  `first_pass`, called in a loop, compares the *ages* (increase of the counter)
  of both pending packets and advances one stream or both. It reads through
  `next_line_or_file` (next file at the end of one), `next_input` (re-alignment
  of the streams when their clocks drift apart) and `read_input` (parse,
  estimate the due date, drop, resynchronise).
* **Hard parts.** `read_input` may drop and read again, `next_input` may change
  the *other* stream while one is asked for, `first_pass` may take back a
  packet. Five assertions of the source guard the alignment; two `exit` calls
  are claimed to be unreachable.
* **Correct when** the streams stay aligned, every slot is counted once, and on
  well-behaved logs the counters equal what the logs contain.

### udp-test/zutil.c - compressed files (modelled)

* **Writer** (`zinit_write`, `zadd_data`, `zend_data`): an output buffer between
  zlib and a file. Correct when nothing is lost between the buffer, zlib and the
  file, and a closed file is complete.
* **Line reader** (`zinit_read`, `zutil_read_input`, `zread_line`): a buffer of
  two halves filled alternately; a line may straddle them in either order.
  Correct when it returns the lines of the text, whole and in order.

### udp-test/server.c - the recorder (modelled)

* **State.** The current output stream and file name, `filename_count`, libev
  events for packets, rotation, shutdown.
* **Operations.** `read_cb`/`consume_data` append a record, `reload_cb` rotates,
  the signal handlers `reload` and `down` arm events, `event_end` leaves the
  loop, the end of `main` closes the file.
* **Hard parts.** Any order of packets, rotations and signals; a rotation that
  fails at `fopen`, in `zend_data` (when the new file is already there) or in
  `zinit_write`; an `fclose` that fails unseen; a crash leaves a file without
  trailer; 1000 files at most.
* **Interaction.** The files are the message to `extract`, which goes from one
  to the next on its own count (module Rotation composes the two).

### udp-test/client.c and simple_print of extract.c (modelled)

* **State.** The counter, the train being sent; for the reader the line, the
  last two counters and the trace it prints, one bit per counter.
* **Operations.** `event_cb` sends a train of equal packets and increases the
  counter only if all of them were sent; `simple_print` turns the counters of one
  log into zeros and ones.
* **Hard parts.** A train that is sent in part, packets that are lost or received
  twice, a client that is started again: all change the counters `read_input`
  then accepts or refuses.
* **Correct when** the trace is the fate of every counter, and reading only fails
  on a log that has a reason.

### udp-test/monitor.c and radiotap-parser.c, frame filter (modelled)

* **State.** None but the addresses and the port listened on.
* **Operations.** `read_and_parse_monitor` repeats the checks of the 802.11, IPv6
  and UDP layers on a raw frame; `ieee80211_radiotap_iterator_next` walks over
  the aligned fields of the header in front of it.
* **Correct when** exactly the intended datagrams pass, with the strength and the
  rate of their own frame.

### udp-test/evallink.c (modelled in part)

* **State.** Per station the tables `inc` (whom it hears) and `out` (who hears it),
  of `LINE_NB` rows each.
* **Operations.** `send_cb` broadcasts `inc` with ages instead of dates,
  `listen_cb`/`consume_data` take a message in.
* **Hard parts.** Several stations with clocks of their own, tables that fill up
  in different orders, lost messages, arithmetic on `struct timespec`.

### parameters/ (modelled)

* **State.** The buffers of ParamBasicOnOff (current burst), ParamMarckovChain
  (last K bits) and ParamBasicMTA (both, a threshold, the run in progress).
* **Operations.** `addChar`, `nextRound`, `finalize`, `printBinary`, called by
  `main` over the trace, once or twice.
* **Hard parts.** Two rounds over the input, bursts at the threshold, the last
  burst, files that could not be written.

### elements/ and tests/ (modelled)

* **State.** The distributions loaded, the rest of the current burst, the last K
  outcomes.
* **Operations.** `initialize` loads, `push` (in tests/: `generate`) decides a
  packet; `thresholdrand` is a binary search in a cumulative distribution.
* **Hard parts.** Distributions of no or one point, incomplete files, and the
  chain that only sees the packets inside error bursts.

Section 6 lists what is not modelled.

PROJECT.json lists every component with its state of modelling, and every
hazard at its line.

## 2. Modules

| Module | Models | Extends |
|---|---|---|
| Extract | extract.c: `read_input`, `next_input`, `next_line_or_file`, `synchronize_input`, `first_pass` | |
| ExtractTruth | Extract with the history of the lines read: what the statistics should be | Extract |
| ZutilWrite | zutil.c, writer | |
| LineReader | the promise of `zread_line` (abstract) | |
| ZutilRead | zutil.c, reader; implements LineReader | instance of LineReader |
| Server | server.c, the event loop | |
| Rotation | Server and the file changes of extract.c that read what it left | Server |
| Measure | client.c `event_cb`; extract.c `simple_print` | |
| Estimators | parameters/: the three estimators, as operators on records | |
| Channel | elements/: `thresholdrand` and the step of the chain, as operators | |
| Replay | parameters/main.cpp, the files, elements/ and tests/: from a measurement to its replay | Estimators, Channel, Measure |
| Radiotap | radiotap-parser.c, as operators on a header | |
| Monitor | monitor.c `read_and_parse_monitor`, as operators on a frame | Radiotap |
| Evallink | evallink.c on several stations | Monitor |
| MC* | values of constants for TLC | the module named |
| ZutilWriteProofs | proofs about the writer | ZutilWrite |
| ExtractProofs | proofs about the counters and about the dates, with the lemmas on the operators | Extract |
| ExtractTruthProofs | proofs that the statistics are exact, and about rotated logs | ExtractTruth, ExtractProofs |
| ZutilReadProofs | proofs about the line reader, its refinement included | ZutilRead |
| RotationProofs | proofs about the recorder and the reading of what it left | Rotation |
| EvallinkProofs | proofs about the gossip | Evallink |
| EstimatorProofs | lemmas: what each estimator has counted after any number of bits | Replay |
| ReplayProofs | proofs about the measurement, the tables, the channel and the whole way between them | EstimatorProofs |

### Extract

The program is sequential; its nondeterminism is in the logs. They are generated
as they are read: `Lines(s)` are the lines that may come next on stream `s`, with
a counter that grows by a member of `Gaps` and a date at most `Delays` after the
due date `Due(s, c)`. One action is one call of `read_input` together with the
rest of the loop body of `next_input` (`ReadLine`), the end of a file
(`ReadEof`), or the straight-line code between two reads. `pc` says where the
program is; `READ_LINE` is `Ask(s, k)`: read stream `s`, then go on at `k`
("update", "both", "again" are the points of `first_pass` behind its calls).
`inc` is the stream `next_input` reads *now*, `in_state` the one it was called
for: they differ after a re-alignment.

A failing `assert` or an `exit` has no successor. The invariants say where this
cannot happen, so that nothing is hidden by it: SyncAssert and BranchAssert are
the assertions of `first_pass`, NeverGivesUp is its `exit(4)`. Some exits are
allowed: a counter that does not increase and a packet that is too early end the
program in `pc = "exit"`. The two assertions inside `next_input` (lines 457 and
479) follow from the condition of their branch and `interval` being twice
`secure_interval`; they are not stated on their own.

Times are ticks, `secure_interval` is `Secure` and `interval` is `2 * Secure`,
as in `main`; the factor 1.01 of the source is kept exactly (101/100).
Abstracted: addresses (a line of another source is skipped by the reader and
would change nothing but the previous counter), signal strengths, the k-step
histogram and the temporal correlation, floating-point rounding, the wrap of
64-bit counters.

The end of the file is read as the code does it: asked again behind the end,
`zread_line` leaves the length unset, so that `read_input` may exit or report
the end (both are in `ReadEof`).

### ExtractTruth

`seen[s]` is the set of counters read so far from log `s`. Slot `t` is the
packet with counter `t - Lead[s]` of stream `s`. StatsExact and BurstsExact
compare the counters of the program with cardinalities over `seen`.

### ZutilWrite

Data is counted. `deflateNoFlush` takes any part of its input and emits any part
of what it holds, but stops only when input or room is used up; `deflateFinish`
emits all it holds and the trailer. A failed `fwrite` is the end of the program.

### ZutilRead and LineReader

A cell of the buffer holds the *position* in the text of its byte, so a line is
right when its cells are consecutive positions and the cell behind it is `NUL`:
a wrong copy, a stale byte or a wrong length would show. `Fill` is one call of
`zutil_read_input`: a block read from the file may expand to any number of bytes
in `Blocks`, which may be more or less than a half. LineReader returns the lines
of an abstract text. The refinement maps the unread bytes and the last result.

### Server and Rotation

Packets are numbers in the order of their arrival. The actions are the callbacks
of libev, which run one at a time; signals arm events at any moment between
two of them. `reload_cb` has an action for each way it ends:

| Action | `reload_cb` |
|---|---|
| ReloadUnnamed | the output is the standard output, which is not rotated |
| ReloadNoName | the numbers are used up |
| ReloadFails | `fopen` fails; the old file stays in use |
| ReloadCb | the old file is complete, the new one is open |
| ReloadUnflushed | the same, but `fclose` could not write the rest of the old file, which nobody asks it |
| ReloadEndFails | `zend_data` exits: a cut file beside an empty new one |
| ReloadInitFails | `zinit_write` fails: a complete file beside an empty new one |

The end of `main` is `Close`, or `CloseUnflushed` if `fclose` fails. `Crash` is the
death of the process between two callbacks, or the `exit(1)` of `zadd_data`, or
that of `zend_data` at the end of `main`. `Remains` is what is left of a file that
could not be written to its end: an arbitrary prefix of it, without a trailer
(state "cut"), or not a byte (state "empty"). `lost` is not in the program: it says
that an `fclose` failed, for the properties that do not hold then.
The order in which due events of one loop iteration run is not fixed in the
model, as it depends on libev's priorities and queues.

The reader has an action for each thing that can happen at the end of a file
(`NoLine`). Nothing in it asks zlib whether the stream is complete, so that a cut
file ends like any other: with `NextFile` (with `-r`) or `NotRotated`. Only
where the cut falls badly does it end in an error (`BrokenFile`): in the middle of
a line, behind its date, or after a whole number of blocks, which zlib reports
as `Z_BUF_ERROR`. An empty file is refused by `zinit_read`: as the first file it is
an error (`Start`), as a later one it is the end (`Opens`). `NoInput` is a first
file without any packet: the first line is read by a function that does not
go to the next file.

### Measure, Estimators, Channel and Replay

Replay is the whole way of the data. *Measure* is the first part: the actions of
the client build a log, those of `simple_print` read it. The interval is not
given to extract, so the code about late packets is not reached. When the trace
is there (`phase = "done"`), `ParseInput` starts an estimator of any class;
`Feed` is one character of `extract` in parameters/main.cpp. Estimators and
Channel hold no variables: an estimator object is a record, its methods are
operators on it, a `std::map` from lengths to counts is a bag. A BasicMTA
contains the two others, and `mod` always has their fields.

Kept as the code has it: the second round starts in the state in which the first
ended; the counters of the chain start with what `new uint64_t[]` returned
(`Heaps`); a rejected character only ends the trace, as the result of `extract` is
ignored; an input that cannot be opened is an empty trace; an output that cannot
be opened goes unnoticed; a failed write ends the program and leaves a cut file,
which loads as no distribution at all. Click (external) refuses an element only
when `initialize` is negative, tests/ when it is not 0. `thresholdrand` is one
action per iteration of its loop; the rest of a `push` is `Emit`.

The cumulative probabilities are exact quotients rounded down. The threshold C is
computed with doubles in the code: where the exact value of mean plus deviation
is an integer, both that integer and the one below are tried (`Thresholds`).

### Radiotap, Monitor and Evallink

Every station of `Node` runs evallink; `Strangers` are other senders. A message is
a frame like any other: it becomes a record of the fields the filter looks at
(`Frame`), with the radiotap header its receiver's driver writes (`Layout`), and
goes through `Verdict`. Of the frames of other programs there is one kind for each
early return of the filter, one accepted unicast frame with a QoS field, and two
datagrams without data that pass the filter: an empty one, and one that announces
less than the header of UDP. The kind of a foreign frame is decided when it is read, which is
when it first matters. One tick is one `NS`-th of a second, so a `struct timespec`
wraps often. `heard` and `sent` in the rows are true times for the properties;
the program has no such fields. The display only matters through the assertions
of `update_time` and the condition in `consume_data`.

Two definitions say what is assumed of the outside. `Standard` is what the
radiotap standard says of a header: its fields are in the order of their bits,
each at a multiple of its alignment, with the least padding, and inside it. `Foreign` is the list of the kinds of
frames that are not evallink messages; `Noise` is a part of it.

## 3. Runs

All runs are small; each ends in seconds to about two minutes.

| Run | Checks | Shows |
|---|---|---|
| Extract | TypeOK, SyncAssert, BranchAssert, SlotAccounting, NeverGivesUp, DriftBounded | with losses, repeated counts and delays of more than a slot the streams stay aligned, every slot is counted once and the clocks agree |
| ExtractTruth | StatsExact, BurstsExact, NeverTooEarly | with delays of less than half a slot the statistics are the truth, across files |
| ExtractBursts | BurstAssert (violated) | finding 1 |
| ExtractRotated | SyncAssert (violated) | finding 2 |
| ExtractForward | ForwardMoves (violated) | finding 3 |
| ZutilWrite | TypeOK, ReadyWhenIdle, NothingLost, ClosedComplete, CallsReturn | no data is lost, whatever deflate chooses |
| ZutilRead | TypeOK, BufferKeepsText, ReadsLines | refinement of LineReader |
| ZutilReadSplit | EndsAtLineEnd (violated) | finding 4 |
| Rotation | TypeOK, OneOpenFile, FilesHoldRecording, ReadsPrefix, ReadsInOrder, ReadsFinished, ErrorHasCause, SignalStops | the logs are the recording, the reader sees a prefix of it, all of it if the recorder ended on a signal, and gives up only for a stated cause; if `fclose` lost the end of a file it still sees the packets in order |
| RotationGap | UsesAllFiles (violated) | finding 5 |
| Replay | TypeOK, ReadsCleanLogs, TraceIsFate, CountsTrace, ChainCountsTrace, DrawInverse, ChainReplays, WildHasCause, PacketLeaves | what the trace says is what happened on the air, what the tables count is what the trace says, what is replayed has the frequencies of the trace, and a packet leaves the channel |
| Evallink | TypeOK, IncTrue, IncComplete, OutTrueInOrder, AgesExact, AbortHasCause | only real evallink links enter the tables, with the values of their own frame; a row of `out` that is updated in place is right as long as both tables are in the same order; ages are right; an abort has an outside cause |

Every property of a passing run has a mutant in PROJECT.json: a form of one
mapped definition with a plausible bug, under which TLC finds the property
violated. Mutants stand directly above the definition they change.

### Bounds

* **Extract**: 7 counters (`MaxCount = 6`), one slot is 4 ticks, delays 0, 2 and
  5 ticks: on time, just half a slot (the edge of `secure_interval`) and more
  than a slot, so that a packet can be due, late, dropped, and the reference can
  move forward and back. `Window = 1` instead of 5000 lets windows fill up
  repeatedly. `Lead` gives stream 1 another first counter. Gaps of 0 are
  repeated packets. Every branch of `first_pass` fires, with re-alignments in
  both directions. The invariants are also proved (section 5), so that the
  bounds only have to be large enough to make the properties meaningful.
* **ExtractTruth**: delays of 0 and 1 tick are those below half a slot
  (`Secure = 2`): with 2 ticks StatsExact is false. Gaps up to 3 give bursts of
  up to two losses on each stream and on both; two files each.
* **ZutilWrite**: a buffer of 3, blocks below, at and above it, a trailer that
  straddles it.
* **ZutilRead**: all texts of up to 11 bytes with newlines anywhere, halves of 4
  bytes: the halves alternate three times, with lines of 1 to 3 bytes that end
  on, before and behind the border. Blocks of 3 and 4 bytes are at most one half;
  larger ones are finding 4. Texts with a longer line or without final newline
  are outside the promise of LineReader, but inside BufferKeepsText.
* **Rotation**: three names instead of 1000, a socket buffer of two, three
  packets: enough for one packet per file, an overflow, the last name, and a file
  on either side of one that was cut. The output is named or not.
* **Replay**: 7 frames, trains of 1 and 2, one restart, one frame received
  twice: enough for every pair of reasons why a counter comes again. Chains of
  order 2, random numbers 0 to 4. Besides the traces of those measurements, a few
  recorded ones with bursts of three and four lengths, so that `thresholdrand`
  has to move both of its bounds, and the empty and the one-bit trace, which
  leave a distribution without a point. Memory that is clear, and memory that
  is not.
* **Evallink**: two stations and two strangers with two rows per table, so that a
  table fills up and an order can differ; half a second per tick (`NS = 2`), so
  that equal, smaller and larger nanoseconds occur; a clock that is set back by
  more than a second; one station without socket time stamps and without
  display. Two layouts of the radiotap header: one with the 8-byte clock and all
  fields, one with padding and without a rate.
  The clock is only set back when `MaxTime` is over. A station can report on
  another after it has heard it, and `out` is updated in place from its second
  report on: three sends (`MaxSends`), one of the one station and two of the other.
  With a stranger's report before them, that is in tables of two rows in one order
  and in different ones; without its premise OutTrueInOrder is false.

Deadlock is not checked: every one of these programs stops.

### Fairness

* ZutilWrite: `zadd_data` and `zend_data` run on once they are called (weak
  fairness of their rounds). deflate's progress is in the model of deflate, not
  in the fairness.
* Rotation: libev runs an event that is due (weak fairness of the rotation
  callback, of `event_end` and of the end of `main`). Nothing is assumed of packets, signals or crashes, nor that the server
  ever ends.
* Replay: a packet that was pushed is worked on until it leaves the element (weak
  fairness of `SearchMoves`, `SearchEnds` and `Emit`), as `push` runs to its end
  on one thread. Nothing else is fair: no packet need come.

## 4. Findings

1. **BurstAssert** (extract.c:786). `UNREAD_LINE` subtracts a burst for the age
   of the pending packet, but a partial advance may have shortened that age since
   `UPDATE_STATE` added it. The decreased counter can be zero: the assertion of
   `decrease_counter` fails under `-s`; when the counter happens to be positive,
   a wrong one is decreased.
2. **SyncAssert on rotated logs** (extract.c:565). `next_line_or_file` replaces
   the file of the stream it was called for. A re-alignment may have met the end
   of the *other* stream's file: the wrong file is skipped, and the streams fall
   out of step.
3. **ForwardMoves** (extract.c:404). `resynchronisation_min` starts at 0, not at
   `interval`: the first forward resynchronisation never moves the reference.
4. **EndsAtLineEnd** (zutil.c:170). A half that is not filled counts as the end
   of the file. When a compressed block expands to more than the room left,
   `inflate` returns early and a line in the middle of the file is cut.
5. **UsesAllFiles** (server.c:318). A failed `fopen` leaves a hole in the
   numbering of the files; `extract -r` stops there.

Read off the code, each at its line, without a run that fails (a passing run
states the condition under which the rest is right):

6. **markovchain.cpp:19**. The counters of the chain are not cleared. The chain
   is right on top of what the memory held (ChainCountsTrace), and replays the
   trace if that was zero (ChainReplays).
7. **basiconoffchannel.cc:23**. `thresholdrand` never ends on a distribution with
   one point and reads outside one with none; PacketLeaves needs two lengths.
8. **basiconoffchannel.cc:136**. A distribution that could not be loaded makes
   `initialize` return 1, which Click takes for success (WildHasCause).
9. **basiconoff.cpp:159**. An output file that cannot be opened is not noticed;
   **parameters/main.cpp:180**: neither is a rejected character;
   **parameters/main.cpp:131**: option `-m` is always refused.
10. **evallink.c:555**. `out` is updated at the index of the sender in `inc`;
    OutTrueInOrder holds only for tables in the same order. **evallink.c:322**:
    equal nanoseconds borrow a second. **evallink.c:753**: option `-u` is
    documented as `-m`.
11. **extract.c:644**. A counter of 0 in the middle of a log makes
    `simple_print` print zeros up to 2^64.
12. **zutil.c:135**. The end of the input is the end of the file, whether or not
    `inflate` came to the end of the stream: the log of a recorder that died ends
    like a complete one, without an error. ReadsFinished and ErrorHasCause say
    what extract can be sure of at the end of a log.
13. **zutil.c:241**. When the end of the file is met with a rest without newline in
    the buffer, that rest is dropped, although zutil.h promises lines "ended by
    '\n' or EOF". (A rest that `zread_line` meets while it puts a line together
    from both halves is returned.)

Also noted: with delays of more than half a slot, a late packet at the
synchronisation followed by a prompt one takes the exit "a packet arrived too
early" that extract.c:383 says should not happen; a second packet with counter 0
passes the check for increasing counters; `zend_data` does not look at what
`fclose` returns (zutil.c:86), where a full disk is noticed that the buffer of
stdio has hidden, so that the recorder goes on as if the old file were complete;
extract exits on a log whose first file holds no packet, even if later ones do
(extract.c:634).

## 5. Proofs

`tlapm` checks every step. They hold for all values of the constants that
satisfy the ASSUME of the module.

* **ZutilWriteProofs**: `Spec => []` of TypeOK, ReadyWhenIdle, NothingLost and
  ClosedComplete. The inductive invariant `IInv` adds three facts: the trailer is
  intact before `zend_data`, `zend_data` only runs on consumed input and leaves
  zlib empty, and there is room in the buffer at the start of a round of
  `zadd_data`. Without the last, ReadyWhenIdle is not inductive.
* **ExtractProofs**, the counters: it begins with what `read_input`, the record updates and
  the counting operators return. `ReadInput` lists the outcomes of `read_input`
  and is the only fact about it that the invariance proofs use. Then, under `PlainLogs` (logs of one file, and no duplicate
  of the packet with number 0), `Spec => []` of TypeOK, SyncAssert, BranchAssert
  and SlotAccounting. SyncAssert speaks of one place of the program only; `CountInv`
  says for every other place which two of the four counters differ by
  `sync_count_diff`: while a line is read, the reference of the stream being
  read is `count_new`, and after a re-alignment that can be the other stream.
  The subtle case is the read of stream 0 in the branch of equal ages
  (`ReadBothInv`), where stream 1 may have advanced by any number of slots. The
  slots counted are tied to the counters by `SlotInv` and `DiffInv`.
* **ExtractProofs**, the dates: under the same hypothesis NeverGivesUp and
  DriftBounded. `Ref(s)` is the date at which stream `s` would have expected its
  packet 0. A read moves it back by at most half a slot or forward by at most
  one, and `next_input` takes a slot out exactly when the two references would
  get further apart than 1.01 half slots: this is `NearInv`. NeverGivesUp
  follows: if two packets of one slot are more than a slot apart, the later one
  would have to be within a slot of the other's reference.
  NeverTooEarly is proved for delays of at most half a slot (`OnTime`): then no
  reference is ever more than half a slot behind its sender (`OnTimeInv`, from the
  synchronisation on), so that a packet can never be more than half a slot before
  the date at which it was expected. With longer delays TLC finds a packet that
  stops the program.

* **ExtractTruthProofs**: `TruthSpec => []` of StatsExact and BurstsExact, and of
  SyncAssert and NeverTooEarly for logs of *any* number of files, when every packet
  is logged less than half a slot after its due date (`InTime`) and the packet 0
  is not repeated (`Numbered`). The invariant `TruthInv` has two halves.
  `TrackInv` says that nothing ever goes wrong then: each reference is at
  the due date of its sender or less than half a slot after it (`InTimeInv`), so that no line is dropped, no stream is
  re-aligned, and each line read is the pending packet of its stream (`SeenInv`,
  `LineInv`); the two streams were paired at packets of one slot and stay so
  (`PairedInv`). The other half says, at *every* place of the program, which part
  of the history is counted: the slots up to `Current` (`OutcomesInv`), the slots
  lost on both streams up to there (`LostRunsInv`), and the runs of losses of a
  stream up to `Top(s)`, which is one packet further while that packet waits for
  the other stream (`RunsInv`). A step of `first_pass` moves `Current` to the next
  slot of which a packet was received; the lemmas on the sets say what that adds.
  The bound is sharp: at half a slot StatsExact is false. SyncAssert on rotated
  logs shows what finding 2 needs: a packet at least half a slot late, or a repeated
  packet 0.

* **ZutilReadProofs**: `Spec => []` of TypeOK and BufferKeepsText, for any text,
  any buffer and any way of compressing, and the refinement `Spec => ReadsLines`
  under `FitBlocks`, the condition of finding 4 turned around: a block expands to
  at least one line and at most half the buffer, and a line is no longer than
  that half. BufferKeepsText is not inductive: a fill
  must not overwrite what is not read yet. `Halves` says where that is: in the
  half filled last, or, once a line was cut, in front of the second half; and
  if it is in the second half, then behind its first cell, where a newline was
  found before. (This needs the search for a newline: an unread rest that starts
  with one would have been returned first.) `Finds`, `Written`, `Copied`,
  `Terminated` and `JoinedCells` say what memchr, the fill, memmove and the `'\0'`
  do. For the refinement `Complete` adds that what zlib keeps back is the rest of
  the file, and that whole lines were read. `ReadsTheLine` then says that one read
  always brings the end of the line, so that neither a short half nor a full one
  without a newline can happen in the middle of the file, and `LineIsReturned`
  that the string at the returned pointer is that line.
* **RotationProofs**: `Spec => []` of TypeOK, OneOpenFile and FilesHoldRecording of
  Server and of ReadsPrefix, ReadsInOrder, ReadsFinished and ErrorHasCause of
  Rotation, for any number of packets and files and any socket buffer.
  FilesHoldRecording compares a concatenation of all
  files with the recording, which a step cannot be followed through. The invariant
  cuts the recording instead: there are places `start` such that file `f` holds
  what is between `start[f]` and `start[f + 1]` (`Chunks`); a failed rotation makes
  an empty chunk, and what cuts a file, be it a crash, an `exit` in the middle of a
  rotation or an `fclose`, leaves the beginning of one (`CutShort`, `ChunksCut`).
  `Reader` says what extract has read so far. `Ordered`: the lines come from the
  recording, in order and from in front of the reader's place; that survives
  whatever happened to the files. `Exact`: if `fclose` lost nothing they *are* the
  recording up to that place. Only the last file can be cut then, so that the
  reader, when it goes on to another file, stands where that one begins; and where
  it finds no further one there is none (`NoFurtherFile`, for which no file may be
  missing, and `Unnamed` for the reader without `-r`).
  RotationIsServer shows that what is composed with
  the reader is still the server, so that its invariant carries over.
* **EvallinkProofs**: `Spec => []` of TypeOK, IncTrue, IncComplete, OutTrueInOrder,
  AgesExact and AbortHasCause, for any stations, strangers, tables, clocks and
  layouts. `EInv` follows a value on its way: what is in a socket is what its
  sender measured and its receiver's clock stamped (`Genuine`); `inc` has one row
  per station, with the values of the link and the stamp of a time that was
  (`IncInv`); a row of `out` holds what its station measured as long as its place
  is that of the same station in `inc`, and while `inc` has room its station is
  somewhere in it (`OutInv`). `OneFrame` is needed for strangers: a frame whose
  kind is still open is in one socket only. The lemmas under it are about the
  code's arithmetic and parsing: `AgeIsDistance` (both branches of the difference
  of two `struct timespec` give the distance of the times, for equal nanoseconds,
  too) and `NextField`/`FieldsAreFound` (the iterator finds the announced fields
  of any header that keeps to the standard, whatever their alignment).
  The assumptions are those named above, and that the station "other" of a
  frame is none of `Node`.
* **ReplayProofs**, the measurement: `Spec => []` of ReadsCleanLogs and TraceIsFate, for Replay
  with any bounds. The invariant `MInv` has two parts that neither property says:
  without trains, repetitions and restarts the log is strictly increasing and
  below the counter of the client (`LogGrows`); and while the log is read, the
  trace is that of the lines so far, whose counters lie between the first and the
  last (`ReadingOk`). `BitsOfLine` and `TraceGrows` say what one more line adds.
  What comes after the measurement leaves it alone (`ReplayLeavesMeasure`).
* **ReplayProofs**, the search: for every sorted distribution of at least two points, a step of
  `thresholdrand` stays inside the vector, keeps the number between its bounds and
  brings them closer (SearchNarrows), and the point found at the end is the least
  one whose probability reaches the number (FoundIsLeast). That the search starts
  in this invariant is SearchBegins.
* **EstimatorProofs** is about data: sums, cardinalities, powers and windows of
  sequences of any length. The induction it needs is `Induction`, stated of a set
  (0 is in it, and n + 1 if n is, so all of Nat is), which follows from the
  least-number principle (`LeastNumber`, by NatLessThanWellFounded and WFMin of the
  library); it can be cited where the schemes of the library, which take an
  operator, cannot. `SumStep` uses it to unfold the library's fold over a set, one
  member at a time, and `PowerIsCardinality` defines away powers of two as numbers
  of subsets. On top of these, one lemma for each thing that one more bit changes:
  * *Bursts.* `Settled(o, t, c, k)`: the tables of `o` are those of the first `k`
    bits of `t`. After `n` bits a ParamBasicOnOff has settled all but the current
    run (`OnOffInv`), which is as long as its counter says (`Run`). In its second
    round a ParamBasicMTA holds back the run and, in front of it, an error burst
    that may go on (`Pending`, `MtaInv`): a run that turns out to be no longer than
    C joins it, a longer one settles it. That the second round begins in the state
    of the first does no harm is `MtaBegins`; that the flush in `finalize` closes
    whichever of the two is open is `MtaEnds`.
  * *Chain.* `Chained(m, h, s)`: the state holds the last K bits of `s`, and the
    counter of a state and a bit is the number of places in `s` where that window
    is followed by that bit, on top of the memory `h`. `ChainGrows` is one more
    bit: the shift and the remainder are followed bit by bit (`ShiftedBits`,
    `BitsDetermine`), so that a number below 2^K *is* its window.
    `FedSet` is the part of the trace that the chain of a ParamBasicMTA was fed
    with: what is outside of the error-free bursts, without the current run if
    that may become one. When it does not, its bits are fed late, but still in
    front of the next one (`EndOfRunFed`).
  * *Distributions.* `Nth` is the order of the keys of a map; `Ranks` shows that
    `calculate_values` meets each length once and in order, for any map.
* **ReplayProofs**, from the trace to the packet: `Spec => []` of TypeOK, CountsTrace,
  ChainCountsTrace, DrawInverse, ChainReplays and WildHasCause, for any trace, class,
  threshold, memory, order of the chain and random numbers. Four invariants, each
  proved with those before it:
  * `TablesInv` ties the estimator and its tables to the bits read so far, with the
    lemmas above. The threshold has to be a natural number for that, which is a
    lemma on sums and on the greatest member of a bounded set (`ThresholdIsNatural`).
  * `ChannelInv`: the channel has the tables of the files that could be loaded, and
    a search is in the table of the burst that is drawn. `DistributionSorted` gives
    what SearchNarrows asks for (the last probability is MaxRand *because* the
    lengths are those of all bursts), and `FirstIsLeast` turns the quotients of
    `calculate_values`, rounded down, into the comparison DrawInverse makes.
  * `ChainInv`: the chain of the estimator is `Chained` with what it was fed.
  * `SentInv`: the state of the chain of the channel is the window of what it sent
    (`Remembers`), and the last draw was one from such a state. With the counters of
    ChainCountsTrace and the quotient of `markov_finalize` (`Share`) this is
    ChainReplays.
  TypeOK is last, as it needs all of them: that `remaining` never gets below zero
  holds because a distribution in which a search can end has no length 0. An
  empty trace does give such a length (`finalize` of ParamBasicMTA counts an error
  burst of length 0), but then it is the only one, and the search never ends
  (finding 7): `TypesInv` keeps the two cases apart. The assumption is that traces
  are sequences of bits and that the memory of the counters holds naturals.

`PlainLogs` is needed: finding 2 violates SyncAssert with two files, and with a
repeated packet 0 an age of zero is subtracted from.

Only model-checked:

* All liveness (CallsReturn, SignalStops, PacketLeaves), which the
  prover does not support. Of PacketLeaves, SearchNarrows proves the part that is a
  safety property: every step brings the bounds closer.

Every invariant of a passing run is proved, under the hypotheses named here.
What the proofs of an estimator say is about exact arithmetic: the rounding of the
doubles, and counters that wrap, are not modelled.

## 6. Not modelled, and what is left

* **Interface life cycle** (`open_monitor_interface`, `close_interface`,
  `monitor_listen_on`): a straight sequence of nl80211 and ioctl calls before the
  loop. What matters there is what the kernel does to the interfaces, which the
  repository does not say. Note that server (server.c:621) and evallink
  (evallink.c:898) both delete the interface `mon0` at their end, even if the
  other still listens on it.
* **Evallink**: the display, the end of the program, option parsing; a payload
  without the row of zeros that ends the walk at evallink.c:551, which no evallink
  sends.
* **Line reader**: errors of zlib and of the file. Of a line that is cut in its
  date, Rotation has the packet, not the digits (zutil.c:279).
* **Channel**: a table that was cut inside the digits of its last line is loaded with
  a wrong last value (basiconoffchannel.cc:113, markovchainchannel.cc:74); Replay
  refuses every cut file.
* **Server**: the date of the rotation, so the clock that is set forward or back.
* **extract**: `second_pass` (dead: its data is only allocated in code that is
  commented out), the histories and histograms (accumulators no control depends
  on), printing.
* **crc.c** (a table against itself), option parsing everywhere, `printHuman`,
  openwrt/, data/, Doxygen and make files.
