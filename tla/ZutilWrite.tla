----------------------------- MODULE ZutilWrite -----------------------------
(***************************************************************************)
(* The compressed output stream of udp-test/zutil.c: zinit_write,          *)
(* zadd_data and zend_data around zlib's deflate.  Data is counted, not    *)
(* represented: one unit handed in comes out as one unit of compressed     *)
(* data, at a time deflate chooses, and Z_FINISH adds a trailer.  What is  *)
(* kept is where every unit is: still with the caller, inside deflate, in  *)
(* the output buffer or in the file.                                       *)
(***************************************************************************)
EXTENDS Integers

CONSTANTS
  OUT_BUF_SIZE,  \* units the output buffer holds
  Trailer,       \* units deflate adds when the stream is finished
  Lengths,       \* lengths of the blocks handed to zadd_data
  MaxGiven       \* bound: units handed in before zend_data

ASSUME ZutilWriteAssumption ==
  /\ OUT_BUF_SIZE \in Nat \ {0}
  /\ Trailer \in Nat \ {0}
  /\ Lengths \subseteq Nat
  /\ MaxGiven \in Nat

VARIABLES
  pc,        \* "idle", "add" in zadd_data, "end" in zend_data, "closed", "exit"
  given,     \* units handed to zadd_data so far
  avail_in,  \* strm.avail_in
  pending,   \* units consumed by deflate and not yet in the buffer
  trailer,   \* units of the trailer not yet in the buffer
  avail_out, \* strm.avail_out
  file       \* units written to the file

vars == <<pc, given, avail_in, pending, trailer, avail_out, file>>

Used == OUT_BUF_SIZE - avail_out

-----------------------------------------------------------------------------
(* zlib, external: deflate stops when it has no more input or no room.     *)

deflateNoFlush(consumed, emitted) ==
  /\ consumed \in 0..avail_in
  /\ emitted \in 0..avail_out
  /\ emitted <= pending + consumed
  /\ consumed = avail_in \/ emitted = avail_out
  /\ avail_in' = avail_in - consumed
  /\ pending' = pending + consumed - emitted
  /\ UNCHANGED trailer

\* Z_FINISH: everything left and the trailer, as far as there is room.
deflateFinish(room, emitted) ==
  /\ emitted = IF pending + trailer < room THEN pending + trailer ELSE room
  /\ pending' = IF emitted < pending THEN pending - emitted ELSE 0
  /\ trailer' = IF emitted < pending THEN trailer ELSE trailer - (emitted - pending)

-----------------------------------------------------------------------------

zinit_write ==
  /\ pc = "idle" /\ given = 0
  /\ avail_in = 0 /\ pending = 0 /\ file = 0
  /\ trailer = Trailer
  /\ avail_out = OUT_BUF_SIZE

\* zadd_data is called: its assertions, then the loop if there is any data.
AddData(len) ==
  /\ pc = "idle"
  /\ avail_in = 0 /\ avail_out # 0
  /\ given + len <= MaxGiven
  /\ given' = given + len
  /\ avail_in' = len
  /\ pc' = IF len # 0 THEN "add" ELSE "idle"
  /\ UNCHANGED <<pending, trailer, avail_out, file>>

\* Mutant of AddRound: a buffer that fills up with the last input is kept.
AddRoundKeeps ==
  /\ pc = "add"
  /\ \E consumed \in 0..avail_in, emitted \in 0..avail_out :
       /\ deflateNoFlush(consumed, emitted)
       /\ IF emitted = avail_out /\ avail_in' # 0
          THEN avail_out' = OUT_BUF_SIZE /\ file' = file + OUT_BUF_SIZE
          ELSE avail_out' = avail_out - emitted /\ UNCHANGED file
       /\ pc' = IF avail_in' # 0 THEN "add" ELSE "idle"
  /\ UNCHANGED given

\* One round of the loop of zadd_data; a full buffer goes to the file.
AddRound ==
  /\ pc = "add"
  /\ \E consumed \in 0..avail_in, emitted \in 0..avail_out :
       /\ deflateNoFlush(consumed, emitted)
       /\ LET next == IF avail_in' # 0 THEN "add" ELSE "idle" IN
          \/ /\ emitted < avail_out
             /\ avail_out' = avail_out - emitted
             /\ pc' = next
             /\ UNCHANGED file
          \/ /\ emitted = avail_out
             /\ avail_out' = OUT_BUF_SIZE
             /\ file' = file + OUT_BUF_SIZE
             /\ pc' = next
          \/ /\ emitted = avail_out  \* fwrite failed: exit(1)
             /\ avail_out' = 0
             /\ pc' = "exit"
             /\ UNCHANGED file
  /\ UNCHANGED given

EndData ==
  /\ pc = "idle"
  /\ avail_in = 0 /\ avail_out # 0
  /\ pc' = "end"
  /\ UNCHANGED <<given, avail_in, pending, trailer, avail_out, file>>

\* Mutant of EndRound: the whole buffer is written, full or not.
EndRoundWritesAll ==
  /\ pc = "end"
  /\ file' = file + OUT_BUF_SIZE
  /\ \E emitted \in 0..OUT_BUF_SIZE :
       /\ deflateFinish(OUT_BUF_SIZE, emitted)
       /\ avail_out' = OUT_BUF_SIZE - emitted
       /\ pc' = IF emitted # 0 THEN "end" ELSE "closed"
  /\ UNCHANGED <<given, avail_in>>

\* Mutant of EndRound: the room is not reset before deflate is called.
EndRoundNoReset ==
  /\ pc = "end"
  /\ file' = file + Used
  /\ \E emitted \in 0..OUT_BUF_SIZE :
       /\ deflateFinish(OUT_BUF_SIZE, emitted)
       /\ avail_out' = avail_out - emitted
       /\ pc' = IF emitted # 0 THEN "end" ELSE "closed"
  /\ UNCHANGED <<given, avail_in>>

\* Mutant of EndRound: the last round is the one that leaves some room.
EndRoundStopsEarly ==
  /\ pc = "end"
  /\ file' = file + Used
  /\ \E emitted \in 0..OUT_BUF_SIZE :
       /\ deflateFinish(OUT_BUF_SIZE, emitted)
       /\ avail_out' = OUT_BUF_SIZE - emitted
       /\ pc' = IF emitted = OUT_BUF_SIZE THEN "end" ELSE "closed"
  /\ UNCHANGED <<given, avail_in>>

\* Mutant of EndRound: the end of the stream does not end the loop.
EndRoundForever ==
  /\ pc = "end"
  /\ file' = file + Used
  /\ \E emitted \in 0..OUT_BUF_SIZE :
       /\ deflateFinish(OUT_BUF_SIZE, emitted)
       /\ avail_out' = OUT_BUF_SIZE - emitted
  /\ UNCHANGED <<pc, given, avail_in>>

\* One round of the loop of zend_data: empty the buffer, ask deflate for
\* more; the first round that yields nothing is the last.
EndRound ==
  /\ pc = "end"
  /\ file' = file + Used
  /\ \E emitted \in 0..OUT_BUF_SIZE :
       /\ deflateFinish(OUT_BUF_SIZE, emitted)
       /\ avail_out' = OUT_BUF_SIZE - emitted
       /\ pc' = IF emitted # 0 THEN "end" ELSE "closed"
  /\ UNCHANGED <<given, avail_in>>

\* fwrite failed in zend_data: exit(1).
EndFails ==
  /\ pc = "end"
  /\ Used # 0
  /\ pc' = "exit"
  /\ UNCHANGED <<given, avail_in, pending, trailer, avail_out, file>>

Init == zinit_write

Next ==
  \/ \E len \in Lengths : AddData(len)
  \/ AddRound
  \/ EndData
  \/ EndRound
  \/ EndFails

Spec == Init /\ [][Next]_vars

\* zadd_data and zend_data run to completion once they are called.
FairSpec == Spec /\ WF_vars(AddRound) /\ WF_vars(EndRound)

-----------------------------------------------------------------------------
(* Properties.                                                             *)

\* No counter leaves its range; avail_out is an offset in the buffer.
TypeOK ==
  /\ pc \in {"idle", "add", "end", "closed", "exit"}
  /\ given \in Nat
  /\ avail_in \in Nat
  /\ pending \in Nat
  /\ trailer \in 0..Trailer
  /\ avail_out \in 0..OUT_BUF_SIZE
  /\ file \in Nat

\* Both assertions at the start of zadd_data and zend_data hold whenever a
\* caller may enter them (zutil.c:26-27 and 63-64).
ReadyWhenIdle == pc = "idle" => avail_in = 0 /\ avail_out # 0

\* A unit handed to zadd_data is in exactly one place until the program
\* gives up: nothing is dropped or written twice between calls.
NothingLost ==
  pc # "exit" =>
    file + Used + pending + avail_in = given + (Trailer - trailer)

\* When zend_data has closed the file, the file holds everything that was
\* ever handed in, and the trailer a reader needs.
ClosedComplete == pc = "closed" => file = given + Trailer

\* Every call returns, or ends the program.
CallsReturn == [](pc \in {"add", "end"} => <>(pc \in {"idle", "closed", "exit"}))

=============================================================================
