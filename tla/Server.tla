------------------------------- MODULE Server -------------------------------
(***************************************************************************)
(* The recorder of udp-test/server.c: one libev loop that writes every     *)
(* packet of the monitoring socket to the current compressed file, moves   *)
(* to a new file when the periodic timer or SIGHUP asks for it, and ends   *)
(* on a signal.  Signal handlers only arm events; the callbacks run one    *)
(* at a time.  Packets are numbered in the order of their arrival; what is *)
(* inside a record and how a file is compressed is in other modules        *)
(* (Monitor, ZutilWrite).                                                  *)
(***************************************************************************)
EXTENDS Integers, Sequences

CONSTANTS
  MaxFiles,    \* 1000: filename_count must stay below it
  SockBuf,     \* packets the socket buffer holds
  MaxPackets   \* bound: packets that arrive

ASSUME ServerAssumption ==
  /\ MaxFiles \in Nat \ {0}
  /\ SockBuf \in Nat \ {0}
  /\ MaxPackets \in Nat

File == 0..(MaxFiles - 1)
Packet == 1..MaxPackets

VARIABLES
  pc,              \* "loop", "ending" (unlooped), "stopped", "dead"
  arrived,         \* packets that arrived so far
  socket,          \* packets in the socket buffer
  recorded,        \* packets handed to consume_data, in order
  filename,        \* option -o named the output; else it is the standard output
  lost,            \* fclose could not write what was left (not in the program,
                   \* which does not look)
  filename_count,  \* filename_count of struct server_buffer
  out,             \* the file zdata writes to
  disk,            \* per file: its state and the packets written to it
  greload,         \* the periodic event is due
  event_killer     \* the timer armed by a signal is due

vars == <<pc, arrived, socket, recorded, filename, lost, filename_count, out, disk,
          greload, event_killer>>

Running == pc \in {"loop", "ending"}

-----------------------------------------------------------------------------
(* The outside: packets and signals.                                       *)

\* A packet that finds the buffer full is lost.
Arrive ==
  /\ Running
  /\ arrived < MaxPackets
  /\ arrived' = arrived + 1
  /\ socket' = IF Len(socket) < SockBuf THEN Append(socket, arrived + 1) ELSE socket
  /\ UNCHANGED <<pc, recorded, filename, lost, filename_count, out, disk, greload, event_killer>>

\* The interval is over, or SIGHUP: reload() moves the offset of the event
\* to now, unless it is pending already.  filename_count bounds the model.
Reload ==
  /\ pc = "loop"
  /\ filename_count <= MaxFiles
  /\ greload' = TRUE
  /\ UNCHANGED <<pc, arrived, socket, recorded, filename, lost, filename_count, out, disk,
                 event_killer>>

\* SIGINT, SIGABRT, SIGQUIT or SIGTERM.
Down ==
  /\ pc = "loop"
  /\ event_killer' = TRUE
  /\ UNCHANGED <<pc, arrived, socket, recorded, filename, lost, filename_count, out, disk, greload>>

-----------------------------------------------------------------------------
(* The callbacks.                                                          *)

ReadCb ==
  /\ Running
  /\ socket # <<>>
  /\ socket' = Tail(socket)
  /\ recorded' = Append(recorded, Head(socket))
  /\ disk' = [disk EXCEPT ![out].packets = Append(@, Head(socket))]
  /\ UNCHANGED <<pc, arrived, filename, lost, filename_count, out, greload, event_killer>>

\* The standard output cannot be rotated.
ReloadUnnamed ==
  /\ Running /\ greload /\ ~filename
  /\ greload' = FALSE
  /\ UNCHANGED <<pc, arrived, socket, recorded, filename, lost, filename_count, out,
                 disk, event_killer>>

\* No more names: the event has run, nothing else happens.
ReloadNoName ==
  /\ Running /\ greload /\ filename
  /\ greload' = FALSE
  /\ filename_count' = filename_count + 1
  /\ filename_count' >= MaxFiles
  /\ UNCHANGED <<pc, arrived, socket, recorded, filename, lost, out, disk, event_killer>>

\* fopen fails: the name has moved on, the old file stays in use.
ReloadFails ==
  /\ Running /\ greload /\ filename
  /\ greload' = FALSE
  /\ filename_count' = filename_count + 1
  /\ filename_count' < MaxFiles
  /\ UNCHANGED <<pc, arrived, socket, recorded, filename, lost, out, disk, event_killer>>

\* Mutant of ReloadCb: the name is not moved on, fopen truncates the file.
ReloadSameName ==
  /\ Running /\ greload /\ filename
  /\ greload' = FALSE
  /\ filename_count + 1 < MaxFiles
  /\ disk' = [disk EXCEPT ![out].packets = <<>>]
  /\ UNCHANGED <<pc, arrived, socket, recorded, filename, lost, filename_count, out,
                 event_killer>>

\* Mutant of ReloadCb: zend_data is not called on the old file.
ReloadNoEnd ==
  /\ Running /\ greload /\ filename
  /\ greload' = FALSE
  /\ filename_count' = filename_count + 1
  /\ filename_count' < MaxFiles
  /\ out' = filename_count'
  /\ disk' = [disk EXCEPT ![filename_count + 1].state = "open"]
  /\ UNCHANGED <<pc, arrived, socket, recorded, filename, lost, event_killer>>

\* Mutant of ReloadCb: the number of the file may reach the limit.
ReloadOneMore ==
  /\ Running /\ greload /\ filename
  /\ greload' = FALSE
  /\ filename_count' = filename_count + 1
  /\ filename_count' <= MaxFiles
  /\ out' = filename_count'
  /\ disk' = [disk EXCEPT ![out].state = "complete",
                          ![filename_count + 1].state = "open"]
  /\ UNCHANGED <<pc, arrived, socket, recorded, filename, lost, event_killer>>

\* What is left of file f if not all of it can be written: without its
\* trailer, the first packets (those of which the reader still gets a line,
\* see Rotation), or not a single byte.
Remains(f) ==
  {[state |-> "cut", packets |-> SubSeq(disk[f].packets, 1, n)] :
     n \in 0..Len(disk[f].packets)}
  \cup {[state |-> "empty", packets |-> <<>>]}

\* fopen succeeds: the old file is completed, the new one takes its place.
ReloadCb ==
  /\ Running /\ greload /\ filename
  /\ greload' = FALSE
  /\ filename_count' = filename_count + 1
  /\ filename_count' < MaxFiles
  /\ out' = filename_count'
  /\ disk' = [disk EXCEPT ![out].state = "complete",
                          ![filename_count + 1].state = "open"]
  /\ UNCHANGED <<pc, arrived, socket, recorded, filename, lost, event_killer>>

\* The same, but zend_data only learns from fclose that the last bytes of the
\* old file cannot be written, and does not look at what it returns.
ReloadUnflushed ==
  /\ Running /\ greload /\ filename
  /\ greload' = FALSE
  /\ filename_count' = filename_count + 1
  /\ filename_count' < MaxFiles
  /\ out' = filename_count'
  /\ lost' = TRUE
  /\ \E left \in Remains(out) :
       disk' = [disk EXCEPT ![out] = left, ![filename_count + 1].state = "open"]
  /\ UNCHANGED <<pc, arrived, socket, recorded, filename, event_killer>>

\* fopen succeeds, but zend_data cannot write the rest of the old file and
\* exits: the new file is there, with nothing in it.  (So it is if the
\* process dies in the middle of zend_data.)
ReloadEndFails ==
  /\ Running /\ greload /\ filename
  /\ filename_count' = filename_count + 1
  /\ filename_count' < MaxFiles
  /\ pc' = "dead"
  /\ \E left \in Remains(out) :
       disk' = [disk EXCEPT ![out] = left, ![filename_count + 1].state = "empty"]
  /\ UNCHANGED <<arrived, socket, recorded, filename, lost, out, greload, event_killer>>

\* The old file is complete, but zinit_write fails: assert(tmp >= 0).
ReloadInitFails ==
  /\ Running /\ greload /\ filename
  /\ filename_count' = filename_count + 1
  /\ filename_count' < MaxFiles
  /\ pc' = "dead"
  /\ out' = filename_count'
  /\ disk' = [disk EXCEPT ![out].state = "complete",
                          ![filename_count + 1].state = "empty"]
  /\ UNCHANGED <<arrived, socket, recorded, filename, lost, greload, event_killer>>

\* Mutant of EventEnd: the event is consumed, the loop goes on.
EventIgnored ==
  /\ pc = "loop" /\ event_killer
  /\ event_killer' = FALSE
  /\ UNCHANGED <<pc, arrived, socket, recorded, filename, lost, filename_count, out, disk,
                 greload>>

\* event_end: the loop ends after the callbacks that are already pending.
EventEnd ==
  /\ pc = "loop" /\ event_killer
  /\ pc' = "ending"
  /\ UNCHANGED <<arrived, socket, recorded, filename, lost, filename_count, out, disk,
                 greload, event_killer>>

\* The end of main: zend_data completes the current file.
Close ==
  /\ pc = "ending"
  /\ pc' = "stopped"
  /\ disk' = [disk EXCEPT ![out].state = "complete"]
  /\ UNCHANGED <<arrived, socket, recorded, filename, lost, filename_count, out,
                 greload, event_killer>>

\* Neither is fclose asked there.
CloseUnflushed ==
  /\ pc = "ending"
  /\ pc' = "stopped"
  /\ lost' = TRUE
  /\ \E left \in Remains(out) : disk' = [disk EXCEPT ![out] = left]
  /\ UNCHANGED <<arrived, socket, recorded, filename, filename_count, out,
                 greload, event_killer>>

\* The process dies between two callbacks, or fwrite fails: in zadd_data
\* (read_cb) or in zend_data at the end of main, which exit.
Crash ==
  /\ Running
  /\ pc' = "dead"
  /\ \E left \in Remains(out) : disk' = [disk EXCEPT ![out] = left]
  /\ UNCHANGED <<arrived, socket, recorded, filename, lost, filename_count, out,
                 greload, event_killer>>

-----------------------------------------------------------------------------

Init ==
  /\ pc = "loop"
  /\ arrived = 0 /\ socket = <<>> /\ recorded = <<>>
  /\ filename \in BOOLEAN /\ lost = FALSE /\ filename_count = 0 /\ out = 0
  /\ disk = [f \in File |-> [state |-> IF f = 0 THEN "open" ELSE "absent",
                             packets |-> <<>>]]
  /\ greload = FALSE /\ event_killer = FALSE

Next ==
  \/ Arrive \/ Reload \/ Down
  \/ ReadCb \/ ReloadUnnamed \/ ReloadNoName \/ ReloadFails \/ ReloadCb
  \/ ReloadUnflushed \/ ReloadEndFails \/ ReloadInitFails
  \/ EventEnd \/ Close \/ CloseUnflushed \/ Crash

Spec == Init /\ [][Next]_vars

\* libev runs every event that is due.
Fairness ==
  /\ WF_vars(ReloadUnnamed \/ ReloadNoName \/ ReloadFails \/ ReloadCb)
  /\ WF_vars(EventEnd) /\ WF_vars(Close)

FairSpec == Spec /\ Fairness

-----------------------------------------------------------------------------
(* Properties.                                                             *)

\* "cut": without a trailer; "empty": opened, and not a byte written.
FileState == {"absent", "open", "complete", "cut", "empty"}

TypeOK ==
  /\ pc \in {"loop", "ending", "stopped", "dead"}
  /\ arrived \in 0..MaxPackets
  /\ socket \in Seq(Packet)
  /\ recorded \in Seq(Packet)
  /\ filename \in BOOLEAN /\ lost \in BOOLEAN /\ filename_count \in Nat
  /\ out \in File
  /\ disk \in [File -> [state : FileState, packets : Seq(Packet)]]
  /\ greload \in BOOLEAN /\ event_killer \in BOOLEAN

\* Exactly the current file is unfinished while the server runs, all the
\* files it left are complete, unless fclose lost the end of one, and files
\* are used in the order of their names, failed fopen or not.  A server that
\* dies leaves nothing behind the file it wrote but the file a rotation had
\* just created, with nothing in it.
OneOpenFile ==
  /\ \A f \in File :
       /\ f < out => /\ disk[f].state # "open"
                     /\ ~lost => disk[f].state \in {"complete", "absent"}
       /\ f = out =>
            /\ Running => disk[f].state = "open"
            /\ pc = "stopped" /\ ~lost => disk[f].state = "complete"
            /\ pc = "dead" => disk[f].state \in {"cut", "empty"}
       /\ f > out =>
            \/ disk[f].state = "absent"
            \/ pc = "dead" /\ f = filename_count /\ disk[f].state = "empty"
  /\ out <= filename_count

\* Rotation, its failures and shutdown neither lose nor repeat nor reorder a
\* recorded packet: the files, one after the other, are the recording, as
\* long as fclose writes what it has to.
Before(f, p, g, q) == f < g \/ (f = g /\ p < q)
FilesHoldRecording ==
  pc # "dead" /\ ~lost =>
    /\ \A f \in File : \A p \in DOMAIN disk[f].packets :
         disk[f].packets[p] \in {recorded[i] : i \in DOMAIN recorded}
    /\ \A i \in DOMAIN recorded : \E f \in File : \E p \in DOMAIN disk[f].packets :
         /\ disk[f].packets[p] = recorded[i]
         /\ \A j \in DOMAIN recorded : \A g \in File : \A q \in DOMAIN disk[g].packets :
              disk[g].packets[q] = recorded[j] =>
                (j < i <=> Before(g, q, f, p))

\* A signal ends the program, by the way that completes the current file
\* unless it dies.
SignalStops == event_killer ~> pc \in {"stopped", "dead"}

=============================================================================
