------------------------------ MODULE Rotation ------------------------------
(***************************************************************************)
(* The recorder and its reader: extract reads, after the recording, the    *)
(* files the server left (with -r, if the server named them), the way      *)
(* simple_print and next_line_or_file of udp-test/extract.c go through     *)
(* them.  zread_line is taken as what LineReader promises for a complete   *)
(* file.  Nothing in it asks zlib for the end of the stream, so that a     *)
(* file cut anywhere is read up to the cut and then, in general, ends like *)
(* a complete one.  The rest of a line that is cut in its date is read as  *)
(* that line, a shorter rest is dropped, or is a format error; so is a cut *)
(* after a whole number of blocks of INC_BUF_SIZE (Z_BUF_ERROR).           *)
(***************************************************************************)
EXTENDS Server

VARIABLES
  reading,  \* "no", "lines", "eof", "error"
  file,     \* filename_count of struct input_p
  line,     \* lines of the current file read so far
  lines     \* all the lines read

readerVars == <<reading, file, line, lines>>
allVars == <<vars, readerVars>>

\* extract is started on the file .000.gz (or on what was the standard
\* output); zinit_read fails when there is nothing in it.
Start ==
  /\ ~Running
  /\ reading = "no"
  /\ reading' = IF disk[0].state = "empty" THEN "error" ELSE "lines"
  /\ UNCHANGED <<vars, file, line, lines>>

\* The packet of a line is known by its source and number, which are whole
\* even if the line is the last one of a cut file.
NextLine ==
  /\ reading = "lines"
  /\ line < Len(disk[file].packets)
  /\ line' = line + 1
  /\ lines' = Append(lines, disk[file].packets[line + 1])
  /\ UNCHANGED <<vars, reading, file>>

\* There is no further line in the current file.
NoLine ==
  /\ reading = "lines"
  /\ line = Len(disk[file].packets)

\* A cut file may also end in an error, of zlib or of the format: read_input
\* exits.
BrokenFile ==
  /\ NoLine
  /\ disk[file].state = "cut"
  /\ reading' = "error"
  /\ UNCHANGED <<vars, file, line, lines>>

\* Mutant of NoInput: the end of any file is an error.
NoInputAnyFile ==
  /\ NoLine
  /\ reading' = "error"
  /\ UNCHANGED <<vars, file, line, lines>>

\* The first line is read by next_input, which does not go to the next file:
\* "End of file before any input", and extract exits.
NoInput ==
  /\ NoLine
  /\ lines = <<>>
  /\ reading' = "error"
  /\ UNCHANGED <<vars, file, line, lines>>

\* Without -r the end of the file is the end.
NotRotated ==
  /\ NoLine
  /\ lines # <<>>
  /\ ~filename
  /\ reading' = "eof"
  /\ UNCHANGED <<vars, file, line, lines>>

\* fopen and zinit_read succeed on file f.
Opens(f) == f <= MaxFiles /\ f \in File /\ disk[f].state \notin {"absent", "empty"}

\* Mutant of NextFile: the state of the reader is kept for the new file.
NextFileNoReset ==
  /\ NoLine
  /\ lines # <<>>
  /\ filename
  /\ file' = file + 1
  /\ reading' = IF Opens(file + 1) THEN "lines" ELSE "eof"
  /\ UNCHANGED <<vars, line, lines>>

\* Mutant of NextFile: the name is not changed.
NextFileSameName ==
  /\ NoLine
  /\ lines # <<>>
  /\ filename
  /\ Len(lines) < 2 * MaxPackets
  /\ line' = 0
  /\ UNCHANGED <<vars, reading, file, lines>>

\* Mutant of NextFile: the last number is not tried.
NextFileStops ==
  /\ NoLine
  /\ lines # <<>>
  /\ filename
  /\ file' = file + 1
  /\ \/ file + 2 < MaxFiles /\ Opens(file + 1) /\ line' = 0 /\ UNCHANGED reading
     \/ ~(file + 2 < MaxFiles /\ Opens(file + 1)) /\ reading' = "eof" /\ UNCHANGED line
  /\ UNCHANGED <<vars, lines>>

\* With -r the next file is opened, if there is one with something in it;
\* no matter why not, a negative result ends the reading.
NextFile ==
  /\ NoLine
  /\ lines # <<>>
  /\ filename
  /\ file' = file + 1
  /\ \/ Opens(file + 1) /\ line' = 0 /\ UNCHANGED reading
     \/ ~Opens(file + 1) /\ reading' = "eof" /\ UNCHANGED line
  /\ UNCHANGED <<vars, lines>>

RotationInit ==
  /\ Init
  /\ reading = "no" /\ file = 0 /\ line = 0 /\ lines = <<>>

RotationNext ==
  \/ Next /\ UNCHANGED readerVars
  \/ Start \/ NextLine \/ BrokenFile \/ NoInput \/ NotRotated \/ NextFile

RotationSpec == RotationInit /\ [][RotationNext]_allVars /\ Fairness

-----------------------------------------------------------------------------
(* Properties.                                                             *)

IsPrefixOf(s, t) == Len(s) <= Len(t) /\ s = SubSeq(t, 1, Len(s))

\* No file is missing between the first and the last one.
NoGap == \A f \in 0..out : disk[f].state # "absent"

\* Whatever happened to the server, the reader sees a part of the recording
\* from its start, in order, as long as fclose lost nothing.
ReadsPrefix == ~lost => IsPrefixOf(lines, recorded)

\* Even if it did: each packet once and in the order in which they came.
ReadsInOrder == \A i, j \in DOMAIN lines : i < j => lines[i] < lines[j]

\* A reader that comes to the end without an error, where every rotation
\* found its file and fclose lost nothing, has read the whole recording if
\* the recorder ended on a signal; if it died, all that was in the files it
\* had left.
ReadsFinished ==
  reading = "eof" /\ NoGap /\ ~lost =>
    /\ pc = "stopped" => lines = recorded
    /\ \A f \in File : f < out =>
         \A p \in DOMAIN disk[f].packets :
           \E i \in DOMAIN lines : lines[i] = disk[f].packets[p]

\* extract only gives up on the log of a recorder that died or lost the end
\* of a file, or when there is no packet in the first file.
ErrorHasCause ==
  reading = "error" => pc = "dead" \/ lost \/ disk[0].packets = <<>>

\* "-r, --rotated  The input file was rotated, use all the rotated files"
\* (extract.c:1551).
UsesAllFiles ==
  filename /\ reading = "eof" /\ ~lost =>
    \A f \in File : disk[f].state = "complete" => f < file

=============================================================================
