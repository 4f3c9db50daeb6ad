--------------------------- MODULE RotationProofs ---------------------------
(***************************************************************************)
(* The recorder and its reader, for any number of packets, files, and any  *)
(* size of the socket buffer.  The invariant cuts the recording into one   *)
(* chunk per file: there are places start[0], start[1], ... in it such     *)
(* that file f holds what is between start[f] and start[f + 1] (a file     *)
(* that a crash or a full disk cut holds the beginning of it).  The places *)
(* are not in the program; the invariant says that there are some.         *)
(***************************************************************************)
EXTENDS Rotation, SequenceTheorems, TLAPS

\* The packets are read in the order in which they came, each once.
InOrder ==
  /\ \A i \in 1..Len(recorded) : recorded[i] <= arrived
  /\ \A i \in 1..Len(socket) : socket[i] <= arrived
  /\ \A i, j \in 1..Len(recorded) : i < j => recorded[i] < recorded[j]
  /\ \A i, j \in 1..Len(socket) : i < j => socket[i] < socket[j]
  /\ \A i \in 1..Len(recorded), j \in 1..Len(socket) : recorded[i] < socket[j]

\* The places cut all of the recording, and no file lies behind the current one.
Cut(start) ==
  /\ start \in [0..MaxFiles -> Nat]
  /\ start[0] = 0
  /\ \A f, g \in 0..MaxFiles : f <= g => start[f] <= start[g]
  /\ \A f \in 0..MaxFiles : f > out => start[f] = Len(recorded)
  /\ \A i \in 1..Len(recorded) : \E f \in File : start[f] < i /\ i <= start[f + 1]

\* Nothing is missing from a file in this state.
Sound(s) == s \notin {"cut", "empty"}

\* The files hold their chunks.
Holds(start) ==
  \A f \in File :
    /\ start[f] + Len(disk[f].packets) <= start[f + 1]
    /\ Sound(disk[f].state) => start[f] + Len(disk[f].packets) = start[f + 1]
    /\ \A p \in 1..Len(disk[f].packets) : disk[f].packets[p] = recorded[start[f] + p]

Chunks(start) == Cut(start) /\ Holds(start)

ServerInv ==
  /\ TypeOK /\ OneOpenFile /\ InOrder
  /\ \E start : Chunks(start)

-----------------------------------------------------------------------------
(* The server.                                                             *)

\* Facts on sequences in the form the provers like.
LEMMA Appended ==
  ASSUME NEW T, NEW s \in Seq(T), NEW e \in T
  PROVE  /\ Append(s, e) \in Seq(T)
         /\ Len(Append(s, e)) = Len(s) + 1
         /\ \A i \in 1..Len(s) : Append(s, e)[i] = s[i]
         /\ Append(s, e)[Len(s) + 1] = e
         /\ \A i \in 1..(Len(s) + 1) : Append(s, e)[i] = IF i <= Len(s) THEN s[i] ELSE e
  OBVIOUS

LEMMA Tailed ==
  ASSUME NEW T, NEW s \in Seq(T), s # <<>>
  PROVE  /\ Tail(s) \in Seq(T) /\ Head(s) \in T /\ Head(s) = s[1]
         /\ Len(s) \in Nat /\ Len(s) >= 1
         /\ Len(Tail(s)) = Len(s) - 1
         /\ \A i \in 1..(Len(s) - 1) : Tail(s)[i] = s[i + 1]
  OBVIOUS

LEMMA Files == ASSUME TypeOK
  PROVE  /\ MaxFiles \in Nat \ {0} /\ out \in Nat /\ out < MaxFiles /\ out \in File
         /\ \A f : f \in File <=> f \in Nat /\ f < MaxFiles
         /\ 0 \in File
  BY ServerAssumption DEF TypeOK, File

\* What one packet does to the files.
LEMMA ReadCbDisk == ASSUME TypeOK, ReadCb
  PROVE  /\ Head(socket) \in Packet
         /\ disk' \in [File -> [state : FileState,
                               packets : Seq(Packet)]]
         /\ \A f \in File : f # out => disk'[f] = disk[f]
         /\ disk'[out].state = disk[out].state
         /\ disk'[out].packets = Append(disk[out].packets, Head(socket))
<1>1. Head(socket) \in Packet
  BY Tailed DEF TypeOK, ReadCb
<1>2. disk[out].packets \in Seq(Packet) /\ out \in File
  BY DEF TypeOK
<1>3. Append(disk[out].packets, Head(socket)) \in Seq(Packet)
  BY <1>1, <1>2, Appended
<1> QED
  BY <1>1, <1>2, <1>3 DEF TypeOK, ReadCb

\* What a rotation does to the files.
LEMMA ReloadCbDisk == ASSUME TypeOK, ReloadCb
  PROVE  /\ filename_count' \in File /\ filename_count' = filename_count + 1
         /\ disk' \in [File -> [state : FileState,
                               packets : Seq(Packet)]]
         /\ \A f \in File : disk'[f].packets = disk[f].packets
         /\ \A f \in File : f # out /\ f # filename_count' => disk'[f].state = disk[f].state
         /\ out # filename_count' => disk'[out].state = "complete"
         /\ disk'[filename_count'].state = "open"
<1>1. /\ filename_count \in Nat /\ filename_count' = filename_count + 1
      /\ filename_count' < MaxFiles /\ out \in File
  BY DEF TypeOK, ReloadCb
<1>2. filename_count' \in Nat
  BY <1>1
<1>3. filename_count' \in File
  BY <1>1, <1>2, Files
<1> QED
  BY <1>1, <1>3 DEF TypeOK, ReloadCb, FileState

\* The prefix that survives a crash.
LEMMA Survivor ==
  ASSUME NEW T, NEW s \in Seq(T), NEW n \in 0..Len(s)
  PROVE  /\ SubSeq(s, 1, n) \in Seq(T)
         /\ Len(SubSeq(s, 1, n)) = n
         /\ \A i \in 1..n : SubSeq(s, 1, n)[i] = s[i]
  OBVIOUS

\* What is left of a file is the beginning of it.
LEMMA RemainsPrefix == ASSUME TypeOK, NEW f \in File, NEW left \in Remains(f)
  PROVE  /\ left \in [state : FileState, packets : Seq(Packet)]
         /\ left.state \in {"cut", "empty"}
         /\ \E n \in 0..Len(disk[f].packets) :
              /\ Len(left.packets) = n
              /\ \A i \in 1..n : left.packets[i] = disk[f].packets[i]
<1>1. disk[f].packets \in Seq(Packet) /\ Len(disk[f].packets) \in Nat
  BY DEF TypeOK
<1>2. CASE left = [state |-> "empty", packets |-> <<>>]
  <2>1. <<>> \in Seq(Packet) /\ Len(<<>>) = 0 /\ 0 \in 0..Len(disk[f].packets)
    BY <1>1
  <2> QED
    BY <1>2, <2>1 DEF FileState
<1>3. CASE left # [state |-> "empty", packets |-> <<>>]
  <2>1. PICK n \in 0..Len(disk[f].packets) :
          left = [state |-> "cut", packets |-> SubSeq(disk[f].packets, 1, n)]
    BY <1>3 DEF Remains
  <2>2. /\ SubSeq(disk[f].packets, 1, n) \in Seq(Packet)
        /\ Len(SubSeq(disk[f].packets, 1, n)) = n
        /\ \A i \in 1..n : SubSeq(disk[f].packets, 1, n)[i] = disk[f].packets[i]
    BY <1>1, Survivor
  <2> QED
    BY <2>1, <2>2 DEF FileState
<1> QED
  BY <1>2, <1>3

\* The files once file f is replaced by what is left of it.
CutShort(f) ==
  /\ disk' \in [File -> [state : FileState, packets : Seq(Packet)]]
  /\ \A g \in File : g # f => disk'[g].packets = disk[g].packets
  /\ disk'[f].state \in {"cut", "empty"}
  /\ \E n \in 0..Len(disk[f].packets) :
       /\ Len(disk'[f].packets) = n
       /\ \A i \in 1..n : disk'[f].packets[i] = disk[f].packets[i]

LEMMA CrashDisk == ASSUME TypeOK, Crash \/ CloseUnflushed
  PROVE  /\ CutShort(out)
         /\ \A f \in File : f # out => disk'[f] = disk[f]
<1>1. PICK left \in Remains(out) : disk' = [disk EXCEPT ![out] = left]
  BY DEF Crash, CloseUnflushed
<1>2. out \in File /\ disk \in [File -> [state : FileState, packets : Seq(Packet)]]
  BY DEF TypeOK
<1>3. /\ left \in [state : FileState, packets : Seq(Packet)]
      /\ left.state \in {"cut", "empty"}
      /\ \E n \in 0..Len(disk[out].packets) :
           /\ Len(left.packets) = n
           /\ \A i \in 1..n : left.packets[i] = disk[out].packets[i]
  BY <1>2, RemainsPrefix
<1>4. /\ disk' \in [File -> [state : FileState, packets : Seq(Packet)]]
      /\ disk'[out] = left
      /\ \A f \in File : f # out => disk'[f] = disk[f]
  BY <1>1, <1>2, <1>3
<1> QED
  BY <1>3, <1>4 DEF CutShort

\* What a rotation does that does not complete the old file.
LEMMA ReloadEndFailsDisk ==
  ASSUME TypeOK, out <= filename_count, ReloadEndFails \/ ReloadUnflushed
  PROVE  /\ CutShort(out)
         /\ filename_count' \in File /\ filename_count' > out
         /\ \A f \in File : f # out /\ f # filename_count' => disk'[f] = disk[f]
         /\ ReloadEndFails => disk'[filename_count'].state = "empty"
         /\ ReloadUnflushed => disk'[filename_count'].state = "open"
<1>1. /\ filename_count \in Nat /\ filename_count' = filename_count + 1
      /\ filename_count' < MaxFiles /\ out \in File /\ out \in Nat
  BY Files DEF TypeOK, ReloadEndFails, ReloadUnflushed
<1>2. filename_count' \in File /\ filename_count' > out
  BY <1>1, Files
<1>3. PICK left \in Remains(out), s \in {"empty", "open"} :
        /\ disk' = [disk EXCEPT ![out] = left, ![filename_count + 1].state = s]
        /\ ReloadEndFails => s = "empty"
        /\ ReloadUnflushed => s = "open"
  <2>1. ~(ReloadEndFails /\ ReloadUnflushed)
    BY DEF ReloadEndFails, ReloadUnflushed, Running
  <2> QED
    BY <2>1 DEF ReloadEndFails, ReloadUnflushed
<1>4. /\ left \in [state : FileState, packets : Seq(Packet)]
      /\ left.state \in {"cut", "empty"}
      /\ \E n \in 0..Len(disk[out].packets) :
           /\ Len(left.packets) = n
           /\ \A i \in 1..n : left.packets[i] = disk[out].packets[i]
  BY <1>1, RemainsPrefix
<1>5. disk \in [File -> [state : FileState, packets : Seq(Packet)]]
  BY DEF TypeOK
<1>6. filename_count + 1 \in File /\ filename_count + 1 # out
  BY <1>1, <1>2
<1>7. /\ disk' \in [File -> [state : FileState, packets : Seq(Packet)]]
      /\ disk'[out] = left
      /\ \A f \in File : f # out /\ f # filename_count + 1 => disk'[f] = disk[f]
      /\ disk'[filename_count + 1].state = s
      /\ disk'[filename_count + 1].packets = disk[filename_count + 1].packets
  BY <1>1, <1>3, <1>4, <1>5, <1>6 DEF FileState
<1>8. \A g \in File : g # out => disk'[g].packets = disk[g].packets
  BY <1>7
<1> QED
  BY <1>1, <1>2, <1>3, <1>4, <1>7, <1>8 DEF CutShort

\* What a rotation does that cannot start the new file.
LEMMA ReloadInitFailsDisk == ASSUME TypeOK, out <= filename_count, ReloadInitFails
  PROVE  /\ disk' \in [File -> [state : FileState, packets : Seq(Packet)]]
         /\ filename_count' \in File /\ filename_count' > out
         /\ \A f \in File : disk'[f].packets = disk[f].packets
         /\ \A f \in File : f # out /\ f # filename_count' => disk'[f] = disk[f]
         /\ disk'[out].state = "complete"
         /\ disk'[filename_count'].state = "empty"
<1>1. /\ filename_count \in Nat /\ filename_count' = filename_count + 1
      /\ filename_count' < MaxFiles /\ out \in File /\ out \in Nat
  BY Files DEF TypeOK, ReloadInitFails
<1>2. filename_count' \in File /\ filename_count' > out
  BY <1>1, Files
<1>3. filename_count + 1 \in File /\ filename_count + 1 # out
  BY <1>1, <1>2
<1> QED
  BY <1>1, <1>2, <1>3 DEF TypeOK, ReloadInitFails, FileState

LEMMA CloseDisk == ASSUME TypeOK, Close
  PROVE  /\ disk' \in [File -> [state : FileState,
                               packets : Seq(Packet)]]
         /\ \A f \in File : f # out => disk'[f] = disk[f]
         /\ disk'[out].state = "complete"
         /\ disk'[out].packets = disk[out].packets
  BY DEF TypeOK, Close, FileState

LEMMA TypesStep == ASSUME TypeOK, OneOpenFile, Next PROVE TypeOK'
<1>1. CASE Arrive
  <2>1. arrived + 1 \in Packet /\ arrived' \in 0..MaxPackets
    BY <1>1, ServerAssumption DEF Arrive, TypeOK, Packet
  <2>2. socket' \in Seq(Packet)
    BY <1>1, <2>1, Appended DEF Arrive, TypeOK
  <2> QED
    BY <1>1, <2>1, <2>2 DEF Arrive, TypeOK
<1>2. CASE Reload \/ Down \/ EventEnd
  BY <1>2 DEF Reload, Down, EventEnd, TypeOK
<1>3. CASE ReadCb
  <2>1. recorded' \in Seq(Packet) /\ socket' \in Seq(Packet)
    BY <1>3, ReadCbDisk, Appended, Tailed DEF ReadCb, TypeOK
  <2> QED
    BY <1>3, <2>1, ReadCbDisk DEF ReadCb, TypeOK
<1>8. CASE ReloadUnnamed
  BY <1>8 DEF ReloadUnnamed, TypeOK
<1>4. CASE ReloadNoName \/ ReloadFails
  <2>1. filename_count' = filename_count + 1 /\ greload' = FALSE /\ filename_count \in Nat
    BY <1>4 DEF ReloadNoName, ReloadFails, TypeOK
  <2>2. UNCHANGED <<pc, arrived, socket, recorded, filename, lost, out, disk, event_killer>>
    BY <1>4 DEF ReloadNoName, ReloadFails
  <2>3. filename_count' \in Nat
    BY <2>1
  <2> QED
    BY <2>1, <2>2, <2>3 DEF TypeOK
<1>5. CASE ReloadCb
  <2>1. filename_count' \in Nat /\ out' \in File
    BY <1>5, ReloadCbDisk, Files DEF ReloadCb
  <2> QED
    BY <1>5, <2>1, ReloadCbDisk DEF ReloadCb, TypeOK
<1>6. CASE Close
  BY <1>6, CloseDisk DEF Close, TypeOK
<1>7. CASE Crash
  BY <1>7, CrashDisk DEF Crash, TypeOK, CutShort
<1>9. CASE ReloadEndFails
  <2>1. filename_count' \in Nat /\ out <= filename_count
    BY <1>9 DEF ReloadEndFails, TypeOK, OneOpenFile
  <2> QED
    BY <1>9, <2>1, ReloadEndFailsDisk DEF ReloadEndFails, TypeOK, CutShort
<1>10. CASE ReloadInitFails
  <2>1. filename_count' \in Nat /\ out <= filename_count
    BY <1>10 DEF ReloadInitFails, TypeOK, OneOpenFile
  <2> QED
    BY <1>10, <2>1, ReloadInitFailsDisk DEF ReloadInitFails, TypeOK
<1>11. CASE ReloadUnflushed
  <2>1. filename_count' \in Nat /\ out <= filename_count
    BY <1>11 DEF ReloadUnflushed, TypeOK, OneOpenFile
  <2> QED
    BY <1>11, <2>1, ReloadEndFailsDisk DEF ReloadUnflushed, TypeOK, CutShort
<1>12. CASE CloseUnflushed
  BY <1>12, CrashDisk DEF CloseUnflushed, TypeOK, CutShort
<1> QED
  BY <1>1, <1>2, <1>3, <1>4, <1>5, <1>6, <1>7, <1>8, <1>9, <1>10, <1>11, <1>12 DEF Next

LEMMA OneOpenFileStep == ASSUME TypeOK, OneOpenFile, Next PROVE OneOpenFile'
<1> USE Files
<1>1. CASE Arrive \/ Reload \/ Down \/ EventEnd
  BY <1>1 DEF Arrive, Reload, Down, EventEnd, OneOpenFile, Running
<1>2. CASE ReadCb
  BY <1>2, ReadCbDisk DEF ReadCb, OneOpenFile, Running
<1>3. CASE ReloadUnnamed \/ ReloadNoName \/ ReloadFails
  <2>1. /\ UNCHANGED <<pc, lost, out, disk>> /\ Running /\ filename_count \in Nat /\ out \in Nat
        /\ filename_count' \in {filename_count, filename_count + 1}
    BY <1>3 DEF ReloadUnnamed, ReloadNoName, ReloadFails, TypeOK
  <2>2. pc # "dead" /\ pc # "stopped"
    BY <2>1 DEF Running
  <2>3. out' <= filename_count'
    BY <2>1 DEF OneOpenFile
  <2> QED
    BY <2>1, <2>2, <2>3 DEF OneOpenFile, Running
<1>4. CASE ReloadCb
  <2>1. out <= filename_count /\ filename_count \in Nat /\ out \in Nat
    BY DEF OneOpenFile, TypeOK
  <2>2. /\ filename_count' = filename_count + 1 /\ filename_count' \in File
        /\ out' = filename_count' /\ Running' /\ Running /\ pc' # "dead" /\ pc' # "stopped"
        /\ ~lost' => ~lost
    BY <1>4, ReloadCbDisk DEF ReloadCb, Running
  <2>3. out < filename_count'
    BY <2>1, <2>2
  <2>4. ASSUME NEW f \in File
        PROVE  /\ f < out' => /\ disk'[f].state # "open"
                              /\ ~lost' => disk'[f].state \in {"complete", "absent"}
               /\ f = out' => disk'[f].state = "open"
               /\ f > out' => disk'[f].state = "absent"
    <3>1. f \in Nat
      BY Files
    <3>2. CASE f = out
      BY <1>4, <2>2, <2>3, <3>2, ReloadCbDisk
    <3>3. CASE f = filename_count'
      BY <1>4, <2>1, <2>2, <3>3, ReloadCbDisk
    <3>4. CASE f # out /\ f # filename_count'
      <4>1. disk'[f].state = disk[f].state
        BY <1>4, <3>4, ReloadCbDisk
      <4> QED
        BY <2>1, <2>2, <2>3, <3>1, <3>4, <4>1 DEF OneOpenFile, Running
    <3> QED
      BY <3>2, <3>3, <3>4
  <2>6. out' <= filename_count'
    BY <2>1, <2>2
  <2> QED
    BY <2>2, <2>4, <2>6 DEF OneOpenFile
<1>5. CASE Close
  BY <1>5, CloseDisk DEF Close, OneOpenFile, Running
<1>6. CASE Crash
  BY <1>6, CrashDisk DEF Crash, OneOpenFile, Running, CutShort
<1>7. CASE ReloadEndFails
  <2>1. /\ out <= filename_count /\ filename_count \in Nat /\ out \in Nat
        /\ Running /\ pc # "dead" /\ pc' = "dead" /\ ~Running' /\ out' = out /\ lost' = lost
        /\ filename_count' = filename_count + 1
    BY <1>7 DEF OneOpenFile, TypeOK, ReloadEndFails, Running
  <2>2. /\ disk'[out].state \in {"cut", "empty"}
        /\ filename_count' \in File /\ filename_count' > out
        /\ \A f \in File : f # out /\ f # filename_count' => disk'[f] = disk[f]
        /\ disk'[filename_count'].state = "empty"
    BY <1>7, <2>1, ReloadEndFailsDisk DEF CutShort
  <2>3. \A f \in File :
          /\ f < out => /\ disk[f].state # "open"
                        /\ ~lost => disk[f].state \in {"complete", "absent"}
          /\ f > out => disk[f].state = "absent"
    BY <2>1 DEF OneOpenFile
  <2>4. \A f \in File : f \in Nat
    BY Files
  <2> QED
    BY <2>1, <2>2, <2>3, <2>4 DEF OneOpenFile
<1>8. CASE ReloadInitFails
  <2>1. /\ out <= filename_count /\ filename_count \in Nat /\ out \in Nat
        /\ Running /\ pc # "dead" /\ pc' = "dead" /\ ~Running'
        /\ out' = filename_count' /\ filename_count' = filename_count + 1 /\ lost' = lost
    BY <1>8 DEF OneOpenFile, TypeOK, ReloadInitFails, Running
  <2>2. /\ disk'[out].state = "complete"
        /\ filename_count' \in File /\ filename_count' > out
        /\ \A f \in File : f # out /\ f # filename_count' => disk'[f] = disk[f]
        /\ disk'[filename_count'].state = "empty"
    BY <1>8, <2>1, ReloadInitFailsDisk
  <2>3. \A f \in File :
          /\ f < out => /\ disk[f].state # "open"
                        /\ ~lost => disk[f].state \in {"complete", "absent"}
          /\ f > out => disk[f].state = "absent"
    BY <2>1 DEF OneOpenFile
  <2>4. \A f \in File : f \in Nat
    BY Files
  <2>5. filename_count' <= filename_count'
    BY <2>1
  <2> QED
    BY <2>1, <2>2, <2>3, <2>4, <2>5 DEF OneOpenFile
<1>9. CASE ReloadUnflushed
  <2>1. /\ out <= filename_count /\ filename_count \in Nat /\ out \in Nat
        /\ Running /\ pc # "dead" /\ pc' # "dead" /\ pc' # "stopped" /\ lost'
        /\ out' = filename_count' /\ filename_count' = filename_count + 1
    BY <1>9 DEF OneOpenFile, TypeOK, ReloadUnflushed, Running
  <2>2. /\ disk'[out].state \in {"cut", "empty"}
        /\ filename_count' \in File /\ filename_count' > out
        /\ \A f \in File : f # out /\ f # filename_count' => disk'[f] = disk[f]
        /\ disk'[filename_count'].state = "open"
    BY <1>9, <2>1, ReloadEndFailsDisk DEF CutShort
  <2>3. \A f \in File : /\ f < out => disk[f].state # "open"
                        /\ f > out => disk[f].state = "absent"
    BY <2>1 DEF OneOpenFile
  <2>4. \A f \in File : f \in Nat
    BY Files
  <2>5. filename_count' <= filename_count'
    BY <2>1
  <2> QED
    BY <2>1, <2>2, <2>3, <2>4, <2>5 DEF OneOpenFile
<1>10. CASE CloseUnflushed
  BY <1>10, CrashDisk DEF CloseUnflushed, OneOpenFile, Running, CutShort
<1> QED
  BY <1>1, <1>2, <1>3, <1>4, <1>5, <1>6, <1>7, <1>8, <1>9, <1>10 DEF Next

LEMMA InOrderStep == ASSUME TypeOK, InOrder, Next PROVE InOrder'
<1>1. CASE Arrive
  <2>1. CASE Len(socket) < SockBuf
    <3>1. /\ arrived \in Nat /\ arrived + 1 \in Packet /\ socket \in Seq(Packet)
          /\ recorded \in Seq(Packet)
      BY <1>1, ServerAssumption DEF Arrive, TypeOK, Packet
    <3>2. /\ Len(socket') = Len(socket) + 1
          /\ \A i \in 1..(Len(socket) + 1) :
               socket'[i] = IF i <= Len(socket) THEN socket[i] ELSE arrived + 1
      BY <1>1, <2>1, <3>1, Appended DEF Arrive
    <3>3. /\ \A i \in 1..Len(socket) : socket[i] \in Nat
          /\ \A i \in 1..Len(recorded) : recorded[i] \in Nat
      BY <3>1, ServerAssumption DEF Packet
    <3>4. recorded' = recorded /\ arrived' = arrived + 1 /\ Len(recorded) \in Nat /\ Len(socket) \in Nat
      BY <1>1, <3>1 DEF Arrive
    <3>5. \A i \in 1..Len(recorded') : recorded'[i] <= arrived'
      BY <3>1, <3>3, <3>4 DEF InOrder
    <3>6. \A i \in 1..Len(socket') : socket'[i] <= arrived'
      BY <3>1, <3>2, <3>3, <3>4 DEF InOrder
    <3>7. \A i, j \in 1..Len(socket') : i < j => socket'[i] < socket'[j]
      BY <3>1, <3>2, <3>3, <3>4 DEF InOrder
    <3>8. \A i \in 1..Len(recorded'), j \in 1..Len(socket') : recorded'[i] < socket'[j]
      BY <3>1, <3>2, <3>3, <3>4 DEF InOrder
    <3>9. \A i, j \in 1..Len(recorded') : i < j => recorded'[i] < recorded'[j]
      BY <3>4 DEF InOrder
    <3> QED
      BY <3>5, <3>6, <3>7, <3>8, <3>9 DEF InOrder
  <2>2. CASE ~(Len(socket) < SockBuf)
    <3>1. /\ \A i \in 1..Len(socket) : socket[i] \in Nat
          /\ \A i \in 1..Len(recorded) : recorded[i] \in Nat
          /\ arrived \in Nat
      BY ServerAssumption DEF Packet, TypeOK
    <3>2. arrived' = arrived + 1 /\ socket' = socket /\ recorded' = recorded
      BY <1>1, <2>2 DEF Arrive
    <3>3. /\ \A i \in 1..Len(socket) : socket[i] <= arrived'
          /\ \A i \in 1..Len(recorded) : recorded[i] <= arrived'
      BY <3>1, <3>2 DEF InOrder
    <3> QED
      BY <3>2, <3>3 DEF InOrder
  <2> QED
    BY <2>1, <2>2
<1>2. CASE ReadCb
  <2>1. /\ Len(socket') = Len(socket) - 1 /\ Len(socket) >= 1 /\ Len(socket) \in Nat
        /\ \A i \in 1..(Len(socket) - 1) : socket'[i] = socket[i + 1]
        /\ Head(socket) = socket[1] /\ Head(socket) \in Packet
    BY <1>2, Tailed DEF ReadCb, TypeOK
  <2>2. /\ Len(recorded') = Len(recorded) + 1 /\ Len(recorded) \in Nat
        /\ \A i \in 1..(Len(recorded) + 1) :
             recorded'[i] = IF i <= Len(recorded) THEN recorded[i] ELSE socket[1]
    BY <1>2, <2>1, Appended DEF ReadCb, TypeOK
  <2>3. arrived' = arrived
    BY <1>2 DEF ReadCb
  <2>4. \A i \in 1..Len(recorded') : recorded'[i] <= arrived'
    BY <2>1, <2>2, <2>3 DEF InOrder
  <2>5. \A i \in 1..Len(socket') : socket'[i] <= arrived'
    BY <2>1, <2>3 DEF InOrder
  <2>6. \A i, j \in 1..Len(recorded') : i < j => recorded'[i] < recorded'[j]
    BY <2>1, <2>2 DEF InOrder
  <2>7. \A i, j \in 1..Len(socket') : i < j => socket'[i] < socket'[j]
    <3>1. ASSUME NEW i \in 1..Len(socket'), NEW j \in 1..Len(socket'), i < j
          PROVE  socket[i + 1] < socket[j + 1]
      BY <2>1, <3>1 DEF InOrder
    <3> QED
      BY <2>1, <3>1
  <2>8. \A i \in 1..Len(recorded'), j \in 1..Len(socket') : recorded'[i] < socket'[j]
    <3>1. ASSUME NEW i \in 1..Len(recorded'), NEW j \in 1..Len(socket')
          PROVE  recorded'[i] < socket[j + 1]
      <4>1. j + 1 \in 1..Len(socket) /\ 1 \in 1..Len(socket) /\ 1 < j + 1
        BY <2>1
      <4>2. CASE i <= Len(recorded)
        BY <4>1, <4>2, <2>2 DEF InOrder
      <4>3. CASE ~(i <= Len(recorded))
        BY <4>1, <4>3, <2>2 DEF InOrder
      <4> QED
        BY <4>2, <4>3
    <3> QED
      BY <2>1, <3>1
  <2> QED
    BY <2>4, <2>5, <2>6, <2>7, <2>8 DEF InOrder
<1>3. CASE UNCHANGED <<arrived, socket, recorded>>
  BY <1>3 DEF InOrder
<1> QED
  BY <1>1, <1>2, <1>3 DEF Next, Reload, Down, ReloadUnnamed, ReloadNoName, ReloadFails,
     ReloadCb, ReloadUnflushed, ReloadEndFails, ReloadInitFails, EventEnd, Close,
     CloseUnflushed, Crash

\* An event that reads no packet, and only lets a file be cut if it is the
\* current one, leaves the places where they are.
LEMMA ChunksKept ==
  ASSUME NEW start, Chunks(start), recorded' = recorded,
         \A f \in 0..MaxFiles : f > out' => f > out,
         \A f \in File : /\ disk'[f].packets = disk[f].packets
                         /\ Sound(disk'[f].state) => Sound(disk[f].state)
  PROVE  Chunks(start)'
<1>1. Cut(start)'
  BY DEF Chunks, Cut
<1>2. Holds(start)'
  BY DEF Chunks, Holds
<1> QED
  BY <1>1, <1>2 DEF Chunks

\* The places once a packet more is recorded in the current file.
Further(start) == [f \in 0..MaxFiles |-> IF f > out THEN Len(recorded) + 1 ELSE start[f]]

LEMMA Places ==
  ASSUME NEW start, TypeOK, Cut(start)
  PROVE  /\ \A f \in 0..MaxFiles : start[f] \in Nat /\ start[f] <= Len(recorded)
         /\ Len(recorded) \in Nat
         /\ out + 1 \in 0..MaxFiles /\ start[out + 1] = Len(recorded)
         /\ \A f \in File : f \in 0..MaxFiles /\ f + 1 \in 0..MaxFiles /\ f \in Nat
<1>1. MaxFiles \in Nat /\ out \in Nat /\ out < MaxFiles /\ Len(recorded) \in Nat
  BY Files DEF TypeOK
<1>2. MaxFiles \in 0..MaxFiles /\ start[MaxFiles] = Len(recorded)
  BY <1>1 DEF Cut
<1>3. \A f \in 0..MaxFiles : start[f] \in Nat /\ start[f] <= Len(recorded)
  BY <1>1, <1>2 DEF Cut
<1>4. out + 1 \in 0..MaxFiles /\ out + 1 > out
  BY <1>1
<1>5. start[out + 1] = Len(recorded)
  BY <1>4 DEF Cut
<1> QED
  BY <1>1, <1>3, <1>4, <1>5, Files

LEMMA ChunksReadCb ==
  ASSUME NEW start, NEW new, new = Further(start),
         TypeOK, OneOpenFile, Chunks(start), ReadCb
  PROVE  Chunks(new)'
<1>1. /\ out \in Nat /\ out \in File /\ out < MaxFiles /\ MaxFiles \in Nat /\ out' = out
  BY Files DEF ReadCb
<1>2. /\ Len(recorded') = Len(recorded) + 1 /\ Len(recorded) \in Nat
      /\ \A i \in 1..(Len(recorded) + 1) :
           recorded'[i] = IF i <= Len(recorded) THEN recorded[i] ELSE Head(socket)
  BY ReadCbDisk, Appended DEF ReadCb, TypeOK
<1>3. /\ new \in [0..MaxFiles -> Nat]
      /\ \A f \in 0..MaxFiles : new[f] = IF f > out THEN Len(recorded) + 1 ELSE start[f]
  BY <1>1, <1>2 DEF Further, Chunks, Cut
<1>4. /\ \A f \in 0..MaxFiles : start[f] \in Nat /\ start[f] <= Len(recorded)
      /\ out + 1 \in 0..MaxFiles /\ start[out + 1] = Len(recorded)
      /\ \A f \in File : f \in 0..MaxFiles /\ f + 1 \in 0..MaxFiles /\ f \in Nat
  BY Places DEF Chunks
<1>5. \A f \in File : Len(disk[f].packets) \in Nat
  BY DEF TypeOK
<1>6. disk[out].state = "open" /\ Running
  BY <1>1 DEF OneOpenFile, ReadCb, Running
<1>7. start[out] + Len(disk[out].packets) = Len(recorded)
  BY <1>1, <1>4, <1>6 DEF Chunks, Holds, Sound
<1>8. \A f \in File : f # out => disk'[f] = disk[f]
  BY ReadCbDisk
<1>9. /\ disk'[out].state = "open"
      /\ Len(disk'[out].packets) = Len(disk[out].packets) + 1
      /\ \A p \in 1..(Len(disk[out].packets) + 1) : disk'[out].packets[p] =
           IF p <= Len(disk[out].packets) THEN disk[out].packets[p] ELSE Head(socket)
  <2>1. disk[out].packets \in Seq(Packet) /\ Head(socket) \in Packet
    BY <1>1, ReadCbDisk DEF TypeOK
  <2>2. Len(disk[out].packets) \in Nat
    BY <2>1
  <2>3. /\ disk'[out].state = "open"
        /\ disk'[out].packets = Append(disk[out].packets, Head(socket))
    BY <1>6, ReadCbDisk
  <2> QED
    BY <2>1, <2>2, <2>3, Appended
<1>10. Cut(new)'
  <2>1. 0 \in 0..MaxFiles /\ new[0] = 0
    BY <1>1, <1>3 DEF Chunks, Cut
  <2>2. ASSUME NEW f \in 0..MaxFiles, NEW g \in 0..MaxFiles, f <= g
        PROVE  new[f] <= new[g]
    <3>1. start[f] <= start[g]
      BY <2>2 DEF Chunks, Cut
    <3>2. /\ start[f] \in Nat /\ start[g] \in Nat
          /\ start[f] <= Len(recorded) /\ start[g] <= Len(recorded)
      BY <1>4
    <3>3. /\ new[f] = IF f > out THEN Len(recorded) + 1 ELSE start[f]
          /\ new[g] = IF g > out THEN Len(recorded) + 1 ELSE start[g]
      BY <1>3
    <3>4. f \in Int /\ g \in Int /\ out \in Int /\ f <= g
      BY <1>1, <2>2
    <3> QED
      BY <1>2, <3>1, <3>2, <3>3, <3>4
  <2>3. \A f \in 0..MaxFiles : f > out => new[f] = Len(recorded')
    BY <1>2, <1>3
  <2>4. ASSUME NEW i \in 1..Len(recorded')
        PROVE  \E f \in File : new[f] < i /\ i <= new[f + 1]
    <3>1. CASE i <= Len(recorded)
      <4>1. PICK f \in File : start[f] < i /\ i <= start[f + 1]
        BY <1>2, <3>1 DEF Chunks, Cut
      <4>2. ~(f > out)
        BY <1>2, <1>4, <3>1, <4>1 DEF Chunks, Cut
      <4>3. new[f] = start[f] /\ new[f + 1] >= start[f + 1]
        <5>1. /\ f \in 0..MaxFiles /\ f + 1 \in 0..MaxFiles
              /\ start[f + 1] \in Nat /\ start[f + 1] <= Len(recorded)
          BY <1>4
        <5>2. /\ new[f] = start[f]
              /\ new[f + 1] = Len(recorded) + 1 \/ new[f + 1] = start[f + 1]
          BY <1>3, <4>2, <5>1
        <5> QED
          BY <1>2, <5>1, <5>2
      <4>4. new[f + 1] \in Nat /\ start[f + 1] \in Nat
        BY <1>3, <1>4
      <4> QED
        BY <4>1, <4>3, <4>4
    <3>2. CASE i = Len(recorded) + 1
      <4>1. new[out] = start[out] /\ new[out + 1] = Len(recorded) + 1
        BY <1>1, <1>3, <1>4
      <4> QED
        BY <1>1, <1>2, <1>4, <3>2, <4>1
    <3> QED
      BY <1>2, <3>1, <3>2
  <2> QED
    BY <1>1, <1>3, <2>1, <2>2, <2>3, <2>4 DEF Cut
<1>11. Holds(new)'
  <2>1. ASSUME NEW f \in File
        PROVE  /\ new[f] + Len(disk'[f].packets) <= new[f + 1]
               /\ Sound(disk'[f].state) => new[f] + Len(disk'[f].packets) = new[f + 1]
               /\ \A p \in 1..Len(disk'[f].packets) :
                    disk'[f].packets[p] = recorded'[new[f] + p]
    <3>1. /\ f \in Nat /\ f \in 0..MaxFiles /\ f + 1 \in 0..MaxFiles
          /\ start[f] \in Nat /\ start[f + 1] \in Nat /\ start[f + 1] <= Len(recorded)
          /\ Len(disk[f].packets) \in Nat /\ Len(recorded) \in Nat
      BY <1>2, <1>4, <1>5
    <3>2. /\ start[f] + Len(disk[f].packets) <= start[f + 1]
          /\ Sound(disk[f].state) => start[f] + Len(disk[f].packets) = start[f + 1]
          /\ \A p \in 1..Len(disk[f].packets) : disk[f].packets[p] = recorded[start[f] + p]
      BY DEF Chunks, Holds
    <3>3. /\ new[f] = IF f > out THEN Len(recorded) + 1 ELSE start[f]
          /\ new[f + 1] = IF f + 1 > out THEN Len(recorded) + 1 ELSE start[f + 1]
      BY <1>3, <3>1
    <3>4. CASE f < out
      <4>1. new[f] = start[f] /\ new[f + 1] = start[f + 1] /\ disk'[f] = disk[f]
        BY <1>1, <1>8, <3>1, <3>3, <3>4
      <4>2. ASSUME NEW p \in 1..Len(disk[f].packets)
            PROVE  recorded'[start[f] + p] = recorded[start[f] + p]
        <5>1. start[f] + p \in 1..(Len(recorded) + 1) /\ start[f] + p <= Len(recorded)
          BY <1>2, <3>1, <3>2
        <5> QED
          BY <1>2, <5>1
      <4> QED
        BY <3>2, <4>1, <4>2
    <3>5. CASE f = out
      <4>1. new[f] = start[f] /\ new[f + 1] = Len(recorded) + 1
        BY <1>1, <3>1, <3>3, <3>5
      <4>2. new[f] + Len(disk'[f].packets) = new[f + 1]
        <5>1. Len(disk'[f].packets) = Len(disk[f].packets) + 1
          BY <1>9, <3>5
        <5>2. start[f] + Len(disk[f].packets) = Len(recorded)
          BY <1>7, <3>5
        <5>3. start[f] + (Len(disk[f].packets) + 1) = Len(recorded) + 1
          BY <3>1, <5>2
        <5>4. new[f] + Len(disk'[f].packets) = Len(recorded) + 1
          BY <4>1, <5>1, <5>3
        <5> QED
          BY <4>1, <5>4
      <4>3. ASSUME NEW p \in 1..Len(disk'[f].packets)
            PROVE  disk'[f].packets[p] = recorded'[new[f] + p]
        <5>1. p \in 1..(Len(disk[f].packets) + 1) /\ p \in Nat /\ p >= 1
          BY <1>9, <3>1, <3>5
        <5>4. start[f] + Len(disk[f].packets) = Len(recorded)
          BY <1>7, <3>5
        <5>2. CASE p <= Len(disk[f].packets)
          <6>1. /\ p \in 1..Len(disk[f].packets) /\ start[f] + p \in 1..(Len(recorded) + 1)
                /\ start[f] + p <= Len(recorded)
            <7>1. \A l, m, n, k \in Nat : k >= 1 /\ k <= l /\ m + l = n =>
                    m + k <= n /\ m + k \in 1..(n + 1) /\ k \in 1..l
              OBVIOUS
            <7> QED
              BY <3>1, <5>1, <5>2, <5>4, <7>1
          <6>2. disk'[f].packets[p] = disk[f].packets[p]
            BY <1>9, <3>5, <5>1, <5>2
          <6> QED
            BY <1>2, <3>2, <4>1, <6>1, <6>2
        <5>3. CASE p = Len(disk[f].packets) + 1
          <6>1. disk'[f].packets[p] = Head(socket)
            BY <1>9, <3>1, <3>5, <5>1, <5>3
          <6>2. new[f] + p = Len(recorded) + 1
            <7>1. start[f] + (Len(disk[f].packets) + 1) = Len(recorded) + 1
              BY <3>1, <5>4
            <7> QED
              BY <4>1, <5>3, <7>1
          <6>3. recorded'[Len(recorded) + 1] = Head(socket)
            BY <1>2
          <6> QED
            BY <6>1, <6>2, <6>3
        <5>5. p <= Len(disk[f].packets) \/ p = Len(disk[f].packets) + 1
          BY <3>1, <5>1
        <5> QED
          BY <5>2, <5>3, <5>5
      <4> QED
        <5>1. Len(recorded) + 1 <= Len(recorded) + 1
          BY <3>1
        <5>2. new[f] + Len(disk'[f].packets) <= new[f + 1]
          BY <4>1, <4>2, <5>1
        <5> QED
          BY <4>2, <4>3, <5>2
    <3>6. CASE f > out
      <4>1. /\ new[f] = Len(recorded) + 1 /\ new[f + 1] = Len(recorded) + 1
            /\ new[f] \in Nat /\ new[f + 1] \in Nat
        BY <1>1, <3>1, <3>3, <3>6
      <4>2. start[f] = Len(recorded) /\ start[f + 1] = Len(recorded)
        BY <1>1, <3>1, <3>6 DEF Chunks, Cut
      <4>3. Len(disk[f].packets) = 0
        BY <1>2, <3>1, <3>2, <4>2
      <4>4. disk'[f] = disk[f]
        BY <1>1, <1>8, <3>1, <3>6
      <4>5. Len(disk'[f].packets) = 0
        BY <4>3, <4>4
      <4>6. new[f] + 0 = new[f + 1] /\ new[f + 1] <= new[f + 1]
        BY <3>1, <4>1
      <4>7. \A p \in 1..0 : FALSE
        OBVIOUS
      <4> QED
        BY <4>5, <4>6, <4>7
    <3> QED
      BY <1>1, <3>1, <3>4, <3>5, <3>6
  <2> QED
    BY <2>1 DEF Holds
<1> QED
  BY <1>10, <1>11 DEF Chunks

\* Nor does an event that cuts the current file.
LEMMA ChunksCut ==
  ASSUME NEW start, TypeOK, Chunks(start), CutShort(out),
         recorded' = recorded, \A f \in 0..MaxFiles : f > out' => f > out,
         \A f \in File : f # out => (Sound(disk'[f].state) => Sound(disk[f].state))
  PROVE  Chunks(start)'
<1>1. recorded' = recorded
  OBVIOUS
<1>2. Cut(start)'
  BY <1>1 DEF Chunks, Cut
<1>3. ASSUME NEW f \in File
      PROVE  /\ start[f] + Len(disk'[f].packets) <= start[f + 1]
             /\ Sound(disk'[f].state) => start[f] + Len(disk'[f].packets) = start[f + 1]
             /\ \A p \in 1..Len(disk'[f].packets) :
                  disk'[f].packets[p] = recorded[start[f] + p]
  <2>1. CASE f # out
    BY <2>1 DEF Chunks, Holds, CutShort
  <2>2. CASE f = out
    <3>1. PICK n \in 0..Len(disk[out].packets) :
            /\ Len(disk'[out].packets) = n
            /\ \A i \in 1..n : disk'[out].packets[i] = disk[out].packets[i]
      BY DEF CutShort
    <3>2. Len(disk[f].packets) \in Nat
      BY DEF TypeOK
    <3>3. n \in Nat /\ n <= Len(disk[f].packets)
      BY <2>2, <3>1, <3>2
    <3>4. start[f] \in Nat /\ start[f + 1] \in Nat
      BY Places DEF Chunks
    <3>5. /\ start[f] + Len(disk[f].packets) <= start[f + 1]
          /\ \A p \in 1..Len(disk[f].packets) : disk[f].packets[p] = recorded[start[f] + p]
      BY DEF Chunks, Holds
    <3>6. ~Sound(disk'[f].state)
      BY <2>2 DEF CutShort, Sound
    <3>7. start[f] + n <= start[f + 1]
      BY <3>2, <3>3, <3>4, <3>5
    <3>8. \A p \in 1..n : p \in 1..Len(disk[f].packets)
      BY <3>2, <3>3
    <3> QED
      BY <2>2, <3>1, <3>5, <3>6, <3>7, <3>8
  <2> QED
    BY <2>1, <2>2
<1>4. Holds(start)'
  BY <1>1, <1>3 DEF Holds
<1> QED
  BY <1>2, <1>4 DEF Chunks

LEMMA ChunksStep ==
  ASSUME NEW start, TypeOK, OneOpenFile, Chunks(start), Next
  PROVE  \E new : Chunks(new)'
<1>1. CASE Arrive \/ Reload \/ Down \/ EventEnd \/ ReloadUnnamed \/ ReloadNoName
           \/ ReloadFails
  <2>1. recorded' = recorded /\ out' = out /\ disk' = disk
    BY <1>1 DEF Arrive, Reload, Down, EventEnd, ReloadUnnamed, ReloadNoName, ReloadFails
  <2>2. Chunks(start)'
    BY <2>1 DEF Chunks, Cut, Holds
  <2> QED
    BY <2>2
<1>2. CASE ReadCb
  <2>1. PICK new : new = Further(start)
    OBVIOUS
  <2>2. Chunks(new)'
    BY <1>2, <2>1, ChunksReadCb
  <2> QED
    BY <2>2
<1>3. CASE ReloadCb
  <2>1. out \in Nat /\ out <= filename_count /\ filename_count \in Nat /\ Running
    BY <1>3, Files DEF OneOpenFile, TypeOK, ReloadCb
  <2>2. out' = filename_count' /\ filename_count' = filename_count + 1 /\ recorded' = recorded
    BY <1>3 DEF ReloadCb
  <2>3. disk[out].state = "open" /\ disk[filename_count'].state = "absent"
    <3>1. out \in File /\ filename_count' \in File /\ filename_count' > out
      BY <1>3, <2>1, <2>2, Files, ReloadCbDisk
    <3> QED
      BY <2>1, <3>1 DEF OneOpenFile, Running
  <2>4. \A f \in 0..MaxFiles : f > out' => f > out
    BY <2>1, <2>2
  <2>5. \A f \in File : /\ disk'[f].packets = disk[f].packets
                        /\ Sound(disk'[f].state) => Sound(disk[f].state)
    BY <1>3, <2>3, ReloadCbDisk DEF Sound
  <2>6. Chunks(start)'
    BY <2>2, <2>4, <2>5, ChunksKept
  <2> QED
    BY <2>6
<1>4. CASE Close
  <2>1. disk[out].state = "open"
    BY <1>4, Files DEF OneOpenFile, Close, Running
  <2>2. \A f \in File : /\ disk'[f].packets = disk[f].packets
                        /\ Sound(disk'[f].state) => Sound(disk[f].state)
    BY <1>4, <2>1, CloseDisk DEF Sound
  <2>3. Chunks(start)'
    BY <1>4, <2>2, ChunksKept DEF Close
  <2> QED
    BY <2>3
<1>5. CASE Crash \/ CloseUnflushed
  <2>1. recorded' = recorded /\ out' = out
    BY <1>5 DEF Crash, CloseUnflushed
  <2>2. Chunks(start)'
    BY <1>5, <2>1, CrashDisk, ChunksCut
  <2> QED
    BY <2>2
<1>6. CASE ReloadEndFails
  <2>1. recorded' = recorded /\ out' = out /\ out <= filename_count
    BY <1>6 DEF ReloadEndFails, OneOpenFile
  <2>2. \A f \in File : f # out => (Sound(disk'[f].state) => Sound(disk[f].state))
    BY <1>6, <2>1, ReloadEndFailsDisk DEF Sound
  <2>3. Chunks(start)'
    BY <1>6, <2>1, <2>2, ReloadEndFailsDisk, ChunksCut
  <2> QED
    BY <2>3
<1>7. CASE ReloadInitFails
  <2>1. /\ out <= filename_count /\ recorded' = recorded /\ Running /\ out \in File
        /\ out' = filename_count' /\ out \in Nat
    BY <1>7, Files DEF ReloadInitFails, OneOpenFile
  <2>2. disk[out].state = "open" /\ out' > out /\ out' \in Nat
    BY <1>7, <2>1, Files, ReloadInitFailsDisk DEF OneOpenFile
  <2>3. \A f \in File : /\ disk'[f].packets = disk[f].packets
                        /\ Sound(disk'[f].state) => Sound(disk[f].state)
    BY <1>7, <2>1, <2>2, ReloadInitFailsDisk DEF Sound
  <2>4. \A f \in 0..MaxFiles : f > out' => f > out
    BY <2>1, <2>2
  <2>5. Chunks(start)'
    BY <2>1, <2>3, <2>4, ChunksKept
  <2> QED
    BY <2>5
<1>8. CASE ReloadUnflushed
  <2>1. /\ out <= filename_count /\ recorded' = recorded /\ Running /\ out \in File
        /\ out' = filename_count' /\ out \in Nat
    BY <1>8, Files DEF ReloadUnflushed, OneOpenFile
  <2>2. disk[filename_count'].state = "absent" /\ out' > out /\ out' \in Nat
    BY <1>8, <2>1, Files, ReloadEndFailsDisk DEF OneOpenFile, Running
  <2>3. \A f \in File : f # out => (Sound(disk'[f].state) => Sound(disk[f].state))
    BY <1>8, <2>1, <2>2, ReloadEndFailsDisk DEF Sound
  <2>4. \A f \in 0..MaxFiles : f > out' => f > out
    BY <2>1, <2>2
  <2>5. Chunks(start)'
    BY <1>8, <2>1, <2>3, <2>4, ReloadEndFailsDisk, ChunksCut
  <2> QED
    BY <2>5
<1> QED
  BY <1>1, <1>2, <1>3, <1>4, <1>5, <1>6, <1>7, <1>8 DEF Next

LEMMA ServerInitially == Init => ServerInv
<1> SUFFICES ASSUME Init PROVE ServerInv
  OBVIOUS
<1>1. TypeOK
  <2>1. 0 \in File /\ 0 \in 0..MaxPackets /\ <<>> \in Seq(Packet)
    BY ServerAssumption DEF File
  <2>2. disk \in [File -> [state : FileState,
                           packets : Seq(Packet)]]
    BY <2>1 DEF Init, FileState
  <2> QED
    BY <2>1, <2>2 DEF Init, TypeOK
<1>2. OneOpenFile
  BY Files, <1>1 DEF Init, OneOpenFile, Running
<1>3. InOrder
  BY DEF Init, InOrder
<1>4. PICK start : start = [f \in 0..MaxFiles |-> 0]
  OBVIOUS
<1>5. Cut(start)
  BY <1>4, ServerAssumption DEF Init, Cut
<1>6. \A f \in File : f \in 0..MaxFiles /\ f + 1 \in 0..MaxFiles
  BY <1>1, Files
<1>7. Holds(start)
  BY <1>4, <1>6 DEF Init, Holds
<1> QED
  BY <1>1, <1>2, <1>3, <1>5, <1>7 DEF ServerInv, Chunks

LEMMA ServerPreserves == ServerInv /\ [Next]_vars => ServerInv'
<1> SUFFICES ASSUME ServerInv, [Next]_vars PROVE ServerInv'
  OBVIOUS
<1>1. CASE Next
  <2>1. PICK start : Chunks(start)
    BY DEF ServerInv
  <2>2. \E new : Chunks(new)'
    BY <1>1, <2>1, ChunksStep DEF ServerInv
  <2> QED
    BY <1>1, <2>2, TypesStep, OneOpenFileStep, InOrderStep DEF ServerInv
<1>2. CASE UNCHANGED vars
  <2>1. PICK start : Chunks(start)
    BY DEF ServerInv
  <2>2. Chunks(start)'
    BY <1>2, <2>1 DEF vars, Chunks, Cut, Holds
  <2>3. TypeOK'
    BY <1>2 DEF vars, ServerInv, TypeOK
  <2>4. OneOpenFile'
    BY <1>2 DEF vars, ServerInv, OneOpenFile, Running
  <2>5. InOrder'
    BY <1>2 DEF vars, ServerInv, InOrder
  <2> QED
    BY <2>2, <2>3, <2>4, <2>5 DEF ServerInv
<1> QED
  BY <1>1, <1>2

\* What the invariant says of the recorded packets and the logs.
LEMMA Distinct == ASSUME TypeOK, InOrder
  PROVE  \A i, j \in 1..Len(recorded) : recorded[i] = recorded[j] => i = j
<1> SUFFICES ASSUME NEW i \in 1..Len(recorded), NEW j \in 1..Len(recorded),
                    recorded[i] = recorded[j]
             PROVE  i = j
  OBVIOUS
<1>1. recorded[i] \in Nat /\ recorded[j] \in Nat
  BY ServerAssumption DEF TypeOK, Packet
<1>2. ~(i < j) /\ ~(j < i)
  BY <1>1 DEF InOrder
<1> QED
  BY <1>2 DEF TypeOK

LEMMA Chunk ==
  ASSUME NEW start, TypeOK, Chunks(start), NEW f \in File
  PROVE  /\ f \in Nat /\ f \in 0..MaxFiles /\ f + 1 \in 0..MaxFiles
         /\ start[f] \in Nat /\ start[f + 1] \in Nat
         /\ start[f + 1] <= Len(recorded) /\ Len(recorded) \in Nat
         /\ Len(disk[f].packets) \in Nat
         /\ start[f] + Len(disk[f].packets) <= start[f + 1]
         /\ Sound(disk[f].state) => start[f] + Len(disk[f].packets) = start[f + 1]
         /\ \A p \in 1..Len(disk[f].packets) : disk[f].packets[p] = recorded[start[f] + p]
<1>1. f \in Nat /\ f \in 0..MaxFiles /\ f + 1 \in 0..MaxFiles
  BY Places DEF Chunks
<1>2. /\ start[f] \in Nat /\ start[f + 1] \in Nat
      /\ start[f + 1] <= Len(recorded) /\ Len(recorded) \in Nat
  BY <1>1, Places DEF Chunks
<1>3. Len(disk[f].packets) \in Nat
  BY DEF TypeOK
<1> QED
  BY <1>1, <1>2, <1>3 DEF Chunks, Holds

LEMMA LogsInOrder ==
  ASSUME NEW start, TypeOK, InOrder, Chunks(start),
         NEW f \in File, NEW g \in File,
         NEW p \in 1..Len(disk[f].packets), NEW q \in 1..Len(disk[g].packets)
  PROVE  start[g] + q < start[f] + p <=> Before(g, q, f, p)
<1>1. /\ f \in Nat /\ g \in Nat /\ f + 1 \in 0..MaxFiles /\ g + 1 \in 0..MaxFiles
      /\ f \in 0..MaxFiles /\ g \in 0..MaxFiles
  BY Chunk
<1>2. /\ start[f] \in Nat /\ start[g] \in Nat
      /\ start[f + 1] \in Nat /\ start[g + 1] \in Nat
      /\ Len(disk[f].packets) \in Nat /\ Len(disk[g].packets) \in Nat
      /\ start[f] + Len(disk[f].packets) <= start[f + 1]
      /\ start[g] + Len(disk[g].packets) <= start[g + 1]
  BY Chunk
<1>3. /\ p \in Nat /\ q \in Nat /\ p >= 1 /\ q >= 1
      /\ p <= Len(disk[f].packets) /\ q <= Len(disk[g].packets)
  BY <1>2
<1>4. start[f] + p <= start[f + 1] /\ start[g] + q <= start[g + 1]
  <2>1. \A a, b, l, k \in Nat : a + l <= b /\ k <= l => a + k <= b
    OBVIOUS
  <2> QED
    BY <1>2, <1>3, <2>1
<1>5. CASE g < f
  <2>1. start[g + 1] <= start[f]
    BY <1>1, <1>5 DEF Chunks, Cut
  <2>2. \A a, b, c, k, l \in Nat : b + l <= c /\ c <= a /\ k >= 1 => b + l < a + k
    OBVIOUS
  <2>3. start[g] + q < start[f] + p
    BY <1>2, <1>3, <1>4, <2>1, <2>2
  <2> QED
    BY <1>5, <2>3 DEF Before
<1>6. CASE g = f
  <2>1. \A a, k, l \in Nat : a + l < a + k <=> l < k
    OBVIOUS
  <2>2. start[g] + q < start[f] + p <=> q < p
    BY <1>2, <1>3, <1>6, <2>1
  <2> QED
    BY <1>1, <1>6, <2>2 DEF Before
<1>7. CASE g > f
  <2>1. start[f + 1] <= start[g]
    BY <1>1, <1>7 DEF Chunks, Cut
  <2>2. \A a, b, c, k, l \in Nat : a + k <= c /\ c <= b /\ l >= 1 => ~(b + l < a + k)
    OBVIOUS
  <2>3. ~(start[g] + q < start[f] + p)
    BY <1>2, <1>3, <1>4, <2>1, <2>2
  <2> QED
    BY <1>1, <1>7, <2>3 DEF Before
<1> QED
  BY <1>1, <1>5, <1>6, <1>7

LEMMA LogsAreRecording == ServerInv => FilesHoldRecording
<1> SUFFICES ASSUME ServerInv, pc # "dead", ~lost
             PROVE  /\ \A f \in File : \A p \in DOMAIN disk[f].packets :
                         disk[f].packets[p] \in {recorded[i] : i \in DOMAIN recorded}
                    /\ \A i \in DOMAIN recorded :
                         \E f \in File : \E p \in DOMAIN disk[f].packets :
                           /\ disk[f].packets[p] = recorded[i]
                           /\ \A j \in DOMAIN recorded : \A g \in File :
                                \A q \in DOMAIN disk[g].packets :
                                  disk[g].packets[q] = recorded[j] =>
                                    (j < i <=> Before(g, q, f, p))
  BY DEF FilesHoldRecording
<1>1. PICK start : Chunks(start)
  BY DEF ServerInv
<1>2. TypeOK /\ OneOpenFile /\ InOrder
  BY DEF ServerInv
<1>3. DOMAIN recorded = 1..Len(recorded) /\ Len(recorded) \in Nat
  BY <1>2 DEF TypeOK
<1>4. \A f \in File : DOMAIN disk[f].packets = 1..Len(disk[f].packets)
  BY <1>2 DEF TypeOK
<1>5. ASSUME NEW f \in File PROVE Sound(disk[f].state)
  <2>1. Running \/ pc = "stopped"
    BY <1>2 DEF TypeOK, Running
  <2>2. f < out \/ f = out \/ f > out
    BY <1>2, Files
  <2> QED
    BY <1>2, <2>1, <2>2 DEF OneOpenFile, Running, Sound
\* Where a packet of a log stands in the recording.
<1>6. ASSUME NEW f \in File, NEW p \in 1..Len(disk[f].packets)
      PROVE  /\ start[f] + p \in 1..Len(recorded)
             /\ disk[f].packets[p] = recorded[start[f] + p]
  <2>1. /\ start[f] \in Nat /\ start[f + 1] \in Nat /\ start[f + 1] <= Len(recorded)
        /\ Len(disk[f].packets) \in Nat
        /\ start[f] + Len(disk[f].packets) <= start[f + 1]
        /\ disk[f].packets[p] = recorded[start[f] + p]
    BY <1>1, <1>2, Chunk
  <2>2. \A a, b, l, n, k \in Nat : a + l <= b /\ b <= n /\ 1 <= k /\ k <= l => a + k \in 1..n
    OBVIOUS
  <2>3. p \in Nat /\ 1 <= p /\ p <= Len(disk[f].packets)
    BY <2>1
  <2> QED
    BY <1>3, <2>1, <2>2, <2>3
<1>7. ASSUME NEW f \in File, NEW p \in DOMAIN disk[f].packets
      PROVE  disk[f].packets[p] \in {recorded[i] : i \in DOMAIN recorded}
  BY <1>3, <1>4, <1>6, <1>7
<1>8. ASSUME NEW i \in DOMAIN recorded
      PROVE  \E f \in File : \E p \in DOMAIN disk[f].packets :
               /\ disk[f].packets[p] = recorded[i]
               /\ \A j \in DOMAIN recorded : \A g \in File :
                    \A q \in DOMAIN disk[g].packets :
                      disk[g].packets[q] = recorded[j] => (j < i <=> Before(g, q, f, p))
  <2>1. PICK f \in File : start[f] < i /\ i <= start[f + 1]
    BY <1>1, <1>3, <1>8 DEF Chunks, Cut
  <2>2. /\ start[f] \in Nat /\ start[f + 1] \in Nat /\ Len(disk[f].packets) \in Nat
        /\ start[f] + Len(disk[f].packets) = start[f + 1]
    BY <1>1, <1>2, <1>5, Chunk
  <2>3. i \in Nat
    BY <1>3, <1>8
  <2>4. PICK p : p = i - start[f]
    OBVIOUS
  <2>5. p \in 1..Len(disk[f].packets) /\ start[f] + p = i
    <3>1. \A a, b, l, n \in Nat : a + l = b /\ a < n /\ n <= b =>
            n - a \in 1..l /\ a + (n - a) = n
      OBVIOUS
    <3> QED
      BY <2>1, <2>2, <2>3, <2>4, <3>1
  <2>6. disk[f].packets[p] = recorded[i]
    BY <1>6, <2>5
  <2>7. ASSUME NEW j \in DOMAIN recorded, NEW g \in File,
               NEW q \in DOMAIN disk[g].packets, disk[g].packets[q] = recorded[j]
        PROVE  j < i <=> Before(g, q, f, p)
    <3>1. q \in 1..Len(disk[g].packets)
      BY <1>4, <2>7
    <3>2. start[g] + q = j
      BY <1>2, <1>3, <1>6, <2>7, <3>1, Distinct
    <3>3. start[g] + q < start[f] + p <=> Before(g, q, f, p)
      BY <1>1, <1>2, <2>5, <3>1, LogsInOrder
    <3> QED
      BY <2>5, <3>2, <3>3
  <2> QED
    BY <1>4, <2>5, <2>6, <2>7
<1> QED
  BY <1>7, <1>8

\* Every state of the recorder satisfies the invariant.
THEOREM ServerCorrect == Spec => []ServerInv
<1> QED
  BY ServerInitially, ServerPreserves, PTL DEF Spec

-----------------------------------------------------------------------------
(* The reader.  It starts when the recorder is over, and what it has read  *)
(* is a selection of the recording, in order, up to its place in the       *)
(* current file: nothing but the beginning of it if fclose lost nothing.   *)

\* Its place in the recording.
Place(start) == start[file] + line

Ordered(start) ==
  /\ \A i, j \in 1..Len(lines) : i < j => lines[i] < lines[j]
  /\ reading = "lines" =>
       \A i \in 1..Len(lines) : \E k \in 1..Len(recorded) :
         k <= Place(start) /\ lines[i] = recorded[k]

Exact(start) ==
  /\ Len(lines) <= Len(recorded)
  /\ \A i \in 1..Len(lines) : lines[i] = recorded[i]
  /\ reading = "lines" => Len(lines) = Place(start)
  /\ reading = "eof" /\ NoGap =>
       /\ start[out] <= Len(lines)
       /\ pc = "stopped" => Len(lines) = Len(recorded)

ReaderState ==
  /\ reading \in {"no", "lines", "eof", "error"}
  /\ file \in 0..MaxFiles /\ line \in Nat /\ lines \in Seq(Packet)
  /\ reading = "no" => file = 0 /\ line = 0 /\ lines = <<>>
  /\ reading # "no" => ~Running
  /\ reading = "lines" =>
       /\ file \in File /\ line <= Len(disk[file].packets)
       /\ lines = <<>> => file = 0 /\ line = 0
  /\ ErrorHasCause

Reader(start) == ReaderState /\ Ordered(start) /\ (~lost => Exact(start))

\* Only a named output is rotated.
Unnamed == ~filename => out = 0

RotationInv ==
  /\ TypeOK /\ OneOpenFile /\ InOrder /\ Unnamed
  /\ \E start : Chunks(start) /\ Reader(start)

LEMMA RotationInitially == RotationInit => RotationInv
<1> SUFFICES ASSUME RotationInit PROVE RotationInv
  OBVIOUS
<1>1. ServerInv
  BY ServerInitially DEF RotationInit
<1>2. PICK start : Chunks(start)
  BY <1>1 DEF ServerInv
<1>3. /\ 0 \in 0..MaxFiles /\ recorded = <<>> /\ Unnamed
      /\ reading = "no" /\ file = 0 /\ line = 0 /\ lines = <<>>
  BY ServerAssumption DEF RotationInit, Init, Unnamed
<1>4. Len(lines) = 0 /\ Len(recorded) = 0 /\ lines \in Seq(Packet) /\ 0 \in Nat
  BY <1>3
<1>5. Reader(start)
  BY <1>3, <1>4 DEF Reader, ReaderState, Ordered, Exact, ErrorHasCause
<1> QED
  BY <1>1, <1>2, <1>3, <1>5 DEF ServerInv, RotationInv

\* The recorder only runs as long as there is no reader.
LEMMA ServerAlone == Next => Running
BY DEF Next, Arrive, Reload, Down, ReadCb, ReloadUnnamed, ReloadNoName, ReloadFails,
   ReloadCb, ReloadUnflushed, ReloadEndFails, ReloadInitFails, EventEnd, Close,
   CloseUnflushed, Crash, Running

LEMMA ReaderWaits ==
  ASSUME NEW start, Reader(start), Next, UNCHANGED readerVars,
         NEW new, TypeOK', Chunks(new)'
  PROVE  Reader(new)'
<1>1. reading = "no"
  BY ServerAlone DEF Reader, ReaderState
<1>2. /\ reading' = "no" /\ file' = 0 /\ line' = 0 /\ lines' = <<>>
      /\ 0 \in 0..MaxFiles /\ 0 \in Nat
  BY <1>1, ServerAssumption DEF Reader, ReaderState, readerVars
<1>3. Len(recorded') \in Nat
  BY DEF TypeOK
<1>4. Len(lines') = 0 /\ lines' \in Seq(Packet)
  BY <1>2
<1> QED
  BY <1>2, <1>3, <1>4 DEF Reader, ReaderState, Ordered, Exact, ErrorHasCause

\* One more line.
LEMMA ReaderNextLine ==
  ASSUME NEW start, TypeOK, InOrder, Chunks(start), Reader(start), NextLine
  PROVE  Reader(start)'
<1>1. /\ file \in File /\ line \in Nat /\ lines \in Seq(Packet) /\ Len(lines) \in Nat
      /\ ~Running /\ reading = "lines"
  BY DEF NextLine, Reader, ReaderState
<1>2. /\ line < Len(disk[file].packets) /\ line' = line + 1
      /\ lines' = Append(lines, disk[file].packets[line + 1])
      /\ reading' = "lines" /\ file' = file /\ recorded' = recorded /\ disk' = disk
      /\ Running' = Running /\ out' = out /\ pc' = pc /\ lost' = lost
  BY DEF NextLine, vars, Running
<1>3. /\ start[file] \in Nat /\ start[file + 1] <= Len(recorded) /\ start[file + 1] \in Nat
      /\ Len(disk[file].packets) \in Nat /\ Len(recorded) \in Nat /\ file \in 0..MaxFiles
      /\ start[file] + Len(disk[file].packets) <= start[file + 1]
      /\ \A p \in 1..Len(disk[file].packets) : disk[file].packets[p] = recorded[start[file] + p]
  BY <1>1, Chunk
\* The place of the line.
<1>4. PICK k : k = Place(start) + 1
  OBVIOUS
<1>5. /\ line + 1 \in 1..Len(disk[file].packets) /\ line + 1 \in Nat
      /\ line + 1 <= Len(disk[file].packets)
      /\ Place(start) \in Nat /\ k = start[file] + (line + 1) /\ k \in 1..Len(recorded)
  <2>1. line \in Nat /\ line < Len(disk[file].packets) /\ Len(disk[file].packets) \in Nat
    BY <1>1, <1>2, <1>3
  <2>2. \A l, i \in Nat : i < l => i + 1 \in 1..l /\ i + 1 \in Nat /\ i + 1 <= l
    OBVIOUS
  <2>3. \A a, i \in Nat : a + i \in Nat /\ a + (i + 1) = (a + i) + 1
    OBVIOUS
  <2>4. \A a, b, l, n, i \in Nat : a + l <= b /\ b <= n /\ i < l => (a + i) + 1 \in 1..n
    OBVIOUS
  <2>5. k \in 1..Len(recorded)
    BY <1>3, <1>4, <2>1, <2>4 DEF Place
  <2> QED
    BY <1>3, <1>4, <2>1, <2>2, <2>3, <2>5 DEF Place
<1>6. disk[file].packets[line + 1] = recorded[k] /\ recorded[k] \in Packet
  <2>1. disk[file].packets[line + 1] = recorded[k]
    BY <1>3, <1>5
  <2>2. recorded \in Seq(Packet) /\ k \in 1..Len(recorded)
    BY <1>5 DEF TypeOK
  <2> QED
    BY <2>1, <2>2
<1>7. /\ lines' \in Seq(Packet) /\ Len(lines') = Len(lines) + 1
      /\ \A i \in 1..(Len(lines) + 1) :
           lines'[i] = IF i <= Len(lines) THEN lines[i] ELSE recorded[k]
  BY <1>1, <1>2, <1>6, Appended
<1>8. Place(start)' = k
  BY <1>2, <1>5 DEF Place
<1>9. ASSUME NEW i \in 1..Len(lines')
      PROVE  \/ i \in 1..Len(lines) /\ lines'[i] = lines[i]
             \/ i = Len(lines) + 1 /\ lines'[i] = recorded[k]
  BY <1>1, <1>7
<1>10. ReaderState'
  <2>1. lines' # <<>> /\ ErrorHasCause'
    BY <1>1, <1>2, <1>7 DEF ErrorHasCause
  <2> QED
    BY <1>1, <1>2, <1>3, <1>5, <1>7, <2>1 DEF ReaderState
<1>11. Ordered(start)'
  <2>1. ASSUME NEW i \in 1..Len(lines)
        PROVE  /\ lines[i] < recorded[k]
               /\ \E j \in 1..Len(recorded) : j <= k /\ lines[i] = recorded[j]
    <3>1. PICK j \in 1..Len(recorded) : j <= Place(start) /\ lines[i] = recorded[j]
      BY <1>1 DEF Reader, Ordered
    <3>2. j < k /\ j <= k
      BY <1>3, <1>4, <1>5, <3>1
    <3>3. recorded[j] < recorded[k]
      BY <1>5, <3>2 DEF InOrder
    <3> QED
      BY <3>1, <3>2, <3>3
  <2>2. ASSUME NEW i \in 1..Len(lines'), NEW j \in 1..Len(lines'), i < j
        PROVE  lines'[i] < lines'[j]
    <3>1. CASE j \in 1..Len(lines)
      <4>1. i \in 1..Len(lines) /\ lines'[i] = lines[i] /\ lines'[j] = lines[j]
        BY <1>1, <1>7, <2>2, <3>1
      <4> QED
        BY <2>2, <3>1, <4>1 DEF Reader, Ordered
    <3>2. CASE j = Len(lines) + 1
      <4>1. i \in 1..Len(lines) /\ lines'[i] = lines[i] /\ lines'[j] = recorded[k]
        BY <1>1, <1>7, <2>2, <3>2
      <4> QED
        BY <2>1, <4>1
    <3> QED
      BY <1>9, <3>1, <3>2
  <2>3. ASSUME NEW i \in 1..Len(lines')
        PROVE  \E j \in 1..Len(recorded) : j <= k /\ lines'[i] = recorded[j]
    <3>1. k <= k
      BY <1>3, <1>5
    <3> QED
      BY <1>5, <1>9, <2>1, <3>1
  <2> QED
    BY <1>2, <1>8, <2>2, <2>3 DEF Ordered
<1>12. ASSUME ~lost PROVE Exact(start)'
  <2>1. /\ Len(lines) = Place(start) /\ \A i \in 1..Len(lines) : lines[i] = recorded[i]
    BY <1>1, <1>12 DEF Reader, Exact
  <2>2. k = Len(lines) + 1 /\ Len(lines') = k /\ k <= Len(recorded)
    BY <1>3, <1>4, <1>5, <1>7, <2>1
  <2>3. \A i \in 1..Len(lines') : lines'[i] = recorded[i]
    BY <1>9, <2>1, <2>2
  <2> QED
    BY <1>2, <1>8, <2>2, <2>3 DEF Exact
<1> QED
  BY <1>2, <1>10, <1>11, <1>12 DEF Reader

\* Where the reader is at the end of a file.
LEMMA AtFileEnd ==
  ASSUME NEW start, TypeOK, OneOpenFile, Chunks(start), Reader(start), NoLine
  PROVE  /\ file \in File /\ file \in 0..MaxFiles /\ file + 1 \in 0..MaxFiles /\ ~Running
         /\ start[file] \in Nat /\ start[file + 1] \in Nat /\ Place(start) \in Nat
         /\ start[file] <= Place(start) /\ Place(start) <= start[file + 1]
         /\ Sound(disk[file].state) => Place(start) = start[file + 1]
         /\ lines = <<>> => disk[0].packets = <<>>
         /\ ~lost => Len(lines) = Place(start)
<1>1. /\ file \in File /\ line = Len(disk[file].packets) /\ ~Running
      /\ lines = <<>> => file = 0 /\ line = 0
      /\ ~lost => Len(lines) = Place(start)
  BY DEF NoLine, Reader, ReaderState, Exact
<1>2. /\ start[file] \in Nat /\ start[file + 1] \in Nat /\ line \in Nat
      /\ file \in 0..MaxFiles /\ file + 1 \in 0..MaxFiles
      /\ start[file] + line <= start[file + 1]
      /\ Sound(disk[file].state) => start[file] + line = start[file + 1]
  BY <1>1, Chunk
<1>3. start[file] <= start[file] + line /\ start[file] + line \in Nat
  BY <1>2
<1>4. ASSUME lines = <<>> PROVE disk[0].packets = <<>>
  <2>1. file = 0 /\ line = 0 /\ 0 \in File
    BY <1>1, <1>4
  <2>2. disk[0].packets \in Seq(Packet) /\ Len(disk[0].packets) = 0
    BY <1>1, <2>1 DEF TypeOK
  <2> QED
    BY <2>2
<1> QED
  BY <1>1, <1>2, <1>3, <1>4 DEF Place

\* At the end of the file that was the last one.
LEMMA AtLastEnd ==
  ASSUME NEW start, TypeOK, OneOpenFile, Chunks(start), Reader(start), NoLine, ~lost,
         out <= file
  PROVE  start[out] <= Len(lines) /\ (pc = "stopped" => Len(lines) = Len(recorded))
<1>1. /\ out \in Nat /\ out \in File /\ out \in 0..MaxFiles /\ file \in Nat
      /\ file \in 0..MaxFiles /\ Len(lines) = Place(start)
  BY AtFileEnd, Files, ServerAssumption
<1>2. /\ start[out] \in Nat /\ start[file] \in Nat /\ start[out] <= start[file]
      /\ start[file + 1] \in Nat /\ Len(lines) \in Nat /\ Len(recorded) \in Nat
  <2>1. Len(lines) \in Nat /\ Len(recorded) \in Nat
    BY DEF Reader, ReaderState, TypeOK
  <2>2. \A f \in 0..MaxFiles : start[f] \in Nat
    BY Places DEF Chunks
  <2>3. start[out] <= start[file]
    BY <1>1 DEF Chunks, Cut
  <2> QED
    BY <1>1, <2>1, <2>2, <2>3, AtFileEnd
<1>3. start[out] <= Len(lines)
  BY <1>1, <1>2, AtFileEnd
<1>4. ASSUME pc = "stopped" PROVE Len(lines) = Len(recorded)
  <2>1. file + 1 > out /\ file + 1 \in 0..MaxFiles
    BY <1>1, AtFileEnd
  <2>2. start[file + 1] = Len(recorded)
    BY <2>1 DEF Chunks, Cut
  <2>3. CASE file = out
    <3>1. disk[file].state = "complete"
      BY <1>1, <1>4, <2>3 DEF OneOpenFile
    <3> QED
      BY <1>1, <2>2, <3>1, AtFileEnd DEF Sound
  <2>4. CASE file > out
    <3>1. start[file] = Len(recorded) /\ Len(lines) <= Len(recorded)
      BY <1>1, <2>4 DEF Chunks, Cut, Reader, Exact
    <3>2. Len(recorded) <= Len(lines)
      BY <1>1, <3>1, AtFileEnd
    <3> QED
      BY <1>2, <3>1, <3>2
  <2> QED
    BY <1>1, <2>3, <2>4
<1> QED
  BY <1>3, <1>4

\* Where no file can be opened there is none left of the recording.
LEMMA NoFurtherFile ==
  ASSUME NEW start, TypeOK, OneOpenFile, Chunks(start), Reader(start), NoLine, ~lost,
         ~Opens(file + 1), NoGap
  PROVE  start[out] <= Len(lines) /\ (pc = "stopped" => Len(lines) = Len(recorded))
<1>1. /\ out \in Nat /\ out < MaxFiles /\ out \in File /\ MaxFiles \in Nat
      /\ file \in File /\ file \in Nat
  BY AtFileEnd, Files
<1>2. CASE out <= file
  BY <1>2, AtLastEnd
<1>3. CASE ~(out <= file)
  <2>1. /\ file < out /\ file + 1 <= out /\ file + 1 \in Nat /\ file + 1 < MaxFiles
        /\ file \in 0..out /\ file + 1 \in 0..out
    BY <1>1, <1>3
  <2>2. file + 1 \in File /\ file + 1 <= MaxFiles
    BY <1>1, <2>1, Files
  <2>3. disk[file].state = "complete"
    BY <1>1, <2>1 DEF OneOpenFile, NoGap
  <2>4. disk[file + 1].state # "absent"
    BY <2>1 DEF NoGap
  <2>5. disk[file + 1].state = "empty"
    BY <2>2, <2>4 DEF Opens
  <2>6. file + 1 = out
    <3>1. ~(file + 1 < out)
      BY <2>2, <2>5 DEF OneOpenFile
    <3> QED
      BY <1>1, <2>1, <3>1
  <2>7. pc # "stopped"
    BY <2>2, <2>5, <2>6 DEF OneOpenFile
  <2>8. Len(lines) = start[out]
    BY <2>3, <2>6, AtFileEnd DEF Sound
  <2>9. start[out] \in Nat
    BY <2>2, <2>6, AtFileEnd, Places DEF Chunks
  <2> QED
    BY <2>7, <2>8, <2>9
<1> QED
  BY <1>2, <1>3

\* The end of a file, when the next one is tried.
LEMMA ReaderNextFile ==
  ASSUME NEW start, TypeOK, OneOpenFile, Chunks(start), Reader(start), NextFile
  PROVE  Reader(start)'
<1>1. /\ NoLine /\ reading = "lines" /\ lines # <<>> /\ file' = file + 1 /\ lines' = lines
      /\ recorded' = recorded /\ disk' = disk /\ Running' = Running
      /\ pc' = pc /\ out' = out /\ lost' = lost
  BY DEF NextFile, NoLine, vars, Running
<1>2. /\ file \in File /\ ~Running /\ file' \in 0..MaxFiles
      /\ start[file'] \in Nat /\ Place(start) \in Nat /\ Place(start) <= start[file']
      /\ Sound(disk[file].state) => Place(start) = start[file']
      /\ ~lost => Len(lines) = Place(start)
  BY <1>1, AtFileEnd
<1>3. lines \in Seq(Packet) /\ line \in Nat
  BY DEF Reader, ReaderState
<1>4. CASE Opens(file + 1)
  <2>1. line' = 0 /\ reading' = "lines" /\ file' \in File
    BY <1>1, <1>4 DEF NextFile, Opens
  <2>2. Place(start)' = start[file']
    BY <1>2, <2>1 DEF Place
  <2>3. Len(disk[file'].packets) \in Nat /\ 0 <= Len(disk[file'].packets) /\ 0 \in Nat
    BY <2>1, Chunk
  <2>4. ReaderState'
    BY <1>1, <1>2, <1>3, <2>1, <2>3 DEF ReaderState, ErrorHasCause
  <2>5. Ordered(start)'
    <3>1. ASSUME NEW k \in 1..Len(recorded), k <= Place(start) PROVE k <= start[file']
      <4>1. k \in Nat
        BY DEF TypeOK
      <4> QED
        BY <1>2, <3>1, <4>1
    <3> QED
      BY <1>1, <2>2, <3>1 DEF Reader, Ordered
  <2>6. ASSUME ~lost PROVE Exact(start)'
    <3>1. out \in Nat /\ file \in Nat /\ disk[file + 1].state \notin {"absent", "empty"}
      BY <1>2, <1>4, Files DEF Opens
    <3>2. ~(file + 1 > out)
      BY <1>1, <2>1, <3>1 DEF OneOpenFile
    <3>3. file < out
      BY <3>1, <3>2
    <3>4. Sound(disk[file].state)
      BY <1>2, <2>6, <3>3 DEF OneOpenFile, Sound
    <3>5. Len(lines) = Place(start)'
      BY <1>2, <2>2, <2>6, <3>4
    <3> QED
      BY <1>1, <2>1, <2>6, <3>5 DEF Reader, Exact
  <2> QED
    BY <1>1, <2>4, <2>5, <2>6 DEF Reader
<1>5. CASE ~Opens(file + 1)
  <2>1. line' = line /\ reading' = "eof"
    BY <1>5 DEF NextFile
  <2>2. ReaderState' /\ Ordered(start)'
    BY <1>1, <1>2, <1>3, <2>1 DEF Reader, ReaderState, Ordered, ErrorHasCause
  <2>3. ASSUME ~lost PROVE Exact(start)'
    <3>1. NoGap => /\ start[out] <= Len(lines)
                   /\ pc = "stopped" => Len(lines) = Len(recorded)
      BY <1>1, <1>5, <2>3, NoFurtherFile
    <3>2. NoGap' => NoGap
      BY <1>1 DEF NoGap
    <3> QED
      BY <1>1, <2>1, <2>3, <3>1, <3>2 DEF Reader, Exact
  <2> QED
    BY <1>1, <2>2, <2>3 DEF Reader
<1> QED
  BY <1>4, <1>5

\* Without -r.
LEMMA ReaderNotRotated ==
  ASSUME NEW start, TypeOK, OneOpenFile, Unnamed, Chunks(start), Reader(start),
         NotRotated
  PROVE  Reader(start)'
<1>1. /\ NoLine /\ ~filename /\ reading' = "eof" /\ UNCHANGED <<vars, file, line, lines>>
  BY DEF NotRotated
<1>2. out <= file
  <2>1. out = 0 /\ file \in Nat
    BY <1>1, AtFileEnd, Files DEF Unnamed
  <2> QED
    BY <2>1
<1>3. ~lost => start[out] <= Len(lines) /\ (pc = "stopped" => Len(lines) = Len(recorded))
  BY <1>1, <1>2, AtLastEnd
<1>4. ~Running
  BY <1>1, AtFileEnd
<1> QED
  BY <1>1, <1>3, <1>4
     DEF Reader, ReaderState, Ordered, Exact, ErrorHasCause, vars, Running

\* The errors.
LEMMA ReaderFails ==
  ASSUME NEW start, TypeOK, OneOpenFile, Chunks(start), Reader(start),
         BrokenFile \/ NoInput
  PROVE  Reader(start)'
<1>1. NoLine /\ reading' = "error" /\ UNCHANGED <<vars, file, line, lines>>
  BY DEF BrokenFile, NoInput
<1>2. file \in File /\ ~Running /\ (lines = <<>> => disk[0].packets = <<>>)
  BY <1>1, AtFileEnd
<1>3. pc = "dead" \/ lost \/ disk[0].packets = <<>>
  <2>1. CASE NoInput
    BY <1>2, <2>1 DEF NoInput
  <2>2. CASE BrokenFile
    <3>1. /\ disk[file].state = "cut" /\ pc \in {"stopped", "dead"}
          /\ out \in Nat /\ file \in Nat
      BY <1>2, <2>2, Files DEF BrokenFile, TypeOK, Running
    <3>2. ~lost => file = out
      BY <1>2, <3>1 DEF OneOpenFile
    <3> QED
      BY <1>2, <3>1, <3>2 DEF OneOpenFile
  <2> QED
    BY <2>1, <2>2
<1> QED
  BY <1>1, <1>2, <1>3
     DEF Reader, ReaderState, Ordered, Exact, ErrorHasCause, vars, Running

LEMMA ReaderStarts ==
  ASSUME NEW start, TypeOK, OneOpenFile, Chunks(start), Reader(start), Start
  PROVE  Reader(start)'
<1>1. /\ file = 0 /\ line = 0 /\ lines = <<>> /\ ~Running
      /\ file' = 0 /\ line' = 0 /\ lines' = <<>>
      /\ recorded' = recorded /\ disk' = disk /\ Running' = Running /\ pc' = pc
      /\ lost' = lost /\ reading' = IF disk[0].state = "empty" THEN "error" ELSE "lines"
  BY DEF Start, Reader, ReaderState, vars, Running
<1>2. /\ 0 \in File /\ start[0] = 0 /\ 0 \in 0..MaxFiles
      /\ Len(disk[0].packets) \in Nat /\ Len(recorded) \in Nat
  BY Files, Chunk DEF Chunks, Cut
<1>3. /\ Len(lines') = 0 /\ lines' \in Seq(Packet) /\ 0 \in Nat
      /\ 0 <= Len(disk'[0].packets) /\ 0 <= Len(recorded')
  BY <1>1, <1>2
<1>4. ASSUME disk[0].state = "empty" PROVE pc = "dead" \/ lost
  <2>1. pc \in {"stopped", "dead"} /\ out \in Nat
    BY <1>1, Files DEF TypeOK, Running
  <2>2. 0 < out \/ 0 = out
    BY <2>1
  <2> QED
    BY <1>2, <1>4, <2>1, <2>2 DEF OneOpenFile
<1>5. ErrorHasCause'
  BY <1>1, <1>4 DEF ErrorHasCause
<1>6. Place(start)' = 0
  BY <1>1, <1>2 DEF Place
<1>7. \A i \in 1..0 : FALSE
  OBVIOUS
<1> QED
  BY <1>1, <1>2, <1>3, <1>5, <1>6, <1>7 DEF Reader, ReaderState, Ordered, Exact

LEMMA UnnamedStep == Unnamed /\ [Next]_vars => Unnamed'
BY DEF Unnamed, vars, Next, Arrive, Reload, Down, ReadCb, ReloadUnnamed, ReloadNoName,
   ReloadFails, ReloadCb, ReloadUnflushed, ReloadEndFails, ReloadInitFails, EventEnd,
   Close, CloseUnflushed, Crash

LEMMA RotationPreserves == RotationInv /\ [RotationNext]_allVars => RotationInv'
<1> SUFFICES ASSUME RotationInv, [RotationNext]_allVars PROVE RotationInv'
  OBVIOUS
<1>1. PICK start : Chunks(start) /\ Reader(start)
  BY DEF RotationInv
<1>2. TypeOK /\ OneOpenFile /\ InOrder /\ Unnamed
  BY DEF RotationInv
<1>3. CASE Next /\ UNCHANGED readerVars
  <2>1. TypeOK' /\ OneOpenFile' /\ InOrder' /\ Unnamed'
    BY <1>2, <1>3, TypesStep, OneOpenFileStep, InOrderStep, UnnamedStep
  <2>2. PICK new : Chunks(new)'
    BY <1>1, <1>2, <1>3, ChunksStep
  <2>3. Reader(new)'
    BY <1>1, <1>3, <2>1, <2>2, ReaderWaits
  <2> QED
    BY <2>1, <2>2, <2>3 DEF RotationInv
<1>4. CASE UNCHANGED vars
  <2>1. TypeOK' /\ OneOpenFile' /\ InOrder' /\ Unnamed'
    BY <1>2, <1>4 DEF vars, TypeOK, OneOpenFile, Running, InOrder, Unnamed
  <2>2. Chunks(start)'
    BY <1>1, <1>4 DEF vars, Chunks, Cut, Holds
  <2>3. Reader(start)'
    <3>1. CASE Start
      BY <1>1, <1>2, <3>1, ReaderStarts
    <3>2. CASE NextLine
      BY <1>1, <1>2, <3>2, ReaderNextLine
    <3>3. CASE BrokenFile \/ NoInput
      BY <1>1, <1>2, <3>3, ReaderFails
    <3>4. CASE NotRotated
      BY <1>1, <1>2, <3>4, ReaderNotRotated
    <3>5. CASE NextFile
      BY <1>1, <1>2, <3>5, ReaderNextFile
    <3>6. CASE UNCHANGED readerVars
      BY <1>1, <1>4, <3>6
         DEF Reader, ReaderState, Ordered, Exact, Place, ErrorHasCause, NoGap, readerVars,
             vars, Running
    <3>7. Start \/ NextLine \/ BrokenFile \/ NoInput \/ NotRotated \/ NextFile
            \/ UNCHANGED readerVars
      BY DEF RotationNext, allVars
    <3> QED
      BY <3>1, <3>2, <3>3, <3>4, <3>5, <3>6, <3>7
  <2> QED
    BY <2>1, <2>2, <2>3 DEF RotationInv
<1> QED
  BY <1>3, <1>4
     DEF RotationNext, allVars, Start, NextLine, BrokenFile, NoInput, NotRotated, NextFile

\* Every state of the recorder and its reader satisfies the invariant.
THEOREM RotationCorrect == RotationSpec => []RotationInv
<1> QED
  BY RotationInitially, RotationPreserves, PTL DEF RotationSpec

\* A recorder that is read later is a recorder.
THEOREM RotationIsServer == RotationSpec => Spec
<1>1. RotationInit => Init
  BY DEF RotationInit
<1>2. [RotationNext]_allVars => [Next]_vars
  BY DEF RotationNext, allVars, Start, NextLine, BrokenFile, NoInput, NotRotated, NextFile
<1> QED
  BY <1>1, <1>2, PTL DEF RotationSpec, Spec

\* The types of the recorder.
THEOREM ServerTypes == RotationSpec => []TypeOK
<1>1. ServerInv => TypeOK
  BY DEF ServerInv
<1> QED
  BY <1>1, ServerCorrect, RotationIsServer, PTL

\* One file is open, those before it are complete unless fclose lost the end
\* of one: the callbacks of server.c.
THEOREM OneFileIsOpen == RotationSpec => []OneOpenFile
<1>1. ServerInv => OneOpenFile
  BY DEF ServerInv
<1> QED
  BY <1>1, ServerCorrect, RotationIsServer, PTL

\* The files, one after the other, are the recording if fclose lost nothing:
\* consume_data and reload_cb of server.c lose, repeat and reorder nothing.
THEOREM FilesAreTheRecording == RotationSpec => []FilesHoldRecording
<1> QED
  BY LogsAreRecording, ServerCorrect, RotationIsServer, PTL

\* Whatever happened to the recorder, next_line_or_file gives a prefix of
\* what it recorded, unless fclose lost the end of a file.
THEOREM ReaderSeesPrefix == RotationSpec => []ReadsPrefix
<1>1. RotationInv => ReadsPrefix
  <2> SUFFICES ASSUME RotationInv, ~lost PROVE IsPrefixOf(lines, recorded)
    BY DEF ReadsPrefix
  <2>1. /\ recorded \in Seq(Packet) /\ lines \in Seq(Packet)
        /\ Len(lines) <= Len(recorded)
        /\ \A i \in 1..Len(lines) : lines[i] = recorded[i]
    BY DEF RotationInv, Reader, ReaderState, Exact, TypeOK
  <2>2. Len(lines) \in 0..Len(recorded)
    BY <2>1
  <2>3. /\ SubSeq(recorded, 1, Len(lines)) \in Seq(Packet)
        /\ Len(SubSeq(recorded, 1, Len(lines))) = Len(lines)
        /\ \A i \in 1..Len(lines) : SubSeq(recorded, 1, Len(lines))[i] = recorded[i]
    BY <2>1, <2>2, Survivor
  <2>4. lines = SubSeq(recorded, 1, Len(lines))
    BY <2>1, <2>3, SeqEqual
  <2> QED
    BY <2>1, <2>4 DEF IsPrefixOf
<1> QED
  BY <1>1, RotationCorrect, PTL

\* Even then it gives each packet once, in the order in which they came.
THEOREM LinesInOrder == RotationSpec => []ReadsInOrder
<1>1. RotationInv => ReadsInOrder
  <2> SUFFICES ASSUME RotationInv PROVE ReadsInOrder
    OBVIOUS
  <2>1. /\ lines \in Seq(Packet)
        /\ \A i, j \in 1..Len(lines) : i < j => lines[i] < lines[j]
    BY DEF RotationInv, Reader, ReaderState, Ordered
  <2> QED
    BY <2>1 DEF ReadsInOrder
<1> QED
  BY <1>1, RotationCorrect, PTL

\* A reader that comes to the end without an error has read all that the
\* recorder left, if every rotation found its file and fclose lost nothing:
\* next_line_or_file passes over nothing, and stops too early at no file.
THEOREM EndIsTheEnd == RotationSpec => []ReadsFinished
<1>1. RotationInv => ReadsFinished
  <2> SUFFICES ASSUME RotationInv, reading = "eof", NoGap, ~lost
               PROVE  /\ pc = "stopped" => lines = recorded
                      /\ \A f \in File : f < out =>
                           \A p \in DOMAIN disk[f].packets :
                             \E i \in DOMAIN lines : lines[i] = disk[f].packets[p]
    BY DEF ReadsFinished
  <2>1. PICK start : Chunks(start) /\ Reader(start)
    BY DEF RotationInv
  <2>2. /\ recorded \in Seq(Packet) /\ lines \in Seq(Packet)
        /\ \A i \in 1..Len(lines) : lines[i] = recorded[i]
        /\ start[out] <= Len(lines)
        /\ pc = "stopped" => Len(lines) = Len(recorded)
        /\ TypeOK
    BY <2>1 DEF RotationInv, Reader, ReaderState, Exact, TypeOK
  <2>3. ASSUME pc = "stopped" PROVE lines = recorded
    BY <2>2, <2>3, SeqEqual
  <2>4. ASSUME NEW f \in File, f < out, NEW p \in DOMAIN disk[f].packets
        PROVE  \E i \in DOMAIN lines : lines[i] = disk[f].packets[p]
    <3>1. /\ f \in Nat /\ f \in 0..MaxFiles /\ f + 1 \in 0..MaxFiles
          /\ start[f] \in Nat /\ start[f + 1] \in Nat /\ Len(disk[f].packets) \in Nat
          /\ start[f] + Len(disk[f].packets) <= start[f + 1]
          /\ \A q \in 1..Len(disk[f].packets) : disk[f].packets[q] = recorded[start[f] + q]
      BY <2>1, <2>2, <2>4, Chunk
    <3>2. p \in 1..Len(disk[f].packets) /\ p \in Nat
      BY <2>2, <2>4, <3>1 DEF TypeOK
    <3>3. /\ out \in Nat /\ f + 1 <= out /\ out \in 0..MaxFiles
      BY <2>2, <2>4, <3>1, Files
    <3>4. start[f + 1] <= start[out] /\ start[out] \in Nat
      BY <2>1, <3>1, <3>3 DEF Chunks, Cut
    <3>5. start[f] + p \in 1..Len(lines)
      <4>1. Len(lines) \in Nat
        BY <2>2
      <4>2. \A a, l, k, b, c, n \in Nat :
              k \in 1..l /\ a + l <= b /\ b <= c /\ c <= n => a + k \in 1..n
        OBVIOUS
      <4> QED
        BY <2>2, <3>1, <3>2, <3>4, <4>1, <4>2
    <3>6. lines[start[f] + p] = disk[f].packets[p]
      BY <2>2, <3>1, <3>2, <3>5
    <3>7. DOMAIN lines = 1..Len(lines)
      BY <2>2
    <3> QED
      BY <3>5, <3>6, <3>7
  <2> QED
    BY <2>3, <2>4
<1> QED
  BY <1>1, RotationCorrect, PTL

\* extract gives up only on a recorder that died or did not see that fclose
\* failed, or on a first file without a packet: no error of read_input comes
\* from a file that was written to its end.
THEOREM ErrorsHaveCauses == RotationSpec => []ErrorHasCause
<1>1. RotationInv => ErrorHasCause
  BY DEF RotationInv, Reader, ReaderState
<1> QED
  BY <1>1, RotationCorrect, PTL

=============================================================================
