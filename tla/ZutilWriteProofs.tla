-------------------------- MODULE ZutilWriteProofs --------------------------
(***************************************************************************)
(* The output stream of zutil.c keeps its promises for every size of the   *)
(* buffer, of the trailer and of the blocks.  The four invariants are      *)
(* inductive together with two facts about the end of the stream: the      *)
(* trailer is intact until zend_data runs, and deflate only reports that   *)
(* it has nothing more when it holds nothing.                              *)
(***************************************************************************)
EXTENDS ZutilWrite, TLAPS

\* Before zend_data the trailer has not been touched.
TrailerIntact == pc \in {"idle", "add"} => trailer = Trailer

\* zend_data only runs on consumed input, and stops when zlib holds nothing.
Drained ==
  /\ pc \in {"end", "closed"} => avail_in = 0
  /\ pc = "closed" => pending = 0 /\ trailer = 0 /\ Used = 0

\* There is room in the buffer at the start of every round of zadd_data.
RoomInRound == pc = "add" => avail_out # 0

IInv ==
  /\ TypeOK
  /\ ReadyWhenIdle
  /\ NothingLost
  /\ TrailerIntact
  /\ Drained
  /\ RoomInRound

\* zinit_write establishes the invariant.
LEMMA InitInv == Init => IInv
  BY ZutilWriteAssumption
  DEF Init, zinit_write, IInv, TypeOK, ReadyWhenIdle, NothingLost,
      TrailerIntact, Drained, RoomInRound, Used

\* Every call and every round preserves it.
LEMMA NextInv == IInv /\ [Next]_vars => IInv'
<1> SUFFICES ASSUME IInv, [Next]_vars
             PROVE  IInv'
  OBVIOUS
<1> USE ZutilWriteAssumption
<1>0. /\ TypeOK /\ ReadyWhenIdle /\ NothingLost
      /\ TrailerIntact /\ Drained /\ RoomInRound
  BY DEF IInv
<1>1. ASSUME NEW len \in Lengths, AddData(len)
      PROVE  IInv'
  <2>1. len \in Nat
    OBVIOUS
  <2> QED
    BY <1>0, <1>1, <2>1
    DEF AddData, IInv, TypeOK, ReadyWhenIdle, NothingLost, TrailerIntact,
        Drained, RoomInRound, Used
<1>2. CASE AddRound
  <2>1. PICK consumed \in 0..avail_in, emitted \in 0..avail_out :
          /\ deflateNoFlush(consumed, emitted)
          /\ LET next == IF avail_in' # 0 THEN "add" ELSE "idle" IN
             \/ /\ emitted < avail_out
                /\ avail_out' = avail_out - emitted
                /\ pc' = next
                /\ UNCHANGED file
             \/ /\ emitted = avail_out
                /\ avail_out' = OUT_BUF_SIZE
                /\ file' = file + OUT_BUF_SIZE
                /\ pc' = next
             \/ /\ emitted = avail_out
                /\ avail_out' = 0
                /\ pc' = "exit"
                /\ UNCHANGED file
    BY <1>2 DEF AddRound
  <2>2. /\ pc = "add" /\ given' = given /\ given \in Nat
        /\ avail_in \in Nat /\ pending \in Nat /\ file \in Nat
        /\ avail_out \in 0..OUT_BUF_SIZE /\ trailer = Trailer
    BY <1>0, <1>2 DEF AddRound, TypeOK, TrailerIntact
  <2>3. file + (OUT_BUF_SIZE - avail_out) + pending + avail_in = given
    BY <1>0, <2>2 DEF NothingLost, Used
  <2>4. /\ consumed \in Nat /\ emitted \in Nat
        /\ avail_in' \in Nat /\ avail_in' = avail_in - consumed
        /\ pending' \in Nat /\ pending' = pending + consumed - emitted
        /\ trailer' = Trailer
    BY <2>1, <2>2 DEF deflateNoFlush
  <2>5. emitted < avail_out => avail_in' = 0
    BY <2>1, <2>2 DEF deflateNoFlush
  <2>6. CASE /\ emitted < avail_out
             /\ avail_out' = avail_out - emitted
             /\ pc' = "idle"
             /\ file' = file
    <3>1. avail_out' \in 1..OUT_BUF_SIZE
      BY <2>2, <2>6
    <3>2. file' + (OUT_BUF_SIZE - avail_out') + pending' + avail_in' = given'
      BY <2>2, <2>3, <2>4, <2>6
    <3> QED
      BY <2>2, <2>4, <2>5, <2>6, <3>1, <3>2
      DEF IInv, TypeOK, ReadyWhenIdle, NothingLost, TrailerIntact, Drained,
          RoomInRound, Used
  <2>7. CASE /\ emitted = avail_out
             /\ avail_out' = OUT_BUF_SIZE
             /\ file' = file + OUT_BUF_SIZE
             /\ pc' = IF avail_in' # 0 THEN "add" ELSE "idle"
    <3>1. file' \in Nat /\ avail_out' \in 1..OUT_BUF_SIZE
      BY <2>2, <2>7
    <3>2. file' + (OUT_BUF_SIZE - avail_out') + pending' + avail_in' = given'
      BY <2>2, <2>3, <2>4, <2>7
    <3> QED
      BY <2>2, <2>4, <2>7, <3>1, <3>2
      DEF IInv, TypeOK, ReadyWhenIdle, NothingLost, TrailerIntact, Drained,
          RoomInRound, Used
  <2>8. CASE avail_out' = 0 /\ pc' = "exit" /\ file' = file
    BY <2>2, <2>4, <2>8
    DEF IInv, TypeOK, ReadyWhenIdle, NothingLost, TrailerIntact, Drained,
        RoomInRound
  <2> QED
    BY <2>1, <2>5, <2>6, <2>7, <2>8
<1>3. CASE EndData
  BY <1>0, <1>3
  DEF EndData, IInv, TypeOK, ReadyWhenIdle, NothingLost, TrailerIntact,
      Drained, RoomInRound, Used
<1>4. CASE EndRound
  <2>1. PICK emitted \in 0..OUT_BUF_SIZE :
          /\ deflateFinish(OUT_BUF_SIZE, emitted)
          /\ avail_out' = OUT_BUF_SIZE - emitted
          /\ pc' = IF emitted # 0 THEN "end" ELSE "closed"
    BY <1>4 DEF EndRound
  <2>2. /\ pc = "end" /\ avail_in = 0 /\ avail_in' = avail_in
        /\ file' = file + (OUT_BUF_SIZE - avail_out)
        /\ given' = given /\ given \in Nat /\ pending \in Nat
        /\ file \in Nat /\ avail_out \in 0..OUT_BUF_SIZE
        /\ trailer \in 0..Trailer
    BY <1>0, <1>4 DEF EndRound, TypeOK, Drained, Used
  <2>3. file + (OUT_BUF_SIZE - avail_out) + pending = given + (Trailer - trailer)
    BY <1>0, <2>2 DEF NothingLost, Used
  <2>4. /\ pending' \in Nat /\ trailer' \in 0..Trailer
        /\ \/ pending' = pending - emitted /\ trailer' = trailer
           \/ pending' = 0 /\ trailer' = trailer - (emitted - pending)
    BY <2>1, <2>2 DEF deflateFinish
  <2>5. emitted = 0 => pending' = 0 /\ trailer' = 0
    BY <2>1, <2>2 DEF deflateFinish
  <2>6. file' \in Nat /\ avail_out' \in 0..OUT_BUF_SIZE
    BY <2>1, <2>2
  <2>7. file' + (OUT_BUF_SIZE - avail_out') + pending' + avail_in'
          = given' + (Trailer - trailer')
    BY <2>1, <2>2, <2>3, <2>4
  <2> QED
    BY <2>1, <2>2, <2>4, <2>5, <2>6, <2>7
    DEF IInv, TypeOK, ReadyWhenIdle, NothingLost, TrailerIntact, Drained,
        RoomInRound, Used
<1>5. CASE EndFails
  BY <1>0, <1>5
  DEF EndFails, IInv, TypeOK, ReadyWhenIdle, NothingLost, TrailerIntact,
      Drained, RoomInRound
<1>6. CASE UNCHANGED vars
  BY <1>0, <1>6
  DEF vars, IInv, TypeOK, ReadyWhenIdle, NothingLost, TrailerIntact,
      Drained, RoomInRound, Used
<1> QED
  BY <1>1, <1>2, <1>3, <1>4, <1>5, <1>6 DEF Next

\* The invariant holds in every state of the output stream.
THEOREM Inductive == Spec => []IInv
  BY InitInv, NextInv, PTL DEF Spec

\* No counter of the stream leaves its range, for every buffer size: the
\* offset in the output buffer never passes its end (zutil.c:21-86).
THEOREM TypeCorrect == Spec => []TypeOK
<1>1. IInv => TypeOK
  BY DEF IInv
<1> QED
  BY Inductive, <1>1, PTL

\* The assertions at the start of zadd_data and of zend_data never fail.
THEOREM AssertionsHold == Spec => []ReadyWhenIdle
<1>1. IInv => ReadyWhenIdle
  BY DEF IInv
<1> QED
  BY Inductive, <1>1, PTL

\* Nothing handed to zadd_data is dropped or written twice.
THEOREM NothingIsLost == Spec => []NothingLost
<1>1. IInv => NothingLost
  BY DEF IInv
<1> QED
  BY Inductive, <1>1, PTL

\* A closed file holds everything that was handed in, and the trailer.
THEOREM ClosedIsComplete == Spec => []ClosedComplete
<1>1. IInv => ClosedComplete
  BY ZutilWriteAssumption
  DEF IInv, TypeOK, NothingLost, Drained, ClosedComplete
<1> QED
  BY Inductive, <1>1, PTL

=============================================================================
