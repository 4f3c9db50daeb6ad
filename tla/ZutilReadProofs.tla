--------------------------- MODULE ZutilReadProofs ---------------------------
(***************************************************************************)
(* The line reader of zutil.c, for any file, any size of the buffer and    *)
(* any way in which the file was compressed.                               *)
(***************************************************************************)
EXTENDS ZutilRead, WellFoundedInduction, TLAPS

-----------------------------------------------------------------------------
(* The invariant.                                                          *)

Cells == [0..(2 * IN_BUF_SIZE) -> {NUL} \cup 0..text.len]

Types ==
  /\ text \in Texts /\ in \in Cells
  /\ start \in 0..(2 * IN_BUF_SIZE) /\ end \in 0..(2 * IN_BUF_SIZE)
  /\ result.kind # "eof" => start <= end
  /\ swapped \in BOOLEAN /\ input \in BOOLEAN /\ feof \in BOOLEAN
  /\ block \in Nat /\ inflated \in Nat /\ inflated + block <= text.len
  /\ result.kind \in {"closed", "none", "line", "broken", "eof", "toolong"}

\* The client may call zread_line again.
Going == result.kind \in {"none", "line", "broken"}

\* What is not read yet is in the half that was filled last, except that the
\* rest of a line was left in front of the second one; where it starts in the
\* second half, the newline of the line before it is there, too.
Halves ==
  result.kind \notin {"eof", "toolong"} /\ start < end =>
    IF swapped THEN start > IN_BUF_SIZE ELSE end <= IN_BUF_SIZE

RInv == Types /\ Halves /\ BufferKeepsText

-----------------------------------------------------------------------------
(* The operations on buffers.                                              *)

LEMMA Least == ASSUME NEW S, S \subseteq Nat, S # {}
  PROVE  \E i \in S : \A j \in S : i <= j
<1>1. IsWellFoundedOn(OpToRel(<, Nat), Nat)
  BY NatLessThanWellFounded
<1>2. PICK x \in S : \A y \in S : ~(<<y, x>> \in OpToRel(<, Nat))
  BY <1>1, WFMin
<1>3. \A y \in S : ~(y < x)
  BY <1>2 DEF OpToRel
<1> QED
  BY <1>3

LEMMA Sizes == ASSUME Types
  PROVE  /\ IN_BUF_SIZE \in Nat \ {0} /\ text.len \in Nat /\ text.nl \subseteq 1..text.len
         /\ start \in Nat /\ end \in Nat
         /\ DOMAIN in = 0..(2 * IN_BUF_SIZE)
BY ZutilReadAssumption DEF Types, Cells

\* m is the place of the first newline of a range, or its end.
Finds(m, b, from, n) ==
  /\ m \in Nat /\ from <= m /\ m <= from + n
  /\ m < from + n => b[m] \in text.nl
  /\ \A i \in from..(m - 1) : b[i] \notin text.nl

LEMMA MemChr ==
  ASSUME NEW b, NEW from \in Nat, NEW n \in Nat, NEW m, m = memchr(b, from, n)
  PROVE  Finds(m, b, from, n)
<1> USE DEF Finds
<1> DEFINE found == {i \in from..(from + n - 1) : b[i] \in text.nl}
<1>1. CASE found = {}
  <2>1. m = from + n
    BY <1>1 DEF memchr
  <2> QED
    BY <1>1, <2>1
<1>2. CASE found # {}
  <2>1. m = CHOOSE i \in found : \A j \in found : i <= j
    BY <1>2 DEF memchr
  <2>2. \E i \in found : \A j \in found : i <= j
    <3>1. found \subseteq Nat
      OBVIOUS
    <3> HIDE DEF found
    <3> QED
      BY <1>2, <3>1, Least
  <2>3. m \in found /\ \A j \in found : m <= j
    <3> HIDE DEF found
    <3> QED
      BY <2>1, <2>2
  <2>4. m \in from..(from + n - 1) /\ b[m] \in text.nl
    BY <2>3
  <2>5. ASSUME NEW i \in from..(m - 1) PROVE b[i] \notin text.nl
    <3>1. i \in from..(from + n - 1) /\ ~(m <= i)
      BY <2>4
    <3> QED
      BY <2>3, <3>1
  <2> QED
    BY <2>4, <2>5
<1> QED
  BY <1>1, <1>2

\* Buffer c is b with the bytes p, p+1, ... at cells from, from+1, ...
Written(c, b, from, n, p) ==
  /\ c \in Cells
  /\ \A i \in 0..(2 * IN_BUF_SIZE) :
       c[i] = IF from <= i /\ i < from + n THEN p + (i - from) ELSE b[i]

LEMMA Stored ==
  ASSUME Types, NEW b \in Cells, NEW from \in Nat, NEW n \in Nat, NEW p \in Nat,
         p + n <= text.len + 1, NEW c, c = Store(b, from, n, p)
  PROVE  Written(c, b, from, n, p)
<1>1. c = [i \in 0..(2 * IN_BUF_SIZE) |->
             IF from <= i /\ i < from + n THEN p + (i - from) ELSE b[i]]
  BY DEF Store, Cells
<1>2. ASSUME NEW i \in 0..(2 * IN_BUF_SIZE), from <= i, i < from + n
      PROVE  p + (i - from) \in 0..text.len
  <2>1. i \in Nat /\ text.len \in Nat
    BY Sizes
  <2> QED
    BY <1>2, <2>1
<1>3. c \in Cells
  BY <1>1, <1>2 DEF Cells
<1> QED
  BY <1>1, <1>3 DEF Written

\* Buffer c is b with its cells from, from+1, ... copied to to, to+1, ...
Copied(c, b, to, from, n) ==
  /\ c \in Cells
  /\ \A i \in 0..(2 * IN_BUF_SIZE) :
       c[i] = IF to <= i /\ i < to + n THEN b[from + (i - to)] ELSE b[i]

LEMMA Moved ==
  ASSUME Types, NEW b \in Cells, NEW to \in Nat, NEW from \in Nat, NEW n \in Nat,
         from + n <= 2 * IN_BUF_SIZE + 1, NEW c, c = Move(b, to, from, n)
  PROVE  Copied(c, b, to, from, n)
<1>1. c = [i \in 0..(2 * IN_BUF_SIZE) |->
             IF to <= i /\ i < to + n THEN b[from + (i - to)] ELSE b[i]]
  BY DEF Move, Cells
<1>2. ASSUME NEW i \in 0..(2 * IN_BUF_SIZE), to <= i, i < to + n
      PROVE  from + (i - to) \in 0..(2 * IN_BUF_SIZE)
  <2>1. i \in Nat /\ IN_BUF_SIZE \in Nat
    BY Sizes
  <2> QED
    BY <1>2, <2>1
<1>3. c \in Cells
  BY <1>1, <1>2 DEF Cells
<1> QED
  BY <1>1, <1>3 DEF Copied

\* Buffer c is b with a '\0' at cell i.
Terminated(c, b, i) ==
  /\ c \in Cells /\ c[i] = NUL
  /\ \A j \in 0..(2 * IN_BUF_SIZE) : j # i => c[j] = b[j]

LEMMA Ended ==
  ASSUME NEW b \in Cells, NEW i \in 0..(2 * IN_BUF_SIZE), NEW c, c = [b EXCEPT ![i] = NUL]
  PROVE  Terminated(c, b, i)
BY DEF Cells, Terminated

-----------------------------------------------------------------------------
(* What zutil_read_input does.                                             *)

LEMMA Filling ==
  ASSUME Types, NEW n \in 0..IN_BUF_SIZE, Fill(n)
  PROVE  /\ n \in Nat /\ block' \in Nat /\ feof' \in BOOLEAN
         /\ inflated + n + block' <= text.len /\ inflated + n <= text.len
<1>1. PICK got \in {block} \cup Blocks \cup {text.len - inflated - block},
           atEnd \in BOOLEAN :
             /\ Refill(got, atEnd) /\ n = Lesser(got, IN_BUF_SIZE)
             /\ block' = got - n /\ feof' = atEnd
  BY DEF Fill
<1>2. /\ text.len \in Nat /\ IN_BUF_SIZE \in Nat /\ block \in Nat /\ inflated \in Nat
      /\ inflated + block <= text.len
  BY Sizes DEF Types
<1>3. got \in Nat /\ inflated + got <= text.len
  <2>1. CASE block > 0
    BY <1>1, <1>2, <2>1 DEF Refill
  <2>2. CASE ~(block > 0)
    BY <1>1, <1>2, <2>2, ZutilReadAssumption DEF Refill
  <2> QED
    BY <2>1, <2>2
<1> QED
  BY <1>1, <1>2, <1>3 DEF Lesser

\* The text goes to the half that was not filled last.
LEMMA NewHalf ==
  ASSUME Types, NEW n \in 0..IN_BUF_SIZE, inflated + n <= text.len,
         NEW f, f = Filled(n), NEW h, h = IF swapped THEN 0 ELSE IN_BUF_SIZE
  PROVE  /\ f \in Cells /\ h \in Nat
         /\ \A i \in 0..(2 * IN_BUF_SIZE) :
              f[i] = IF h <= i /\ i < h + n THEN inflated + 1 + (i - h) ELSE in[i]
<1>1. f = Store(in, h, n, inflated + 1)
  BY DEF Filled, FilledHalf, Types
<1>2. /\ in \in Cells /\ h \in Nat /\ n \in Nat /\ inflated + 1 \in Nat
      /\ inflated + 1 + n <= text.len + 1
  BY Sizes DEF Types
<1>3. PICK b : b = in
  OBVIOUS
<1>4. PICK p : p = inflated + 1
  OBVIOUS
<1>5. Written(f, b, h, n, p)
  BY <1>1, <1>2, <1>3, <1>4, Stored
<1> QED
  BY <1>2, <1>3, <1>4, <1>5 DEF Written

\* The second half filled, and the rest of a line moved in front of it.
SecondHalf(n) ==
  IF end # IN_BUF_SIZE THEN Move(Filled(n), IN_BUF_SIZE - Buffered, start, Buffered)
  ELSE Filled(n)

LEMMA SecondHalfFilled ==
  ASSUME RInv, result.kind \notin {"eof", "toolong"}, ~swapped,
         NEW n \in 0..IN_BUF_SIZE, inflated + n <= text.len, NEW b, b = SecondHalf(n)
  PROVE  /\ b \in Cells /\ Buffered \in 0..IN_BUF_SIZE
         /\ \A i \in (IN_BUF_SIZE - Buffered)..(IN_BUF_SIZE + n - 1) :
              b[i] = inflated + 1 + (i - IN_BUF_SIZE)
<1>1. /\ Types /\ start \in Nat /\ end \in Nat /\ start <= end /\ inflated \in Nat
      /\ end <= 2 * IN_BUF_SIZE /\ IN_BUF_SIZE \in Nat \ {0}
  BY Sizes DEF RInv, Types
<1>2. Buffered \in 0..IN_BUF_SIZE /\ (start < end => end <= IN_BUF_SIZE)
  BY <1>1 DEF RInv, Halves, Buffered
<1>3. \A i \in start..(end - 1) : in[i] = inflated - (end - 1 - i)
  BY DEF RInv, BufferKeepsText
<1>4. PICK f : f = Filled(n)
  OBVIOUS
<1>5. /\ f \in Cells
      /\ \A i \in 0..(2 * IN_BUF_SIZE) :
           f[i] = IF IN_BUF_SIZE <= i /\ i < IN_BUF_SIZE + n
                  THEN inflated + 1 + (i - IN_BUF_SIZE) ELSE in[i]
  BY <1>1, <1>4, NewHalf
<1>6. PICK k : k = Buffered
  OBVIOUS
<1>7. k \in 0..IN_BUF_SIZE /\ k = end - start
  BY <1>2, <1>6 DEF Buffered
<1>8. /\ b \in Cells
      /\ \A i \in (IN_BUF_SIZE - k)..(IN_BUF_SIZE + n - 1) :
           b[i] = inflated + 1 + (i - IN_BUF_SIZE)
  <2>1. CASE end # IN_BUF_SIZE
    <3>1. b = Move(f, IN_BUF_SIZE - k, start, k)
      BY <1>4, <1>6, <2>1 DEF SecondHalf
    <3>2. PICK s : s = start
      OBVIOUS
    <3>3. PICK to : to = IN_BUF_SIZE - k
      OBVIOUS
    <3>4. to \in Nat /\ s \in Nat /\ k \in Nat /\ s + k <= 2 * IN_BUF_SIZE + 1
      BY <1>1, <1>7, <3>2, <3>3
    <3>5. /\ b \in Cells
          /\ \A i \in 0..(2 * IN_BUF_SIZE) :
               b[i] = IF to <= i /\ i < to + k THEN f[s + (i - to)] ELSE f[i]
      <4>1. Copied(b, f, to, s, k)
        BY <1>1, <1>5, <3>1, <3>2, <3>3, <3>4, Moved
      <4> QED
        BY <4>1 DEF Copied
    <3>6. ASSUME NEW i \in to..(IN_BUF_SIZE + n - 1)
          PROVE  b[i] = inflated + 1 + (i - IN_BUF_SIZE)
      <4>1. i \in 0..(2 * IN_BUF_SIZE) /\ i \in Int
        BY <1>1, <3>4
      <4>2. CASE i < IN_BUF_SIZE
        <5>1. to <= i /\ i < to + k
          BY <1>1, <1>7, <3>3, <4>1, <4>2
        <5>2. b[i] = f[s + (i - to)]
          BY <3>5, <4>1, <5>1
        <5>3. PICK j : j = s + (i - to)
          OBVIOUS
        <5>4. /\ j \in start..(end - 1) /\ j \in 0..(2 * IN_BUF_SIZE) /\ j < IN_BUF_SIZE
              /\ end - 1 - j = IN_BUF_SIZE - 1 - i
          BY <1>1, <1>2, <1>7, <3>2, <3>3, <3>4, <4>1, <5>1, <5>3
        <5>5. f[j] = in[j] /\ in[j] = inflated - (end - 1 - j)
          BY <1>1, <1>3, <1>5, <5>4
        <5> QED
          BY <1>1, <4>1, <5>2, <5>3, <5>4, <5>5
      <4>3. CASE ~(i < IN_BUF_SIZE)
        <5>1. ~(i < to + k) /\ IN_BUF_SIZE <= i /\ i < IN_BUF_SIZE + n
          BY <1>1, <1>7, <3>3, <4>1, <4>3
        <5> QED
          BY <1>5, <3>5, <4>1, <5>1
      <4> QED
        BY <4>2, <4>3
    <3> QED
      BY <3>3, <3>5, <3>6
  <2>2. CASE end = IN_BUF_SIZE
    <3>1. b = f
      BY <1>4, <2>2 DEF SecondHalf
    <3>2. ASSUME NEW i \in (IN_BUF_SIZE - k)..(IN_BUF_SIZE + n - 1)
          PROVE  f[i] = inflated + 1 + (i - IN_BUF_SIZE)
      <4>1. i \in 0..(2 * IN_BUF_SIZE) /\ i \in Int
        BY <1>1, <1>7
      <4>2. CASE i < IN_BUF_SIZE
        <5>1. i \in start..(end - 1)
          BY <1>1, <1>7, <2>2, <4>1, <4>2
        <5> QED
          BY <1>1, <1>3, <1>5, <2>2, <4>1, <4>2, <5>1
      <4>3. CASE ~(i < IN_BUF_SIZE)
        BY <1>1, <1>5, <4>1, <4>3
      <4> QED
        BY <4>2, <4>3
    <3> QED
      BY <1>5, <3>1, <3>2
  <2> QED
    BY <2>1, <2>2
<1> QED
  BY <1>2, <1>6, <1>8

\* The two parts of a line, put together at the start of the second half.
LEMMA JoinedCells ==
  ASSUME Types, NEW b \in Cells, NEW k \in Nat, k = Buffered, start <= end,
         NEW m \in Nat, k + m < IN_BUF_SIZE, NEW c, c = Joined(b, m)
  PROVE  /\ c \in Cells /\ c[IN_BUF_SIZE + k + m] = NUL
         /\ \A i \in 0..(IN_BUF_SIZE - 1) : c[i] = b[i]
         /\ \A i \in 0..(k - 1) : c[IN_BUF_SIZE + i] = b[start + i]
         /\ \A i \in 0..(m - 1) : c[IN_BUF_SIZE + k + i] = b[i]
<1>1. /\ IN_BUF_SIZE \in Nat \ {0} /\ start \in Nat /\ end \in Nat
      /\ end <= 2 * IN_BUF_SIZE /\ k = end - start
  BY Sizes DEF Types, Buffered
<1>2. PICK s : s = start
  OBVIOUS
<1>3. PICK d : d = Move(b, IN_BUF_SIZE, s, k)
  OBVIOUS
<1>4. Copied(d, b, IN_BUF_SIZE, s, k)
  <2>1. IN_BUF_SIZE \in Nat /\ s \in Nat /\ s + k <= 2 * IN_BUF_SIZE + 1
    BY <1>1, <1>2
  <2> QED
    BY <1>3, <2>1, Moved
<1>5. PICK to : to = IN_BUF_SIZE + k
  OBVIOUS
<1>6. PICK e : e = Move(d, to, 0, m)
  OBVIOUS
<1>7. Copied(e, d, to, 0, m)
  <2>1. to \in Nat /\ 0 + m <= 2 * IN_BUF_SIZE + 1 /\ d \in Cells
    BY <1>1, <1>4, <1>5 DEF Copied
  <2> QED
    BY <1>6, <2>1, Moved
<1>8. c = [e EXCEPT ![to + m] = NUL]
  <2>1. c = [Move(Move(b, IN_BUF_SIZE, start, Buffered), IN_BUF_SIZE + Buffered, 0, m)
             EXCEPT ![IN_BUF_SIZE + Buffered + m] = NUL]
    BY DEF Joined
  <2> QED
    BY <1>2, <1>3, <1>5, <1>6, <2>1
<1>9. /\ c \in Cells /\ c[to + m] = NUL
      /\ \A j \in 0..(2 * IN_BUF_SIZE) : j # to + m => c[j] = e[j]
  <2>1. to + m \in 0..(2 * IN_BUF_SIZE)
    BY <1>1, <1>5
  <2>2. e \in Cells
    BY <1>7 DEF Copied
  <2>3. PICK z : z = to + m
    OBVIOUS
  <2>4. Terminated(c, e, z)
    BY <1>8, <2>1, <2>2, <2>3, Ended
  <2> QED
    BY <2>3, <2>4 DEF Terminated
<1>10. ASSUME NEW i \in 0..(IN_BUF_SIZE - 1)
       PROVE  c[i] = b[i] /\ d[i] = b[i]
  <2>1. /\ i \in 0..(2 * IN_BUF_SIZE) /\ i # to + m /\ ~(to <= i) /\ ~(IN_BUF_SIZE <= i)
    BY <1>1, <1>5
  <2> QED
    BY <1>4, <1>7, <1>9, <2>1 DEF Copied
<1>11. ASSUME NEW i \in 0..(k - 1) PROVE c[IN_BUF_SIZE + i] = b[s + i]
  <2>1. PICK j : j = IN_BUF_SIZE + i
    OBVIOUS
  <2>2. /\ j \in 0..(2 * IN_BUF_SIZE) /\ j # to + m /\ ~(to <= j)
        /\ IN_BUF_SIZE <= j /\ j < IN_BUF_SIZE + k /\ j - IN_BUF_SIZE = i
    BY <1>1, <1>5, <2>1
  <2>3. c[j] = e[j] /\ e[j] = d[j] /\ d[j] = b[s + (j - IN_BUF_SIZE)]
    BY <1>4, <1>7, <1>9, <2>2 DEF Copied
  <2> QED
    BY <2>1, <2>2, <2>3
<1>12. ASSUME NEW i \in 0..(m - 1) PROVE c[to + i] = b[i]
  <2>1. PICK j : j = to + i
    OBVIOUS
  <2>2. /\ j \in 0..(2 * IN_BUF_SIZE) /\ j # to + m /\ to <= j /\ j < to + m
        /\ 0 + (j - to) = i /\ i \in 0..(IN_BUF_SIZE - 1)
    BY <1>1, <1>5, <2>1
  <2>3. c[j] = e[j] /\ e[j] = d[i]
    BY <1>7, <1>9, <2>2 DEF Copied
  <2> QED
    BY <1>10, <2>1, <2>2, <2>3
<1> QED
  BY <1>2, <1>5, <1>9, <1>10, <1>11, <1>12

-----------------------------------------------------------------------------
(* Types and buffers, step by step.                                        *)

LEMMA Results ==
  /\ \A b, cur, len : Returned(b, cur, len).kind \in {"line", "broken"}
  /\ \A k : Nothing(k).kind = k
BY DEF Returned, Nothing

LEMMA FromBufferStep ==
  ASSUME RInv, Going, FromBuffer
  PROVE  RInv'
<1>1. Types /\ start <= end /\ Buffered = end - start /\ start \in Nat /\ end \in Nat
  BY Sizes DEF RInv, Types, Going, Buffered
<1>2. PICK next : next = memchr(in, start, Buffered)
  OBVIOUS
<1>3. /\ next < end /\ in' = [in EXCEPT ![next] = NUL] /\ start' = next + 1
      /\ result'.kind \in {"line", "broken"}
      /\ UNCHANGED <<text, end, swapped, input, feof, block, inflated>>
  BY <1>2, Results DEF FromBuffer, HasLine
<1>4. next \in Nat /\ start <= next
  <2>1. PICK b, s, n : b = in /\ s = start /\ n = Buffered
    OBVIOUS
  <2>2. s \in Nat /\ n \in Nat /\ next = memchr(b, s, n)
    BY <1>1, <1>2, <2>1
  <2> QED
    BY <2>1, <2>2, MemChr DEF Finds
<1>5. /\ in' \in Cells /\ next \in 0..(2 * IN_BUF_SIZE)
      /\ \A j \in 0..(2 * IN_BUF_SIZE) : j # next => in'[j] = in[j]
  <2>1. next \in 0..(2 * IN_BUF_SIZE) /\ in \in Cells
    BY <1>1, <1>3, <1>4, Sizes DEF Types
  <2>2. PICK b, c : b = in /\ c = in'
    OBVIOUS
  <2>3. Terminated(c, b, next)
    BY <1>3, <2>1, <2>2, Ended
  <2> QED
    BY <2>1, <2>2, <2>3 DEF Terminated
<1>6. start' \in 0..(2 * IN_BUF_SIZE) /\ start' <= end' /\ start < start'
  BY <1>1, <1>3, <1>4, Sizes DEF Types
<1>7. Types'
  BY <1>1, <1>3, <1>5, <1>6 DEF Types, Cells
<1>8. Halves'
  <2>1. ASSUME start' < end'
        PROVE  IF swapped' THEN start' > IN_BUF_SIZE ELSE end' <= IN_BUF_SIZE
    <3>1. start < end
      BY <1>1, <1>3, <1>6, <2>1, Sizes
    <3>2. IF swapped THEN start > IN_BUF_SIZE ELSE end <= IN_BUF_SIZE
      BY <3>1 DEF RInv, Halves, Going
    <3> QED
      BY <1>1, <1>3, <1>6, <3>2, Sizes
  <2> QED
    BY <2>1 DEF Halves
<1>9. BufferKeepsText'
  <2>1. ASSUME NEW i \in start'..(end' - 1) PROVE in'[i] = inflated' - (end' - 1 - i)
    <3>1. i \in start..(end - 1) /\ i # next /\ i \in 0..(2 * IN_BUF_SIZE)
      BY <1>1, <1>3, <1>4, Sizes DEF Types
    <3> QED
      BY <1>3, <1>5, <3>1 DEF RInv, BufferKeepsText, Going
  <2> QED
    BY <2>1 DEF BufferKeepsText
<1> QED
  BY <1>7, <1>8, <1>9 DEF RInv

LEMMA NoMoreStep ==
  ASSUME RInv, Going, NoMore
  PROVE  RInv'
<1>1. /\ input' = FALSE /\ result'.kind = "eof"
      /\ UNCHANGED <<text, in, start, end, swapped, feof, block, inflated>>
  BY Results DEF NoMore
<1>2. Types'
  BY <1>1 DEF RInv, Types, Cells
<1>3. Halves' /\ BufferKeepsText'
  BY <1>1 DEF Halves, BufferKeepsText
<1> QED
  BY <1>2, <1>3 DEF RInv

\* A call that reads from the file n bytes that zlib gives.
Reading(n) ==
  /\ ~HasLine /\ input /\ ~AtEof
  /\ n \in 0..IN_BUF_SIZE /\ Fill(n) /\ inflated' = inflated + n
  /\ swapped' = ~swapped /\ UNCHANGED <<text, input>>

LEMMA FromFileReads == ASSUME Types, FromFile
  PROVE  \E n : /\ Reading(n)
                /\ \/ ~swapped /\ FromSecondHalf(n)
                   \/ swapped /\ (FromFirstHalf(n) \/ LastOfFirstHalf(n))
BY DEF FromFile, Reading

\* What a call has left in the buffer is where the next call looks for it.
RestInPlace ==
  /\ IF swapped' THEN start' > IN_BUF_SIZE ELSE end' <= IN_BUF_SIZE
  /\ \A i \in start'..(end' - 1) : in'[i] = inflated' - (end' - 1 - i)

\* What there is to show after a read.
LEMMA AfterReading ==
  ASSUME RInv, Going, NEW n, Reading(n),
         in' \in Cells, start' \in 0..(2 * IN_BUF_SIZE), end' \in 0..(2 * IN_BUF_SIZE),
         result'.kind \in {"line", "broken", "eof", "toolong"},
         result'.kind # "eof" => start' <= end',
         result'.kind \in {"line", "broken"} /\ start' < end' => RestInPlace
  PROVE  RInv'
<1>1. /\ Types /\ n \in 0..IN_BUF_SIZE /\ Fill(n) /\ inflated' = inflated + n
      /\ swapped' = ~swapped /\ text' = text /\ input' = input
  BY DEF RInv, Reading
<1>2. block' \in Nat /\ feof' \in BOOLEAN /\ n \in Nat /\ inflated + n + block' <= text.len
  BY <1>1, Filling
<1>3. Types'
  BY <1>1, <1>2 DEF Types, Cells
<1>4. Halves'
  BY <1>3 DEF Halves, Types, RestInPlace
<1>5. BufferKeepsText'
  <2>1. CASE start' < end'
    BY <1>3, <2>1 DEF BufferKeepsText, Types, RestInPlace
  <2>2. CASE ~(start' < end')
    <3>1. start' \in Int /\ end' \in Int
      BY ZutilReadAssumption
    <3>2. ASSUME NEW i \in start'..(end' - 1) PROVE FALSE
      <4>1. PICK s, e : s = start' /\ e = end'
        OBVIOUS
      <4>2. i \in s..(e - 1) /\ s \in Int /\ e \in Int /\ ~(s < e)
        BY <2>2, <3>1, <3>2, <4>1
      <4> QED
        BY <4>2
    <3> QED
      BY <3>2 DEF BufferKeepsText
  <2> QED
    BY <2>1, <2>2
<1> QED
  BY <1>3, <1>4, <1>5 DEF RInv

\* Where a read into the second half looks for the newline, in buffer b, and
\* what it does when it has found it at cell next, or not at all.
SecondHalfSearch(n, b, cur, last, next) ==
  /\ b \in Cells /\ cur \in 0..IN_BUF_SIZE
  /\ cur = IN_BUF_SIZE - Buffered /\ last = IN_BUF_SIZE + n
  /\ \A i \in cur..(last - 1) : b[i] = inflated + 1 + (i - IN_BUF_SIZE)
  /\ Finds(next, b, cur, last - cur)
  /\ end' = last
  /\ \/ /\ next < last
        /\ in' = [b EXCEPT ![next] = NUL]
        /\ result' = Returned(in', cur, next - cur)
        /\ start' = next + 1
     \/ /\ next = last /\ n < IN_BUF_SIZE /\ cur = last
        /\ result' = Nothing("eof")
        /\ in' = b /\ UNCHANGED start
     \/ /\ next = last /\ n < IN_BUF_SIZE /\ cur < last
        /\ in' = [b EXCEPT ![last] = NUL]
        /\ result' = Returned(in', cur, last - start)
        /\ start' = last
     \/ /\ next = last /\ n = IN_BUF_SIZE
        /\ result' = Nothing("toolong")
        /\ in' = b /\ UNCHANGED start

LEMMA SecondHalfSearched ==
  ASSUME RInv, Going, NEW n, Reading(n), ~swapped, FromSecondHalf(n)
  PROVE  \E b, cur, last, next : SecondHalfSearch(n, b, cur, last, next)
<1>1. /\ Types /\ n \in 0..IN_BUF_SIZE /\ n \in Nat /\ inflated' = inflated + n
      /\ inflated + n <= text.len /\ swapped' = TRUE
      /\ IN_BUF_SIZE \in Nat \ {0} /\ start \in Nat /\ end \in Nat /\ inflated \in Nat
  BY Sizes, Filling DEF RInv, Reading, Types
<1>2. PICK b : b = SecondHalf(n)
  OBVIOUS
<1>3. PICK cur : cur = IN_BUF_SIZE - Buffered
  OBVIOUS
<1>4. PICK last : last = IN_BUF_SIZE + n
  OBVIOUS
<1>5. /\ b \in Cells /\ cur \in 0..IN_BUF_SIZE
      /\ \A i \in cur..(last - 1) : b[i] = inflated + 1 + (i - IN_BUF_SIZE)
  <2>1. /\ b \in Cells /\ Buffered \in 0..IN_BUF_SIZE
        /\ \A i \in (IN_BUF_SIZE - Buffered)..(IN_BUF_SIZE + n - 1) :
             b[i] = inflated + 1 + (i - IN_BUF_SIZE)
    BY <1>1, <1>2, SecondHalfFilled DEF Going
  <2>2. PICK k : k = Buffered
    OBVIOUS
  <2>3. cur \in 0..IN_BUF_SIZE
    BY <1>1, <1>3, <2>1, <2>2
  <2>4. ASSUME NEW i \in cur..(last - 1)
        PROVE  b[i] = inflated + 1 + (i - IN_BUF_SIZE)
    <3>1. i \in (IN_BUF_SIZE - k)..(IN_BUF_SIZE + n - 1)
      BY <1>1, <1>3, <1>4, <2>1, <2>2
    <3> QED
      BY <2>1, <2>2, <3>1
  <2> QED
    BY <2>1, <2>3, <2>4
<1>6. PICK next : next = memchr(b, cur, last - cur)
  OBVIOUS
<1>7. Finds(next, b, cur, last - cur)
  <2>1. PICK m : m = last - cur
    OBVIOUS
  <2>2. cur \in Nat /\ m \in Nat
    BY <1>1, <1>4, <1>5, <2>1
  <2> QED
    BY <1>6, <2>1, <2>2, MemChr
<1>8. /\ end' = last
      /\ \/ /\ next < last
            /\ in' = [b EXCEPT ![next] = NUL]
            /\ result' = Returned(in', cur, next - cur)
            /\ start' = next + 1
         \/ /\ next = last /\ n < IN_BUF_SIZE /\ cur = last
            /\ result' = Nothing("eof")
            /\ in' = b /\ UNCHANGED start
         \/ /\ next = last /\ n < IN_BUF_SIZE /\ cur < last
            /\ in' = [b EXCEPT ![last] = NUL]
            /\ result' = Returned(in', cur, last - start)
            /\ start' = last
         \/ /\ next = last /\ n = IN_BUF_SIZE
            /\ result' = Nothing("toolong")
            /\ in' = b /\ UNCHANGED start
  <2>1. SecondHalf(n) = IF end # IN_BUF_SIZE
                        THEN Move(Filled(n), IN_BUF_SIZE - Buffered, start, Buffered)
                        ELSE Filled(n)
    BY DEF SecondHalf
  <2> QED
    BY <1>2, <1>3, <1>4, <1>6, <2>1 DEF FromSecondHalf
<1> QED
  BY <1>3, <1>4, <1>5, <1>7, <1>8 DEF SecondHalfSearch

LEMMA SecondHalfStep ==
  ASSUME RInv, Going, NEW n, Reading(n), ~swapped, FromSecondHalf(n)
  PROVE  RInv'
<1>1. /\ Types /\ n \in 0..IN_BUF_SIZE /\ n \in Nat /\ inflated' = inflated + n
      /\ inflated + n <= text.len /\ swapped' = TRUE
      /\ IN_BUF_SIZE \in Nat \ {0} /\ start \in Nat /\ end \in Nat /\ inflated \in Nat
  BY Sizes, Filling DEF RInv, Reading, Types
<1>2. PICK b, cur, last, next : SecondHalfSearch(n, b, cur, last, next)
  BY SecondHalfSearched
<1>3. cur = IN_BUF_SIZE - Buffered
  BY <1>2 DEF SecondHalfSearch
<1>4. last = IN_BUF_SIZE + n
  BY <1>2 DEF SecondHalfSearch
<1>5. /\ b \in Cells /\ cur \in 0..IN_BUF_SIZE
      /\ \A i \in cur..(last - 1) : b[i] = inflated + 1 + (i - IN_BUF_SIZE)
  BY <1>2 DEF SecondHalfSearch
<1>6. PICK sz : sz = last - cur /\ Finds(next, b, cur, sz)
  BY <1>2 DEF SecondHalfSearch
<1>7. next \in Nat /\ cur <= next /\ next <= last /\ \A i \in cur..(next - 1) : b[i] \notin text.nl
  BY <1>1, <1>4, <1>5, <1>6 DEF Finds
<1>8. /\ end' = last
      /\ \/ /\ next < last
            /\ in' = [b EXCEPT ![next] = NUL]
            /\ result' = Returned(in', cur, next - cur)
            /\ start' = next + 1
         \/ /\ next = last /\ n < IN_BUF_SIZE /\ cur = last
            /\ result' = Nothing("eof")
            /\ in' = b /\ UNCHANGED start
         \/ /\ next = last /\ n < IN_BUF_SIZE /\ cur < last
            /\ in' = [b EXCEPT ![last] = NUL]
            /\ result' = Returned(in', cur, last - start)
            /\ start' = last
         \/ /\ next = last /\ n = IN_BUF_SIZE
            /\ result' = Nothing("toolong")
            /\ in' = b /\ UNCHANGED start
  BY <1>2 DEF SecondHalfSearch
<1>9. last \in Nat /\ last <= 2 * IN_BUF_SIZE /\ IN_BUF_SIZE <= last
  BY <1>1, <1>4
<1>10. CASE next < last /\ in' = [b EXCEPT ![next] = NUL]
            /\ result' = Returned(in', cur, next - cur) /\ start' = next + 1
  <2>1. PICK c : c = in'
    OBVIOUS
  <2>2. Terminated(c, b, next)
    <3>1. next \in 0..(2 * IN_BUF_SIZE)
      BY <1>1, <1>7, <1>9, <1>10
    <3> QED
      BY <1>5, <1>10, <2>1, <3>1, Ended
  <2>3. /\ start' \in 0..(2 * IN_BUF_SIZE) /\ end' \in 0..(2 * IN_BUF_SIZE)
        /\ start' <= end' /\ result'.kind \in {"line", "broken"}
    BY <1>1, <1>7, <1>8, <1>9, <1>10, Results
  <2>4. start' > IN_BUF_SIZE
    <3>1. SUFFICES ASSUME next < IN_BUF_SIZE PROVE FALSE
      BY <1>1, <1>7, <1>10
    <3>2. next \in cur..(last - 1)
      BY <1>1, <1>5, <1>7, <1>9, <1>10
    <3>3. b[next] = inflated + 1 + (next - IN_BUF_SIZE) /\ b[next] \in text.nl
      <4>1. next < cur + sz
        BY <1>1, <1>5, <1>6, <1>9, <1>10
      <4>2. b[next] \in text.nl
        BY <1>6, <4>1 DEF Finds
      <4> QED
        BY <1>5, <3>2, <4>2
    <3>4. PICK j : j = end - (IN_BUF_SIZE - next)
      OBVIOUS
    <3>5. /\ Buffered = IN_BUF_SIZE - cur /\ Buffered = end - start
          /\ j \in start..(end - 1) /\ Buffered > 0 /\ Buffered \in Nat
      BY <1>1, <1>3, <1>5, <1>7, <3>1, <3>4 DEF Buffered
    <3>6. in[j] = inflated - (end - 1 - j)
      BY <3>5 DEF RInv, BufferKeepsText, Going
    <3>7. in[j] = b[next]
      BY <1>1, <1>7, <3>3, <3>4, <3>6
    <3>8. memchr(in, start, Buffered) <= j
      <4>1. PICK d, s, m, x : d = in /\ s = start /\ m = Buffered /\ x = memchr(in, start, Buffered)
        OBVIOUS
      <4>2. x = memchr(d, s, m) /\ s \in Nat /\ m \in Nat
        BY <1>1, <3>5, <4>1
      <4>3. x \in Nat /\ \A i \in s..(x - 1) : d[i] \notin text.nl
        BY <4>2, MemChr DEF Finds
      <4>4. ~(j \in s..(x - 1))
        BY <3>3, <3>7, <4>1, <4>3
      <4> QED
        BY <1>1, <3>5, <4>1, <4>3, <4>4
    <3>9. memchr(in, start, Buffered) < end
      <4>1. PICK x, s, m : x = memchr(in, start, Buffered) /\ s = start /\ m = Buffered
        OBVIOUS
      <4>2. PICK d : d = in
        OBVIOUS
      <4>3. x \in Nat
        BY <1>1, <3>5, <4>1, <4>2, MemChr DEF Finds
      <4> QED
        BY <1>1, <3>5, <3>8, <4>1, <4>3
    <3> QED
      BY <3>5, <3>9 DEF Reading, HasLine
  <2>5. \A i \in start'..(end' - 1) : in'[i] = inflated' - (end' - 1 - i)
    <3>1. ASSUME NEW i \in (next + 1)..(last - 1) PROVE c[i] = inflated + n - (last - 1 - i)
      <4>1. i \in 0..(2 * IN_BUF_SIZE) /\ i # next /\ i \in cur..(last - 1)
        BY <1>1, <1>5, <1>7, <1>9
      <4>2. c[i] = inflated + 1 + (i - IN_BUF_SIZE)
        BY <1>5, <2>2, <4>1 DEF Terminated
      <4> QED
        BY <1>1, <1>4, <4>1, <4>2
    <3>2. ASSUME NEW i \in start'..(end' - 1)
          PROVE  in'[i] = inflated' - (end' - 1 - i)
      <4>1. i \in (next + 1)..(last - 1)
        BY <1>8, <1>10
      <4>2. c[i] = inflated + n - (last - 1 - i)
        BY <3>1, <4>1
      <4> QED
        BY <1>1, <1>8, <1>9, <2>1, <4>1, <4>2
    <3> QED
      BY <3>2
  <2>6. in' \in Cells
    BY <2>1, <2>2 DEF Terminated
  <2> QED
    BY <1>1, <2>3, <2>4, <2>5, <2>6, AfterReading DEF RestInPlace
<1>11. CASE result' = Nothing("eof") /\ in' = b /\ UNCHANGED start
  <2>1. result'.kind = "eof" /\ end' \in 0..(2 * IN_BUF_SIZE)
    BY <1>1, <1>8, <1>9, <1>11, Results
  <2> QED
    BY <1>1, <1>5, <1>11, <2>1, AfterReading DEF Types
<1>12. CASE /\ in' = [b EXCEPT ![last] = NUL]
            /\ result' = Returned(in', cur, last - start)
            /\ start' = last
  <2>1. PICK c : c = in'
    OBVIOUS
  <2>2. last \in 0..(2 * IN_BUF_SIZE)
    BY <1>1, <1>9
  <2>3. Terminated(c, b, last)
    BY <1>5, <1>12, <2>1, <2>2, Ended
  <2>4. in' \in Cells
    BY <2>1, <2>3 DEF Terminated
  <2>5. result'.kind \in {"line", "broken"} /\ start' = last /\ end' = last /\ ~(last < last)
    BY <1>8, <1>9, <1>12, Results
  <2> QED
    BY <1>9, <2>2, <2>4, <2>5, AfterReading
<1>13. CASE n = IN_BUF_SIZE /\ result' = Nothing("toolong") /\ in' = b /\ UNCHANGED start
  <2>1. /\ result'.kind = "toolong" /\ end' \in 0..(2 * IN_BUF_SIZE)
        /\ start' \in 0..(2 * IN_BUF_SIZE) /\ start' <= end'
    BY <1>1, <1>4, <1>8, <1>9, <1>13, Results DEF Types
  <2> QED
    BY <1>5, <1>13, <2>1, AfterReading
<1> QED
  BY <1>8, <1>10, <1>11, <1>12, <1>13

\* The text of a read into the first half.
LEMMA FirstHalfFilled ==
  ASSUME RInv, Going, NEW n, Reading(n), swapped, NEW f, f = Filled(n)
  PROVE  /\ Types /\ n \in 0..IN_BUF_SIZE /\ n \in Nat /\ inflated' = inflated + n
         /\ inflated + n <= text.len /\ swapped' = FALSE
         /\ IN_BUF_SIZE \in Nat \ {0} /\ start \in Nat /\ end \in Nat /\ inflated \in Nat
         /\ start <= end /\ end <= 2 * IN_BUF_SIZE
         /\ Buffered \in Nat /\ Buffered = end - start
         /\ f \in Cells
         /\ \A i \in 0..(2 * IN_BUF_SIZE) :
              f[i] = IF i < n THEN inflated + 1 + i ELSE in[i]
<1>1. /\ Types /\ n \in 0..IN_BUF_SIZE /\ n \in Nat /\ inflated' = inflated + n
      /\ inflated + n <= text.len /\ swapped' = FALSE
      /\ IN_BUF_SIZE \in Nat \ {0} /\ start \in Nat /\ end \in Nat /\ inflated \in Nat
      /\ start <= end /\ end <= 2 * IN_BUF_SIZE
  <2>1. /\ Types /\ n \in 0..IN_BUF_SIZE /\ Fill(n) /\ inflated' = inflated + n
        /\ swapped' = ~swapped
    BY DEF RInv, Reading
  <2>2. /\ IN_BUF_SIZE \in Nat \ {0} /\ start \in Nat /\ end \in Nat
    BY <2>1, Sizes
  <2>3. n \in Nat /\ inflated + n <= text.len
    BY <2>1, Filling
  <2>4. start <= end /\ end <= 2 * IN_BUF_SIZE /\ inflated \in Nat
    BY <2>1, <2>2 DEF Types, Going
  <2> QED
    BY <2>1, <2>2, <2>3, <2>4
<1>2. Buffered \in Nat /\ Buffered = end - start
  BY <1>1 DEF Buffered
<1>3. /\ f \in Cells
      /\ \A i \in 0..(2 * IN_BUF_SIZE) :
           f[i] = IF 0 <= i /\ i < 0 + n THEN inflated + 1 + (i - 0) ELSE in[i]
  BY <1>1, NewHalf
<1> QED
  BY <1>1, <1>2, <1>3

LEMMA FirstHalfStep ==
  ASSUME RInv, Going, NEW n, Reading(n), swapped, FromFirstHalf(n)
  PROVE  RInv'
<1>1. PICK f : f = Filled(n)
  OBVIOUS
<1>2. /\ Types /\ n \in 0..IN_BUF_SIZE /\ n \in Nat /\ inflated' = inflated + n
      /\ inflated + n <= text.len /\ swapped' = FALSE
      /\ IN_BUF_SIZE \in Nat \ {0} /\ start \in Nat /\ end \in Nat /\ inflated \in Nat
      /\ start <= end /\ end <= 2 * IN_BUF_SIZE
      /\ Buffered \in Nat /\ Buffered = end - start
      /\ f \in Cells
      /\ \A i \in 0..(2 * IN_BUF_SIZE) : f[i] = IF i < n THEN inflated + 1 + i ELSE in[i]
  BY <1>1, FirstHalfFilled
<1>3. PICK next : next = memchr(f, 0, n)
  OBVIOUS
<1>4. next \in Nat
  BY <1>2, <1>3, MemChr DEF Finds
<1>5. PICK b : b = [f EXCEPT ![next] = NUL]
  OBVIOUS
<1>6. PICK k : k = Buffered
  OBVIOUS
<1>7. /\ next < n
      /\ \/ /\ k > 0 /\ k + next >= IN_BUF_SIZE
            /\ result' = Nothing("toolong")
            /\ in' = b
            /\ UNCHANGED <<start, end>>
         \/ /\ k > 0 /\ k + next < IN_BUF_SIZE
            /\ in' = Joined(b, next)
            /\ result' = Returned(in', IN_BUF_SIZE, k + next)
            /\ start' = next + 1 /\ end' = n
         \/ /\ k = 0
            /\ in' = b
            /\ result' = Returned(b, 0, next)
            /\ start' = next + 1 /\ end' = n
  BY <1>1, <1>3, <1>5, <1>6 DEF FromFirstHalf
<1>8. Terminated(b, f, next)
  <2>1. next \in 0..(2 * IN_BUF_SIZE)
    BY <1>2, <1>4, <1>7
  <2> QED
    BY <1>2, <1>5, <2>1, Ended
<1>9. CASE result' = Nothing("toolong") /\ in' = b /\ UNCHANGED <<start, end>>
  <2>1. in' \in Cells /\ result'.kind = "toolong"
    BY <1>8, <1>9, Results DEF Terminated
  <2>2. start' \in 0..(2 * IN_BUF_SIZE) /\ end' \in 0..(2 * IN_BUF_SIZE) /\ start' <= end'
    BY <1>2, <1>9
  <2> QED
    BY <2>1, <2>2, AfterReading
<1>10. ASSUME NEW c, c = in', c \in Cells, result'.kind \in {"line", "broken"},
              start' = next + 1, end' = n,
              \A i \in 0..(IN_BUF_SIZE - 1) : c[i] = b[i]
       PROVE  RInv'
  <2>1. ASSUME NEW i \in start'..(end' - 1) PROVE in'[i] = inflated' - (end' - 1 - i)
    <3>1. i \in (next + 1)..(n - 1)
      BY <1>10
    <3>2. i \in 0..(IN_BUF_SIZE - 1) /\ i \in 0..(2 * IN_BUF_SIZE) /\ i # next /\ i < n
      BY <1>2, <1>4, <3>1
    <3>3. c[i] = inflated + 1 + i
      BY <1>2, <1>8, <1>10, <3>2 DEF Terminated
    <3> QED
      BY <1>2, <1>10, <3>2, <3>3
  <2>2. /\ start' \in 0..(2 * IN_BUF_SIZE) /\ end' \in 0..(2 * IN_BUF_SIZE)
        /\ start' <= end' /\ end' <= IN_BUF_SIZE
    BY <1>2, <1>4, <1>7, <1>10
  <2> QED
    BY <1>2, <1>10, <2>1, <2>2, AfterReading DEF RestInPlace
<1>11. CASE /\ k + next < IN_BUF_SIZE /\ in' = Joined(b, next)
            /\ result' = Returned(in', IN_BUF_SIZE, k + next)
            /\ start' = next + 1 /\ end' = n
  <2>1. PICK c : c = in'
    OBVIOUS
  <2>2. c \in Cells /\ \A i \in 0..(IN_BUF_SIZE - 1) : c[i] = b[i]
    <3>1. b \in Cells /\ k \in Nat /\ c = Joined(b, next)
      BY <1>2, <1>6, <1>8, <1>11, <2>1 DEF Terminated
    <3> QED
      BY <1>2, <1>4, <1>6, <1>11, <3>1, JoinedCells
  <2> QED
    BY <1>10, <1>11, <2>1, <2>2, Results
<1>12. CASE /\ in' = b /\ result' = Returned(b, 0, next)
            /\ start' = next + 1 /\ end' = n
  BY <1>8, <1>10, <1>12, Results DEF Terminated
<1> QED
  BY <1>7, <1>9, <1>11, <1>12

LEMMA LastStep ==
  ASSUME RInv, Going, NEW n, Reading(n), swapped, LastOfFirstHalf(n)
  PROVE  RInv'
<1>1. PICK f : f = Filled(n)
  OBVIOUS
<1>2. /\ Types /\ n \in 0..IN_BUF_SIZE /\ n \in Nat /\ inflated' = inflated + n
      /\ IN_BUF_SIZE \in Nat \ {0} /\ start \in Nat /\ end \in Nat
      /\ start <= end /\ end <= 2 * IN_BUF_SIZE
      /\ Buffered \in Nat /\ Buffered = end - start
      /\ f \in Cells
  BY <1>1, FirstHalfFilled
<1>3. PICK k : k = Buffered
  OBVIOUS
<1>4. \/ /\ n = 0 /\ k > 0
         /\ in' = [f EXCEPT ![end] = NUL]
         /\ result' = Returned(in', start, k)
         /\ start' = end /\ UNCHANGED end
      \/ /\ result' = Nothing("eof")
         /\ in' = f /\ UNCHANGED <<start, end>>
      \/ /\ k = 0
         /\ in' = f
         /\ result' = Returned(f, 0, n)
         /\ UNCHANGED <<start, end>>
      \/ /\ result' = Nothing("toolong")
         /\ in' = f /\ UNCHANGED <<start, end>>
      \/ /\ k + n < IN_BUF_SIZE
         /\ in' = Joined(f, n)
         /\ result' = Returned(in', IN_BUF_SIZE, k + n)
         /\ start' = IN_BUF_SIZE /\ end' = IN_BUF_SIZE
  BY <1>1, <1>3 DEF LastOfFirstHalf
<1>5. /\ start \in 0..(2 * IN_BUF_SIZE) /\ end \in 0..(2 * IN_BUF_SIZE)
      /\ IN_BUF_SIZE \in 0..(2 * IN_BUF_SIZE)
      /\ ~(end < end) /\ ~(IN_BUF_SIZE < IN_BUF_SIZE)
  BY <1>2
<1>6. CASE /\ in' = [f EXCEPT ![end] = NUL] /\ result' = Returned(in', start, k)
           /\ start' = end /\ UNCHANGED end
  <2>1. PICK c, e : c = in' /\ e = end
    OBVIOUS
  <2>2. Terminated(c, f, e)
    BY <1>2, <1>5, <1>6, <2>1, Ended
  <2>3. in' \in Cells /\ result'.kind \in {"line", "broken"}
    BY <1>6, <2>1, <2>2, Results DEF Terminated
  <2>4. /\ start' = e /\ end' = e /\ e \in Nat /\ e <= e /\ ~(e < e)
        /\ e \in 0..(2 * IN_BUF_SIZE)
    BY <1>2, <1>5, <1>6, <2>1
  <2> QED
    BY <2>3, <2>4, AfterReading
<1>7. CASE /\ result' \in {Nothing("eof"), Nothing("toolong")}
           /\ in' = f /\ UNCHANGED <<start, end>>
  <2>1. result'.kind \in {"eof", "toolong"}
    BY <1>7, Results
  <2> QED
    BY <1>2, <1>5, <1>7, <2>1, AfterReading
<1>8. CASE k = 0 /\ in' = f /\ result' = Returned(f, 0, n) /\ UNCHANGED <<start, end>>
  <2>1. result'.kind \in {"line", "broken"} /\ ~(start < end)
    BY <1>2, <1>3, <1>8, Results
  <2> QED
    BY <1>2, <1>5, <1>8, <2>1, AfterReading
<1>9. CASE /\ k + n < IN_BUF_SIZE /\ in' = Joined(f, n)
           /\ result' = Returned(in', IN_BUF_SIZE, k + n)
           /\ start' = IN_BUF_SIZE /\ end' = IN_BUF_SIZE
  <2>1. PICK c : c = in'
    OBVIOUS
  <2>2. c \in Cells
    <3>1. k \in Nat /\ c = Joined(f, n)
      BY <1>2, <1>3, <1>9, <2>1
    <3> QED
      BY <1>2, <1>3, <1>9, <3>1, JoinedCells
  <2>3. result'.kind \in {"line", "broken"}
    BY <1>9, Results
  <2> QED
    BY <1>2, <1>5, <1>9, <2>1, <2>2, <2>3, AfterReading
<1> QED
  BY <1>4, <1>6, <1>7, <1>8, <1>9

LEMMA InitReadStep ==
  ASSUME RInv, result.kind = "closed" => inflated = 0 /\ swapped, zinit_read
  PROVE  RInv'
<1>1. PICK n \in 0..IN_BUF_SIZE : Fill(n) /\ in' = Filled(n) /\ end' = n /\ inflated' = n
  BY DEF zinit_read
<1>2. /\ result.kind = "closed" /\ input' = TRUE /\ swapped' = FALSE /\ start' = 0
      /\ result' = Nothing("none") /\ text' = text
  BY DEF zinit_read
<1>3. /\ Types /\ n \in Nat /\ block' \in Nat /\ feof' \in BOOLEAN
      /\ inflated + n + block' <= text.len /\ inflated + n <= text.len
      /\ inflated = 0 /\ swapped /\ IN_BUF_SIZE \in Nat \ {0} /\ inflated \in Nat
  BY <1>1, <1>2, Filling, Sizes DEF RInv
<1>4. PICK f : f = in'
  OBVIOUS
<1>5. /\ f \in Cells
      /\ \A i \in 0..(2 * IN_BUF_SIZE) :
           f[i] = IF 0 <= i /\ i < 0 + n THEN inflated + 1 + (i - 0) ELSE in[i]
  BY <1>1, <1>3, <1>4, NewHalf
<1>6. result'.kind = "none"
  BY <1>2, Results
<1>7. Types'
  <2>1. in' \in Cells' /\ text' \in Texts
    BY <1>2, <1>3, <1>4, <1>5 DEF Cells, Types
  <2>2. /\ start' \in 0..(2 * IN_BUF_SIZE) /\ end' \in 0..(2 * IN_BUF_SIZE)
        /\ start' <= end'
    BY <1>1, <1>2, <1>3
  <2>3. inflated' \in Nat /\ inflated' + block' <= text'.len
    <3>1. inflated' = n /\ text' = text /\ text.len \in Nat
      BY <1>1, <1>2, <1>3, Sizes
    <3> QED
      BY <1>3, <3>1
  <2> QED
    BY <1>2, <1>3, <1>6, <2>1, <2>2, <2>3 DEF Types
<1>8. Halves'
  BY <1>1, <1>2, <1>3 DEF Halves
<1>9. BufferKeepsText'
  <2>1. ASSUME NEW i \in start'..(end' - 1) PROVE in'[i] = inflated' - (end' - 1 - i)
    <3>1. i \in 0..(n - 1) /\ i \in 0..(2 * IN_BUF_SIZE) /\ i < n
      BY <1>1, <1>2, <1>3
    <3>2. f[i] = 1 + i
      BY <1>3, <1>5, <3>1
    <3> QED
      BY <1>1, <1>3, <1>4, <3>1, <3>2
  <2> QED
    BY <2>1 DEF BufferKeepsText
<1> QED
  BY <1>7, <1>8, <1>9 DEF RInv

-----------------------------------------------------------------------------
(* The invariant holds.                                                    *)

\* Before zinit_read nothing was read.
Unopened == result.kind = "closed" => inflated = 0 /\ swapped /\ start = 0 /\ end = 0

ZInv == RInv /\ Unopened

LEMMA InitInvariant == Init => ZInv
<1> SUFFICES ASSUME Init PROVE ZInv
  OBVIOUS
<1>1. /\ text \in Texts /\ in = [i \in 0..(2 * IN_BUF_SIZE) |-> 0]
      /\ start = 0 /\ end = 0 /\ swapped = TRUE /\ input = FALSE /\ feof = FALSE
      /\ block = 0 /\ inflated = 0 /\ result.kind = "closed"
  BY Results DEF Init
<1>2. IN_BUF_SIZE \in Nat /\ text.len \in Nat
  BY <1>1, ZutilReadAssumption
<1>3. in \in Cells
  BY <1>1, <1>2 DEF Cells
<1>4. Types
  <2>1. /\ start \in 0..(2 * IN_BUF_SIZE) /\ end \in 0..(2 * IN_BUF_SIZE) /\ start <= end
        /\ block \in Nat /\ inflated \in Nat /\ inflated + block <= text.len
    <3>1. start = 0 /\ end = 0 /\ block = 0 /\ inflated = 0
      BY <1>1
    <3>2. 0 \in 0..(2 * IN_BUF_SIZE) /\ 0 <= 0 /\ 0 \in Nat /\ 0 + 0 <= text.len
      BY <1>2
    <3> QED
      BY <3>1, <3>2
  <2>2. swapped \in BOOLEAN /\ input \in BOOLEAN /\ feof \in BOOLEAN
    BY <1>1
  <2> QED
    BY <1>1, <1>3, <2>1, <2>2 DEF Types
<1>5. ~(start < end) /\ \A i \in start..(end - 1) : FALSE
  <2>1. start = 0 /\ end = 0
    BY <1>1
  <2>2. ~(0 < 0) /\ \A i \in 0..(0 - 1) : FALSE
    OBVIOUS
  <2> QED
    BY <2>1, <2>2
<1>6. Halves /\ BufferKeepsText
  BY <1>5 DEF Halves, BufferKeepsText
<1> QED
  BY <1>1, <1>4, <1>6 DEF ZInv, RInv, Unopened

LEMMA FromFileStep == ASSUME RInv, Going, FromFile PROVE RInv'
<1>1. PICK n : /\ Reading(n)
               /\ \/ ~swapped /\ FromSecondHalf(n)
                  \/ swapped /\ (FromFirstHalf(n) \/ LastOfFirstHalf(n))
  BY FromFileReads DEF RInv
<1>2. CASE ~swapped /\ FromSecondHalf(n)
  BY <1>1, <1>2, SecondHalfStep
<1>3. CASE swapped /\ FromFirstHalf(n)
  BY <1>1, <1>3, FirstHalfStep
<1>4. CASE swapped /\ LastOfFirstHalf(n)
  BY <1>1, <1>4, LastStep
<1> QED
  BY <1>1, <1>2, <1>3, <1>4

\* After zinit_read the file stays open, or was read to its end.
LEMMA StaysOpen == ASSUME Next PROVE result'.kind # "closed"
<1>1. CASE zinit_read
  BY <1>1, Results DEF zinit_read
<1>2. CASE FromBuffer
  BY <1>2, Results DEF FromBuffer
<1>3. CASE NoMore
  BY <1>3, Results DEF NoMore
<1>4. CASE FromFile
  <2>1. PICK n : FromSecondHalf(n) \/ FromFirstHalf(n) \/ LastOfFirstHalf(n)
    BY <1>4 DEF FromFile
  <2>2. CASE FromSecondHalf(n)
    BY <2>2, Results DEF FromSecondHalf
  <2>3. CASE FromFirstHalf(n)
    BY <2>3, Results DEF FromFirstHalf
  <2>4. CASE LastOfFirstHalf(n)
    BY <2>4, Results DEF LastOfFirstHalf
  <2> QED
    BY <2>1, <2>2, <2>3, <2>4
<1> QED
  BY <1>1, <1>2, <1>3, <1>4 DEF Next, zread_line

LEMMA NextInvariant == ZInv /\ [Next]_vars => ZInv'
<1> SUFFICES ASSUME ZInv, [Next]_vars PROVE ZInv'
  OBVIOUS
<1>1. CASE zinit_read
  <2>1. RInv'
    BY <1>1, InitReadStep DEF ZInv, Unopened
  <2> QED
    BY <1>1, <2>1, StaysOpen DEF Next, ZInv, Unopened
<1>2. CASE zread_line
  <2>1. Going /\ (FromBuffer \/ NoMore \/ FromFile)
    BY <1>2 DEF zread_line, Going
  <2>2. RInv'
    BY <2>1, FromBufferStep, NoMoreStep, FromFileStep DEF ZInv
  <2> QED
    BY <1>2, <2>2, StaysOpen DEF Next, ZInv, Unopened
<1>3. CASE UNCHANGED vars
  BY <1>3 DEF vars, ZInv, Unopened, RInv, Types, Cells, Halves, BufferKeepsText
<1> QED
  BY <1>1, <1>2, <1>3 DEF Next

\* Whatever the file, however it was compressed and whatever the size of the
\* buffer, zread_line keeps the invariant (zutil.c:129-357).
THEOREM ReaderCorrect == Spec => []ZInv
BY InitInvariant, NextInvariant, PTL DEF Spec

\* The pointers of the reader stay in its buffer, every copy stays in it, too,
\* and until the end of the file what remains has a length of at least 0.
THEOREM ReaderTypes == Spec => []TypeOK
<1>1. ZInv => TypeOK
  <2> SUFFICES ASSUME ZInv PROVE TypeOK
    OBVIOUS
  <2>1. Types /\ text.len \in Nat
    BY Sizes DEF ZInv, RInv
  <2>2. block \in 0..text.len /\ inflated \in 0..text.len
    BY <2>1 DEF Types
  <2> QED
    BY <2>1, <2>2 DEF TypeOK, Types, Cells
<1> QED
  BY <1>1, ReaderCorrect, PTL

\* The bytes that zread_line has still to return are in the buffer, in order,
\* and are those of the file: the swap of the two halves, the copies and the
\* '\0's written over newlines never destroy one of them.
THEOREM NoUnreadByteIsLost == Spec => []BufferKeepsText
<1>1. ZInv => BufferKeepsText
  BY DEF ZInv, RInv
<1> QED
  BY <1>1, ReaderCorrect, PTL

-----------------------------------------------------------------------------
(* The lines of the file, for files of complete lines.                     *)

\* A block of the file holds at least one line and fits in half the buffer.
FitBlocks == Longest <= IN_BUF_SIZE /\ Blocks \subseteq Longest..IN_BUF_SIZE

\* The byte of the text before the next one for the client.
Pos == inflated - Buffered

\* What zlib keeps back is the rest of the file, and the client has read
\* whole lines.
Complete ==
  result.kind # "eof" =>
    /\ feof \/ block > 0 => inflated + block = text.len
    /\ Pos \in {0} \cup text.nl

\* e is the end of the line after byte p.
EndsLine(e, p) ==
  e \in text.nl /\ p < e /\ \A m \in text.nl : p < m => e <= m

LEMMA Positions ==
  ASSUME RInv, Going, Complete
  PROVE  /\ Types /\ start \in Nat /\ end \in Nat /\ start <= end /\ Buffered \in Nat
         /\ Buffered = end - start /\ inflated \in Nat /\ text.len \in Nat
         /\ inflated <= text.len /\ text.nl \subseteq 1..text.len
         /\ Pos \in Nat /\ Pos = inflated - Buffered /\ Pos \in {0} \cup text.nl
         /\ IN_BUF_SIZE \in Nat \ {0} /\ end <= 2 * IN_BUF_SIZE /\ Longest \in Nat \ {0}
<1>1. Types
  BY DEF RInv
<1>2. /\ IN_BUF_SIZE \in Nat \ {0} /\ text.len \in Nat /\ text.nl \subseteq 1..text.len
      /\ start \in Nat /\ end \in Nat /\ Longest \in Nat \ {0}
  BY <1>1, Sizes, ZutilReadAssumption
<1>3. /\ start <= end /\ inflated \in Nat /\ block \in Nat /\ inflated + block <= text.len
      /\ end <= 2 * IN_BUF_SIZE
  BY <1>1, <1>2 DEF Types, Going
<1>4. Buffered = end - start /\ Pos = inflated - Buffered
  BY DEF Buffered, Pos
<1>5. Pos \in {0} \cup text.nl
  BY DEF Complete, Going
<1> QED
  BY <1>1, <1>2, <1>3, <1>4, <1>5

\* What a search in a range of bytes that follow byte p says of the text.
LEMMA FoundInText ==
  ASSUME Types, NEW b, NEW from \in Nat, NEW n \in Nat, NEW next, Finds(next, b, from, n),
         NEW p \in Nat, \A i \in from..(from + n - 1) : b[i] = p + 1 + (i - from)
  PROVE  /\ next < from + n => p + 1 + (next - from) \in text.nl
         /\ \A m \in text.nl : p < m => p + (next - from) < m
<1>1. /\ next \in Nat /\ from <= next /\ next <= from + n
      /\ next < from + n => b[next] \in text.nl
      /\ \A i \in from..(next - 1) : b[i] \notin text.nl
  BY DEF Finds
<1>2. text.nl \subseteq 1..text.len /\ text.len \in Nat
  BY Sizes
<1>3. ASSUME NEW m \in text.nl, p < m, ~(p + (next - from) < m) PROVE FALSE
  <2>1. PICK i : i = from + (m - p - 1)
    OBVIOUS
  <2>2. m \in Nat
    BY <1>2
  <2>3. i \in from..(next - 1) /\ i \in from..(from + n - 1) /\ p + 1 + (i - from) = m
    BY <1>1, <1>3, <2>1, <2>2
  <2> QED
    BY <1>1, <2>3
<1>4. ASSUME next < from + n PROVE p + 1 + (next - from) \in text.nl
  BY <1>1, <1>4
<1> QED
  BY <1>3, <1>4

\* What is left of the text after whole lines starts with a line.
LEMMA LineAhead ==
  ASSUME RInv, Going, Complete, Lines!Promised, Pos < text.len
  PROVE  \E m \in text.nl : Pos < m /\ m <= Pos + Longest
<1>1. Pos \in Nat /\ text.len \in Nat /\ Pos \in {0} \cup text.nl /\ Longest \in Nat
  BY Positions
<1>2. PICK p : p = Pos
  OBVIOUS
<1>3. p = text.len \/ (p + 1 .. p + Longest) \cap text.nl # {}
  BY <1>1, <1>2 DEF Lines!Promised
<1>4. PICK m : m \in (p + 1 .. p + Longest) /\ m \in text.nl
  BY <1>1, <1>2, <1>3
<1>5. p \in Nat /\ p < m /\ m <= p + Longest
  BY <1>1, <1>2, <1>4
<1> QED
  BY <1>2, <1>4, <1>5

\* Without a whole line in the buffer, the line ends in what is not read yet.
LEMMA NoLineBuffered ==
  ASSUME RInv, Going, Complete, ~HasLine
  PROVE  \A m \in text.nl : Pos < m => inflated < m
<1>1. /\ Types /\ start \in Nat /\ end \in Nat /\ start <= end /\ Buffered \in Nat
      /\ Buffered = end - start /\ inflated \in Nat /\ Pos \in Nat /\ Pos = inflated - Buffered
      /\ text.nl \subseteq 1..text.len
  BY Positions
<1>2. PICK b, s, k, p, x : b = in /\ s = start /\ k = Buffered /\ p = Pos /\ x = memchr(b, s, k)
  OBVIOUS
<1>3. s \in Nat /\ k \in Nat /\ p \in Nat
  BY <1>1, <1>2
<1>4. CASE k = 0
  BY <1>1, <1>2, <1>4
<1>5. CASE k > 0
  <2>1. Finds(x, b, s, k)
    BY <1>2, <1>3, MemChr
  <2>2. ASSUME NEW i \in s..(s + k - 1) PROVE b[i] = p + 1 + (i - s)
    <3>1. i \in start..(end - 1) /\ i \in Nat
      BY <1>1, <1>2, <1>3
    <3>2. in[i] = inflated - (end - 1 - i)
      BY <3>1 DEF RInv, BufferKeepsText, Going
    <3> QED
      BY <1>1, <1>2, <3>1, <3>2
  <2>3. \A m \in text.nl : p < m => p + (x - s) < m
    BY <1>1, <1>3, <2>1, <2>2, FoundInText
  <2>4. x \in Nat /\ ~(x < end)
    BY <1>2, <1>5, <2>1 DEF HasLine, Finds
  <2>5. p + (x - s) >= inflated
    BY <1>1, <1>2, <2>4
  <2>6. ASSUME NEW m \in text.nl, p < m PROVE inflated < m
    <3>1. m \in Int /\ p + (x - s) < m
      BY <1>1, <2>3, <2>6
    <3> QED
      BY <1>1, <1>3, <2>4, <2>5, <3>1
  <2> QED
    BY <1>2, <2>6
<1> QED
  BY <1>1, <1>2, <1>4, <1>5

\* zlib keeps text back only at the end of the file.
LEMMA Fetched ==
  ASSUME FitBlocks, Types, NEW n \in 0..IN_BUF_SIZE, Fill(n), inflated' = inflated + n,
         feof \/ block > 0 => inflated + block = text.len
  PROVE  /\ feof' \/ block' > 0 => inflated' + block' = text.len
         /\ inflated + n = text.len \/ Longest <= n
<1>1. /\ inflated \in Nat /\ text.len \in Nat /\ IN_BUF_SIZE \in Nat \ {0}
      /\ Longest \in Nat \ {0}
  BY Sizes, ZutilReadAssumption DEF Types
<1>3. PICK got \in {block} \cup Blocks \cup {text.len - inflated - block},
           atEnd \in BOOLEAN :
             /\ Refill(got, atEnd) /\ n = Lesser(got, IN_BUF_SIZE)
             /\ block' = got - n /\ feof' = atEnd
  BY DEF Fill
<1>4. block \in Nat /\ inflated + block <= text.len
  BY <1>1 DEF Types
<1>6. /\ got \in Nat /\ inflated + got <= text.len
      /\ inflated + got = text.len \/ (got \in Blocks /\ ~atEnd)
  <2>1. CASE block > 0
    <3>1. got = block
      BY <1>3, <2>1 DEF Refill
    <3>2. inflated + block = text.len
      BY <2>1
    <3>3. inflated + got = text.len /\ got \in Nat
      BY <1>4, <3>1, <3>2
    <3> QED
      BY <1>1, <3>3
  <2>2. CASE ~(block > 0)
    <3>1. \/ got \in Blocks /\ got < text.len - inflated - block /\ ~atEnd
          \/ got = text.len - inflated - block
      BY <1>3, <2>2 DEF Refill
    <3>2. CASE got \in Blocks /\ got < text.len - inflated - block /\ ~atEnd
      <4>1. got \in Nat
        BY <3>2, ZutilReadAssumption
      <4> QED
        BY <1>1, <1>4, <2>2, <3>2, <4>1
    <3>3. CASE got = text.len - inflated - block
      <4>1. inflated + got = text.len /\ got \in Nat /\ inflated + got <= text.len
        BY <1>1, <1>4, <2>2, <3>3
      <4> QED
        BY <4>1
    <3> QED
      BY <3>1, <3>2, <3>3
  <2> QED
    BY <2>1, <2>2
<1>7. got \in Blocks => Longest <= got /\ got <= IN_BUF_SIZE
  BY <1>1 DEF FitBlocks
<1>8. n \in Nat /\ (n = got \/ (n = IN_BUF_SIZE /\ IN_BUF_SIZE < got))
  BY <1>1, <1>3, <1>6 DEF Lesser
<1>9. feof' \/ block' > 0 => inflated' + block' = text.len
  <2>1. CASE inflated + got = text.len
    <3>1. inflated' = inflated + n /\ block' = got - n
      BY <1>3
    <3>2. inflated + n + (got - n) = text.len
      BY <1>1, <1>6, <1>8, <2>1
    <3> QED
      BY <1>1, <1>6, <1>8, <2>1, <3>1, <3>2
  <2>2. CASE got \in Blocks /\ ~atEnd
    <3>1. n = got
      BY <1>1, <1>6, <1>7, <1>8, <2>2
    <3>2. ~feof' /\ block' = 0
      BY <1>3, <1>6, <2>2, <3>1
    <3> QED
      BY <3>2
  <2> QED
    BY <1>6, <2>1, <2>2
<1>10. inflated + n = text.len \/ Longest <= n
  <2>1. CASE n = got
    BY <1>1, <1>6, <1>7, <1>8, <2>1
  <2>2. CASE n = IN_BUF_SIZE
    BY <1>1, <2>2 DEF FitBlocks
  <2> QED
    BY <1>8, <2>1, <2>2
<1> QED
  BY <1>9, <1>10

\* One read brings the end of the line, unless the whole file was returned.
LEMMA ReadsTheLine ==
  ASSUME FitBlocks, RInv, Going, Complete, Lines!Promised, NEW n, Reading(n)
  PROVE  /\ feof' \/ block' > 0 => inflated' + block' = text.len
         /\ \/ n = 0 /\ Pos = text.len
            \/ \E m \in text.nl : Pos < m /\ m <= inflated + n
<1>1. /\ Types /\ Buffered \in Nat /\ inflated \in Nat /\ text.len \in Nat
      /\ inflated <= text.len /\ Pos \in Nat /\ Pos = inflated - Buffered
      /\ Longest \in Nat \ {0} /\ text.nl \subseteq 1..text.len
  BY Positions
<1>2. n \in 0..IN_BUF_SIZE /\ Fill(n) /\ inflated' = inflated + n /\ ~HasLine
  BY DEF Reading
<1>3. feof \/ block > 0 => inflated + block = text.len
  BY DEF Complete, Going
<1>4. /\ feof' \/ block' > 0 => inflated' + block' = text.len
      /\ inflated + n = text.len \/ Longest <= n
  BY <1>1, <1>2, <1>3, Fetched
<1>5. n \in Nat /\ inflated + n <= text.len
  BY <1>1, <1>2, Filling
<1>6. CASE Pos < text.len
  <2>1. PICK m \in text.nl : Pos < m /\ m <= Pos + Longest
    BY <1>6, LineAhead
  <2>2. inflated < m /\ m \in Nat /\ m <= text.len
    BY <1>1, <1>2, <2>1, NoLineBuffered
  <2>3. m <= inflated + n
    BY <1>1, <1>4, <1>5, <2>1, <2>2
  <2> QED
    BY <1>4, <2>1, <2>3
<1>7. CASE ~(Pos < text.len)
  BY <1>1, <1>4, <1>5, <1>7
<1> QED
  BY <1>6, <1>7

\* The string of l bytes at cell cur of buffer c follows byte p of the text.
Shows(c, cur, l, p) ==
  /\ cur + l \in 0..(2 * IN_BUF_SIZE) /\ c[cur + l] = NUL
  /\ \A i \in 0..(l - 1) : c[cur + i] = p + 1 + i

\* A call that returns the bytes up to the next newline does what the
\* interface says.
LEMMA LineIsReturned ==
  ASSUME RInv, Going, Complete, NEW p, p = Pos, NEW e, EndsLine(e, p), text' = text,
         NEW c, c \in Cells, NEW cur \in Nat, result' = Returned(c, cur, e - p - 1),
         Shows(c, cur, e - p - 1, p), start' \in Nat, end' \in Nat, inflated' \in Nat,
         inflated' - (end' - start') = e
  PROVE  Lines!NextLine /\ Pos' = e /\ result'.kind = "line"
<1>1. /\ inflated \in Nat /\ text.len \in Nat /\ p \in Nat /\ Buffered \in Nat
      /\ p = inflated - Buffered /\ text.nl \subseteq 1..text.len /\ IN_BUF_SIZE \in Nat
  BY Positions
<1>2. e \in text.nl /\ e \in Nat /\ p < e /\ e <= text.len /\ \A m \in text.nl : p < m => e <= m
  BY <1>1 DEF EndsLine
<1>3. PICK l : l = e - p - 1
  OBVIOUS
<1>4. /\ l \in Nat /\ c[cur + l] = NUL /\ cur + l \in DOMAIN c
      /\ \A i \in 0..(l - 1) : c[cur + i] = p + 1 + i
  BY <1>1, <1>2, <1>3 DEF Shows, Cells
<1>5. result' = [kind |-> "line", first |-> c[cur], len |-> l]
  <2>1. ASSUME NEW i \in 1..(l - 1) PROVE c[cur + i] = c[cur] + i
    <3>1. i \in 0..(l - 1) /\ 0 \in 0..(l - 1) /\ i \in Nat
      BY <1>4
    <3>2. c[cur + i] = p + 1 + i /\ c[cur + 0] = p + 1 + 0 /\ cur + 0 = cur
      BY <1>4, <3>1
    <3> QED
      BY <1>1, <3>1, <3>2
  <2>2. result' = Returned(c, cur, l)
    BY <1>3
  <2> QED
    BY <1>4, <2>1, <2>2 DEF Returned
<1>6. Unread' = text.len - e /\ Unread = text.len - p
  <2>1. Unread = text.len - inflated + Buffered
    BY DEF Unread, Going
  <2>2. Unread' = text'.len - inflated' + (end' - start')
    BY <1>5 DEF Unread, Buffered
  <2>3. PICK i, d : i = inflated' /\ d = end' - start'
    OBVIOUS
  <2>4. i \in Int /\ d \in Int /\ i - d = e /\ Unread' = text.len - i + d
    BY <2>2, <2>3
  <2> QED
    BY <1>1, <1>2, <2>1, <2>4
<1>7. AbstractResult' = [kind |-> "line", first |-> p + 1, len |-> l]
  <2>1. CASE l = 0
    <3>1. AbstractResult' = [result' EXCEPT !.first = text'.len - Unread']
      BY <1>5, <2>1 DEF AbstractResult
    <3>2. text'.len - Unread' = p + 1
      BY <1>1, <1>2, <1>3, <1>6, <2>1
    <3> QED
      BY <1>5, <3>1, <3>2
  <2>2. CASE l # 0
    <3>1. AbstractResult' = result'
      BY <1>5, <2>2 DEF AbstractResult
    <3>2. c[cur] = p + 1
      <4>1. 0 \in 0..(l - 1) /\ cur + 0 = cur
        BY <1>4, <2>2
      <4>2. c[cur + 0] = p + 1 + 0
        BY <1>4, <4>1
      <4> QED
        BY <1>1, <4>1, <4>2
    <3> QED
      BY <1>5, <3>1, <3>2
  <2> QED
    BY <2>1, <2>2
<1>8. Lines!Next1 = p + 1
  BY <1>1, <1>6 DEF Lines!Next1
<1>9. Lines!LineEnd(p + 1) = e
  <2>1. PICK ahead : ahead = {n \in text.nl : n >= p + 1}
    OBVIOUS
  <2>2. e \in ahead /\ \A m \in ahead : e <= m /\ m \in Nat
    BY <1>1, <1>2, <2>1
  <2>3. Lines!LineEnd(p + 1) = CHOOSE n \in ahead : \A m \in ahead : n <= m
    BY <2>1, <2>2 DEF Lines!LineEnd
  <2>4. \A n \in ahead : (\A m \in ahead : n <= m) => n = e
    BY <1>2, <2>2
  <2> QED
    BY <2>2, <2>3, <2>4
<1>10. Unread > 0 /\ ~(e > text.len)
  BY <1>1, <1>2, <1>6
<1>11. e - (p + 1) = l
  BY <1>1, <1>2, <1>3
<1>12. Lines!NextLine
  <2>1. AbstractResult' = Lines!LineAt(Lines!Next1, Lines!LineEnd(Lines!Next1) - Lines!Next1)
    BY <1>7, <1>8, <1>9, <1>11 DEF Lines!LineAt
  <2>2. Unread' = IF Lines!LineEnd(Lines!Next1) > text.len THEN 0
                  ELSE text.len - Lines!LineEnd(Lines!Next1)
    BY <1>6, <1>8, <1>9, <1>10
  <2> QED
    BY <1>10, <2>1, <2>2 DEF Lines!NextLine
<1>13. Pos' = e
  BY DEF Pos, Buffered
<1> QED
  BY <1>5, <1>12, <1>13

\* The end of the file, once everything was returned.
LEMMA EndIsReturned ==
  ASSUME RInv, Going, Complete, Pos = text.len, text' = text, result' = Nothing("eof")
  PROVE  Lines!EndOfText /\ Complete'
<1>1. /\ inflated \in Nat /\ text.len \in Nat /\ Buffered \in Nat
      /\ Pos = inflated - Buffered
  BY Positions
<1>2. result'.kind = "eof" /\ result' = [kind |-> "eof", first |-> 0, len |-> 0]
  BY DEF Nothing
<1>3. Unread = 0 /\ Unread' = 0
  <2>1. Unread = text.len - inflated + Buffered
    BY DEF Unread, Going
  <2> QED
    BY <1>1, <1>2, <2>1 DEF Unread
<1>4. AbstractResult' = Lines!Eof
  BY <1>2 DEF AbstractResult, Lines!Eof
<1> QED
  BY <1>2, <1>3, <1>4 DEF Lines!EndOfText, Complete

\* What a call of zread_line does on a file of complete lines.
AsPromised == (Lines!NextLine \/ Lines!EndOfText) /\ Complete'

LEMMA LineAsPromised ==
  ASSUME RInv, Going, Complete, NEW p, p = Pos, NEW e, EndsLine(e, p), text' = text,
         NEW c, c \in Cells, NEW cur \in Nat, NEW l, l = e - p - 1,
         result' = Returned(c, cur, l), Shows(c, cur, l, p),
         start' \in Nat, end' \in Nat, inflated' \in Nat, inflated' - (end' - start') = e,
         feof' \/ block' > 0 => inflated' + block' = text.len
  PROVE  AsPromised
<1>1. Lines!NextLine /\ Pos' = e /\ result'.kind = "line"
  BY LineIsReturned
<1>2. e \in text.nl
  BY DEF EndsLine
<1>3. Complete'
  BY <1>1, <1>2 DEF Complete
<1> QED
  BY <1>1, <1>3 DEF AsPromised

LEMMA FromBufferPromised ==
  ASSUME RInv, Going, Complete, FromBuffer
  PROVE  AsPromised
<1>1. /\ Types /\ start \in Nat /\ end \in Nat /\ start <= end /\ Buffered \in Nat
      /\ Buffered = end - start /\ inflated \in Nat /\ Pos \in Nat /\ Pos = inflated - Buffered
      /\ end <= 2 * IN_BUF_SIZE /\ IN_BUF_SIZE \in Nat /\ in \in Cells
  BY Positions DEF Types
<1>2. PICK b, s, k, p, f, next : /\ b = in /\ s = start /\ k = Buffered /\ p = Pos
                                 /\ f = end /\ next = memchr(in, start, Buffered)
  OBVIOUS
<1>3. /\ next < f /\ in' = [b EXCEPT ![next] = NUL] /\ start' = next + 1
      /\ result' = Returned(in', s, next - s)
      /\ UNCHANGED <<text, end, swapped, input, feof, block, inflated>>
  <2>1. /\ in' = [in EXCEPT ![next] = NUL] /\ result' = Returned([in EXCEPT ![next] = NUL], start, next - start)
        /\ start' = next + 1 /\ next < end
        /\ UNCHANGED <<text, end, swapped, input, feof, block, inflated>>
    BY <1>2 DEF FromBuffer, HasLine
  <2> QED
    BY <1>2, <2>1
<1>4. /\ s \in Nat /\ k \in Nat /\ p \in Nat /\ f \in Nat /\ s + k = f /\ p + k = inflated
  BY <1>1, <1>2
<1>5. Finds(next, b, s, k)
  BY <1>2, <1>4, MemChr
<1>6. next \in Nat /\ s <= next
  BY <1>5 DEF Finds
<1>7. ASSUME NEW i \in s..(s + k - 1) PROVE b[i] = p + 1 + (i - s)
  <2>1. i \in start..(end - 1) /\ i \in Nat
    BY <1>2, <1>4
  <2>2. in[i] = inflated - (end - 1 - i)
    BY <2>1 DEF RInv, BufferKeepsText, Going
  <2> QED
    BY <1>1, <1>2, <1>4, <2>1, <2>2
<1>8. PICK e, l : e = p + 1 + (next - s) /\ l = next - s
  OBVIOUS
<1>9. EndsLine(e, p)
  <2>1. /\ next < s + k => p + 1 + (next - s) \in text.nl
        /\ \A m \in text.nl : p < m => p + (next - s) < m
    BY <1>1, <1>4, <1>5, <1>7, FoundInText
  <2>2. ASSUME NEW m \in text.nl, p < m PROVE e <= m
    <3>1. m \in Int /\ p + (next - s) < m
      BY <1>1, <2>1, <2>2, Sizes
    <3> QED
      BY <1>4, <1>6, <1>8, <3>1
  <2> QED
    BY <1>3, <1>4, <1>6, <1>8, <2>1, <2>2 DEF EndsLine
<1>10. PICK c : c = in'
  OBVIOUS
<1>11. Terminated(c, b, next)
  <2>1. next \in 0..(2 * IN_BUF_SIZE)
    BY <1>1, <1>2, <1>3, <1>6
  <2> QED
    BY <1>1, <1>2, <1>3, <1>10, <2>1, Ended
<1>12. Shows(c, s, l, p)
  <2>1. s + l = next /\ next \in 0..(2 * IN_BUF_SIZE)
    BY <1>1, <1>2, <1>3, <1>4, <1>6, <1>8
  <2>2. ASSUME NEW i \in 0..(l - 1) PROVE c[s + i] = p + 1 + i
    <3>1. PICK j : j = s + i
      OBVIOUS
    <3>2. /\ j \in s..(s + k - 1) /\ j \in 0..(2 * IN_BUF_SIZE) /\ j # next /\ j - s = i
      BY <1>1, <1>2, <1>3, <1>4, <1>6, <1>8, <3>1
    <3> QED
      BY <1>7, <1>11, <3>1, <3>2 DEF Terminated
  <2> QED
    BY <1>11, <2>1, <2>2 DEF Shows, Terminated
<1>13. l = e - p - 1 /\ inflated' - (end' - start') = e
  BY <1>1, <1>2, <1>3, <1>4, <1>6, <1>8
<1>14. /\ start' \in Nat /\ end' \in Nat /\ inflated' \in Nat /\ text' = text /\ c \in Cells
  BY <1>1, <1>3, <1>6, <1>11 DEF Terminated
<1>15. feof' \/ block' > 0 => inflated' + block' = text.len
  <2>1. feof \/ block > 0 => inflated + block = text.len
    BY DEF Complete, Going
  <2> QED
    BY <1>3, <2>1
<1>16. result' = Returned(c, s, l)
  BY <1>3, <1>8, <1>10
<1> QED
  BY <1>2, <1>4, <1>9, <1>12, <1>13, <1>14, <1>15, <1>16, LineAsPromised

LEMMA NoMorePromised ==
  ASSUME RInv, Going, Complete, Lines!Promised, NoMore
  PROVE  AsPromised
<1>1. /\ ~HasLine /\ AtEof /\ result' = Nothing("eof") /\ text' = text
  BY DEF NoMore
<1>2. /\ inflated \in Nat /\ text.len \in Nat /\ Pos \in Nat /\ Pos = inflated - Buffered
      /\ inflated <= text.len /\ Buffered \in Nat /\ text.nl \subseteq 1..text.len
  BY Positions
<1>3. inflated = text.len
  <2>1. feof /\ block = 0
    BY <1>1 DEF AtEof
  <2>2. inflated + block = text.len
    BY <2>1 DEF Complete, Going
  <2> QED
    BY <1>2, <2>1, <2>2
<1>4. Pos = text.len
  <2>1. SUFFICES ASSUME Pos < text.len PROVE FALSE
    BY <1>2, <1>3
  <2>2. PICK m \in text.nl : Pos < m
    BY <2>1, LineAhead
  <2>3. inflated < m
    BY <1>1, <2>2, NoLineBuffered
  <2> QED
    BY <1>2, <1>3, <2>3
<1> QED
  BY <1>1, <1>4, EndIsReturned DEF AsPromised

LEMMA SecondHalfPromised ==
  ASSUME FitBlocks, RInv, Going, Complete, Lines!Promised,
         NEW n, Reading(n), ~swapped, FromSecondHalf(n)
  PROVE  AsPromised
<1>1. PICK b, cur, last, next : SecondHalfSearch(n, b, cur, last, next)
  BY SecondHalfSearched
<1>2. /\ Types /\ Buffered \in Nat /\ inflated \in Nat /\ text.len \in Nat
      /\ inflated <= text.len /\ text.nl \subseteq 1..text.len
      /\ Pos \in Nat /\ Pos = inflated - Buffered /\ IN_BUF_SIZE \in Nat \ {0}
  BY Positions
<1>3. n \in 0..IN_BUF_SIZE /\ n \in Nat /\ inflated' = inflated + n /\ text' = text
  BY <1>2 DEF Reading
<1>4. PICK p, k, sz : p = Pos /\ k = Buffered /\ sz = last - cur
  OBVIOUS
<1>5. /\ b \in Cells /\ cur \in 0..IN_BUF_SIZE /\ cur = IN_BUF_SIZE - k
      /\ last = IN_BUF_SIZE + n /\ Finds(next, b, cur, sz) /\ end' = last
      /\ \A i \in cur..(last - 1) : b[i] = inflated + 1 + (i - IN_BUF_SIZE)
  BY <1>1, <1>4 DEF SecondHalfSearch
<1>6. /\ cur \in Nat /\ sz \in Nat /\ last \in Nat /\ cur + sz = last /\ p \in Nat /\ k \in Nat
      /\ last <= 2 * IN_BUF_SIZE /\ p + sz = inflated + n /\ p + k = inflated
  BY <1>2, <1>3, <1>4, <1>5
<1>7. ASSUME NEW i \in cur..(cur + sz - 1) PROVE b[i] = p + 1 + (i - cur)
  <2>1. i \in cur..(last - 1) /\ i \in Int
    BY <1>6
  <2>2. b[i] = inflated + 1 + (i - IN_BUF_SIZE)
    BY <1>5, <2>1
  <2> QED
    BY <1>2, <1>5, <1>6, <2>1, <2>2
<1>8. /\ next < cur + sz => p + 1 + (next - cur) \in text.nl
      /\ \A m \in text.nl : p < m => p + (next - cur) < m
  <2>1. Types /\ Finds(next, b, cur, sz) /\ cur \in Nat /\ sz \in Nat /\ p \in Nat
    BY <1>2, <1>5, <1>6
  <2>2. \A i \in cur..(cur + sz - 1) : b[i] = p + 1 + (i - cur)
    BY <1>7
  <2> QED
    BY <2>1, <2>2, FoundInText
<1>9. next \in Nat /\ cur <= next
  BY <1>5 DEF Finds
<1>10. /\ feof' \/ block' > 0 => inflated' + block' = text.len
       /\ \/ n = 0 /\ p = text.len
          \/ \E m \in text.nl : p < m /\ m <= inflated + n
  BY <1>4, ReadsTheLine
<1>11. CASE /\ next < last /\ in' = [b EXCEPT ![next] = NUL]
            /\ result' = Returned(in', cur, next - cur) /\ start' = next + 1
  <2>1. PICK e, l, c : e = p + 1 + (next - cur) /\ l = next - cur /\ c = in'
    OBVIOUS
  <2>2. EndsLine(e, p)
    <3>1. ASSUME NEW m \in text.nl, p < m PROVE e <= m
      <4>1. m \in Int /\ p + (next - cur) < m
        BY <1>2, <1>8, <3>1
      <4> QED
        BY <1>6, <1>9, <2>1, <4>1
    <3> QED
      BY <1>6, <1>8, <1>9, <1>11, <2>1, <3>1 DEF EndsLine
  <2>3. Terminated(c, b, next)
    <3>1. next \in 0..(2 * IN_BUF_SIZE)
      BY <1>2, <1>6, <1>9, <1>11
    <3> QED
      BY <1>5, <1>11, <2>1, <3>1, Ended
  <2>4. Shows(c, cur, l, p)
    <3>1. cur + l = next /\ next \in 0..(2 * IN_BUF_SIZE)
      BY <1>2, <1>6, <1>9, <1>11, <2>1
    <3>2. ASSUME NEW i \in 0..(l - 1) PROVE c[cur + i] = p + 1 + i
      <4>1. PICK j : j = cur + i
        OBVIOUS
      <4>2. /\ j \in cur..(cur + sz - 1) /\ j \in 0..(2 * IN_BUF_SIZE) /\ j # next
            /\ j - cur = i
        BY <1>2, <1>6, <1>9, <1>11, <2>1, <4>1
      <4> QED
        BY <1>7, <2>3, <4>1, <4>2 DEF Terminated
    <3> QED
      BY <2>3, <3>1, <3>2 DEF Shows, Terminated
  <2>5. /\ l = e - p - 1 /\ inflated' - (end' - start') = e
        /\ start' \in Nat /\ end' \in Nat /\ inflated' \in Nat
    BY <1>2, <1>3, <1>5, <1>6, <1>9, <1>11, <2>1
  <2>6. c \in Cells /\ result' = Returned(c, cur, l)
    BY <1>11, <2>1, <2>3 DEF Terminated
  <2> QED
    BY <1>3, <1>4, <1>6, <1>10, <2>2, <2>4, <2>5, <2>6, LineAsPromised
<1>12. CASE cur = last /\ result' = Nothing("eof")
  <2>1. n = 0 /\ k = 0
    BY <1>2, <1>3, <1>5, <1>6, <1>12
  <2>2. p = text.len
    <3>1. SUFFICES ASSUME NEW m \in text.nl, p < m, m <= inflated + n PROVE FALSE
      BY <1>10
    <3> QED
      BY <1>2, <1>6, <2>1, <3>1
  <2> QED
    BY <1>3, <1>4, <1>12, <2>2, EndIsReturned DEF AsPromised
<1>13. CASE next = last /\ (cur < last \/ n = IN_BUF_SIZE)
  <2>1. ~(n = 0 /\ p = text.len)
    BY <1>2, <1>3, <1>5, <1>6, <1>13
  <2>2. PICK m \in text.nl : p < m /\ m <= inflated + n
    BY <1>10, <2>1
  <2>3. p + (next - cur) < m /\ m \in Int
    BY <1>2, <1>8, <2>2
  <2>4. FALSE
    BY <1>2, <1>3, <1>6, <1>13, <2>2, <2>3
  <2> QED
    BY <2>4
<1>14. \/ /\ next < last /\ in' = [b EXCEPT ![next] = NUL]
          /\ result' = Returned(in', cur, next - cur) /\ start' = next + 1
       \/ cur = last /\ result' = Nothing("eof")
       \/ next = last /\ (cur < last \/ n = IN_BUF_SIZE)
  BY <1>1 DEF SecondHalfSearch
<1> QED
  BY <1>11, <1>12, <1>13, <1>14

LEMMA FirstHalfPromised ==
  ASSUME FitBlocks, RInv, Going, Complete, Lines!Promised,
         NEW n, Reading(n), swapped, FromFirstHalf(n)
  PROVE  AsPromised
<1>1. PICK f, next, k, p : f = Filled(n) /\ next = memchr(f, 0, n) /\ k = Buffered /\ p = Pos
  OBVIOUS
<1>2. /\ Types /\ n \in 0..IN_BUF_SIZE /\ n \in Nat /\ inflated' = inflated + n
      /\ inflated + n <= text.len
      /\ IN_BUF_SIZE \in Nat \ {0} /\ start \in Nat /\ end \in Nat /\ inflated \in Nat
      /\ start <= end /\ end <= 2 * IN_BUF_SIZE /\ k \in Nat /\ k = end - start
      /\ f \in Cells
      /\ \A i \in 0..(2 * IN_BUF_SIZE) : f[i] = IF i < n THEN inflated + 1 + i ELSE in[i]
  BY <1>1, FirstHalfFilled
<1>3. /\ p \in Nat /\ p + k = inflated /\ text.len \in Nat /\ text.nl \subseteq 1..text.len
      /\ Longest \in Nat
  BY <1>1, <1>2, Positions
<1>4. text' = text /\ ~HasLine
  BY DEF Reading
<1>5. PICK b : b = [f EXCEPT ![next] = NUL]
  OBVIOUS
<1>6. /\ next < n
      /\ \/ k > 0 /\ k + next >= IN_BUF_SIZE
         \/ /\ k > 0 /\ k + next < IN_BUF_SIZE
            /\ in' = Joined(b, next) /\ result' = Returned(in', IN_BUF_SIZE, k + next)
            /\ start' = next + 1 /\ end' = n
         \/ /\ k = 0 /\ result' = Returned(b, 0, next)
            /\ start' = next + 1 /\ end' = n
  BY <1>1, <1>5 DEF FromFirstHalf
<1>7. Finds(next, f, 0, n)
  BY <1>1, <1>2, MemChr
<1>8. next \in Nat
  BY <1>7 DEF Finds
<1>9. Terminated(b, f, next)
  <2>1. next \in 0..(2 * IN_BUF_SIZE)
    BY <1>2, <1>6, <1>8
  <2> QED
    BY <1>2, <1>5, <2>1, Ended
<1>10. PICK e, l : e = inflated + 1 + next /\ l = k + next
  OBVIOUS
<1>11. EndsLine(e, p)
  <2>1. ASSUME NEW i \in 0..(0 + n - 1) PROVE f[i] = inflated + 1 + (i - 0)
    <3>1. i \in 0..(2 * IN_BUF_SIZE) /\ i \in Nat /\ i < n
      BY <1>2
    <3> QED
      BY <1>2, <3>1
  <2>2. PICK g : g = inflated
    OBVIOUS
  <2>3. /\ next < 0 + n => g + 1 + (next - 0) \in text.nl
        /\ \A m \in text.nl : g < m => g + (next - 0) < m
    BY <1>2, <1>7, <2>1, <2>2, FoundInText
  <2>4. ASSUME NEW m \in text.nl, p < m PROVE e <= m
    <3>1. g < m /\ m \in Int
      BY <1>1, <1>3, <1>4, <2>2, <2>4, NoLineBuffered
    <3> QED
      BY <1>2, <1>8, <1>10, <2>2, <2>3, <3>1
  <2>5. e \in text.nl
    BY <1>2, <1>6, <1>8, <1>10, <2>2, <2>3
  <2> QED
    BY <1>2, <1>3, <1>8, <1>10, <2>4, <2>5 DEF EndsLine
<1>12. l = e - p - 1 /\ l \in Nat /\ l < IN_BUF_SIZE
  <2>1. e \in Nat /\ p < e /\ e <= text.len /\ \A m \in text.nl : p < m => e <= m
    BY <1>2, <1>3, <1>11 DEF EndsLine
  <2>2. PICK m \in text.nl : p < m /\ m <= p + Longest
    <3>1. Pos < text.len
      BY <1>1, <1>3, <2>1
    <3> QED
      BY <1>1, <3>1, LineAhead
  <2>3. m \in Nat /\ e <= m
    BY <1>3, <2>1, <2>2
  <2>4. Longest <= IN_BUF_SIZE
    BY DEF FitBlocks
  <2> QED
    BY <1>2, <1>3, <1>8, <1>10, <2>1, <2>2, <2>3, <2>4
<1>13. feof' \/ block' > 0 => inflated' + block' = text.len
  BY ReadsTheLine
<1>14. ASSUME start' = next + 1, end' = n
       PROVE  /\ inflated' - (end' - start') = e
              /\ start' \in Nat /\ end' \in Nat /\ inflated' \in Nat
  BY <1>2, <1>8, <1>10, <1>14
<1>15. ASSUME NEW i \in 0..(next - 1) PROVE b[i] = inflated + 1 + i
  <2>1. i \in 0..(2 * IN_BUF_SIZE) /\ i \in Nat /\ i < n /\ i # next
    BY <1>2, <1>6, <1>8
  <2> QED
    BY <1>2, <1>9, <2>1 DEF Terminated
<1>16. CASE /\ k > 0 /\ k + next < IN_BUF_SIZE
            /\ in' = Joined(b, next) /\ result' = Returned(in', IN_BUF_SIZE, k + next)
            /\ start' = next + 1 /\ end' = n
  <2>1. PICK c, s : c = in' /\ s = start
    OBVIOUS
  <2>2. /\ c \in Cells /\ c[IN_BUF_SIZE + k + next] = NUL
        /\ \A i \in 0..(k - 1) : c[IN_BUF_SIZE + i] = b[s + i]
        /\ \A i \in 0..(next - 1) : c[IN_BUF_SIZE + k + i] = b[i]
    <3>1. b \in Cells /\ c = Joined(b, next) /\ k = Buffered
      BY <1>1, <1>9, <1>16, <2>1 DEF Terminated
    <3>2. Types /\ k \in Nat /\ start <= end /\ next \in Nat /\ k + next < IN_BUF_SIZE
      BY <1>2, <1>8, <1>16
    <3>3. /\ c \in Cells /\ c[IN_BUF_SIZE + k + next] = NUL
          /\ \A i \in 0..(k - 1) : c[IN_BUF_SIZE + i] = b[start + i]
          /\ \A i \in 0..(next - 1) : c[IN_BUF_SIZE + k + i] = b[i]
      BY <3>1, <3>2, JoinedCells
    <3> QED
      BY <2>1, <3>3
  <2>3. ASSUME NEW i \in 0..(k - 1) PROVE c[IN_BUF_SIZE + i] = p + 1 + i
    <3>1. start > IN_BUF_SIZE
      BY <1>2, <1>16 DEF RInv, Halves, Going
    <3>2. PICK j : j = s + i
      OBVIOUS
    <3>3. /\ j \in start..(end - 1) /\ j \in 0..(2 * IN_BUF_SIZE) /\ ~(j < n) /\ j # next
          /\ i \in Nat
      BY <1>2, <1>6, <1>8, <2>1, <3>1, <3>2
    <3>4. in[j] = inflated - (end - 1 - j)
      BY <3>3 DEF RInv, BufferKeepsText, Going
    <3>5. b[j] = in[j]
      BY <1>2, <1>9, <3>3 DEF Terminated
    <3>6. c[IN_BUF_SIZE + i] = b[j]
      BY <2>2, <3>2
    <3> QED
      BY <1>2, <1>3, <2>1, <3>2, <3>3, <3>4, <3>5, <3>6
  <2>4. Shows(c, IN_BUF_SIZE, l, p)
    <3>1. IN_BUF_SIZE + l \in 0..(2 * IN_BUF_SIZE) /\ IN_BUF_SIZE + l = IN_BUF_SIZE + k + next
      BY <1>2, <1>8, <1>10, <1>12
    <3>2. ASSUME NEW i \in 0..(l - 1) PROVE c[IN_BUF_SIZE + i] = p + 1 + i
      <4>1. CASE i < k
        BY <1>2, <2>3, <4>1
      <4>2. CASE ~(i < k)
        <5>1. PICK j : j = i - k
          OBVIOUS
        <5>2. j \in 0..(next - 1) /\ IN_BUF_SIZE + k + j = IN_BUF_SIZE + i /\ k + j = i
          BY <1>2, <1>8, <1>10, <4>2, <5>1
        <5>3. c[IN_BUF_SIZE + i] = inflated + 1 + j
          BY <1>15, <2>2, <5>2
        <5> QED
          BY <1>2, <1>3, <5>2, <5>3
      <4> QED
        BY <4>1, <4>2
    <3> QED
      BY <2>2, <3>1, <3>2 DEF Shows
  <2>5. result' = Returned(c, IN_BUF_SIZE, l) /\ IN_BUF_SIZE \in Nat
    BY <1>2, <1>10, <1>16, <2>1
  <2> QED
    BY <1>1, <1>4, <1>11, <1>12, <1>13, <1>14, <1>16, <2>2, <2>4, <2>5, LineAsPromised
<1>17. CASE k = 0 /\ result' = Returned(b, 0, next) /\ start' = next + 1 /\ end' = n
  <2>1. l = next /\ p = inflated
    BY <1>2, <1>3, <1>8, <1>10, <1>17
  <2>2. Shows(b, 0, l, p)
    <3>1. 0 + l \in 0..(2 * IN_BUF_SIZE) /\ 0 + l = next
      BY <1>2, <1>12, <2>1
    <3>2. ASSUME NEW i \in 0..(l - 1) PROVE b[0 + i] = p + 1 + i
      <4>1. 0 + i = i /\ i \in 0..(next - 1)
        BY <2>1
      <4> QED
        BY <1>15, <2>1, <4>1
    <3> QED
      BY <1>9, <3>1, <3>2 DEF Shows, Terminated
  <2>3. b \in Cells /\ result' = Returned(b, 0, l) /\ 0 \in Nat
    BY <1>9, <1>17, <2>1 DEF Terminated
  <2> QED
    BY <1>1, <1>4, <1>11, <1>12, <1>13, <1>14, <1>17, <2>2, <2>3, LineAsPromised
<1>18. ~(k + next >= IN_BUF_SIZE)
  BY <1>2, <1>8, <1>10, <1>12
<1> QED
  BY <1>6, <1>16, <1>17, <1>18

LEMMA LastPromised ==
  ASSUME FitBlocks, RInv, Going, Complete, Lines!Promised,
         NEW n, Reading(n), swapped, LastOfFirstHalf(n)
  PROVE  AsPromised
<1>1. PICK f, g, k, p : f = Filled(n) /\ g = inflated /\ k = Buffered /\ p = Pos
  OBVIOUS
<1>2. /\ Types /\ n \in 0..IN_BUF_SIZE /\ n \in Nat /\ g \in Nat
      /\ IN_BUF_SIZE \in Nat \ {0} /\ k \in Nat
      /\ f \in Cells
      /\ \A i \in 0..(2 * IN_BUF_SIZE) : f[i] = IF i < n THEN inflated + 1 + i ELSE in[i]
  BY <1>1, FirstHalfFilled
<1>3. /\ p \in Nat /\ p + k = g /\ text.nl \subseteq 1..text.len /\ g <= text.len
      /\ text.len \in Nat
  BY <1>1, <1>2, Positions
<1>4. text' = text /\ ~HasLine
  BY DEF Reading
<1>5. /\ memchr(f, 0, n) = n
      /\ \/ n = 0 /\ k > 0
         \/ n = 0 /\ k = 0 /\ result' = Nothing("eof")
         \/ n \in 1..(IN_BUF_SIZE - 1)
         \/ n = IN_BUF_SIZE
  BY <1>1 DEF LastOfFirstHalf
<1>6. ASSUME NEW m \in text.nl, p < m, m <= g + n PROVE FALSE
  <2>1. Finds(n, f, 0, n)
    BY <1>2, <1>5, MemChr
  <2>2. ASSUME NEW i \in 0..(0 + n - 1) PROVE f[i] = g + 1 + (i - 0)
    <3>1. i \in 0..(2 * IN_BUF_SIZE) /\ i \in Nat /\ i < n
      BY <1>2
    <3> QED
      BY <1>1, <1>2, <3>1
  <2>3. g < m => g + (n - 0) < m
    BY <1>2, <2>1, <2>2, FoundInText
  <2>4. g < m
    BY <1>1, <1>4, <1>6, NoLineBuffered
  <2> QED
    BY <1>2, <1>3, <1>6, <2>3, <2>4
<1>7. n = 0 /\ p = text.len
  BY <1>1, <1>6, ReadsTheLine
<1>8. result' = Nothing("eof")
  BY <1>2, <1>3, <1>5, <1>7
<1> QED
  BY <1>1, <1>4, <1>7, <1>8, EndIsReturned DEF AsPromised

LEMMA InitReadPromised ==
  ASSUME FitBlocks, ZInv, Complete, zinit_read
  PROVE  UNCHANGED <<text, Unread, AbstractResult>> /\ Complete'
<1>1. PICK n \in 0..IN_BUF_SIZE : Fill(n) /\ end' = n /\ inflated' = n
  BY DEF zinit_read
<1>2. /\ result.kind = "closed" /\ start' = 0 /\ result' = Nothing("none") /\ text' = text
  BY DEF zinit_read
<1>3. /\ Types /\ inflated = 0 /\ start = 0 /\ end = 0 /\ n \in Nat /\ text.len \in Nat
      /\ block \in Nat /\ inflated + block <= text.len
  BY <1>1, <1>2, Sizes, Filling DEF ZInv, RInv, Unopened, Types
<1>4. result'.kind = "none" /\ result' = [kind |-> "none", first |-> 0, len |-> 0]
  BY <1>2 DEF Nothing
<1>5. Unread = text.len /\ Unread' = text.len
  <2>1. Unread = text.len - inflated + (end - start)
    BY <1>2 DEF Unread, Buffered
  <2>2. Unread' = text'.len - inflated' + (end' - start')
    BY <1>4 DEF Unread, Buffered
  <2>3. text.len - 0 + (0 - 0) = text.len /\ text.len - n + (n - 0) = text.len
    BY <1>3
  <2> QED
    BY <1>1, <1>2, <1>3, <2>1, <2>2, <2>3
<1>6. AbstractResult' = AbstractResult
  BY <1>2, <1>4 DEF AbstractResult
<1>7. Pos' = 0
  <2>1. Pos' = inflated' - (end' - start')
    BY DEF Pos, Buffered
  <2> QED
    BY <1>1, <1>2, <1>3, <2>1
<1>8. feof' \/ block' > 0 => inflated' + block' = text.len
  <2>1. feof \/ block > 0 => inflated + block = text.len
    BY <1>2 DEF Complete
  <2>2. inflated' = inflated + n
    BY <1>1, <1>3
  <2> QED
    BY <1>1, <1>3, <2>1, <2>2, Fetched
<1> QED
  BY <1>2, <1>4, <1>5, <1>6, <1>7, <1>8 DEF Complete

LEMMA InitPromised == Init => Lines!Init /\ Complete
<1> SUFFICES ASSUME Init PROVE Lines!Init /\ Complete
  OBVIOUS
<1>1. /\ start = 0 /\ end = 0 /\ ~feof /\ block = 0 /\ inflated = 0
      /\ result = Nothing("closed") /\ result.kind = "closed" /\ text \in Texts
  BY Results DEF Init
<1>2. text.len \in Nat /\ 0 - (0 - 0) = 0 /\ text.len - 0 + (0 - 0) = text.len /\ ~(0 > 0)
  BY <1>1, ZutilReadAssumption
<1>3. Unread = text.len /\ Pos = 0
  BY <1>1, <1>2 DEF Unread, Pos, Buffered
<1>4. AbstractResult = [kind |-> "none", first |-> 0, len |-> 0]
  BY <1>1 DEF AbstractResult, Nothing
<1> QED
  BY <1>1, <1>2, <1>3, <1>4 DEF Lines!Init, Complete

\* Every step is one of the interface, for a file of complete lines.
LEMMA StepPromised ==
  ASSUME FitBlocks, ZInv, Complete, Lines!Promised, [Next]_vars
  PROVE  [Lines!Next]_<<text, Unread, AbstractResult>> /\ Complete'
<1>1. CASE zinit_read
  BY <1>1, InitReadPromised
<1>2. CASE zread_line
  <2>1. Going /\ (FromBuffer \/ NoMore \/ FromFile) /\ RInv
    BY <1>2 DEF zread_line, Going, ZInv
  <2>2. AsPromised
    <3>1. CASE FromFile
      <4>1. PICK n : /\ Reading(n)
                     /\ \/ ~swapped /\ FromSecondHalf(n)
                        \/ swapped /\ (FromFirstHalf(n) \/ LastOfFirstHalf(n))
        BY <2>1, <3>1, FromFileReads DEF RInv
      <4> QED
        BY <2>1, <4>1, SecondHalfPromised, FirstHalfPromised, LastPromised
    <3> QED
      BY <2>1, <3>1, FromBufferPromised, NoMorePromised
  <2> QED
    BY <2>2 DEF AsPromised, Lines!Next
<1>3. CASE UNCHANGED vars
  BY <1>3 DEF vars, Unread, AbstractResult, Buffered, Complete, Pos
<1> QED
  BY <1>1, <1>2, <1>3 DEF Next

LEMMA TextStays == [Next]_vars => text' = text
<1> SUFFICES ASSUME [Next]_vars PROVE text' = text
  OBVIOUS
<1>1. CASE zinit_read
  BY <1>1 DEF zinit_read
<1>2. CASE zread_line
  BY <1>2 DEF zread_line, FromBuffer, NoMore, FromFile
<1> QED
  BY <1>1, <1>2 DEF Next, vars

PInv == Lines!Promised => Complete

\* As long as a block of the file expands to at least one line and at most
\* one half of the buffer, successive calls of zread_line return the lines of
\* a file one by one, in order, whole and '\0'-ended, wherever the two halves
\* of the buffer cut them, and then the end of the file: "Read a new line
\* (ended by '\n' or EOF)" (zutil.h:86-92, zutil.c:129-357).
THEOREM ReaderReadsLines == ASSUME FitBlocks PROVE Spec => ReadsLines
<1>1. Init => Lines!Init /\ PInv
  BY InitPromised DEF PInv
<1>2. ZInv /\ PInv /\ [Next]_vars => PInv' /\ [Lines!Next]_<<text, Unread, AbstractResult>>
  <2> SUFFICES ASSUME ZInv, PInv, [Next]_vars
      PROVE  PInv' /\ [Lines!Next]_<<text, Unread, AbstractResult>>
    OBVIOUS
  <2>1. text' = text
    BY TextStays
  <2>2. Lines!Promised' <=> Lines!Promised
    BY <2>1 DEF Lines!Promised
  <2>3. CASE Lines!Promised
    BY <2>2, <2>3, StepPromised DEF PInv
  <2>4. CASE ~Lines!Promised
    BY <2>1, <2>2, <2>4 DEF PInv, Lines!Next
  <2> QED
    BY <2>3, <2>4
<1> QED
  BY <1>1, <1>2, ReaderCorrect, PTL DEF Spec, ReadsLines, Lines!Spec

=============================================================================
