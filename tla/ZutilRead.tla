----------------------------- MODULE ZutilRead -----------------------------
(***************************************************************************)
(* The line reader of udp-test/zutil.c: zinit_read, zutil_read_input and   *)
(* zread_line.  Decompressed text goes alternately to the two halves of    *)
(* one buffer, and a line that straddles them is put together again.  A    *)
(* cell of the buffer holds the position in the text of the byte it stores *)
(* (0: never written, NUL: a '\0'), so that a wrong copy, a stale byte or  *)
(* a wrong length shows.                                                   *)
(***************************************************************************)
EXTENDS Integers

CONSTANTS
  IN_BUF_SIZE,  \* size of one half of the buffer
  Texts,        \* the decompressed files: records [len, nl], see LineReader
  Blocks,       \* bytes a full INC_BUF_SIZE block of the file may expand to
  Longest       \* length of the longest line, its newline included

ASSUME ZutilReadAssumption ==
  /\ IN_BUF_SIZE \in Nat \ {0}
  /\ Blocks \subseteq Nat \ {0}
  /\ Longest \in Nat \ {0}
  /\ \A t \in Texts : t.len \in Nat /\ t.nl \subseteq 1..t.len

NUL == -1

VARIABLES
  text,     \* the file being read
  in,       \* the buffer
  start,    \* index of the next byte for the client
  end,      \* index after the last byte for the client
  swapped,  \* TRUE: the second half holds the most recent text
  input,    \* the file is open
  feof,     \* feof(input)
  block,    \* bytes of text zlib can still produce without further input
  inflated, \* bytes of text zlib has produced
  result    \* what the last call of zread_line returned

vars == <<text, in, start, end, swapped, input, feof, block, inflated, result>>

Lesser(a, b) == IF a < b THEN a ELSE b

\* The cells from, from+1, ... of buffer b filled with bytes p, p+1, ...
Store(b, from, n, p) ==
  [i \in DOMAIN b |-> IF from <= i /\ i < from + n THEN p + (i - from) ELSE b[i]]
Move(b, to, from, n) ==
  [i \in DOMAIN b |-> IF to <= i /\ i < to + n THEN b[from + (i - to)] ELSE b[i]]

\* memchr(from, '\n', n): the index of the first newline, or from + n.
memchr(b, from, n) ==
  LET found == {i \in from..(from + n - 1) : b[i] \in text.nl} IN
  IF found = {} THEN from + n
  ELSE CHOOSE i \in found : \A j \in found : i <= j

-----------------------------------------------------------------------------
(* zutil_read_input.                                                       *)

\* The text that the next fread may make available to zlib: one block, or
\* the rest of the file; feof is only set once fread came up short.
Refill(got, atEnd) ==
  LET rest == text.len - inflated - block IN
  IF block > 0 THEN got = block /\ atEnd = feof
  ELSE \/ got \in Blocks /\ got < rest /\ ~atEnd
       \/ got = rest /\ (atEnd \/ got \in Blocks)

\* Nothing to read and nothing buffered: EOF, the file is closed.
AtEof == feof /\ block = 0

\* One inflate that returns Z_OK, or the last ones up to Z_STREAM_END: n
\* bytes go to the half that was not in use.
Fill(n) ==
  \E got \in {block} \cup Blocks \cup {text.len - inflated - block},
     atEnd \in BOOLEAN :
    /\ Refill(got, atEnd)
    /\ n = Lesser(got, IN_BUF_SIZE)
    /\ block' = got - n
    /\ feof' = atEnd

\* Mutant of FilledHalf: the halves do not alternate.
FilledSameHalf(sw) == 0

FilledHalf(sw) == IF sw THEN IN_BUF_SIZE ELSE 0
Filled(n) == Store(in, FilledHalf(~swapped), n, inflated + 1)

-----------------------------------------------------------------------------
(* zread_line.                                                             *)

\* The line of len bytes at cell cur of buffer b, as the caller sees it.
Returned(b, cur, len) ==
  [kind |-> IF /\ cur + len \in DOMAIN b
               /\ \A i \in 1..(len - 1) : b[cur + i] = b[cur] + i
               /\ b[cur + len] = NUL
            THEN "line" ELSE "broken",
   first |-> b[cur], len |-> len]
Nothing(k) == [kind |-> k, first |-> 0, len |-> 0]

Buffered == end - start
HasLine == Buffered > 0 /\ memchr(in, start, Buffered) < end

\* Mutant of FromBuffer: the byte after the newline is skipped, too.
FromBufferSkips ==
  /\ HasLine
  /\ LET next == memchr(in, start, Buffered)
         b == [in EXCEPT ![next] = NUL]
     IN  /\ in' = b
         /\ result' = Returned(b, start, next - start)
         /\ start' = next + 2
  /\ UNCHANGED <<text, end, swapped, input, feof, block, inflated>>

\* A full line is already in the buffer.
FromBuffer ==
  /\ HasLine
  /\ LET next == memchr(in, start, Buffered)
         b == [in EXCEPT ![next] = NUL]
     IN  /\ in' = b
         /\ result' = Returned(b, start, next - start)
         /\ start' = next + 1
  /\ UNCHANGED <<text, end, swapped, input, feof, block, inflated>>

\* zutil_read_input meets the end of the file.
NoMore ==
  /\ ~HasLine /\ input /\ AtEof
  /\ input' = FALSE
  /\ result' = Nothing("eof")
  /\ UNCHANGED <<text, in, start, end, swapped, feof, block, inflated>>

\* New text in the second half: what remains in front of it is moved up.
FromSecondHalf(n) ==
  LET cur == IN_BUF_SIZE - Buffered
      f == Filled(n)
      b == IF end # IN_BUF_SIZE THEN Move(f, cur, start, Buffered) ELSE f
      last == IN_BUF_SIZE + n
      next == memchr(b, cur, last - cur)
  IN  /\ end' = last
      /\ \/ /\ next < last
            /\ in' = [b EXCEPT ![next] = NUL]
            /\ result' = Returned(in', cur, next - cur)
            /\ start' = next + 1
         \/ /\ next = last /\ n < IN_BUF_SIZE /\ cur = last
            /\ result' = Nothing("eof")
            /\ in' = b /\ UNCHANGED start
         \/ /\ next = last /\ n < IN_BUF_SIZE /\ cur < last
            /\ in' = [b EXCEPT ![last] = NUL]
            /\ result' = Returned(in', cur, last - start)
            /\ start' = last
         \/ /\ next = last /\ n = IN_BUF_SIZE
            /\ result' = Nothing("toolong")
            /\ in' = b /\ UNCHANGED start

\* Mutant of Joined: the second part overwrites the first one.
JoinedOver(b, n) ==
  LET c == Move(b, IN_BUF_SIZE, start, Buffered)
  IN  [Move(c, IN_BUF_SIZE, 0, n) EXCEPT ![IN_BUF_SIZE + Buffered + n] = NUL]

\* The remains, then the first n bytes of the first half, put together at
\* the start of the second half.
Joined(b, n) ==
  LET c == Move(b, IN_BUF_SIZE, start, Buffered)
  IN  [Move(c, IN_BUF_SIZE + Buffered, 0, n) EXCEPT ![IN_BUF_SIZE + Buffered + n] = NUL]

\* New text in the first half, with a newline in it.
FromFirstHalf(n) ==
  LET f == Filled(n)
      next == memchr(f, 0, n)
      b == [f EXCEPT ![next] = NUL]
      len == Buffered + next
  IN  /\ next < n
      /\ \/ /\ Buffered > 0 /\ len >= IN_BUF_SIZE
            /\ result' = Nothing("toolong")
            /\ in' = b
            /\ UNCHANGED <<start, end>>
         \/ /\ Buffered > 0 /\ len < IN_BUF_SIZE
            /\ in' = Joined(b, next)
            /\ result' = Returned(in', IN_BUF_SIZE, len)
            /\ start' = next + 1 /\ end' = n
         \/ /\ Buffered = 0
            /\ in' = b
            /\ result' = Returned(b, 0, next)
            /\ start' = next + 1 /\ end' = n

\* New text in the first half, and no newline in it.
LastOfFirstHalf(n) ==
  LET f == Filled(n)
      len == Buffered + n
  IN  /\ memchr(f, 0, n) = n
      /\ \/ /\ n = 0 /\ Buffered > 0
            /\ in' = [f EXCEPT ![end] = NUL]
            /\ result' = Returned(in', start, Buffered)
            /\ start' = end /\ UNCHANGED end
         \/ /\ n = 0 /\ Buffered = 0
            /\ result' = Nothing("eof")
            /\ in' = f /\ UNCHANGED <<start, end>>
         \/ /\ n \in 1..(IN_BUF_SIZE - 1) /\ Buffered = 0
            /\ in' = f
            /\ result' = Returned(f, 0, n)
            /\ UNCHANGED <<start, end>>
         \/ /\ n \in 1..(IN_BUF_SIZE - 1) /\ Buffered > 0 /\ len >= IN_BUF_SIZE
            /\ result' = Nothing("toolong")
            /\ in' = f /\ UNCHANGED <<start, end>>
         \/ /\ n \in 1..(IN_BUF_SIZE - 1) /\ Buffered > 0 /\ len < IN_BUF_SIZE
            /\ in' = Joined(f, n)
            /\ result' = Returned(in', IN_BUF_SIZE, len)
            /\ start' = IN_BUF_SIZE /\ end' = IN_BUF_SIZE
         \/ /\ n = IN_BUF_SIZE
            /\ result' = Nothing("toolong")
            /\ in' = f /\ UNCHANGED <<start, end>>

FromFile ==
  /\ ~HasLine /\ input /\ ~AtEof
  /\ \E n \in 0..IN_BUF_SIZE :
       /\ Fill(n)
       /\ inflated' = inflated + n
       /\ \/ ~swapped /\ FromSecondHalf(n)
          \/ swapped /\ (FromFirstHalf(n) \/ LastOfFirstHalf(n))
  /\ swapped' = ~swapped
  /\ UNCHANGED <<text, input>>

\* The client stops at the first result that is not a line: after an EOF the
\* pointers and the length returned are no longer meaningful.
zread_line ==
  /\ result.kind \in {"none", "line", "broken"}
  /\ FromBuffer \/ NoMore \/ FromFile

-----------------------------------------------------------------------------

\* The caller opens the file with zinit_read, which fills the first half.
Init ==
  /\ text \in Texts
  /\ in = [i \in 0..(2 * IN_BUF_SIZE) |-> 0]
  /\ start = 0 /\ end = 0
  /\ swapped = TRUE
  /\ input = FALSE
  /\ feof = FALSE
  /\ block = 0 /\ inflated = 0
  /\ result = Nothing("closed")

zinit_read ==
  /\ result.kind = "closed"
  /\ \E n \in 0..IN_BUF_SIZE :
       /\ Fill(n)
       /\ in' = Filled(n)
       /\ end' = n
       /\ inflated' = n
  /\ input' = TRUE
  /\ swapped' = FALSE
  /\ start' = 0
  /\ result' = Nothing("none")
  /\ UNCHANGED text

Next == zinit_read \/ zread_line

Spec == Init /\ [][Next]_vars

-----------------------------------------------------------------------------
(* Properties.                                                             *)

\* The pointers stay in the buffer and, until the end of the file, in order.
TypeOK ==
  /\ in \in [0..(2 * IN_BUF_SIZE) -> {NUL} \cup 0..text.len]
  /\ {start, end} \subseteq 0..(2 * IN_BUF_SIZE)
  /\ result.kind # "eof" => start <= end
  /\ swapped \in BOOLEAN /\ input \in BOOLEAN /\ feof \in BOOLEAN
  /\ block \in 0..text.len /\ inflated \in 0..text.len
  /\ result.kind \in {"closed", "none", "line", "broken", "eof",
                      "toolong"}

\* Bytes of the text that no call has returned yet.
Unread == IF result.kind = "eof" THEN 0 ELSE text.len - inflated + Buffered

\* A line in an empty place of the buffer has no position: its length says
\* where it lies, right before the newline that ended it.
AbstractResult ==
  CASE result.kind = "closed" -> Nothing("none")
    [] result.kind = "line" /\ result.len = 0 ->
         [result EXCEPT !.first = text.len - Unread]
    [] OTHER -> result

Lines == INSTANCE LineReader WITH unread <- Unread, result <- AbstractResult

\* zread_line returns the lines of the file one by one, whole, in order and
\* '\0'-ended, then the end of the file, as long as a block of the file
\* expands to at least one line and at most one half of the buffer: it
\* implements LineReader (zutil.h:86-92).
ReadsLines == Lines!Spec

\* Every string returned ends where a line of the text ends: "Read a new
\* line (ended by '\n' or EOF)" (zutil.h:87).
EndsAtLineEnd ==
  result.kind \in {"line", "broken"} =>
    text.len - Unread \in text.nl \cup {text.len}

\* The bytes the client has not seen yet are in the buffer, in order: the
\* swap of the halves never overwrites them.
BufferKeepsText ==
  result.kind \notin {"eof", "toolong"} =>
    \A i \in start..(end - 1) : in[i] = inflated - (end - 1 - i)

=============================================================================
