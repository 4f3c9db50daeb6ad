----------------------------- MODULE LineReader -----------------------------
(***************************************************************************)
(* What a caller of zread_line is promised (udp-test/zutil.h): the lines   *)
(* of the decompressed text, one per call, in order and whole, each ended  *)
(* by a newline or by the end of the text; then the end of the file.       *)
(* A text is given by its length and the positions of its newlines.  The   *)
(* promise is for texts of complete lines of at most Longest bytes.        *)
(***************************************************************************)
EXTENDS Integers

CONSTANT Longest  \* length of the longest line, its newline included

VARIABLES
  text,    \* [len, nl]: number of bytes, positions (1..len) of the newlines
  unread,  \* number of bytes not returned yet
  result   \* what the last call returned

Eof == [kind |-> "eof", first |-> 0, len |-> 0]
LineAt(first, len) == [kind |-> "line", first |-> first, len |-> len]

\* The first newline at or after byte b, or the end of the text.
LineEnd(b) ==
  LET ahead == {n \in text.nl : n >= b} IN
  IF ahead = {} THEN text.len + 1
  ELSE CHOOSE n \in ahead : \A m \in ahead : n <= m

Next1 == text.len - unread + 1

Init ==
  /\ unread = text.len
  /\ result = [kind |-> "none", first |-> 0, len |-> 0]

NextLine ==
  /\ unread > 0
  /\ LET end == LineEnd(Next1) IN
     /\ result' = LineAt(Next1, end - Next1)
     /\ unread' = IF end > text.len THEN 0 ELSE text.len - end
  /\ UNCHANGED text

EndOfText ==
  /\ unread = 0
  /\ result' = Eof
  /\ UNCHANGED <<text, unread>>

\* Every line is short enough, and the last one ends with a newline too.
Promised ==
  \A b \in {0} \cup text.nl :
    b = text.len \/ (b + 1 .. b + Longest) \cap text.nl # {}

Next ==
  \/ Promised /\ (NextLine \/ EndOfText)
  \/ ~Promised /\ UNCHANGED text

Spec == Init /\ [][Next]_<<text, unread, result>>

=============================================================================
