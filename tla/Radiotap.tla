------------------------------ MODULE Radiotap ------------------------------
(***************************************************************************)
(* The walk over the radiotap header that a monitoring interface puts in   *)
(* front of a frame (udp-test/radiotap-parser.c).  A header names the      *)
(* fields it holds in a bitmap; they follow each other in the order of     *)
(* their bits, each at a multiple of its alignment.                        *)
(***************************************************************************)
EXTENDS Integers

\* The fields the callers let the walk come to, by their bit in the bitmap.
RATE == 2
DBM_ANTSIGNAL == 5
Field == 0..DBM_ANTSIGNAL

\* Two nibbles in the code: alignment and length.
rt_sizes == [f \in Field |->
  CASE f = 0 -> [align |-> 8, size |-> 8]     \* TSFT
    [] f = 1 -> [align |-> 1, size |-> 1]     \* FLAGS
    [] f = 2 -> [align |-> 1, size |-> 1]     \* RATE
    [] f = 3 -> [align |-> 2, size |-> 4]     \* CHANNEL
    [] f = 4 -> [align |-> 2, size |-> 2]     \* FHSS
    [] f = 5 -> [align |-> 1, size |-> 1]]    \* DBM_ANTSIGNAL

HeaderSize == 8

\* Header: its version, its announced length, its bitmap and its bytes.
iterator_init(hdr, len) ==
  /\ hdr.version = 0
  /\ len >= hdr.len
  /\ ~hdr.extended

\* The first position from p on that field f may have.
Padded(p, f) ==
  LET a == rt_sizes[f].align IN
  IF p % a # 0 THEN p + a - (p % a) ELSE p

\* iterator->next before field f is looked at.
NextBefore(hdr) ==
  LET next[f \in 0..(DBM_ANTSIGNAL + 1)] ==
        IF f = 0 THEN HeaderSize
        ELSE IF f - 1 \in hdr.present
             THEN Padded(next[f - 1], f - 1) + rt_sizes[f - 1].size
             ELSE next[f - 1]
  IN next

\* The walk returns f: it is present, and no field up to it leaves the header.
Returned(hdr, f) ==
  /\ f \in hdr.present
  /\ \A g \in hdr.present \cap 0..f : NextBefore(hdr)[g + 1] <= hdr.len

\* The byte that iterator->arg points to when the walk returns f.
Arg(hdr, f) == hdr.bytes[Padded(NextBefore(hdr)[f], f)]

\* What the loop of the caller keeps of a field: its first byte, else 0.
Kept(hdr, f) == IF Returned(hdr, f) THEN Arg(hdr, f) ELSE 0

=============================================================================
