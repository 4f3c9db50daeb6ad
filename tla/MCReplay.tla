------------------------------ MODULE MCReplay ------------------------------
EXTENDS Replay

\* A fresh page is clear, a block that was used before is not.
Clear == [i \in 0..(2 * state_mod - 1) |-> 0]
HeapsValue == {Clear, [Clear EXCEPT ![1] = 1]}

Repeat(b, n) == [i \in 1..n |-> b]

\* Bursts of b of the lengths ls, with one other bit between them.
Bursts(ls, b) ==
  FlattenSeq([i \in 1..Len(ls) |->
    IF i = 1 THEN Repeat(b, ls[1]) ELSE <<~b>> \o Repeat(b, ls[i])])

\* None, and those in which thresholdrand has to search.
TracesValue ==
  {<<>>, <<FALSE>>, <<FALSE, FALSE, FALSE, TRUE>>} \cup
  {Bursts(ls, b) : b \in BOOLEAN,
     ls \in {<<1, 2, 3>>, <<2, 3, 1>>, <<3, 1, 2>>, <<2, 2, 1, 3>>, <<1, 4, 2, 3>>}}

=============================================================================
