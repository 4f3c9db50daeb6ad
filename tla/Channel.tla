------------------------------ MODULE Channel -------------------------------
(***************************************************************************)
(* The Click elements of elements/ (and their doubles in tests/) that      *)
(* replay a table of the estimators: BasicOnOffChannel draws the lengths   *)
(* of bursts from two distributions, MarkovChainChannel draws each packet  *)
(* from the probability of its state.                                      *)
(*                                                                         *)
(* A distribution is a sequence of points whose probabilities are          *)
(* cumulative; indices are those of the code, from 0.                      *)
(***************************************************************************)
EXTENDS Integers, Sequences

-----------------------------------------------------------------------------
(* BasicOnOffChannel::thresholdrand: a binary search, step by step.        *)

probability(dist, i) == dist[i + 1].probability
point(dist, i) == dist[i + 1].point

Search(dist, rand) ==
  [dist |-> dist, rand |-> rand, min |-> 0, max |-> Len(dist) - 1, pos |-> Len(dist) \div 2]

\* max - min is unsigned, and wraps when there is no point at all.
SearchOver(s) == s.max - s.min = 1

Between(min, max) == min + ((max - min) \div 2)

\* Mutant of SearchStep: the middle is not moved when the top is.
SearchStepStays(s) ==
  IF s.rand > probability(s.dist, s.pos)
  THEN [s EXCEPT !.min = s.pos, !.pos = Between(s.pos, s.max)]
  ELSE [s EXCEPT !.max = s.pos]

SearchStep(s) ==
  IF s.rand > probability(s.dist, s.pos)
  THEN [s EXCEPT !.min = s.pos, !.pos = Between(s.pos, s.max)]
  ELSE [s EXCEPT !.max = s.pos, !.pos = Between(s.min, s.pos)]

\* Mutant of Found: the comparison is not strict.
FoundLax(s) ==
  IF s.rand >= probability(s.dist, s.min) THEN point(s.dist, s.max) ELSE point(s.dist, s.min)

Found(s) ==
  IF s.rand > probability(s.dist, s.min) THEN point(s.dist, s.max) ELSE point(s.dist, s.min)

-----------------------------------------------------------------------------
(* MarkovChainChannel.                                                     *)

\* Mutant of Transmit: the probability is reached too.
TransmitLax(chain, rand) == rand <= chain.transitions[chain.state]

Transmit(chain, rand) == rand < chain.transitions[chain.state]

\* The next state: the last outcomes, the new one last.
Shifted(chain, transmit, modulo) ==
  [chain EXCEPT !.state = (2 * @ + (IF transmit THEN 1 ELSE 0)) % modulo]

=============================================================================
