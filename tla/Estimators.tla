----------------------------- MODULE Estimators -----------------------------
(***************************************************************************)
(* The three estimators of parameters/: each reads a trace, one bit per    *)
(* packet (TRUE: received), and turns it into tables for a Click element.  *)
(* An object is a record of the fields of its class; a std::map from       *)
(* lengths to counts is a bag of lengths.  The classes:                    *)
(*   ParamBasicOnOff     the lengths of the bursts of equal bits           *)
(*   ParamMarckovChain   how often a bit follows each sequence of K bits   *)
(*   ParamBasicMTA       both: the runs of received packets longer than a  *)
(*                       threshold C are error-free bursts, what is        *)
(*                       between them are error bursts, and a Markov chain *)
(*                       is fed with the inside of these.                  *)
(***************************************************************************)
EXTENDS Integers, Sequences, Bags, FiniteSetsExt, Functions

CONSTANTS
  K,        \* order of the Markov chains
  MaxRand   \* CLICK_RAND_MAX

ASSUME EstimatorsAssumption == {K, MaxRand} \subseteq Nat \ {0}

Bit(b) == IF b THEN 1 ELSE 0

-----------------------------------------------------------------------------
(* ParamBasicOnOff.                                                        *)

NoBursts ==
  [success_length |-> EmptyBag, error_length |-> EmptyBag,
   success_total |-> 0, error_total |-> 0, current_state |-> FALSE, length |-> 0]

\* init, after clean.
onoff_reset(o) == NoBursts

onoff_addChars(o, input, len) ==
  IF input
  THEN [o EXCEPT !.success_length = @ (+) SetToBag({len}), !.success_total = @ + 1]
  ELSE [o EXCEPT !.error_length = @ (+) SetToBag({len}), !.error_total = @ + 1]

\* Mutant of onoff_addChar: a burst begins with length 0.
onoff_addCharFromZero(o, input) ==
  IF input = o.current_state THEN [o EXCEPT !.length = @ + 1]
  ELSE LET flushed == IF o.length # 0 THEN onoff_addChars(o, o.current_state, o.length) ELSE o
       IN [flushed EXCEPT !.current_state = input, !.length = 0]

onoff_addChar(o, input) ==
  IF input = o.current_state THEN [o EXCEPT !.length = @ + 1]
  ELSE LET flushed == IF o.length # 0 THEN onoff_addChars(o, o.current_state, o.length) ELSE o
       IN [flushed EXCEPT !.current_state = input, !.length = 1]

\* The i-th smallest member of a set of numbers.
Nth(S, i) == CHOOSE n \in S : Cardinality({m \in S : m <= n}) = i

\* The cumulative distribution, in the order of the lengths.
calculate_values(map, total) ==
  LET upTo(l) == SumFunctionOnSet(map, {m \in DOMAIN map : m <= l})
      at(i) == Nth(DOMAIN map, i)
  IN [i \in 1..Cardinality(DOMAIN map) |->
       [point |-> at(i), probability |-> (upTo(at(i)) * MaxRand) \div total]]

\* finalize flushes the last burst.
onoff_flush(o) == onoff_addChar(o, ~o.current_state)

-----------------------------------------------------------------------------
(* ParamMarckovChain.  k counts the bits that are still missing before the *)
(* first window is complete.                                               *)

state_mod == 2 ^ K

\* new uint64_t[] does not clear the counters: heap is what was there.
markov_init(heap) == [k |-> K, state |-> 0, states |-> heap]

\* Mutant of markov_addChar: the state forgets nothing.
markov_addCharNoMod(m, input) ==
  [k |-> IF m.k # 0 THEN m.k - 1 ELSE 0,
   states |-> IF m.k # 0 THEN m.states
              ELSE [m.states EXCEPT ![(2 * m.state + Bit(input)) % (2 * state_mod)] = @ + 1],
   state |-> ((2 * m.state) % (2 * state_mod)) + Bit(input)]

\* Mutant of markov_addChar: the first windows lack a bit.
markov_addCharEarly(m, input) ==
  [k |-> IF m.k # 0 THEN m.k - 1 ELSE 0,
   states |-> IF m.k > 1 THEN m.states
              ELSE [m.states EXCEPT ![2 * m.state + Bit(input)] = @ + 1],
   state |-> ((2 * m.state) % state_mod) + Bit(input)]

markov_addChar(m, input) ==
  [k |-> IF m.k # 0 THEN m.k - 1 ELSE 0,
   states |-> IF m.k # 0 THEN m.states
              ELSE [m.states EXCEPT ![2 * m.state + Bit(input)] = @ + 1],
   state |-> ((2 * m.state) % state_mod) + Bit(input)]

\* n times addChar(TRUE).
markov_addSuccesses(m, n) ==
  LET after[i \in 0..n] == IF i = 0 THEN m ELSE markov_addChar(after[i - 1], TRUE)
  IN after[n]

SumOf(states, i) == states[2 * i + 1] + states[2 * i]

\* The most frequent state, and the probabilities of success.
markov_finalize(m) ==
  LET all == 0..(state_mod - 1)
      best == Max({SumOf(m.states, i) : i \in all})
  IN [state |-> IF best = 0 THEN m.state ELSE Min({i \in all : SumOf(m.states, i) = best}),
      transitions |-> [i \in all |->
        IF m.states[2 * i + 1] = 0 THEN 0
        ELSE (m.states[2 * i + 1] * MaxRand) \div SumOf(m.states, i)]]

-----------------------------------------------------------------------------
(* ParamBasicMTA.                                                          *)

mta_init(heap) ==
  [current_state |-> FALSE, length |-> 0, length_error |-> 0, second_round |-> FALSE,
   C |-> 0, onoff |-> NoBursts, markov |-> markov_init(heap)]

\* mean + standard deviation of the lengths of errors, truncated.  The code
\* works with doubles: where the exact value is an integer, and is not the
\* sum of one term, it may come out just below.
Thresholds(o) ==
  LET lengths == o.error_length
      n == o.error_total
      sum == SumFunction([l \in DOMAIN lengths |-> l * lengths[l]])
      squares == SumFunction([l \in DOMAIN lengths |-> l * l * lengths[l]])
      d == n * squares - sum * sum            \* (n * deviation) ^ 2
      reached(c) == n * c <= sum \/ (n * c - sum) * (n * c - sum) <= d
      exact(c) == n * c >= sum /\ (n * c - sum) * (n * c - sum) = d
      floor == IF n = 0 THEN 0
               ELSE Max({c \in 0..(2 * Max(DOMAIN lengths)) : reached(c)})
  IN IF Cardinality(DOMAIN lengths) > 1 /\ exact(floor) THEN {floor, floor - 1} ELSE {floor}

\* A run of received packets is over.
mta_endOfRun(m) ==
  IF m.length > m.C
  THEN [m EXCEPT
         !.onoff = onoff_addChars(
                     IF m.length_error # 0 THEN onoff_addChars(@, FALSE, m.length_error) ELSE @,
                     TRUE, m.length),
         !.length_error = 0]
  ELSE [m EXCEPT !.markov = markov_addSuccesses(@, m.length),
                 !.length_error = @ + m.length]

mta_addChar(m, input) ==
  LET fed(q) == [q EXCEPT !.markov = markov_addChar(@, FALSE)]
      next == IF ~m.second_round THEN [m EXCEPT !.onoff = onoff_addChar(@, input)]
              ELSE IF input = m.current_state
              THEN [IF input THEN m ELSE fed(m) EXCEPT !.length = @ + 1]
              ELSE [IF m.current_state THEN fed(mta_endOfRun(m))
                    ELSE [m EXCEPT !.length_error = @ + m.length] EXCEPT !.length = 1]
  IN [next EXCEPT !.current_state = input]

\* current_state is not reset: the second round begins in the state in which
\* the first one ended.
mta_nextRound(m, threshold) ==
  [m EXCEPT !.onoff = onoff_reset(@), !.C = threshold, !.length = 0, !.length_error = 0,
            !.second_round = TRUE]

mta_finalize(m) ==
  LET e == IF m.current_state THEN mta_endOfRun(m) ELSE [m EXCEPT !.length_error = @ + m.length]
  IN IF m.current_state /\ m.length > m.C THEN e
     ELSE [e EXCEPT !.onoff = onoff_addChars(@, FALSE, e.length_error)]

=============================================================================
