---------------------------- MODULE ExtractTruth ----------------------------
(***************************************************************************)
(* What the statistics of extract.c should be: the slots compared with the *)
(* packets that really reached the two logs.  seen[s] is a history         *)
(* variable, the counters of all the lines read so far from log s.         *)
(***************************************************************************)
EXTENDS Extract, FiniteSets

VARIABLE seen

truthVars == <<vars, seen>>

TruthInit == Init /\ seen = [s \in Stream |-> {}]

TruthNext ==
  /\ Next
  /\ seen' = [s \in Stream |-> IF log'[s].ts # log[s].ts
                               THEN seen[s] \cup {log'[s].count}
                               ELSE seen[s]]

TruthSpec == TruthInit /\ [][TruthNext]_truthVars

-----------------------------------------------------------------------------

\* 1 if stream s delivered its packet of slot t, as far as it was read.
Got(s, t) == IF t - Lead[s] \in seen[s] THEN 1 ELSE 0

CountedSlots == synced[0] + Lead[0] + 1 .. states[0].count_old + Lead[0]

\* While packets are logged less than half a slot after their due time, the
\* program pairs the right slots and each of its four counters is exact:
\* ages, partial advances and synchronisation never miscount a slot
\* (first_pass, extract.c:881-968).
StatsExact ==
  pc = "pass" =>
    \A i, j \in {0, 1} :
      u64_stats[<<i, j>>]
        = Cardinality({t \in CountedSlots : Got(0, t) = i /\ Got(1, t) = j})

\* Under the same bound, the burst counters hold exactly the runs of losses
\* between two packets of a stream (UPDATE_STATE, extract.c:798-805), and
\* coordbursts those of slots lost on both (first_pass, extract.c:891, 933,
\* 955), however the two streams took turns in crossing them.
RunsOfLosses(s, n) ==
  {c \in seen[s] : /\ c > synced[s]
                   /\ c - n - 1 \in seen[s]
                   /\ (c - n .. c - 1) \cap seen[s] = {}}
Delivered(t) == \E s \in Stream : Got(s, t) = 1
RunsOnBoth(n) ==
  {t \in CountedSlots : /\ t - n > synced[0] + Lead[0]
                        /\ Delivered(t) /\ Delivered(t - n - 1)
                        /\ \A u \in t - n .. t - 1 : ~Delivered(u)}
BurstsExact ==
  Stats /\ pc = "pass" =>
    \A n \in 1..MaxCount :
      /\ \A s \in Stream : bursts[s][n] = Cardinality(RunsOfLosses(s, n))
      /\ bursts[Coord][n] = Cardinality(RunsOnBoth(n))

=============================================================================
