----------------------------- MODULE MCEvallink -----------------------------
EXTENDS Evallink, TLC

\* All different, so that a number tells its link.
Num(m) == CASE m = "a" -> 1 [] m = "b" -> 2 [] m = "c" -> 3 [] OTHER -> 4
SignalValue == [m \in Station |-> [n \in Station |-> -(10 * Num(m) + Num(n))]]
RateValue == [m \in Station |-> [n \in Station |-> 100 + 10 * Num(m) + Num(n)]]

\* Two layouts of drivers: one with a clock, one with padding and no rate.
\* The strangers (who only matter as those that hear a station) have all.
LayoutValue == [n \in Station |->
  CASE n = "a" -> [len |-> 24, field |-> (0 :> 8 @@ 1 :> 16 @@ 2 :> 17 @@ 3 :> 18 @@ 5 :> 22)]
    [] n = "b" -> [len |-> 15, field |-> (1 :> 8 @@ 3 :> 10 @@ 5 :> 14)]
    [] OTHER   -> [len |-> 16, field |-> (1 :> 8 @@ 2 :> 9 @@ 3 :> 10 @@ 5 :> 14)]]

=============================================================================
