-------------------------- MODULE EstimatorProofs ---------------------------
(***************************************************************************)
(* The estimators, bit by bit: what ParamBasicOnOff, ParamMarckovChain and *)
(* ParamBasicMTA have counted after any number of bits, whatever the       *)
(* trace, the order K of the chain and the threshold.  ReplayProofs takes  *)
(* from here what its invariants need of one more bit.                     *)
(*                                                                         *)
(*   sums, induction   a sum over a finite set, one member at a time       *)
(*   Settled, Run      the bursts of the first bits, and the run that is   *)
(*                     not counted yet                                     *)
(*   Pending           the error burst that a ParamBasicMTA holds back     *)
(*   Nth               the order in which calculate_values reads the map   *)
(*   Chained           the counters of the chain: windows, by their bits   *)
(*   Image, FedSet     the part of the trace that the chain is fed with    *)
(***************************************************************************)
EXTENDS Replay, WellFoundedInduction, FiniteSetTheorems, FunctionTheorems, TLAPS

-----------------------------------------------------------------------------
(* Induction, stated of a set so that it can be cited.                     *)

\* A set of naturals has a least member.
LEMMA LeastNumber ==
  ASSUME NEW T, T \subseteq Nat, T # {}
  PROVE  \E n \in T : \A m \in T : n <= m
<1> DEFINE R == OpToRel(<, Nat)
<1>1. IsWellFoundedOn(R, Nat)
  BY NatLessThanWellFounded
<1>2. \A x, y \in Nat : x < y => <<x, y>> \in R
  BY DEF OpToRel
<1> HIDE DEF R
<1>3. PICK n \in T : \A m \in T : ~ (<<m, n>> \in R)
  BY <1>1, WFMin
<1>4. ASSUME NEW m \in T PROVE n <= m
  <2>1. m \in Nat /\ n \in Nat
    OBVIOUS
  <2>2. ~(m < n)
    BY <1>2, <1>3, <2>1
  <2> QED
    BY <2>1, <2>2
<1> QED
  BY <1>4

\* A set that holds 0 and the successor of each member holds every natural.
LEMMA Induction ==
  ASSUME NEW S, 0 \in S, \A n \in Nat : n \in S => n + 1 \in S
  PROVE  \A n \in Nat : n \in S
<1> SUFFICES ASSUME NEW m \in Nat, m \notin S
             PROVE  FALSE
  OBVIOUS
<1> DEFINE T == {n \in Nat : n \notin S}
<1>1. PICK n \in T : \A k \in T : n <= k
  <2>1. T \subseteq Nat /\ T # {}
    OBVIOUS
  <2> HIDE DEF T
  <2> QED
    BY <2>1, LeastNumber
<1>2. n \in Nat /\ n # 0 /\ n \notin S
  OBVIOUS
<1>3. n - 1 \in Nat /\ n - 1 \notin T
  BY <1>1, <1>2
<1>4. (n - 1) + 1 \in S /\ (n - 1) + 1 = n
  BY <1>2, <1>3
<1> QED
  BY <1>2, <1>4

-----------------------------------------------------------------------------
(* The sums of the community modules are folds: what they add up to, step  *)
(* by step.                                                                *)

\* The member that a fold takes first.
Some(s) == CHOOSE x \in s : TRUE

\* One step of the fold, for the subsets of S.
FoldStep(f, g, s) == IF s = {} THEN 0 ELSE f[Some(s)] + g[s \ {Some(s)}]

\* The fold of the library, as a function of the subsets of S.
Fold(f, S) == CHOOSE iter : iter = [s \in SUBSET S |-> FoldStep(f, iter, s)]

\* A sum over a set is such a fold.
LEMMA SumIsFold ==
  ASSUME NEW f, NEW S
  PROVE  SumFunctionOnSet(f, S) = Fold(f, S)[S]
  BY DEF Fold, FoldStep, Some, SumFunctionOnSet, FoldFunctionOnSet, MapThenFoldSet

\* g is a fold on a domain D.
IsFold(f, D, g) == g = [s \in D |-> FoldStep(f, g, s)]

\* The subsets of at most n members.
UpTo(S, n) == {s \in SUBSET S : Cardinality(s) <= n}

\* A subset without the member that is taken first.
LEMMA SmallerSubset ==
  ASSUME NEW S, IsFiniteSet(S), NEW s \in SUBSET S, s # {}
  PROVE  /\ IsFiniteSet(s) /\ Some(s) \in s /\ Some(s) \in S
         /\ s \ {Some(s)} \in SUBSET S
         /\ Cardinality(s) \in Nat \ {0} /\ Cardinality(s \ {Some(s)}) = Cardinality(s) - 1
<1>1. IsFiniteSet(s)
  BY FS_Subset
<1>2. Some(s) \in s
  BY DEF Some
<1>3. Cardinality(s) \in Nat /\ Cardinality(s) # 0
  BY <1>1, FS_CardinalityType, FS_EmptySet
<1>4. Cardinality(s \ {Some(s)}) = Cardinality(s) - 1
  BY <1>1, <1>2, FS_RemoveElement
<1> QED
  BY <1>1, <1>2, <1>3, <1>4

\* The fold exists, for the subsets of at most n members.
LEMMA FoldExistsUpTo ==
  ASSUME NEW f, NEW S, IsFiniteSet(S)
  PROVE  \A n \in Nat : \E g : IsFold(f, UpTo(S, n), g)
<1> DEFINE Good == {n \in Nat : \E g : IsFold(f, UpTo(S, n), g)}
<1>1. 0 \in Good
  <2> DEFINE g == [s \in UpTo(S, 0) |-> 0]
  <2>1. \A s \in UpTo(S, 0) : s = {}
    <3> SUFFICES ASSUME NEW s \in UpTo(S, 0), s # {}
                 PROVE  FALSE
      OBVIOUS
    <3>1. s \in SUBSET S /\ Cardinality(s) <= 0
      BY DEF UpTo
    <3>2. Cardinality(s) \in Nat \ {0}
      BY <3>1, SmallerSubset
    <3> QED
      BY <3>1, <3>2
  <2>2. IsFold(f, UpTo(S, 0), g)
    BY <2>1 DEF FoldStep, IsFold
  <2> QED
    BY <2>2
<1>2. ASSUME NEW n \in Nat, n \in Good
      PROVE  n + 1 \in Good
  <2>1. PICK g : IsFold(f, UpTo(S, n), g)
    BY <1>2
  <2> DEFINE h == [s \in UpTo(S, n + 1) |-> FoldStep(f, g, s)]
  <2>2. ASSUME NEW s \in UpTo(S, n + 1)
        PROVE  FoldStep(f, g, s) = FoldStep(f, h, s)
    <3>1. CASE s = {}
      BY <3>1 DEF FoldStep
    <3>2. CASE s # {}
      <4> DEFINE r == s \ {Some(s)}
      <4>1. s \in SUBSET S /\ Cardinality(s) <= n + 1
        BY DEF UpTo
      <4>2. /\ r \in SUBSET S /\ Cardinality(s) \in Nat
            /\ Cardinality(r) = Cardinality(s) - 1
        BY <3>2, <4>1, SmallerSubset
      <4>3. r \in UpTo(S, n) /\ r \in UpTo(S, n + 1)
        BY <4>1, <4>2 DEF UpTo
      <4>4. g[r] = FoldStep(f, g, r) /\ h[r] = FoldStep(f, g, r)
        BY <2>1, <4>3 DEF IsFold
      <4> QED
        BY <3>2, <4>4 DEF FoldStep
    <3> QED
      BY <3>1, <3>2
  <2>3. IsFold(f, UpTo(S, n + 1), h)
    BY <2>2, Zenon DEF IsFold
  <2> HIDE DEF h
  <2> QED
    BY <2>3
<1> HIDE DEF Good
<1>3. \A n \in Nat : n \in Good
  BY <1>1, <1>2, Induction
<1> QED
  BY <1>3 DEF Good

\* The fold of a finite set is what its equation says.
LEMMA FoldDefined ==
  ASSUME NEW f, NEW S, IsFiniteSet(S)
  PROVE  \A s \in SUBSET S : Fold(f, S)[s] = FoldStep(f, Fold(f, S), s)
<1>1. Cardinality(S) \in Nat
  BY FS_CardinalityType
<1>2. UpTo(S, Cardinality(S)) = SUBSET S
  BY FS_Subset DEF UpTo
<1>3. \E g : IsFold(f, UpTo(S, Cardinality(S)), g)
  BY <1>1, FoldExistsUpTo
<1>4. \E g : g = [s \in SUBSET S |-> FoldStep(f, g, s)]
  BY <1>2, <1>3, Zenon DEF IsFold
<1>5. Fold(f, S) = [s \in SUBSET S |-> FoldStep(f, Fold(f, S), s)]
  BY <1>4, Zenon DEF Fold
<1> QED
  BY <1>5

\* The fold over a set, at a subset, is that of the subset.
LEMMA FoldOfSubset ==
  ASSUME NEW f, NEW S, IsFiniteSet(S)
  PROVE  \A n \in Nat : \A s \in SUBSET S :
           Cardinality(s) = n => Fold(f, S)[s] = Fold(f, s)[s]
<1> DEFINE Good == {n \in Nat : \A s \in SUBSET S : \A t \in SUBSET s :
                      Cardinality(t) = n => Fold(f, S)[t] = Fold(f, s)[t]}
<1>1. ASSUME NEW s \in SUBSET S, NEW t \in SUBSET s
      PROVE  /\ IsFiniteSet(s) /\ IsFiniteSet(t) /\ Cardinality(t) \in Nat
             /\ t \in SUBSET S
             /\ Fold(f, S)[t] = FoldStep(f, Fold(f, S), t)
             /\ Fold(f, s)[t] = FoldStep(f, Fold(f, s), t)
  <2>1. /\ IsFiniteSet(s) /\ IsFiniteSet(t) /\ Cardinality(t) \in Nat
    BY FS_Subset, FS_CardinalityType
  <2>2. \A r \in SUBSET S : Fold(f, S)[r] = FoldStep(f, Fold(f, S), r)
    BY FoldDefined
  <2>3. \A r \in SUBSET s : Fold(f, s)[r] = FoldStep(f, Fold(f, s), r)
    BY <2>1, FoldDefined
  <2>4. t \in SUBSET S
    OBVIOUS
  <2> QED
    BY <2>1, <2>2, <2>3, <2>4
<1>2. 0 \in Good
  <2> SUFFICES ASSUME NEW s \in SUBSET S, NEW t \in SUBSET s, Cardinality(t) = 0
               PROVE  Fold(f, S)[t] = Fold(f, s)[t]
    OBVIOUS
  <2>1. t = {}
    BY <1>1, FS_EmptySet
  <2> QED
    BY <1>1, <2>1 DEF FoldStep
<1>3. ASSUME NEW n \in Nat, n \in Good
      PROVE  n + 1 \in Good
  <2> SUFFICES ASSUME NEW s \in SUBSET S, NEW t \in SUBSET s, Cardinality(t) = n + 1
               PROVE  Fold(f, S)[t] = Fold(f, s)[t]
    OBVIOUS
  <2>1. t # {}
    BY FS_EmptySet
  <2> DEFINE r == t \ {Some(t)}
  <2>2. r \in SUBSET s /\ Cardinality(r) = n
    <3>1. IsFiniteSet(s)
      BY <1>1
    <3>2. Cardinality(r) = Cardinality(t) - 1 /\ r \in SUBSET s
      BY <2>1, <3>1, SmallerSubset
    <3> QED
      BY <3>2
  <2>3. Fold(f, S)[r] = Fold(f, s)[r]
    BY <1>3, <2>2
  <2> QED
    BY <1>1, <2>1, <2>3 DEF FoldStep
<1> HIDE DEF Good
<1>4. \A n \in Nat : n \in Good
  BY <1>2, <1>3, Induction
<1> QED
  <2> SUFFICES ASSUME NEW n \in Nat, NEW s \in SUBSET S, Cardinality(s) = n
               PROVE  Fold(f, S)[s] = Fold(f, s)[s]
    OBVIOUS
  <2>1. s \in SUBSET s /\ n \in Good
    BY <1>4
  <2> QED
    BY <2>1 DEF Good

\* A sum is 0, or one member and the sum over the others.
LEMMA SumStep ==
  ASSUME NEW f, NEW S, IsFiniteSet(S)
  PROVE  /\ S = {} => SumFunctionOnSet(f, S) = 0
         /\ S # {} => /\ Some(S) \in S
                      /\ SumFunctionOnSet(f, S)
                           = f[Some(S)] + SumFunctionOnSet(f, S \ {Some(S)})
<1>1. Fold(f, S)[S] = FoldStep(f, Fold(f, S), S)
  <2>1. S \in SUBSET S
    OBVIOUS
  <2> QED
    BY <2>1, FoldDefined
<1>2. CASE S = {}
  BY <1>1, <1>2, SumIsFold DEF FoldStep
<1>3. CASE S # {}
  <2> DEFINE r == S \ {Some(S)}
  <2>1. Some(S) \in S /\ r \in SUBSET S
    BY <1>3 DEF Some
  <2>2. IsFiniteSet(r) /\ Cardinality(r) \in Nat
    BY <2>1, FS_Subset, FS_CardinalityType
  <2>3. Fold(f, S)[r] = Fold(f, r)[r]
    BY <2>1, <2>2, FoldOfSubset
  <2> QED
    BY <1>1, <1>3, <2>1, <2>3, SumIsFold DEF FoldStep
<1> QED
  BY <1>2, <1>3

-----------------------------------------------------------------------------
(* Stretches, and the table of their lengths.                              *)

\* A finite set has finitely many stretches.
LEMMA StretchesFinite ==
  ASSUME NEW S, IsFiniteSet(S)
  PROVE  IsFiniteSet(Stretches(S))
<1>1. IsFiniteSet(S \X S)
  BY FS_Product
<1>2. Stretches(S) \in SUBSET (S \X S)
  BY DEF Stretches
<1> QED
  BY <1>1, <1>2, FS_Subset

\* What a stretch is.
LEMMA StretchFacts ==
  ASSUME NEW S \in SUBSET Int
  PROVE  \A r : r \in Stretches(S) <=>
           /\ r = <<r[1], r[2]>> /\ r[1] \in S /\ r[2] \in S /\ r[1] <= r[2]
           /\ \A i \in Int : r[1] <= i /\ i <= r[2] => i \in S
           /\ r[1] - 1 \notin S /\ r[2] + 1 \notin S
<1> SUFFICES ASSUME NEW r
             PROVE  r \in Stretches(S) <=>
                      /\ r = <<r[1], r[2]>> /\ r[1] \in S /\ r[2] \in S /\ r[1] <= r[2]
                      /\ \A i \in Int : r[1] <= i /\ i <= r[2] => i \in S
                      /\ r[1] - 1 \notin S /\ r[2] + 1 \notin S
  OBVIOUS
<1>1. r \in S \X S <=> r = <<r[1], r[2]>> /\ r[1] \in S /\ r[2] \in S
  OBVIOUS
<1>2. ASSUME r[1] \in S, r[2] \in S
      PROVE  r[1]..r[2] \subseteq S <=> \A i \in Int : r[1] <= i /\ i <= r[2] => i \in S
  BY <1>2
<1>3. {r[1] - 1, r[2] + 1} \cap S = {} <=> r[1] - 1 \notin S /\ r[2] + 1 \notin S
  OBVIOUS
<1> QED
  BY <1>1, <1>2, <1>3 DEF Stretches

\* Two stretches that meet are one.
LEMMA StretchesMeet ==
  ASSUME NEW S \in SUBSET Int, NEW q \in Stretches(S), NEW r \in Stretches(S),
         NEW i \in Int, q[1] <= i, i <= q[2], r[1] <= i, i <= r[2]
  PROVE  q = r
<1>1. /\ q = <<q[1], q[2]>> /\ q[1] \in Int /\ q[2] \in Int
      /\ \A j \in Int : q[1] <= j /\ j <= q[2] => j \in S
      /\ q[1] - 1 \notin S /\ q[2] + 1 \notin S
  BY StretchFacts
<1>2. /\ r = <<r[1], r[2]>> /\ r[1] \in Int /\ r[2] \in Int
      /\ \A j \in Int : r[1] <= j /\ j <= r[2] => j \in S
      /\ r[1] - 1 \notin S /\ r[2] + 1 \notin S
  BY StretchFacts
<1>3. q[1] = r[1]
  <2>1. ~(q[1] < r[1])
    <3> SUFFICES ASSUME q[1] < r[1] PROVE FALSE
      OBVIOUS
    <3>1. r[1] - 1 \in Int /\ q[1] <= r[1] - 1 /\ r[1] - 1 <= q[2]
      BY <1>1, <1>2
    <3> QED
      BY <1>1, <1>2, <3>1
  <2>2. ~(r[1] < q[1])
    <3> SUFFICES ASSUME r[1] < q[1] PROVE FALSE
      OBVIOUS
    <3>1. q[1] - 1 \in Int /\ r[1] <= q[1] - 1 /\ q[1] - 1 <= r[2]
      BY <1>1, <1>2
    <3> QED
      BY <1>1, <1>2, <3>1
  <2> QED
    BY <1>1, <1>2, <2>1, <2>2
<1>4. q[2] = r[2]
  <2>1. ~(q[2] < r[2])
    <3> SUFFICES ASSUME q[2] < r[2] PROVE FALSE
      OBVIOUS
    <3>1. q[2] + 1 \in Int /\ r[1] <= q[2] + 1 /\ q[2] + 1 <= r[2]
      BY <1>1, <1>2
    <3> QED
      BY <1>1, <1>2, <3>1
  <2>2. ~(r[2] < q[2])
    <3> SUFFICES ASSUME r[2] < q[2] PROVE FALSE
      OBVIOUS
    <3>1. r[2] + 1 \in Int /\ q[1] <= r[2] + 1 /\ r[2] + 1 <= q[2]
      BY <1>1, <1>2
    <3> QED
      BY <1>1, <1>2, <3>1
  <2> QED
    BY <1>1, <1>2, <2>1, <2>2
<1> QED
  BY <1>1, <1>2, <1>3, <1>4, Zenon

\* An interval behind a set, not next to it, is one more stretch.
LEMMA OneMoreStretch ==
  ASSUME NEW S \in SUBSET Int, NEW a \in Int, NEW b \in Int, a <= b,
         \A x \in S : x < a - 1
  PROVE  /\ Stretches(S \cup (a..b)) = Stretches(S) \cup {<<a, b>>}
         /\ <<a, b>> \notin Stretches(S)
<1> DEFINE U == S \cup (a..b)
<1>0. U \in SUBSET Int /\ (\A i \in Int : i \in U <=> i \in S \/ (a <= i /\ i <= b))
  OBVIOUS
<1>1. ASSUME NEW r \in Stretches(S)
      PROVE  r \in Stretches(U)
  <2>1. /\ r = <<r[1], r[2]>> /\ r[1] \in S /\ r[2] \in S /\ r[1] <= r[2]
        /\ \A i \in Int : r[1] <= i /\ i <= r[2] => i \in S
        /\ r[1] - 1 \notin S /\ r[2] + 1 \notin S
    BY StretchFacts
  <2>2. r[1] - 1 \notin U /\ r[2] + 1 \notin U
    BY <2>1, <1>0
  <2> HIDE DEF U
  <2> QED
    BY <1>0, <2>1, <2>2, StretchFacts
<1>2. <<a, b>> \in Stretches(U)
  <2> DEFINE r == <<a, b>>
  <2>1. r[1] = a /\ r[2] = b /\ r = <<r[1], r[2]>>
    OBVIOUS
  <2>2. a \in U /\ b \in U /\ a - 1 \notin U /\ b + 1 \notin U
    BY <1>0
  <2> HIDE DEF U, r
  <2>3. r \in Stretches(U)
    BY <1>0, <2>1, <2>2, StretchFacts
  <2> QED
    BY <2>3 DEF r
<1>3. ASSUME NEW r \in Stretches(U), r[1] \notin S
      PROVE  r = <<a, b>>
  <2>1. /\ r[1] \in U /\ r[1] \in Int
    BY <1>0, StretchFacts
  <2>2. a <= r[1] /\ r[1] <= b /\ r[1] <= r[2]
    BY <2>1, <1>0, <1>3, StretchFacts
  <2> DEFINE q == <<a, b>>
  <2>3. q[1] = a /\ q[2] = b /\ q \in Stretches(U)
    BY <1>2
  <2> HIDE DEF q, U
  <2>4. q = r
    BY <1>0, <2>1, <2>2, <2>3, StretchesMeet
  <2> QED
    BY <2>4 DEF q
<1>4. ASSUME NEW r \in Stretches(U), r[1] \in S
      PROVE  r \in Stretches(S)
  <2>1. /\ r = <<r[1], r[2]>> /\ r[2] \in U /\ r[1] <= r[2] /\ r[1] \in Int /\ r[2] \in Int
        /\ \A i \in Int : r[1] <= i /\ i <= r[2] => i \in U
        /\ r[1] - 1 \notin U /\ r[2] + 1 \notin U
    <3> HIDE DEF U
    <3> QED
      BY <1>0, <1>4, StretchFacts
  <2>2. r[2] < a - 1
    <3> SUFFICES ASSUME r[2] >= a - 1 PROVE FALSE
      BY <2>1
    <3>1. a - 1 \in Int /\ r[1] <= a - 1 /\ a - 1 <= r[2]
      BY <1>4, <2>1
    <3>2. a - 1 \in U /\ a - 1 \notin S
      BY <2>1, <3>1
    <3> QED
      BY <1>0, <3>2
  <2>3. \A i \in Int : r[1] <= i /\ i <= r[2] => i \in S
    BY <1>0, <2>1, <2>2
  <2>4. r[1] - 1 \notin S /\ r[2] + 1 \notin S /\ r[2] \in S
    BY <1>0, <2>1, <2>2
  <2> QED
    BY <1>4, <2>1, <2>3, <2>4, StretchFacts
<1>5. <<a, b>> \notin Stretches(S)
  <2> DEFINE r == <<a, b>>
  <2>1. r[1] = a /\ a \notin S
    OBVIOUS
  <2> HIDE DEF r
  <2>2. r \notin Stretches(S)
    BY <2>1, StretchFacts
  <2> QED
    BY <2>2 DEF r
<1> QED
  BY <1>1, <1>2, <1>3, <1>4, <1>5

\* The empty set has no stretch, and its table is empty.
LEMMA NoStretches ==
  /\ Stretches({}) = {} /\ LengthsOf({}) = EmptyBag /\ Cardinality({}) = 0
<1>1. Stretches({}) = {}
  BY DEF Stretches
<1>2. LengthsOf({}) = EmptyBag
  BY DEF LengthsOf, EmptyBag, SetToBag
<1> QED
  BY <1>1, <1>2, FS_EmptySet

\* One more burst is one more in the bag of lengths.
LEMMA OneMoreLength ==
  ASSUME NEW rs, IsFiniteSet(rs), NEW r, r \notin rs
  PROVE  /\ LengthsOf(rs \cup {r}) = LengthsOf(rs) (+) SetToBag({Length(r)})
         /\ Cardinality(rs \cup {r}) = Cardinality(rs) + 1
<1> DEFINE D == {Length(q) : q \in rs}
           l0 == Length(r)
           With(l) == {q \in rs : Length(q) = l}
           WithR(l) == {q \in rs \cup {r} : Length(q) = l}
           old == LengthsOf(rs)
           new == LengthsOf(rs \cup {r})
           one == SetToBag({l0})
<1>1. /\ DOMAIN old = D /\ \A l \in D : old[l] = Cardinality(With(l))
  BY DEF LengthsOf
<1>2. /\ DOMAIN new = D \cup {l0} /\ new = [l \in D \cup {l0} |-> Cardinality(WithR(l))]
  <2>1. {Length(q) : q \in rs \cup {r}} = D \cup {l0}
    OBVIOUS
  <2> QED
    BY <2>1 DEF LengthsOf
<1>3. DOMAIN one = {l0} /\ one[l0] = 1
  BY DEF SetToBag
<1>4. old (+) one = [l \in D \cup {l0} |->
                       (IF l \in D THEN old[l] ELSE 0) + (IF l \in {l0} THEN one[l] ELSE 0)]
  <2> HIDE DEF old, one, D, l0
  <2> QED
    BY <1>1, <1>3 DEF (+)
<1>5. ASSUME NEW l \in D \cup {l0}
      PROVE  Cardinality(WithR(l))
               = (IF l \in D THEN old[l] ELSE 0) + (IF l \in {l0} THEN one[l] ELSE 0)
  <2>1. IsFiniteSet(With(l)) /\ Cardinality(With(l)) \in Nat
    <3>1. With(l) \in SUBSET rs
      OBVIOUS
    <3> QED
      BY <3>1, FS_Subset, FS_CardinalityType
  <2>2. l \notin D => Cardinality(With(l)) = 0
    <3>1. l \notin D => With(l) = {}
      OBVIOUS
    <3> QED
      BY <3>1, FS_EmptySet
  <2>3. CASE l = l0
    <3>1. WithR(l) = With(l) \cup {r} /\ r \notin With(l)
      BY <2>3
    <3>2. Cardinality(WithR(l)) = Cardinality(With(l)) + 1
      BY <2>1, <3>1, FS_AddElement
    <3> QED
      BY <2>1, <2>2, <2>3, <3>2, <1>1, <1>3
  <2>4. CASE l # l0
    <3>1. WithR(l) = With(l) /\ l \in D
      BY <2>4
    <3> QED
      BY <2>1, <2>4, <3>1, <1>1
  <2> QED
    BY <2>3, <2>4
<1>6. new = old (+) one
  <2> HIDE DEF old, one, D, l0, new, WithR
  <2> QED
    BY <1>2, <1>4, <1>5
<1>7. Cardinality(rs \cup {r}) = Cardinality(rs) + 1
  BY FS_AddElement
<1> QED
  BY <1>6, <1>7

-----------------------------------------------------------------------------
(* The runs of a trace, and the bursts that are settled.                   *)

\* The traces, and the positions of the packets that were received.
Trace == Seq(BOOLEAN)
Ones(t) == {i \in DOMAIN t : t[i]}

\* The error-free bursts of a trace, and where they are.
Free(t, c) == {r \in Stretches(Ones(t)) : Length(r) > c}
\* The positions inside of the error-free bursts.
Long(t, c) == UNION {r[1]..r[2] : r \in Free(t, c)}

\* The last len of the first n bits are a run of cs, as long as it can be.
Run(t, n, len, cs) ==
  /\ len \in 0..n
  /\ n > 0 => /\ len > 0
              /\ \A i \in Int : n - len < i /\ i <= n => (t[i] <=> cs)
              /\ n - len > 0 => (t[n - len] <=> ~cs)

\* The tables are those of the first k bits.
Settled(o, t, c, k) ==
  /\ o.success_length = LengthsOf(Stretches(Long(t, c) \cap (1..k)))
  /\ o.error_length = LengthsOf(Stretches((1..k) \ Long(t, c)))
  /\ o.success_total = Cardinality(Stretches(Long(t, c) \cap (1..k)))
  /\ o.error_total = Cardinality(Stretches((1..k) \ Long(t, c)))

\* A trace, as the provers like it.
LEMMA TraceDomain ==
  ASSUME NEW t \in Trace
  PROVE  /\ Len(t) \in Nat /\ DOMAIN t = 1..Len(t)
         /\ \A i \in 1..Len(t) : t[i] \in BOOLEAN
         /\ Ones(t) \in SUBSET Int
         /\ \A i \in Int : i \in Ones(t) <=> 1 <= i /\ i <= Len(t) /\ t[i]
<1>1. Len(t) \in Nat /\ DOMAIN t = 1..Len(t) /\ \A i \in 1..Len(t) : t[i] \in BOOLEAN
  BY DEF Trace
<1> QED
  BY <1>1 DEF Ones

\* A position is in an error-free burst if it is in a run longer than c.
LEMMA LongFacts ==
  ASSUME NEW t \in Trace, NEW c
  PROVE  /\ Long(t, c) \subseteq Ones(t) /\ Long(t, c) \in SUBSET Int
         /\ \A i \in Int : i \in Long(t, c) <=>
              \E r \in Stretches(Ones(t)) : Length(r) > c /\ r[1] <= i /\ i <= r[2]
<1>1. Ones(t) \in SUBSET Int
  BY TraceDomain
<1>2. \A r \in Stretches(Ones(t)) :
        /\ r[1] \in Int /\ r[2] \in Int
        /\ \A i \in Int : r[1] <= i /\ i <= r[2] => i \in Ones(t)
  BY <1>1, StretchFacts
<1>3. \A i : i \in Long(t, c) <=>
        \E r \in Stretches(Ones(t)) : Length(r) > c /\ i \in r[1]..r[2]
  BY DEF Long, Free
<1>4. \A r \in Stretches(Ones(t)) : \A i : i \in r[1]..r[2] <=> i \in Int /\ r[1] <= i /\ i <= r[2]
  BY <1>2
<1>5. \A i \in Int : i \in Long(t, c) <=>
        \E r \in Stretches(Ones(t)) : Length(r) > c /\ r[1] <= i /\ i <= r[2]
  BY <1>3, <1>4
<1>6. \A i : i \in Long(t, c) => i \in Ones(t)
  BY <1>2, <1>3, <1>4
<1> QED
  BY <1>1, <1>5, <1>6

\* The stretches of the long runs are the error-free bursts.
LEMMA StretchesOfLong ==
  ASSUME NEW t \in Trace, NEW c
  PROVE  Stretches(Long(t, c)) = Free(t, c)
<1> DEFINE S == Ones(t)
           U == Long(t, c)
<1>1. /\ S \in SUBSET Int /\ U \in SUBSET Int /\ U \subseteq S
      /\ \A i \in Int : i \in U <=>
           \E r \in Stretches(S) : Length(r) > c /\ r[1] <= i /\ i <= r[2]
  BY LongFacts, TraceDomain
<1>2. \A r : r \in Free(t, c) <=> r \in Stretches(S) /\ Length(r) > c
  BY DEF Free
<1> HIDE DEF S, U
<1>3. ASSUME NEW r \in Free(t, c)
      PROVE  r \in Stretches(U)
  <2>1. /\ r = <<r[1], r[2]>> /\ r[1] \in Int /\ r[2] \in Int /\ r[1] <= r[2]
        /\ r[1] - 1 \notin S /\ r[2] + 1 \notin S
    BY <1>1, <1>2, StretchFacts
  <2>2. \A i \in Int : r[1] <= i /\ i <= r[2] => i \in U
    BY <1>1, <1>2
  <2>3. r[1] \in U /\ r[2] \in U /\ r[1] - 1 \notin U /\ r[2] + 1 \notin U
    BY <1>1, <2>1, <2>2
  <2> QED
    BY <1>1, <2>1, <2>2, <2>3, StretchFacts
<1>4. ASSUME NEW r \in Stretches(U)
      PROVE  r \in Free(t, c)
  <2>1. /\ r = <<r[1], r[2]>> /\ r[1] \in U /\ r[2] \in U /\ r[1] <= r[2]
        /\ r[1] \in Int /\ r[2] \in Int
        /\ \A i \in Int : r[1] <= i /\ i <= r[2] => i \in U
        /\ r[1] - 1 \notin U /\ r[2] + 1 \notin U
    BY <1>1, StretchFacts
  <2>2. PICK q \in Stretches(S) : Length(q) > c /\ q[1] <= r[1] /\ r[1] <= q[2]
    BY <1>1, <2>1
  <2>3. /\ q = <<q[1], q[2]>> /\ q[1] \in Int /\ q[2] \in Int
        /\ q[1] - 1 \notin S /\ q[2] + 1 \notin S
    BY <1>1, StretchFacts
  <2>4. \A i \in Int : q[1] <= i /\ i <= q[2] => i \in U
    BY <1>1, <2>2
  <2>5. q[1] = r[1]
    <3> SUFFICES ASSUME q[1] < r[1] PROVE FALSE
      BY <2>1, <2>2, <2>3
    <3>1. r[1] - 1 \in Int /\ q[1] <= r[1] - 1 /\ r[1] - 1 <= q[2]
      BY <2>1, <2>2, <2>3
    <3> QED
      BY <2>1, <2>4, <3>1
  <2>6. ~(q[2] < r[2])
    <3> SUFFICES ASSUME q[2] < r[2] PROVE FALSE
      OBVIOUS
    <3>1. q[2] + 1 \in Int /\ r[1] <= q[2] + 1 /\ q[2] + 1 <= r[2]
      BY <2>1, <2>2, <2>3
    <3> QED
      BY <1>1, <2>1, <2>3, <3>1
  <2>7. ~(r[2] < q[2])
    <3> SUFFICES ASSUME r[2] < q[2] PROVE FALSE
      OBVIOUS
    <3>1. r[2] + 1 \in Int /\ q[1] <= r[2] + 1 /\ r[2] + 1 <= q[2]
      BY <2>1, <2>2, <2>3, <2>5
    <3> QED
      BY <2>1, <2>4, <3>1
  <2>8. q[2] = r[2]
    BY <2>1, <2>3, <2>6, <2>7
  <2>9. q = r
    BY <2>1, <2>3, <2>5, <2>8, Zenon
  <2> QED
    BY <1>2, <2>2, <2>9
<1> QED
  BY <1>3, <1>4 DEF U

-----------------------------------------------------------------------------
(* A run, bit by bit.                                                      *)

\* The next bit is that of the run: the run is longer by one.
LEMMA RunGoesOn ==
  ASSUME NEW t \in Trace, NEW n \in Nat, n < Len(t), NEW len, NEW cs \in BOOLEAN,
         Run(t, n, len, cs), t[n + 1] <=> cs
  PROVE  Run(t, n + 1, len + 1, cs)
<1>1. len \in 0..n /\ (n = 0 => len = 0)
  BY DEF Run
<1>2. ASSUME NEW i \in Int, (n + 1) - (len + 1) < i, i <= n + 1
      PROVE  t[i] <=> cs
  <2>1. CASE i = n + 1
    BY <2>1
  <2>2. CASE i # n + 1
    <3>1. n > 0 /\ n - len < i /\ i <= n
      BY <1>1, <1>2, <2>2
    <3> QED
      BY <3>1 DEF Run
  <2> QED
    BY <2>1, <2>2
<1>3. (n + 1) - (len + 1) = n - len /\ len + 1 \in 0..(n + 1) /\ len + 1 > 0
  BY <1>1
<1>4. n - len > 0 => (t[n - len] <=> ~cs)
  BY <1>1 DEF Run
<1> QED
  BY <1>2, <1>3, <1>4 DEF Run

\* The next bit is another one: it begins a run of its own.
LEMMA RunTurns ==
  ASSUME NEW t \in Trace, NEW n \in Nat, n < Len(t), NEW len, NEW cs \in BOOLEAN,
         Run(t, n, len, cs), ~(t[n + 1] <=> cs)
  PROVE  Run(t, n + 1, 1, ~cs)
<1>1. \A i \in Int : n < i /\ i <= n + 1 => i = n + 1
  OBVIOUS
<1>2. (n + 1) - 1 = n /\ 1 \in 0..(n + 1) /\ n + 1 \in 1..Len(t)
  BY TraceDomain
<1>3. t[n + 1] \in BOOLEAN
  BY <1>2, TraceDomain
<1>4. n > 0 => (t[n] <=> cs)
  <2> SUFFICES ASSUME n > 0 PROVE t[n] <=> cs
    OBVIOUS
  <2>1. len \in 0..n /\ len > 0
    BY DEF Run
  <2>2. n \in Int /\ n - len < n /\ n <= n
    BY <2>1
  <2> QED
    BY <2>2 DEF Run
<1>5. \A i \in Int : (n + 1) - 1 < i /\ i <= n + 1 => (t[i] <=> ~cs)
  BY <1>1, <1>2, <1>3
<1> QED
  BY <1>2, <1>4, <1>5 DEF Run

\* A run that is over: received packets are a stretch of the trace.
LEMMA RunIsStretch ==
  ASSUME NEW t \in Trace, NEW n \in Nat \ {0}, n <= Len(t), NEW len,
         Run(t, n, len, TRUE), n = Len(t) \/ ~t[n + 1]
  PROVE  <<n - len + 1, n>> \in Stretches(Ones(t))
<1> DEFINE r == <<n - len + 1, n>>
<1>1. /\ len \in 0..n /\ len > 0
      /\ \A i \in Int : n - len < i /\ i <= n => t[i]
      /\ n - len > 0 => ~t[n - len]
  BY DEF Run
<1>2. r = <<r[1], r[2]>> /\ r[1] = n - len + 1 /\ r[2] = n
  OBVIOUS
<1> HIDE DEF r
<1>3. ASSUME NEW i \in Int, r[1] <= i, i <= r[2]
      PROVE  i \in Ones(t)
  <2>1. n - len < i /\ i <= n /\ 1 <= i /\ i <= Len(t)
    BY <1>1, <1>2, <1>3, TraceDomain
  <2> QED
    BY <1>1, <2>1, TraceDomain
<1>4. r[1] \in Int /\ r[2] \in Int /\ r[1] <= r[2]
  BY <1>1, <1>2
<1>5. r[1] - 1 \notin Ones(t)
  <2>1. r[1] - 1 = n - len /\ n - len \in Int
    BY <1>1, <1>2
  <2> QED
    BY <1>1, <2>1, TraceDomain
<1>6. r[2] + 1 \notin Ones(t)
  <2>1. r[2] + 1 = n + 1 /\ n + 1 \in Int
    BY <1>2
  <2>2. n + 1 \in Ones(t) => n + 1 <= Len(t) /\ t[n + 1]
    BY <2>1, TraceDomain
  <2>3. Len(t) \in Nat
    BY TraceDomain
  <2> QED
    BY <2>1, <2>2, <2>3
<1>7. r[1] \in Ones(t) /\ r[2] \in Ones(t) /\ Ones(t) \in SUBSET Int
  BY <1>3, <1>4, TraceDomain
<1>8. r \in Stretches(Ones(t))
  BY <1>2, <1>3, <1>4, <1>5, <1>6, <1>7, StretchFacts
<1> QED
  BY <1>8 DEF r

\* A run that is over is long, or has nothing of a long one.
LEMMA RunIsOver ==
  ASSUME NEW t \in Trace, NEW c \in Nat, NEW n \in Nat, n <= Len(t), NEW len, NEW cs \in BOOLEAN,
         Run(t, n, len, cs), n < Len(t) => (t[n + 1] <=> ~cs)
  PROVE  /\ cs /\ len > c => \A i \in Int : n - len < i /\ i <= n => i \in Long(t, c)
         /\ ~cs \/ ~(len > c) => \A i \in Int : n - len < i /\ i <= n => i \notin Long(t, c)
<1>0. len \in 0..n
  BY DEF Run
<1>1. CASE n = 0
  <2>1. len = 0
    BY <1>0, <1>1
  <2> QED
    BY <1>1, <2>1
<1>2. CASE n > 0 /\ cs
  <2> DEFINE r == <<n - len + 1, n>>
  <2>0. n = Len(t) \/ ~t[n + 1]
    BY <1>2, TraceDomain
  <2>1. r \in Stretches(Ones(t))
    <3>1. Run(t, n, len, TRUE) /\ n \in Nat \ {0}
      BY <1>2 DEF Run
    <3> QED
      BY <2>0, <3>1, RunIsStretch
  <2>2. r[1] = n - len + 1 /\ r[2] = n /\ Length(r) = len
    BY <1>0 DEF Length
  <2> HIDE DEF r
  <2>3. \A i \in Int : n - len < i /\ i <= n <=> r[1] <= i /\ i <= r[2]
    BY <1>0, <2>2
  <2>4. ASSUME len > c, NEW i \in Int, n - len < i, i <= n
        PROVE  i \in Long(t, c)
    BY <2>1, <2>2, <2>3, <2>4, LongFacts
  <2>5. ASSUME ~(len > c), NEW i \in Int, n - len < i, i <= n, i \in Long(t, c)
        PROVE  FALSE
    <3>1. PICK q \in Stretches(Ones(t)) : Length(q) > c /\ q[1] <= i /\ i <= q[2]
      BY <2>5, LongFacts
    <3>2. q = r
      BY <2>1, <2>3, <2>5, <3>1, TraceDomain, StretchesMeet
    <3> QED
      BY <2>2, <2>5, <3>1, <3>2
  <2> QED
    BY <1>2, <2>4, <2>5
<1>3. CASE n > 0 /\ ~cs
  <2>1. \A i \in Int : n - len < i /\ i <= n => ~t[i]
    BY <1>3 DEF Run
  <2> QED
    BY <1>3, <2>1, LongFacts, TraceDomain
<1> QED
  BY <1>1, <1>2, <1>3

-----------------------------------------------------------------------------
(* The tables of ParamBasicOnOff, burst by burst.                          *)

\* The fields of a ParamBasicOnOff.
OnOff(o) ==
  o = [success_length |-> o.success_length, error_length |-> o.error_length,
       success_total |-> o.success_total, error_total |-> o.error_total,
       current_state |-> o.current_state, length |-> o.length]

\* addChars adds to the table of the bit, and to nothing else.
LEMMA AddChars ==
  ASSUME NEW o, OnOff(o), NEW b \in BOOLEAN, NEW len
  PROVE  LET q == onoff_addChars(o, b, len) IN
         /\ OnOff(q) /\ q.current_state = o.current_state /\ q.length = o.length
         /\ b => /\ q.success_length = o.success_length (+) SetToBag({len})
                 /\ q.success_total = o.success_total + 1
                 /\ q.error_length = o.error_length /\ q.error_total = o.error_total
         /\ ~b => /\ q.error_length = o.error_length (+) SetToBag({len})
                  /\ q.error_total = o.error_total + 1
                  /\ q.success_length = o.success_length /\ q.success_total = o.success_total
  BY DEF OnOff, onoff_addChars

\* One more stretch, in the table.
LEMMA StretchCounted ==
  ASSUME NEW S \in SUBSET Int, IsFiniteSet(S), NEW a \in Int, NEW b \in Int, a <= b,
         \A x \in S : x < a - 1,
         NEW U, U = S \cup (a..b)
  PROVE  /\ LengthsOf(Stretches(U)) = LengthsOf(Stretches(S)) (+) SetToBag({b - a + 1})
         /\ Cardinality(Stretches(U)) = Cardinality(Stretches(S)) + 1
<1> DEFINE rs == Stretches(S)
           r == <<a, b>>
<1>1. IsFiniteSet(rs)
  BY StretchesFinite
<1>2. Stretches(U) = rs \cup {r} /\ r \notin rs
  BY OneMoreStretch
<1>3. Length(r) = b - a + 1
  BY DEF Length
<1> HIDE DEF rs, r
<1>4. /\ LengthsOf(rs \cup {r}) = LengthsOf(rs) (+) SetToBag({Length(r)})
      /\ Cardinality(rs \cup {r}) = Cardinality(rs) + 1
  BY <1>1, <1>2, OneMoreLength
<1> QED
  BY <1>2, <1>3, <1>4 DEF rs

\* A part of 1..k is finite.
LEMMA FiniteParts ==
  ASSUME NEW k \in Nat, NEW U
  PROVE  /\ IsFiniteSet(U \cap (1..k)) /\ IsFiniteSet((1..k) \ U)
         /\ U \cap (1..k) \in SUBSET Int /\ (1..k) \ U \in SUBSET Int
<1>1. IsFiniteSet(1..k)
  BY FS_Interval
<1>2. U \cap (1..k) \in SUBSET (1..k) /\ (1..k) \ U \in SUBSET (1..k)
  OBVIOUS
<1> QED
  BY <1>1, <1>2, FS_Subset

\* An error-free burst is settled.
LEMMA FreeSettles ==
  ASSUME NEW t \in Trace, NEW c, NEW o, OnOff(o), NEW p \in Nat, NEW n \in Nat, p < n,
         Settled(o, t, c, p),
         \A i \in Int : p < i /\ i <= n => i \in Long(t, c),
         p = 0 \/ p \notin Long(t, c)
  PROVE  Settled(onoff_addChars(o, TRUE, n - p), t, c, n)
<1> DEFINE L == Long(t, c)
           S == L \cap (1..p)
           U == L \cap (1..n)
           q == onoff_addChars(o, TRUE, n - p)
<1>1. L \in SUBSET Int
  BY LongFacts
<1>2. \A i \in Int : p < i /\ i <= n => i \in L
  OBVIOUS
<1>3. p = 0 \/ p \notin L
  OBVIOUS
<1> HIDE DEF L
<1>4. U = S \cup ((p + 1)..n)
  BY <1>1, <1>2
<1>5. (1..n) \ L = (1..p) \ L
  BY <1>1, <1>2
<1>6. \A x \in S : x < (p + 1) - 1
  BY <1>1, <1>3
<1>7. S \in SUBSET Int /\ IsFiniteSet(S)
  BY FiniteParts
<1>8. n - (p + 1) + 1 = n - p
  OBVIOUS
<1>9. /\ LengthsOf(Stretches(U)) = LengthsOf(Stretches(S)) (+) SetToBag({n - p})
      /\ Cardinality(Stretches(U)) = Cardinality(Stretches(S)) + 1
  <2> HIDE DEF S, U
  <2>1. p + 1 \in Int /\ n \in Int /\ p + 1 <= n
    OBVIOUS
  <2>2. /\ LengthsOf(Stretches(U)) = LengthsOf(Stretches(S)) (+) SetToBag({n - (p + 1) + 1})
        /\ Cardinality(Stretches(U)) = Cardinality(Stretches(S)) + 1
    BY <1>4, <1>6, <1>7, <2>1, StretchCounted
  <2> QED
    BY <1>8, <2>2
<1>10. /\ o.success_length = LengthsOf(Stretches(S))
       /\ o.error_length = LengthsOf(Stretches((1..p) \ L))
       /\ o.success_total = Cardinality(Stretches(S))
       /\ o.error_total = Cardinality(Stretches((1..p) \ L))
  BY DEF Settled, L
<1>11. /\ q.success_length = o.success_length (+) SetToBag({n - p})
       /\ q.success_total = o.success_total + 1
       /\ q.error_length = o.error_length /\ q.error_total = o.error_total
  BY AddChars
<1> HIDE DEF q, S
<1>12. /\ q.success_length = LengthsOf(Stretches(U))
       /\ q.error_length = LengthsOf(Stretches((1..n) \ L))
       /\ q.success_total = Cardinality(Stretches(U))
       /\ q.error_total = Cardinality(Stretches((1..n) \ L))
  BY <1>5, <1>9, <1>10, <1>11
<1> QED
  BY <1>12 DEF Settled, L, q

\* An error burst is settled.
LEMMA ErrorSettles ==
  ASSUME NEW t \in Trace, NEW c, NEW o, OnOff(o), NEW p \in Nat, NEW n \in Nat, p < n,
         Settled(o, t, c, p),
         \A i \in Int : p < i /\ i <= n => i \notin Long(t, c),
         p = 0 \/ p \in Long(t, c)
  PROVE  Settled(onoff_addChars(o, FALSE, n - p), t, c, n)
<1> DEFINE L == Long(t, c)
           S == (1..p) \ L
           U == (1..n) \ L
           q == onoff_addChars(o, FALSE, n - p)
<1>1. L \in SUBSET Int
  BY LongFacts
<1>2. \A i \in Int : p < i /\ i <= n => i \notin L
  OBVIOUS
<1>3. p = 0 \/ p \in L
  OBVIOUS
<1> HIDE DEF L
<1>4. U = S \cup ((p + 1)..n)
  BY <1>1, <1>2
<1>5. L \cap (1..n) = L \cap (1..p)
  BY <1>1, <1>2
<1>6. \A x \in S : x < (p + 1) - 1
  BY <1>1, <1>3
<1>7. S \in SUBSET Int /\ IsFiniteSet(S)
  BY FiniteParts
<1>8. n - (p + 1) + 1 = n - p
  OBVIOUS
<1>9. /\ LengthsOf(Stretches(U)) = LengthsOf(Stretches(S)) (+) SetToBag({n - p})
      /\ Cardinality(Stretches(U)) = Cardinality(Stretches(S)) + 1
  <2> HIDE DEF S, U
  <2>1. p + 1 \in Int /\ n \in Int /\ p + 1 <= n
    OBVIOUS
  <2>2. /\ LengthsOf(Stretches(U)) = LengthsOf(Stretches(S)) (+) SetToBag({n - (p + 1) + 1})
        /\ Cardinality(Stretches(U)) = Cardinality(Stretches(S)) + 1
    BY <1>4, <1>6, <1>7, <2>1, StretchCounted
  <2> QED
    BY <1>8, <2>2
<1>10. /\ o.success_length = LengthsOf(Stretches(L \cap (1..p)))
       /\ o.error_length = LengthsOf(Stretches(S))
       /\ o.success_total = Cardinality(Stretches(L \cap (1..p)))
       /\ o.error_total = Cardinality(Stretches(S))
  BY DEF Settled, L
<1>11. /\ q.error_length = o.error_length (+) SetToBag({n - p})
       /\ q.error_total = o.error_total + 1
       /\ q.success_length = o.success_length /\ q.success_total = o.success_total
  BY AddChars
<1> HIDE DEF q, S, U
<1>12. /\ q.success_length = LengthsOf(Stretches(L \cap (1..n)))
       /\ q.error_length = LengthsOf(Stretches(U))
       /\ q.success_total = Cardinality(Stretches(L \cap (1..n)))
       /\ q.error_total = Cardinality(Stretches(U))
  BY <1>5, <1>9, <1>10, <1>11
<1> QED
  BY <1>12 DEF Settled, L, q, U

\* Nothing is settled at first.
LEMMA NothingSettled ==
  ASSUME NEW t, NEW c
  PROVE  Settled(NoBursts, t, c, 0) /\ OnOff(NoBursts)
<1>1. Long(t, c) \cap (1..0) = {} /\ (1..0) \ Long(t, c) = {}
  OBVIOUS
<1>2. /\ NoBursts.success_length = EmptyBag /\ NoBursts.error_length = EmptyBag
      /\ NoBursts.success_total = 0 /\ NoBursts.error_total = 0 /\ OnOff(NoBursts)
  BY DEF NoBursts, OnOff
<1> QED
  BY <1>1, <1>2, NoStretches DEF Settled

\* Only the tables count.
LEMMA SettledSame ==
  ASSUME NEW t, NEW c, NEW k, NEW o, NEW q, Settled(o, t, c, k),
         q.success_length = o.success_length, q.error_length = o.error_length,
         q.success_total = o.success_total, q.error_total = o.error_total
  PROVE  Settled(q, t, c, k)
  BY DEF Settled

-----------------------------------------------------------------------------
(* ParamBasicOnOff, bit by bit.                                            *)

\* After n bits: the last run is not settled yet.
OnOffInv(o, t, n) ==
  /\ OnOff(o) /\ o.current_state \in BOOLEAN
  /\ Run(t, n, o.length, o.current_state)
  /\ Settled(o, t, 0, n - o.length)
  /\ ~o.current_state /\ n - o.length > 0 => n - o.length \in Long(t, 0)

\* Before the first bit, nothing is counted and there is no run.
LEMMA OnOffBegins ==
  ASSUME NEW t
  PROVE  OnOffInv(NoBursts, t, 0)
<1>1. NoBursts.current_state = FALSE /\ NoBursts.length = 0
  BY DEF NoBursts
<1>2. Run(t, 0, 0, FALSE)
  BY DEF Run
<1>3. 0 - NoBursts.length = 0 /\ ~(0 > 0) /\ FALSE \in BOOLEAN
  BY <1>1
<1>4. Settled(NoBursts, t, 0, 0) /\ OnOff(NoBursts)
  BY NothingSettled
<1> QED
  BY <1>1, <1>2, <1>3, <1>4, Zenon DEF OnOffInv

\* The last run is over.
LEMMA OnOffRunEnds ==
  ASSUME NEW t \in Trace, NEW n \in Nat, n <= Len(t), NEW o, OnOffInv(o, t, n),
         n < Len(t) => (t[n + 1] <=> ~o.current_state)
  PROVE  LET q == IF o.length # 0 THEN onoff_addChars(o, o.current_state, o.length) ELSE o IN
         /\ OnOff(q) /\ Settled(q, t, 0, n)
         /\ o.current_state /\ n > 0 => n \in Long(t, 0)
<1> DEFINE len == o.length
           cs == o.current_state
           p == n - len
<1>1. /\ OnOff(o) /\ cs \in BOOLEAN /\ Run(t, n, len, cs) /\ len \in 0..n
      /\ (n > 0 => len > 0) /\ p \in Nat /\ n - p = len
      /\ Settled(o, t, 0, p) /\ (~cs /\ p > 0 => p \in Long(t, 0))
  BY DEF OnOffInv, Run
<1>2. n < Len(t) => (t[n + 1] <=> ~cs)
  OBVIOUS
<1> HIDE DEF len, cs, p
<1>3. /\ cs /\ len > 0 => \A i \in Int : n - len < i /\ i <= n => i \in Long(t, 0)
      /\ ~cs \/ ~(len > 0) => \A i \in Int : n - len < i /\ i <= n => i \notin Long(t, 0)
  BY <1>1, <1>2, RunIsOver
<1>4. CASE len = 0
  BY <1>1, <1>4 DEF len, p
<1>5. CASE len > 0 /\ cs
  <2>1. \A i \in Int : p < i /\ i <= n => i \in Long(t, 0)
    BY <1>1, <1>3, <1>5 DEF p
  <2>2. p = 0 \/ p \notin Long(t, 0)
    <3>1. p > 0 => (t[p] <=> ~cs)
      BY <1>1, <1>5 DEF Run, p
    <3>2. p \in Int
      BY <1>1
    <3> QED
      BY <1>1, <1>5, <3>1, <3>2, LongFacts, TraceDomain
  <2>3. Settled(onoff_addChars(o, TRUE, len), t, 0, n)
    <3>1. p < n
      BY <1>1, <1>5
    <3>2. Settled(onoff_addChars(o, TRUE, n - p), t, 0, n)
      BY <1>1, <2>1, <2>2, <3>1, FreeSettles
    <3> QED
      BY <1>1, <3>2
  <2>4. OnOff(onoff_addChars(o, TRUE, len))
    BY <1>1, AddChars
  <2>5. n \in Long(t, 0)
    BY <1>1, <1>5, <2>1
  <2>6. o.length # 0 /\ o.current_state = TRUE /\ o.length = len
    BY <1>1, <1>5 DEF len, cs
  <2> QED
    BY <2>3, <2>4, <2>5, <2>6, Zenon
<1>6. CASE len > 0 /\ ~cs
  <2>1. \A i \in Int : p < i /\ i <= n => i \notin Long(t, 0)
    BY <1>1, <1>3, <1>6 DEF p
  <2>2. p = 0 \/ p \in Long(t, 0)
    BY <1>1, <1>6
  <2>3. Settled(onoff_addChars(o, FALSE, len), t, 0, n)
    <3>1. p < n
      BY <1>1, <1>6
    <3>2. Settled(onoff_addChars(o, FALSE, n - p), t, 0, n)
      BY <1>1, <2>1, <2>2, <3>1, ErrorSettles
    <3> QED
      BY <1>1, <3>2
  <2>4. OnOff(onoff_addChars(o, FALSE, len))
    BY <1>1, AddChars
  <2>5. o.length # 0 /\ o.current_state = FALSE /\ o.length = len
    BY <1>1, <1>6 DEF len, cs
  <2> QED
    BY <2>3, <2>4, <2>5, Zenon
<1> QED
  BY <1>1, <1>4, <1>5, <1>6

\* One more bit.
LEMMA OnOffGrows ==
  ASSUME NEW t \in Trace, NEW n \in Nat, n < Len(t), NEW o, OnOffInv(o, t, n)
  PROVE  OnOffInv(onoff_addChar(o, t[n + 1]), t, n + 1)
<1> DEFINE cs == o.current_state
           b == t[n + 1]
           q == onoff_addChar(o, b)
<1>1. /\ OnOff(o) /\ cs \in BOOLEAN /\ Run(t, n, o.length, cs) /\ o.length \in 0..n
      /\ Settled(o, t, 0, n - o.length)
      /\ ~cs /\ n - o.length > 0 => n - o.length \in Long(t, 0)
  BY DEF OnOffInv, Run
<1>2. b \in BOOLEAN
  BY TraceDomain
<1>3. CASE b = cs
  <2>1. /\ OnOff(q) /\ q.current_state = cs /\ q.length = o.length + 1
        /\ q.success_length = o.success_length /\ q.error_length = o.error_length
        /\ q.success_total = o.success_total /\ q.error_total = o.error_total
    BY <1>1, <1>3 DEF onoff_addChar, OnOff
  <2>2. Run(t, n + 1, o.length + 1, cs)
    <3>1. t[n + 1] <=> cs
      BY <1>3
    <3> QED
      BY <1>1, <3>1, RunGoesOn
  <2>3. (n + 1) - (o.length + 1) = n - o.length
    BY <1>1
  <2>4. Settled(q, t, 0, n - o.length)
    BY <1>1, <2>1, SettledSame
  <2> HIDE DEF q
  <2>5. (n + 1) - q.length = n - o.length
    BY <2>1, <2>3
  <2>6. OnOffInv(q, t, n + 1)
    BY <1>1, <2>1, <2>2, <2>4, <2>5, Zenon DEF OnOffInv
  <2> QED
    BY <2>6 DEF q
<1>4. CASE b # cs
  <2> DEFINE f == IF o.length # 0 THEN onoff_addChars(o, o.current_state, o.length) ELSE o
  <2>1. ~(t[n + 1] <=> cs)
    BY <1>1, <1>2, <1>4
  <2>2. n < Len(t) => (t[n + 1] <=> ~o.current_state)
    BY <2>1
  <2>3. OnOff(f) /\ Settled(f, t, 0, n) /\ (cs /\ n > 0 => n \in Long(t, 0))
    BY <2>2, OnOffRunEnds
  <2>4. q = [f EXCEPT !.current_state = b, !.length = 1]
    BY <1>4 DEF onoff_addChar
  <2> HIDE DEF f
  <2>5. /\ OnOff(q) /\ q.current_state = b /\ q.length = 1
        /\ q.success_length = f.success_length /\ q.error_length = f.error_length
        /\ q.success_total = f.success_total /\ q.error_total = f.error_total
    BY <2>3, <2>4 DEF OnOff
  <2>6. Run(t, n + 1, 1, ~cs)
    BY <1>1, <2>1, RunTurns
  <2>7. b = ~cs /\ (n + 1) - 1 = n
    BY <1>1, <1>2, <1>4
  <2>8. Settled(q, t, 0, n)
    BY <2>3, <2>5, SettledSame
  <2>9. ~b /\ n > 0 => n \in Long(t, 0)
    BY <1>1, <2>3, <2>7
  <2> HIDE DEF q, b, cs
  <2>10. (n + 1) - q.length = n
    BY <2>5, <2>7
  <2>11. Run(t, n + 1, q.length, q.current_state)
    BY <2>5, <2>6, <2>7, Zenon
  <2>12. OnOffInv(q, t, n + 1)
    BY <1>2, <2>5, <2>8, <2>9, <2>10, <2>11, Zenon DEF OnOffInv
  <2> QED
    BY <2>12 DEF q, b
<1> QED
  BY <1>3, <1>4

\* finalize settles the last run.
LEMMA OnOffEnds ==
  ASSUME NEW t \in Trace, NEW o, OnOffInv(o, t, Len(t))
  PROVE  Settled(onoff_flush(o), t, 0, Len(t))
<1> DEFINE f == IF o.length # 0 THEN onoff_addChars(o, o.current_state, o.length) ELSE o
           q == onoff_flush(o)
<1>1. o.current_state \in BOOLEAN /\ Len(t) \in Nat
  BY TraceDomain DEF OnOffInv
<1>2. OnOff(f) /\ Settled(f, t, 0, Len(t))
  BY <1>1, OnOffRunEnds
<1>3. q = [f EXCEPT !.current_state = ~o.current_state, !.length = 1]
  BY <1>1 DEF onoff_flush, onoff_addChar
<1> HIDE DEF f, q
<1>4. /\ q.success_length = f.success_length /\ q.error_length = f.error_length
      /\ q.success_total = f.success_total /\ q.error_total = f.error_total
  BY <1>2, <1>3 DEF OnOff
<1>5. Settled(q, t, 0, Len(t))
  BY <1>2, <1>4, SettledSame
<1> QED
  BY <1>5 DEF q

-----------------------------------------------------------------------------
(* The second round of ParamBasicMTA.                                      *)

\* The fields of a ParamBasicMTA.
Mta(m) ==
  m = [current_state |-> m.current_state, length |-> m.length,
       length_error |-> m.length_error, second_round |-> m.second_round,
       C |-> m.C, onoff |-> m.onoff, markov |-> m.markov]

\* Of the first p bits, the last length_error ones are an error burst that
\* may go on; what is in front of it is settled.
Pending(m, t, p) ==
  /\ OnOff(m.onoff) /\ m.onoff.length = 0
  /\ m.length_error \in 0..p
  /\ Settled(m.onoff, t, m.C, p - m.length_error)
  /\ \A i \in Int : p - m.length_error < i /\ i <= p => i \notin Long(t, m.C)
  /\ p - m.length_error = 0 \/ p - m.length_error \in Long(t, m.C)

\* After n bits of the second round.
MtaInv(m, t, n) ==
  /\ Mta(m) /\ m.current_state \in BOOLEAN /\ m.second_round = TRUE /\ m.C \in Nat
  /\ Run(t, n, m.length, m.current_state)
  /\ Pending(m, t, n - m.length)

\* The invariant of the second round does not read the other fields.
LEMMA PendingSame ==
  ASSUME NEW t, NEW p, NEW m, NEW q, Pending(m, t, p),
         q.onoff = m.onoff, q.length_error = m.length_error, q.C = m.C
  PROVE  Pending(q, t, p)
  BY DEF Pending

\* A run that holds nothing of an error-free burst joins the error burst.
LEMMA RunJoins ==
  ASSUME NEW t, NEW m, NEW p \in Nat, NEW n \in Nat, p <= n, Pending(m, t, p),
         \A i \in Int : p < i /\ i <= n => i \notin Long(t, m.C),
         NEW q, q.onoff = m.onoff, q.C = m.C, q.length_error = m.length_error + (n - p)
  PROVE  Pending(q, t, n)
<1>1. /\ OnOff(m.onoff) /\ m.onoff.length = 0 /\ m.length_error \in 0..p
      /\ Settled(m.onoff, t, m.C, p - m.length_error)
      /\ \A i \in Int : p - m.length_error < i /\ i <= p => i \notin Long(t, m.C)
      /\ p - m.length_error = 0 \/ p - m.length_error \in Long(t, m.C)
  BY DEF Pending
<1>2. q.length_error \in 0..n /\ n - q.length_error = p - m.length_error
  BY <1>1
<1>3. \A i \in Int : n - q.length_error < i /\ i <= n => i \notin Long(t, q.C)
  <2> SUFFICES ASSUME NEW i \in Int, n - q.length_error < i, i <= n
               PROVE  i \notin Long(t, m.C)
    OBVIOUS
  <2>1. CASE i <= p
    BY <1>1, <1>2, <2>1
  <2>2. CASE ~(i <= p)
    BY <2>2
  <2> QED
    BY <2>1, <2>2
<1> QED
  BY <1>1, <1>2, <1>3 DEF Pending

\* What mta_endOfRun leaves alone.
LEMMA EndOfRunFields ==
  ASSUME NEW m, Mta(m)
  PROVE  LET q == mta_endOfRun(m) IN
         /\ Mta(q) /\ q.current_state = m.current_state /\ q.length = m.length
         /\ q.second_round = m.second_round /\ q.C = m.C
         /\ m.length > m.C =>
              /\ q.onoff = onoff_addChars(
                             IF m.length_error # 0
                             THEN onoff_addChars(m.onoff, FALSE, m.length_error) ELSE m.onoff,
                             TRUE, m.length)
              /\ q.length_error = 0 /\ q.markov = m.markov
         /\ ~(m.length > m.C) =>
              /\ q.onoff = m.onoff /\ q.length_error = m.length_error + m.length
              /\ q.markov = markov_addSuccesses(m.markov, m.length)
  BY DEF Mta, mta_endOfRun

\* The error burst in front of a long run is settled.
LEMMA PendingSettles ==
  ASSUME NEW t \in Trace, NEW m, NEW p \in Nat, Pending(m, t, p)
  PROVE  LET e == IF m.length_error # 0
                  THEN onoff_addChars(m.onoff, FALSE, m.length_error) ELSE m.onoff IN
         OnOff(e) /\ e.length = 0 /\ Settled(e, t, m.C, p)
<1> DEFINE k == p - m.length_error
<1>1. /\ OnOff(m.onoff) /\ m.onoff.length = 0 /\ m.length_error \in 0..p
      /\ Settled(m.onoff, t, m.C, k)
      /\ \A i \in Int : k < i /\ i <= p => i \notin Long(t, m.C)
      /\ k = 0 \/ k \in Long(t, m.C)
      /\ k \in Nat /\ p - k = m.length_error
  BY DEF Pending
<1>2. CASE m.length_error = 0
  <2>1. k = p
    BY <1>2
  <2> QED
    BY <1>1, <1>2, <2>1
<1>3. CASE m.length_error # 0
  <2> DEFINE e == onoff_addChars(m.onoff, FALSE, m.length_error)
  <2>1. OnOff(e) /\ e.length = 0
    BY <1>1, AddChars
  <2>2. Settled(e, t, m.C, p)
    <3> HIDE DEF k
    <3>1. k < p
      BY <1>1, <1>3
    <3>2. Settled(onoff_addChars(m.onoff, FALSE, p - k), t, m.C, p)
      BY <1>1, <3>1, ErrorSettles
    <3> QED
      BY <1>1, <3>2
  <2> HIDE DEF e
  <2> QED
    BY <1>3, <2>1, <2>2 DEF e
<1> QED
  BY <1>2, <1>3

\* The end of a run of received packets.
LEMMA EndOfRun ==
  ASSUME NEW t \in Trace, NEW n \in Nat, n <= Len(t), NEW m, MtaInv(m, t, n),
         m.current_state, n < Len(t) => ~t[n + 1]
  PROVE  Pending(mta_endOfRun(m), t, n)
<1> DEFINE len == m.length
           c == m.C
           p == n - len
           q == mta_endOfRun(m)
<1>1. /\ Mta(m) /\ c \in Nat /\ Run(t, n, len, TRUE) /\ len \in 0..n /\ (n > 0 => len > 0)
      /\ Pending(m, t, p) /\ p \in Nat /\ p <= n /\ n - p = len
  <2>1. m.current_state = TRUE
    BY DEF MtaInv
  <2> QED
    BY <2>1 DEF MtaInv, Run
<1>2. /\ len > c => \A i \in Int : p < i /\ i <= n => i \in Long(t, c)
      /\ ~(len > c) => \A i \in Int : p < i /\ i <= n => i \notin Long(t, c)
  <2>1. n < Len(t) => (t[n + 1] <=> ~TRUE)
    OBVIOUS
  <2> HIDE DEF len, c
  <2> QED
    BY <1>1, <2>1, RunIsOver
<1>3. CASE len > c
  <2> DEFINE e == IF m.length_error # 0
                  THEN onoff_addChars(m.onoff, FALSE, m.length_error) ELSE m.onoff
  <2>1. OnOff(e) /\ e.length = 0 /\ Settled(e, t, c, p)
    <3> HIDE DEF p
    <3> QED
      BY <1>1, PendingSettles
  <2>2. q.onoff = onoff_addChars(e, TRUE, len) /\ q.length_error = 0 /\ q.C = c
    BY <1>1, <1>3, EndOfRunFields
  <2> HIDE DEF e, q, len, c, p
  <2>3. p < n
    BY <1>1, <1>3
  <2>4. p = 0 \/ p \notin Long(t, c)
    <3>1. p > 0 => (t[p] <=> ~TRUE)
      BY <1>1, <2>3 DEF Run, p
    <3> QED
      BY <1>1, <3>1, LongFacts, TraceDomain
  <2>5. Settled(onoff_addChars(e, TRUE, n - p), t, c, n)
    BY <1>1, <1>2, <1>3, <2>1, <2>3, <2>4, FreeSettles
  <2>6. OnOff(q.onoff) /\ q.onoff.length = 0
    <3>1. TRUE \in BOOLEAN
      OBVIOUS
    <3>2. OnOff(onoff_addChars(e, TRUE, len)) /\ onoff_addChars(e, TRUE, len).length = e.length
      BY <2>1, <3>1, AddChars
    <3> QED
      BY <2>1, <2>2, <3>2
  <2>7. n - q.length_error = n /\ q.length_error \in 0..n
    BY <2>2
  <2>8. n \in Long(t, c)
    BY <1>1, <1>2, <1>3, <2>3
  <2>9. Settled(q.onoff, t, q.C, n)
    BY <1>1, <2>2, <2>5
  <2>10. \A i \in Int : n < i /\ i <= n => i \notin Long(t, q.C)
    OBVIOUS
  <2>11. Pending(q, t, n)
    BY <2>2, <2>6, <2>7, <2>8, <2>9, <2>10, Zenon DEF Pending
  <2> QED
    BY <2>11 DEF q
<1>4. CASE ~(len > c)
  <2>1. q.onoff = m.onoff /\ q.length_error = m.length_error + len /\ q.C = c
    BY <1>1, <1>4, EndOfRunFields
  <2>2. \A i \in Int : p < i /\ i <= n => i \notin Long(t, c)
    BY <1>2, <1>4
  <2> HIDE DEF q, len, p
  <2>3. Pending(q, t, n)
    BY <1>1, <2>1, <2>2, RunJoins
  <2> QED
    BY <2>3 DEF q
<1> QED
  BY <1>3, <1>4

\* The end of a run of lost packets.
LEMMA EndOfLosses ==
  ASSUME NEW t \in Trace, NEW n \in Nat, n <= Len(t), NEW m, MtaInv(m, t, n),
         ~m.current_state, n < Len(t) => t[n + 1],
         NEW q, q.onoff = m.onoff, q.C = m.C, q.length_error = m.length_error + m.length
  PROVE  Pending(q, t, n)
<1> DEFINE len == m.length
           c == m.C
           p == n - len
<1>1. /\ c \in Nat /\ Run(t, n, len, FALSE) /\ len \in 0..n
      /\ Pending(m, t, p) /\ p \in Nat /\ p <= n /\ n - p = len
  <2>1. m.current_state = FALSE
    BY DEF MtaInv
  <2> QED
    BY <2>1 DEF MtaInv, Run
<1>2. \A i \in Int : p < i /\ i <= n => i \notin Long(t, c)
  <2>1. n < Len(t) => (t[n + 1] <=> ~FALSE)
    OBVIOUS
  <2> HIDE DEF len, c
  <2> QED
    BY <1>1, <2>1, RunIsOver
<1> HIDE DEF len, p
<1>3. q.length_error = m.length_error + (n - p)
  BY <1>1 DEF len
<1> QED
  BY <1>1, <1>2, <1>3, RunJoins

\* The second round, one more bit.
LEMMA MtaGrows ==
  ASSUME NEW t \in Trace, NEW n \in Nat, n < Len(t), NEW m, MtaInv(m, t, n)
  PROVE  MtaInv(mta_addChar(m, t[n + 1]), t, n + 1)
<1> DEFINE b == t[n + 1]
           q == mta_addChar(m, b)
           cs == m.current_state
<1>1. /\ Mta(m) /\ cs \in BOOLEAN /\ m.second_round = TRUE /\ m.C \in Nat
      /\ Run(t, n, m.length, cs) /\ m.length \in 0..n
      /\ Pending(m, t, n - m.length)
  BY DEF MtaInv, Run
<1>2. b \in BOOLEAN
  BY TraceDomain
<1>3. CASE b = cs
  <2>1. /\ Mta(q) /\ q.current_state = cs /\ q.second_round = TRUE /\ q.C = m.C
        /\ q.length = m.length + 1 /\ q.onoff = m.onoff /\ q.length_error = m.length_error
    <3> DEFINE e == IF b THEN m ELSE [m EXCEPT !.markov = markov_addChar(@, FALSE)]
    <3>1. q = [[e EXCEPT !.length = @ + 1] EXCEPT !.current_state = b]
      BY <1>1, <1>3 DEF mta_addChar
    <3>2. /\ Mta(e) /\ e.second_round = TRUE /\ e.C = m.C /\ e.length = m.length
          /\ e.onoff = m.onoff /\ e.length_error = m.length_error
      BY <1>1 DEF Mta
    <3> HIDE DEF e, b
    <3> QED
      BY <1>3, <3>1, <3>2 DEF Mta
  <2>2. Run(t, n + 1, m.length + 1, cs)
    <3>1. t[n + 1] <=> cs
      BY <1>3
    <3> QED
      BY <1>1, <3>1, RunGoesOn
  <2> HIDE DEF q
  <2>3. (n + 1) - q.length = n - m.length
    BY <1>1, <2>1
  <2>4. Pending(q, t, n - m.length)
    BY <1>1, <2>1, PendingSame
  <2>5. MtaInv(q, t, n + 1)
    BY <1>1, <2>1, <2>2, <2>3, <2>4, Zenon DEF MtaInv
  <2> QED
    BY <2>5 DEF q
<1>4. CASE b # cs
  <2>0. ~(t[n + 1] <=> cs) /\ b = ~cs
    BY <1>1, <1>2, <1>4
  <2>1. /\ Mta(q) /\ q.current_state = b /\ q.second_round = TRUE /\ q.C = m.C
        /\ q.length = 1 /\ Pending(q, t, n)
    <3>1. CASE cs
      <4> DEFINE e == mta_endOfRun(m)
      <4>1. /\ Mta(e) /\ e.second_round = TRUE /\ e.C = m.C
        BY <1>1, EndOfRunFields
      <4>2. Pending(e, t, n)
        BY <2>0, <3>1, EndOfRun
      <4>3. q = [[[e EXCEPT !.markov = markov_addChar(@, FALSE)] EXCEPT !.length = 1]
                   EXCEPT !.current_state = b]
        BY <1>1, <1>4, <3>1 DEF mta_addChar
      <4> HIDE DEF e, b
      <4>4. /\ Mta(q) /\ q.current_state = b /\ q.second_round = TRUE /\ q.C = m.C
            /\ q.length = 1 /\ q.onoff = e.onoff /\ q.length_error = e.length_error
        BY <4>1, <4>3 DEF Mta
      <4> HIDE DEF q
      <4> QED
        BY <4>1, <4>2, <4>4, PendingSame
    <3>2. CASE ~cs
      <4>1. q = [[[m EXCEPT !.length_error = @ + m.length] EXCEPT !.length = 1]
                   EXCEPT !.current_state = b]
        BY <1>1, <1>4, <3>2 DEF mta_addChar
      <4> HIDE DEF b
      <4>2. /\ Mta(q) /\ q.current_state = b /\ q.second_round = TRUE /\ q.C = m.C
            /\ q.length = 1 /\ q.onoff = m.onoff
            /\ q.length_error = m.length_error + m.length
        BY <1>1, <4>1 DEF Mta
      <4> HIDE DEF q
      <4>3. Pending(q, t, n)
        BY <2>0, <3>2, <4>2, EndOfLosses
      <4> QED
        BY <4>2, <4>3
    <3> QED
      BY <1>1, <3>1, <3>2
  <2>2. Run(t, n + 1, 1, ~cs)
    BY <1>1, <2>0, RunTurns
  <2> HIDE DEF q, b, cs
  <2>3. (n + 1) - q.length = n /\ Run(t, n + 1, q.length, q.current_state)
    <3>1. (n + 1) - 1 = n
      OBVIOUS
    <3> QED
      BY <2>0, <2>1, <2>2, <3>1, Zenon
  <2>4. MtaInv(q, t, n + 1)
    BY <1>1, <1>2, <2>1, <2>3, Zenon DEF MtaInv
  <2> QED
    BY <2>4 DEF q, b
<1> QED
  BY <1>3, <1>4

\* The second round begins.
LEMMA MtaBegins ==
  ASSUME NEW t, NEW m, Mta(m), m.current_state \in BOOLEAN, NEW threshold \in Nat
  PROVE  MtaInv(mta_nextRound(m, threshold), t, 0)
<1> DEFINE q == mta_nextRound(m, threshold)
<1>1. /\ Mta(q) /\ q.current_state = m.current_state /\ q.second_round = TRUE
      /\ q.C = threshold /\ q.onoff = NoBursts /\ q.length = 0 /\ q.length_error = 0
  <2>1. q = [m EXCEPT !.onoff = NoBursts, !.C = threshold, !.length = 0, !.length_error = 0,
                      !.second_round = TRUE]
    BY DEF mta_nextRound, onoff_reset
  <2> HIDE DEF q
  <2> QED
    BY <2>1 DEF Mta
<1> HIDE DEF q
<1>2. Settled(NoBursts, t, threshold, 0) /\ OnOff(NoBursts)
  BY NothingSettled
<1>3. NoBursts.length = 0
  BY DEF NoBursts
<1>4. 0 - q.length = 0 /\ 0 - q.length_error = 0 /\ 0 \in 0..0
  BY <1>1
<1>5. \A i \in Int : ~(0 < i /\ i <= 0)
  OBVIOUS
<1>6. Pending(q, t, 0)
  BY <1>1, <1>2, <1>3, <1>4, <1>5, Zenon DEF Pending
<1>7. Run(t, 0, q.length, q.current_state)
  BY <1>1 DEF Run
<1>8. MtaInv(q, t, 0)
  BY <1>1, <1>4, <1>6, <1>7, Zenon DEF MtaInv
<1> QED
  BY <1>8 DEF q

\* finalize settles what is pending, if there is a trace at all.
LEMMA MtaEnds ==
  ASSUME NEW t \in Trace, Len(t) > 0, NEW m, MtaInv(m, t, Len(t))
  PROVE  LET q == mta_finalize(m) IN
         /\ OnOff(q.onoff) /\ q.onoff.length = 0 /\ Settled(q.onoff, t, m.C, Len(t))
         /\ Mta(q) /\ q.C = m.C
<1> DEFINE n == Len(t)
           q == mta_finalize(m)
           cs == m.current_state
<1>1. /\ Mta(m) /\ cs \in BOOLEAN /\ m.C \in Nat /\ n \in Nat /\ n > 0
      /\ m.length \in 0..n /\ m.length > 0
  BY TraceDomain DEF MtaInv, Run
<1>2. CASE cs /\ m.length > m.C
  <2> DEFINE e == mta_endOfRun(m)
  <2>1. q = e
    BY <1>2 DEF mta_finalize
  <2>2. Pending(e, t, n)
    BY <1>1, <1>2, EndOfRun
  <2>3. Mta(e) /\ e.C = m.C /\ e.length_error = 0
    BY <1>1, <1>2, EndOfRunFields
  <2> HIDE DEF e, q
  <2>4. n - e.length_error = n
    BY <1>1, <2>3
  <2>5. OnOff(e.onoff) /\ e.onoff.length = 0 /\ Settled(e.onoff, t, m.C, n)
    BY <2>2, <2>3, <2>4 DEF Pending
  <2> QED
    BY <2>1, <2>3, <2>5 DEF q
<1>3. CASE ~(cs /\ m.length > m.C)
  <2> DEFINE e == IF cs THEN mta_endOfRun(m)
                  ELSE [m EXCEPT !.length_error = @ + m.length]
             o == onoff_addChars(e.onoff, FALSE, e.length_error)
  <2>1. q = [e EXCEPT !.onoff = o]
    <3>1. q = [e EXCEPT !.onoff = onoff_addChars(@, FALSE, e.length_error)]
      BY <1>3 DEF mta_finalize
    <3> HIDE DEF e
    <3> QED
      BY <3>1
  <2>2. Mta(e) /\ e.C = m.C /\ e.length_error = m.length_error + m.length /\ Pending(e, t, n)
    <3>1. CASE cs
      <4>1. Pending(mta_endOfRun(m), t, n)
        BY <1>1, <3>1, EndOfRun
      <4> QED
        BY <1>1, <1>3, <3>1, <4>1, EndOfRunFields
    <3>2. CASE ~cs
      <4>1. /\ Mta(e) /\ e.C = m.C /\ e.length_error = m.length_error + m.length
            /\ e.onoff = m.onoff
        BY <1>1, <3>2 DEF Mta
      <4> HIDE DEF e
      <4>2. Pending(e, t, n)
        BY <1>1, <3>2, <4>1, EndOfLosses
      <4> QED
        BY <4>1, <4>2
    <3> QED
      BY <1>1, <3>1, <3>2
  <2> HIDE DEF e
  <2>3. e.length_error \in 1..n
    <3>1. m.length_error \in Nat
      BY <1>1 DEF MtaInv, Pending
    <3>2. e.length_error \in 0..n
      BY <2>2 DEF Pending
    <3> QED
      BY <1>1, <2>2, <3>1, <3>2
  <2>4. OnOff(o) /\ o.length = 0 /\ Settled(o, t, e.C, n)
    <3>0. e.length_error # 0
      BY <1>1, <2>3
    <3>1. o = IF e.length_error # 0
              THEN onoff_addChars(e.onoff, FALSE, e.length_error) ELSE e.onoff
      BY <3>0, Zenon
    <3> QED
      BY <1>1, <2>2, <3>1, PendingSettles
  <2> HIDE DEF o
  <2>5. Mta(q) /\ q.onoff = o /\ q.C = e.C
    BY <2>1, <2>2 DEF Mta
  <2> HIDE DEF q
  <2> QED
    BY <2>2, <2>4, <2>5 DEF q
<1> QED
  BY <1>2, <1>3

-----------------------------------------------------------------------------
(* The threshold of ParamBasicMTA is a natural number.                     *)

\* A bounded set of naturals has a greatest member, and Max is that.
LEMMA MaxOfBounded ==
  ASSUME NEW S \in SUBSET Nat, S # {}, NEW b \in Nat, \A x \in S : x <= b
  PROVE  Max(S) \in S /\ \A x \in S : Max(S) >= x
<1> DEFINE T == {u \in Nat : \A x \in S : x <= u}
<1>1. PICK u \in T : \A v \in T : u <= v
  <2>1. b \in T /\ T \subseteq Nat
    OBVIOUS
  <2> HIDE DEF T
  <2> QED
    BY <2>1, LeastNumber
<1>2. u \in Nat /\ \A x \in S : x <= u
  OBVIOUS
<1>3. u \in S
  <2> SUFFICES ASSUME u \notin S PROVE FALSE
    OBVIOUS
  <2>1. \A x \in S : x \in Nat /\ x < u
    BY <1>2
  <2>2. u > 0
    <3>1. PICK x \in S : TRUE
      OBVIOUS
    <3>2. x \in Nat /\ x < u
      BY <2>1
    <3> QED
      BY <1>2, <3>2
  <2>3. u - 1 \in T
    BY <1>2, <2>1, <2>2
  <2> QED
    BY <1>1, <1>2, <2>3
<1>4. \E x \in S : \A y \in S : x >= y
  BY <1>2, <1>3
<1> QED
  BY <1>4 DEF Max

\* A sum of naturals is a natural, and none of them is larger.
LEMMA SumOfNaturals ==
  ASSUME NEW f, NEW B, IsFiniteSet(B), \A x \in B : f[x] \in Nat
  PROVE  SumFunctionOnSet(f, B) \in Nat /\ \A x \in B : f[x] <= SumFunctionOnSet(f, B)
<1> DEFINE Good == {n \in Nat : \A S \in SUBSET B : Cardinality(S) = n =>
                      /\ SumFunctionOnSet(f, S) \in Nat
                      /\ \A x \in S : f[x] <= SumFunctionOnSet(f, S)}
<1>1. ASSUME NEW S \in SUBSET B
      PROVE  IsFiniteSet(S) /\ Cardinality(S) \in Nat
  BY FS_Subset, FS_CardinalityType
<1>2. 0 \in Good
  <2> SUFFICES ASSUME NEW S \in SUBSET B, Cardinality(S) = 0
               PROVE  /\ SumFunctionOnSet(f, S) \in Nat
                      /\ \A x \in S : f[x] <= SumFunctionOnSet(f, S)
    OBVIOUS
  <2>1. S = {} /\ IsFiniteSet(S)
    BY <1>1, FS_EmptySet
  <2>2. SumFunctionOnSet(f, S) = 0
    BY <2>1, SumStep
  <2> QED
    BY <2>1, <2>2
<1>3. ASSUME NEW n \in Nat, n \in Good
      PROVE  n + 1 \in Good
  <2> SUFFICES ASSUME NEW S \in SUBSET B, Cardinality(S) = n + 1
               PROVE  /\ SumFunctionOnSet(f, S) \in Nat
                      /\ \A x \in S : f[x] <= SumFunctionOnSet(f, S)
    OBVIOUS
  <2> DEFINE y == Some(S)
             R == S \ {y}
  <2>1. IsFiniteSet(S) /\ S # {}
    BY <1>1, FS_EmptySet
  <2>2. y \in S /\ SumFunctionOnSet(f, S) = f[y] + SumFunctionOnSet(f, R)
    BY <2>1, SumStep
  <2>3. R \in SUBSET B /\ Cardinality(R) = n
    <3>1. Cardinality(R) = Cardinality(S) - 1
      BY <2>1, <2>2, FS_RemoveElement
    <3> QED
      BY <3>1
  <2>4. /\ SumFunctionOnSet(f, R) \in Nat
        /\ \A x \in R : f[x] <= SumFunctionOnSet(f, R)
    BY <1>3, <2>3
  <2>5. f[y] \in Nat /\ \A x \in S : f[x] \in Nat
    BY <2>2
  <2>6. \A x \in S : x = y \/ x \in R
    OBVIOUS
  <2> HIDE DEF y, R
  <2> QED
    BY <2>2, <2>4, <2>5, <2>6
<1> HIDE DEF Good
<1>4. \A n \in Nat : n \in Good
  BY <1>2, <1>3, Induction
<1>5. B \in SUBSET B /\ Cardinality(B) \in Good
  BY <1>1, <1>4
<1> QED
  BY <1>5 DEF Good

\* Bursts of a trace of k packets: their lengths, and how many there are.
LEMMA TableFacts ==
  ASSUME NEW k \in Nat, NEW S \in SUBSET (1..k)
  PROVE  LET d == LengthsOf(Stretches(S)) IN
         /\ IsFiniteSet(Stretches(S)) /\ Cardinality(Stretches(S)) \in Nat
         /\ DOMAIN d \in SUBSET (1..k) /\ IsFiniteSet(DOMAIN d)
         /\ \A l \in DOMAIN d : d[l] \in Nat \ {0}
         /\ Stretches(S) # {} => DOMAIN d # {}
         /\ DOMAIN d = {Length(r) : r \in Stretches(S)}
<1> DEFINE rs == Stretches(S)
           d == LengthsOf(rs)
<1>1. IsFiniteSet(1..k) /\ S \in SUBSET Int
  BY FS_Interval
<1>2. IsFiniteSet(rs) /\ Cardinality(rs) \in Nat
  BY <1>1, FS_Subset, StretchesFinite, FS_CardinalityType
<1>3. DOMAIN d = {Length(r) : r \in rs}
  BY DEF LengthsOf
<1>4. \A r \in rs : Length(r) \in 1..k
  <2> SUFFICES ASSUME NEW r \in rs PROVE Length(r) \in 1..k
    OBVIOUS
  <2>1. r[1] \in S /\ r[2] \in S /\ r[1] <= r[2]
    BY <1>1, StretchFacts
  <2>2. r[1] \in 1..k /\ r[2] \in 1..k
    BY <2>1
  <2> QED
    BY <2>1, <2>2 DEF Length
<1>5. DOMAIN d \in SUBSET (1..k)
  BY <1>3, <1>4
<1>6. IsFiniteSet(DOMAIN d)
  BY <1>1, <1>5, FS_Subset
<1>7. ASSUME NEW l \in DOMAIN d
      PROVE  d[l] \in Nat \ {0}
  <2> DEFINE W == {r \in rs : Length(r) = l}
  <2>1. d[l] = Cardinality(W)
    BY <1>3 DEF LengthsOf
  <2>2. W \in SUBSET rs /\ W # {}
    BY <1>3
  <2>3. Cardinality(W) \in Nat /\ Cardinality(W) # 0
    BY <1>2, <2>2, FS_Subset, FS_CardinalityType, FS_EmptySet
  <2> QED
    BY <2>1, <2>3
<1>8. rs # {} => DOMAIN d # {}
  BY <1>3
<1> QED
  BY <1>2, <1>3, <1>5, <1>6, <1>7, <1>8

\* The threshold of the second round is a natural number, for any trace.
LEMMA ThresholdIsNatural ==
  ASSUME NEW t \in Trace, NEW c, NEW o, Settled(o, t, c, Len(t)),
         NEW threshold \in Thresholds(o)
  PROVE  threshold \in Nat
<1> DEFINE k == Len(t)
           S == (1..k) \ Long(t, c)
           lengths == o.error_length
           n == o.error_total
           product == [l \in DOMAIN lengths |-> l * lengths[l]]
           sum == SumFunction(product)
           squares == SumFunction([l \in DOMAIN lengths |-> l * l * lengths[l]])
           d == n * squares - sum * sum
           reached(x) == n * x <= sum \/ (n * x - sum) * (n * x - sum) <= d
           exact(x) == n * x >= sum /\ (n * x - sum) * (n * x - sum) = d
           Cs == {x \in 0..(2 * Max(DOMAIN lengths)) : reached(x)}
           floor == IF n = 0 THEN 0 ELSE Max(Cs)
<1>1. threshold = floor \/ (threshold = floor - 1 /\ Cardinality(DOMAIN lengths) > 1 /\ exact(floor))
  BY DEF Thresholds
<1>2. k \in Nat /\ S \in SUBSET (1..k)
  BY TraceDomain
<1>3. lengths = LengthsOf(Stretches(S)) /\ n = Cardinality(Stretches(S))
  BY DEF Settled
<1>4. /\ n \in Nat /\ IsFiniteSet(Stretches(S))
      /\ DOMAIN lengths \in SUBSET (1..k) /\ IsFiniteSet(DOMAIN lengths)
      /\ \A l \in DOMAIN lengths : lengths[l] \in Nat \ {0}
      /\ Stretches(S) # {} => DOMAIN lengths # {}
  <2> HIDE DEF S, k, lengths, n
  <2> QED
    BY <1>2, <1>3, TableFacts
<1>5. sum \in Nat /\ \A l \in DOMAIN lengths : l * lengths[l] <= sum
  <2>1. DOMAIN product = DOMAIN lengths /\ \A l \in DOMAIN lengths : product[l] = l * lengths[l]
    OBVIOUS
  <2>2. \A l \in DOMAIN lengths : l \in Nat /\ lengths[l] \in Nat
    BY <1>2, <1>4
  <2>3. \A l \in DOMAIN lengths : l * lengths[l] \in Nat
    BY <2>2
  <2>4. sum = SumFunctionOnSet(product, DOMAIN product)
    BY DEF SumFunction
  <2> HIDE DEF product, sum, lengths
  <2> QED
    BY <1>4, <2>1, <2>3, <2>4, SumOfNaturals
<1>6. \A l \in DOMAIN lengths : l * lengths[l] >= 1
  <2> SUFFICES ASSUME NEW l \in DOMAIN lengths PROVE l * lengths[l] >= 1
    OBVIOUS
  <2>1. l \in Nat /\ lengths[l] \in Nat /\ l >= 1 /\ lengths[l] >= 1
    BY <1>2, <1>4
  <2> HIDE DEF lengths
  <2> QED
    BY <2>1
<1> HIDE DEF sum, squares, lengths, n, k, S
<1>7. CASE n = 0
  <2>1. floor = 0 /\ DOMAIN lengths \in SUBSET (1..k)
    BY <1>4, <1>7
  <2>2. Stretches(S) = {}
    BY <1>3, <1>4, <1>7, FS_EmptySet
  <2>3. Cardinality(DOMAIN lengths) = 0
    <3>1. lengths = EmptyBag
      BY <1>3, <2>2, NoStretches
    <3>2. DOMAIN lengths = {}
      BY <3>1 DEF EmptyBag, SetToBag
    <3> QED
      BY <3>2, FS_EmptySet
  <2> HIDE DEF floor, exact
  <2> QED
    BY <1>1, <2>1, <2>3
<1>8. CASE n # 0
  <2>1. DOMAIN lengths # {}
    <3>1. Stretches(S) # {}
      BY <1>3, <1>8, FS_EmptySet
    <3> QED
      BY <1>4, <3>1
  <2>2. Max(DOMAIN lengths) \in DOMAIN lengths
    <3>1. DOMAIN lengths \in SUBSET Nat /\ \A x \in DOMAIN lengths : x <= k
      BY <1>2, <1>4
    <3> QED
      BY <1>2, <2>1, <3>1, MaxOfBounded
  <2>3. 2 * Max(DOMAIN lengths) \in Nat
    BY <1>2, <1>4, <2>2
  <2>4. 0 \in Cs
    <3>1. n * 0 <= sum
      BY <1>4, <1>5
    <3> QED
      BY <2>3, <3>1
  <2>5. floor \in Cs
    <3>1. Cs \in SUBSET Nat /\ \A x \in Cs : x <= 2 * Max(DOMAIN lengths)
      BY <2>3
    <3> HIDE DEF Cs
    <3>2. Max(Cs) \in Cs
      BY <2>3, <2>4, <3>1, MaxOfBounded
    <3> QED
      BY <1>8, <3>2
  <2>6. floor \in Nat
    <3> HIDE DEF floor, reached
    <3> QED
      BY <2>3, <2>5
  <2>7. exact(floor) => floor # 0
    <3> SUFFICES ASSUME exact(floor), floor = 0 PROVE FALSE
      OBVIOUS
    <3>1. n * floor >= sum
      OBVIOUS
    <3> HIDE DEF floor, exact
    <3>2. 0 >= sum
      BY <1>4, <1>5, <3>1
    <3>3. PICK l \in DOMAIN lengths : TRUE
      BY <2>1
    <3>4. l * lengths[l] >= 1 /\ l * lengths[l] <= sum
      BY <1>5, <1>6
    <3>5. l * lengths[l] \in Int
      BY <1>2, <1>4
    <3> QED
      BY <1>5, <3>2, <3>4, <3>5
  <2> HIDE DEF floor, exact
  <2> QED
    BY <1>1, <2>6, <2>7
<1> QED
  BY <1>7, <1>8

-----------------------------------------------------------------------------
(* Division.                                                               *)

\* Products grow with their factors.
LEMMA Products ==
  ASSUME NEW a \in Nat, NEW b \in Nat, NEW c \in Nat, a <= b
  PROVE  a * c \in Nat /\ a * c <= b * c /\ c * a = a * c
<1>1. PICK d \in Nat : b = a + d
  <2>1. b - a \in Nat /\ b = a + (b - a)
    OBVIOUS
  <2> QED
    BY <2>1
<1>2. b * c = a * c + d * c
  BY <1>1
<1>3. a * c \in Nat
  OBVIOUS
<1>4. d * c \in Nat
  OBVIOUS
<1>5. c * a = a * c
  OBVIOUS
<1> QED
  BY <1>2, <1>3, <1>4, <1>5

\* A quotient, and what is left.
LEMMA Quotient ==
  ASSUME NEW a \in Nat, NEW b \in Nat \ {0}
  PROVE  /\ a \div b \in Nat /\ a % b \in Nat /\ a % b < b
         /\ a = (a \div b) * b + (a % b)
  OBVIOUS

\* There is one quotient.
LEMMA QuotientIs ==
  ASSUME NEW b \in Nat \ {0}, NEW q \in Nat, NEW r \in Nat, r < b
  PROVE  (q * b + r) \div b = q /\ (q * b + r) % b = r
<1> DEFINE a == q * b + r
           p == a \div b
           s == a % b
<1>1. a \in Nat
  OBVIOUS
<1>2. p \in Nat /\ s \in Nat /\ s < b /\ a = p * b + s
  <2> HIDE DEF a
  <2> QED
    BY <1>1, Quotient
<1> HIDE DEF p, s
<1>3. ~(p < q)
  <2> SUFFICES ASSUME p < q PROVE FALSE
    OBVIOUS
  <2>1. (p + 1) * b <= q * b
    BY <1>2, Products
  <2>2. (p + 1) * b = p * b + b
    BY <1>2
  <2>3. p * b \in Nat /\ q * b \in Nat
    BY <1>2
  <2> QED
    BY <1>2, <2>1, <2>2, <2>3
<1>4. ~(q < p)
  <2> SUFFICES ASSUME q < p PROVE FALSE
    OBVIOUS
  <2>1. (q + 1) * b <= p * b
    BY <1>2, Products
  <2>2. (q + 1) * b = q * b + b
    OBVIOUS
  <2>3. p * b \in Nat /\ q * b \in Nat
    BY <1>2
  <2> QED
    BY <1>2, <2>1, <2>2, <2>3
<1>5. p = q
  BY <1>2, <1>3, <1>4
<1>6. s = r
  <2>1. q * b \in Nat /\ q * b + r = q * b + s
    BY <1>2, <1>5
  <2> QED
    BY <1>2, <2>1
<1> QED
  BY <1>5, <1>6 DEF p, s

\* A number is not above a quotient, if it is not above it in products.
LEMMA BelowQuotient ==
  ASSUME NEW a \in Nat, NEW b \in Nat \ {0}, NEW r \in Nat
  PROVE  /\ r <= a \div b <=> r * b <= a
         /\ r < a \div b <=> (r + 1) * b <= a
<1> DEFINE q == a \div b
           s == a % b
<1>1. q \in Nat /\ s \in Nat /\ s < b /\ a = q * b + s
  BY Quotient
<1> HIDE DEF q, s
<1>2. ASSUME NEW x \in Nat
      PROVE  x <= q <=> x * b <= a
  <2>1. x * b \in Nat /\ q * b \in Nat
    BY <1>1
  <2>2. ASSUME x <= q PROVE x * b <= a
    <3>1. x * b <= q * b
      BY <1>1, <2>2, Products
    <3> QED
      BY <1>1, <2>1, <3>1
  <2>3. ASSUME x * b <= a, ~(x <= q) PROVE FALSE
    <3>1. (q + 1) * b <= x * b
      BY <1>1, <2>3, Products
    <3>2. (q + 1) * b = q * b + b
      BY <1>1
    <3> QED
      BY <1>1, <2>1, <2>3, <3>1, <3>2
  <2> QED
    BY <2>2, <2>3
<1>3. r < q <=> r + 1 <= q
  BY <1>1
<1> QED
  BY <1>2, <1>3 DEF q

-----------------------------------------------------------------------------
(* The members of a finite set of numbers, in their order.                 *)

\* The members of S up to l.
Upto(S, l) == {m \in S : m <= l}

\* The next member of a set: the least of those above.
LEMMA OneMoreRank ==
  ASSUME NEW S \in SUBSET Nat, IsFiniteSet(S), NEW x \in S, NEW T \in SUBSET S,
         \A m \in T : m < x, \A m \in S : m < x => m \in T
  PROVE  Cardinality(Upto(S, x)) = Cardinality(T) + 1
<1>1. Upto(S, x) = T \cup {x} /\ x \notin T
  <2>1. \A m \in S : m <= x <=> m < x \/ m = x
    OBVIOUS
  <2>2. \A m \in S : m < x <=> m \in T
    OBVIOUS
  <2>3. x <= x /\ ~(x < x)
    OBVIOUS
  <2> QED
    BY <2>1, <2>2, <2>3, Zenon DEF Upto
<1>2. IsFiniteSet(T)
  BY FS_Subset
<1> QED
  BY <1>1, <1>2, FS_AddElement

\* Each rank has a member.
LEMMA Ranks ==
  ASSUME NEW S \in SUBSET Nat, IsFiniteSet(S)
  PROVE  \A i \in 1..Cardinality(S) : \E x \in S : Cardinality(Upto(S, x)) = i
<1> DEFINE N == Cardinality(S)
           Good == {i \in Nat : i + 1 <= N => \E x \in S : Cardinality(Upto(S, x)) = i + 1}
<1>1. N \in Nat
  BY FS_CardinalityType
<1>2. 0 \in Good
  <2> SUFFICES ASSUME 1 <= N PROVE \E x \in S : Cardinality(Upto(S, x)) = 1
    OBVIOUS
  <2>1. S # {}
    BY FS_EmptySet
  <2>2. PICK x \in S : \A m \in S : x <= m
    BY <2>1, LeastNumber
  <2>3. \A m \in S : ~(m < x)
    BY <2>2
  <2>4. Cardinality({}) = 0 /\ {} \in SUBSET S
    BY FS_EmptySet
  <2>5. \A m \in {} : m < x
    OBVIOUS
  <2>6. Cardinality(Upto(S, x)) = Cardinality({}) + 1
    BY <2>3, <2>4, <2>5, OneMoreRank
  <2> QED
    BY <2>4, <2>6
<1>3. ASSUME NEW i \in Nat, i \in Good
      PROVE  i + 1 \in Good
  <2> SUFFICES ASSUME i + 1 + 1 <= N
               PROVE  \E x \in S : Cardinality(Upto(S, x)) = i + 1 + 1
    OBVIOUS
  <2>1. PICK y \in S : Cardinality(Upto(S, y)) = i + 1
    <3>1. i + 1 <= N
      BY <1>1
    <3> QED
      BY <1>3, <3>1
  <2> DEFINE T == Upto(S, y)
             R == S \ T
  <2>2. R # {} /\ R \subseteq Nat
    <3>1. T # S
      BY <1>1, <2>1
    <3> QED
      BY <3>1 DEF Upto
  <2>3. PICK x \in R : \A m \in R : x <= m
    <3> HIDE DEF R
    <3> QED
      BY <2>2, LeastNumber
  <2>4. x \in S /\ T \in SUBSET S
    BY DEF Upto
  <2>5. \A m \in T : m < x
    BY <2>3 DEF Upto
  <2>6. \A m \in S : m < x => m \in T
    BY <2>3
  <2> HIDE DEF T
  <2>7. Cardinality(Upto(S, x)) = Cardinality(T) + 1
    BY <2>4, <2>5, <2>6, OneMoreRank
  <2> QED
    BY <2>1, <2>4, <2>7 DEF T
<1> HIDE DEF Good
<1>4. \A i \in Nat : i \in Good
  BY <1>2, <1>3, Induction
<1> SUFFICES ASSUME NEW i \in 1..N PROVE \E x \in S : Cardinality(Upto(S, x)) = i
  OBVIOUS
<1>5. i - 1 \in Nat /\ (i - 1) + 1 = i /\ i <= N
  BY <1>1
<1>6. i - 1 \in Good
  BY <1>4, <1>5
<1> QED
  BY <1>5, <1>6 DEF Good

\* The rank grows with the member.
LEMMA RanksGrow ==
  ASSUME NEW S \in SUBSET Nat, IsFiniteSet(S), NEW x \in S, NEW y \in S
  PROVE  /\ Cardinality(Upto(S, x)) \in 1..Cardinality(S)
         /\ x < y => Cardinality(Upto(S, x)) < Cardinality(Upto(S, y))
         /\ Cardinality(Upto(S, x)) = Cardinality(Upto(S, y)) => x = y
<1>1. \A z \in S : /\ IsFiniteSet(Upto(S, z)) /\ Cardinality(Upto(S, z)) \in 1..Cardinality(S)
                   /\ Cardinality(Upto(S, z)) \in Nat
  <2> SUFFICES ASSUME NEW z \in S
               PROVE  /\ IsFiniteSet(Upto(S, z)) /\ Cardinality(Upto(S, z)) \in 1..Cardinality(S)
                      /\ Cardinality(Upto(S, z)) \in Nat
    OBVIOUS
  <2>1. Upto(S, z) \in SUBSET S /\ z \in Upto(S, z)
    BY DEF Upto
  <2>2. /\ IsFiniteSet(Upto(S, z)) /\ Cardinality(Upto(S, z)) <= Cardinality(S)
        /\ Cardinality(Upto(S, z)) \in Nat /\ Cardinality(S) \in Nat
    BY <2>1, FS_Subset, FS_CardinalityType
  <2>3. Cardinality(Upto(S, z)) # 0
    BY <2>1, <2>2, FS_EmptySet
  <2> QED
    BY <2>2, <2>3
<1>2. ASSUME NEW z \in S, NEW w \in S, z < w
      PROVE  Cardinality(Upto(S, z)) < Cardinality(Upto(S, w))
  <2>1. Upto(S, z) \in SUBSET Upto(S, w) /\ w \in Upto(S, w) /\ w \notin Upto(S, z)
    <3>1. \A m \in S : m <= z => m <= w
      BY <1>2
    <3>2. w <= w /\ ~(w <= z)
      BY <1>2
    <3> QED
      BY <3>1, <3>2, Zenon DEF Upto
  <2>2. Upto(S, z) # Upto(S, w)
    BY <2>1
  <2> QED
    BY <1>1, <2>1, <2>2, FS_Subset
<1>3. x \in Nat /\ y \in Nat
  OBVIOUS
<1>4. ASSUME Cardinality(Upto(S, x)) = Cardinality(Upto(S, y)) PROVE x = y
  BY <1>1, <1>2, <1>3, <1>4
<1> QED
  BY <1>1, <1>2, <1>4

\* The i-th member, and its rank.
LEMMA NthFacts ==
  ASSUME NEW S \in SUBSET Nat, IsFiniteSet(S)
  PROVE  /\ \A i \in 1..Cardinality(S) :
              Nth(S, i) \in S /\ Cardinality(Upto(S, Nth(S, i))) = i
         /\ \A x \in S : \A i : Cardinality(Upto(S, x)) = i => Nth(S, i) = x
<1>1. ASSUME NEW i, NEW x \in S, Cardinality(Upto(S, x)) = i
      PROVE  Nth(S, i) \in S /\ Cardinality(Upto(S, Nth(S, i))) = i /\ Nth(S, i) = x
  <2>1. Nth(S, i) = CHOOSE n \in S : Cardinality(Upto(S, n)) = i
    BY Zenon DEF Nth, Upto
  <2>2. Nth(S, i) \in S /\ Cardinality(Upto(S, Nth(S, i))) = i
    BY <1>1, <2>1
  <2> QED
    BY <1>1, <2>2, RanksGrow
<1>2. \A i \in 1..Cardinality(S) : \E x \in S : Cardinality(Upto(S, x)) = i
  BY Ranks
<1> QED
  BY <1>1, <1>2

-----------------------------------------------------------------------------
(* Powers of two: they are the numbers of the subsets of finite sets.      *)

\* A power of two is the number of the subsets of a set.
LEMMA PowerIsCardinality ==
  ASSUME NEW n \in Nat
  PROVE  /\ 2 ^ n = Cardinality(SUBSET (1..n)) /\ IsFiniteSet(SUBSET (1..n))
         /\ 2 ^ n \in Nat \ {0}
<1>1. IsFiniteSet(1..n) /\ Cardinality(1..n) = n
  BY FS_Interval
<1>2. IsFiniteSet(SUBSET (1..n)) /\ Cardinality(SUBSET (1..n)) = 2 ^ Cardinality(1..n)
  BY <1>1, FS_SUBSET
<1>3. 2 ^ n = Cardinality(SUBSET (1..n))
  BY <1>1, <1>2, Zenon
<1>4. Cardinality(SUBSET (1..n)) \in Nat /\ Cardinality(SUBSET (1..n)) # 0
  <2>1. SUBSET (1..n) # {}
    OBVIOUS
  <2> QED
    BY <1>2, <2>1, FS_CardinalityType, FS_EmptySet
<1> QED
  BY <1>2, <1>3, <1>4, Zenon

\* The empty set has one subset.
LEMMA Power0 ==
  2 ^ 0 = 1
<1>1. 0 \in Nat
  OBVIOUS
<1>2. 2 ^ 0 = Cardinality(SUBSET (1..0))
  BY <1>1, PowerIsCardinality
<1>3. SUBSET (1..0) = {{}}
  OBVIOUS
<1>4. Cardinality(SUBSET (1..0)) = 1
  BY <1>3, FS_Singleton
<1> QED
  BY <1>2, <1>4, Zenon

\* One more member doubles the number of subsets.
LEMMA PowerDoubles ==
  ASSUME NEW n \in Nat
  PROVE  2 ^ (n + 1) = 2 * 2 ^ n
<1> DEFINE A == SUBSET (1..n)
           B == {t \cup {n + 1} : t \in A}
           f == [t \in A |-> t \cup {n + 1}]
<1>1. /\ IsFiniteSet(A) /\ Cardinality(A) \in Nat /\ 2 ^ n = Cardinality(A)
  BY PowerIsCardinality, FS_CardinalityType
<1>2. 2 ^ (n + 1) = Cardinality(SUBSET (1..(n + 1)))
  <2>1. n + 1 \in Nat
    OBVIOUS
  <2> QED
    BY <2>1, PowerIsCardinality
<1>3. SUBSET (1..(n + 1)) = A \cup B
  <2>1. 1..(n + 1) = (1..n) \cup {n + 1}
    OBVIOUS
  <2>2. ASSUME NEW t \in SUBSET (1..(n + 1)), t \notin A
        PROVE  t \in B
    <3>1. n + 1 \in t /\ t \ {n + 1} \in A
      BY <2>1, <2>2
    <3>2. t = (t \ {n + 1}) \cup {n + 1}
      BY <3>1
    <3> QED
      BY <3>1, <3>2
  <2>3. A \subseteq SUBSET (1..(n + 1)) /\ B \subseteq SUBSET (1..(n + 1))
    BY <2>1
  <2> HIDE DEF A, B
  <2> QED
    BY <2>2, <2>3
<1>4. A \cap B = {}
  <2>1. n + 1 \notin 1..n
    OBVIOUS
  <2> QED
    BY <2>1
<1>5. IsFiniteSet(B) /\ Cardinality(B) = Cardinality(A)
  <2>1. f \in [A -> B]
    OBVIOUS
  <2>2. \A s, t \in A : f[s] = f[t] => s = t
    <3>1. n + 1 \notin 1..n
      OBVIOUS
    <3>2. \A s \in A : s = f[s] \ {n + 1}
      BY <3>1
    <3> QED
      BY <3>2
  <2>3. \A t \in B : \E s \in A : f[s] = t
    OBVIOUS
  <2>4. f \in Bijection(A, B)
    BY <2>1, <2>2, <2>3, Fun_IsBij
  <2>5. ExistsBijection(A, B)
    BY <2>4 DEF ExistsBijection
  <2> QED
    BY <1>1, <2>5, FS_Bijection
<1>6. Cardinality(A \cup B) = Cardinality(A) + Cardinality(B) - Cardinality(A \cap B)
  BY <1>1, <1>5, FS_Union
<1> HIDE DEF A, B
<1>7. Cardinality(A \cup B) = Cardinality(A) + Cardinality(A) - 0
  BY <1>4, <1>5, <1>6, FS_EmptySet, Zenon
<1>8. 2 ^ (n + 1) = Cardinality(A) + Cardinality(A) - 0
  BY <1>2, <1>3, <1>7, Zenon
<1>9. 2 * 2 ^ n = 2 * Cardinality(A)
  BY <1>1, Zenon
<1>10. Cardinality(A) + Cardinality(A) - 0 = 2 * Cardinality(A)
  BY <1>1
<1> QED
  BY <1>8, <1>9, <1>10, Zenon

\* A sum of exponents is a product of powers.
LEMMA PowersMultiply ==
  ASSUME NEW a \in Nat, NEW b \in Nat
  PROVE  2 ^ (a + b) = 2 ^ a * 2 ^ b
<1> DEFINE Good == {n \in Nat : 2 ^ (a + n) = 2 ^ a * 2 ^ n}
<1>1. 0 \in Good
  <2>1. 2 ^ a \in Nat
    BY PowerIsCardinality
  <2>2. a + 0 = a /\ 2 ^ a * 1 = 2 ^ a
    BY <2>1
  <2>3. 2 ^ (a + 0) = 2 ^ a * 2 ^ 0
    BY <2>2, Power0, Zenon
  <2> QED
    BY <2>3
<1>2. ASSUME NEW n \in Nat, n \in Good
      PROVE  n + 1 \in Good
  <2>1. a + n \in Nat /\ (a + n) + 1 = a + (n + 1)
    OBVIOUS
  <2>2. 2 ^ (a + (n + 1)) = 2 * 2 ^ (a + n)
    BY <2>1, PowerDoubles
  <2>3. 2 ^ (n + 1) = 2 * 2 ^ n
    BY PowerDoubles
  <2>4. 2 ^ a \in Nat /\ 2 ^ n \in Nat
    BY PowerIsCardinality
  <2>5. \A x, y \in Nat : 2 * (x * y) = x * (2 * y)
    OBVIOUS
  <2>6. 2 ^ (a + n) = 2 ^ a * 2 ^ n
    BY <1>2
  <2>7. 2 ^ (a + (n + 1)) = 2 ^ a * 2 ^ (n + 1)
    BY <2>2, <2>3, <2>4, <2>5, <2>6, Zenon
  <2>8. n + 1 \in Nat
    OBVIOUS
  <2> QED
    BY <2>7, <2>8
<1> HIDE DEF Good
<1>3. \A n \in Nat : n \in Good
  BY <1>1, <1>2, Induction
<1> QED
  BY <1>3 DEF Good

-----------------------------------------------------------------------------
(* Bits.                                                                   *)

\* The bit of a number at an exponent.
BitAt(s, e) == (s \div 2 ^ e) % 2

\* The lower bits are those of the remainder.
LEMMA LowerBits ==
  ASSUME NEW s \in Nat, NEW h \in Nat, NEW e \in Nat, e < h
  PROVE  BitAt(s % 2 ^ h, e) = BitAt(s, e)
<1> DEFINE H == 2 ^ h
           P == 2 ^ e
           W == 2 ^ (h - e - 1)
           q == s \div H
           r == s % H
           u == r \div P
           v == r % P
<1>1. h - e - 1 \in Nat /\ e + 1 \in Nat /\ (e + 1) + (h - e - 1) = h
  OBVIOUS
<1>2. H \in Nat \ {0} /\ P \in Nat \ {0} /\ W \in Nat
  BY <1>1, PowerIsCardinality
<1>3. H = (2 * P) * W
  <2>1. 2 ^ ((e + 1) + (h - e - 1)) = 2 ^ (e + 1) * W
    BY <1>1, PowersMultiply
  <2>2. 2 ^ (e + 1) = 2 * P
    BY PowerDoubles
  <2> QED
    BY <1>1, <2>1, <2>2, Zenon
<1> HIDE DEF H, P, W
<1>4. q \in Nat /\ r \in Nat /\ s = q * H + r
  BY <1>2, Quotient
<1> HIDE DEF q, r
<1>5. u \in Nat /\ v \in Nat /\ v < P /\ r = u * P + v
  BY <1>2, <1>4, Quotient
<1> HIDE DEF u, v
<1>6. q * W \in Nat
  BY <1>2, <1>4
<1>7. s = (2 * (q * W) + u) * P + v
  <2>1. q * ((2 * P) * W) = (2 * (q * W)) * P
    BY <1>2, <1>4
  <2>2. (2 * (q * W) + u) * P = (2 * (q * W)) * P + u * P
    BY <1>2, <1>5, <1>6
  <2>3. u * P \in Nat /\ (2 * (q * W)) * P \in Nat
    <3>1. u * P \in Nat
      BY <1>2, <1>5
    <3>2. 2 * (q * W) \in Nat
      BY <1>6
    <3>3. (2 * (q * W)) * P \in Nat
      BY <1>2, <3>2
    <3> QED
      BY <3>1, <3>3
  <2>4. s = (2 * (q * W)) * P + (u * P + v)
    BY <1>3, <1>4, <1>5, <2>1, Zenon
  <2> QED
    BY <1>5, <2>2, <2>3, <2>4
<1>8. s \div P = 2 * (q * W) + u
  <2>1. 2 * (q * W) + u \in Nat
    BY <1>5, <1>6
  <2> QED
    BY <1>2, <1>5, <1>7, <2>1, QuotientIs
<1>9. (2 * (q * W) + u) % 2 = u % 2
  <2> DEFINE x == q * W
  <2>1. x \in Nat
    BY <1>6
  <2> HIDE DEF x
  <2>2. (2 * x + u) % 2 = u % 2
    BY <1>5, <2>1
  <2> QED
    BY <2>2 DEF x
<1> QED
  BY <1>8, <1>9 DEF BitAt, u, r, P, H

\* One more bit is shifted into the last k bits.
LEMMA ShiftedBits ==
  ASSUME NEW k \in Nat \ {0}, NEW s \in Nat, NEW b \in {0, 1}
  PROVE  LET t == ((2 * s) % 2 ^ k) + b IN
         /\ t \in 0..(2 ^ k - 1) /\ t = (2 * s + b) % 2 ^ k
         /\ BitAt(t, 0) = b
         /\ \A e \in Nat : e + 1 < k => BitAt(t, e + 1) = BitAt(s, e)
<1> DEFINE M == 2 ^ k
           H == 2 ^ (k - 1)
           q == s \div H
           r == s % H
           t == ((2 * s) % M) + b
<1>1. k - 1 \in Nat /\ (k - 1) + 1 = k
  OBVIOUS
<1>2. H \in Nat \ {0} /\ M = 2 * H
  <2>1. H \in Nat \ {0} /\ 2 ^ ((k - 1) + 1) = 2 * H
    BY <1>1, PowerIsCardinality, PowerDoubles
  <2> QED
    BY <1>1, <2>1, Zenon
<1>3. M \in Nat \ {0}
  BY <1>2
<1> HIDE DEF H, M
<1>4. q \in Nat /\ r \in Nat /\ r < H /\ s = q * H + r
  BY <1>2, Quotient
<1> HIDE DEF q, r
<1>5. 2 * s = q * M + 2 * r /\ 2 * s + b = q * M + (2 * r + b)
  <2>1. 2 * (q * H) = q * (2 * H) /\ q * H \in Nat
    BY <1>2, <1>4
  <2>2. 2 * s = 2 * (q * H) + 2 * r
    BY <1>4, <2>1
  <2>3. 2 * s = q * M + 2 * r /\ q * M \in Nat
    BY <1>2, <2>1, <2>2
  <2> QED
    BY <1>4, <2>3
<1>6. (2 * s) % M = 2 * r
  <2> DEFINE x == 2 * r
  <2>1. x \in Nat /\ x < M
    BY <1>2, <1>4
  <2>2. 2 * s = q * M + x
    BY <1>5
  <2> HIDE DEF x
  <2>3. (q * M + x) % M = x
    BY <1>3, <1>4, <2>1, QuotientIs
  <2> QED
    BY <2>2, <2>3, Zenon DEF x
<1>7. (2 * s + b) % M = 2 * r + b
  <2> DEFINE x == 2 * r + b
  <2>1. x \in Nat /\ x < M
    BY <1>2, <1>4
  <2>2. 2 * s + b = q * M + x
    BY <1>5
  <2> HIDE DEF x
  <2>3. (q * M + x) % M = x
    BY <1>3, <1>4, <2>1, QuotientIs
  <2> QED
    BY <2>2, <2>3, Zenon DEF x
<1>8. t = 2 * r + b /\ t \in 0..(M - 1) /\ t \in Nat
  BY <1>2, <1>4, <1>6
<1> HIDE DEF t
<1>9. BitAt(t, 0) = b
  <2>1. t \div 1 = t
    BY <1>8
  <2>2. t % 2 = b
    BY <1>4, <1>8
  <2> QED
    BY <2>1, <2>2, Power0 DEF BitAt
<1>10. ASSUME NEW e \in Nat, e + 1 < k
       PROVE  BitAt(t, e + 1) = BitAt(s, e)
  <2> DEFINE P == 2 ^ e
             u == r \div P
             v == r % P
  <2>1. P \in Nat \ {0} /\ 2 ^ (e + 1) = 2 * P
    BY PowerIsCardinality, PowerDoubles
  <2>2. BitAt(r, e) = BitAt(s, e)
    <3>1. e < k - 1
      BY <1>10
    <3> QED
      BY <1>1, <3>1, LowerBits DEF r, H
  <2> HIDE DEF P
  <2>3. u \in Nat /\ v \in Nat /\ v < P /\ r = u * P + v
    BY <1>4, <2>1, Quotient
  <2> HIDE DEF u, v
  <2>4. t = u * (2 * P) + (2 * v + b)
    <3>1. 2 * (u * P) = u * (2 * P) /\ u * P \in Nat
      BY <2>1, <2>3
    <3>2. 2 * r = 2 * (u * P) + 2 * v
      BY <2>3, <3>1
    <3>3. u * (2 * P) \in Nat
      BY <3>1
    <3> QED
      BY <1>8, <2>3, <3>1, <3>2, <3>3
  <2>5. t \div (2 * P) = u
    <3>1. 2 * v + b \in Nat /\ 2 * v + b < 2 * P /\ 2 * P \in Nat \ {0}
      BY <2>1, <2>3
    <3> QED
      BY <2>3, <2>4, <3>1, QuotientIs
  <2>6. t \div 2 ^ (e + 1) = r \div 2 ^ e
    BY <2>1, <2>5, Zenon DEF u, P
  <2> QED
    BY <2>2, <2>6, Zenon DEF BitAt
<1> QED
  BY <1>6, <1>7, <1>8, <1>9, <1>10 DEF t, M

\* A number is known by its bits.
LEMMA BitsDetermine ==
  ASSUME NEW k \in Nat
  PROVE  \A s, t \in 0..(2 ^ k - 1) :
           (\A e \in Nat : e < k => BitAt(s, e) = BitAt(t, e)) => s = t
<1> DEFINE Below(n) == 0..(2 ^ n - 1)
           Good == {n \in Nat : \A s, t \in Below(n) :
                      (\A e \in Nat : e < n => BitAt(s, e) = BitAt(t, e)) => s = t}
<1>1. 0 \in Good
  <2>1. Below(0) = {0}
    BY Power0
  <2> HIDE DEF Below
  <2> QED
    BY <2>1
<1>2. ASSUME NEW n \in Nat, n \in Good
      PROVE  n + 1 \in Good
  <2> SUFFICES ASSUME NEW s \in Below(n + 1), NEW t \in Below(n + 1),
                      \A e \in Nat : e < n + 1 => BitAt(s, e) = BitAt(t, e)
               PROVE  s = t
    OBVIOUS
  <2> DEFINE H == 2 ^ n
  <2>1. H \in Nat \ {0} /\ 2 ^ (n + 1) = 2 * H
    BY PowerIsCardinality, PowerDoubles
  <2>2. s \in Nat /\ t \in Nat /\ s < 2 * H /\ t < 2 * H
    BY <2>1
  <2> HIDE DEF H
  <2>3. ASSUME NEW x \in Nat, x < 2 * H
        PROVE  /\ x % H \in Below(n) /\ x = (x \div H) * H + (x % H)
               /\ x \div H = BitAt(x, n)
    <3> DEFINE q == x \div H
               r == x % H
    <3>1. q \in Nat /\ r \in Nat /\ r < H /\ x = q * H + r
      BY <2>1, Quotient
    <3> HIDE DEF q, r
    <3>2. q < 2
      <4> SUFFICES ASSUME q >= 2 PROVE FALSE
        BY <3>1
      <4>1. 2 * H <= q * H
        BY <2>1, <3>1, Products
      <4>2. q * H \in Nat
        BY <2>1, <3>1
      <4> QED
        BY <2>1, <2>3, <3>1, <4>1, <4>2
    <3>3. q % 2 = q
      BY <3>1, <3>2
    <3>4. BitAt(x, n) = q
      BY <3>3 DEF BitAt, q, H
    <3>5. r \in Below(n)
      BY <2>1, <3>1 DEF H
    <3> QED
      BY <3>1, <3>4, <3>5 DEF q, r
  <2>4. s \div H = t \div H
    BY <2>2, <2>3
  <2>5. s % H = t % H
    <3>1. \A e \in Nat : e < n => BitAt(s % H, e) = BitAt(t % H, e)
      <4> SUFFICES ASSUME NEW e \in Nat, e < n
                   PROVE  BitAt(s % H, e) = BitAt(t % H, e)
        OBVIOUS
      <4>1. BitAt(s % H, e) = BitAt(s, e) /\ BitAt(t % H, e) = BitAt(t, e)
        BY <2>2, LowerBits DEF H
      <4>2. e < n + 1
        OBVIOUS
      <4> QED
        BY <4>1, <4>2
    <3>2. s % H \in Below(n) /\ t % H \in Below(n)
      BY <2>2, <2>3
    <3> HIDE DEF Below
    <3> QED
      BY <1>2, <3>1, <3>2
  <2> QED
    BY <2>2, <2>3, <2>4, <2>5, Zenon
<1> HIDE DEF Good
<1>3. \A n \in Nat : n \in Good
  BY <1>1, <1>2, Induction
<1> QED
  BY <1>3 DEF Good

-----------------------------------------------------------------------------
(* The counters of ParamMarckovChain, bit by bit.                          *)

\* Where a sequence goes through a state, and on with a bit.
Windows(s, i, c) ==
  {j \in 1..(Len(s) - K) : SubSeq(s, j, j + K - 1) = Window(i) /\ s[j + K] = c}

\* The states of a chain, and its counters.
States == 0..(2 ^ K - 1)
Counters == 0..(2 * 2 ^ K - 1)

\* The chain m was started with the memory h and fed with the sequence s.
Chained(m, h, s) ==
  /\ m = [k |-> m.k, state |-> m.state, states |-> m.states]
  /\ m.k = IF Len(s) < K THEN K - Len(s) ELSE 0
  /\ m.state \in States
  /\ \A e \in Nat : e < K /\ e < Len(s) => (BitAt(m.state, e) = 1 <=> s[Len(s) - e])
  /\ m.states \in [Counters -> Nat]
  /\ \A i \in States : \A c \in BOOLEAN :
       m.states[2 * i + Bit(c)] = h[2 * i + Bit(c)] + Cardinality(Windows(s, i, c))

\* What the assumption on K says of them.
LEMMA ChainOrder ==
  /\ K \in Nat /\ K > 0 /\ 2 ^ K \in Nat \ {0} /\ state_mod = 2 ^ K
  /\ States \in SUBSET Nat
<1>1. K \in Nat /\ K > 0
  BY EstimatorsAssumption
<1>2. 2 ^ K \in Nat \ {0}
  BY <1>1, PowerIsCardinality
<1> QED
  BY <1>1, <1>2 DEF state_mod, States

\* A bit is 0 or 1.
LEMMA BitIs ==
  ASSUME NEW s \in Nat, NEW e \in Nat
  PROVE  BitAt(s, e) \in {0, 1}
<1> DEFINE P == 2 ^ e
<1>1. P \in Nat \ {0}
  BY PowerIsCardinality
<1> HIDE DEF P
<1>2. s \div P \in Nat
  BY <1>1, Quotient
<1>3. \A x \in Nat : x % 2 \in {0, 1}
  OBVIOUS
<1> QED
  BY <1>2, <1>3 DEF BitAt, P

\* A counter has one state and one bit.
LEMMA CounterIs ==
  ASSUME NEW i \in States, NEW c \in BOOLEAN
  PROVE  /\ 2 * i + Bit(c) \in Counters
         /\ \A j \in States : \A d \in BOOLEAN :
              2 * i + Bit(c) = 2 * j + Bit(d) <=> i = j /\ c = d
<1>1. i \in Nat /\ i < 2 ^ K /\ 2 ^ K \in Nat
  BY ChainOrder DEF States
<1>2. \A d \in BOOLEAN : Bit(d) \in {0, 1} /\ (c = d <=> Bit(c) = Bit(d))
  BY DEF Bit
<1>3. 2 * i + Bit(c) \in Counters
  BY <1>1, <1>2 DEF Counters
<1>4. ASSUME NEW j \in States, NEW d \in BOOLEAN
      PROVE  2 * i + Bit(c) = 2 * j + Bit(d) <=> i = j /\ c = d
  <2>1. j \in Nat
    BY ChainOrder
  <2>2. Bit(c) \in {0, 1} /\ Bit(d) \in {0, 1}
    BY <1>2
  <2>3. 2 * i + Bit(c) = 2 * j + Bit(d) <=> i = j /\ Bit(c) = Bit(d)
    BY <1>1, <2>1, <2>2
  <2> QED
    BY <1>2, <2>3
<1> QED
  BY <1>3, <1>4

\* What a window is.
LEMMA WindowIs ==
  ASSUME NEW s \in Seq(BOOLEAN), NEW j \in Nat \ {0}, j + K - 1 <= Len(s), NEW i \in States
  PROVE  /\ SubSeq(s, j, j + K - 1) = [x \in 1..K |-> s[j + x - 1]]
         /\ SubSeq(s, j, j + K - 1) = Window(i) <=>
              \A e \in Nat : e < K => (BitAt(i, e) = 1 <=> s[j + K - 1 - e])
<1>1. K \in Nat /\ K > 0 /\ Len(s) \in Nat
  BY ChainOrder
<1>2. SubSeq(s, j, j + K - 1) = [x \in 1..K |-> s[j + x - 1]]
  <2>1. SubSeq(s, j, j + K - 1) = [x \in 1..(1 + (j + K - 1) - j) |-> s[x + j - 1]]
    BY <1>1
  <2>2. 1 + (j + K - 1) - j = K
    BY <1>1
  <2>3. \A x \in 1..K : x + j - 1 = j + x - 1
    BY <1>1
  <2> QED
    BY <2>1, <2>2, <2>3
<1>3. Window(i) = [x \in 1..K |-> BitAt(i, K - x) = 1]
  BY DEF Window, BitAt
<1>4. \A x \in 1..K : s[j + x - 1] \in BOOLEAN
  <2> SUFFICES ASSUME NEW x \in 1..K PROVE s[j + x - 1] \in BOOLEAN
    OBVIOUS
  <2>1. j + x - 1 \in 1..Len(s)
    BY <1>1
  <2> QED
    BY <2>1
<1>5. SubSeq(s, j, j + K - 1) = Window(i) <=>
        \A x \in 1..K : (BitAt(i, K - x) = 1 <=> s[j + x - 1])
  <2> HIDE DEF BitAt
  <2>1. ASSUME SubSeq(s, j, j + K - 1) = Window(i), NEW x \in 1..K
        PROVE  BitAt(i, K - x) = 1 <=> s[j + x - 1]
    <3>1. Window(i)[x] = s[j + x - 1]
      BY <1>2, <2>1
    <3>2. Window(i)[x] = (BitAt(i, K - x) = 1)
      BY <1>3
    <3> QED
      BY <3>1, <3>2, Zenon
  <2>2. ASSUME \A x \in 1..K : (BitAt(i, K - x) = 1 <=> s[j + x - 1])
        PROVE  SubSeq(s, j, j + K - 1) = Window(i)
    <3>1. \A x \in 1..K : (BitAt(i, K - x) = 1) = s[j + x - 1]
      BY <1>4, <2>2, Zenon
    <3>2. [x \in 1..K |-> BitAt(i, K - x) = 1] = [x \in 1..K |-> s[j + x - 1]]
      BY <3>1, Zenon
    <3> QED
      BY <1>2, <1>3, <3>2, Zenon
  <2> QED
    BY <2>1, <2>2
<1>6. (\A x \in 1..K : (BitAt(i, K - x) = 1 <=> s[j + x - 1])) <=>
        \A e \in Nat : e < K => (BitAt(i, e) = 1 <=> s[j + K - 1 - e])
  <2> HIDE DEF BitAt
  <2>1. ASSUME \A x \in 1..K : (BitAt(i, K - x) = 1 <=> s[j + x - 1]), NEW e \in Nat, e < K
        PROVE  BitAt(i, e) = 1 <=> s[j + K - 1 - e]
    <3>1. K - e \in 1..K /\ K - (K - e) = e /\ j + (K - e) - 1 = j + K - 1 - e
      BY <1>1, <2>1
    <3>2. BitAt(i, K - (K - e)) = 1 <=> s[j + (K - e) - 1]
      BY <2>1, <3>1
    <3> QED
      BY <3>1, <3>2, Zenon
  <2>2. ASSUME \A e \in Nat : e < K => (BitAt(i, e) = 1 <=> s[j + K - 1 - e]), NEW x \in 1..K
        PROVE  BitAt(i, K - x) = 1 <=> s[j + x - 1]
    <3>1. K - x \in Nat /\ K - x < K /\ j + K - 1 - (K - x) = j + x - 1
      BY <1>1
    <3>2. BitAt(i, K - x) = 1 <=> s[j + K - 1 - (K - x)]
      BY <2>2, <3>1
    <3> QED
      BY <3>1, <3>2, Zenon
  <2> QED
    BY <2>1, <2>2
<1> QED
  BY <1>2, <1>5, <1>6

\* A chain that was fed with nothing.
LEMMA ChainBegins ==
  ASSUME NEW h \in [Counters -> Nat]
  PROVE  Chained(markov_init(h), h, <<>>)
<1> DEFINE m == markov_init(h)
<1>1. m.k = K /\ m.state = 0 /\ m.states = h /\ m = [k |-> m.k, state |-> m.state, states |-> m.states]
  BY DEF markov_init
<1>2. Len(<<>>) = 0
  OBVIOUS
<1>3. K \in Nat /\ K > 0 /\ 0 \in States
  BY ChainOrder DEF States
<1>4. ASSUME NEW i \in States, NEW c \in BOOLEAN
      PROVE  m.states[2 * i + Bit(c)] = h[2 * i + Bit(c)] + Cardinality(Windows(<<>>, i, c))
  <2> DEFINE y == 2 * i + Bit(c)
  <2>1. Cardinality(Windows(<<>>, i, c)) = 0
    <3>1. Windows(<<>>, i, c) = {}
      BY <1>2, <1>3 DEF Windows
    <3> QED
      BY <3>1, FS_EmptySet
  <2>2. h[y] \in Nat /\ m.states[y] = h[y]
    BY <1>1, CounterIs
  <2> HIDE DEF y, m
  <2>3. m.states[y] = h[y] + Cardinality(Windows(<<>>, i, c))
    BY <2>1, <2>2
  <2> QED
    BY <2>3 DEF y
<1> HIDE DEF m
<1>5. Chained(m, h, <<>>)
  BY <1>1, <1>2, <1>3, <1>4 DEF Chained
<1> QED
  BY <1>5 DEF m

\* A sequence with one more bit.
LEMMA OneMoreBit ==
  ASSUME NEW s \in Seq(BOOLEAN), NEW b \in BOOLEAN
  PROVE  /\ Append(s, b) \in Seq(BOOLEAN) /\ Len(Append(s, b)) = Len(s) + 1 /\ Len(s) \in Nat
         /\ \A i \in 1..Len(s) : Append(s, b)[i] = s[i]
         /\ Append(s, b)[Len(s) + 1] = b
  OBVIOUS

\* The windows of a sequence with one more bit.
LEMMA OneMoreWindow ==
  ASSUME NEW s \in Seq(BOOLEAN), NEW b \in BOOLEAN, NEW i \in States, NEW c \in BOOLEAN
  PROVE  LET newest == Len(s) - K + 1
             new == Len(s) >= K /\ SubSeq(s, newest, newest + K - 1) = Window(i) /\ c = b
         IN /\ new => /\ Windows(Append(s, b), i, c) = Windows(s, i, c) \cup {newest}
                      /\ newest \notin Windows(s, i, c)
            /\ ~new => Windows(Append(s, b), i, c) = Windows(s, i, c)
<1> DEFINE t == Append(s, b)
           n == Len(s)
           newest == n - K + 1
<1>1. /\ t \in Seq(BOOLEAN) /\ Len(t) = n + 1 /\ n \in Nat
      /\ \A j \in 1..n : t[j] = s[j]
      /\ t[n + 1] = b
  BY OneMoreBit
<1>2. K \in Nat /\ K > 0
  BY ChainOrder
<1> HIDE DEF t
<1>3. ASSUME NEW j \in Nat \ {0}, j + K - 1 <= n
      PROVE  SubSeq(t, j, j + K - 1) = SubSeq(s, j, j + K - 1)
  <2>1. j + K - 1 <= Len(t)
    BY <1>1, <1>2, <1>3
  <2>2. SubSeq(s, j, j + K - 1) = [x \in 1..K |-> s[j + x - 1]]
    BY <1>3, WindowIs
  <2>3. SubSeq(t, j, j + K - 1) = [x \in 1..K |-> t[j + x - 1]]
    BY <1>1, <2>1, WindowIs
  <2>4. \A x \in 1..K : t[j + x - 1] = s[j + x - 1]
    <3> SUFFICES ASSUME NEW x \in 1..K PROVE t[j + x - 1] = s[j + x - 1]
      OBVIOUS
    <3>1. j + x - 1 \in 1..n
      BY <1>2, <1>3
    <3> QED
      BY <1>1, <3>1
  <2>5. [x \in 1..K |-> t[j + x - 1]] = [x \in 1..K |-> s[j + x - 1]]
    BY <2>4, Zenon
  <2> QED
    BY <2>2, <2>3, <2>5, Zenon
<1>4. Len(t) - K = newest
  BY <1>1, <1>2
<1>5. ASSUME NEW j \in 1..(n - K)
      PROVE  j \in Windows(t, i, c) <=> j \in Windows(s, i, c)
  <2>1. j \in Nat \ {0} /\ j + K - 1 <= n /\ j + K \in 1..n /\ j \in 1..(Len(t) - K)
    BY <1>1, <1>2
  <2>2. SubSeq(t, j, j + K - 1) = SubSeq(s, j, j + K - 1) /\ t[j + K] = s[j + K]
    BY <1>1, <1>3, <2>1
  <2> QED
    BY <2>1, <2>2 DEF Windows
<1>6. ASSUME n >= K
      PROVE  newest \in Windows(t, i, c) <=> SubSeq(s, newest, newest + K - 1) = Window(i) /\ c = b
  <2>1. newest \in Nat \ {0} /\ newest + K - 1 <= n /\ newest + K = n + 1 /\ newest \in 1..(Len(t) - K)
    BY <1>1, <1>2, <1>6
  <2>2. SubSeq(t, newest, newest + K - 1) = SubSeq(s, newest, newest + K - 1) /\ t[newest + K] = b
    BY <1>1, <1>3, <2>1
  <2> HIDE DEF newest
  <2> QED
    BY <2>1, <2>2 DEF Windows
<1>7. \A j : j \in Windows(t, i, c) => j \in 1..newest
  BY <1>4 DEF Windows
<1>8. \A j : j \in Windows(s, i, c) => j \in 1..(n - K)
  BY DEF Windows
<1>9. \A j \in 1..newest : j \in 1..(n - K) \/ (j = newest /\ n >= K)
  BY <1>1, <1>2
<1>10. newest \notin 1..(n - K)
  BY <1>1, <1>2
<1> DEFINE new == n >= K /\ SubSeq(s, newest, newest + K - 1) = Window(i) /\ c = b
<1> HIDE DEF newest, n
<1>11. ASSUME new
       PROVE  Windows(t, i, c) = Windows(s, i, c) \cup {newest} /\ newest \notin Windows(s, i, c)
  <2>1. newest \in Windows(t, i, c)
    BY <1>6, <1>11
  <2>2. \A j : j \in Windows(t, i, c) => j \in Windows(s, i, c) \/ j = newest
    BY <1>5, <1>7, <1>9
  <2>3. \A j : j \in Windows(s, i, c) => j \in Windows(t, i, c)
    BY <1>5, <1>8
  <2> QED
    BY <1>8, <1>10, <2>1, <2>2, <2>3
<1>12. ASSUME ~new
       PROVE  Windows(t, i, c) = Windows(s, i, c)
  <2>1. \A j : j \in Windows(t, i, c) => j \in Windows(s, i, c)
    BY <1>5, <1>6, <1>7, <1>9, <1>12
  <2>2. \A j : j \in Windows(s, i, c) => j \in Windows(t, i, c)
    BY <1>5, <1>8
  <2> QED
    BY <2>1, <2>2
<1> QED
  BY <1>11, <1>12 DEF t, newest, n

\* The state is the last window.
LEMMA StateIsWindow ==
  ASSUME NEW s \in Seq(BOOLEAN), Len(s) >= K, NEW q \in States, NEW i \in States,
         \A e \in Nat : e < K /\ e < Len(s) => (BitAt(q, e) = 1 <=> s[Len(s) - e])
  PROVE  LET newest == Len(s) - K + 1 IN SubSeq(s, newest, newest + K - 1) = Window(i) <=> i = q
<1> DEFINE newest == Len(s) - K + 1
<1>1. K \in Nat /\ K > 0 /\ Len(s) \in Nat
  BY ChainOrder
<1>2. newest \in Nat \ {0} /\ newest + K - 1 <= Len(s) /\ newest + K - 1 = Len(s)
  BY <1>1
<1>3. SubSeq(s, newest, newest + K - 1) = Window(i) <=>
        \A e \in Nat : e < K => (BitAt(i, e) = 1 <=> s[newest + K - 1 - e])
  <2> HIDE DEF newest
  <2> QED
    BY <1>2, WindowIs
<1>4. \A e \in Nat : e < K => (BitAt(q, e) = 1 <=> s[newest + K - 1 - e])
  <2> SUFFICES ASSUME NEW e \in Nat, e < K
               PROVE  BitAt(q, e) = 1 <=> s[newest + K - 1 - e]
    OBVIOUS
  <2>1. e < Len(s) /\ newest + K - 1 - e = Len(s) - e
    BY <1>1
  <2> QED
    BY <2>1, Zenon
<1>5. ASSUME \A e \in Nat : e < K => (BitAt(i, e) = 1 <=> s[newest + K - 1 - e])
      PROVE  i = q
  <2>1. \A e \in Nat : e < K => (BitAt(i, e) = 1 <=> BitAt(q, e) = 1)
    BY <1>4, <1>5, Zenon
  <2>2. i \in Nat /\ q \in Nat
    BY ChainOrder
  <2>3. \A e \in Nat : e < K => BitAt(i, e) = BitAt(q, e)
    <3> SUFFICES ASSUME NEW e \in Nat, e < K PROVE BitAt(i, e) = BitAt(q, e)
      OBVIOUS
    <3>1. BitAt(i, e) \in {0, 1} /\ BitAt(q, e) \in {0, 1}
      BY <2>2, BitIs
    <3> QED
      BY <2>1, <3>1
  <2> QED
    BY <1>1, <2>3, BitsDetermine DEF States
<1> QED
  BY <1>3, <1>4, <1>5

\* addChar.
LEMMA ChainGrows ==
  ASSUME NEW h \in [Counters -> Nat], NEW s \in Seq(BOOLEAN), NEW b \in BOOLEAN,
         NEW m, Chained(m, h, s)
  PROVE  Chained(markov_addChar(m, b), h, Append(s, b))
<1> DEFINE q == markov_addChar(m, b)
           t == Append(s, b)
           n == Len(s)
           x == 2 * m.state + Bit(b)
<1>1. /\ m.k = IF n < K THEN K - n ELSE 0
      /\ m.state \in States
      /\ \A e \in Nat : e < K /\ e < n => (BitAt(m.state, e) = 1 <=> s[n - e])
      /\ m.states \in [Counters -> Nat]
      /\ \A i \in States : \A c \in BOOLEAN :
           m.states[2 * i + Bit(c)] = h[2 * i + Bit(c)] + Cardinality(Windows(s, i, c))
  BY DEF Chained
<1>2. /\ t \in Seq(BOOLEAN) /\ Len(t) = n + 1 /\ n \in Nat
      /\ \A j \in 1..n : t[j] = s[j]
      /\ t[n + 1] = b
  BY OneMoreBit
<1>3. K \in Nat /\ K > 0 /\ state_mod = 2 ^ K /\ Bit(b) \in {0, 1} /\ m.state \in Nat
  BY <1>1, ChainOrder DEF Bit
<1>4. /\ q.k = IF m.k # 0 THEN m.k - 1 ELSE 0
      /\ q.states = IF m.k # 0 THEN m.states ELSE [m.states EXCEPT ![x] = @ + 1]
      /\ q.state = ((2 * m.state) % 2 ^ K) + Bit(b)
      /\ q = [k |-> q.k, state |-> q.state, states |-> q.states]
  <2>1. q = [k |-> IF m.k # 0 THEN m.k - 1 ELSE 0,
             states |-> IF m.k # 0 THEN m.states ELSE [m.states EXCEPT ![x] = @ + 1],
             state |-> ((2 * m.state) % 2 ^ K) + Bit(b)]
    BY <1>3 DEF markov_addChar
  <2> HIDE DEF q, x
  <2> QED
    BY <2>1
<1> HIDE DEF q, t
<1>5. q.k = IF Len(t) < K THEN K - Len(t) ELSE 0
  BY <1>1, <1>2, <1>3, <1>4
<1>6. /\ q.state \in States /\ BitAt(q.state, 0) = Bit(b)
      /\ \A e \in Nat : e + 1 < K => BitAt(q.state, e + 1) = BitAt(m.state, e)
  <2>1. K \in Nat \ {0}
    BY <1>3
  <2> QED
    BY <1>3, <1>4, <2>1, ShiftedBits DEF States
<1>7. ASSUME NEW e \in Nat, e < K, e < Len(t)
      PROVE  BitAt(q.state, e) = 1 <=> t[Len(t) - e]
  <2>1. CASE e = 0
    <3>1. t[Len(t) - e] = b /\ BitAt(q.state, e) = Bit(b)
      BY <1>2, <1>6, <2>1
    <3> QED
      BY <3>1 DEF Bit
  <2>2. CASE e # 0
    <3>1. e - 1 \in Nat /\ (e - 1) + 1 = e /\ e - 1 < K /\ e - 1 < n
          /\ Len(t) - e = n - (e - 1) /\ n - (e - 1) \in 1..n
      <4> HIDE DEF n
      <4>1. Len(t) = n + 1 /\ n \in Nat /\ K \in Nat /\ e < n + 1
        BY <1>2, <1>3, <1>7
      <4> QED
        BY <4>1, <1>7, <2>2
    <3>2. BitAt(q.state, e) = BitAt(m.state, e - 1)
      <4>1. BitAt(q.state, (e - 1) + 1) = BitAt(m.state, e - 1)
        BY <1>6, <1>7, <3>1
      <4> QED
        BY <3>1, <4>1, Zenon
    <3>3. BitAt(m.state, e - 1) = 1 <=> s[n - (e - 1)]
      BY <1>1, <3>1
    <3>4. t[Len(t) - e] = s[n - (e - 1)]
      BY <1>2, <3>1
    <3> QED
      BY <3>2, <3>3, <3>4, Zenon
  <2> QED
    BY <2>1, <2>2
<1>8. x \in Counters
  BY <1>1, CounterIs
<1>9. q.states \in [Counters -> Nat]
  <2> HIDE DEF x
  <2>1. m.states[x] + 1 \in Nat
    BY <1>1, <1>8
  <2> QED
    BY <1>1, <1>4, <1>8, <2>1
<1>10. ASSUME NEW i \in States, NEW c \in BOOLEAN
       PROVE  q.states[2 * i + Bit(c)] = h[2 * i + Bit(c)] + Cardinality(Windows(t, i, c))
  <2> DEFINE y == 2 * i + Bit(c)
             newest == n - K + 1
             new == n >= K /\ SubSeq(s, newest, newest + K - 1) = Window(i) /\ c = b
  <2>1. y \in Counters /\ (y = x <=> i = m.state /\ c = b)
    BY <1>1, CounterIs
  <2>2. new <=> m.k = 0 /\ y = x
    <3>1. n >= K <=> m.k = 0
      <4>1. m.k = IF n < K THEN K - n ELSE 0
        BY <1>1
      <4> HIDE DEF n
      <4> QED
        BY <4>1, <1>2, <1>3
    <3>2. n >= K => (SubSeq(s, newest, newest + K - 1) = Window(i) <=> i = m.state)
      BY <1>1, StateIsWindow
    <3> HIDE DEF x, y, newest
    <3> QED
      BY <2>1, <3>1, <3>2
  <2>3. /\ new => Windows(t, i, c) = Windows(s, i, c) \cup {newest} /\ newest \notin Windows(s, i, c)
        /\ ~new => Windows(t, i, c) = Windows(s, i, c)
    BY OneMoreWindow DEF t
  <2>4. IsFiniteSet(Windows(s, i, c)) /\ Cardinality(Windows(s, i, c)) \in Nat
    <3>1. Windows(s, i, c) \in SUBSET (1..(n - K))
      BY DEF Windows
    <3>2. n - K \in Int /\ 1 \in Int
      BY <1>2, <1>3
    <3>3. IsFiniteSet(1..(n - K))
      BY <3>2, FS_Interval
    <3> QED
      BY <3>1, <3>3, FS_Subset, FS_CardinalityType
  <2>5. m.states[y] = h[y] + Cardinality(Windows(s, i, c)) /\ h[y] \in Nat
    BY <1>1, <2>1
  <2> HIDE DEF x, y, newest, new
  <2>6. CASE new
    <3>1. Cardinality(Windows(t, i, c)) = Cardinality(Windows(s, i, c)) + 1
      BY <2>3, <2>4, <2>6, FS_AddElement
    <3>2. q.states[y] = m.states[y] + 1
      BY <1>1, <1>4, <2>1, <2>2, <2>6
    <3> QED
      BY <2>4, <2>5, <3>1, <3>2 DEF y
  <2>7. CASE ~new
    <3>1. q.states[y] = m.states[y]
      BY <1>1, <1>4, <1>8, <2>1, <2>2, <2>7
    <3> QED
      BY <2>3, <2>5, <2>7, <3>1 DEF y
  <2> QED
    BY <2>6, <2>7
<1>11. Chained(q, h, t)
  BY <1>4, <1>5, <1>6, <1>7, <1>9, <1>10 DEF Chained
<1> QED
  BY <1>11 DEF q, t

-----------------------------------------------------------------------------
(* What a chain was fed with: the bits of a trace at some positions.       *)

\* The bits of a trace at the positions of a set, in their order.
Image(t, S) == [i \in 1..Cardinality(S) |-> t[Nth(S, i)]]

\* One more position, behind the others, is one more bit.
LEMMA ImageGrows ==
  ASSUME NEW t, NEW S \in SUBSET Nat, IsFiniteSet(S), NEW x \in Nat, \A m \in S : m < x,
         \A m \in S : t[m] \in BOOLEAN
  PROVE  /\ Image(t, S) \in Seq(BOOLEAN)
         /\ Image(t, S \cup {x}) = Append(Image(t, S), t[x])
<1> DEFINE U == S \cup {x}
           N == Cardinality(S)
           s == Image(t, S)
<1>1. N \in Nat
  BY FS_CardinalityType
<1>2. IsFiniteSet(U) /\ Cardinality(U) = N + 1 /\ U \in SUBSET Nat /\ x \in U
  <2>1. x \notin S
    OBVIOUS
  <2> QED
    BY <2>1, FS_AddElement
<1> HIDE DEF N
<1>3. ASSUME NEW i \in 1..N
      PROVE  Nth(S, i) \in S /\ Nth(U, i) = Nth(S, i)
  <2> DEFINE y == Nth(S, i)
  <2>1. y \in S /\ Cardinality(Upto(S, y)) = i
    BY NthFacts DEF N
  <2> HIDE DEF y
  <2>2. Upto(U, y) = Upto(S, y)
    <3>1. y \in Nat /\ y < x
      BY <2>1
    <3>2. ~(x <= y)
      BY <3>1
    <3> QED
      BY <3>2 DEF Upto
  <2>3. y \in U
    BY <2>1
  <2>4. Nth(U, i) = y
    <3> HIDE DEF U
    <3> QED
      BY <1>2, <2>1, <2>2, <2>3, NthFacts
  <2> QED
    BY <2>1, <2>4 DEF y
<1>4. Nth(U, N + 1) = x
  <2>1. Upto(U, x) = U
    <3>1. \A m \in U : m <= x
      OBVIOUS
    <3> QED
      BY <3>1 DEF Upto
  <2> HIDE DEF U
  <2> QED
    BY <1>2, <2>1, NthFacts
<1>5. s = [i \in 1..N |-> t[Nth(S, i)]]
  BY DEF Image, N
<1>6. s \in Seq(BOOLEAN) /\ Len(s) = N
  <2>1. \A i \in 1..N : t[Nth(S, i)] \in BOOLEAN
    BY <1>3
  <2>2. s \in [1..N -> BOOLEAN]
    <3> HIDE DEF s
    <3> QED
      BY <1>5, <2>1
  <2>3. ASSUME NEW T, NEW q \in [1..N -> T]
        PROVE  q \in Seq(T) /\ Len(q) = N
    BY <1>1
  <2> HIDE DEF s
  <2> QED
    BY <2>2, <2>3
<1>7. Image(t, U) = [i \in 1..(N + 1) |-> t[Nth(U, i)]]
  <2> HIDE DEF U
  <2> QED
    BY <1>2 DEF Image
<1>8. Append(s, t[x]) = [i \in 1..(N + 1) |-> IF i = N + 1 THEN t[x] ELSE s[i]]
  <2> HIDE DEF s
  <2> QED
    BY <1>1, <1>6
<1>9. \A i \in 1..(N + 1) : t[Nth(U, i)] = IF i = N + 1 THEN t[x] ELSE s[i]
  <2> SUFFICES ASSUME NEW i \in 1..(N + 1)
               PROVE  t[Nth(U, i)] = IF i = N + 1 THEN t[x] ELSE s[i]
    OBVIOUS
  <2>1. CASE i = N + 1
    BY <1>4, <2>1, Zenon
  <2>2. CASE i # N + 1
    <3>1. i \in 1..N
      BY <1>1, <2>2
    <3>2. s[i] = t[Nth(S, i)]
      <4> HIDE DEF s
      <4> QED
        BY <1>5, <3>1
    <3> HIDE DEF s, U
    <3> QED
      BY <1>3, <2>2, <3>1, <3>2, Zenon
  <2> QED
    BY <2>1, <2>2
<1> HIDE DEF s, U
<1>10. Image(t, U) = Append(s, t[x])
  BY <1>7, <1>8, <1>9, Zenon
<1> QED
  BY <1>6, <1>10 DEF s, U

\* Nothing is an image of nothing.
LEMMA ImageOfNothing ==
  ASSUME NEW t
  PROVE  Image(t, {}) = <<>>
<1>1. Cardinality({}) = 0
  BY FS_EmptySet
<1> QED
  BY <1>1 DEF Image

\* A chain that is fed with one more bit of the trace.
LEMMA ChainFed ==
  ASSUME NEW h \in [Counters -> Nat], NEW t, NEW S \in SUBSET Nat, IsFiniteSet(S),
         NEW x \in Nat, \A m \in S : m < x, \A m \in S : t[m] \in BOOLEAN,
         t[x] \in BOOLEAN, NEW m, Chained(m, h, Image(t, S))
  PROVE  Chained(markov_addChar(m, t[x]), h, Image(t, S \cup {x}))
<1>1. Image(t, S) \in Seq(BOOLEAN) /\ Image(t, S \cup {x}) = Append(Image(t, S), t[x])
  BY ImageGrows
<1>2. Chained(markov_addChar(m, t[x]), h, Append(Image(t, S), t[x]))
  BY <1>1, ChainGrows
<1> QED
  BY <1>1, <1>2

\* The chains on the way of markov_addSuccesses.
LEMMA Successes ==
  ASSUME NEW m
  PROVE  \A n \in Nat : \E f :
           /\ f = [i \in 0..n |-> IF i = 0 THEN m ELSE markov_addChar(f[i - 1], TRUE)]
           /\ markov_addSuccesses(m, n) = f[n]
<1> DEFINE Is(f, n) == f = [i \in 0..n |-> IF i = 0 THEN m ELSE markov_addChar(f[i - 1], TRUE)]
           Good == {n \in Nat : \E f : Is(f, n)}
<1>1. 0 \in Good
  <2> DEFINE f == [i \in 0..0 |-> m]
  <2>1. \A i \in 0..0 : m = IF i = 0 THEN m ELSE markov_addChar(f[i - 1], TRUE)
    OBVIOUS
  <2>2. Is(f, 0)
    BY <2>1, Zenon
  <2> QED
    BY <2>2
<1>2. ASSUME NEW n \in Nat, n \in Good
      PROVE  n + 1 \in Good
  <2>1. PICK f : Is(f, n)
    BY <1>2
  <2> DEFINE g == [i \in 0..(n + 1) |-> IF i = 0 THEN m ELSE markov_addChar(f[i - 1], TRUE)]
  <2>2. \A i \in 0..n : f[i] = g[i]
    <3>1. \A i \in 0..n : i \in 0..(n + 1)
      OBVIOUS
    <3>2. \A i \in 0..n : f[i] = IF i = 0 THEN m ELSE markov_addChar(f[i - 1], TRUE)
      BY <2>1, Zenon
    <3> QED
      BY <3>1, <3>2, Zenon
  <2>3. \A i \in 0..(n + 1) :
          (IF i = 0 THEN m ELSE markov_addChar(f[i - 1], TRUE))
            = IF i = 0 THEN m ELSE markov_addChar(g[i - 1], TRUE)
    <3> HIDE DEF g
    <3>1. \A i \in 0..(n + 1) : i # 0 => i - 1 \in 0..n
      OBVIOUS
    <3> QED
      BY <2>2, <3>1, Zenon
  <2>4. Is(g, n + 1)
    BY <2>3, Zenon
  <2> HIDE DEF g, Is
  <2> QED
    BY <2>4
<1> HIDE DEF Good
<1>3. \A n \in Nat : n \in Good
  BY <1>1, <1>2, Induction
<1> SUFFICES ASSUME NEW n \in Nat
             PROVE  \E f : Is(f, n) /\ markov_addSuccesses(m, n) = f[n]
  OBVIOUS
<1>4. \E f : Is(f, n)
  BY <1>3 DEF Good
<1> DEFINE f == CHOOSE f : Is(f, n)
<1>5. Is(f, n)
  BY <1>4, Zenon
<1>6. markov_addSuccesses(m, n) = f[n]
  BY DEF markov_addSuccesses
<1> QED
  BY <1>5, <1>6

\* A run of received packets joins the image.
LEMMA SuccessesFed ==
  ASSUME NEW h \in [Counters -> Nat], NEW t, NEW p \in Nat, NEW len \in Nat,
         NEW S \in SUBSET (1..p), \A i \in S : t[i] \in BOOLEAN,
         \A i \in Int : p < i /\ i <= p + len => t[i] = TRUE,
         NEW m, Chained(m, h, Image(t, S))
  PROVE  Chained(markov_addSuccesses(m, len), h, Image(t, S \cup ((p + 1)..(p + len))))
<1>1. PICK f : /\ f = [i \in 0..len |-> IF i = 0 THEN m ELSE markov_addChar(f[i - 1], TRUE)]
               /\ markov_addSuccesses(m, len) = f[len]
  BY Successes
<1> DEFINE With(i) == S \cup ((p + 1)..(p + i))
           Good == {i \in Nat : i <= len => Chained(f[i], h, Image(t, With(i)))}
<1>2. 0 \in Good
  <2>1. f[0] = m
    BY <1>1
  <2>2. With(0) = S
    OBVIOUS
  <2> QED
    BY <2>1, <2>2
<1>3. ASSUME NEW i \in Nat, i \in Good
      PROVE  i + 1 \in Good
  <2> SUFFICES ASSUME i + 1 <= len PROVE Chained(f[i + 1], h, Image(t, With(i + 1)))
    OBVIOUS
  <2> DEFINE x == p + i + 1
             W == With(i)
  <2>1. Chained(f[i], h, Image(t, W))
    BY <1>3
  <2>2. i + 1 \in 0..len /\ i + 1 # 0 /\ (i + 1) - 1 = i
    OBVIOUS
  <2>3. f[i + 1] = markov_addChar(f[i], TRUE)
    <3>1. f[i + 1] = markov_addChar(f[(i + 1) - 1], TRUE)
      BY <1>1, <2>2, Zenon
    <3> QED
      BY <2>2, <3>1, Zenon
  <2>4. W \in SUBSET Nat /\ x \in Nat /\ \A j \in W : j < x
    OBVIOUS
  <2>5. IsFiniteSet(W)
    <3>1. W \in SUBSET (1..(p + i)) /\ p + i \in Int /\ 1 \in Int
      OBVIOUS
    <3> HIDE DEF W
    <3>2. IsFiniteSet(1..(p + i))
      BY <3>1, FS_Interval
    <3> QED
      BY <3>1, <3>2, FS_Subset
  <2>6. \A j \in W : t[j] \in BOOLEAN
    <3> SUFFICES ASSUME NEW j \in W PROVE t[j] \in BOOLEAN
      OBVIOUS
    <3>1. CASE j \in S
      BY <3>1
    <3>2. CASE j \notin S
      <4>1. j \in Int /\ p < j /\ j <= p + len
        BY <3>2
      <4> QED
        BY <4>1
    <3> QED
      BY <3>1, <3>2
  <2>7. t[x] = TRUE
    <3>1. x \in Int /\ p < x /\ x <= p + len
      OBVIOUS
    <3> QED
      BY <3>1
  <2>8. With(i + 1) = W \cup {x}
    <3>1. \A j : j \in (p + 1)..(p + (i + 1)) <=> j \in (p + 1)..(p + i) \/ j = x
      OBVIOUS
    <3> HIDE DEF x
    <3> QED
      BY <3>1
  <2> HIDE DEF W, x
  <2>9. t[x] \in BOOLEAN
    BY <2>7
  <2>10. Chained(markov_addChar(f[i], t[x]), h, Image(t, W \cup {x}))
    BY <2>1, <2>4, <2>5, <2>6, <2>9, ChainFed
  <2> QED
    BY <2>3, <2>7, <2>8, <2>10
<1> HIDE DEF Good
<1>4. \A i \in Nat : i \in Good
  BY <1>2, <1>3, Induction
<1>5. len \in Good /\ len <= len
  BY <1>4
<1> QED
  BY <1>1, <1>5 DEF Good

-----------------------------------------------------------------------------
(* The chain of a ParamBasicMTA.                                           *)

\* What it was fed with after n bits of the second round: the bits outside of
\* the error-free bursts, without those of the run of received packets that
\* may become one.
FedSet(m, t, n) ==
  (1..(IF m.current_state THEN n - m.length ELSE n)) \ Long(t, m.C)

\* The chain was fed with them.
MtaFed(m, h, t, n) == Chained(m.markov, h, Image(t, FedSet(m, t, n)))

\* The bits of a trace outside of its error-free bursts.
LEMMA OutsideFacts ==
  ASSUME NEW t \in Trace, NEW n \in Nat, n <= Len(t), NEW c
  PROVE  LET S == (1..n) \ Long(t, c) IN
         /\ S \in SUBSET Nat /\ S \in SUBSET (1..n) /\ IsFiniteSet(S)
         /\ \A i \in S : t[i] \in BOOLEAN /\ i < n + 1
<1> DEFINE S == (1..n) \ Long(t, c)
<1>1. S \in SUBSET Nat /\ S \in SUBSET (1..n)
  OBVIOUS
<1>2. IsFiniteSet(S)
  BY FiniteParts
<1>3. \A i \in 1..n : i \in 1..Len(t) /\ i < n + 1
  BY TraceDomain
<1>4. \A i \in 1..n : t[i] \in BOOLEAN
  BY <1>3, TraceDomain
<1> QED
  BY <1>1, <1>2, <1>3, <1>4

\* A lost packet outside is fed.
LEMMA LossFed ==
  ASSUME NEW t \in Trace, NEW n \in Nat, n < Len(t), NEW c, ~t[n + 1],
         NEW h \in [Counters -> Nat], NEW m, Chained(m, h, Image(t, (1..n) \ Long(t, c)))
  PROVE  Chained(markov_addChar(m, FALSE), h, Image(t, (1..(n + 1)) \ Long(t, c)))
<1> DEFINE S == (1..n) \ Long(t, c)
           x == n + 1
<1>1. /\ S \in SUBSET Nat /\ IsFiniteSet(S)
      /\ \A i \in S : t[i] \in BOOLEAN /\ i < x
  <2>1. n <= Len(t)
    BY TraceDomain
  <2> QED
    BY <2>1, OutsideFacts
<1>2. x \in Nat /\ x \in 1..Len(t)
  BY TraceDomain
<1>3. t[x] = FALSE
  <2>1. t[x] \in BOOLEAN
    BY <1>2, TraceDomain
  <2> QED
    BY <2>1
<1>4. x \notin Long(t, c)
  BY <1>2, <1>3, LongFacts, TraceDomain
<1>5. (1..(n + 1)) \ Long(t, c) = S \cup {x}
  <2>1. 1..(n + 1) = (1..n) \cup {x}
    OBVIOUS
  <2> QED
    BY <1>4, <2>1
<1> HIDE DEF S, x
<1>6. Chained(m, h, Image(t, S))
  BY DEF S
<1>7. Chained(markov_addChar(m, t[x]), h, Image(t, S \cup {x}))
  <2>1. t[x] \in BOOLEAN
    BY <1>3
  <2> QED
    BY <1>1, <1>2, <1>6, <2>1, ChainFed
<1> QED
  BY <1>3, <1>5, <1>7

\* The end of a run of received packets: it is part of an error-free burst,
\* or it is fed.
LEMMA EndOfRunFed ==
  ASSUME NEW t \in Trace, NEW n \in Nat, n <= Len(t), NEW m, MtaInv(m, t, n),
         m.current_state, n < Len(t) => ~t[n + 1],
         NEW h \in [Counters -> Nat], MtaFed(m, h, t, n)
  PROVE  Chained(mta_endOfRun(m).markov, h, Image(t, (1..n) \ Long(t, m.C)))
<1> DEFINE len == m.length
           c == m.C
           p == n - len
           S == (1..p) \ Long(t, c)
<1>1. /\ Mta(m) /\ c \in Nat /\ Run(t, n, len, TRUE) /\ len \in 0..n
      /\ p \in Nat /\ p <= n /\ p + len = n
  <2>1. m.current_state = TRUE
    BY DEF MtaInv
  <2> QED
    BY <2>1 DEF MtaInv, Run
<1>2. /\ len > c => \A i \in Int : p < i /\ i <= n => i \in Long(t, c)
      /\ ~(len > c) => \A i \in Int : p < i /\ i <= n => i \notin Long(t, c)
  <2>1. n < Len(t) => (t[n + 1] <=> ~TRUE)
    OBVIOUS
  <2> HIDE DEF len, c
  <2> QED
    BY <1>1, <2>1, RunIsOver
<1>3. Chained(m.markov, h, Image(t, S))
  BY DEF MtaFed, FedSet
<1>4. \A i : i \in 1..n <=> i \in 1..p \/ (i \in Int /\ p < i /\ i <= n)
  BY <1>1
<1>5. CASE len > c
  <2>1. mta_endOfRun(m).markov = m.markov
    BY <1>1, <1>5, EndOfRunFields
  <2>2. (1..n) \ Long(t, c) = S
    <3> HIDE DEF len, c, p
    <3> QED
      BY <1>2, <1>4, <1>5 DEF S
  <2> QED
    BY <1>3, <2>1, <2>2
<1>6. CASE ~(len > c)
  <2>1. mta_endOfRun(m).markov = markov_addSuccesses(m.markov, len)
    BY <1>1, <1>6, EndOfRunFields
  <2>2. (1..n) \ Long(t, c) = S \cup ((p + 1)..(p + len))
    <3>1. \A i : i \in (p + 1)..(p + len) <=> i \in Int /\ p < i /\ i <= n
      <4> HIDE DEF p, len
      <4> QED
        BY <1>1
    <3> HIDE DEF len, c, p
    <3> QED
      BY <1>2, <1>4, <1>6, <3>1 DEF S
  <2>3. \A i \in Int : p < i /\ i <= p + len => t[i] = TRUE
    <3> SUFFICES ASSUME NEW i \in Int, p < i, i <= p + len PROVE t[i] = TRUE
      OBVIOUS
    <3>1. i <= n /\ n > 0 /\ i \in 1..Len(t)
      <4> HIDE DEF p, len
      <4> QED
        BY <1>1, TraceDomain
    <3>2. t[i] <=> TRUE
      BY <1>1, <3>1 DEF Run
    <3>3. t[i] \in BOOLEAN
      BY <3>1, TraceDomain
    <3> QED
      BY <3>2, <3>3
  <2>4. S \in SUBSET (1..p) /\ \A i \in S : t[i] \in BOOLEAN
    <3>1. p <= Len(t)
      <4> HIDE DEF p
      <4> QED
        BY <1>1, TraceDomain
    <3> HIDE DEF p
    <3> QED
      BY <1>1, <3>1, OutsideFacts
  <2> HIDE DEF S, p, len, c
  <2>5. Chained(markov_addSuccesses(m.markov, len), h, Image(t, S \cup ((p + 1)..(p + len))))
    <3>1. len \in Nat
      BY <1>1
    <3> QED
      BY <1>1, <1>3, <2>3, <2>4, <3>1, SuccessesFed
  <2> QED
    BY <2>1, <2>2, <2>5 DEF c
<1> QED
  BY <1>5, <1>6

\* The second round, one more bit.
LEMMA MtaFedGrows ==
  ASSUME NEW t \in Trace, NEW n \in Nat, n < Len(t), NEW m, MtaInv(m, t, n),
         NEW h \in [Counters -> Nat], MtaFed(m, h, t, n)
  PROVE  MtaFed(mta_addChar(m, t[n + 1]), h, t, n + 1)
<1> DEFINE b == t[n + 1]
           q == mta_addChar(m, b)
           cs == m.current_state
           S == (1..n) \ Long(t, m.C)
<1>1. /\ Mta(m) /\ cs \in BOOLEAN /\ m.second_round = TRUE /\ m.C \in Nat
      /\ m.length \in 0..n
  BY DEF MtaInv, Run
<1>2. b \in BOOLEAN
  BY TraceDomain
<1>3. CASE b = cs /\ cs
  <2>1. q = [[m EXCEPT !.length = @ + 1] EXCEPT !.current_state = b]
    BY <1>1, <1>3 DEF mta_addChar
  <2> HIDE DEF b
  <2>2. q.markov = m.markov /\ q.C = m.C /\ q.length = m.length + 1 /\ q.current_state
    BY <1>1, <1>3, <2>1 DEF Mta
  <2> HIDE DEF q
  <2>3. (n + 1) - (m.length + 1) = n - m.length
    BY <1>1
  <2>4. FedSet(q, t, n + 1) = FedSet(m, t, n)
    BY <1>3, <2>2, <2>3, Zenon DEF FedSet
  <2>5. MtaFed(q, h, t, n + 1)
    BY <2>2, <2>4 DEF MtaFed
  <2> QED
    BY <2>5 DEF q, b
<1>4. CASE b = cs /\ ~cs
  <2> DEFINE e == [m EXCEPT !.markov = markov_addChar(@, FALSE)]
  <2>1. q = [[e EXCEPT !.length = @ + 1] EXCEPT !.current_state = b]
    BY <1>1, <1>4 DEF mta_addChar
  <2> HIDE DEF b
  <2>2. q.markov = markov_addChar(m.markov, FALSE) /\ q.C = m.C /\ ~q.current_state
    BY <1>1, <1>4, <2>1 DEF Mta
  <2> HIDE DEF q
  <2>3. Chained(m.markov, h, Image(t, S))
    BY <1>4 DEF MtaFed, FedSet
  <2>4. Chained(markov_addChar(m.markov, FALSE), h, Image(t, (1..(n + 1)) \ Long(t, m.C)))
    BY <1>4, <2>3, LossFed DEF b
  <2>5. MtaFed(q, h, t, n + 1)
    BY <2>2, <2>4 DEF MtaFed, FedSet
  <2> QED
    BY <2>5 DEF q, b
<1>5. CASE b # cs /\ cs
  <2> DEFINE e == mta_endOfRun(m)
  <2>0. ~t[n + 1]
    BY <1>1, <1>2, <1>5
  <2>1. Mta(e) /\ e.C = m.C
    BY <1>1, EndOfRunFields
  <2>2. q = [[[e EXCEPT !.markov = markov_addChar(@, FALSE)] EXCEPT !.length = 1]
               EXCEPT !.current_state = b]
    BY <1>1, <1>5 DEF mta_addChar
  <2>3. Chained(e.markov, h, Image(t, S))
    BY <1>5, <2>0, EndOfRunFed
  <2>4. Chained(markov_addChar(e.markov, FALSE), h, Image(t, (1..(n + 1)) \ Long(t, m.C)))
    <3> HIDE DEF e
    <3> QED
      BY <2>0, <2>3, LossFed
  <2>5. ~b
    BY <2>0
  <2> HIDE DEF e, b
  <2>6. q.markov = markov_addChar(e.markov, FALSE) /\ q.C = m.C /\ ~q.current_state
    BY <2>1, <2>2, <2>5 DEF Mta
  <2> HIDE DEF q
  <2>7. MtaFed(q, h, t, n + 1)
    BY <2>4, <2>6 DEF MtaFed, FedSet
  <2> QED
    BY <2>7 DEF q, b
<1>6. CASE b # cs /\ ~cs
  <2>1. q = [[[m EXCEPT !.length_error = @ + m.length] EXCEPT !.length = 1]
               EXCEPT !.current_state = b]
    BY <1>1, <1>6 DEF mta_addChar
  <2>2. b
    BY <1>1, <1>2, <1>6
  <2> HIDE DEF b
  <2>3. q.markov = m.markov /\ q.C = m.C /\ q.length = 1 /\ q.current_state
    BY <1>1, <2>1, <2>2 DEF Mta
  <2> HIDE DEF q
  <2>4. (n + 1) - 1 = n
    OBVIOUS
  <2>5. FedSet(q, t, n + 1) = FedSet(m, t, n)
    BY <1>6, <2>3, <2>4, Zenon DEF FedSet
  <2>6. MtaFed(q, h, t, n + 1)
    BY <2>3, <2>5 DEF MtaFed
  <2> QED
    BY <2>6 DEF q, b
<1> QED
  BY <1>1, <1>2, <1>3, <1>4, <1>5, <1>6

\* finalize feeds the run that is still pending.
LEMMA MtaFedEnds ==
  ASSUME NEW t \in Trace, NEW m, MtaInv(m, t, Len(t)),
         NEW h \in [Counters -> Nat], MtaFed(m, h, t, Len(t))
  PROVE  /\ Chained(mta_finalize(m).markov, h, Image(t, (1..Len(t)) \ Long(t, m.C)))
         /\ mta_finalize(m).C = m.C
<1> DEFINE n == Len(t)
           cs == m.current_state
           e == IF cs THEN mta_endOfRun(m) ELSE [m EXCEPT !.length_error = @ + m.length]
           q == mta_finalize(m)
<1>1. Mta(m) /\ n \in Nat /\ n <= n /\ ~(n < n)
  BY TraceDomain DEF MtaInv
<1>2. Mta(e) /\ e.C = m.C /\ Chained(e.markov, h, Image(t, (1..n) \ Long(t, m.C)))
  <2>1. CASE cs
    <3>1. Mta(mta_endOfRun(m)) /\ mta_endOfRun(m).C = m.C
      BY <1>1, EndOfRunFields
    <3>2. Chained(mta_endOfRun(m).markov, h, Image(t, (1..n) \ Long(t, m.C)))
      BY <1>1, <2>1, EndOfRunFed
    <3> QED
      BY <2>1, <3>1, <3>2
  <2>2. CASE ~cs
    <3>1. Mta(e) /\ e.C = m.C /\ e.markov = m.markov
      BY <1>1, <2>2 DEF Mta
    <3>2. Chained(m.markov, h, Image(t, (1..n) \ Long(t, m.C)))
      BY <2>2 DEF MtaFed, FedSet
    <3> QED
      BY <3>1, <3>2
  <2> QED
    BY <2>1, <2>2
<1>3. q = e \/ q = [e EXCEPT !.onoff = onoff_addChars(@, FALSE, e.length_error)]
  BY DEF mta_finalize
<1> HIDE DEF e, q
<1>4. q.markov = e.markov /\ q.C = e.C
  BY <1>2, <1>3 DEF Mta
<1> QED
  BY <1>2, <1>4 DEF q

=============================================================================
