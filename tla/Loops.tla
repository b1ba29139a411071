--------------------------------- MODULE Loops ---------------------------------
(***************************************************************************)
(* Induction over the turns of a loop.  The library states induction for   *)
(* a predicate, NEW P(_), which the provers here cannot instantiate; below *)
(* it is stated for the set of turns at which the predicate holds, and     *)
(* derived from the well-foundedness of < on the naturals.                 *)
(***************************************************************************)
EXTENDS Integers, NaturalsInduction, WellFoundedInduction, TLAPS

\* A set of naturals that is not empty has a least element.
LEMMA LeastElement ==
  ASSUME NEW T, T \subseteq Nat, T # {}
  PROVE  \E x \in T : \A y \in T : x <= y
<1>1. PICK x \in T : \A y \in T : ~(<<y, x>> \in OpToRel(<, Nat))
  BY NatLessThanWellFounded, WFMin
<1>2. ASSUME NEW y \in T
      PROVE  x <= y
  <2>1. ~(y < x)
    BY <1>1 DEF OpToRel
  <2> QED
    BY <2>1
<1> QED
  BY <1>2

\* What holds before the first of N turns, and after a turn if it held before it,
\* holds after every turn.
LEMMA LoopInduction ==
  ASSUME NEW N \in Nat, NEW S, 0 \in S, \A k \in 1..N : k - 1 \in S => k \in S
  PROVE  \A k \in 0..N : k \in S
<1> SUFFICES ASSUME NEW T, T = {k \in 0..N : k \notin S}, T # {}
             PROVE  FALSE
  OBVIOUS
<1>1. PICK x \in T : \A y \in T : x <= y
  <2>1. T \subseteq Nat
    OBVIOUS
  <2> QED
    BY <2>1, LeastElement
<1>2. x \in 1..N /\ x - 1 \in 0..N /\ x - 1 < x
  BY <1>1
<1>3. x - 1 \in S
  BY <1>1, <1>2
<1> QED
  BY <1>1, <1>2, <1>3

\* A loop of N turns, turn k of which applies G[k] to a value of A, runs.
LEMMA LoopRuns ==
  ASSUME NEW A, NEW a \in A, NEW N \in Nat, NEW G \in [1..N -> [A -> A]]
  PROVE  \E f \in [0..N -> A] : f[0] = a /\ \A k \in 1..N : f[k] = G[k][f[k - 1]]
<1> DEFINE Run(n, f) == f[0] = a /\ \A k \in 1..n : f[k] = G[k][f[k - 1]]
           S == {n \in 0..N : \E f \in [0..n -> A] : Run(n, f)}
<1>1. 0 \in S
  <2> DEFINE g == [k \in 0..0 |-> a]
  <2>1. g \in [0..0 -> A] /\ Run(0, g)
    OBVIOUS
  <2> HIDE DEF g
  <2> QED
    BY <2>1
<1>2. ASSUME NEW n \in 1..N, n - 1 \in S
      PROVE  n \in S
  <2>1. PICK f \in [0..(n - 1) -> A] : Run(n - 1, f)
    BY <1>2
  <2> DEFINE g == [k \in 0..n |-> IF k = n THEN G[n][f[n - 1]] ELSE f[k]]
  <2>2. f[n - 1] \in A /\ G[n] \in [A -> A]
    OBVIOUS
  <2>3. g \in [0..n -> A]
    BY <2>2
  <2>4. Run(n, g)
    BY <2>1
  <2> HIDE DEF g, Run
  <2> QED
    BY <2>3, <2>4
<1> HIDE DEF S
<1>3. N \in S
  <2>1. \A k \in 0..N : k \in S
    BY <1>1, <1>2, LoopInduction
  <2> QED
    BY <2>1
<1> QED
  BY <1>3 DEF S

-----------------------------------------------------------------------------
(* Measures: what falls with every turn of a loop cannot fall for ever.    *)

NatOrder == OpToRel(<, Nat)
PairOrder == LexPairOrdering(NatOrder, NatOrder, Nat, Nat)
FourOrder == LexPairOrdering(PairOrder, PairOrder, Nat \X Nat, Nat \X Nat)

\* Pairs of naturals, and pairs of those, in lexicographic order have no infinite
\* descending chain: a loop each turn of which makes its measure less ends.
LEMMA MeasuresEnd ==
  /\ IsWellFoundedOn(PairOrder, Nat \X Nat)
  /\ IsWellFoundedOn(FourOrder, (Nat \X Nat) \X (Nat \X Nat))
<1>1. IsWellFoundedOn(NatOrder, Nat)
  BY NatLessThanWellFounded DEF NatOrder
<1>2. IsWellFoundedOn(PairOrder, Nat \X Nat)
  BY <1>1, WFLexPairOrdering DEF PairOrder
<1> QED
  BY <1>2, WFLexPairOrdering DEF FourOrder

\* When a pair, and a pair of pairs, is less than another.
LEMMA PairLess ==
  ASSUME NEW a \in Nat, NEW b \in Nat, NEW c \in Nat, NEW d \in Nat,
         a < c \/ (a = c /\ b < d)
  PROVE  <<<<a, b>>, <<c, d>>>> \in PairOrder
BY DEF PairOrder, LexPairOrdering, NatOrder, OpToRel

LEMMA FourLess ==
  ASSUME NEW p \in Nat \X Nat, NEW q \in Nat \X Nat,
         NEW r \in Nat \X Nat, NEW s \in Nat \X Nat,
         <<p, r>> \in PairOrder \/ (p = r /\ <<q, s>> \in PairOrder)
  PROVE  <<<<p, q>>, <<r, s>>>> \in FourOrder
BY DEF FourOrder, LexPairOrdering

=============================================================================
