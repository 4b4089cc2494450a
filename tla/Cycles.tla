--------------------------------- MODULE Cycles ---------------------------------
(***************************************************************************)
(* Finite directed graphs: whether a graph has a cycle can be told from    *)
(* either end of its edges.                                                *)
(***************************************************************************)
EXTENDS FiniteSets, FiniteSetTheorems, WellFoundedInduction, TLAPS

\* Every member of S is entered, or left, by an edge of R from within S.
Preceded(S, R) == S # {} /\ \A n \in S : \E m \in S : <<m, n>> \in R
Succeeded(S, R) == S # {} /\ \A m \in S : \E n \in S : <<m, n>> \in R

\* Where every member of a finite set has a predecessor in it, there are
\* members each of which has a successor among them: both are a cycle.  (Take
\* a smallest such set: a member without successor could be left out.)
LEMMA Turned ==
    ASSUME NEW N, IsFiniteSet(N), NEW R, NEW S \in SUBSET N, Preceded(S, R)
    PROVE  \E T \in SUBSET S : Succeeded(T, R)
<1> USE DEF Preceded, Succeeded
<1> DEFINE Bad == {T \in SUBSET S : T # {} /\ \A n \in T : \E m \in T : <<m, n>> \in R}
<1>1. Bad \subseteq FiniteSubsetsOf(N) /\ S \in Bad
  <2>1. \A T \in SUBSET N : IsFiniteSet(T)
    BY FS_Subset
  <2> QED
    BY <2>1 DEF FiniteSubsetsOf
<1>2. IsWellFoundedOn(StrictSubsetOrdering(N), FiniteSubsetsOf(N))
  BY FS_StrictSubsetOrderingWellFounded
<1>3. Bad # {}
  BY <1>1
<1> HIDE DEF Bad
<1>4. PICK T \in Bad : \A U \in Bad : ~(<<U, T>> \in StrictSubsetOrdering(N))
  <2> DEFINE RR == StrictSubsetOrdering(N)
             SS == FiniteSubsetsOf(N)
  <2>1. IsWellFoundedOn(RR, SS) /\ Bad \subseteq SS /\ Bad # {}
    BY <1>1, <1>2, <1>3
  <2> HIDE DEF RR, SS
  <2>2. \E x \in Bad : \A y \in Bad : ~ (<<y, x>> \in RR)
    BY <2>1, WFMin
  <2> QED
    BY <2>2 DEF RR
<1>5. T \in SUBSET S /\ T # {} /\ \A n \in T : \E m \in T : <<m, n>> \in R
  BY <1>4 DEF Bad
<1>6. ASSUME NEW x \in T, \A n \in T : <<x, n>> \notin R
      PROVE  FALSE
  <2> DEFINE U == T \ {x}
  <2>1. \A n \in U : \E m \in U : <<m, n>> \in R
    BY <1>5, <1>6
  <2>2. U # {}
    <3>1. PICK m \in T : <<m, x>> \in R
      BY <1>5
    <3>2. m # x
      BY <3>1, <1>6
    <3> QED
      BY <3>2
  <2>3. U \in Bad
    BY <2>1, <2>2, <1>5 DEF Bad
  <2>4. <<U, T>> \in StrictSubsetOrdering(N)
    BY <1>5 DEF StrictSubsetOrdering
  <2> QED
    BY <1>4, <2>3, <2>4
<1> QED
  BY <1>5, <1>6

\* And the other way round.
LEMMA TurnedBack ==
    ASSUME NEW N, IsFiniteSet(N), NEW R, NEW S \in SUBSET N, Succeeded(S, R)
    PROVE  \E T \in SUBSET S : Preceded(T, R)
<1> DEFINE Q == {<<e[2], e[1]>> : e \in {x \in S \X S : x \in R}}
<1>1. \A m, n \in S : <<m, n>> \in R <=> <<n, m>> \in Q
  <2>1. \A m, n \in S : <<m, n>> \in R => <<n, m>> \in Q
    <3> SUFFICES ASSUME NEW m \in S, NEW n \in S, <<m, n>> \in R PROVE <<n, m>> \in Q
      OBVIOUS
    <3> DEFINE e == <<m, n>>
    <3>1. e \in {x \in S \X S : x \in R}
      OBVIOUS
    <3>2. <<e[2], e[1]>> = <<n, m>>
      OBVIOUS
    <3> QED
      BY <3>1, <3>2
  <2>2. \A m, n \in S : <<n, m>> \in Q => <<m, n>> \in R
    OBVIOUS
  <2> QED
    BY <2>1, <2>2
<1> HIDE DEF Q
<1>2. Preceded(S, Q)
  BY <1>1 DEF Preceded, Succeeded
<1>3. PICK T \in SUBSET S : Succeeded(T, Q)
  BY <1>2, Turned
<1> QED
  BY <1>1, <1>3 DEF Preceded, Succeeded
=================================================================================
