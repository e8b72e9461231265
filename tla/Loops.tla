-------------------------------- MODULE Loops --------------------------------
(***************************************************************************)
(* Lemmas about numbers and about the loops of the source, which the       *)
(* modules write as functions of the number of rounds.                     *)
(***************************************************************************)
EXTENDS Integers, WellFoundedInduction, TLAPS

LEMMA LessThan == IsWellFoundedOn({ss \in Nat \X Nat : ss[1] < ss[2]}, Nat)
BY NatLessThanWellFounded DEF OpToRel

LEMMA HasLeast ==
    ASSUME NEW T, T \subseteq Nat, T # {}
    PROVE  \E x \in T : \A y \in T : x <= y
<1> DEFINE R == {ss \in Nat \X Nat : ss[1] < ss[2]}
<1>1. IsWellFoundedOn(R, Nat)
  BY LessThan
<1>2. \A x, y \in T : y < x => <<y, x>> \in R
  OBVIOUS
<1> HIDE DEF R
<1>3. PICK x \in T : \A y \in T : ~ (<<y, x>> \in R)
  BY <1>1, WFMin
<1>4. \A y \in T : x <= y
  <2> SUFFICES ASSUME NEW y \in T PROVE x <= y
    OBVIOUS
  <2>1. ~(y < x)
    BY <1>2, <1>3
  <2> QED
    BY <2>1
<1> QED
  BY <1>4

\* What every round keeps holds behind the last one.
LEMMA LoopKeeps ==
    ASSUME NEW S, NEW N \in Nat, NEW f, f[0] \in S,
           \A n \in 1 .. N : f[n - 1] \in S => f[n] \in S
    PROVE  \A n \in 0 .. N : f[n] \in S
<1> DEFINE Lost == {n \in 0 .. N : f[n] \notin S}
<1>1. CASE Lost = {}
  BY <1>1
<1>2. CASE Lost # {}
  <2>1. PICK n \in Lost : \A m \in Lost : n <= m
    <3>1. Lost \subseteq Nat
      OBVIOUS
    <3> HIDE DEF Lost
    <3> QED
      BY <1>2, <3>1, HasLeast
  <2>2. n \in 1 .. N /\ n - 1 \in 0 .. N /\ n - 1 \notin Lost
    BY <2>1
  <2> QED
    BY <2>1, <2>2
<1> QED
  BY <1>1, <1>2

\* f is what a loop of N rounds computes on the values S, from start on.
Rounds(f, S, N, start, F) ==
    /\ f \in [0 .. N -> S]
    /\ f[0] = start /\ \A n \in 1 .. N : f[n] = F[n][f[n - 1]]

\* A loop of N rounds has a value after each.
LEMMA LoopExists ==
    ASSUME NEW S, NEW N \in Nat, NEW start \in S, NEW F \in [1 .. N -> [S -> S]]
    PROVE  \E f : Rounds(f, S, N, start, F)
<1> DEFINE Upto(m, f) == f[0] = start /\ \A n \in 1 .. m : f[n] = F[n][f[n - 1]]
           Undefined == {m \in 0 .. N : ~ \E f \in [0 .. m -> S] : Upto(m, f)}
<1>1. Undefined = {}
  <2> SUFFICES ASSUME Undefined # {} PROVE FALSE
    OBVIOUS
  <2>1. PICK m \in Undefined : \A k \in Undefined : m <= k
    <3>1. Undefined \subseteq Nat
      OBVIOUS
    <3> HIDE DEF Undefined
    <3> QED
      BY <3>1, HasLeast
  <2>2. m # 0
    <3> DEFINE f == [n \in 0 .. 0 |-> start]
    <3>1. f \in [0 .. 0 -> S] /\ Upto(0, f)
      OBVIOUS
    <3>2. \E h \in [0 .. 0 -> S] : Upto(0, h)
      BY <3>1
    <3> HIDE DEF Upto
    <3>3. 0 \notin Undefined
      BY <3>2
    <3> QED
      BY <2>1, <3>3
  <2>3. m \in 1 .. N /\ m - 1 \in 0 .. N /\ m - 1 \notin Undefined
    <3>1. m \in 0 .. N
      BY <2>1
    <3> HIDE DEF Undefined
    <3> QED
      BY <2>1, <2>2, <3>1
  <2>4. PICK f \in [0 .. m - 1 -> S] : Upto(m - 1, f)
    BY <2>3
  <2> DEFINE g == [n \in 0 .. m |-> IF n = m THEN F[m][f[m - 1]] ELSE f[n]]
  <2>5. g \in [0 .. m -> S]
    BY <2>3
  <2>6. Upto(m, g)
    <3>1. g[0] = start
      BY <2>3, <2>4
    <3>2. ASSUME NEW n \in 1 .. m PROVE g[n] = F[n][g[n - 1]]
      <4>1. n \in 0 .. m /\ n - 1 \in 0 .. m - 1 /\ n - 1 \in 0 .. m /\ n - 1 # m
        BY <2>3, <3>2
      <4>2. g[n - 1] = f[n - 1]
        BY <4>1
      <4>3. CASE n = m
        BY <4>1, <4>2, <4>3
      <4>4. CASE n # m
        BY <2>3, <2>4, <4>1, <4>2, <4>4
      <4> QED
        BY <4>3, <4>4
    <3> QED
      BY <3>1, <3>2
  <2> HIDE DEF g, Upto
  <2> QED
    BY <2>1, <2>5, <2>6
<1> QED
  <2>1. N \in 0 .. N /\ N \notin Undefined
    <3> HIDE DEF Undefined
    <3> QED
      BY <1>1
  <2>2. PICK f \in [0 .. N -> S] : Upto(N, f)
    BY <2>1
  <2>3. Rounds(f, S, N, start, F)
    BY <2>2 DEF Rounds
  <2> QED
    BY <2>3

\* Induction, for what can be written as a set of numbers.
LEMMA Induct ==
    ASSUME NEW N \in Nat, NEW P, 0 \in P, \A n \in 1 .. N : n - 1 \in P => n \in P
    PROVE  \A n \in 0 .. N : n \in P
<1> DEFINE f == [n \in 0 .. N |-> n]
<1>1. f[0] \in P /\ \A n \in 1 .. N : f[n - 1] \in P => f[n] \in P
  OBVIOUS
<1> HIDE DEF f
<1>2. \A n \in 0 .. N : f[n] \in P
  BY <1>1, LoopKeeps
<1> QED
  BY <1>2 DEF f
=============================================================================
