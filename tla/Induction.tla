------------------------------ MODULE Induction ------------------------------
(* Induction over the natural numbers, and functions defined by recursion over *)
(* an interval: what the proofs use for the definitions that go through a list *)
(* or a file place by place. The step of a recursion is a function from a      *)
(* place and a state to the next state.                                        *)
EXTENDS Integers, WellFoundedInduction, TLAPS

LEMMA NatLess == IsWellFoundedOn({p \in Nat \X Nat : p[1] < p[2]}, Nat)
BY NatLessThanWellFounded, SMT DEF OpToRel

(* A set of naturals that is not empty has a least element.                    *)
LEMMA LeastOfNats ==
    ASSUME NEW S, S \subseteq Nat, S # {}
    PROVE  \E i \in S : \A j \in S : i <= j
<1> DEFINE R == {p \in Nat \X Nat : p[1] < p[2]}
<1>1. IsWellFoundedOn(R, Nat)
  BY NatLess
<1> HIDE DEF R
<1>2. PICK i \in S : \A j \in S : ~(<<j, i>> \in R)
  BY <1>1, WFMin
<1>3. ASSUME NEW j \in S PROVE i <= j
  <2>1. i \in Nat /\ j \in Nat /\ ~(<<j, i>> \in R)
    BY <1>2
  <2> QED BY <2>1 DEF R
<1> QED BY <1>3

(* What holds at 0 and goes on from each number to the next holds up to N.     *)
LEMMA UpTo ==
    ASSUME NEW N \in Nat, NEW S, 0 \in S, \A i \in 1 .. N : i - 1 \in S => i \in S
    PROVE  \A i \in 0 .. N : i \in S
<1> DEFINE T == {i \in 0 .. N : i \notin S}
<1> SUFFICES ASSUME T # {} PROVE FALSE
  OBVIOUS
<1>1. PICK i \in T : \A j \in T : i <= j
  <2>1. T \subseteq Nat
    OBVIOUS
  <2> HIDE DEF T
  <2> QED BY <2>1, LeastOfNats
<1>2. i \in 1 .. N /\ i - 1 \in 0 .. N /\ i - 1 \notin T
  BY <1>1
<1> QED BY <1>1, <1>2

(* A function whose value at 0 is in Q, and stays in it, is in it everywhere.  *)
LEMMA StaysIn ==
    ASSUME NEW N \in Nat, NEW Q, NEW w, w[0] \in Q,
           \A i \in 1 .. N : w[i - 1] \in Q => w[i] \in Q
    PROVE  \A i \in 0 .. N : w[i] \in Q
<1> DEFINE S == {i \in 0 .. N : w[i] \in Q}
<1>1. 0 \in S /\ \A i \in 1 .. N : i - 1 \in S => i \in S
  OBVIOUS
<1> HIDE DEF S
<1>2. \A i \in 0 .. N : i \in S
  BY <1>1, UpTo
<1> QED BY <1>2 DEF S

\* A function defined by its value at 0 and its steps, as far as n
Follows(v, n, x, F) == v[0] = x /\ \A i \in 1 .. n : v[i] = F[<<i, v[i - 1]>>]

(* The function that a recursion of N steps within X defines exists.           *)
LEMMA RecursionExists ==
    ASSUME NEW N \in Nat, NEW X, NEW x \in X, NEW F \in [(1 .. N) \X X -> X]
    PROVE  \E v \in [0 .. N -> X] : Follows(v, N, x, F)
<1> DEFINE Defined(n) == \E v \in [0 .. n -> X] : Follows(v, n, x, F)
           S == {n \in 0 .. N : Defined(n)}
<1>1. Defined(0)
  <2> DEFINE w == [i \in 0 .. 0 |-> x]
  <2>1. w \in [0 .. 0 -> X] /\ Follows(w, 0, x, F)
    BY DEF Follows
  <2> QED BY <2>1
<1>2. ASSUME NEW n \in 1 .. N, Defined(n - 1) PROVE Defined(n)
  <2>1. PICK v \in [0 .. (n - 1) -> X] : Follows(v, n - 1, x, F)
    BY <1>2
  <2> DEFINE y == F[<<n, v[n - 1]>>]
             w == [i \in 0 .. n |-> IF i = n THEN y ELSE v[i]]
  <2>2. v[n - 1] \in X
    BY <2>1
  <2>3. y \in X
    BY <2>2
  <2>4. y = F[<<n, v[n - 1]>>]
    OBVIOUS
  <2> HIDE DEF y
  <2>5. w \in [0 .. n -> X]
    BY <2>1, <2>3
  <2>6. w[0] = x
    BY <2>1 DEF Follows
  <2>7. w[n] = y /\ \A i \in 0 .. n - 1 : w[i] = v[i]
    OBVIOUS
  <2> HIDE DEF w
  <2>8. ASSUME NEW i \in 1 .. n PROVE w[i] = F[<<i, w[i - 1]>>]
    <3>1. CASE i = n
      <4>1. w[n - 1] = v[n - 1]
        BY <2>7
      <4> QED BY <2>4, <2>7, <3>1, <4>1
    <3>2. CASE i # n
      <4>1. i \in 1 .. (n - 1) /\ w[i] = v[i] /\ w[i - 1] = v[i - 1]
        BY <2>7, <3>2
      <4> QED BY <2>1, <4>1 DEF Follows
    <3> QED BY <3>1, <3>2
  <2>9. Follows(w, n, x, F)
    BY <2>6, <2>8 DEF Follows
  <2> QED BY <2>5, <2>9
<1> HIDE DEF Defined
<1>3. 0 \in S /\ \A n \in 1 .. N : n - 1 \in S => n \in S
  BY <1>1, <1>2
<1> HIDE DEF S
<1>4. N \in S
  <2>1. \A n \in 0 .. N : n \in S
    BY <1>3, UpTo
  <2> QED BY <2>1
<1> QED BY <1>4 DEF S, Defined

\* ... and it is the function that equals its own steps
GoesBy(v, n, x, F) == v = [i \in 0 .. n |-> IF i = 0 THEN x ELSE F[<<i, v[i - 1]>>]]

LEMMA RecursionEquation ==
    ASSUME NEW N \in Nat, NEW X, NEW x \in X, NEW F \in [(1 .. N) \X X -> X]
    PROVE  \E v \in [0 .. N -> X] : GoesBy(v, N, x, F)
<1>1. PICK v \in [0 .. N -> X] : Follows(v, N, x, F)
  BY RecursionExists
<1>2. v = [i \in 0 .. N |-> v[i]]
  BY <1>1
<1>3. ASSUME NEW i \in 0 .. N PROVE v[i] = IF i = 0 THEN x ELSE F[<<i, v[i - 1]>>]
  <2>1. i = 0 \/ i \in 1 .. N
    OBVIOUS
  <2> QED BY <1>1, <2>1 DEF Follows
<1> QED BY <1>1, <1>2, <1>3 DEF GoesBy
=============================================================================
