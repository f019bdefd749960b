------------------------------ MODULE Recursion ------------------------------
(***************************************************************************)
(* Induction over the naturals and functions defined by recursion on them, *)
(* from the library's facts about finite sets: what the proofs about lines, *)
(* queues and archives that are gone through one by one rest on.            *)
(*                                                                         *)
(* The library's induction theorems take an operator.  Here a property is   *)
(* the set of numbers that have it, and a step of a recursion a function.   *)
(***************************************************************************)
EXTENDS Integers, FiniteSets, FiniteSetTheorems, WellFoundedInduction, TLAPS

\* A set with 0 in it, and with each number's successor, holds every number:
\* among the initial segments that end outside it none is smallest.
LEMMA NatSetInduction ==
  ASSUME NEW T, 0 \in T, \A n \in Nat : n \in T => n + 1 \in T
  PROVE  Nat \subseteq T
<1> SUFFICES ASSUME NEW n \in Nat, n \notin T PROVE FALSE
  OBVIOUS
<1> DEFINE Bad == {0..k : k \in {i \in 0..n : i \notin T}}
<1>1. Bad # {} /\ Bad \subseteq FiniteSubsetsOf(0..n)
  <2>1. 0..n \in Bad
    OBVIOUS
  <2>2. \A k \in 0..n : 0..k \subseteq 0..n /\ IsFiniteSet(0..k)
    BY FS_Interval
  <2> QED
    BY <2>1, <2>2 DEF FiniteSubsetsOf
<1>2. PICK x \in Bad : \A y \in Bad : <<y, x>> \notin StrictSubsetOrdering(0..n)
  BY <1>1, FS_StrictSubsetOrderingWellFounded, WFMin
<1>3. PICK k \in 0..n : x = 0..k /\ k \notin T
  OBVIOUS
<1>4. k # 0 /\ k - 1 \notin T
  BY <1>3
<1>5. 0..(k - 1) \in Bad
  BY <1>4
<1>6. <<0..(k - 1), x>> \in StrictSubsetOrdering(0..n)
  BY <1>3, <1>4 DEF StrictSubsetOrdering
<1> QED
  BY <1>2, <1>5, <1>6

\* The same up to a bound.
LEMMA UpTo ==
  ASSUME NEW n \in Nat, NEW T, 0 \in T, \A i \in 1..n : i - 1 \in T => i \in T
  PROVE  0..n \subseteq T
<1> DEFINE U == {k \in Nat : k <= n => k \in T}
<1>1. 0 \in U
  OBVIOUS
<1>2. \A k \in Nat : k \in U => k + 1 \in U
  OBVIOUS
<1> HIDE DEF U
<1>3. Nat \subseteq U
  BY <1>1, <1>2, NatSetInduction
<1> QED BY <1>3 DEF U

\* A set of numbers has a smallest one.
LEMMA Smallest ==
  ASSUME NEW S, S \subseteq Nat, S # {}
  PROVE  \E n \in S : \A m \in S : n <= m
<1> SUFFICES ASSUME \A n \in S : \E m \in S : m < n PROVE FALSE
  OBVIOUS
<1> DEFINE T == {n \in Nat : \A k \in 0..n : k \notin S}
<1>1. 0 \in T
  <2>1. 0 \notin S
    OBVIOUS
  <2> QED BY <2>1
<1>2. ASSUME NEW n \in Nat, n \in T PROVE n + 1 \in T
  <2>1. \A k \in 0..n : k \notin S
    BY <1>2
  <2>2. n + 1 \notin S
    BY <2>1
  <2> QED BY <2>1, <2>2
<1> HIDE DEF T
<1>3. Nat \subseteq T
  BY <1>1, <1>2, NatSetInduction
<1>4. PICK n \in S : n \in T
  BY <1>3
<1> QED BY <1>4 DEF T

\* f is the recursion that starts from c and takes step i from f[i - 1] to f[i],
\* and f[i] is in the set in[i].
Recursion(f, n, c, step, in) ==
  /\ f = [i \in 0..n |-> IF i = 0 THEN c ELSE step[i][f[i - 1]]]
  /\ \A i \in 0..n : f[i] \in in[i]

\* A recursion up to n has a value everywhere, and stays where its steps lead.
LEMMA RecursionExists ==
  ASSUME NEW n \in Nat, NEW c, NEW step, NEW in, c \in in[0],
         \A i \in 1..n : \A x \in in[i - 1] : step[i][x] \in in[i]
  PROVE  \E f : Recursion(f, n, c, step, in)
<1> DEFINE T == {k \in 0..n : \E f : Recursion(f, k, c, step, in)}
<1>1. 0 \in T
  <2> DEFINE f == [i \in 0..0 |-> c]
  <2>1. Recursion(f, 0, c, step, in)
    BY DEF Recursion
  <2> HIDE DEF f
  <2> QED BY <2>1
<1>2. ASSUME NEW k \in 1..n, k - 1 \in T PROVE k \in T
  <2>1. PICK f : Recursion(f, k - 1, c, step, in)
    BY <1>2
  <2>2. /\ f[0] = c /\ \A i \in 1..(k - 1) : f[i] = step[i][f[i - 1]]
        /\ \A i \in 0..(k - 1) : f[i] \in in[i]
    BY <2>1 DEF Recursion
  <2> DEFINE h == [i \in 0..k |-> IF i = k THEN step[k][f[k - 1]] ELSE f[i]]
  <2>3. step[k][f[k - 1]] \in in[k]
    BY <2>2
  <2>4. h[0] = c /\ \A i \in 1..k : h[i] = step[i][h[i - 1]]
    BY <2>2
  <2>5. h = [i \in 0..k |-> IF i = 0 THEN c ELSE step[i][h[i - 1]]]
    <3>1. ASSUME NEW i \in 0..k PROVE h[i] = IF i = 0 THEN c ELSE step[i][h[i - 1]]
      <4>1. i # 0 => i \in 1..k
        OBVIOUS
      <4> HIDE DEF h
      <4> QED BY <2>4, <4>1
    <3> QED BY <3>1
  <2>6. \A i \in 0..k : h[i] \in in[i]
    BY <2>2, <2>3
  <2> HIDE DEF h
  <2>7. Recursion(h, k, c, step, in)
    BY <2>5, <2>6 DEF Recursion
  <2> QED BY <2>7
<1> HIDE DEF T
<1>3. n \in T
  BY <1>1, <1>2, UpTo
<1> QED BY <1>3 DEF T

==============================================================================
