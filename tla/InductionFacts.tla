--------------------------- MODULE InductionFacts ---------------------------
(***************************************************************************)
(* Facts about numbers and recursion that the proofs share, in the form in *)
(* which the provers can use them: about sets, without operators for       *)
(* parameters.                                                             *)
(***************************************************************************)
EXTENDS Integers, WellFoundedInduction, TLAPS

\* Every set of natural numbers has a least one.
LEMMA LeastNumber ==
  ASSUME NEW S, S \subseteq Nat, S # {}
  PROVE  \E n \in S : \A m \in S : n <= m
<1> DEFINE less == OpToRel(<, Nat)
<1>1. IsWellFoundedOn(less, Nat) BY NatLessThanWellFounded, Zenon
<1>2. \A m, n \in Nat : m < n => <<m, n>> \in less BY Zenon DEF OpToRel
<1> HIDE DEF less
<1>3. PICK n \in S : \A m \in S : ~ (<<m, n>> \in less) BY <1>1, WFMin
<1>4. ASSUME NEW m \in S PROVE n <= m
  <2>1. m \in Nat /\ n \in Nat OBVIOUS
  <2>2. ~ (m < n) BY <1>2, <1>3, <2>1
  <2> QED BY <2>1, <2>2
<1> QED BY <1>4

\* A bounded set of natural numbers has a greatest one.
LEMMA GreatestNumber ==
  ASSUME NEW b \in Nat, NEW S, S \subseteq 0 .. b, S # {}
  PROVE  \E n \in S : \A m \in S : m <= n
<1> DEFINE below == {k \in 0 .. b : b - k \in S}
<1>1. below \subseteq Nat OBVIOUS
<1>2. below # {}
  <2>1. PICK s \in S : TRUE OBVIOUS
  <2>2. b - s \in 0 .. b /\ b - (b - s) = s BY <2>1
  <2> QED BY <2>1, <2>2
<1>3. PICK k \in below : \A j \in below : k <= j BY <1>1, <1>2, LeastNumber
<1>4. b - k \in S OBVIOUS
<1>5. ASSUME NEW m \in S PROVE m <= b - k
  <2>1. b - m \in 0 .. b /\ b - (b - m) = m OBVIOUS
  <2>2. k <= b - m BY <1>3, <2>1
  <2> QED BY <2>1, <2>2
<1> QED BY <1>4, <1>5

\* Induction up to a bound: P is the set of numbers for which the claim holds.
LEMMA UpTo ==
  ASSUME NEW N \in Nat, NEW P, 0 \in P, \A i \in 1 .. N : i - 1 \in P => i \in P
  PROVE  \A i \in 0 .. N : i \in P
<1> DEFINE left == {i \in 0 .. N : i \notin P}
<1> SUFFICES ASSUME left # {} PROVE FALSE OBVIOUS
<1>1. left \subseteq Nat OBVIOUS
<1> HIDE DEF left
<1>2. PICK n \in left : \A m \in left : n <= m BY <1>1, LeastNumber
<1> USE DEF left
<1>3. n \in 1 .. N BY <1>2
<1>4. n - 1 \in 0 .. N /\ ~(n <= n - 1) BY <1>3
<1>5. n - 1 \in P BY <1>2, <1>4
<1> QED BY <1>2, <1>3, <1>5

\* A start in S and steps from S to S, and what iterating them gives.
Steps(N, S, s0, F) == N \in Nat /\ s0 \in S /\ F \in [1 .. N -> [S -> S]]
Iterates(f, N, S, s0, F) ==
  f \in [0 .. N -> S] /\ f[0] = s0 /\ \A i \in 1 .. N : f[i] = F[i][f[i - 1]]

\* A recursive definition defines something: there is a function with the given
\* value at 0 and the given step from each value to the next.
LEMMA Recursion ==
  ASSUME NEW N, NEW S, NEW s0, NEW F, Steps(N, S, s0, F)
  PROVE  \E f : Iterates(f, N, S, s0, F)
<1> USE DEF Steps
<1> DEFINE Starts(n, f) ==
             f \in [0 .. n -> S] /\ f[0] = s0 /\ \A i \in 1 .. n : f[i] = F[i][f[i - 1]]
           P == {n \in 0 .. N : \E f : Starts(n, f)}
<1>1. 0 \in P
  <2> DEFINE g == [i \in 0 .. 0 |-> s0]
  <2>1. g \in [0 .. 0 -> S] /\ g[0] = s0 OBVIOUS
  <2>2. \A i \in 1 .. 0 : g[i] = F[i][g[i - 1]] OBVIOUS
  <2> HIDE DEF g
  <2>3. Starts(0, g) BY <2>1, <2>2
  <2> QED BY <2>3
<1>2. ASSUME NEW n \in 1 .. N, n - 1 \in P PROVE n \in P
  <2>1. PICK f : Starts(n - 1, f) BY <1>2
  <2>2. n - 1 \in 0 .. n - 1 /\ f[n - 1] \in S BY <2>1
  <2> DEFINE g == [i \in 0 .. n |-> IF i = n THEN F[n][f[n - 1]] ELSE f[i]]
  <2>3. g \in [0 .. n -> S]
    <3> SUFFICES ASSUME NEW i \in 0 .. n, i # n PROVE f[i] \in S BY <2>2
    <3>1. i \in 0 .. n - 1 OBVIOUS
    <3> QED BY <3>1, <2>1
  <2>4. g[0] = s0 BY <2>1
  <2>5. ASSUME NEW i \in 1 .. n PROVE g[i] = F[i][g[i - 1]]
    <3>1. i - 1 \in 0 .. n /\ i - 1 # n /\ g[i - 1] = f[i - 1] OBVIOUS
    <3>2. CASE i = n BY <3>1, <3>2
    <3>3. CASE i # n
      <4>1. i \in 1 .. n - 1 /\ g[i] = f[i] BY <3>3
      <4> QED BY <4>1, <3>1, <2>1
    <3> QED BY <3>2, <3>3
  <2> HIDE DEF g
  <2>6. Starts(n, g) BY <2>3, <2>4, <2>5
  <2> HIDE DEF Starts
  <2> QED BY <2>6
<1> HIDE DEF P
<1>3. \A n \in 1 .. N : n - 1 \in P => n \in P BY <1>2
<1>4. \A n \in 0 .. N : n \in P BY <1>1, <1>3, UpTo
<1>5. N \in P BY <1>4
<1> QED BY <1>5 DEF P, Iterates
=============================================================================
